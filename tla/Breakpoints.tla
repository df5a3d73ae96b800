---------------------------- MODULE Breakpoints ----------------------------
(***************************************************************************)
(* BreakpointRegistry (src/debug/breakpointRegistry.ts) in the extension   *)
(* whose life Activation describes: clients reach it through the host,     *)
(* and the editor's notices through one of the lifecycle hooks.  The       *)
(* editor's breakpoints belong to all: clients and the user add and remove *)
(* them, and the registry learns of a removal by a notice that comes       *)
(* later.                                                                  *)
(*                                                                         *)
(* VS Code is external: it keeps a breakpoint's object while it is edited, *)
(* and delivers its notices one by one.  Paths are abstracted: every       *)
(* breakpoint is at a file of the workspace.  Every record has a reference *)
(* of its own, so it is named here by its breakpoint.                      *)
(***************************************************************************)
EXTENDS Activation

CONSTANT Objects \* breakpoint objects, each of which is added at most once

VARIABLES editor,  \* the breakpoints VS Code has
          byMcp,   \* history: the objects that were added through a tool
          byUser,  \* history: the objects that the user added
          owned,   \* the keys of #byObject, the records of #byReference
          notices  \* removals VS Code has not yet told the extension of

registryVars == <<editor, byMcp, byUser, owned, notices>>

BreakpointsInit ==
    /\ ActivationInit
    /\ editor = {} /\ byMcp = {} /\ byUser = {}
    /\ owned = {} /\ notices = {}

Fresh(b) == b \notin byMcp \cup byUser

\* The hooks are in place, onDidChangeBreakpoints among them.
Hooked == hooks = Hooks

-----------------------------------------------------------------------------
\* add: VS Code has the breakpoint before the registry has its reference.
Add(b) ==
    /\ host = "open" /\ Fresh(b)
    /\ editor' = editor \cup {b}
    /\ byMcp' = byMcp \cup {b}
    /\ owned' = owned \cup {b}
    /\ UNCHANGED <<activationVars, byUser, notices>>

\* #forget
Forget(b) == owned' = owned \ {b}

\* VS Code tells of what left the editor, if anybody listens.
Notify(b) == notices' = IF b \in editor /\ Hooked THEN notices \cup {b} ELSE notices

\* remove: also of a breakpoint that the user has removed, as long as its
\* notice has not come.
Remove(b) ==
    /\ host = "open" /\ b \in owned
    /\ editor' = editor \ {b}
    /\ Notify(b)
    /\ Forget(b)
    /\ UNCHANGED <<activationVars, byMcp, byUser>>

\* Fault: the registry waits to be told of what it has removed itself, and
\* takes any other notice for such a one.
NoticedIfKnown(b) == b \in owned /\ b \in editor

\* The removed object has a record.
Noticed(b) == b \in owned

\* acceptChanges of a removal; additions and changes are of no interest.
AcceptRemoval(b) ==
    /\ b \in notices /\ Hooked
    /\ notices' = notices \ {b}
    /\ IF Noticed(b) THEN Forget(b) ELSE UNCHANGED owned
    /\ UNCHANGED <<activationVars, editor, byMcp, byUser>>

UserAdds(b) ==
    /\ Fresh(b)
    /\ editor' = editor \cup {b}
    /\ byUser' = byUser \cup {b}
    /\ UNCHANGED <<activationVars, byMcp, owned, notices>>

\* The user removes any breakpoint, whoever added it.
UserRemoves(b) ==
    /\ b \in editor
    /\ editor' = editor \ {b}
    /\ Notify(b)
    /\ UNCHANGED <<activationVars, byMcp, byUser, owned>>

BreakpointsNext ==
    \/ ActivationNext /\ UNCHANGED registryVars
    \/ \E b \in Objects : Add(b) \/ Remove(b) \/ AcceptRemoval(b)
                          \/ UserAdds(b) \/ UserRemoves(b)

BreakpointsSpec ==
    /\ BreakpointsInit /\ [][BreakpointsNext]_<<activationVars, registryVars>>
    /\ Fairness

-----------------------------------------------------------------------------
(* Properties.                                                             *)

\* As long as the extension runs, what its clients may remove is what they have
\* added and the editor still has - plus, for the time a notice takes, what the
\* user has just removed.  That holds to the last moment at which a client can
\* reach the registry, in the middle of a disposal: the hook that brings the
\* notices goes after the host.
OwnershipFollowsTheEditor ==
    /\ editor \cap byMcp \subseteq owned
    /\ Hooked \/ host = "open" => owned \ editor \subseteq notices
=============================================================================
