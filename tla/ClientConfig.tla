---------------------------- MODULE ClientConfig ----------------------------
(***************************************************************************)
(* The commands that configure an external client in a workspace:          *)
(* runCommand (src/external/config/externalClientCommands.ts), the two     *)
(* project configuration editors and AtomicWorkspaceFile, at work on one   *)
(* file that other programs write too.                                     *)
(*                                                                         *)
(* A revision is the hash of a file's bytes, so comparing revisions is     *)
(* comparing contents.  Of a content the model keeps the entry under the   *)
(* extension's server name and the rest.  Every await of the code at which *)
(* something else may happen ends an action.  A temporary file has a       *)
(* random name that nobody else knows; only its rename or link is a step.  *)
(***************************************************************************)
EXTENDS Naturals

CONSTANTS Commands,   \* invocations that may be under way at the same time
          Recognized, \* the launcher versions this extension recognises
          Current,    \* the version it writes
          None,       \* no file, no ownership record
          MaxEdits    \* bound on the writes of other programs

ASSUME VersionAssumption == Current \in Recognized
ASSUME NameAssumption == {"none", "foreign"} \cap Recognized = {}
ASSUME BoundAssumption == MaxEdits \in Nat

VARIABLES client,    \* whose file it is; never changes
          file,      \* the configuration file
          owner,     \* Claude's ownership record: the version it vouches for
          pc,        \* per command: what it does next,
          base,      \* the content it inspected,
          seen,      \* the state it found that to be in,
          record,    \* the ownership record it goes by,
          action,    \* what it was told to do,
          undo,      \* and whether it is restoring the file
          edits,     \* counts the writes of other programs
          disturbed, \* history: commands that were not alone, or whose
                     \* compensation met an error
          raced      \* history: commands since whose last check another wrote

knowledge == <<base, seen, record, action, undo>>
vars == <<client, file, owner, pc, knowledge, edits, disturbed, raced>>

-----------------------------------------------------------------------------
(* Contents and what the editors make of them.                             *)

\* "foreign" is an entry that is not canonical or of another version, and
\* any file that cannot be parsed.  Codex's managed entries carry markers.
Shapes == [entry : {"none", "foreign"} \cup Recognized,
           marked : BOOLEAN, rest : {"bare", "other"}]

ASSUME NoneAssumption == None \notin Shapes

Contents ==
    {k \in Shapes :
       k.marked => client = "codex" /\ k.entry \in Recognized}

Managed(k, r) == IF client = "codex" THEN k.marked ELSE r = k.entry

\* The state of a file k beside an ownership record r.
Classify(k, r) ==
    IF k = None \/ k.entry = "none" THEN "absent"
    ELSE IF k.entry = "foreign" THEN "conflict"
    ELSE IF Managed(k, r) THEN IF k.entry = Current THEN "managed-current"
                                                    ELSE "managed-outdated"
    ELSE IF r = None THEN "compatible-unmanaged" ELSE "conflict"

Actions == {"configure", "adopt", "update", "remove"}

\* What may be done in a state: nothing about a conflict.
Offered(s) ==
    {a \in Actions :
       \/ a = "configure" /\ s = "absent"
       \/ a = "adopt" /\ s = "compatible-unmanaged"
       \/ a = "update" /\ s = "managed-outdated"
       \/ a = "remove" /\ s \in {"managed-current", "managed-outdated"}}

\* An edit touches the entry and nothing else of the file.
Edited(k, a) ==
    [entry  |-> IF a = "remove" THEN "none" ELSE Current,
     marked |-> a # "remove" /\ client = "codex",
     rest   |-> IF k = None THEN "bare" ELSE k.rest]

\* Adopting is writing markers for Codex, and only recording for Claude.
Writes(a) == client = "codex" \/ a # "adopt"

-----------------------------------------------------------------------------
Init ==
    /\ client \in {"claude", "codex"}
    /\ file \in {None} \cup Contents
    /\ owner \in IF client = "claude" THEN {None} \cup Recognized ELSE {None}
    /\ pc = [c \in Commands |-> "idle"]
    /\ base = [c \in Commands |-> None]
    /\ seen = [c \in Commands |-> "absent"]
    /\ record = [c \in Commands |-> None]
    /\ action = [c \in Commands |-> "configure"]
    /\ undo = [c \in Commands |-> FALSE]
    /\ edits = 0
    /\ disturbed = {} /\ raced = {}

At(c, step) == pc[c] = step

Working(c) == pc[c] \notin {"idle", "done"}

\* What replace or remove of a command expects to find, and leaves: when it
\* undoes its work the two change places.
Expected(c) ==
    IF undo[c] THEN Edited(base[c], action[c]) ELSE base[c]
Target(c) ==
    IF undo[c] THEN base[c] ELSE Edited(base[c], action[c])

\* A write of the file, or of the record, disturbs whoever is at work.
Disturb(c) == disturbed' = disturbed \cup {d \in Commands \ {c} : Working(d)}
Race(c) ==
    raced' = (raced \cup {d \in Commands : At(d, "committing")}) \ {c}

UnchangedWorld == UNCHANGED <<client, file, owner, edits>>
UnchangedHistory == UNCHANGED <<disturbed, raced>>

Goto(c, step) == pc' = [pc EXCEPT ![c] = step] /\ UNCHANGED knowledge

\* A command that ends takes what it knows with it.
Settle(c, how) ==
    /\ pc' = [pc EXCEPT ![c] = how]
    /\ base' = [base EXCEPT ![c] = None]
    /\ seen' = [seen EXCEPT ![c] = "absent"]
    /\ record' = [record EXCEPT ![c] = None]
    /\ action' = [action EXCEPT ![c] = "configure"]
    /\ undo' = [undo EXCEPT ![c] = FALSE]

-----------------------------------------------------------------------------
(* runCommand: inspect, offer, choose.                                     *)

Run(c) ==
    /\ ~Working(c)
    /\ Goto(c, "reading")
    /\ disturbed' = disturbed \ {c}
    /\ UNCHANGED raced /\ UnchangedWorld

Read(c) ==
    /\ At(c, "reading")
    /\ pc' = [pc EXCEPT ![c] = "inspecting"]
    /\ base' = [base EXCEPT ![c] = file]
    /\ UNCHANGED <<seen, record, action, undo>>
    /\ UnchangedWorld /\ UnchangedHistory

Inspect(c) ==
    /\ At(c, "inspecting")
    /\ pc' = [pc EXCEPT ![c] = "choosing"]
    /\ seen' = [seen EXCEPT ![c] = Classify(base[c], owner)]
    /\ UNCHANGED <<base, record, action, undo>>
    /\ UnchangedWorld /\ UnchangedHistory

Choose(c) ==
    /\ At(c, "choosing")
    /\ \E a \in Offered(seen[c]) : action' = [action EXCEPT ![c] = a]
    /\ pc' = [pc EXCEPT ![c] = "rereading"]
    /\ UNCHANGED <<base, seen, record, undo>>
    /\ UnchangedWorld /\ UnchangedHistory

\* The user dismisses the offer or only opens the file, or the workspace is
\* no longer trusted or open when the choice comes back.
Cancel(c) ==
    /\ At(c, "choosing")
    /\ Settle(c, "idle")
    /\ UnchangedWorld /\ UnchangedHistory

(* apply: inspect again, and go on only if nothing has changed.            *)

Reread(c) ==
    /\ At(c, "rereading") /\ file = base[c]
    /\ Goto(c, "comparing")
    /\ UnchangedWorld /\ UnchangedHistory

Compare(c) ==
    /\ At(c, "comparing")
    /\ Classify(base[c], owner) = seen[c]
    /\ record' = [record EXCEPT ![c] = owner]
    /\ pc' = [pc EXCEPT ![c] = IF Writes(action[c])
                               THEN "preparing" ELSE "recording"]
    /\ UNCHANGED <<base, seen, action, undo>>
    /\ UnchangedWorld /\ UnchangedHistory

\* replace and remove: one check before the temporary file is made, a second
\* one when it is complete, and then the mutation.
Check(c) ==
    /\ At(c, "preparing") /\ file = Expected(c)
    /\ Goto(c, "rechecking")
    /\ UnchangedWorld /\ UnchangedHistory

Recheck(c) ==
    /\ At(c, "rechecking") /\ file = Expected(c)
    /\ Goto(c, "committing")
    /\ raced' = raced \ {c}
    /\ UNCHANGED disturbed /\ UnchangedWorld

\* CONFIG_CHANGED: the file, or for Claude the record, is not what the command
\* goes by; a link finds a file, an unlink finds none.  When the command was
\* undoing its work it leaves things as they are.
Changed(c) ==
    /\ \/ pc[c] \in {"rereading", "preparing", "rechecking"}
          /\ file # Expected(c)
       \/ At(c, "comparing") /\ Classify(base[c], owner) # seen[c]
       \/ At(c, "committing") /\ Expected(c) = None /\ file # None
       \/ At(c, "committing") /\ Target(c) = None /\ file = None
    /\ Settle(c, "idle")
    /\ raced' = raced \ {c}
    /\ UNCHANGED disturbed /\ UnchangedWorld

\* A read, the temporary file or the mutation fails.
Fails(c) ==
    /\ pc[c] \in {"reading", "rereading", "preparing", "rechecking",
                      "committing"}
    /\ Settle(c, "idle")
    /\ disturbed' = IF undo[c] THEN disturbed \cup {c} ELSE disturbed
    /\ raced' = raced \ {c}
    /\ UnchangedWorld

Mutate(c) ==
    /\ file' = Target(c)
    /\ IF undo[c] THEN Settle(c, "idle")
       ELSE IF client = "codex" THEN Settle(c, "done")
       ELSE Goto(c, "recording")
    /\ Disturb(c) /\ Race(c)
    /\ UNCHANGED <<client, owner, edits>>

\* The rename replaces whatever is there by now.
Rename(c) ==
    /\ At(c, "committing") /\ Expected(c) # None /\ Target(c) # None
    /\ Mutate(c)

\* Fault: a new file is renamed into place as well.
LinkByRename(c) ==
    /\ At(c, "committing") /\ Expected(c) = None
    /\ Mutate(c)

\* The hard link that publishes a new file never replaces one.
Link(c) ==
    /\ At(c, "committing") /\ Expected(c) = None /\ file = None
    /\ Mutate(c)

Unlink(c) ==
    /\ At(c, "committing") /\ Target(c) = None /\ file # None
    /\ Mutate(c)

-----------------------------------------------------------------------------
(* Claude's ownership record, in the workspace state of the extension.     *)

Vouched(c) ==
    IF action[c] = "remove" THEN None
    ELSE IF action[c] = "adopt" THEN base[c].entry
    ELSE Current

Record(c) ==
    /\ At(c, "recording")
    /\ owner' = Vouched(c)
    /\ Settle(c, "done")
    /\ Disturb(c)
    /\ UNCHANGED <<client, file, edits, raced>>

\* A failed update may have taken effect.  Nothing undoes that of an
\* adoption.
RecordFails(c) ==
    /\ At(c, "recording")
    /\ owner' \in {owner, Vouched(c)}
    /\ IF action[c] = "adopt"
       THEN /\ Settle(c, "idle")
            /\ disturbed' = disturbed \cup {d \in Commands : Working(d)
                                              /\ (d = c => owner' # owner)}
       ELSE /\ Goto(c, "unrecording")
            /\ Disturb(c)
    /\ UNCHANGED <<client, file, edits, raced>>

\* Fault: the file is left as it was written.
RestoreRecordOnly(c) ==
    /\ At(c, "unrecording")
    /\ owner' = record[c]
    /\ Settle(c, "idle")
    /\ Disturb(c)
    /\ UNCHANGED <<client, file, edits, raced>>

\* restoreOwnership, whose failure is ignored, and then restoreFile.
RestoreRecord(c) ==
    /\ At(c, "unrecording")
    /\ pc' = [pc EXCEPT ![c] = "preparing"]
    /\ undo' = [undo EXCEPT ![c] = TRUE]
    /\ UNCHANGED <<base, seen, record, action>>
    /\ \/ /\ owner' = record[c]
          /\ Disturb(c)
       \/ /\ UNCHANGED owner
          /\ disturbed' = disturbed \cup {c}
    /\ UNCHANGED <<client, file, edits, raced>>

-----------------------------------------------------------------------------
(* The rest of the world.                                                  *)

\* The user or another program writes, creates or deletes the file.
OthersWrite ==
    /\ edits < MaxEdits
    /\ edits' = edits + 1
    /\ file' \in ({None} \cup Contents) \ {file}
    /\ disturbed' = disturbed \cup {d \in Commands : Working(d)}
    /\ raced' = raced \cup {d \in Commands : At(d, "committing")}
    /\ UNCHANGED <<client, owner, pc, knowledge>>

\* The extension host ends: the commands are gone, file and record remain.
HostEnds ==
    /\ \E c \in Commands : Working(c)
    /\ pc' = [c \in Commands |-> "idle"]
    /\ base' = [c \in Commands |-> None]
    /\ seen' = [c \in Commands |-> "absent"]
    /\ record' = [c \in Commands |-> None]
    /\ action' = [c \in Commands |-> "configure"]
    /\ undo' = [c \in Commands |-> FALSE]
    /\ disturbed' = Commands
    /\ raced' = {}
    /\ UNCHANGED <<client, file, owner, edits>>

Next ==
    \/ \E c \in Commands :
         \/ Run(c) \/ Read(c) \/ Inspect(c) \/ Choose(c) \/ Cancel(c)
         \/ Reread(c) \/ Compare(c) \/ Check(c) \/ Recheck(c)
         \/ Changed(c) \/ Fails(c) \/ Rename(c) \/ Link(c) \/ Unlink(c)
         \/ Record(c) \/ RecordFails(c) \/ RestoreRecord(c)
    \/ OthersWrite \/ HostEnds

Spec == Init /\ [][Next]_vars

-----------------------------------------------------------------------------
(* Properties.                                                             *)

States == {"absent", "conflict", "compatible-unmanaged",
           "managed-current", "managed-outdated"}
Applying == {"preparing", "rechecking", "committing", "recording", "unrecording"}
Steps == {"idle", "reading", "inspecting", "choosing", "rereading", "comparing",
          "done"} \cup Applying

\* Types: what a command holds was once a content of the file, and Codex has
\* no ownership record.
TypeOK ==
    /\ client \in {"claude", "codex"}
    /\ file \in {None} \cup Contents
    /\ owner \in {None} \cup Recognized
    /\ client = "codex" => owner = None
    /\ pc \in [Commands -> Steps]
    /\ base \in [Commands -> {None} \cup Contents]
    /\ seen \in [Commands -> States]
    /\ record \in [Commands -> {None} \cup Recognized]
    /\ action \in [Commands -> Actions]
    /\ undo \in [Commands -> BOOLEAN]
    /\ \A c \in Commands :
         undo[c] => pc[c] \in {"preparing", "rechecking", "committing"}
    /\ edits \in 0..MaxEdits
    /\ raced \subseteq {c \in Commands : At(c, "committing")}

\* The step with which c changes the file.
Changes(c) == At(c, "committing") /\ pc'[c] # "committing" /\ file' # file

\* Who may change an entry: whoever finds none, whoever undoes its own work,
\* whoever was told to adopt it and whoever finds it managed.
MayTouch(c) ==
    \/ undo[c]
    \/ file = None
    \/ file.entry = "none"
    \/ /\ file.entry \in Recognized
       /\ action[c] = "adopt" \/ Managed(file, record[c])

\* A command changes the file only from what it has inspected, only the entry
\* and only one that is its to change.  The exception is the window between
\* the last check and a rename or unlink; a creation has no such window.
OnlyOwnEntryChanges ==
    [][\A c \in Commands : Changes(c) =>
         \/ c \in raced /\ Expected(c) # None
         \/ /\ file = Expected(c) /\ MayTouch(c)
            /\ file # None /\ file' # None => file'.rest = file.rest]_vars

\* The state that an action leads to.
Goal(c) ==
    CASE action[c] = "remove" -> {"absent"}
      [] action[c] = "adopt" -> {"managed-current", "managed-outdated"}
      [] OTHER -> {"managed-current"}

\* apply has ended, and nobody else wrote the file or the record since the
\* command began: it succeeded and the client is configured as asked, or file
\* and record are as they were, also when recording failed after the file had
\* been replaced (unless undoing that met an error of its own).
AllOrNothing ==
    [][\A c \in Commands :
         /\ pc[c] \in Applying
         /\ ~Working(c)' /\ c \notin disturbed'
         => IF pc'[c] = "done"
            THEN Classify(file', owner') \in Goal(c)
            ELSE file' = base[c] /\ owner' = record[c]]_vars
=============================================================================
