-------------------------- MODULE AtMostOnceCalls --------------------------
(***************************************************************************)
(* What the way from an MCP tool call to the extension's tool handler      *)
(* promises, whatever happens to the connection between the two processes: *)
(* a handler runs at most once for a call, a call is answered at most once,*)
(* a result or tool error is the one the handler produced, and only a call *)
(* that was withdrawn is reported as cancelled.  A call that is reported   *)
(* as unavailable or cancelled may still run.                              *)
(***************************************************************************)

CONSTANTS Calls \* the tool calls

VARIABLES handler,  \* what the handler of a call has done
          outcome,  \* what the client was told
          withdrawn \* the calls whose abort signal has fired

acVars == <<handler, outcome, withdrawn>>

\* How a handler ends by itself; "lost" is the end of its process.
Ends == {"result", "error"}
HandlerStates == {"none", "running", "lost"} \cup Ends
Outcomes == {"none", "cancelled", "unavailable"} \cup Ends

ACInit ==
    /\ handler = [c \in Calls |-> "none"]
    /\ outcome = [c \in Calls |-> "none"]
    /\ withdrawn = {}

Start(c) ==
    /\ handler[c] = "none"
    /\ handler' = [handler EXCEPT ![c] = "running"]
    /\ UNCHANGED <<outcome, withdrawn>>

End(c) ==
    /\ handler[c] = "running"
    /\ \E how \in Ends : handler' = [handler EXCEPT ![c] = how]
    /\ UNCHANGED <<outcome, withdrawn>>

Lose(S) ==
    /\ \A c \in S : handler[c] = "running"
    /\ handler' = [c \in Calls |-> IF c \in S THEN "lost" ELSE handler[c]]
    /\ UNCHANGED <<outcome, withdrawn>>

Report(c) ==
    /\ outcome[c] = "none" /\ handler[c] \in Ends
    /\ outcome' = [outcome EXCEPT ![c] = handler[c]]
    /\ UNCHANGED <<handler, withdrawn>>

\* The signal fires; the call may be told at once, later or never.
Withdraw(c) ==
    /\ withdrawn' = withdrawn \cup {c}
    /\ \/ UNCHANGED outcome
       \/ outcome[c] = "none" /\ outcome' = [outcome EXCEPT ![c] = "cancelled"]
    /\ UNCHANGED handler

ReportCancelled(c) ==
    /\ outcome[c] = "none" /\ c \in withdrawn
    /\ outcome' = [outcome EXCEPT ![c] = "cancelled"]
    /\ UNCHANGED <<handler, withdrawn>>

ReportUnavailable(S) ==
    /\ \A c \in S : outcome[c] = "none"
    /\ outcome' = [c \in Calls |->
                     IF c \in S THEN "unavailable" ELSE outcome[c]]
    /\ UNCHANGED <<handler, withdrawn>>

ACNext ==
    \/ \E c \in Calls :
         \/ Start(c) \/ End(c)
         \/ Report(c) \/ Withdraw(c) \/ ReportCancelled(c)
    \/ \E S \in SUBSET Calls : Lose(S) \/ ReportUnavailable(S)

ACSpec == ACInit /\ [][ACNext]_acVars
=============================================================================
