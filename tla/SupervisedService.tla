-------------------------- MODULE SupervisedService --------------------------
(***************************************************************************)
(* What the interface ServiceHandler (pkg/handlers/ServiceHandler.go)      *)
(* promises of the health checks of a service, whoever calls it and        *)
(* however often: checks come one at a time, a single one gives one        *)
(* answer, and a perpetual one goes on until a call of Stop ends it, one   *)
(* call for each check.                                                    *)
(*                                                                         *)
(* The child, the flag healthCheckRunning and the channels are left out:   *)
(* ServiceHandler implements this specification with them, and Microkubed  *)
(* relies on it for each of its services.                                  *)
(***************************************************************************)
EXTENDS Naturals

VARIABLES
    mode,     \* the check under way, if any
    calls,    \* calls of Stop that have not yet had their effect
    answers   \* health messages that nobody has received yet

vars == <<mode, calls, answers>>

Init ==
    /\ mode = "off"
    /\ calls = 0
    /\ answers = 0

\* EnableHealthChecks starts a check, either for one probe or perpetual.
Check ==
    /\ mode = "off"
    /\ mode' \in {"once", "always"}
    /\ UNCHANGED <<calls, answers>>

\* A probe has come to its result.
Answer ==
    /\ mode \in {"once", "always"}
    /\ mode' = IF mode = "once" THEN "answered" ELSE mode
    /\ answers' = answers + 1
    /\ UNCHANGED calls

\* A single check is over.
Finish ==
    /\ mode = "answered"
    /\ mode' = "off"
    /\ UNCHANGED <<calls, answers>>

Receive ==
    /\ answers > 0
    /\ answers' = answers - 1
    /\ UNCHANGED <<mode, calls>>

Stop ==
    /\ calls' = calls + 1
    /\ UNCHANGED <<mode, answers>>

\* A call of Stop ends a perpetual check.
End ==
    /\ mode = "always"
    /\ calls > 0
    /\ mode' = "off"
    /\ calls' = calls - 1
    /\ UNCHANGED answers

\* A call of Stop that meets no check does nothing.
Dismiss ==
    /\ mode = "off"
    /\ calls > 0
    /\ calls' = calls - 1
    /\ UNCHANGED <<mode, answers>>

Next == Check \/ Answer \/ Finish \/ Receive \/ Stop \/ End \/ Dismiss

Spec == Init /\ [][Next]_vars

\* A single check that has answered ends, and a perpetual one ends when Stop
\* has been called.
Fairness == WF_vars(Finish) /\ WF_vars(End)

FairSpec == Spec /\ Fairness
=============================================================================
