---------------------------- MODULE HealthCheck ----------------------------
(***************************************************************************)
(* What one health check concludes: healthCheckFun of BaseServiceHandler   *)
(* (pkg/handlers/BaseServiceHandler.go) with the validator of each service *)
(* (pkg/handlers/etcd, pkg/handlers/kube).  ServiceHandler says when a     *)
(* check runs and who gets its verdict.                                    *)
(*                                                                         *)
(* The service opens and closes its port and changes its health at any     *)
(* time, also between two requests of the check.  The body of an answer is *)
(* abstracted to what the validators tell apart.  A GET that is never      *)
(* answered is a matter of ServiceHandler.                                 *)
(***************************************************************************)
EXTENDS Integers

CONSTANTS
    FirstWait,  \* first pause after a dial error (100 ms in the code)
    Limit       \* no request after a pause that was longer (7000 ms)

ASSUME BackoffConstants ==
    /\ FirstWait \in Nat \ {0}
    /\ Limit \in Nat /\ Limit >= FirstWait

Services ==
    {"etcd", "apiserver", "controllermanager", "scheduler", "kubelet", "proxy"}

VARIABLES
    service,   \* the service that is checked
    caFile,    \* the CA file: can be read, can be parsed
    keyPair,   \* can the client's certificate and key be loaded?
    port,      \* is the port of the service open?
    health,    \* what the service would answer
    pc,        \* where the check is
    waitTime,  \* the next pause
    slept,     \* time spent in pauses
    body,      \* the answer
    verdict    \* the result of the check

files == <<service, caFile, keyPair>>
vars  == <<files, port, health, pc, waitTime, slept, body, verdict>>

CaFiles  == {"good", "unreadable", "garbage"}
Bodies   == {"healthy", "unhealthy", "malformed", "cut"}
Verdicts == {"none", "healthy", "noFiles", "timeout", "failed", "unhealthy"}

\* Bound: slept counts up to SleptCap, which no check reaches.
SleptCap == 4 * Limit

Sleep == slept' = IF slept + waitTime < SleptCap THEN slept + waitTime
                                                ELSE SleptCap

TypeOK ==
    /\ service \in Services
    /\ caFile \in CaFiles /\ keyPair \in BOOLEAN
    /\ port \in BOOLEAN
    /\ health \in Bodies
    /\ pc \in {"load", "get", "pause", "validate", "done"}
    /\ waitTime \in FirstWait .. 2 * Limit
    /\ slept \in 0..SleptCap-1
    /\ body \in Bodies \cup {"none"}
    /\ verdict \in Verdicts

Init ==
    /\ service \in Services
    /\ caFile \in CaFiles /\ keyPair \in BOOLEAN
    /\ port = FALSE /\ health \in Bodies
    /\ pc = "load"
    /\ waitTime = FirstWait /\ slept = 0
    /\ body = "none" /\ verdict = "none"

-----------------------------------------------------------------------------
(* The service.                                                            *)

PortChanges ==
    /\ pc # "done"
    /\ port' = ~port
    /\ UNCHANGED <<files, health, pc, waitTime, slept, body, verdict>>

HealthChanges ==
    /\ pc # "done"
    /\ health' \in Bodies \ {health}
    /\ UNCHANGED <<files, port, pc, waitTime, slept, body, verdict>>

-----------------------------------------------------------------------------
(* healthCheckFun.                                                         *)

Conclude(v) == pc' = "done" /\ verdict' = v

\* Services whose handler has been given a CA; kube-scheduler and kube-proxy
\* are asked without one.
WithCA == Services \ {"scheduler", "proxy"}

\* The CA and the client's key pair are loaded anew for each check.  A CA file
\* that holds no certificate makes the check return errors.Wrap of a nil error,
\* which is nil.
LoadFiles ==
    /\ pc = "load"
    /\ IF service \notin WithCA THEN pc' = "get" /\ UNCHANGED verdict
       ELSE CASE caFile = "unreadable" -> Conclude("noFiles")
              [] caFile # "unreadable" /\ ~keyPair -> Conclude("noFiles")
              [] caFile = "garbage" /\ keyPair -> Conclude("healthy")
              [] OTHER -> pc' = "get" /\ UNCHANGED verdict
    /\ UNCHANGED <<files, port, health, waitTime, slept, body>>

\* Mutant: one pause fewer.
DialFailsImpatient ==
    /\ pc = "get"
    /\ ~port
    /\ IF 2 * waitTime > Limit THEN Conclude("timeout")
                               ELSE pc' = "pause" /\ UNCHANGED verdict
    /\ UNCHANGED <<files, port, health, waitTime, slept, body>>

\* The GET cannot connect: it is tried again after a pause, until the pause
\* would be longer than Limit.
DialFails ==
    /\ pc = "get"
    /\ ~port
    /\ IF waitTime > Limit THEN Conclude("timeout")
                           ELSE pc' = "pause" /\ UNCHANGED verdict
    /\ UNCHANGED <<files, port, health, waitTime, slept, body>>

\* Mutant: the pause does not double.
PauseSame ==
    /\ pc = "pause"
    /\ Sleep
    /\ pc' = "get"
    /\ UNCHANGED <<files, port, health, waitTime, body, verdict>>

Pause ==
    /\ pc = "pause"
    /\ Sleep
    /\ waitTime' = 2 * waitTime
    /\ pc' = "get"
    /\ UNCHANGED <<files, port, health, body, verdict>>

\* Any other error of the GET, as a failed TLS handshake, ends the check.
GetFails ==
    /\ pc = "get"
    /\ Conclude("failed")
    /\ UNCHANGED <<files, port, health, waitTime, slept, body>>

GetAnswered ==
    /\ pc = "get"
    /\ port
    /\ body' = health
    /\ pc' = "validate"
    /\ UNCHANGED <<files, port, health, waitTime, slept, verdict>>

-----------------------------------------------------------------------------
(* The validators.                                                         *)

Json == {"etcd", "proxy"}   \* the others answer a plain "ok"

\* Mutant: every answer that can be read to its end will do.
TextVerdictAny(b) == IF b = "cut" THEN "unhealthy" ELSE "healthy"

\* The body must be read to its end and be "ok".
TextVerdict(b) == IF b = "healthy" THEN "healthy" ELSE "unhealthy"

\* The body must parse.  One that parses but does not say that the service is
\* healthy makes the validator return errors.Wrap of a nil error, which is nil.
JsonVerdict(b) == IF b \in {"malformed", "cut"} THEN "unhealthy" ELSE "healthy"

Validate ==
    /\ pc = "validate"
    /\ Conclude(IF service \in Json THEN JsonVerdict(body)
                                    ELSE TextVerdict(body))
    /\ UNCHANGED <<files, port, health, waitTime, slept, body>>

Next ==
    \/ PortChanges \/ HealthChanges
    \/ LoadFiles
    \/ DialFails \/ Pause \/ GetFails \/ GetAnswered
    \/ Validate

Spec == Init /\ [][Next]_vars

\* The check itself goes on; what the service does is up to the service.
FairSpec ==
    Spec /\ WF_vars(LoadFiles \/ DialFails \/ Pause \/ GetAnswered \/ Validate)

-----------------------------------------------------------------------------
(* Properties.                                                             *)

\* A service that answers "ok" when it is healthy is reported healthy only on
\* such an answer, whatever came before it in the same check; and the two that
\* answer in JSON only on an answer that parses
\* (KubeAPIServerHandler.go:174-183, EtcdHandler.go:117-130).  A CA file without
\* a certificate is excepted: it makes a check healthy before any request, the
\* error that is wrapped being nil (BaseServiceHandler.go:102-104).
HealthyMeansOk ==
    verdict = "healthy" /\ (service \in WithCA => caFile = "good") =>
        IF service \in Json THEN body \in {"healthy", "unhealthy"}
                            ELSE body = "healthy"

\* The check gives a service that is starting nearly Limit at least to open its
\* port, and gives up before twice that time (BaseServiceHandler.go:124-135).
PatientEnough ==
    /\ verdict = "timeout" => slept + FirstWait > Limit
    /\ slept < 2 * Limit

\* The check comes to a verdict although the service may open and close its
\* port all the time (BaseServiceHandler.go:125-142).
CheckEnds == <>(pc = "done")

\* The result says whether the service is healthy (ServiceHandler.go:32): an
\* answer that says it is not is not reported as healthy.
UnhealthyReported == body = "unhealthy" => verdict # "healthy"
=============================================================================
