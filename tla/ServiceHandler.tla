--------------------------- MODULE ServiceHandler ---------------------------
(***************************************************************************)
(* One supervised service of microkube: the child process that CmdHandler  *)
(* (pkg/helpers/CmdHelper.go) runs and the health checks and the Stop      *)
(* protocol of BaseServiceHandler (pkg/handlers/BaseServiceHandler.go),    *)
(* as every service handler (etcd, kube-apiserver, ...) uses them.         *)
(*                                                                         *)
(* Goroutines: one client that calls Start and EnableHealthChecks, any     *)
(* number of Stoppers that call Stop, the health check goroutines          *)
(* ("probes"), the reader of the perpetual check's messages (checkService  *)
(* in the daemon), the waiter of the child (CmdHelper.go:129) and the      *)
(* goroutine that forwards an interrupt to it (CmdHelper.go:116).  Each    *)
(* atomic load, atomic store and channel operation is a step of its own.   *)
(*                                                                         *)
(* The contents of a health message are left out: what a probe concludes   *)
(* is the subject of HealthCheck.  Channels are counters, for nothing    *)
(* here depends on what they hold.                                         *)
(***************************************************************************)
EXTENDS Integers, FiniteSets

CONSTANTS
    Probes,      \* health check goroutines that may be alive at once
    Stoppers,    \* goroutines that call Stop
    TokenCap,    \* capacity of the channel healthCheck (2 in the code)
    MessageCap,  \* capacity of the channel messages (2 in the daemon)
    Retries,     \* initial value of retriesLeft (1 in the code)
    MayHang,     \* TRUE: the service may accept a GET and never answer it
    MaxStarts,   \* bound: calls of Start
    MaxChecks,   \* bound: calls of EnableHealthChecks
    MaxStops     \* bound: calls of Stop

ASSUME ConstantsOK ==
    /\ IsFiniteSet(Stoppers)
    /\ TokenCap \in Nat
    /\ MessageCap \in Nat
    /\ Retries \in Nat
    /\ MayHang \in BOOLEAN
    /\ MaxStarts \in Nat /\ MaxChecks \in Nat /\ MaxStops \in Nat

VARIABLES
    child,        \* the process: see ChildState
    watcher,      \* the goroutine that kills the child on an interrupt
    retriesLeft,  \* restarts HandleExit may still do, plus one
    starts,       \* calls of Start that returned no error
    killable,     \* FALSE: Kill fails, the child runs as root under sudo
    flag,         \* healthCheckRunning
    tokens,       \* length of the channel healthCheck
    messages,     \* length of the channel messages
    probe,        \* where each probe is: see ProbeState
    forever,      \* was the probe started by EnableHealthChecks(_, TRUE)?
    client,       \* where the client is: see ClientState
    wants,        \* the argument forever of the call in progress
    reader,       \* is there a goroutine that keeps receiving messages?
    checks,       \* calls of EnableHealthChecks so far
    stop,         \* where each stopper is: see StopState
    stopCalls     \* calls of Stop so far

processVars == <<child, watcher, retriesLeft, starts, killable>>
probeVars   == <<probe, forever>>
clientVars  == <<client, wants, reader, checks>>
vars == <<processVars, flag, tokens, messages, probeVars, clientVars, stop,
          stopCalls>>

ChildState  == {"none", "failed", "running", "killed", "exited", "reaped"}
ProbeState  == {"idle", "probing", "hung", "sending", "clearing", "waiting"}
ClientState == {"idle", "store", "recv"}
StopState   == {"idle", "load", "send"}

Active(p)   == probe[p] # "idle"
Checking(p) == Active(p) /\ forever[p]

TypeOK ==
    /\ child \in ChildState
    /\ watcher \in BOOLEAN
    /\ retriesLeft \in Int /\ starts \in Nat
    /\ killable \in BOOLEAN
    /\ flag \in {0, 1}
    /\ tokens \in 0..TokenCap
    /\ messages \in 0..MessageCap
    /\ probe \in [Probes -> ProbeState]
    /\ forever \in [Probes -> BOOLEAN]
    /\ client \in ClientState
    /\ wants \in BOOLEAN /\ reader \in BOOLEAN
    /\ checks \in Nat
    /\ stop \in [Stoppers -> StopState]
    /\ stopCalls \in Nat

\* NewHandler and NewCmdHandler: nothing started, no check running.  Whether
\* the daemon may signal the child is a matter of its configuration.
Init ==
    /\ child = "none"
    /\ watcher = FALSE
    /\ retriesLeft = Retries /\ starts = 0
    /\ killable \in BOOLEAN
    /\ flag = 0 /\ tokens = 0 /\ messages = 0
    /\ probe = [p \in Probes |-> "idle"]
    /\ forever = [p \in Probes |-> FALSE]
    /\ client = "idle" /\ wants = FALSE /\ reader = FALSE /\ checks = 0
    /\ stop = [s \in Stoppers |-> "idle"]
    /\ stopCalls = 0

-----------------------------------------------------------------------------
(* The process: CmdHandler.                                                *)

\* CmdHandler.Start: a new exec.Cmd; when it starts, the goroutine that
\* forwards an interrupt and the goroutine that waits for the exit start too.
\* (An interrupt before signal.Notify does not reach the former: it is one that
\* the model does not deliver.  Microkubed has that step apart.)
Spawn ==
    /\ child' \in {"running", "failed"}
    /\ watcher' = IF child' = "running" THEN TRUE ELSE FALSE

\* The client starts a service that is not running.
Start ==
    /\ client = "idle"
    /\ child \in {"none", "failed", "reaped"}
    /\ starts < MaxStarts
    /\ Spawn
    /\ starts' = IF child' = "running" THEN starts + 1 ELSE starts
    /\ UNCHANGED <<retriesLeft, killable, flag, tokens, messages, probeVars,
                   clientVars, stop, stopCalls>>

\* Mutant: Stop asks the child to end, and the child does not.
KillAsks == UNCHANGED child

\* CmdHandler.Stop: SIGKILL to a child that is there and that we may signal.
Kill == child' = IF child = "running" /\ killable THEN "killed" ELSE child

\* The process ends, by itself or by SIGKILL; a connection that it left
\* unanswered is reset, which ends the GET.
Exit ==
    /\ child \in {"running", "killed"}
    /\ child' = "exited"
    /\ probe' = [p \in Probes |->
                    IF probe[p] = "hung" THEN "sending" ELSE probe[p]]
    /\ UNCHANGED <<watcher, retriesLeft, starts, killable, flag, tokens,
                   messages,
                   forever, clientVars, stop, stopCalls>>

\* An interrupt reaches the goroutine that waits for it: it kills the child
\* and returns.
Interrupt ==
    /\ watcher
    /\ watcher' = FALSE
    /\ Kill
    /\ UNCHANGED <<retriesLeft, starts, killable, flag, tokens, messages,
                   probeVars, clientVars, stop, stopCalls>>

\* Mutant: an exit stops the health check as well.
HandleExitStops ==
    /\ child = "exited"
    /\ retriesLeft' = retriesLeft - 1
    /\ child' = "reaped" /\ watcher' = FALSE
    /\ tokens' = IF flag = 1 /\ tokens < TokenCap THEN tokens + 1 ELSE tokens
    /\ UNCHANGED <<starts, killable, flag, messages, probeVars, clientVars, stop,
                   stopCalls>>

\* The waiter: Wait has returned, the interrupt goroutine is told to end and
\* HandleExit either restarts the child (whose error it drops) or calls the
\* exit callback, which is the daemon's (Microkubed).
HandleExit ==
    /\ child = "exited"
    /\ retriesLeft' = retriesLeft - 1
    /\ IF retriesLeft' > 0
         THEN Spawn
         ELSE child' = "reaped" /\ watcher' = FALSE
    /\ UNCHANGED <<starts, killable, flag, tokens, messages, probeVars,
                   clientVars, stop, stopCalls>>

-----------------------------------------------------------------------------
(* EnableHealthChecks and its caller.                                      *)

\* What the client does once EnableHealthChecks has returned: it receives
\* the answer of a single check (startService), and leaves the answers of a
\* perpetual one to a reader (checkService).
Returned(f) ==
    /\ client' = IF f THEN "idle" ELSE "recv"
    /\ reader' = (reader \/ f)

\* Mutant: no look at the flag.
EnableLoadAlways(f) ==
    /\ client = "idle"
    /\ checks < MaxChecks
    /\ reader => f
    /\ checks' = checks + 1
    /\ wants' = f
    /\ client' = "store"
    /\ UNCHANGED <<processVars, flag, tokens, messages, probeVars, reader, stop,
                   stopCalls>>

\* The atomic load: the call does nothing when the flag is set.  A client
\* that has handed the channel to a reader asks for no single check any more.
EnableLoad(f) ==
    /\ client = "idle"
    /\ checks < MaxChecks
    /\ reader => f
    /\ checks' = checks + 1
    /\ wants' = f
    /\ IF flag = 0 THEN client' = "store" /\ UNCHANGED reader
                   ELSE Returned(f)
    /\ UNCHANGED <<processVars, flag, tokens, messages, probeVars, stop,
                   stopCalls>>

\* The atomic store and the go statement.
EnableStore(p) ==
    /\ client = "store"
    /\ ~Active(p)
    /\ flag' = 1
    /\ probe' = [probe EXCEPT ![p] = "probing"]
    /\ forever' = [forever EXCEPT ![p] = wants]
    /\ Returned(wants)
    /\ UNCHANGED <<processVars, tokens, messages, wants, checks, stop,
                   stopCalls>>

\* The client receives the answer to its single check.
Receive ==
    /\ client = "recv"
    /\ messages > 0
    /\ messages' = messages - 1
    /\ client' = "idle"
    /\ UNCHANGED <<processVars, flag, tokens, probeVars, wants, reader, checks,
                   stop, stopCalls>>

\* The reader of the perpetual check receives a message.
Read ==
    /\ reader
    /\ messages > 0
    /\ messages' = messages - 1
    /\ UNCHANGED <<processVars, flag, tokens, probeVars, clientVars, stop,
                   stopCalls>>

-----------------------------------------------------------------------------
(* The health check goroutine.                                             *)

GoTo(p, s) == probe' = [probe EXCEPT ![p] = s]

\* healthCheckFun returns: an answer, an error, or no connection within the
\* backoff.
ProbeReturns(p) ==
    /\ probe[p] = "probing"
    /\ GoTo(p, "sending")
    /\ UNCHANGED <<processVars, flag, tokens, messages, forever,
                   clientVars, stop, stopCalls>>

\* The GET has no timeout: it lasts as long as the service keeps the
\* connection open.
ProbeHangs(p) ==
    /\ MayHang
    /\ probe[p] = "probing"
    /\ child = "running"
    /\ GoTo(p, "hung")
    /\ UNCHANGED <<processVars, flag, tokens, messages, forever,
                   clientVars, stop, stopCalls>>

\* Mutant: the message is sent whether or not there is room for it.
SendUnbounded(p) ==
    /\ probe[p] = "sending"
    /\ messages' = messages + 1
    /\ GoTo(p, IF forever[p] THEN "waiting" ELSE "clearing")
    /\ UNCHANGED <<processVars, flag, tokens, forever, clientVars, stop,
                   stopCalls>>

\* messages <- HealthMessage{...}
Send(p) ==
    /\ probe[p] = "sending"
    /\ messages < MessageCap
    /\ messages' = messages + 1
    /\ GoTo(p, IF forever[p] THEN "waiting" ELSE "clearing")
    /\ UNCHANGED <<processVars, flag, tokens, forever, clientVars, stop,
                   stopCalls>>

\* A single check clears the flag, after its message, and ends.
Clear(p) ==
    /\ probe[p] = "clearing"
    /\ flag' = 0
    /\ GoTo(p, "idle")
    /\ UNCHANGED <<processVars, tokens, messages, forever, clientVars,
                   stop, stopCalls>>

\* Mutant: the token is taken by a break that leaves the select only.
TakeTokenBreak(p) ==
    /\ probe[p] = "waiting"
    /\ tokens > 0
    /\ tokens' = tokens - 1
    /\ GoTo(p, "probing")
    /\ UNCHANGED <<processVars, flag, messages, forever, clientVars,
                   stop, stopCalls>>

\* select, first case: a token ends the perpetual check; the flag stays set.
TakeToken(p) ==
    /\ probe[p] = "waiting"
    /\ tokens > 0
    /\ tokens' = tokens - 1
    /\ GoTo(p, "idle")
    /\ UNCHANGED <<processVars, flag, messages, forever, clientVars,
                   stop, stopCalls>>

\* select, second case: ten seconds have passed.
Tick(p) ==
    /\ probe[p] = "waiting"
    /\ GoTo(p, "probing")
    /\ UNCHANGED <<processVars, flag, tokens, messages, forever,
                   clientVars, stop, stopCalls>>

-----------------------------------------------------------------------------
(* Stop.                                                                   *)

\* stopHandler.  Who got an error from Start does not call Stop.
StopKill(s) ==
    /\ stop[s] = "idle"
    /\ child \notin {"none", "failed"}
    /\ stopCalls < MaxStops
    /\ stopCalls' = stopCalls + 1
    /\ stop' = [stop EXCEPT ![s] = "load"]
    /\ Kill
    /\ UNCHANGED <<watcher, retriesLeft, starts, killable, flag, tokens,
                   messages,
                   probeVars, clientVars>>

\* The atomic load of healthCheckRunning.
StopLoad(s) ==
    /\ stop[s] = "load"
    /\ stop' = [stop EXCEPT ![s] = IF flag = 1 THEN "send" ELSE "idle"]
    /\ UNCHANGED <<processVars, flag, tokens, messages, probeVars, clientVars,
                   stopCalls>>

\* Mutant: a channel with room for one token only.
StopSendSmall(s) ==
    /\ stop[s] = "send"
    /\ tokens < 1
    /\ tokens' = tokens + 1
    /\ stop' = [stop EXCEPT ![s] = "idle"]
    /\ UNCHANGED <<processVars, flag, messages, probeVars, clientVars,
                   stopCalls>>

\* healthCheck <- true
StopSend(s) ==
    /\ stop[s] = "send"
    /\ tokens < TokenCap
    /\ tokens' = tokens + 1
    /\ stop' = [stop EXCEPT ![s] = "idle"]
    /\ UNCHANGED <<processVars, flag, messages, probeVars, clientVars,
                   stopCalls>>

-----------------------------------------------------------------------------
ClientNext ==
    \/ Start
    \/ \E f \in BOOLEAN : EnableLoad(f)
    \/ \E p \in Probes : EnableStore(p)
    \/ Receive

ProbeNext(p) ==
    \/ ProbeReturns(p)
    \/ ProbeHangs(p)
    \/ Send(p)
    \/ Clear(p)
    \/ TakeToken(p)
    \/ Tick(p)

StopNext(s) == StopKill(s) \/ StopLoad(s) \/ StopSend(s)

Next ==
    \/ ClientNext
    \/ Read
    \/ Exit
    \/ Interrupt
    \/ HandleExit
    \/ \E p \in Probes : ProbeNext(p)
    \/ \E s \in Stoppers : StopNext(s)

Spec == Init /\ [][Next]_vars

(***************************************************************************)
(* Go runs every goroutine that can run, so each step inside a call or a   *)
(* goroutine is weakly fair; select picks at random among its ready cases, *)
(* so a token that keeps being there is not passed over for ever.  Calls   *)
(* are not fair (nobody has to make them), a running child need not exit   *)
(* and a service need not hang; a killed child does exit.                  *)
(***************************************************************************)
Fairness ==
    /\ WF_vars(\E p \in Probes : EnableStore(p))
    /\ WF_vars(Receive)
    /\ WF_vars(Read)
    /\ WF_vars(child = "killed" /\ Exit)
    /\ WF_vars(HandleExit)
    /\ \A p \in Probes :
          /\ WF_vars(ProbeReturns(p))
          /\ WF_vars(Send(p))
          /\ WF_vars(Clear(p))
          /\ WF_vars(Tick(p))
          /\ SF_vars(TakeToken(p))
    /\ \A s \in Stoppers : WF_vars(StopLoad(s)) /\ WF_vars(StopSend(s))

FairSpec == Spec /\ Fairness

-----------------------------------------------------------------------------
(* Properties.                                                             *)

\* At most one health check goroutine is alive, although the flag that is to
\* ensure it is loaded and stored in two steps (BaseServiceHandler.go:160-161)
\* and cleared by the goroutine itself (line 170).
OneProbe == \A p, q \in Probes : Active(p) /\ Active(q) => p = q

\* Stop can wait for room in healthCheck (BaseServiceHandler.go:154) only when
\* more calls of Stop have been made than the channel has room for: the first
\* TokenCap calls never wait, whoever makes them and whatever the checks do.
FirstStopsDoNotBlock ==
    \A s \in Stoppers :
        stop[s] = "send" /\ tokens = TokenCap => stopCalls > TokenCap

\* Every call of Stop returns (ServiceHandler.go:46-47), as long as there have
\* been no more of them than the channel has room for: each may leave a token
\* that nobody takes.
StopReturns ==
    \A s \in Stoppers :
        stop[s] # "idle" ~> stop[s] = "idle" \/ stopCalls > TokenCap

-----------------------------------------------------------------------------
(* The implementation of SupervisedService.                                *)

\* The check that is under way.  The flag may be set without one: a perpetual
\* check that has been ended leaves it.
Mode ==
    IF \E p \in Probes : Checking(p) THEN "always"
    ELSE IF \E p \in Probes : probe[p] = "clearing" THEN "answered"
    ELSE IF \E p \in Probes : Active(p) THEN "once"
    ELSE "off"

\* The calls of Stop that may still end a check: tokens, and those that have
\* not come to their send yet.
Busy == {s \in Stoppers : stop[s] # "idle"}
Calls == tokens + Cardinality(Busy)

Service == INSTANCE SupervisedService
               WITH mode <- Mode, calls <- Calls, answers <- messages

\* The handler does what its interface says (ServiceHandler.go:38-48), with a
\* flag that is loaded and stored in two steps and a token that may outlive
\* the check it was meant for: checks never overlap, a perpetual one ends by a
\* call of Stop and by nothing else, and each call ends one at most.
ImplementsService == Service!Spec

\* A request that Stop cannot end hangs: the service keeps the connection open
\* and the daemon may not kill it.
HangsBeyondStop == ~killable /\ \E p \in Probes : probe[p] = "hung"

\* A single check ends once it has answered, and a perpetual one once Stop has
\* been called.  That holds for a request that hangs as well, for Stop has
\* killed the child before it asks the check to end
\* (BaseServiceHandler.go:150-155) and with it the connection.  The exception
\* is a child that the kill does not reach (run under sudo) and that never
\* answers: the GET has no timeout (line 123), so that its check outlives Stop.
EndsChecks == Service!Fairness \/ <>[]HangsBeyondStop

=============================================================================
