----------------------------- MODULE Microkubed -----------------------------
(***************************************************************************)
(* The life of the daemon (cmd/microkubed/cmd/Microkubed.go): the main     *)
(* goroutine starts the services in order, waits for the node, switches to *)
(* graceful termination mode, enables the perpetual health checks, and     *)
(* stops everything once a signal has made it drain the node.  Around it   *)
(* run, per service, the waiter of the child (its exit callback), the      *)
(* goroutine that forwards an interrupt to the child, the health check and *)
(* checkService, and the goroutine that drains the node.  Each may call    *)
(* log.Fatal, whose exit handler runs in the calling goroutine while all   *)
(* the others go on, until it reaches os.Exit.                             *)
(*                                                                         *)
(* Services are numbered in the order of start(): 1 is etcd, then comes    *)
(* kube-apiserver, and N is kube-proxy (N is 6 in the code).  In a call of *)
(* Stop the load of the flag and the send are steps of their own, as are   *)
(* the two reads of the mode on the way into the exit handler of           *)
(* log.Fatal; EnableHealthChecks, which main alone calls, is one step.     *)
(***************************************************************************)
EXTENDS Integers, Sequences, FiniteSets

CONSTANTS
    N,             \* number of services (6 in the code)
    ApiServer,     \* the number of kube-apiserver (2 in the code)
    Sudoed,        \* services run under sudo by an unprivileged daemon: Kill
                   \* fails (kubelet and kube-proxy in the packaged unit)
    Blind,         \* services whose CA file holds no certificate: their checks
                   \* say healthy without a request
    MaxTries,      \* health checks a service gets at startup (8 in the code)
    MaxUnhealthy,  \* bad checks in a row that end the daemon (10 in the code)
    HealthCap,     \* capacity of a health channel (2 in the code)
    TokenCap,      \* capacity of a channel healthCheck (2 in the code)
    MaxSignals,    \* bound: SIGINTs sent to the daemon
    MaxFatal       \* bound: goroutines in log.Fatal at once (N + 2 there are)

Services == 1..N

ASSUME DaemonConstants ==
    /\ N \in Nat \ {0}
    /\ ApiServer \in Nat /\ ApiServer < N
    /\ Sudoed \subseteq 1..N /\ Blind \subseteq 1..N
    /\ MaxTries \in Nat \ {0} /\ MaxUnhealthy \in Nat \ {0}
    /\ HealthCap \in Nat \ {0} /\ TokenCap \in Nat \ {0}
    /\ MaxSignals \in Nat /\ MaxFatal \in Nat \ {0}

\* The goroutines that may call log.Fatal; a service stands for its waiter.
\* (A Fatal of checkService comes in graceful mode only and exits at once.)
Main  == 0
Drain == N + 1
Goroutines == 0..N+1

VARIABLES
    up,         \* does the daemon's process exist?
    pc,         \* where the main goroutine is
    cur,        \* the service the main goroutine is at
    tries,      \* health checks of the service being started
    listed,     \* serviceHandlers holds the services 1..listed
    graceful,   \* gracefulTerminationMode
    sigMode,    \* who gets a SIGINT: see SigModes
    signals,    \* SIGINTs sent so far
    drain,      \* the goroutine that drains the node
    at, upto,   \* Fatal of a goroutine: the next handler to stop (0: not in
                \* Fatal) and the last one it will stop
    step,       \* what a goroutine does next in the exit handler or in Stop
    proc,       \* the child of each service
    watch,      \* the goroutine that forwards an interrupt to the child
    check,      \* the health check goroutine of each service
    hung,       \* is the GET of the check one that is never answered?
    token,      \* length of each channel healthCheck
    health,     \* the health channel of each service
    watched,    \* does checkService run for the service?
    unhealthy   \* unhealthyCount of checkService

mainVars  == <<up, pc, cur, tries, listed, graceful>>
sigVars   == <<sigMode, signals, drain>>
fatalVars == <<at, upto, step>>
childVars == <<proc, watch>>
checkVars == <<check, hung, token, health, watched, unhealthy>>
vars == <<mainVars, sigVars, fatalVars, childVars, checkVars>>

MainStates == {"prepare", "start", "subscribe", "check", "await", "list",
               "kubeconfig",
               "deferred", "waitNode", "notify", "graceful", "enable",
               "deploy", "run", "stop", "sleep"}
SigModes   == {"default", "services", "graceful"}
DrainStates == {"off", "wait", "draining", "done"}
ProcStates  == {"none", "running", "killed", "exited", "gone"}
WatchStates == {"off", "on", "signalled"}
StepStates  == {"mode", "kill", "send"}
CheckStates == {"off", "single", "clearing", "perpetual", "waiting", "ended"}

TypeOK ==
    /\ up \in BOOLEAN /\ graceful \in BOOLEAN
    /\ pc \in MainStates
    /\ cur \in 1..N+1
    /\ tries \in 0..MaxTries
    /\ listed \in 0..N
    /\ sigMode \in SigModes
    /\ signals \in 0..MaxSignals
    /\ drain \in DrainStates
    /\ at \in [Goroutines -> 0..N+1]
    /\ upto \in [Goroutines -> 0..N]
    /\ step \in [Goroutines -> StepStates]
    /\ proc \in [Services -> ProcStates]
    /\ watch \in [Services -> WatchStates]
    /\ check \in [Services -> CheckStates]
    /\ hung \in [Services -> BOOLEAN]
    /\ token \in [Services -> 0..TokenCap]
    /\ health \in [Services -> Seq(BOOLEAN)]
    /\ \A s \in Services : Len(health[s]) <= HealthCap
    /\ watched \in [Services -> BOOLEAN]
    /\ unhealthy \in [Services -> 0..MaxUnhealthy]

Init ==
    /\ up = TRUE /\ graceful = FALSE
    /\ pc = "prepare" /\ cur = 1 /\ tries = 0 /\ listed = 0
    /\ sigMode = "default" /\ signals = 0 /\ drain = "off"
    /\ at = [g \in Goroutines |-> 0]
    /\ upto = [g \in Goroutines |-> 0]
    /\ step = [g \in Goroutines |-> "kill"]
    /\ proc = [s \in Services |-> "none"]
    /\ watch = [s \in Services |-> "off"]
    /\ check = [s \in Services |-> "off"]
    /\ hung = [s \in Services |-> FALSE]
    /\ token = [s \in Services |-> 0]
    /\ health = [s \in Services |-> <<>>]
    /\ watched = [s \in Services |-> FALSE]
    /\ unhealthy = [s \in Services |-> 0]

-----------------------------------------------------------------------------
(* Helpers.                                                                 *)

\* The main goroutine is at p and neither the process nor main has ended.
MainAt(p) == up /\ at[Main] = 0 /\ pc = p

\* log.Fatal in goroutine g: it comes to the exit handler (see below).
Fatal(g) ==
    /\ Cardinality({h \in Goroutines : at[h] # 0}) < MaxFatal
    /\ at' = [at EXCEPT ![g] = 1]
    /\ step' = [step EXCEPT ![g] = "mode"]
    /\ UNCHANGED upto

\* healthCheckRunning of service s.
Flag(s) == check[s] # "off"

Killed(s) == IF proc[s] = "running" /\ s \notin Sudoed THEN "killed"
                                                       ELSE proc[s]

GoTo(g, p) == step' = [step EXCEPT ![g] = p]

\* Goroutine g in Stop of service s: it kills the child and loads the flag, and
\* returns when no check is running.  (Other goroutines may come in between the
\* two; but nothing they do to the flag depends on whether the child is still
\* running or just killed, so that the kill may as well come late.)
StopKill(g, s) ==
    /\ step[g] = "kill"
    /\ GoTo(g, IF Flag(s) THEN "send" ELSE "kill")
    /\ proc' = [proc EXCEPT ![s] = Killed(s)]
    /\ UNCHANGED <<watch, checkVars>>

\* Mutant: a channel without a buffer, which only a check that waits between
\* two rounds receives from.
StopSendUnbuffered(g, s) ==
    /\ step[g] = "send"
    /\ GoTo(g, "kill")
    /\ check[s] = "waiting" /\ check' = [check EXCEPT ![s] = "ended"]
    /\ UNCHANGED <<childVars, hung, token, health, watched, unhealthy>>

\* A call that has found the flag set leaves a token, for which the channel must
\* have room, whatever has become of the check meanwhile.
StopSend(g, s) ==
    /\ step[g] = "send"
    /\ GoTo(g, "kill")
    /\ token[s] < TokenCap
    /\ token' = [token EXCEPT ![s] = @ + 1]
    /\ UNCHANGED <<childVars, check, hung, health, watched, unhealthy>>

Stop(g, s) == StopKill(g, s) \/ StopSend(g, s)

\* The step of Stop that is taken is the last one of the call.
Returns(g) == step'[g] = "kill"

-----------------------------------------------------------------------------
(* Startup.                                                                 *)

\* createDirectories, the credentials and findBinaries.
Prepare ==
    /\ MainAt("prepare")
    /\ \/ pc' = "start" /\ UNCHANGED fatalVars
       \/ Fatal(Main) /\ UNCHANGED pc
    /\ UNCHANGED <<up, cur, tries, listed, graceful, sigVars, childVars,
                   checkVars>>

\* startService, first half: the constructor and Start, whose child runs from
\* here on.
StartService ==
    /\ MainAt("start")
    /\ proc' = [proc EXCEPT ![cur] = "running"]
    /\ tries' = 0
    /\ pc' = "subscribe"
    /\ UNCHANGED <<up, cur, listed, graceful, sigVars, fatalVars, watch,
                   checkVars>>

\* Start asks for interrupts, which now reach the child's goroutine, and starts
\* the waiter.
Subscribe ==
    /\ MainAt("subscribe")
    /\ watch' = [watch EXCEPT ![cur] = "on"]
    /\ sigMode' = "services"
    /\ pc' = "check"
    /\ UNCHANGED <<up, cur, tries, listed, graceful, signals, drain, fatalVars,
                   proc, checkVars>>

\* The constructor or Start returns an error.
StartFails ==
    /\ MainAt("start")
    /\ Fatal(Main)
    /\ UNCHANGED <<mainVars, sigVars, childVars, checkVars>>

\* One turn of the loop, up to the wait for the answer.  The flag of the check
\* before may still be set, in which case none is started.
CheckOnce ==
    /\ MainAt("check")
    /\ check' = [check EXCEPT ![cur] = IF @ = "off" THEN "single" ELSE @]
    /\ pc' = "await"
    /\ UNCHANGED <<up, cur, tries, listed, graceful, sigVars, fatalVars,
                   childVars, hung, token, health, watched, unhealthy>>

\* The answer: healthy ends the loop, the MaxTries-th unhealthy one is fatal.
Answered ==
    /\ MainAt("await")
    /\ health[cur] # <<>>
    /\ health' = [health EXCEPT ![cur] = Tail(@)]
    /\ tries' = tries + 1
    /\ IF Head(health[cur])
         THEN pc' = "list" /\ UNCHANGED fatalVars
         ELSE IF tries' < MaxTries THEN pc' = "check" /\ UNCHANGED fatalVars
                                   ELSE Fatal(Main) /\ UNCHANGED pc
    /\ UNCHANGED <<up, cur, listed, graceful, sigVars, childVars, check, hung,
                   token, watched, unhealthy>>

\* Where main goes once service s is listed.
AfterListing(s) ==
    CASE s = N -> "deferred"
      [] s = ApiServer -> "kubeconfig"
      [] OTHER -> "start"

\* serviceHandlers and serviceList get the service.
ListService ==
    /\ MainAt("list")
    /\ listed' = cur
    /\ pc' = AfterListing(cur)
    /\ cur' = IF cur = N THEN cur ELSE cur + 1
    /\ UNCHANGED <<up, tries, graceful, sigVars, fatalVars, childVars,
                   checkVars>>

\* startKubeAPIServer writes the kubeconfig of the other services.
CreateKubeconfig ==
    /\ MainAt("kubeconfig")
    /\ \/ pc' = "start" /\ UNCHANGED fatalVars
       \/ Fatal(Main) /\ UNCHANGED pc
    /\ UNCHANGED <<up, cur, tries, listed, graceful, sigVars, childVars,
                   checkVars>>

\* startKubeProxy returns: its deferred Stop runs.
DeferredStop ==
    /\ MainAt("deferred")
    /\ Stop(Main, cur)
    /\ pc' = IF Returns(Main) THEN "waitNode" ELSE pc
    /\ UNCHANGED <<up, cur, tries, listed, graceful, sigVars, at, upto>>

\* NewKubeClient and WaitForNode; then the drain goroutine starts and
\* signal.Reset takes SIGINT back from the goroutines of the services.
WaitForNode ==
    /\ MainAt("waitNode")
    /\ pc' = "notify"
    /\ drain' = "wait"
    /\ sigMode' = "default"
    /\ UNCHANGED <<up, cur, tries, listed, graceful, signals, fatalVars,
                   childVars, checkVars>>

WaitForNodeFails ==
    /\ MainAt("waitNode")
    /\ Fatal(Main)
    /\ UNCHANGED <<mainVars, sigVars, childVars, checkVars>>

\* signal.Notify for the drain goroutine.
NotifySignals ==
    /\ MainAt("notify")
    /\ sigMode' = "graceful"
    /\ pc' = "graceful"
    /\ UNCHANGED <<up, cur, tries, listed, graceful, signals, drain, fatalVars,
                   childVars, checkVars>>

SetGraceful ==
    /\ MainAt("graceful")
    /\ graceful' = TRUE
    /\ pc' = "enable"
    /\ cur' = 1
    /\ UNCHANGED <<up, tries, listed, sigVars, fatalVars, childVars, checkVars>>

-----------------------------------------------------------------------------
(* Normal operation and the end.                                            *)

\* enableHealthChecks, one service: a perpetual check unless the flag is set,
\* and a goroutine checkService.
EnableCheck ==
    /\ MainAt("enable")
    /\ check' = [check EXCEPT ![cur] = IF @ = "off" THEN "perpetual" ELSE @]
    /\ watched' = [watched EXCEPT ![cur] = TRUE]
    /\ cur' = cur + 1
    /\ pc' = IF cur = N THEN "deploy" ELSE "enable"
    /\ UNCHANGED <<up, tries, listed, graceful, sigVars, fatalVars, childVars,
                   hung, token, health, unhealthy>>

\* startServices, PrintInfoMessage (whose findNode may be fatal) and READY.
Deploy ==
    /\ MainAt("deploy")
    /\ \/ pc' = "run" /\ UNCHANGED fatalVars
       \/ Fatal(Main) /\ UNCHANGED pc
    /\ UNCHANGED <<up, cur, tries, listed, graceful, sigVars, childVars,
                   checkVars>>

\* Mutant: the main goroutine is told to go on when the drain begins.
AwaitExitEarly ==
    /\ MainAt("run")
    /\ drain \in {"draining", "done"}
    /\ pc' = "stop"
    /\ cur' = 1
    /\ UNCHANGED <<up, tries, listed, graceful, sigVars, fatalVars, childVars,
                   checkVars>>

\* Mutant: the loop over the handlers leaves the first one out.
AwaitExitSecond ==
    /\ MainAt("run")
    /\ drain = "done"
    /\ pc' = "stop"
    /\ cur' = 2
    /\ UNCHANGED <<up, tries, listed, graceful, sigVars, fatalVars, childVars,
                   checkVars>>

\* <-exitChan
AwaitExit ==
    /\ MainAt("run")
    /\ drain = "done"
    /\ pc' = "stop"
    /\ cur' = 1
    /\ UNCHANGED <<up, tries, listed, graceful, sigVars, fatalVars, childVars,
                   checkVars>>

\* The loop over serviceHandlers.
StopNext ==
    /\ MainAt("stop")
    /\ cur <= listed
    /\ Stop(Main, cur)
    /\ cur' = IF Returns(Main) THEN cur + 1 ELSE cur
    /\ UNCHANGED <<up, pc, tries, listed, graceful, sigVars, at, upto>>

LoopEnds ==
    /\ MainAt("stop")
    /\ cur > listed
    /\ pc' = "sleep"
    /\ UNCHANGED <<up, cur, tries, listed, graceful, sigVars, fatalVars,
                   childVars, checkVars>>

\* Seven seconds later Run returns and the process ends.
Return ==
    /\ MainAt("sleep")
    /\ up' = FALSE
    /\ UNCHANGED <<pc, cur, tries, listed, graceful, sigVars, fatalVars,
                   childVars, checkVars>>

-----------------------------------------------------------------------------
(* log.Fatal.                                                               *)

\* Mutant: the exit handler leaves the first service out.
FatalListSecond(g) ==
    /\ up
    /\ step[g] = "mode"
    /\ GoTo(g, "kill")
    /\ at' = [at EXCEPT ![g] = 2]
    /\ upto' = [upto EXCEPT ![g] = IF graceful THEN 0 ELSE listed]
    /\ UNCHANGED <<mainVars, sigVars, childVars, checkVars>>

\* The exit handler reads gracefulTerminationMode, which main may have set since
\* g has called log.Fatal (then g stops nothing), and takes the handlers that
\* are listed now.  (One step will do for both: the list is complete long before
\* main sets the mode.)
FatalList(g) ==
    /\ up
    /\ step[g] = "mode"
    /\ GoTo(g, "kill")
    /\ upto' = [upto EXCEPT ![g] = IF graceful THEN 0 ELSE listed]
    /\ UNCHANGED <<mainVars, sigVars, at, childVars, checkVars>>

FatalStop(g) ==
    /\ up
    /\ at[g] \in 1..upto[g]
    /\ Stop(g, at[g])
    /\ at' = IF Returns(g) THEN [at EXCEPT ![g] = @ + 1] ELSE at
    /\ UNCHANGED <<mainVars, sigVars, upto>>

FatalExit(g) ==
    /\ up
    /\ step[g] = "kill" /\ at[g] > upto[g]
    /\ up' = FALSE
    /\ UNCHANGED <<pc, cur, tries, listed, graceful, sigVars, fatalVars,
                   childVars, checkVars>>

-----------------------------------------------------------------------------
(* The children and their waiters.                                          *)

\* A child ends, and with it a GET that it has left unanswered.  (What becomes of
\* the children once the daemon has ended is left out.)
ChildExits(s) ==
    /\ up
    /\ proc[s] \in {"running", "killed"}
    /\ proc' = [proc EXCEPT ![s] = "exited"]
    /\ hung' = [hung EXCEPT ![s] = FALSE]
    /\ UNCHANGED <<mainVars, sigVars, fatalVars, watch, check, token, health,
                   watched, unhealthy>>

\* The waiter, which Start leaves behind: the interrupt goroutine ends, and
\* HandleExit calls the exit handler of startService, which reads the mode.  In
\* graceful mode the exit goes to the state channel, where checkService reads
\* and ignores it.
ExitHandler(s) ==
    /\ up
    /\ proc[s] = "exited"
    /\ ~(pc = "subscribe" /\ cur = s)
    /\ at[s] = 0
    /\ proc' = [proc EXCEPT ![s] = "gone"]
    /\ watch' = [watch EXCEPT ![s] = "off"]
    /\ IF graceful THEN UNCHANGED fatalVars ELSE Fatal(s)
    /\ UNCHANGED <<mainVars, sigVars, checkVars>>

\* The interrupt goroutine of a child that has got the signal kills the child.
ForwardInterrupt(s) ==
    /\ up
    /\ watch[s] = "signalled"
    /\ watch' = [watch EXCEPT ![s] = "off"]
    /\ proc' = [proc EXCEPT ![s] = Killed(s)]
    /\ UNCHANGED <<mainVars, sigVars, fatalVars, checkVars>>

-----------------------------------------------------------------------------
(* Signals and the drain.                                                   *)

\* SIGINT: the default action ends the process; the goroutines of the services
\* get it during startup, the drain goroutine afterwards, once.
Sigint ==
    /\ up
    /\ signals < MaxSignals
    /\ signals' = signals + 1
    /\ up' = (sigMode # "default")
    /\ watch' = [s \in Services |->
                    IF sigMode = "services" /\ watch[s] = "on" THEN "signalled"
                                                               ELSE watch[s]]
    /\ drain' = IF sigMode = "graceful" /\ drain = "wait" THEN "draining"
                                                          ELSE drain
    /\ UNCHANGED <<pc, cur, tries, listed, graceful, sigMode, fatalVars, proc,
                   checkVars>>

\* DrainNode returns, with or without an error.
DrainReturns ==
    /\ up
    /\ drain = "draining" /\ at[Drain] = 0
    /\ drain' = "done"
    /\ UNCHANGED <<mainVars, sigMode, signals, fatalVars, childVars, checkVars>>

\* DrainNode cannot list the nodes or the pods.
DrainFails ==
    /\ up
    /\ drain = "draining" /\ at[Drain] = 0
    /\ Fatal(Drain)
    /\ UNCHANGED <<mainVars, sigVars, childVars, checkVars>>

-----------------------------------------------------------------------------
(* Health checks.                                                           *)

\* What a check may conclude: only a running service looks healthy, unless the
\* CA file has no certificate in it (HealthCheck says why).
Verdicts(s) ==
    IF s \in Blind THEN {TRUE} ELSE {FALSE, proc[s] \in {"running", "killed"}}

\* The GET has no timeout: it lasts as long as the service keeps the
\* connection open, for ever if it likes.
Hang(s) ==
    /\ up
    /\ check[s] \in {"single", "perpetual"}
    /\ s \notin Blind
    /\ proc[s] = "running"
    /\ ~hung[s]
    /\ hung' = [hung EXCEPT ![s] = TRUE]
    /\ UNCHANGED <<mainVars, sigVars, fatalVars, childVars, check, token, health,
                   watched, unhealthy>>

\* Mutant: the message is sent whether or not there is room for it.
ProbeUnbounded(s) ==
    /\ up
    /\ check[s] \in {"single", "perpetual"}
    /\ ~hung[s]
    /\ \E ok \in Verdicts(s) : health' = [health EXCEPT ![s] = Append(@, ok)]
    /\ check' = [check EXCEPT ![s] =
                    IF @ = "single" THEN "clearing" ELSE "waiting"]
    /\ UNCHANGED <<mainVars, sigVars, fatalVars, childVars, hung, token,
                   watched, unhealthy>>

\* A check comes to its verdict and finds room for its message.
Probe(s) ==
    /\ up
    /\ check[s] \in {"single", "perpetual"}
    /\ ~hung[s]
    /\ Len(health[s]) < HealthCap
    /\ \E ok \in Verdicts(s) : health' = [health EXCEPT ![s] = Append(@, ok)]
    /\ check' = [check EXCEPT ![s] =
                    IF @ = "single" THEN "clearing" ELSE "waiting"]
    /\ UNCHANGED <<mainVars, sigVars, fatalVars, childVars, hung, token,
                   watched, unhealthy>>

\* Mutant: a single check leaves the flag set.
ClearNothing(s) ==
    /\ up
    /\ check[s] = "clearing"
    /\ check' = [check EXCEPT ![s] = "ended"]
    /\ UNCHANGED <<mainVars, sigVars, fatalVars, childVars, hung, token, health,
                   watched, unhealthy>>

\* A single check clears the flag after it has sent its message.
ClearFlag(s) ==
    /\ up
    /\ check[s] = "clearing"
    /\ check' = [check EXCEPT ![s] = "off"]
    /\ UNCHANGED <<mainVars, sigVars, fatalVars, childVars, hung, token, health,
                   watched, unhealthy>>

\* A perpetual check goes on after ten seconds, or ends when it finds a token.
NextRound(s) ==
    /\ up
    /\ check[s] = "waiting"
    /\ token[s] = 0
    /\ check' = [check EXCEPT ![s] = "perpetual"]
    /\ UNCHANGED <<mainVars, sigVars, fatalVars, childVars, hung, token, health,
                   watched, unhealthy>>

\* Mutant: the check looks at the token and leaves it in the channel.
EndCheckPeeks(s) ==
    /\ up
    /\ check[s] = "waiting"
    /\ token[s] > 0
    /\ check' = [check EXCEPT ![s] = "ended"]
    /\ UNCHANGED <<mainVars, sigVars, fatalVars, childVars, hung, token, health,
                   watched, unhealthy>>

EndCheck(s) ==
    /\ up
    /\ check[s] = "waiting"
    /\ token[s] > 0
    /\ token' = [token EXCEPT ![s] = @ - 1]
    /\ check' = [check EXCEPT ![s] = "ended"]
    /\ UNCHANGED <<mainVars, sigVars, fatalVars, childVars, hung, health,
                   watched, unhealthy>>

\* Mutant: the count never gets beyond one.
CheckServiceOnce(s) ==
    /\ up
    /\ watched[s]
    /\ health[s] # <<>>
    /\ unhealthy[s] < MaxUnhealthy
    /\ health' = [health EXCEPT ![s] = Tail(@)]
    /\ unhealthy' = [unhealthy EXCEPT ![s] = IF Head(health[s]) THEN 0 ELSE 1]
    /\ up' = (unhealthy'[s] < MaxUnhealthy)
    /\ UNCHANGED <<pc, cur, tries, listed, graceful, sigVars, fatalVars,
                   childVars, check, hung, token, watched>>

\* checkService: a bad check counts, a good one resets the count, and the
\* MaxUnhealthy-th bad one in a row is fatal; this runs in graceful mode, so
\* the exit handler does nothing before os.Exit.
CheckService(s) ==
    /\ up
    /\ watched[s]
    /\ health[s] # <<>>
    /\ unhealthy[s] < MaxUnhealthy
    /\ health' = [health EXCEPT ![s] = Tail(@)]
    /\ unhealthy' = [unhealthy EXCEPT ![s] =
                        IF Head(health[s]) THEN 0 ELSE @ + 1]
    /\ up' = (unhealthy'[s] < MaxUnhealthy)
    /\ UNCHANGED <<pc, cur, tries, listed, graceful, sigVars, fatalVars,
                   childVars, check, hung, token, watched>>

-----------------------------------------------------------------------------
MainNext ==
    \/ Prepare
    \/ StartService \/ Subscribe \/ StartFails
    \/ CheckOnce \/ Answered \/ ListService
    \/ CreateKubeconfig
    \/ DeferredStop
    \/ WaitForNode \/ WaitForNodeFails \/ NotifySignals \/ SetGraceful
    \/ EnableCheck \/ Deploy \/ AwaitExit
    \/ StopNext \/ LoopEnds \/ Return

ServiceNext(s) ==
    \/ ChildExits(s) \/ ExitHandler(s) \/ ForwardInterrupt(s)
    \/ Probe(s) \/ Hang(s) \/ ClearFlag(s) \/ NextRound(s) \/ EndCheck(s)
    \/ CheckService(s)

FatalNext(g) == FatalList(g) \/ FatalStop(g) \/ FatalExit(g)

Next ==
    \/ MainNext
    \/ Sigint
    \/ DrainReturns \/ DrainFails
    \/ \E g \in Goroutines : FatalNext(g)
    \/ \E s \in Services : ServiceNext(s)

Spec == Init /\ [][Next]_vars

(***************************************************************************)
(* The Go scheduler runs every goroutine that can run, however late: no    *)
(* step is assumed to be over within the second or the ten that another    *)
(* goroutine sleeps.  Nothing makes a child exit, answer a GET, a signal   *)
(* arrive or a node become ready, so ChildExits, Sigint and WaitForNode    *)
(* are not fair, and a GET that hangs does so until its child exits.  That *)
(* DrainNode returns is assumed here (DrainEnds of KubeClient says under   *)
(* which conditions it does).                                              *)
(***************************************************************************)
Fairness ==
    /\ WF_vars(MainNext /\ pc # "waitNode")
    /\ WF_vars(DrainReturns)
    /\ \A g \in Goroutines : WF_vars(FatalNext(g))
    /\ \A s \in Services :
          /\ WF_vars(ExitHandler(s))
          /\ WF_vars(ForwardInterrupt(s))
          /\ WF_vars(Probe(s))
          /\ WF_vars(ClearFlag(s))
          /\ WF_vars(NextRound(s))
          /\ WF_vars(EndCheck(s))
          /\ WF_vars(CheckService(s))

FairSpec == Spec /\ Fairness

-----------------------------------------------------------------------------
(* Properties.                                                              *)

InFatal == \E g \in Goroutines : at[g] # 0

\* A goroutine that gets through the exit handler of log.Fatal has stopped
\* every service it found in the list, whatever the other goroutines did
\* meanwhile (Microkubed.go:515-523).
FatalStopsListed ==
    \A g \in Goroutines :
        at[g] > upto[g] => \A s \in 1..upto[g] \ Sudoed : proc[s] # "running"

\* When Run returns, no service that the daemon may kill is left running
\* (Microkubed.go:540-545).
ReturnStopsAll ==
    pc = "sleep" => \A s \in Services \ Sudoed : proc[s] # "running"

\* In graceful mode services are killed only after the node has been drained
\* (Microkubed.go:385-399, 537-542), unless the daemon is failing or a signal
\* was on its way to the service when the mode was switched.
DrainBeforeStop ==
    [][\A s \in Services :
          /\ graceful /\ ~InFatal
          /\ proc[s] = "running" /\ proc'[s] = "killed"
          /\ watch[s] # "signalled"
          => drain = "done"]_vars

\* No check of service s is under way, nor will be, although main has asked for
\* one: EnableHealthChecks has met the flag of the check before, which sends its
\* message first and clears the flag later (BaseServiceHandler.go:165-170).
Missed(s) == check[s] = "off" /\ health[s] = <<>>

\* A service that dies once the daemon is in graceful mode is noticed: the
\* daemon ends, so that systemd can start it again (Microkubed.go:338-365).
\* Left out are kube-proxy, for the token of its deferred Stop may end its
\* check, services whose CA file makes every check healthy, and one whose
\* perpetual check has met the flag of its last check at startup.
DeathNoticed ==
    \A s \in (1..N-1) \ Blind :
        graceful /\ proc[s] = "gone" ~> ~up \/ (watched[s] /\ Missed(s))

\* log.Fatal always ends the daemon: of the goroutines that stop services at
\* the same time, at least one finds room in every channel and gets to os.Exit.
FatalEnds == InFatal ~> ~up

\* The wait for the answer to a startup check (Microkubed.go:607-618) ends, or
\* the daemon does, but for two cases in which it lasts for ever: the service
\* has accepted the GET, which has no timeout, and keeps it unanswered; or it is
\* not the first check of the service, and the flag of the one before was still
\* set, so that there is nothing to wait for.  (A service in Blind is healthy at
\* its first check.)
StartupAnswered ==
    \A s \in Services \ Blind :
        pc = "await" /\ cur = s
          ~> pc # "await" \/ ~up \/ hung[s] \/ (tries > 0 /\ Missed(s))

\* A drained node leads to the end of the daemon: no Stop on the way blocks
\* (Microkubed.go:537-547).
ShutdownEnds == drain = "done" ~> ~up

\* The daemon sees each service's checks as SupervisedService describes them,
\* although it stops services from several goroutines at once and kube-proxy
\* before its check has started.
Mode(s) ==
    CASE check[s] \in {"off", "ended"}         -> "off"
      [] check[s] = "single"                   -> "once"
      [] check[s] = "clearing"                 -> "answered"
      [] check[s] \in {"perpetual", "waiting"} -> "always"

Service(s) == INSTANCE SupervisedService
                 WITH mode <- Mode(s), calls <- token[s],
                      answers <- Len(health[s])

ImplementsServices ==
    /\ \A s \in Services : Service(s)!Init
    /\ [][\A s \in Services : [Service(s)!Next]_(Service(s)!vars)]_vars

\* In graceful mode "everything has started successfully" (Microkubed.go:56):
\* before it is told to drain, the daemon has not stopped any of its services.
StartedMeansRunning ==
    graceful /\ ~InFatal /\ signals = 0 => \A s \in Services : proc[s] # "killed"
=============================================================================
