-------------------------- MODULE MicrokubedProofs --------------------------
(***************************************************************************)
(* What Microkubed guarantees for any number of services, any capacities   *)
(* and any number of signals.                                              *)
(***************************************************************************)
EXTENDS Microkubed, TLAPS

-----------------------------------------------------------------------------
(* Which services are listed.                                              *)

Starting == {"start", "subscribe", "check", "await", "list", "kubeconfig"}

\* The services are listed in their order, each once it is healthy.
ListInv ==
    /\ pc \in MainStates
    /\ cur \in 1..N+1
    /\ listed \in 0..N
    /\ proc \in [Services -> ProcStates]
    /\ pc = "prepare" => cur = 1 /\ listed = 0
    /\ pc \in Starting => cur <= N /\ listed = cur - 1
    /\ pc = "deferred" => cur = N
    /\ pc = "enable" => cur <= N
    /\ pc \notin Starting \cup {"prepare"} => listed = N

\* What each goroutine in log.Fatal has done so far.
StoppedUpTo(g) ==
    \A s \in 1..upto[g] \ Sudoed :
        s < at[g] \/ (s = at[g] /\ step[g] = "send") => proc[s] # "running"

FatalInv ==
    /\ at \in [Goroutines -> 0..N+1]
    /\ upto \in [Goroutines -> 0..N]
    /\ step \in [Goroutines -> StepStates]
    /\ \A g \in Goroutines :
          /\ upto[g] <= listed /\ StoppedUpTo(g)
          /\ step[g] = "mode" => at[g] = 1

\* What DaemonConstants says of the number of services.
LEMMA NumberOfServices == N \in Nat \ {0} /\ ApiServer \in Nat /\ ApiServer < N
  BY DaemonConstants DEF DaemonConstants

\* The daemon starts with an empty list of handlers.
LEMMA ListInit == Init => ListInv
  BY NumberOfServices DEF Init, ListInv, MainStates, ProcStates, Starting

\* What a step of Stop does: its caller goes on or returns, a running child is
\* killed by the first one, and what is not in the way of Stop stays as it is.
LEMMA StopSteps ==
    ASSUME NEW g, NEW s, Stop(g, s)
    PROVE  /\ \E p \in {"kill", "send"} : GoTo(g, p)
           /\ step[g] \in {"kill", "send"}
           /\ step[g] = "kill" => proc' = [proc EXCEPT ![s] = Killed(s)]
           /\ step[g] = "send" => proc' = proc
           /\ UNCHANGED <<watch, check, hung, health, watched, unhealthy>>
           /\ \/ token' = token
              \/ token[s] < TokenCap /\ token' = [token EXCEPT ![s] = @ + 1]
<1>1. CASE StopKill(g, s)
  <2>1. step[g] = "kill" /\ proc' = [proc EXCEPT ![s] = Killed(s)]
    BY <1>1 DEF StopKill
  <2>2. UNCHANGED <<watch, check, hung, token, health, watched, unhealthy>>
    BY <1>1 DEF StopKill, checkVars
  <2>3. \E p \in {"kill", "send"} : GoTo(g, p)
    <3>1. CASE Flag(s)
      BY <1>1, <3>1, Zenon DEF StopKill
    <3>2. CASE ~Flag(s)
      BY <1>1, <3>2, Zenon DEF StopKill
    <3>3. QED
      BY <3>1, <3>2
  <2>4. QED
    BY <2>1, <2>2, <2>3
<1>2. CASE StopSend(g, s)
  <2>1. step[g] = "send" /\ proc' = proc
    BY <1>2 DEF StopSend, childVars
  <2>2. /\ UNCHANGED <<watch, check, hung, health, watched, unhealthy>>
        /\ token[s] < TokenCap /\ token' = [token EXCEPT ![s] = @ + 1]
    BY <1>2 DEF StopSend, childVars
  <2>3. GoTo(g, "kill")
    BY <1>2 DEF StopSend
  <2>4. QED
    BY <2>1, <2>2, <2>3
<1>3. QED
  BY <1>1, <1>2 DEF Stop

\* A child that is stopped, or not, is in one of the states of a child; no call
\* of Stop revives one, and the first step of each kills its child.
LEMMA StopKeepsType ==
    ASSUME NEW g, NEW s \in Services, proc \in [Services -> ProcStates],
           Stop(g, s)
    PROVE  /\ proc' \in [Services -> ProcStates]
           /\ step[g] = "kill" /\ s \notin Sudoed => proc'[s] # "running"
           /\ \A r \in Services : proc'[r] = "running" => proc[r] = "running"
<1>1. \/ proc' = proc /\ step[g] = "send"
      \/ proc' = [proc EXCEPT ![s] = Killed(s)]
  BY StopSteps
<1>2. Killed(s) \in ProcStates /\ (Killed(s) = "running" =>
                                       proc[s] = "running" /\ s \in Sudoed)
  BY DEF Killed, ProcStates
<1>3. QED
  BY <1>1, <1>2

\* What the main goroutine does to the list.
LEMMA MainKeepsList == ListInv /\ MainNext => ListInv'
<1> SUFFICES ASSUME ListInv, MainNext PROVE ListInv'
  OBVIOUS
<1> USE NumberOfServices
<1>1. CASE Prepare
  BY <1>1 DEF Prepare, MainAt, childVars, ListInv, MainStates, Starting
<1>2. CASE StartService
  BY <1>2 DEF StartService, MainAt, ListInv, MainStates, Starting, Services, ProcStates
<1>3. CASE StartFails
  BY <1>3 DEF StartFails, mainVars, childVars, ListInv
<1>4. CASE Subscribe \/ CheckOnce
  BY <1>4 DEF Subscribe, CheckOnce, MainAt, childVars, ListInv, MainStates, Starting
<1>5. CASE Answered
  BY <1>5 DEF Answered, MainAt, childVars, ListInv, MainStates, Starting
<1>6. CASE ListService
  BY <1>6
  DEF ListService, MainAt, AfterListing, childVars, ListInv, MainStates, Starting
<1>7. CASE CreateKubeconfig
  BY <1>7 DEF CreateKubeconfig, MainAt, childVars, ListInv, MainStates, Starting
<1>8. CASE DeferredStop
  <2>1. cur \in Services
    BY <1>8 DEF DeferredStop, MainAt, ListInv, Services
  <2>2. proc' \in [Services -> ProcStates]
    BY <1>8, <2>1, StopKeepsType DEF DeferredStop, ListInv
  <2>3. QED
    BY <1>8, <2>2, NumberOfServices
    DEF DeferredStop, MainAt, ListInv, MainStates, Starting
<1>9. CASE WaitForNode \/ NotifySignals \/ SetGraceful
  BY <1>9
  DEF WaitForNode, NotifySignals, SetGraceful, MainAt, childVars, ListInv,
      MainStates, Starting
<1>10. CASE WaitForNodeFails
  BY <1>10 DEF WaitForNodeFails, mainVars, childVars, ListInv
<1>11. CASE EnableCheck
  BY <1>11 DEF EnableCheck, MainAt, childVars, ListInv, MainStates, Starting
<1>12. CASE Deploy \/ AwaitExit
  BY <1>12 DEF Deploy, AwaitExit, MainAt, childVars, ListInv, MainStates, Starting
<1>13. CASE StopNext
  <2>1. cur \in Services
    BY <1>13 DEF StopNext, ListInv, Services
  <2>2. proc' \in [Services -> ProcStates]
    BY <1>13, <2>1, StopKeepsType DEF StopNext, ListInv
  <2>3. cur' \in 1..N+1
    BY <1>13, <2>1 DEF StopNext, ListInv, Services
  <2>4. UNCHANGED <<pc, listed>> /\ pc = "stop"
    BY <1>13 DEF StopNext, MainAt
  <2>5. QED
    BY <2>2, <2>3, <2>4 DEF ListInv, Starting
<1>14. CASE LoopEnds \/ Return
  BY <1>14 DEF LoopEnds, Return, MainAt, childVars, ListInv, MainStates, Starting
<1>15. QED
  BY <1>1, <1>2, <1>3, <1>4, <1>5, <1>6, <1>7, <1>8, <1>9, <1>10, <1>11,
     <1>12, <1>13, <1>14 DEF MainNext

\* The other goroutines leave the place of main and the list alone.
LEMMA OthersKeepMain ==
    ASSUME ListInv,
           \/ Sigint \/ DrainReturns \/ DrainFails
           \/ \E g \in Goroutines : FatalNext(g)
           \/ \E s \in Services : ServiceNext(s)
           \/ UNCHANGED vars
    PROVE  UNCHANGED <<pc, cur, listed>>
BY DEF Sigint, DrainReturns, DrainFails, FatalNext, FatalList, FatalStop,
       FatalExit, ServiceNext, ChildExits, ExitHandler, ForwardInterrupt, Probe,
       Hang, ClearFlag, NextRound, EndCheck, CheckService, mainVars, vars

\* No step of theirs brings a child back.
LEMMA OthersReviveNone ==
    ASSUME ListInv, FatalInv,
           \/ Sigint \/ DrainReturns \/ DrainFails
           \/ \E g \in Goroutines : FatalNext(g)
           \/ \E s \in Services : ServiceNext(s)
           \/ UNCHANGED vars
    PROVE  /\ proc' \in [Services -> ProcStates]
           /\ \A r \in Services : proc'[r] = "running" => proc[r] = "running"
<1>1. CASE Sigint \/ DrainReturns \/ DrainFails \/ UNCHANGED vars
  BY <1>1 DEF Sigint, DrainReturns, DrainFails, childVars, vars, ListInv
<1>2. ASSUME NEW g \in Goroutines, FatalNext(g)
      PROVE  /\ proc' \in [Services -> ProcStates]
             /\ \A r \in Services : proc'[r] = "running" => proc[r] = "running"
  <2>1. CASE FatalStop(g)
    <3>1. at[g] \in Services /\ Stop(g, at[g])
      BY <1>2, <2>1, NumberOfServices DEF FatalStop, FatalInv, Services
    <3>2. QED
      BY <3>1, StopKeepsType DEF ListInv
  <2>2. CASE FatalList(g) \/ FatalExit(g)
    BY <2>2 DEF FatalList, FatalExit, childVars, ListInv
  <2>3. QED
    BY <1>2, <2>1, <2>2 DEF FatalNext
<1>3. ASSUME NEW s \in Services, ServiceNext(s)
      PROVE  /\ proc' \in [Services -> ProcStates]
             /\ \A r \in Services : proc'[r] = "running" => proc[r] = "running"
  <2>1. CASE ChildExits(s) \/ ExitHandler(s) \/ ForwardInterrupt(s)
    BY <2>1
    DEF ChildExits, ExitHandler, ForwardInterrupt, Killed, ProcStates, ListInv
  <2>2. CASE \/ Probe(s) \/ Hang(s) \/ ClearFlag(s) \/ NextRound(s)
             \/ EndCheck(s) \/ CheckService(s)
    BY <2>2
    DEF Probe, Hang, ClearFlag, NextRound, EndCheck, CheckService, childVars, ListInv
  <2>3. QED
    BY <1>3, <2>1, <2>2 DEF ServiceNext
<1>4. QED
  BY <1>1, <1>2, <1>3

\* A listed service is not started again.
LEMMA MainRevivesNone ==
    ASSUME ListInv, MainNext
    PROVE  /\ listed <= listed'
           /\ \A r \in 1..listed : proc'[r] = "running" => proc[r] = "running"
<1> USE NumberOfServices
<1>1. CASE StartService
  <2>1. listed < cur /\ cur \in Services /\ UNCHANGED listed
    BY <1>1 DEF StartService, MainAt, ListInv, Starting, Services
  <2>2. \A r \in 1..listed : r # cur /\ r \in Services
    BY <2>1 DEF ListInv, Services
  <2>3. QED
    BY <1>1, <2>1, <2>2 DEF StartService, ListInv
<1>2. CASE ListService
  BY <1>2 DEF ListService, MainAt, ListInv, Starting, childVars
<1>3. CASE DeferredStop \/ StopNext
  <2>1. UNCHANGED listed
    BY <1>3 DEF DeferredStop, StopNext
  <2>3. cur \in Services /\ Stop(Main, cur)
    BY <1>3 DEF DeferredStop, StopNext, MainAt, ListInv, Services
  <2>4. QED
    BY <2>1, <2>3, StopKeepsType DEF ListInv, Services
<1>4. CASE \/ Prepare \/ StartFails \/ Subscribe \/ CheckOnce \/ Answered
           \/ CreateKubeconfig \/ WaitForNode \/ WaitForNodeFails \/ NotifySignals
           \/ SetGraceful \/ EnableCheck \/ Deploy \/ AwaitExit \/ LoopEnds \/ Return
  <2>1. UNCHANGED <<listed, proc>>
    BY <1>4
    DEF Prepare, StartFails, Subscribe, CheckOnce, Answered, CreateKubeconfig,
        WaitForNode, WaitForNodeFails, NotifySignals, SetGraceful, EnableCheck,
        Deploy, AwaitExit, LoopEnds, Return, mainVars, childVars
  <2>2. QED
    BY <2>1 DEF ListInv
<1>5. QED
  BY <1>1, <1>2, <1>3, <1>4 DEF MainNext

\* Every step keeps what is known of the list.
LEMMA ListStep == ListInv /\ FatalInv /\ [Next]_vars => ListInv'
<1> SUFFICES ASSUME ListInv, FatalInv, [Next]_vars PROVE ListInv'
  OBVIOUS
<1>1. CASE MainNext
  BY <1>1, MainKeepsList
<1>2. CASE \/ Sigint \/ DrainReturns \/ DrainFails
           \/ \E g \in Goroutines : FatalNext(g)
           \/ \E s \in Services : ServiceNext(s)
           \/ UNCHANGED vars
  BY <1>2, OthersKeepMain, OthersReviveNone DEF ListInv
<1>3. QED
  BY <1>1, <1>2 DEF Next

\* A step keeps the list, or makes it longer, and revives no listed service.
LEMMA ListedStayDead ==
    ASSUME ListInv, FatalInv, [Next]_vars
    PROVE  /\ listed <= listed'
           /\ \A r \in 1..listed : proc'[r] = "running" => proc[r] = "running"
<1>1. CASE MainNext
  BY <1>1, MainRevivesNone
<1>2. CASE \/ Sigint \/ DrainReturns \/ DrainFails
           \/ \E g \in Goroutines : FatalNext(g)
           \/ \E s \in Services : ServiceNext(s)
           \/ UNCHANGED vars
  <2>1. UNCHANGED listed
    BY <1>2, OthersKeepMain
  <2>2. \A r \in 1..listed : r \in Services
    BY NumberOfServices DEF ListInv, Services
  <2>3. QED
    BY <1>2, <2>1, <2>2, OthersReviveNone DEF ListInv
<1>3. QED
  BY <1>1, <1>2 DEF Next

-----------------------------------------------------------------------------
(* log.Fatal.                                                              *)

\* No goroutine is in log.Fatal at first.
LEMMA FatalInit == Init => FatalInv
  BY NumberOfServices DEF Init, FatalInv, StoppedUpTo, StepStates, Goroutines

\* A step of Stop that main takes outside log.Fatal.
LEMMA MainStops ==
    ASSUME DeferredStop \/ StopNext
    PROVE  /\ at[Main] = 0
           /\ UNCHANGED <<at, upto>>
           /\ \E p \in {"kill", "send"} : GoTo(Main, p)
<1>1. at[Main] = 0 /\ UNCHANGED <<at, upto>> /\ Stop(Main, cur)
  BY DEF DeferredStop, StopNext, MainAt
<1>2. QED
  BY <1>1, StopSteps

\* A step of any goroutine leaves log.Fatal alone, calls it, or is one of the
\* exit handler; main calls Stop elsewhere as well.
LEMMA FatalSteps ==
    ASSUME [Next]_vars
    PROVE  \/ UNCHANGED fatalVars
           \/ DeferredStop \/ StopNext
           \/ \E g \in Goroutines : Fatal(g) \/ FatalList(g) \/ FatalStop(g)
<1> USE NumberOfServices
<1>1. CASE MainNext
  <2>1. Main \in Goroutines
    BY DEF Main, Goroutines
  <2>2. CASE DeferredStop \/ StopNext
    BY <2>2
  <2>3. CASE ~(DeferredStop \/ StopNext)
    BY <1>1, <2>1, <2>3
    DEF MainNext, Prepare, StartService, Subscribe, StartFails, CheckOnce,
        Answered, ListService, CreateKubeconfig, WaitForNode, WaitForNodeFails,
        NotifySignals, SetGraceful, EnableCheck, Deploy, AwaitExit, LoopEnds,
        Return
  <2>4. QED
    BY <2>2, <2>3
<1>2. CASE DrainFails
  <2>1. Drain \in Goroutines
    BY DEF Drain, Goroutines
  <2>2. QED
    BY <1>2, <2>1 DEF DrainFails
<1>3. CASE Sigint \/ DrainReturns \/ UNCHANGED vars
  BY <1>3 DEF Sigint, DrainReturns, vars
<1>4. CASE \E g \in Goroutines : FatalNext(g)
  BY <1>4 DEF FatalNext, FatalExit
<1>5. ASSUME NEW s \in Services, ServiceNext(s)
      PROVE  UNCHANGED fatalVars \/ Fatal(s)
  BY <1>5
  DEF ServiceNext, ChildExits, ExitHandler, ForwardInterrupt, Probe, Hang,
      ClearFlag, NextRound, EndCheck, CheckService
<1>6. Services \subseteq Goroutines
  BY DEF Services, Goroutines
<1>7. QED
  BY <1>1, <1>2, <1>3, <1>4, <1>5, <1>6 DEF Next

\* Every step keeps what a goroutine in log.Fatal has stopped.
LEMMA FatalStep == ListInv /\ FatalInv /\ [Next]_vars => FatalInv'
<1> SUFFICES ASSUME ListInv, FatalInv, [Next]_vars PROVE FatalInv'
  OBVIOUS
<1> USE NumberOfServices
<1>1. /\ listed \in 0..N /\ listed' \in 0..N /\ listed <= listed'
      /\ proc \in [Services -> ProcStates]
      /\ \A r \in 1..listed : proc'[r] = "running" => proc[r] = "running"
  BY ListStep, ListedStayDead DEF ListInv
<1>2. CASE UNCHANGED fatalVars
  BY <1>1, <1>2 DEF fatalVars, FatalInv, StoppedUpTo
<1>3. ASSUME NEW g \in Goroutines, Fatal(g) PROVE FatalInv'
  <2>1. /\ at' \in [Goroutines -> 0..N+1] /\ upto' = upto
        /\ step' \in [Goroutines -> StepStates]
    BY <1>3 DEF Fatal, FatalInv, StepStates
  <2>2. ASSUME NEW h \in Goroutines PROVE upto'[h] <= listed' /\ StoppedUpTo(h)'
    <3>1. CASE h = g
      <4>1. at'[h] = 1 /\ step'[h] = "mode"
        BY <1>3, <3>1 DEF Fatal, FatalInv
      <4>2. QED
        BY <1>1, <2>1, <4>1 DEF FatalInv, StoppedUpTo
    <3>2. CASE h # g
      BY <1>1, <1>3, <3>2 DEF Fatal, FatalInv, StoppedUpTo
    <3>3. QED
      BY <3>1, <3>2
  <2>3. ASSUME NEW h \in Goroutines PROVE step'[h] = "mode" => at'[h] = 1
    BY <1>3 DEF Fatal, FatalInv
  <2>4. QED
    BY <2>1, <2>2, <2>3 DEF FatalInv
<1>4. ASSUME NEW g \in Goroutines, FatalStop(g) PROVE FatalInv'
  <2>1. /\ at[g] \in Services /\ Stop(g, at[g]) /\ at[g] \in 1..N
        /\ at' = IF step'[g] = "kill" THEN [at EXCEPT ![g] = at[g] + 1] ELSE at
        /\ UNCHANGED upto
    BY <1>4 DEF FatalStop, FatalInv, Services, Returns
  <2>2. /\ at' \in [Goroutines -> 0..N+1]
        /\ step' \in [Goroutines -> StepStates]
        /\ \A h \in Goroutines : h # g => step'[h] = step[h] /\ at'[h] = at[h]
        /\ at'[g] = IF step'[g] = "kill" THEN at[g] + 1 ELSE at[g]
        /\ step[g] \in {"kill", "send"} /\ step'[g] \in {"kill", "send"}
    <3>1. PICK p \in {"kill", "send"} : GoTo(g, p)
      BY <2>1, StopSteps
    <3>2. step[g] \in {"kill", "send"}
      BY <2>1, StopSteps
    <3>3. QED
      BY <2>1, <3>1, <3>2 DEF FatalInv, GoTo, StepStates
  <2>3. at[g] \in 1..upto[g] \ Sudoed => proc'[at[g]] # "running"
    <3>1. CASE step[g] = "kill"
      BY <1>1, <2>1, <3>1, StopKeepsType
    <3>2. CASE step[g] = "send"
      <4>1. proc' = proc
        BY <2>1, <3>2, StopSteps
      <4>2. QED
        BY <3>2, <4>1 DEF FatalInv, StoppedUpTo
    <3>3. QED
      BY <2>2, <3>1, <3>2
  <2>4. ASSUME NEW h \in Goroutines PROVE upto'[h] <= listed' /\ StoppedUpTo(h)'
    <3>1. upto'[h] = upto[h] /\ upto[h] \in 0..N /\ at[h] \in 0..N+1 /\ upto[h] <= listed
      BY <2>1 DEF FatalInv
    <3>2. CASE h = g
      BY <1>1, <2>1, <2>2, <2>3, <3>1, <3>2 DEF FatalInv, StoppedUpTo
    <3>3. CASE h # g
      BY <1>1, <2>2, <3>1, <3>3 DEF FatalInv, StoppedUpTo
    <3>4. QED
      BY <1>1, <3>1, <3>2, <3>3
  <2>5. QED
    BY <2>1, <2>2, <2>4 DEF FatalInv
<1>5. ASSUME NEW g \in Goroutines, FatalList(g) PROVE FatalInv'
  <2>1. /\ UNCHANGED <<at, proc>> /\ step[g] = "mode"
        /\ step' = [step EXCEPT ![g] = "kill"]
        /\ upto' = [upto EXCEPT ![g] = IF graceful THEN 0 ELSE listed]
        /\ UNCHANGED listed
    BY <1>5 DEF FatalList, GoTo, mainVars, childVars
  <2>2. /\ upto' \in [Goroutines -> 0..N]
        /\ step' \in [Goroutines -> StepStates]
    BY <1>1, <2>1 DEF FatalInv, StepStates
  <2>3. ASSUME NEW h \in Goroutines PROVE upto'[h] <= listed' /\ StoppedUpTo(h)'
    <3>1. CASE h = g
      <4>1. at[g] = 1
        BY <2>1 DEF FatalInv
      <4>2. QED
        BY <1>1, <2>1, <3>1, <4>1 DEF FatalInv, StoppedUpTo
    <3>2. CASE h # g
      BY <1>1, <2>1, <3>2 DEF FatalInv, StoppedUpTo
    <3>3. QED
      BY <3>1, <3>2
  <2>4. QED
    BY <2>1, <2>2, <2>3 DEF FatalInv
<1>6. CASE DeferredStop \/ StopNext
  <2>1. PICK p \in {"kill", "send"} : step' = [step EXCEPT ![Main] = p]
    BY <1>6, MainStops DEF GoTo
  <2>2. /\ step' \in [Goroutines -> StepStates]
        /\ \A h \in Goroutines : h # Main => step'[h] = step[h]
    BY <2>1 DEF FatalInv, StepStates
  <2>3. ASSUME NEW h \in Goroutines PROVE upto'[h] <= listed' /\ StoppedUpTo(h)'
    <3>1. at' = at /\ upto' = upto /\ at[Main] = 0
      BY <1>6, MainStops
    <3>2. QED
      BY <1>1, <2>2, <3>1 DEF FatalInv, StoppedUpTo
  <2>4. at' = at /\ upto' = upto
    BY <1>6, MainStops
  <2>5. step'[Main] # "mode"
    <3>1. Main \in Goroutines
      BY DEF Main, Goroutines
    <3>2. QED
      BY <2>1, <3>1 DEF FatalInv
  <2>6. QED
    BY <2>2, <2>3, <2>4, <2>5 DEF FatalInv
<1>7. QED
  BY <1>2, <1>3, <1>4, <1>5, <1>6, FatalSteps

\* A goroutine that has called log.Fatal does not return from it.
LEMMA FatalIsFinal ==
    ASSUME FatalInv, [Next]_vars, NEW g \in Goroutines, at[g] # 0
    PROVE  at'[g] # 0
<1>1. CASE UNCHANGED fatalVars
  BY <1>1 DEF fatalVars
<1>2. ASSUME NEW h \in Goroutines, Fatal(h) PROVE at'[g] # 0
  BY <1>2 DEF Fatal, FatalInv
<1>3. ASSUME NEW h \in Goroutines, FatalStop(h) PROVE at'[g] # 0
  BY <1>3, NumberOfServices DEF FatalStop, FatalInv
<1>4. ASSUME NEW h \in Goroutines, FatalList(h) PROVE at'[g] # 0
  BY <1>4 DEF FatalList
<1>5. CASE DeferredStop \/ StopNext
  BY <1>5, MainStops
<1>6. QED
  BY <1>1, <1>2, <1>3, <1>4, <1>5, FatalSteps

\* Outside log.Fatal main is in Stop only where it calls it.
LEMMA MainStepKept ==
    ASSUME FatalInv, [Next]_vars, at'[Main] = 0
    PROVE  /\ at[Main] = 0
           /\ step'[Main] = step[Main] \/ DeferredStop \/ StopNext
<1>1. Main \in Goroutines
  BY NumberOfServices DEF Main, Goroutines
<1>2. at[Main] = 0
  BY <1>1, FatalIsFinal
<1>3. CASE UNCHANGED fatalVars
  BY <1>2, <1>3 DEF fatalVars
<1>4. ASSUME NEW g \in Goroutines, Fatal(g) PROVE step'[Main] = step[Main]
  BY <1>1, <1>4 DEF Fatal, FatalInv
<1>5. ASSUME NEW g \in Goroutines, FatalList(g) PROVE step'[Main] = step[Main]
  <2>1. g # Main
    BY <1>2, <1>5 DEF FatalList, FatalInv
  <2>2. QED
    BY <1>1, <1>5, <2>1 DEF FatalList, GoTo, FatalInv
<1>6. ASSUME NEW g \in Goroutines, FatalStop(g) PROVE step'[Main] = step[Main]
  <2>1. g # Main
    BY <1>2, <1>6 DEF FatalStop, FatalInv
  <2>2. \E p \in {"kill", "send"} : GoTo(g, p)
    BY <1>6, StopSteps DEF FatalStop
  <2>3. QED
    BY <1>1, <2>1, <2>2 DEF GoTo, FatalInv
<1>7. QED
  BY <1>2, <1>3, <1>4, <1>5, <1>6, FatalSteps

\* Whoever gets through the exit handler of log.Fatal has stopped all that was
\* listed when it came in, however many goroutines are in it at the same time.
THEOREM FatalStopsAllListed == Spec => []FatalStopsListed
<1>1. ListInv /\ FatalInv => FatalStopsListed
  BY NumberOfServices DEF FatalInv, StoppedUpTo, FatalStopsListed
<1>2. QED
  BY <1>1, ListInit, FatalInit, ListStep, FatalStep, PTL DEF Spec

-----------------------------------------------------------------------------
(* The end of an orderly shutdown.                                         *)

\* The loop over serviceHandlers has stopped the services before cur, and has
\* killed the one it is at once the flag of that is loaded.
LoopInv ==
    /\ pc = "stop" =>
          \A s \in 1..listed \ Sudoed :
              s < cur \/ (s = cur /\ at[Main] = 0 /\ step[Main] = "send")
                 => proc[s] # "running"
    /\ pc = "sleep" => \A s \in 1..listed \ Sudoed : proc[s] # "running"
    /\ at[Main] = 0 /\ pc \notin {"deferred", "stop", "sleep"} =>
          step[Main] = "kill"

\* A step of the loop over serviceHandlers keeps what it has stopped.
LEMMA StopNextStep ==
    ASSUME ListInv, FatalInv, LoopInv, StopNext, [Next]_vars
    PROVE  LoopInv'
<1> USE NumberOfServices
<1>1. /\ pc = "stop" /\ pc' = "stop" /\ listed' = listed /\ listed \in 0..N
      /\ at[Main] = 0 /\ cur \in Services /\ cur \in 1..N /\ Stop(Main, cur)
      /\ \A r \in 1..listed : proc'[r] = "running" => proc[r] = "running"
  BY ListedStayDead DEF StopNext, MainAt, ListInv, Services
<1>2. cur' = IF step'[Main] = "kill" THEN cur + 1 ELSE cur
  BY DEF StopNext, Returns
<1>3. ASSUME cur \in 1..listed \ Sudoed PROVE proc'[cur] # "running"
  <2>1. CASE step[Main] = "kill"
    BY <1>1, <1>3, <2>1, StopKeepsType DEF ListInv
  <2>2. CASE step[Main] = "send"
    <3>1. proc' = proc
      BY <1>1, <2>2, StopSteps
    <3>2. QED
      BY <1>1, <1>3, <2>2, <3>1 DEF LoopInv
  <2>3. QED
    BY <1>1, <2>1, <2>2, StopSteps
<1>4. QED
  BY <1>1, <1>2, <1>3 DEF LoopInv

\* Every step keeps what the loop at the end of Run has stopped.
LEMMA LoopStep == ListInv /\ FatalInv /\ LoopInv /\ [Next]_vars => LoopInv'
<1> SUFFICES ASSUME ListInv, FatalInv, LoopInv, [Next]_vars PROVE LoopInv'
  OBVIOUS
<1> USE NumberOfServices
<1>1. /\ listed \in 0..N /\ cur \in 1..N+1 /\ proc \in [Services -> ProcStates]
      /\ \A r \in 1..listed : proc'[r] = "running" => proc[r] = "running"
  BY ListedStayDead DEF ListInv
<1>2. ASSUME ~DeferredStop, ~StopNext, at'[Main] = 0
      PROVE  at[Main] = 0 /\ step'[Main] = step[Main]
  BY <1>2, MainStepKept
<1>3. CASE UNCHANGED <<pc, cur, listed>> /\ ~DeferredStop /\ ~StopNext
  BY <1>1, <1>2, <1>3 DEF LoopInv
<1>4. CASE AwaitExit
  <2>1. /\ pc = "run" /\ pc' = "stop" /\ cur' = 1 /\ listed' = listed
        /\ at' = at /\ step' = step
    BY <1>4 DEF AwaitExit, MainAt, fatalVars
  <2>2. QED
    BY <1>1, <2>1 DEF LoopInv
<1>5. CASE StopNext
  BY <1>5, StopNextStep
<1>6. CASE DeferredStop
  <2>1. pc = "deferred" /\ pc' = IF step'[Main] = "kill" THEN "waitNode" ELSE pc
    BY <1>6 DEF DeferredStop, MainAt, Returns
  <2>2. QED
    BY <2>1 DEF LoopInv
<1>7. CASE LoopEnds
  <2>1. pc = "stop" /\ pc' = "sleep" /\ cur > listed /\ UNCHANGED <<listed, proc>>
    BY <1>7 DEF LoopEnds, MainAt, childVars
  <2>2. QED
    BY <1>1, <2>1 DEF LoopInv
<1>8. CASE /\ MainNext /\ ~UNCHANGED <<pc, cur, listed>>
           /\ ~AwaitExit /\ ~StopNext /\ ~DeferredStop /\ ~LoopEnds
  <2>1. pc' \notin {"stop", "sleep"} /\ pc \notin {"deferred", "stop", "sleep"}
    BY <1>8
    DEF MainNext, Prepare, StartService, Subscribe, StartFails, CheckOnce,
        Answered, ListService, AfterListing, CreateKubeconfig, WaitForNode,
        WaitForNodeFails, NotifySignals, SetGraceful, EnableCheck, Deploy,
        Return, mainVars, MainAt
  <2>2. QED
    BY <1>2, <1>8, <2>1 DEF LoopInv
<1>9. QED
  BY <1>3, <1>4, <1>5, <1>6, <1>7, <1>8, OthersKeepMain DEF Next

\* When Run is about to return, every service that the daemon may kill has been
\* stopped, and none has come back.
THEOREM ReturnLeavesNone == Spec => []ReturnStopsAll
<1>1. Init => LoopInv
  BY NumberOfServices DEF Init, LoopInv, Main, Goroutines
<1>2. ListInv /\ LoopInv => ReturnStopsAll
  BY NumberOfServices DEF ListInv, LoopInv, ReturnStopsAll, Starting, Services
<1>3. QED
  BY <1>1, <1>2, ListInit, FatalInit, ListStep, FatalStep, LoopStep, PTL DEF Spec

-----------------------------------------------------------------------------
(* The services as SupervisedService.                                      *)

CheckInv ==
    /\ check \in [Services -> CheckStates]
    /\ token \in [Services -> Nat]
    /\ health \in [Services -> Seq(BOOLEAN)]

\* The mode of a service in terms of the variables of the daemon.
LEMMA ModeIs ==
    ASSUME NEW s \in Services
    PROVE  /\ check[s] \in {"off", "ended"} => Mode(s) = "off"
           /\ check[s] = "single" => Mode(s) = "once"
           /\ check[s] = "clearing" => Mode(s) = "answered"
           /\ check[s] \in {"perpetual", "waiting"} => Mode(s) = "always"
BY Zenon DEF Mode

\* The same of the next state.
LEMMA ModeIsNext ==
    ASSUME NEW s \in Services
    PROVE  /\ check'[s] \in {"off", "ended"} => Mode(s)' = "off"
           /\ check'[s] = "single" => Mode(s)' = "once"
           /\ check'[s] = "clearing" => Mode(s)' = "answered"
           /\ check'[s] \in {"perpetual", "waiting"} => Mode(s)' = "always"
BY Zenon DEF Mode

\* What a step does to one service, as far as SupervisedService sees it.
Starts(s) ==
    /\ check' = [check EXCEPT ![s] =
                    IF @ = "off" THEN "single" ELSE @]
    /\ UNCHANGED <<token, health>>

Watches(s) ==
    /\ check' = [check EXCEPT ![s] =
                    IF @ = "off" THEN "perpetual" ELSE @]
    /\ UNCHANGED <<token, health>>

Receives(s) ==
    /\ health[s] # <<>>
    /\ health' = [health EXCEPT ![s] = Tail(@)]
    /\ UNCHANGED <<check, token>>

\* The send of a call of Stop.
Sends(s) ==
    /\ token[s] < TokenCap
    /\ token' = [token EXCEPT ![s] = @ + 1]
    /\ UNCHANGED <<check, health>>

\* What any step does to the checks of all services.
CheckAction ==
    \/ UNCHANGED <<check, token, health>>
    \/ \E s \in Services :
          \/ Starts(s) \/ Watches(s) \/ Receives(s) \/ Sends(s)
          \/ Probe(s) \/ ClearFlag(s) \/ NextRound(s) \/ EndCheck(s)

\* A step of Stop sends a token or leaves the check alone.
LEMMA StopAction ==
    ASSUME NEW g, NEW s \in Services, Stop(g, s)
    PROVE  CheckAction
BY StopSteps DEF Sends, CheckAction

\* What a check concludes is yes or no.
LEMMA VerdictIsBoolean ==
    ASSUME NEW s, NEW ok \in Verdicts(s)
    PROVE  ok \in BOOLEAN
<1>1. ok \in {TRUE, FALSE} \/ ok = (proc[s] \in {"running", "killed"})
  BY Zenon DEF Verdicts
<1>2. CASE ok \in {TRUE, FALSE}
  BY <1>2
<1>3. CASE ok = (proc[s] \in {"running", "killed"})
  <2>1. CASE proc[s] \in {"running", "killed"}
    BY <1>3, <2>1
  <2>2. CASE ~(proc[s] \in {"running", "killed"})
    BY <1>3, <2>2
  <2>3. QED
    BY <2>1, <2>2
<1>4. QED
  BY <1>1, <1>2, <1>3

\* Which steps touch a check, and in which way.
LEMMA CheckActions ==
    ASSUME ListInv, FatalInv, [Next]_vars
    PROVE  CheckAction
<1> USE NumberOfServices
<1>1. CASE MainNext
  <2>1. CASE CheckOnce
    <3>1. cur \in Services
      BY <2>1 DEF CheckOnce, MainAt, ListInv, Starting, Services
    <3>2. Starts(cur)
      BY <2>1 DEF CheckOnce, Starts
    <3>3. QED
      BY <3>1, <3>2 DEF CheckAction
  <2>2. CASE Answered
    <3>a. pc = "await"
      BY <2>2, Zenon DEF Answered, MainAt
    <3>1. cur \in Services
      BY <3>a DEF ListInv, Starting, Services
    <3>2. Receives(cur)
      BY <2>2, Zenon DEF Answered, Receives
    <3>3. QED
      BY <3>1, <3>2 DEF CheckAction
  <2>3. CASE DeferredStop
    <3>1. cur \in Services /\ Stop(Main, cur)
      BY <2>3 DEF DeferredStop, MainAt, ListInv, Services
    <3>2. QED
      BY <3>1, StopAction
  <2>4. CASE EnableCheck
    <3>1. cur \in Services
      BY <2>4 DEF EnableCheck, MainAt, ListInv, Services
    <3>2. Watches(cur)
      BY <2>4 DEF EnableCheck, Watches
    <3>3. QED
      BY <3>1, <3>2 DEF CheckAction
  <2>5. CASE StopNext
    <3>1. cur \in Services /\ Stop(Main, cur)
      BY <2>5 DEF StopNext, ListInv, Services
    <3>2. QED
      BY <3>1, StopAction
  <2>6. CASE \/ Prepare \/ StartService \/ Subscribe \/ StartFails
             \/ ListService \/ CreateKubeconfig \/ WaitForNode
             \/ WaitForNodeFails \/ NotifySignals \/ SetGraceful \/ Deploy
             \/ AwaitExit \/ LoopEnds \/ Return
    <3>1. UNCHANGED checkVars
      BY <2>6
      DEF Prepare, StartService, Subscribe, StartFails, ListService,
          CreateKubeconfig, WaitForNode, WaitForNodeFails, NotifySignals,
          SetGraceful, Deploy, AwaitExit, LoopEnds, Return
    <3>2. QED
      BY <3>1 DEF checkVars, CheckAction
  <2>7. QED
    BY <1>1, <2>1, <2>2, <2>3, <2>4, <2>5, <2>6 DEF MainNext
<1>2. CASE Sigint \/ DrainReturns \/ DrainFails \/ UNCHANGED vars
  <2>1. UNCHANGED checkVars
    BY <1>2 DEF Sigint, DrainReturns, DrainFails, vars
  <2>2. QED
    BY <2>1 DEF checkVars, CheckAction
<1>3. ASSUME NEW g \in Goroutines, FatalNext(g) PROVE CheckAction
  <2>1. CASE FatalStop(g)
    <3>1. at[g] \in Services /\ Stop(g, at[g])
      BY <2>1 DEF FatalStop, FatalInv, Services
    <3>2. QED
      BY <3>1, StopAction
  <2>2. CASE FatalList(g) \/ FatalExit(g)
    BY <2>2 DEF FatalList, FatalExit, checkVars, CheckAction
  <2>3. QED
    BY <1>3, <2>1, <2>2 DEF FatalNext
<1>4. ASSUME NEW s \in Services, ServiceNext(s) PROVE CheckAction
  <2>1. CASE ChildExits(s) \/ ExitHandler(s) \/ ForwardInterrupt(s) \/ Hang(s)
    <3>1. UNCHANGED <<check, token, health>>
      BY <2>1 DEF ChildExits, ExitHandler, ForwardInterrupt, Hang, checkVars
    <3>2. QED
      BY <3>1 DEF CheckAction
  <2>2. CASE CheckService(s)
    <3>1. Receives(s)
      BY <2>2 DEF CheckService, Receives
    <3>2. QED
      BY <3>1 DEF CheckAction
  <2>3. CASE Probe(s) \/ ClearFlag(s) \/ NextRound(s) \/ EndCheck(s)
    BY <2>3 DEF CheckAction
  <2>4. QED
    BY <1>4, <2>1, <2>2, <2>3 DEF ServiceNext
<1>5. QED
  BY <1>1, <1>2, <1>3, <1>4 DEF Next

\* A step that touches a check keeps the relation of flag, check and answers.
LEMMA CheckStep == CheckInv /\ CheckAction => CheckInv'
<1> SUFFICES ASSUME CheckInv, CheckAction PROVE CheckInv'
  OBVIOUS
<1>1. CASE UNCHANGED <<check, token, health>>
  BY <1>1 DEF CheckInv
<1>2. ASSUME NEW s \in Services, Starts(s) \/ Watches(s) PROVE CheckInv'
  BY <1>2 DEF Starts, Watches, CheckInv, CheckStates
<1>3. ASSUME NEW s \in Services, Receives(s) PROVE CheckInv'
  <2>1. Tail(health[s]) \in Seq(BOOLEAN)
    BY <1>3 DEF Receives, CheckInv
  <2>2. QED
    BY <1>3, <2>1 DEF Receives, CheckInv
<1>4. ASSUME NEW s \in Services, Sends(s) PROVE CheckInv'
  BY <1>4 DEF Sends, CheckInv
<1>5. ASSUME NEW s \in Services, Probe(s) PROVE CheckInv'
  <2>a. PICK ok \in Verdicts(s) :
           health' = [health EXCEPT ![s] = Append(health[s], ok)]
    BY <1>5, Zenon DEF Probe
  <2>b. ok \in BOOLEAN
    BY VerdictIsBoolean
  <2>1. health' = [health EXCEPT ![s] = Append(health[s], ok)]
    BY <2>a
  <2>2. Append(health[s], ok) \in Seq(BOOLEAN)
    BY <2>b DEF CheckInv
  <2>3. health' \in [Services -> Seq(BOOLEAN)]
    BY <2>1, <2>2 DEF CheckInv
  <2>4. /\ UNCHANGED token
        /\ check' = [check EXCEPT ![s] = IF check[s] = "single"
                                         THEN "clearing" ELSE "waiting"]
    BY <1>5, Zenon DEF Probe
  <2>5. QED
    BY <2>3, <2>4 DEF CheckInv, CheckStates
<1>6. ASSUME NEW s \in Services, ClearFlag(s) \/ NextRound(s) PROVE CheckInv'
  <2>1. /\ UNCHANGED <<token, health>>
        /\ \E c \in CheckStates : check' = [check EXCEPT ![s] = c]
    BY <1>6 DEF ClearFlag, NextRound, CheckStates
  <2>2. QED
    BY <2>1 DEF CheckInv
<1>7. ASSUME NEW s \in Services, EndCheck(s) PROVE CheckInv'
  <2>1. /\ UNCHANGED health /\ token[s] > 0
        /\ token' = [token EXCEPT ![s] = token[s] - 1]
        /\ check' = [check EXCEPT ![s] = "ended"]
    BY <1>7 DEF EndCheck
  <2>2. QED
    BY <2>1 DEF CheckInv, CheckStates
<1>8. QED
  BY <1>1, <1>2, <1>3, <1>4, <1>5, <1>6, <1>7 DEF CheckAction

\* Another service's step is none of service r.
LEMMA OthersStutter ==
    ASSUME NEW r \in Services,
           check'[r] = check[r], token'[r] = token[r], health'[r] = health[r]
    PROVE  UNCHANGED Service(r)!vars
<1>1. Mode(r)' = Mode(r)
  BY Zenon DEF Mode
<1>2. QED
  BY <1>1 DEF Service!vars

\* A step of the daemon is one of each service, or leaves it as it is.
LEMMA ServiceStep ==
    ASSUME CheckInv, CheckAction, NEW r \in Services
    PROVE  [Service(r)!Next]_(Service(r)!vars)
<1> DEFINE Step == [Service(r)!Next]_(Service(r)!vars)
<1>1. CASE UNCHANGED <<check, token, health>>
  BY <1>1, OthersStutter
<1>2. ASSUME NEW s \in Services, s # r,
             \/ Starts(s) \/ Watches(s) \/ Receives(s) \/ Sends(s)
             \/ Probe(s) \/ ClearFlag(s) \/ NextRound(s) \/ EndCheck(s)
      PROVE  Step
  <2>1. check'[r] = check[r] /\ token'[r] = token[r] /\ health'[r] = health[r]
    BY <1>2
    DEF Starts, Watches, Receives, Sends, Probe, ClearFlag, NextRound, EndCheck,
        CheckInv
  <2>2. QED
    BY <2>1, OthersStutter
<1>3. CASE Starts(r) \/ Watches(r)
  <2>1. token'[r] = token[r] /\ health'[r] = health[r]
    BY <1>3 DEF Starts, Watches
  <2>2. CASE check[r] = "off"
    <3>1. check'[r] \in {"single", "perpetual"}
      BY <1>3, <2>2 DEF Starts, Watches, CheckInv
    <3>2. Mode(r) = "off" /\ Mode(r)' \in {"once", "always"}
      BY <2>2, <3>1, ModeIs, ModeIsNext
    <3>3. QED
      BY <2>1, <3>2 DEF Service!Check, Service!Next
  <2>3. CASE check[r] # "off"
    <3>1. check'[r] = check[r]
      BY <1>3, <2>3 DEF Starts, Watches, CheckInv
    <3>2. QED
      BY <2>1, <3>1, OthersStutter
  <2>4. QED
    BY <2>2, <2>3
<1>4. CASE Receives(r)
  <2>1. UNCHANGED <<check, token>> /\ health[r] \in Seq(BOOLEAN) /\ health[r] # <<>>
    BY <1>4 DEF Receives, CheckInv
  <2>2. health'[r] = Tail(health[r])
    BY <1>4 DEF Receives, CheckInv
  <2>3. Len(health[r]) > 0 /\ Len(health'[r]) = Len(health[r]) - 1
    BY <2>1, <2>2
  <2>4. Mode(r)' = Mode(r)
    BY <2>1, Zenon DEF Mode
  <2>5. QED
    BY <2>1, <2>3, <2>4 DEF Service!Receive, Service!Next
<1>5. CASE Sends(r)
  <2>1. UNCHANGED <<check, health>> /\ token'[r] = token[r] + 1
    BY <1>5 DEF Sends, CheckInv
  <2>2. Mode(r)' = Mode(r)
    BY <2>1, Zenon DEF Mode
  <2>3. QED
    BY <2>1, <2>2 DEF Service!Stop, Service!Next
<1>6. CASE Probe(r)
  <2>1. PICK ok \in Verdicts(r) :
           health' = [health EXCEPT ![r] = Append(health[r], ok)]
    BY <1>6, Zenon DEF Probe
  <2>2. health'[r] = Append(health[r], ok) /\ health[r] \in Seq(BOOLEAN)
    BY <2>1 DEF CheckInv
  <2>3. Len(health'[r]) = Len(health[r]) + 1
    BY <2>2
  <2>4. /\ UNCHANGED token
        /\ check[r] \in {"single", "perpetual"}
        /\ check' = [check EXCEPT ![r] = IF check[r] = "single"
                                         THEN "clearing" ELSE "waiting"]
    BY <1>6, Zenon DEF Probe
  <2>5. check'[r] = IF check[r] = "single" THEN "clearing" ELSE "waiting"
    BY <2>4 DEF CheckInv
  <2>6. \/ Mode(r) = "once" /\ Mode(r)' = "answered"
        \/ Mode(r) = "always" /\ Mode(r)' = "always"
    BY <2>4, <2>5, ModeIs, ModeIsNext
  <2>7. QED
    BY <2>3, <2>4, <2>6 DEF Service!Answer, Service!Next
<1>7. CASE ClearFlag(r)
  <2>1. /\ check[r] = "clearing" /\ check'[r] = "off"
        /\ UNCHANGED <<token, health>>
    BY <1>7 DEF ClearFlag, CheckInv
  <2>2. Mode(r) = "answered" /\ Mode(r)' = "off"
    BY <2>1, ModeIs, ModeIsNext
  <2>3. QED
    BY <2>1, <2>2 DEF Service!Finish, Service!Next
<1>8. CASE NextRound(r)
  <2>1. /\ check[r] = "waiting" /\ check'[r] = "perpetual"
        /\ UNCHANGED <<token, health>>
    BY <1>8 DEF NextRound, CheckInv
  <2>2. Mode(r)' = Mode(r)
    BY <2>1, ModeIs, ModeIsNext
  <2>3. QED
    BY <2>1, <2>2 DEF Service!vars
<1>9. CASE EndCheck(r)
  <2>1. /\ check[r] = "waiting" /\ check'[r] = "ended" /\ UNCHANGED health
        /\ token[r] > 0 /\ token'[r] = token[r] - 1
    BY <1>9 DEF EndCheck, CheckInv
  <2>2. Mode(r) = "always" /\ Mode(r)' = "off"
    BY <2>1, ModeIs, ModeIsNext
  <2>3. QED
    BY <2>1, <2>2 DEF Service!End, Service!Next
<1>10. QED
  BY <1>1, <1>2, <1>3, <1>4, <1>5, <1>6, <1>7, <1>8, <1>9, Zenon DEF CheckAction

\* The daemon treats each of its services as SupervisedService says, for any
\* number of services, although several goroutines stop them at once.
THEOREM DaemonImplementsServices == Spec => ImplementsServices
<1>1. ASSUME Init PROVE \A s \in Services : Service(s)!Init
  <2> TAKE s \in Services
  <2>1. check[s] = "off" /\ token[s] = 0 /\ health[s] = <<>>
    BY <1>1 DEF Init
  <2>2. Mode(s) = "off"
    BY <2>1, ModeIs
  <2>3. QED
    BY <2>1, <2>2 DEF Service!Init
<1>2. Init => CheckInv
  BY DEF Init, CheckInv, CheckStates
<1>3. ListInv /\ FatalInv /\ [Next]_vars => CheckAction
  BY CheckActions
<1>4. ASSUME CheckInv, CheckAction
      PROVE  \A s \in Services : [Service(s)!Next]_(Service(s)!vars)
  BY <1>4, ServiceStep
<1>5. QED
  BY <1>1, <1>2, <1>3, <1>4, ListInit, FatalInit, ListStep, FatalStep, CheckStep,
     PTL DEF Spec, ImplementsServices

-----------------------------------------------------------------------------
(* What comes before a service is stopped.                                 *)

\* The daemon is in graceful mode once the services are started, and stops
\* them once the drain goroutine has told it to.
ModeInv ==
    /\ graceful => pc \in {"enable", "deploy", "run", "stop", "sleep"}
    /\ pc \in {"stop", "sleep"} => drain = "done"

\* Every step keeps the order of mode, drain and loop.
LEMMA ModeStep == ModeInv /\ [Next]_vars => ModeInv'
<1> SUFFICES ASSUME ModeInv, [Next]_vars PROVE ModeInv'
  OBVIOUS
<1>1. CASE MainNext
  <2>1. CASE \/ Prepare \/ StartService \/ Subscribe \/ StartFails
             \/ CheckOnce \/ CreateKubeconfig
    BY <2>1 DEF MainAt, ModeInv, Prepare, StartService, Subscribe, StartFails, CheckOnce,
        CreateKubeconfig, mainVars, sigVars
  <2>2. CASE Answered
    <3>1. /\ pc = "await" /\ UNCHANGED <<graceful, drain>>
          /\ pc' \in {"list", "check", "await"}
      <4>1. pc' \in {"list", "check", pc} /\ pc = "await"
        BY <2>2, Zenon DEF Answered, MainAt
      <4>2. QED
        BY <2>2, <4>1 DEF Answered, sigVars
    <3>2. QED
      BY <3>1 DEF ModeInv
  <2>3. CASE ListService
    <3>1. AfterListing(cur) \in {"deferred", "kubeconfig", "start"}
      BY DEF AfterListing
    <3>2. QED
      BY <2>3, <3>1 DEF ListService, MainAt, ModeInv, sigVars
  <2>4. CASE \/ DeferredStop \/ WaitForNode \/ WaitForNodeFails \/ NotifySignals
             \/ SetGraceful
    BY <2>4 DEF MainAt, ModeInv, DeferredStop, WaitForNode, WaitForNodeFails,
        NotifySignals, SetGraceful, mainVars, sigVars
  <2>5. CASE EnableCheck \/ Deploy \/ AwaitExit \/ StopNext \/ LoopEnds \/ Return
    BY <2>5 DEF MainAt, ModeInv, EnableCheck, Deploy, AwaitExit, StopNext, LoopEnds,
        Return, sigVars
  <2>6. QED
    BY <1>1, <2>1, <2>2, <2>3, <2>4, <2>5 DEF MainNext
<1>2. CASE UNCHANGED <<pc, graceful, drain>>
  BY <1>2 DEF ModeInv
<1>3. CASE Sigint \/ DrainReturns
  BY <1>3 DEF Sigint, DrainReturns, mainVars, ModeInv
<1>4. CASE \/ DrainFails \/ \E g \in Goroutines : FatalNext(g)
           \/ \E s \in Services : ServiceNext(s)
  BY <1>2, <1>4 DEF DrainFails, FatalNext, FatalList, FatalStop, FatalExit,
      ServiceNext, ChildExits, ExitHandler, ForwardInterrupt, Probe, Hang,
      ClearFlag, NextRound, EndCheck, CheckService, mainVars, sigVars
<1>5. QED
  BY <1>1, <1>2, <1>3, <1>4 DEF Next, vars, mainVars, sigVars

\* Who may kill a running service.
LEMMA Killers ==
    ASSUME ListInv, FatalInv, [Next]_vars, NEW s \in Services,
           proc[s] = "running", proc'[s] = "killed"
    PROVE  DeferredStop \/ StopNext \/ InFatal \/ watch[s] = "signalled"
<1>1. CASE MainNext
  <2>1. CASE StartService
    BY <2>1 DEF StartService, ListInv
  <2>2. QED
    BY <1>1, <2>1 DEF MainNext, Prepare, Subscribe, StartFails, CheckOnce, Answered,
        ListService, CreateKubeconfig, WaitForNode, WaitForNodeFails, NotifySignals,
        SetGraceful, EnableCheck, Deploy, AwaitExit, LoopEnds, Return, childVars
<1>2. ASSUME NEW g \in Goroutines, FatalNext(g) PROVE InFatal
  <2>1. CASE FatalStop(g)
    BY <2>1, NumberOfServices DEF FatalStop, FatalInv, InFatal
  <2>2. CASE FatalList(g) \/ FatalExit(g)
    BY <2>2 DEF FatalList, FatalExit, childVars
  <2>3. QED
    BY <1>2, <2>1, <2>2 DEF FatalNext
<1>3. ASSUME NEW r \in Services, ServiceNext(r) PROVE watch[s] = "signalled"
  <2>1. CASE ChildExits(r) \/ ExitHandler(r)
    BY <2>1 DEF ChildExits, ExitHandler, ListInv
  <2>2. CASE ForwardInterrupt(r)
    BY <2>2 DEF ForwardInterrupt, ListInv
  <2>3. QED
    BY <1>3, <2>1, <2>2 DEF ServiceNext, Probe, Hang, ClearFlag, NextRound, EndCheck,
        CheckService, childVars
<1>4. CASE Sigint \/ DrainReturns \/ DrainFails
  BY <1>4 DEF Sigint, DrainReturns, DrainFails, childVars
<1>5. QED
  BY <1>1, <1>2, <1>3, <1>4 DEF Next, vars, childVars

\* Once it is in graceful mode the daemon kills no service before the drain is
\* done, for any number of services and signals.
THEOREM DrainComesFirst == Spec => DrainBeforeStop
<1>1. Init => ModeInv
  BY DEF Init, ModeInv
<1>2. ListInv /\ FatalInv /\ ModeInv /\ [Next]_vars =>
         [\A s \in Services :
             /\ graceful /\ ~InFatal
             /\ proc[s] = "running" /\ proc'[s] = "killed"
             /\ watch[s] # "signalled"
             => drain = "done"]_vars
  <2> SUFFICES ASSUME ListInv, FatalInv, ModeInv, [Next]_vars, NEW s \in Services,
                      graceful, ~InFatal, proc[s] = "running", proc'[s] = "killed",
                      watch[s] # "signalled"
               PROVE  drain = "done"
    OBVIOUS
  <2>1. DeferredStop \/ StopNext
    BY Killers
  <2>2. QED
    BY <2>1 DEF DeferredStop, StopNext, MainAt, ModeInv
<1>3. QED
  BY <1>1, <1>2, ListInit, ListStep, FatalInit, FatalStep, ModeStep, PTL
  DEF Spec, DrainBeforeStop

-----------------------------------------------------------------------------
(* The bounds.                                                             *)

\* main asks for another health check of a service as long as it has not asked
\* for MaxTries of them; log.Fatal is never left again.
TriesInv ==
    /\ tries \in 0..MaxTries
    /\ pc \in {"subscribe", "check", "await"} /\ at[Main] = 0 => tries < MaxTries

\* No channel ever holds more than its capacity.
RoomInv ==
    \A s \in Services : token[s] <= TokenCap /\ Len(health[s]) <= HealthCap

\* The signals, the mode, the GETs and what checkService counts.
ModeTypeInv ==
    /\ up \in BOOLEAN /\ graceful \in BOOLEAN
    /\ sigMode \in SigModes
    /\ signals \in 0..MaxSignals
    /\ drain \in DrainStates
    /\ watch \in [Services -> WatchStates]
    /\ hung \in [Services -> BOOLEAN]
    /\ watched \in [Services -> BOOLEAN]
    /\ unhealthy \in [Services -> 0..MaxUnhealthy]

\* A service gets MaxTries health checks at most.
LEMMA TriesStep == FatalInv /\ TriesInv /\ [Next]_vars => TriesInv'
<1> SUFFICES ASSUME FatalInv, TriesInv, [Next]_vars PROVE TriesInv'
  OBVIOUS
<1>a. MaxTries \in Nat \ {0} /\ Main \in Goroutines
  BY NumberOfServices, DaemonConstants DEF DaemonConstants, Main, Goroutines
<1>b. at'[Main] = 0 => at[Main] = 0
  BY <1>a, FatalIsFinal
<1>1. CASE UNCHANGED <<pc, tries>>
  BY <1>1, <1>b DEF TriesInv
<1>2. CASE StartService
  BY <1>2, <1>a DEF StartService, TriesInv
<1>3. CASE Subscribe \/ CheckOnce
  BY <1>3, <1>b DEF Subscribe, CheckOnce, MainAt, TriesInv
<1>4. CASE Answered
  <2>1. tries < MaxTries /\ tries' = tries + 1 /\ pc = "await"
    BY <1>4, Zenon DEF Answered, MainAt, TriesInv
  <2>2. CASE pc' = "list"
    BY <1>a, <2>1, <2>2 DEF TriesInv
  <2>3. CASE tries' < MaxTries
    BY <1>a, <2>1, <2>3 DEF TriesInv
  <2>4. CASE Fatal(Main)
    <3>1. at'[Main] # 0
      BY <1>a, <2>4 DEF Fatal, FatalInv
    <3>2. QED
      BY <1>a, <2>1, <3>1 DEF TriesInv
  <2>5. QED
    BY <1>4, <2>2, <2>3, <2>4, Zenon DEF Answered
<1>5. CASE /\ MainNext /\ ~UNCHANGED <<pc, tries>>
           /\ ~StartService /\ ~Subscribe /\ ~CheckOnce /\ ~Answered
  <2>1. UNCHANGED tries /\ pc' \notin {"subscribe", "check", "await"}
    BY <1>5
    DEF MainNext, Prepare, StartFails, ListService, AfterListing, CreateKubeconfig,
        DeferredStop, WaitForNode, WaitForNodeFails, NotifySignals, SetGraceful,
        EnableCheck, Deploy, AwaitExit, StopNext, LoopEnds, Return, mainVars
  <2>2. QED
    BY <2>1 DEF TriesInv
<1>6. CASE \/ Sigint \/ DrainReturns \/ DrainFails
           \/ \E g \in Goroutines : FatalNext(g)
           \/ \E s \in Services : ServiceNext(s)
           \/ UNCHANGED vars
  <2>1. UNCHANGED <<pc, tries>>
    BY <1>6
    DEF Sigint, DrainReturns, DrainFails, FatalNext, FatalList, FatalStop,
        FatalExit, ServiceNext, ChildExits, ExitHandler, ForwardInterrupt, Probe,
        Hang, ClearFlag, NextRound, EndCheck, CheckService, mainVars, vars
  <2>2. QED
    BY <1>1, <2>1
<1>7. QED
  BY <1>1, <1>2, <1>3, <1>4, <1>5, <1>6 DEF Next

\* Whoever puts something into a channel has found room in it.
LEMMA RoomStep == CheckInv /\ RoomInv /\ CheckAction => RoomInv'
<1> SUFFICES ASSUME CheckInv, RoomInv, CheckAction, NEW r \in Services
             PROVE  token'[r] <= TokenCap /\ Len(health'[r]) <= HealthCap
  BY DEF RoomInv
<1>a. TokenCap \in Nat /\ HealthCap \in Nat
  BY DaemonConstants DEF DaemonConstants
<1>b. /\ token[r] \in Nat /\ health[r] \in Seq(BOOLEAN)
      /\ token[r] <= TokenCap /\ Len(health[r]) <= HealthCap
  BY DEF CheckInv, RoomInv
<1>1. CASE token'[r] = token[r] /\ health'[r] = health[r]
  BY <1>1, <1>b
<1>2. ASSUME NEW s \in Services,
             s # r \/ Starts(s) \/ Watches(s) \/ ClearFlag(s) \/ NextRound(s),
             \/ Starts(s) \/ Watches(s) \/ Receives(s) \/ Sends(s)
             \/ Probe(s) \/ ClearFlag(s) \/ NextRound(s) \/ EndCheck(s)
      PROVE  token'[r] = token[r] /\ health'[r] = health[r]
  BY <1>2
  DEF Starts, Watches, Receives, Sends, Probe, ClearFlag, NextRound, EndCheck, CheckInv
<1>3. CASE Receives(r)
  <2>1. health'[r] = Tail(health[r]) /\ health[r] # <<>> /\ token' = token
    BY <1>3 DEF Receives, CheckInv
  <2>2. Len(health'[r]) = Len(health[r]) - 1
    BY <1>b, <2>1
  <2>3. QED
    BY <1>a, <1>b, <2>1, <2>2
<1>4. CASE Sends(r)
  BY <1>4, <1>a, <1>b DEF Sends, CheckInv
<1>5. CASE Probe(r)
  <2>1. PICK ok \in Verdicts(r) :
           health' = [health EXCEPT ![r] = Append(health[r], ok)]
    BY <1>5, Zenon DEF Probe
  <2>2. Len(health[r]) < HealthCap /\ token' = token
    BY <1>5, Zenon DEF Probe
  <2>3. health'[r] = Append(health[r], ok)
    BY <2>1 DEF CheckInv
  <2>4. Len(health'[r]) = Len(health[r]) + 1
    BY <1>b, <2>3
  <2>5. QED
    BY <1>a, <1>b, <2>2, <2>4
<1>6. CASE EndCheck(r)
  <2>1. /\ health' = health /\ token[r] > 0
        /\ token' = [token EXCEPT ![r] = token[r] - 1]
    BY <1>6 DEF EndCheck
  <2>2. QED
    BY <1>a, <1>b, <2>1 DEF CheckInv
<1>7. CASE UNCHANGED <<check, token, health>>
  BY <1>1, <1>7
<1>8. QED
  BY <1>1, <1>2, <1>3, <1>4, <1>5, <1>6, <1>7 DEF CheckAction

\* Every step keeps the types of the mode, the signals and the counts.
LEMMA ModeTypeStep == ListInv /\ ModeTypeInv /\ [Next]_vars => ModeTypeInv'
<1> SUFFICES ASSUME ListInv, ModeTypeInv, [Next]_vars PROVE ModeTypeInv'
  OBVIOUS
<1>a. MaxSignals \in Nat /\ MaxUnhealthy \in Nat \ {0} /\ N \in Nat
  BY DaemonConstants DEF DaemonConstants
<1>1. CASE UNCHANGED <<up, graceful, sigVars, watch, hung, watched, unhealthy>>
  BY <1>1 DEF ModeTypeInv, sigVars
<1>2. CASE MainNext
  <2>1. CASE Subscribe
    <3>1. cur \in Services
      BY <2>1 DEF Subscribe, MainAt, ListInv, Starting, Services
    <3>2. QED
      BY <2>1, <3>1
      DEF Subscribe, checkVars, ModeTypeInv, SigModes, WatchStates
  <2>2. CASE WaitForNode \/ NotifySignals \/ SetGraceful
    BY <2>2 DEF WaitForNode, NotifySignals, SetGraceful, sigVars, childVars,
        checkVars, ModeTypeInv, SigModes, DrainStates
  <2>3. CASE EnableCheck
    BY <2>3 DEF EnableCheck, sigVars, childVars, ModeTypeInv
  <2>4. CASE DeferredStop \/ StopNext
    BY <1>1, <2>4, StopSteps DEF DeferredStop, StopNext
  <2>5. CASE Return
    BY <2>5 DEF Return, sigVars, childVars, checkVars, ModeTypeInv
  <2>6. CASE Answered
    BY <1>1, <2>6, Zenon DEF Answered, childVars
  <2>7. CASE \/ Prepare \/ StartService \/ StartFails \/ CheckOnce \/ ListService
             \/ CreateKubeconfig \/ WaitForNodeFails \/ Deploy \/ AwaitExit
             \/ LoopEnds
    BY <1>1, <2>7
    DEF Prepare, StartService, StartFails, CheckOnce, ListService,
        CreateKubeconfig, WaitForNodeFails, Deploy, AwaitExit, LoopEnds,
        mainVars, childVars, checkVars
  <2>8. QED
    BY <1>2, <2>1, <2>2, <2>3, <2>4, <2>5, <2>6, <2>7 DEF MainNext
<1>3. CASE Sigint
  <2>1. watch' \in [Services -> WatchStates]
    BY <1>3 DEF Sigint, ModeTypeInv, WatchStates
  <2>2. up' \in BOOLEAN
    <3>1. up' = (sigMode # "default")
      BY <1>3 DEF Sigint
    <3>2. QED
      BY <3>1, Zenon
  <2>3. QED
    BY <1>3, <1>a, <2>1, <2>2 DEF Sigint, checkVars, ModeTypeInv, DrainStates
<1>4. CASE DrainReturns
  BY <1>4 DEF DrainReturns, mainVars, childVars, checkVars, ModeTypeInv, DrainStates
<1>5. CASE DrainFails \/ UNCHANGED vars
  BY <1>1, <1>5 DEF DrainFails, mainVars, childVars, checkVars, vars
<1>6. ASSUME NEW g \in Goroutines, FatalNext(g) PROVE ModeTypeInv'
  <2>1. CASE FatalStop(g)
    BY <1>1, <2>1, StopSteps DEF FatalStop, mainVars
  <2>2. CASE FatalList(g) \/ FatalExit(g)
    BY <2>2 DEF FatalList, FatalExit, mainVars, sigVars, childVars, checkVars,
        ModeTypeInv
  <2>3. QED
    BY <1>6, <2>1, <2>2 DEF FatalNext
<1>7. ASSUME NEW s \in Services, ServiceNext(s) PROVE ModeTypeInv'
  <2>1. CASE ExitHandler(s) \/ ForwardInterrupt(s)
    BY <2>1 DEF ExitHandler, ForwardInterrupt, mainVars, sigVars, checkVars,
        ModeTypeInv, WatchStates
  <2>2. CASE CheckService(s)
    <3>1. /\ unhealthy[s] < MaxUnhealthy
          /\ unhealthy' = [unhealthy EXCEPT ![s] =
                              IF Head(health[s]) THEN 0 ELSE unhealthy[s] + 1]
          /\ UNCHANGED <<graceful, sigVars, watch, hung, watched>>
      BY <2>2, Zenon DEF CheckService, childVars
    <3>2. up' \in BOOLEAN
      <4>1. up' = (unhealthy'[s] < MaxUnhealthy)
        BY <2>2, Zenon DEF CheckService
      <4>2. CASE unhealthy'[s] < MaxUnhealthy
        BY <4>1, <4>2
      <4>3. CASE ~(unhealthy'[s] < MaxUnhealthy)
        BY <4>1, <4>3
      <4>4. QED
        BY <4>2, <4>3
    <3>3. unhealthy' \in [Services -> 0..MaxUnhealthy]
      <4>1. unhealthy[s] \in 0..MaxUnhealthy /\ unhealthy[s] < MaxUnhealthy
        BY <3>1 DEF ModeTypeInv
      <4>2. 0 \in 0..MaxUnhealthy /\ unhealthy[s] + 1 \in 0..MaxUnhealthy
        BY <1>a, <4>1
      <4>3. CASE Head(health[s])
        <5>1. unhealthy' = [unhealthy EXCEPT ![s] = 0]
          BY <3>1, <4>3, Zenon
        <5>2. QED
          BY <4>2, <5>1 DEF ModeTypeInv
      <4>4. CASE ~Head(health[s])
        <5>1. unhealthy' = [unhealthy EXCEPT ![s] = unhealthy[s] + 1]
          BY <3>1, <4>4, Zenon
        <5>2. QED
          BY <4>2, <5>1 DEF ModeTypeInv
      <4>5. QED
        BY <4>3, <4>4
    <3>4. QED
      BY <3>1, <3>2, <3>3 DEF ModeTypeInv, sigVars
  <2>3. CASE ClearFlag(s) \/ NextRound(s) \/ EndCheck(s)
    BY <1>1, <2>3 DEF ClearFlag, NextRound, EndCheck, mainVars, childVars, checkVars
  <2>4. CASE Probe(s)
    BY <1>1, <2>4, Zenon DEF Probe, mainVars, childVars
  <2>5. CASE ChildExits(s) \/ Hang(s)
    BY <2>5 DEF ChildExits, Hang, mainVars, sigVars, childVars, ModeTypeInv
  <2>6. QED
    BY <1>7, <2>1, <2>2, <2>3, <2>4, <2>5 DEF ServiceNext
<1>8. QED
  BY <1>2, <1>3, <1>4, <1>5, <1>6, <1>7 DEF Next

\* The daemon keeps its bounds whatever the number of its services: it never
\* asks for more than MaxTries checks of one (Microkubed.go:607-618), neither
\* channel of a service ever holds more than its capacity although several
\* goroutines stop it, and the count of bad checks ends at MaxUnhealthy.
THEOREM DaemonTypes == Spec => []TypeOK
<1>1. Init => ListInv /\ FatalInv /\ CheckInv /\ TriesInv /\ RoomInv /\ ModeTypeInv
  <2> SUFFICES ASSUME Init PROVE CheckInv /\ TriesInv /\ RoomInv /\ ModeTypeInv
    BY ListInit, FatalInit
  <2>1. CheckInv
    BY DEF Init, CheckInv, CheckStates
  <2>2. TriesInv
    BY DaemonConstants DEF DaemonConstants, Init, TriesInv
  <2>3. RoomInv
    BY DaemonConstants DEF DaemonConstants, Init, RoomInv
  <2>4. ModeTypeInv
    <3>1. MaxSignals \in Nat /\ MaxUnhealthy \in Nat
      BY DaemonConstants DEF DaemonConstants
    <3>2. /\ up \in BOOLEAN /\ graceful \in BOOLEAN
          /\ hung \in [Services -> BOOLEAN] /\ watched \in [Services -> BOOLEAN]
      BY Zenon DEF Init
    <3>3. /\ watch \in [Services -> WatchStates]
          /\ unhealthy \in [Services -> 0..MaxUnhealthy]
      BY <3>1 DEF Init, WatchStates
    <3>4. sigMode \in SigModes /\ signals \in 0..MaxSignals /\ drain \in DrainStates
      BY <3>1 DEF Init, SigModes, DrainStates
    <3>5. QED
      BY <3>2, <3>3, <3>4 DEF ModeTypeInv
  <2>5. QED
    BY <2>1, <2>2, <2>3, <2>4
<1>2. ListInv /\ FatalInv /\ [Next]_vars => CheckAction
  BY CheckActions
<1>3. ListInv /\ FatalInv /\ CheckInv /\ TriesInv /\ RoomInv /\ ModeTypeInv => TypeOK
  <2> SUFFICES ASSUME ListInv, FatalInv, CheckInv, TriesInv, RoomInv, ModeTypeInv
               PROVE  TypeOK
    OBVIOUS
  <2>1. token \in [Services -> 0..TokenCap]
    BY DaemonConstants DEF DaemonConstants, CheckInv, RoomInv
  <2>2. QED
    BY <2>1 DEF ListInv, FatalInv, CheckInv, TriesInv, RoomInv, ModeTypeInv, TypeOK
<1>4. QED
  BY <1>1, <1>2, <1>3, ListStep, FatalStep, CheckStep, TriesStep, RoomStep,
     ModeTypeStep, PTL DEF Spec
=============================================================================
