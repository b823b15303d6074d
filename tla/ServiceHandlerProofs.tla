------------------------ MODULE ServiceHandlerProofs ------------------------
(***************************************************************************)
(* What ServiceHandler guarantees for any number of probes and stoppers,   *)
(* any channel capacity and any bound on the calls.                        *)
(***************************************************************************)
EXTENDS ServiceHandler, FiniteSetTheorems, TLAPS

USE ConstantsOK DEF ConstantsOK

\* Every variable keeps its type: in particular neither channel exceeds its
\* capacity.
THEOREM TypeCorrect == Spec => []TypeOK
<1>1. Init => TypeOK
  <2> SUFFICES ASSUME Init PROVE TypeOK
    OBVIOUS
  <2>1. forever \in [Probes -> BOOLEAN]
    BY Zenon DEF Init
  <2>2. /\ watcher \in BOOLEAN /\ wants \in BOOLEAN /\ reader \in BOOLEAN
        /\ killable \in BOOLEAN
    BY Zenon DEF Init
  <2>3. QED
    BY <2>1, <2>2
    DEF Init, TypeOK, ChildState, ProbeState, ClientState, StopState
<1>2. TypeOK /\ [Next]_vars => TypeOK'
  <2> SUFFICES ASSUME TypeOK, [Next]_vars PROVE TypeOK'
    OBVIOUS
  <2> USE DEF TypeOK, ChildState, ProbeState, ClientState, StopState,
              processVars, probeVars, clientVars, GoTo
  <2>1. CASE Start
    BY <2>1 DEF Start, Spawn
  <2>2. ASSUME NEW f \in BOOLEAN, EnableLoad(f) PROVE TypeOK'
    BY <2>2 DEF EnableLoad, Returned
  <2>3. ASSUME NEW p \in Probes, EnableStore(p) PROVE TypeOK'
    BY <2>3 DEF EnableStore, Returned
  <2>4. CASE Receive
    BY <2>4 DEF Receive
  <2>5. CASE Read
    BY <2>5 DEF Read
  <2>6. CASE Exit
    BY <2>6 DEF Exit
  <2>7. CASE Interrupt
    BY <2>7 DEF Interrupt, Kill
  <2>8. CASE HandleExit
    <3>1. retriesLeft' \in Int
      BY <2>8 DEF HandleExit
    <3>3. child' \in {"running", "failed", "reaped"}
      BY <2>8 DEF HandleExit, Spawn
    <3>5. watcher' = TRUE \/ watcher' = FALSE
      BY <2>8, Zenon DEF HandleExit, Spawn
    <3>6. UNCHANGED <<starts, killable, flag, tokens, messages, probe,
                      forever, client, wants, reader, checks, stop, stopCalls>>
      BY <2>8 DEF HandleExit
    <3>7. QED
      BY <3>1, <3>3, <3>5, <3>6
  <2>9. ASSUME NEW p \in Probes, ProbeNext(p) PROVE TypeOK'
    BY <2>9 DEF ProbeNext, ProbeReturns, ProbeHangs, Send, Clear, TakeToken,
                Tick
  <2>10. ASSUME NEW s \in Stoppers, StopNext(s) PROVE TypeOK'
    BY <2>10 DEF StopNext, StopKill, StopLoad, StopSend, Kill
  <2>11. CASE UNCHANGED vars
    BY <2>11 DEF vars
  <2>12. QED
    BY <2>1, <2>2, <2>3, <2>4, <2>5, <2>6, <2>7, <2>8, <2>9, <2>10, <2>11
    DEF Next, ClientNext
<1>3. QED
  BY <1>1, <1>2, PTL DEF Spec

-----------------------------------------------------------------------------
(* At most one probe.                                                       *)

\* The flag is what keeps a second probe away: it is set while one is alive,
\* and none is alive between the client's load and its store.
ProbeInv ==
    /\ OneProbe
    /\ \A p \in Probes : Active(p) => flag = 1
    /\ client = "store" => \A p \in Probes : ~Active(p)

\* Every step keeps the flag set while a probe lives.
LEMMA ProbeInvStep == TypeOK /\ ProbeInv /\ [Next]_vars => ProbeInv'
<1> SUFFICES ASSUME TypeOK, ProbeInv, [Next]_vars PROVE ProbeInv'
  OBVIOUS
<1> USE DEF TypeOK, ProbeInv, OneProbe, Active, processVars, probeVars,
            clientVars, GoTo
<1>1. CASE Start
  BY <1>1 DEF Start
<1>2. ASSUME NEW f \in BOOLEAN, EnableLoad(f) PROVE ProbeInv'
  BY <1>2 DEF EnableLoad, Returned
<1>3. ASSUME NEW p \in Probes, EnableStore(p) PROVE ProbeInv'
  <2>1. \A q \in Probes : probe'[q] # "idle" => q = p
    BY <1>3 DEF EnableStore
  <2>2. flag' = 1 /\ client' # "store"
    BY <1>3 DEF EnableStore, Returned
  <2>3. QED
    BY <2>1, <2>2
<1>4. CASE Receive
  BY <1>4 DEF Receive
<1>5. CASE Read
  BY <1>5 DEF Read
<1>6. CASE Exit
  <2>1. \A q \in Probes : probe'[q] # "idle" => probe[q] # "idle"
    BY <1>6 DEF Exit
  <2>2. QED
    BY <2>1, <1>6 DEF Exit
<1>7. CASE Interrupt
  BY <1>7 DEF Interrupt
<1>8. CASE HandleExit
  BY <1>8 DEF HandleExit
<1>9. ASSUME NEW p \in Probes, ProbeNext(p) PROVE ProbeInv'
  <2>1. \A q \in Probes : probe'[q] # "idle" => probe[q] # "idle"
    BY <1>9 DEF ProbeNext, ProbeReturns, ProbeHangs, Send, Clear, TakeToken,
                Tick
  <2>2. flag' = 1 \/ flag' = flag \/ Clear(p)
    BY <1>9 DEF ProbeNext, ProbeReturns, ProbeHangs, Send, TakeToken, Tick
  <2>3. UNCHANGED client
    BY <1>9 DEF ProbeNext, ProbeReturns, ProbeHangs, Send, Clear, TakeToken,
                Tick
  <2>4. CASE Clear(p)
    <3>1. \A q \in Probes : probe'[q] = "idle"
      BY <2>4 DEF Clear
    <3>2. QED
      BY <3>1
  <2>5. QED
    BY <2>1, <2>2, <2>3, <2>4
<1>10. ASSUME NEW s \in Stoppers, StopNext(s) PROVE ProbeInv'
  BY <1>10 DEF StopNext, StopKill, StopLoad, StopSend
<1>11. CASE UNCHANGED vars
  BY <1>11 DEF vars
<1>12. QED
  BY <1>1, <1>2, <1>3, <1>4, <1>5, <1>6, <1>7, <1>8, <1>9, <1>10, <1>11
  DEF Next, ClientNext

\* Never are two health check goroutines of a service alive, although the flag
\* is loaded and stored in two steps and cleared by the goroutine itself.
THEOREM AtMostOneProbe == Spec => []OneProbe
<1>1. Init => ProbeInv
  BY DEF Init, ProbeInv, OneProbe, Active
<1>2. ProbeInv => OneProbe
  BY DEF ProbeInv
<1>3. QED
  BY <1>1, <1>2, TypeCorrect, ProbeInvStep, PTL DEF Spec

-----------------------------------------------------------------------------
(* Which calls of Stop may block.                                           *)

\* Every token and every stopper that may still send one stands for a call.
TokenInv == tokens + Cardinality(Busy) <= stopCalls

\* The callers of Stop are finitely many.
LEMMA BusyFinite == IsFiniteSet(Busy) /\ Cardinality(Busy) \in Nat
BY FS_Subset, FS_CardinalityType DEF Busy

\* Every step keeps tokens and callers within the calls made.
LEMMA TokenInvStep == TypeOK /\ TokenInv /\ [Next]_vars => TokenInv'
<1> SUFFICES ASSUME TypeOK, TokenInv, [Next]_vars PROVE TokenInv'
  OBVIOUS
<1> USE DEF TypeOK, TokenInv, processVars, probeVars, clientVars, GoTo
<1>0. Cardinality(Busy) \in Nat /\ IsFiniteSet(Busy)
  BY BusyFinite
<1>a. ASSUME UNCHANGED <<tokens, stop, stopCalls>> PROVE TokenInv'
  BY <1>a DEF Busy
<1>1. CASE Start
  BY <1>1, <1>a DEF Start
<1>2. ASSUME NEW f \in BOOLEAN, EnableLoad(f) PROVE TokenInv'
  BY <1>2, <1>a DEF EnableLoad
<1>3. ASSUME NEW p \in Probes, EnableStore(p) PROVE TokenInv'
  BY <1>3, <1>a DEF EnableStore
<1>4. CASE Receive \/ Read \/ Exit \/ Interrupt \/ HandleExit
  BY <1>4, <1>a DEF Receive, Read, Exit, Interrupt, HandleExit
<1>5. ASSUME NEW p \in Probes, ProbeNext(p) PROVE TokenInv'
  <2>1. CASE TakeToken(p)
    <3>1. Busy' = Busy /\ tokens' = tokens - 1 /\ stopCalls' = stopCalls
      BY <2>1 DEF TakeToken, Busy
    <3>2. QED
      BY <3>1, <1>0
  <2>2. CASE ~TakeToken(p)
    BY <2>2, <1>5, <1>a
    DEF ProbeNext, ProbeReturns, ProbeHangs, Send, Clear, Tick
  <2>3. QED
    BY <2>1, <2>2
<1>6. ASSUME NEW s \in Stoppers, StopNext(s) PROVE TokenInv'
  <2>1. CASE StopKill(s)
    <3>1. Busy' = Busy \cup {s} /\ s \notin Busy
      BY <2>1 DEF StopKill, Busy
    <3>2. Cardinality(Busy') = Cardinality(Busy) + 1
      BY <3>1, <1>0, FS_AddElement
    <3>3. tokens' = tokens /\ stopCalls' = stopCalls + 1
      BY <2>1 DEF StopKill
    <3>4. QED
      BY <3>2, <3>3, <1>0
  <2>2. ASSUME stop[s] # "idle", stop' = [stop EXCEPT ![s] = "idle"]
        PROVE Cardinality(Busy') = Cardinality(Busy) - 1
    <3>1. Busy' = Busy \ {s} /\ s \in Busy
      BY <2>2 DEF Busy
    <3>2. QED
      BY <3>1, <1>0, FS_RemoveElement
  <2>3. CASE StopLoad(s) /\ flag = 1
    <3>1. Busy' = Busy /\ UNCHANGED <<tokens, stopCalls>>
      BY <2>3 DEF StopLoad, Busy
    <3>2. QED
      BY <3>1
  <2>4. CASE StopLoad(s) /\ flag # 1
    <3>1. /\ stop[s] # "idle"
          /\ stop' = [stop EXCEPT ![s] = "idle"]
          /\ UNCHANGED <<tokens, stopCalls>>
      BY <2>4 DEF StopLoad
    <3>2. QED
      BY <3>1, <2>2, <1>0
  <2>5. CASE StopSend(s)
    <3>1. /\ stop[s] # "idle"
          /\ stop' = [stop EXCEPT ![s] = "idle"]
          /\ tokens' = tokens + 1 /\ stopCalls' = stopCalls
      BY <2>5 DEF StopSend
    <3>2. QED
      BY <3>1, <2>2, <1>0
  <2>6. QED
    BY <1>6, <2>1, <2>3, <2>4, <2>5 DEF StopNext
<1>7. CASE UNCHANGED vars
  BY <1>7, <1>a DEF vars
<1>8. QED
  BY <1>1, <1>2, <1>3, <1>4, <1>5, <1>6, <1>7 DEF Next, ClientNext

\* The first TokenCap calls of Stop never wait for room in the channel.
THEOREM FirstStopsReturn == Spec => []FirstStopsDoNotBlock
<1>1. Init => TokenInv
  <2> SUFFICES ASSUME Init PROVE TokenInv
    OBVIOUS
  <2>1. Busy = {}
    BY DEF Init, Busy
  <2>2. Cardinality(Busy) = 0
    BY <2>1, FS_EmptySet
  <2>3. QED
    BY <2>2 DEF Init, TokenInv
<1>2. TypeOK /\ TokenInv => FirstStopsDoNotBlock
  <2>1. SUFFICES ASSUME TypeOK, TokenInv, NEW s \in Stoppers,
                        stop[s] = "send", tokens = TokenCap
                 PROVE  stopCalls > TokenCap
    BY DEF FirstStopsDoNotBlock
  <2>2. Cardinality(Busy) # 0
    <3>1. s \in Busy
      BY <2>1 DEF Busy
    <3>2. QED
      BY <3>1, BusyFinite, FS_EmptySet
  <2>3. QED
    BY <2>1, <2>2, BusyFinite DEF TypeOK, TokenInv
<1>3. QED
  BY <1>1, <1>2, TypeCorrect, TokenInvStep, PTL DEF Spec

-----------------------------------------------------------------------------
(* The refinement.                                                          *)

\* Only a perpetual check waits for a token, only a single one clears the flag.
KindInv ==
    \A p \in Probes :
        /\ probe[p] = "waiting" => forever[p]
        /\ probe[p] = "clearing" => ~forever[p]

\* Every step keeps a check of one kind from the load of the flag to its end.
LEMMA KindInvStep == TypeOK /\ KindInv /\ [Next]_vars => KindInv'
<1> SUFFICES ASSUME TypeOK, KindInv, [Next]_vars PROVE KindInv'
  OBVIOUS
<1> USE DEF TypeOK, KindInv, processVars, probeVars, clientVars, GoTo
<1>1. ASSUME UNCHANGED probeVars PROVE KindInv'
  BY <1>1
<1>2. ASSUME NEW p \in Probes, EnableStore(p) PROVE KindInv'
  BY <1>2 DEF EnableStore
<1>3. CASE Exit
  BY <1>3 DEF Exit
<1>4. ASSUME NEW p \in Probes, ProbeNext(p) PROVE KindInv'
  BY <1>4 DEF ProbeNext, ProbeReturns, ProbeHangs, Send, Clear, TakeToken,
              Tick
<1>5. CASE Start \/ Receive \/ Read \/ Interrupt \/ HandleExit
  BY <1>1, <1>5 DEF Start, Receive, Read, Interrupt, HandleExit
<1>6. ASSUME NEW f \in BOOLEAN, EnableLoad(f) PROVE KindInv'
  BY <1>1, <1>6 DEF EnableLoad
<1>7. ASSUME NEW s \in Stoppers, StopNext(s) PROVE KindInv'
  BY <1>1, <1>7 DEF StopNext, StopKill, StopLoad, StopSend
<1>8. CASE UNCHANGED vars
  BY <1>1, <1>8 DEF vars
<1>9. QED
  BY <1>2, <1>3, <1>4, <1>5, <1>6, <1>7, <1>8 DEF Next, ClientNext

\* The check under way is that of the one probe that is alive.
LEMMA ModeIs ==
  TypeOK /\ OneProbe =>
    /\ (\A p \in Probes : probe[p] = "idle") => Mode = "off"
    /\ \A p \in Probes : probe[p] # "idle" =>
          Mode = IF forever[p] THEN "always"
                 ELSE IF probe[p] = "clearing" THEN "answered" ELSE "once"
<1>1. ASSUME \A p \in Probes : probe[p] = "idle" PROVE Mode = "off"
  BY <1>1 DEF Mode, Active, Checking
<1>2. ASSUME TypeOK, OneProbe, NEW p \in Probes, probe[p] # "idle"
      PROVE  Mode = IF forever[p] THEN "always"
                    ELSE IF probe[p] = "clearing" THEN "answered" ELSE "once"
  BY <1>2 DEF Mode, OneProbe, Active, Checking, TypeOK
<1>3. QED
  BY <1>1, <1>2

\* The mode of the service in the next state.
LEMMA ModeIsNext ==
  (TypeOK /\ OneProbe =>
    /\ (\A p \in Probes : probe[p] = "idle") => Mode = "off"
    /\ \A p \in Probes : probe[p] # "idle" =>
          Mode = IF forever[p] THEN "always"
                 ELSE IF probe[p] = "clearing" THEN "answered" ELSE "once")'
BY ModeIs, PTL

\* A call of Stop that begins or ends is one call more or less.
LEMMA BusyGrows ==
  ASSUME TypeOK, NEW s \in Stoppers, stop[s] = "idle", NEW at \in StopState,
         at # "idle", stop' = [stop EXCEPT ![s] = at]
  PROVE  Cardinality(Busy') = Cardinality(Busy) + 1
<1>1. Busy' = Busy \cup {s} /\ s \notin Busy
  BY DEF Busy, TypeOK
<1>2. QED
  BY <1>1, BusyFinite, FS_AddElement

\* A call of Stop that ends is one call less.
LEMMA BusyShrinks ==
  ASSUME TypeOK, NEW s \in Stoppers, stop[s] # "idle",
         stop' = [stop EXCEPT ![s] = "idle"]
  PROVE  /\ Cardinality(Busy') = Cardinality(Busy) - 1
         /\ Cardinality(Busy) > 0
<1>1. Busy' = Busy \ {s} /\ s \in Busy
  BY DEF Busy, TypeOK
<1>2. Cardinality(Busy) # 0
  BY <1>1, BusyFinite, FS_EmptySet
<1>3. Cardinality(Busy') = Cardinality(Busy) - 1
  BY <1>1, BusyFinite, FS_RemoveElement
<1>4. QED
  BY <1>2, <1>3, BusyFinite

\* A step of the handler is one of the service, or leaves it as it is.
LEMMA ServiceStep ==
  TypeOK /\ TypeOK' /\ ProbeInv /\ ProbeInv' /\ KindInv /\ [Next]_vars
    => [Service!Next]_(Service!vars)
<1> SUFFICES ASSUME TypeOK, TypeOK', ProbeInv, ProbeInv', KindInv,
                    [Next]_vars
             PROVE  Service!Next \/ UNCHANGED Service!vars
  OBVIOUS
<1> USE DEF processVars, probeVars, clientVars, GoTo
<1>m. /\ (\A p \in Probes : probe[p] = "idle") => Mode = "off"
      /\ \A p \in Probes : probe[p] # "idle" =>
            Mode = IF forever[p] THEN "always"
                   ELSE IF probe[p] = "clearing" THEN "answered" ELSE "once"
  BY ModeIs DEF ProbeInv
<1>n. /\ (\A p \in Probes : probe'[p] = "idle") => Mode' = "off"
      /\ \A p \in Probes : probe'[p] # "idle" =>
            Mode' = IF forever'[p] THEN "always"
                    ELSE IF probe'[p] = "clearing" THEN "answered" ELSE "once"
  BY ModeIsNext DEF ProbeInv
<1>a. ASSUME UNCHANGED probeVars PROVE Mode' = Mode
  BY <1>a DEF Mode, Active, Checking
<1>b. ASSUME UNCHANGED <<tokens, stop>> PROVE Calls' = Calls
  BY <1>b DEF Calls, Busy
<1>c. ASSUME UNCHANGED <<probeVars, tokens, messages, stop>>
      PROVE  UNCHANGED Service!vars
  BY <1>a, <1>b, <1>c DEF Service!vars
<1>d. Calls \in Nat /\ tokens \in Nat
  BY BusyFinite DEF Calls, TypeOK
<1>1. CASE Start \/ Interrupt \/ HandleExit
  BY <1>1, <1>c DEF Start, Interrupt, HandleExit
<1>2. ASSUME NEW f \in BOOLEAN, EnableLoad(f) PROVE UNCHANGED Service!vars
  BY <1>2, <1>c DEF EnableLoad
<1>3. ASSUME NEW p \in Probes, EnableStore(p) PROVE Service!Check
  <2>1. Mode = "off"
    BY <1>3, <1>m DEF EnableStore, ProbeInv, Active
  <2>2. probe'[p] = "probing"
    BY <1>3 DEF EnableStore, TypeOK
  <2>3. Mode' \in {"once", "always"}
    BY <2>2, <1>n
  <2>4. UNCHANGED <<tokens, stop, messages>>
    BY <1>3 DEF EnableStore
  <2>5. QED
    BY <2>1, <2>3, <2>4, <1>b DEF Service!Check
<1>4. CASE Receive \/ Read
  <2>1. /\ messages > 0 /\ messages' = messages - 1
        /\ UNCHANGED <<probeVars, tokens, stop>>
    BY <1>4 DEF Receive, Read
  <2>2. Service!Receive
    BY <2>1, <1>a, <1>b DEF Service!Receive
  <2>3. QED
    BY <2>2 DEF Service!Next
<1>5. CASE Exit
  <2>1. UNCHANGED <<forever, tokens, stop, messages>>
    BY <1>5 DEF Exit
  <2>2. \A p \in Probes : /\ probe'[p] = "idle" <=> probe[p] = "idle"
                          /\ probe'[p] = "clearing" <=> probe[p] = "clearing"
    BY <1>5 DEF Exit, TypeOK
  <2>3. Mode' = Mode
    BY <2>1, <2>2 DEF Mode, Active, Checking
  <2>4. QED
    BY <2>1, <2>3, <1>b DEF Service!vars
<1>6. ASSUME NEW p \in Probes, ProbeReturns(p) \/ ProbeHangs(p) \/ Tick(p)
      PROVE  UNCHANGED Service!vars
  <2>1. UNCHANGED <<forever, tokens, stop, messages>>
    BY <1>6 DEF ProbeReturns, ProbeHangs, Tick
  <2>2. \A q \in Probes : /\ probe'[q] = "idle" <=> probe[q] = "idle"
                          /\ probe'[q] = "clearing" <=> probe[q] = "clearing"
    BY <1>6 DEF ProbeReturns, ProbeHangs, Tick, TypeOK
  <2>3. Mode' = Mode
    BY <2>1, <2>2 DEF Mode, Active, Checking
  <2>4. QED
    BY <2>1, <2>3, <1>b DEF Service!vars
<1>7. ASSUME NEW p \in Probes, Send(p) PROVE Service!Answer
  <2>1. /\ probe[p] = "sending"
        /\ probe'[p] = IF forever[p] THEN "waiting" ELSE "clearing"
        /\ messages' = messages + 1
        /\ UNCHANGED <<forever, tokens, stop>>
    BY <1>7 DEF Send, TypeOK
  <2>2. Mode = IF forever[p] THEN "always" ELSE "once"
    BY <2>1, <1>m
  <2>3. Mode' = IF forever[p] THEN "always" ELSE "answered"
    BY <2>1, <1>n
  <2>4. QED
    BY <2>1, <2>2, <2>3, <1>b DEF Service!Answer
<1>8. ASSUME NEW p \in Probes, Clear(p) PROVE Service!Finish
  <2>1. probe[p] = "clearing" /\ UNCHANGED <<tokens, stop, messages>>
    BY <1>8 DEF Clear
  <2>2. \A q \in Probes : probe'[q] = "idle"
    BY <1>8 DEF Clear, ProbeInv, OneProbe, Active, TypeOK
  <2>3. Mode = "answered"
    BY <2>1, <1>m DEF KindInv
  <2>4. Mode' = "off"
    BY <2>2, <1>n
  <2>5. QED
    BY <2>1, <2>3, <2>4, <1>b DEF Service!Finish
<1>9. ASSUME NEW p \in Probes, TakeToken(p) PROVE Service!End
  <2>1. /\ probe[p] = "waiting" /\ tokens > 0 /\ tokens' = tokens - 1
        /\ UNCHANGED <<stop, messages>>
    BY <1>9 DEF TakeToken
  <2>2. \A q \in Probes : probe'[q] = "idle"
    BY <1>9 DEF TakeToken, ProbeInv, OneProbe, Active, TypeOK
  <2>3. Mode = "always"
    BY <2>1, <1>m DEF KindInv
  <2>4. Mode' = "off"
    BY <2>2, <1>n
  <2>5. Calls > 0 /\ Calls' = Calls - 1
    <3>1. Busy' = Busy
      BY <2>1 DEF Busy
    <3>2. QED
      BY <2>1, <3>1, <1>d, BusyFinite DEF Calls
  <2>6. QED
    BY <2>1, <2>3, <2>4, <2>5 DEF Service!End
<1>10. ASSUME NEW s \in Stoppers, StopKill(s) PROVE Service!Stop
  <2>1. /\ stop[s] = "idle" /\ stop' = [stop EXCEPT ![s] = "load"]
        /\ UNCHANGED <<probeVars, tokens, messages>>
    BY <1>10 DEF StopKill
  <2>2. Cardinality(Busy') = Cardinality(Busy) + 1
    BY <2>1, BusyGrows DEF StopState
  <2>3. Calls' = Calls + 1
    BY <2>1, <2>2, <1>d, BusyFinite DEF Calls
  <2>4. QED
    BY <2>1, <2>3, <1>a DEF Service!Stop
<1>11. ASSUME NEW s \in Stoppers, StopLoad(s)
       PROVE  Service!Dismiss \/ UNCHANGED Service!vars
  <2>1. UNCHANGED <<probeVars, tokens, messages>>
    BY <1>11 DEF StopLoad
  <2>2. CASE flag = 1
    <3>1. Busy' = Busy
      BY <1>11, <2>2 DEF StopLoad, Busy, TypeOK
    <3>2. Calls' = Calls
      BY <2>1, <3>1 DEF Calls
    <3>3. QED
      BY <2>1, <3>2, <1>a DEF Service!vars
  <2>3. CASE flag # 1
    <3>1. stop[s] # "idle" /\ stop' = [stop EXCEPT ![s] = "idle"]
      BY <1>11, <2>3 DEF StopLoad
    <3>2. Cardinality(Busy') = Cardinality(Busy) - 1 /\ Cardinality(Busy) > 0
      BY <3>1, BusyShrinks
    <3>3. Calls > 0 /\ Calls' = Calls - 1
      BY <2>1, <3>2, <1>d, BusyFinite DEF Calls
    <3>4. Mode = "off" /\ Mode' = "off"
      BY <2>1, <2>3, <1>a, <1>m DEF ProbeInv, Active
    <3>5. QED
      BY <2>1, <3>3, <3>4 DEF Service!Dismiss
  <2>4. QED
    BY <2>2, <2>3
<1>12. ASSUME NEW s \in Stoppers, StopSend(s) PROVE UNCHANGED Service!vars
  <2>1. /\ stop[s] # "idle" /\ stop' = [stop EXCEPT ![s] = "idle"]
        /\ tokens' = tokens + 1 /\ UNCHANGED <<probeVars, messages>>
    BY <1>12 DEF StopSend
  <2>2. Cardinality(Busy') = Cardinality(Busy) - 1
    BY <2>1, BusyShrinks
  <2>3. Calls' = Calls
    BY <2>1, <2>2, <1>d, BusyFinite DEF Calls
  <2>4. QED
    BY <2>1, <2>3, <1>a DEF Service!vars
<1>13. CASE UNCHANGED vars
  BY <1>13, <1>c DEF vars
<1>14. QED
  BY <1>1, <1>2, <1>3, <1>4, <1>5, <1>6, <1>7, <1>8, <1>9, <1>10, <1>11,
     <1>12, <1>13
  DEF Next, ClientNext, ProbeNext, StopNext, Service!Next

\* The handler implements SupervisedService, for any number of probes and
\* stoppers and any capacity of the channels: its checks never overlap, a
\* perpetual check ends by a call of Stop only and no call ends two checks.
THEOREM HandlerImplementsService == Spec => ImplementsService
<1>1. Init => Service!Init
  <2> SUFFICES ASSUME Init PROVE Service!Init
    OBVIOUS
  <2>1. Busy = {}
    BY DEF Init, Busy
  <2>2. Calls = 0
    BY <2>1, FS_EmptySet DEF Init, Calls
  <2>3. Mode = "off"
    BY DEF Init, Mode, Active, Checking
  <2>4. QED
    BY <2>2, <2>3 DEF Init, Service!Init
<1>2. Init => ProbeInv /\ KindInv
  BY DEF Init, ProbeInv, OneProbe, Active, KindInv
<1>3. QED
  BY <1>1, <1>2, TypeCorrect, ProbeInvStep, KindInvStep, ServiceStep, PTL
  DEF Spec, ImplementsService, Service!Spec
=============================================================================
