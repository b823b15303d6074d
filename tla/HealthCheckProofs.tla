------------------------- MODULE HealthCheckProofs -------------------------
(***************************************************************************)
(* Proofs about HealthCheck: type correctness, the length of the backoff,  *)
(* and what a healthy verdict rests on.                                    *)
(***************************************************************************)
EXTENDS HealthCheck, TLAPS

(***************************************************************************)
(* The time slept is a function of the next pause, as the pauses double:   *)
(* after FirstWait, 2 * FirstWait, ..., waitTime \div 2 it is              *)
(* waitTime - FirstWait.  A pause is made only if it is not above Limit,   *)
(* which bounds both and keeps slept away from its cap.                    *)
(***************************************************************************)
BackoffInv ==
    /\ waitTime \in Nat /\ slept \in Nat
    /\ FirstWait <= waitTime /\ waitTime <= 2 * Limit
    /\ slept = waitTime - FirstWait
    /\ pc = "pause" => waitTime <= Limit
    /\ verdict = "timeout" => waitTime > Limit

\* What the answer and the verdict have to do with each other.
AnswerInv ==
    /\ pc # "done" => verdict = "none"
    /\ verdict = "healthy" /\ (service \in WithCA => caFile = "good") =>
          IF service \in Json THEN body \in {"healthy", "unhealthy"}
                              ELSE body = "healthy"
    /\ pc = "validate" => body \in Bodies

\* The variables that range over small sets.
FiniteTypes ==
    /\ service \in Services
    /\ caFile \in CaFiles /\ keyPair \in BOOLEAN
    /\ port \in BOOLEAN
    /\ health \in Bodies
    /\ pc \in {"load", "get", "pause", "validate", "done"}
    /\ body \in Bodies \cup {"none"}
    /\ verdict \in Verdicts

IInv == FiniteTypes /\ BackoffInv /\ AnswerInv

-----------------------------------------------------------------------------
\* Every step keeps the backoff within its bounds.
LEMMA BackoffStep ==
    ASSUME FiniteTypes, BackoffInv, AnswerInv, [Next]_vars
    PROVE  BackoffInv'
<1> USE BackoffConstants DEF FiniteTypes, BackoffInv, AnswerInv, Conclude, files
<1>1. CASE PortChanges
  BY <1>1 DEF PortChanges
<1>2. CASE HealthChanges
  BY <1>2 DEF HealthChanges
<1>3. CASE LoadFiles
  BY <1>3 DEF LoadFiles
<1>4. CASE DialFails
  BY <1>4 DEF DialFails
<1>5. CASE Pause
  <2>1. slept + waitTime < SleptCap
    BY <1>5 DEF Pause, SleptCap
  <2>2. slept' = slept + waitTime
    BY <1>5, <2>1 DEF Pause, Sleep
  <2> QED BY <1>5, <2>2 DEF Pause
<1>6. CASE GetFails
  BY <1>6 DEF GetFails
<1>7. CASE GetAnswered
  BY <1>7 DEF GetAnswered
<1>8. CASE Validate
  BY <1>8 DEF Validate, JsonVerdict, TextVerdict
<1>9. CASE UNCHANGED vars
  BY <1>9 DEF vars
<1> QED BY <1>1, <1>2, <1>3, <1>4, <1>5, <1>6, <1>7, <1>8, <1>9 DEF Next

\* Every step keeps the types of the other variables.
LEMMA FiniteTypesStep ==
    ASSUME FiniteTypes, AnswerInv, [Next]_vars
    PROVE  FiniteTypes'
<1> USE DEF FiniteTypes, AnswerInv, Conclude, files, Verdicts
<1>1. CASE PortChanges
  BY <1>1 DEF PortChanges
<1>2. CASE HealthChanges
  BY <1>2 DEF HealthChanges
<1>3. CASE LoadFiles
  BY <1>3 DEF LoadFiles
<1>4. CASE DialFails
  BY <1>4 DEF DialFails
<1>5. CASE Pause
  BY <1>5 DEF Pause
<1>6. CASE GetFails
  BY <1>6 DEF GetFails
<1>7. CASE GetAnswered
  BY <1>7 DEF GetAnswered
<1>8. CASE Validate
  BY <1>8 DEF Validate, JsonVerdict, TextVerdict
<1>9. CASE UNCHANGED vars
  BY <1>9 DEF vars
<1> QED BY <1>1, <1>2, <1>3, <1>4, <1>5, <1>6, <1>7, <1>8, <1>9 DEF Next

\* Every step keeps the relation of answer and verdict.
LEMMA AnswerStep ==
    ASSUME FiniteTypes, AnswerInv, [Next]_vars
    PROVE  AnswerInv'
<1> USE DEF FiniteTypes, AnswerInv, Conclude, files
<1>1. CASE PortChanges
  BY <1>1 DEF PortChanges
<1>2. CASE HealthChanges
  BY <1>2 DEF HealthChanges
<1>3. CASE LoadFiles
  BY <1>3 DEF LoadFiles, CaFiles
<1>4. CASE DialFails
  BY <1>4 DEF DialFails
<1>5. CASE Pause
  BY <1>5 DEF Pause
<1>6. CASE GetFails
  BY <1>6 DEF GetFails
<1>7. CASE GetAnswered
  BY <1>7 DEF GetAnswered
<1>8. CASE Validate
  BY <1>8 DEF Validate, JsonVerdict, TextVerdict, Bodies
<1>9. CASE UNCHANGED vars
  BY <1>9 DEF vars
<1> QED BY <1>1, <1>2, <1>3, <1>4, <1>5, <1>6, <1>7, <1>8, <1>9 DEF Next

\* The three parts hold initially.
LEMMA InitInv == Init => IInv
<1>1. Init => FiniteTypes
  BY DEF Init, FiniteTypes, Verdicts
<1>2. Init => BackoffInv
  BY BackoffConstants DEF Init, BackoffInv
<1>3. Init => AnswerInv
  BY DEF Init, AnswerInv
<1> QED BY <1>1, <1>2, <1>3 DEF IInv

\* Together they are an invariant.
LEMMA Invariance == Spec => []IInv
<1>1. IInv /\ [Next]_vars => IInv'
  BY BackoffStep, FiniteTypesStep, AnswerStep DEF IInv
<1> QED BY InitInv, <1>1, PTL DEF Spec

-----------------------------------------------------------------------------
\* The variables of a health check (BaseServiceHandler.go:90-147) keep their
\* types for every first pause and every limit; in particular the clock of the
\* model never reaches its cap.
THEOREM TypeCorrect == Spec => []TypeOK
<1>1. IInv => TypeOK
  BY BackoffConstants DEF IInv, FiniteTypes, BackoffInv, TypeOK, SleptCap
<1> QED BY Invariance, <1>1, PTL

\* For every first pause and limit, a check that gives up has waited for more
\* than Limit - FirstWait, and no check waits for twice Limit
\* (BaseServiceHandler.go:124-135).
THEOREM BackoffBounded == Spec => []PatientEnough
<1>1. IInv => PatientEnough
  BY BackoffConstants DEF IInv, BackoffInv, PatientEnough
<1> QED BY Invariance, <1>1, PTL

\* With an intact CA file a healthy verdict is given only on an answer: "ok",
\* or for etcd and kube-proxy one that parses (EtcdHandler.go:117-130,
\* KubeAPIServerHandler.go:174-183).
THEOREM HealthyOnAnswer == Spec => []HealthyMeansOk
<1>1. IInv => HealthyMeansOk
  BY DEF IInv, AnswerInv, HealthyMeansOk
<1> QED BY Invariance, <1>1, PTL
=============================================================================
