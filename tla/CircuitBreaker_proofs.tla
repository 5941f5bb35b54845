------------------------ MODULE CircuitBreaker_proofs -----------------------
(***************************************************************************)
(* What the circuit breaker's runs check for four threads, proved for any  *)
(* set of threads, any threshold and any cooldown. The two invariants are  *)
(* inductive together with the types. Recovers and ShedsLoad are liveness  *)
(* properties and stay with TLC.                                           *)
(***************************************************************************)
EXTENDS CircuitBreaker, TLAPS

IInv == TypeOK /\ OpenIffStreak /\ CooldownShut

\* The count of a result stays within the threshold, and reaches it from the
\* threshold.
LEMMA CountedBounded ==
    ASSUME failures \in 0..Threshold
    PROVE  /\ Counted \in 0..Threshold
           /\ failures = Threshold => Opens
BY ThresholdAssumption DEF Counted, Opens

LEMMA InitEstablishes == Init => IInv
<1> SUFFICES ASSUME Init PROVE IInv
  OBVIOUS
<1>0. 0 \in 0..Threshold /\ 0 \in 0..Recovery
  BY ThresholdAssumption, RecoveryAssumption
<1>1. TypeOK
  BY <1>0, Zenon DEF Init, TypeOK
<1>2. failures # Threshold
  BY ThresholdAssumption DEF Init
<1>3. OpenIffStreak /\ CooldownShut
  BY <1>2 DEF Init, OpenIffStreak, CooldownShut
<1> QED BY <1>1, <1>3 DEF IInv

-----------------------------------------------------------------------------
LEMMA EnterPreserves ==
    ASSUME IInv, NEW t \in Threads, Enter(t)
    PROVE  IInv'
<1>1. TypeOK'
  BY DEF IInv, TypeOK, Enter
<1>2. OpenIffStreak'
  BY DEF IInv, OpenIffStreak, Enter
<1>3. CooldownShut'
  \* The circuit was not open, and is not now.
  BY DEF Enter, Open, CooldownShut
<1> QED BY <1>1, <1>2, <1>3 DEF IInv

LEMMA SucceedPreserves ==
    ASSUME IInv, NEW t \in Threads, Succeed(t)
    PROVE  IInv'
<1>1. /\ failures' = 0 /\ opened' = FALSE /\ age' = 0
      /\ fresh' = fresh \ {t}
      /\ call' = [call EXCEPT ![t] = "none"] /\ up' = up
  BY DEF Succeed, Return, CountAfterSuccess, OpenedAfterSuccess
<1>2. TypeOK'
  <2>1. 0 \in 0..Threshold /\ 0 \in 0..Recovery
    BY ThresholdAssumption, RecoveryAssumption
  <2>2. call' \in [Threads -> {"none", "sound", "struck", "doomed"}]
    BY <1>1 DEF IInv, TypeOK
  <2>3. fresh' \subseteq Threads
    BY <1>1 DEF IInv, TypeOK
  <2> QED BY <1>1, <2>1, <2>2, <2>3, Zenon DEF IInv, TypeOK
<1>3. failures' # Threshold
  BY <1>1, ThresholdAssumption
<1>4. OpenIffStreak' /\ CooldownShut'
  BY <1>1, <1>3 DEF OpenIffStreak, CooldownShut
<1> QED BY <1>2, <1>4 DEF IInv

LEMMA FailPreserves ==
    ASSUME IInv, NEW t \in Threads, Fail(t)
    PROVE  IInv'
<1>1. /\ Counted \in 0..Threshold
      /\ failures = Threshold => Opens
  BY CountedBounded DEF IInv, TypeOK
<1>2. failures' = Counted /\ UNCHANGED up
      /\ call' = [call EXCEPT ![t] = "none"]
  BY DEF Fail, Return
<1>3. CASE Opens
  <2>1. opened' = TRUE /\ age' = 0 /\ fresh' = {}
    BY <1>3 DEF Fail
  <2>2. TypeOK'
    BY <1>1, <1>2, <2>1, RecoveryAssumption DEF IInv, TypeOK
  <2>3. OpenIffStreak'
    BY <1>2, <1>3, <2>1 DEF Opens, OpenIffStreak
  <2>4. CooldownShut'
    BY <2>1 DEF CooldownShut
  <2> QED BY <2>2, <2>3, <2>4 DEF IInv
<1>4. CASE ~Opens
  <2>1. fresh' = fresh \ {t} /\ UNCHANGED <<opened, age>>
    BY <1>4 DEF Fail
  <2>2. TypeOK'
    BY <1>1, <1>2, <2>1 DEF IInv, TypeOK
  \* The count had not reached the threshold, so the circuit was closed.
  <2>3. OpenIffStreak'
    BY <1>1, <1>2, <1>4, <2>1 DEF Opens, IInv, OpenIffStreak
  <2>4. CooldownShut'
    BY <2>1 DEF IInv, CooldownShut
  <2> QED BY <2>2, <2>3, <2>4 DEF IInv
<1> QED BY <1>3, <1>4

LEMMA TickPreserves ==
    ASSUME IInv, Tick
    PROVE  IInv'
<1>1. TypeOK'
  BY RecoveryAssumption DEF IInv, TypeOK, Tick
<1>2. OpenIffStreak'
  BY DEF IInv, OpenIffStreak, Tick
<1>3. CooldownShut'
  BY DEF IInv, CooldownShut, Tick
<1> QED BY <1>1, <1>2, <1>3 DEF IInv

LEMMA DependencyPreserves ==
    ASSUME IInv, Outage \/ Restore
    PROVE  IInv'
<1>1. UNCHANGED <<failures, opened, age, fresh>>
  BY DEF Outage, Restore
<1>2. TypeOK'
  BY <1>1 DEF IInv, TypeOK, Outage, Restore
<1>3. OpenIffStreak' /\ CooldownShut'
  BY <1>1 DEF IInv, OpenIffStreak, CooldownShut
<1> QED BY <1>2, <1>3 DEF IInv

LEMMA StepPreserves == IInv /\ [Next]_vars => IInv'
<1> SUFFICES ASSUME IInv, [Next]_vars PROVE IInv'
  OBVIOUS
<1>1. CASE UNCHANGED vars
  BY <1>1 DEF vars, IInv, TypeOK, OpenIffStreak, CooldownShut
<1>2. CASE Next
  <2>1. ASSUME NEW t \in Threads, Enter(t) \/ Succeed(t) \/ Fail(t)
        PROVE  IInv'
    BY <2>1, EnterPreserves, SucceedPreserves, FailPreserves
  <2> QED BY <1>2, <2>1, TickPreserves, DependencyPreserves DEF Next
<1> QED BY <1>1, <1>2

LEMMA Invariance == Spec => []IInv
BY InitEstablishes, StepPreserves, PTL DEF Spec

-----------------------------------------------------------------------------
\* The fields of the breaker keep their types (CircuitBreaker.__init__), for
\* any threads, threshold and cooldown.
THEOREM BreakerTypeCorrect == Spec => []TypeOK
<1>1. IInv => TypeOK
  BY DEF IInv
<1> QED BY <1>1, Invariance, PTL

\* However the results of overlapping calls are ordered, the circuit has
\* opened exactly when the threshold of failures in a row was reached (call).
THEOREM OpensOnStreaksOnly == Spec => []OpenIffStreak
<1>1. IInv => OpenIffStreak
  BY DEF IInv
<1> QED BY <1>1, Invariance, PTL

\* For the whole cooldown after an opening no call is under way that began
\* after it (_state and call).
THEOREM CooldownLetsNothingThrough == Spec => []CooldownShut
<1>1. IInv => CooldownShut
  BY DEF IInv
<1> QED BY <1>1, Invariance, PTL
=============================================================================
