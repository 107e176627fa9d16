------------------------- MODULE VramArbiterProofs -------------------------
(***************************************************************************)
(* Proofs about VramArbiter, for any models, workers, needs, recoveries    *)
(* and card: the state has its types, the hold counts are exact, a held    *)
(* model stays resident, and an admission spares the models it needs.      *)
(***************************************************************************)
EXTENDS VramArbiter, VramBudgetProofs, SequenceTheorems

(***************************************************************************)
(* The inductive invariant.  HoldAccounting survives a step only because   *)
(* an attempt holds each required model at most once (HoldsInv), and a     *)
(* held model survives other admissions only because at most one of them   *)
(* is under way (AdmitInv) and it reserved what it evicts (PassInv).       *)
(***************************************************************************)
Distinct(s) == \A i, k \in DOMAIN s : s[i] = s[k] => i = k

HoldsOK(j) ==
    /\ need[j] \in Needs[j] \cup {NoNeed}
    /\ held[j] \subseteq Protected(j)
    /\ rebound[j] \subseteq UNION Handles[j]
    /\ pc[j] \notin Admitting \cup Leased => held[j] = {}
    /\ pc[j] \notin Leased => rebound[j] = {}
    /\ pc[j] \notin Admitting => keys[j] = <<>>
    /\ Range(keys[j]) \subseteq Protected(j) \ held[j]
    /\ Distinct(keys[j])

HoldsInv == \A j \in Jobs : HoldsOK(j)

AdmitInv == \A j \in Jobs : pc[j] \in Admitting \cup {"barrier"} => lock = j

\* Room for transient bytes is made last, when every model is held.
GoalInv ==
    \A j \in Jobs :
        pc[j] \in {"evict", "unloading", "loading"} /\ goal = "transient" => keys[j] = <<>>

PassInv ==
    /\ \A m \in reserved : evicting[m]
    /\ reserved # {} => \E j \in Jobs : pc[j] \in {"evict", "unloading"}

IInv ==
    /\ TypeOK /\ AdmitInv /\ GoalInv /\ HoldsInv /\ PassInv
    /\ OwnModelsSpared /\ HoldAccounting /\ HeldStaysResident
-----------------------------------------------------------------------------
(* Facts about the helpers *)

\* A registered model has a position in the registry.
LEMMA PositionType == ASSUME NEW m \in Models PROVE Position(m) \in Nat
<1>1. PICK i \in DOMAIN Registry : Registry[i] = m
  BY DEF Models, Range
<1>2. Position(m) \in DOMAIN Registry
  BY <1>1 DEF Position
<1> QED BY <1>2, RegistryAssumption

\* last_used ranks stay natural numbers.
LEMMA TouchedType ==
  ASSUME NEW K, lastUsed \in [Models -> Nat]
  PROVE  Touched(K) \in [Models -> Nat]
<1>1. ASSUME NEW m \in Models
      PROVE  Cardinality({lastUsed[n] : n \in {x \in Models \ K : lastUsed[x] < lastUsed[m]}}) \in Nat
  <2> DEFINE T == {lastUsed[n] : n \in {x \in Models \ K : lastUsed[x] < lastUsed[m]}}
  <2>1. /\ T \in SUBSET Nat
        /\ \A t \in T : t <= lastUsed[m]
    OBVIOUS
  <2>2. IsFiniteSet(T)
    BY <2>1, FS_BoundedSetOfNaturals
  <2> QED BY <2>2, FS_CardinalityType
<1>2. Cardinality(Models) \in Nat
  BY RegistryAssumption, FS_CardinalityType
<1> QED BY <1>1, <1>2 DEF Touched

\* The victims are among the candidates.
LEMMA VictimsAreCandidates ==
  ASSUME NEW S, NEW shortfall PROVE Victims(S, Size, shortfall, OlderAmong(S)) \subseteq S
BY DEF Victims

\* The parts of TypeOK each shared effect answers for.
LEMMA ReleaseLockType ==
  ASSUME TypeOK, ReleaseLock
  PROVE  /\ lock' \in Jobs \cup {NoJob}
         /\ waiters' \in Seq(Jobs)
<1>1. waiters \in Seq(Jobs)
  BY DEF TypeOK
<1>2. CASE waiters = <<>>
  BY <1>1, <1>2 DEF ReleaseLock
<1>3. CASE waiters # <<>>
  <2>1. Head(waiters) \in Jobs /\ Tail(waiters) \in Seq(Jobs)
    BY <1>1, <1>3, HeadTailProperties
  <2> QED BY <1>3, <2>1 DEF ReleaseLock
<1> QED BY <1>2, <1>3

LEMMA EndOperationsType ==
  ASSUME TypeOK, NEW S, EndOperations(S) PROVE opCount' \in [Models -> Nat]
BY DEF TypeOK, EndOperations

LEMMA MakeRoomType ==
  ASSUME TypeOK, NEW j \in Jobs, NEW bytes, NEW aggressive,
         NEW why \in {"load", "retry", "transient"}, MakeRoom(j, bytes, aggressive, why)
  PROVE  /\ reserved' \in SUBSET Models
         /\ victims' \in SUBSET reserved'
         /\ evicting' \in [Models -> BOOLEAN]
         /\ goal' \in {"none", "load", "retry", "transient"}
         /\ io' \in {"none", "busy", "ok", "oom", "error"}
         /\ pc' \in [Jobs -> {"idle"} \cup Acquiring \cup Leased]
         /\ running' \in Jobs \cup {NoJob}
BY VictimsAreCandidates DEF TypeOK, MakeRoom, Evictable, Acquiring

LEMMA RaiseType ==
  ASSUME TypeOK, NEW j \in Jobs, Raise(j), evicting' \in [Models -> BOOLEAN]
  PROVE  TypeOK'
<1>1. lock' \in Jobs \cup {NoJob} /\ waiters' \in Seq(Jobs)
  BY ReleaseLockType DEF Raise
<1>2. opCount' \in [Models -> Nat]
  BY EndOperationsType DEF Raise, RollBack
<1>3. held' \in [Jobs -> SUBSET Models] /\ keys' \in [Jobs -> Seq(Models)]
  BY DEF TypeOK, Raise, RollBack
<1>4. need' \in [Jobs -> NeedType]
  BY DEF TypeOK, Raise, NoNeed, NeedType
<1> QED BY <1>1, <1>2, <1>3, <1>4 DEF TypeOK, Raise, EndPass
-----------------------------------------------------------------------------
(* Types *)

\* Every step keeps the types.
LEMMA TypeOKStep == ASSUME TypeOK, [Next]_vars PROVE TypeOK'
<1>0. CASE UNCHANGED vars
  BY <1>0 DEF TypeOK, vars, jobVars, modelVars, passVars, historyVars
<1>1. ASSUME NEW j \in Jobs, Acquire(j) PROVE TypeOK'
  BY <1>1, JobAssumption DEF TypeOK, Acquire, modelVars, passVars, historyVars, Acquiring
<1>2. ASSUME NEW j \in Jobs, DeadlinePasses(j) PROVE TypeOK'
  BY <1>2 DEF TypeOK, DeadlinePasses, jobVars, modelVars, passVars, historyVars
<1>3. ASSUME NEW j \in Jobs, BeginAttempt(j) PROVE TypeOK'
  <2>1. need[j].models \in Seq(Models)
    BY DEF TypeOK, NeedType
  <2>2. Append(waiters, j) \in Seq(Jobs)
    BY AppendProperties DEF TypeOK
  <2>3. CASE lock = NoJob
    BY <1>3, <2>1, <2>3 DEF TypeOK, BeginAttempt, EnterKeys, Acquiring, modelVars, passVars, historyVars
  <2>4. CASE lock # NoJob
    BY <1>3, <2>2, <2>4 DEF TypeOK, BeginAttempt, Acquiring, modelVars, passVars, historyVars
  <2> QED BY <2>3, <2>4
<1>4. ASSUME NEW j \in Jobs, GetLock(j) PROVE TypeOK'
  <2>1. need[j].models \in Seq(Models)
    BY DEF TypeOK, NeedType
  <2> QED BY <1>4, <2>1 DEF TypeOK, GetLock, EnterKeys, Acquiring, modelVars, passVars, historyVars
<1>5. ASSUME NEW j \in Jobs, Park(j) PROVE TypeOK'
  BY <1>5 DEF TypeOK, Park, jobVars, modelVars, passVars, historyVars, Acquiring
<1>6. ASSUME NEW j \in Jobs, WaitTimesOut(j) PROVE TypeOK'
  BY <1>6 DEF TypeOK, WaitTimesOut, jobVars, modelVars, passVars, historyVars, Acquiring
<1>7. ASSUME NEW j \in Jobs, HoldKey(j) PROVE TypeOK'
  <2>1. CASE evicting[Head(keys[j])]
    BY <1>7, <2>1, RaiseType DEF TypeOK, HoldKey
  <2>2. CASE ~evicting[Head(keys[j])]
    <3>1. Head(keys[j]) \in Models /\ Tail(keys[j]) \in Seq(Models)
      BY <1>7, HeadTailProperties DEF TypeOK, HoldKey
    <3>2. /\ opCount' = [opCount EXCEPT ![Head(keys[j])] = @ + 1]
          /\ held' = [held EXCEPT ![j] = @ \cup {Head(keys[j])}]
          /\ keys' = [keys EXCEPT ![j] = Tail(@)]
      BY <1>7, <2>2 DEF HoldKey
    <3>3. opCount' \in [Models -> Nat]
      BY <3>1, <3>2 DEF TypeOK
    <3>4. held' \in [Jobs -> SUBSET Models] /\ keys' \in [Jobs -> Seq(Models)]
      BY <3>1, <3>2 DEF TypeOK
    <3> QED BY <1>7, <2>2, <3>3, <3>4 DEF TypeOK, HoldKey, passVars, historyVars
  <2> QED BY <2>1, <2>2
<1>8. ASSUME NEW j \in Jobs, MakeRoomForKey(j) PROVE TypeOK'
  BY <1>8, MakeRoomType DEF TypeOK, MakeRoomForKey, jobVars, modelVars, passVars, historyVars
<1>9. ASSUME NEW j \in Jobs, MakeRoomForTransient(j) PROVE TypeOK'
  BY <1>9, MakeRoomType DEF TypeOK, MakeRoomForTransient, jobVars, modelVars, passVars, historyVars
<1>10. ASSUME NEW j \in Jobs, GrantWithoutTransient(j) PROVE TypeOK'
  BY <1>10, ReleaseLockType, TouchedType DEF TypeOK, GrantWithoutTransient, jobVars, modelVars, passVars, historyVars, Grant, EndPass, Leased, Protected
<1>11. ASSUME NEW j \in Jobs, EvictNext(j) PROVE TypeOK'
  BY <1>11, PositionType DEF TypeOK, EvictNext, jobVars, modelVars, passVars, historyVars, FirstRegistered, Acquiring
<1>12. ASSUME NEW j \in Jobs, ExecutorUnloads(j) PROVE TypeOK'
  BY <1>12 DEF TypeOK, ExecutorUnloads, jobVars, modelVars, passVars, historyVars
<1>13. ASSUME NEW j \in Jobs, UnloadReturns(j) PROVE TypeOK'
  BY <1>13, RaiseType DEF TypeOK, UnloadReturns, jobVars, modelVars, passVars, historyVars, Acquiring
<1>14. ASSUME NEW j \in Jobs, LoadKey(j) PROVE TypeOK'
  BY <1>14 DEF TypeOK, LoadKey, jobVars, modelVars, passVars, historyVars, CancelReservations, Acquiring, RoomMade
<1>15. ASSUME NEW j \in Jobs, GrantWithTransient(j) PROVE TypeOK'
  <2>1. need[j].transient \in Nat
    BY DEF TypeOK, NeedType
  <2>2. lock' \in Jobs \cup {NoJob} /\ waiters' \in Seq(Jobs)
    BY <1>15, ReleaseLockType DEF GrantWithTransient, Grant
  <2>3. lastUsed' \in [Models -> Nat]
    BY <1>15, TouchedType DEF TypeOK, GrantWithTransient, Grant
  <2>4. transient' \in Nat
    BY <1>15, <2>1 DEF TypeOK, GrantWithTransient, Grant
  <2> QED
    BY <1>15, <2>2, <2>3, <2>4
    DEF TypeOK, GrantWithTransient, Grant, EndPass, Leased, CancelReservations, historyVars
<1>16. ASSUME NEW j \in Jobs, BlockOnHeld(j) PROVE TypeOK'
  BY <1>16, ReleaseLockType, EndOperationsType DEF TypeOK, BlockOnHeld, jobVars, modelVars, passVars, historyVars, Block, RollBack, EndPass, CancelReservations, Acquiring, RoomMade
<1>17. ASSUME NEW j \in Jobs, ExecutorLoads(j) PROVE TypeOK'
  BY <1>17 DEF TypeOK, ExecutorLoads, jobVars, modelVars, passVars, historyVars
<1>18. ASSUME NEW j \in Jobs, LoadReturns(j) PROVE TypeOK'
  BY <1>18 DEF TypeOK, LoadReturns, jobVars, modelVars, passVars, historyVars, EndPass, Acquiring
<1>19. ASSUME NEW j \in Jobs, LoadRetries(j) PROVE TypeOK'
  BY <1>19, MakeRoomType DEF TypeOK, LoadRetries, jobVars, modelVars, passVars, historyVars
<1>20. ASSUME NEW j \in Jobs, LoadFails(j) PROVE TypeOK'
  BY <1>20, RaiseType DEF TypeOK, LoadFails, jobVars, modelVars, passVars, historyVars
<1>21. ASSUME NEW j \in Jobs, Release(j) PROVE TypeOK'
  <2>1. need[j].transient \in Nat
    BY DEF TypeOK, NeedType
  <2>2. transient' \in Nat
    BY <1>21, <2>1 DEF TypeOK, Release, ClampAtZero
  <2>3. need' \in [Jobs -> NeedType]
    BY <1>21 DEF TypeOK, Release, NoNeed, NeedType
  <2>4. opCount' \in [Models -> Nat]
    BY <1>21, EndOperationsType DEF Release
  <2> QED BY <1>21, <2>2, <2>3, <2>4 DEF TypeOK, Release, Acquiring, passVars, historyVars
<1>22. ASSUME NEW j \in Jobs, EnterBarrier(j) PROVE TypeOK'
  <2>1. Append(waiters, j) \in Seq(Jobs)
    BY AppendProperties DEF TypeOK
  <2> QED BY <1>22, <2>1 DEF TypeOK, EnterBarrier, Leased, modelVars, passVars, historyVars
<1>23. ASSUME NEW j \in Jobs, GetBarrier(j) PROVE TypeOK'
  BY <1>23 DEF TypeOK, GetBarrier, jobVars, modelVars, passVars, historyVars, Leased
<1>24. ASSUME NEW j \in Jobs, Rebind(j) PROVE TypeOK'
  BY <1>24, ReleaseLockType DEF TypeOK, Rebind, jobVars, modelVars, passVars, historyVars, Leased
<1> QED
  BY <1>0, <1>1, <1>2, <1>3, <1>4, <1>5, <1>6, <1>7, <1>8, <1>9, <1>10, <1>11, <1>12, <1>13, <1>14, <1>15, <1>16, <1>17, <1>18, <1>19, <1>20, <1>21, <1>22, <1>23, <1>24
  DEF Next, AcquireStep, ExecutorStep, RecoveryStep
\* The variables have their types, in every reachable state (property TypeOK).
THEOREM TypeCorrect == Spec => []TypeOK
<1>1. Init => TypeOK
  <2>1. <<>> \in Seq(Models) /\ <<>> \in Seq(Jobs)
    OBVIOUS
  <2>2. NoNeed \in NeedType
    BY <2>1 DEF NoNeed, NeedType
  <2>3. Init => /\ need \in [Jobs -> NeedType]
                /\ keys \in [Jobs -> Seq(Models)]
                /\ waiters \in Seq(Jobs)
    BY <2>1, <2>2 DEF Init
  <2>4. Init => /\ pc \in [Jobs -> {"idle"} \cup Acquiring \cup Leased]
                /\ held \in [Jobs -> SUBSET Models] /\ rebound \in [Jobs -> SUBSET Models]
                /\ expired \in [Jobs -> BOOLEAN] /\ force \in [Jobs -> BOOLEAN]
    BY DEF Init
  <2>5. Init => /\ loaded \in [Models -> BOOLEAN] /\ evicting \in [Models -> BOOLEAN]
                /\ opCount \in [Models -> Nat] /\ lastUsed \in [Models -> Nat]
    BY DEF Init
  <2>6. Init => /\ event \in BOOLEAN
                /\ lock \in Jobs \cup {NoJob} /\ running \in Jobs \cup {NoJob}
    BY Zenon DEF Init
  <2>7. Init => transient \in Nat
    BY DEF Init
  <2>8. Init => /\ reserved \in SUBSET Models /\ victims \in SUBSET reserved
                /\ goal \in {"none", "load", "retry", "transient"}
                /\ io \in {"none", "busy", "ok", "oom", "error"}
                /\ missed \in SUBSET Jobs /\ stranded \in SUBSET Models
    BY DEF Init
  <2> QED BY <2>3, <2>4, <2>5, <2>6, <2>7, <2>8 DEF TypeOK
<1>2. TypeOK /\ [Next]_vars => TypeOK'
  BY TypeOKStep
<1> QED BY <1>1, <1>2, PTL DEF Spec
-----------------------------------------------------------------------------
(* One admission at a time *)

\* Whoever owns the lock is the only job in an attempt or under the barrier,
\* so when it leaves nobody is.
LEMMA LastOneLeaves ==
  ASSUME TypeOK, AdmitInv, NEW j \in Jobs, pc[j] \in Admitting \cup {"barrier"},
         NEW x, x \notin Admitting \cup {"barrier"}, pc' = [pc EXCEPT ![j] = x]
  PROVE  AdmitInv'
BY DEF TypeOK, AdmitInv

\* A blocked attempt goes back to the loop's top or waits.
LEMMA BlockLeavesTo ==
  ASSUME TypeOK, NEW j \in Jobs, Block(j)
  PROVE  \E x \in {"top", "parking"} : pc' = [pc EXCEPT ![j] = x]
BY DEF TypeOK, Block

LEMMA AdmitStep == ASSUME TypeOK, AdmitInv, [Next]_vars PROVE AdmitInv'
<1>0. CASE UNCHANGED vars
  BY <1>0 DEF AdmitInv, vars, jobVars
<1>1. ASSUME NEW j \in Jobs, Acquire(j) PROVE AdmitInv'
  BY <1>1, JobAssumption DEF TypeOK, AdmitInv, Acquire, Admitting, jobVars, modelVars, passVars
<1>2. ASSUME NEW j \in Jobs, DeadlinePasses(j) PROVE AdmitInv'
  BY <1>2, JobAssumption DEF TypeOK, AdmitInv, DeadlinePasses, Admitting, jobVars, modelVars, passVars
<1>3. ASSUME NEW j \in Jobs, BeginAttempt(j) PROVE AdmitInv'
  BY <1>3, JobAssumption DEF TypeOK, AdmitInv, BeginAttempt, Admitting, jobVars, modelVars, passVars, EnterKeys
<1>4. ASSUME NEW j \in Jobs, GetLock(j) PROVE AdmitInv'
  BY <1>4, JobAssumption DEF TypeOK, AdmitInv, GetLock, Admitting, jobVars, modelVars, passVars, EnterKeys
<1>5. ASSUME NEW j \in Jobs, Park(j) PROVE AdmitInv'
  BY <1>5, JobAssumption DEF TypeOK, AdmitInv, Park, Admitting, jobVars, modelVars, passVars
<1>6. ASSUME NEW j \in Jobs, WaitTimesOut(j) PROVE AdmitInv'
  BY <1>6, JobAssumption DEF TypeOK, AdmitInv, WaitTimesOut, Admitting, jobVars, modelVars, passVars
<1>7. ASSUME NEW j \in Jobs, HoldKey(j) PROVE AdmitInv'
  BY <1>7, LastOneLeaves DEF TypeOK, AdmitInv, HoldKey, Raise, Admitting, jobVars, modelVars, passVars
<1>8. ASSUME NEW j \in Jobs, MakeRoomForKey(j) PROVE AdmitInv'
  BY <1>8, JobAssumption DEF TypeOK, AdmitInv, MakeRoomForKey, Admitting, jobVars, modelVars, passVars, MakeRoom
<1>9. ASSUME NEW j \in Jobs, MakeRoomForTransient(j) PROVE AdmitInv'
  BY <1>9, JobAssumption DEF TypeOK, AdmitInv, MakeRoomForTransient, Admitting, jobVars, modelVars, passVars, MakeRoom
<1>10. ASSUME NEW j \in Jobs, GrantWithoutTransient(j) PROVE AdmitInv'
  BY <1>10, LastOneLeaves DEF GrantWithoutTransient, Admitting, Leased, Grant
<1>11. ASSUME NEW j \in Jobs, EvictNext(j) PROVE AdmitInv'
  BY <1>11, JobAssumption DEF TypeOK, AdmitInv, EvictNext, Admitting, jobVars, modelVars, passVars
<1>12. ASSUME NEW j \in Jobs, ExecutorUnloads(j) PROVE AdmitInv'
  BY <1>12, JobAssumption DEF TypeOK, AdmitInv, ExecutorUnloads, Admitting, jobVars, modelVars, passVars
<1>13. ASSUME NEW j \in Jobs, UnloadReturns(j) PROVE AdmitInv'
  BY <1>13, LastOneLeaves DEF TypeOK, AdmitInv, UnloadReturns, Raise, Admitting, jobVars, modelVars, passVars
<1>14. ASSUME NEW j \in Jobs, LoadKey(j) PROVE AdmitInv'
  BY <1>14, JobAssumption DEF TypeOK, AdmitInv, LoadKey, Admitting, jobVars, modelVars, passVars, RoomMade
<1>15. ASSUME NEW j \in Jobs, GrantWithTransient(j) PROVE AdmitInv'
  BY <1>15, LastOneLeaves DEF GrantWithTransient, Admitting, Leased, Grant, RoomMade
<1>16. ASSUME NEW j \in Jobs, BlockOnHeld(j) PROVE AdmitInv'
  BY <1>16, LastOneLeaves, BlockLeavesTo DEF BlockOnHeld, Admitting, RoomMade
<1>17. ASSUME NEW j \in Jobs, ExecutorLoads(j) PROVE AdmitInv'
  BY <1>17, JobAssumption DEF TypeOK, AdmitInv, ExecutorLoads, Admitting, jobVars, modelVars, passVars
<1>18. ASSUME NEW j \in Jobs, LoadReturns(j) PROVE AdmitInv'
  BY <1>18, JobAssumption DEF TypeOK, AdmitInv, LoadReturns, Admitting, jobVars, modelVars, passVars
<1>19. ASSUME NEW j \in Jobs, LoadRetries(j) PROVE AdmitInv'
  BY <1>19, JobAssumption DEF TypeOK, AdmitInv, LoadRetries, Admitting, jobVars, modelVars, passVars, MakeRoom
<1>20. ASSUME NEW j \in Jobs, LoadFails(j) PROVE AdmitInv'
  BY <1>20, LastOneLeaves DEF LoadFails, Admitting, Leased, Raise
<1>21. ASSUME NEW j \in Jobs, Release(j) PROVE AdmitInv'
  BY <1>21, JobAssumption DEF TypeOK, AdmitInv, Release, Admitting, jobVars, modelVars, passVars
<1>22. ASSUME NEW j \in Jobs, EnterBarrier(j) PROVE AdmitInv'
  BY <1>22, JobAssumption DEF TypeOK, AdmitInv, EnterBarrier, Admitting, jobVars, modelVars, passVars
<1>23. ASSUME NEW j \in Jobs, GetBarrier(j) PROVE AdmitInv'
  BY <1>23, JobAssumption DEF TypeOK, AdmitInv, GetBarrier, Admitting, jobVars, modelVars, passVars
<1>24. ASSUME NEW j \in Jobs, Rebind(j) PROVE AdmitInv'
  BY <1>24, LastOneLeaves DEF Rebind, Admitting, Leased
<1> QED
  BY <1>0, <1>1, <1>2, <1>3, <1>4, <1>5, <1>6, <1>7, <1>8, <1>9, <1>10, <1>11, <1>12, <1>13, <1>14, <1>15, <1>16, <1>17, <1>18, <1>19, <1>20, <1>21, <1>22, <1>23, <1>24
  DEF Next, AcquireStep, ExecutorStep, RecoveryStep
-----------------------------------------------------------------------------
(* The order of an attempt *)

LEMMA GoalStep == ASSUME TypeOK, AdmitInv, GoalInv, [Next]_vars PROVE GoalInv'
<1>0. CASE UNCHANGED vars
  BY <1>0 DEF GoalInv, vars, jobVars, passVars
<1>1. ASSUME NEW j \in Jobs, Acquire(j) PROVE GoalInv'
  BY <1>1 DEF TypeOK, AdmitInv, GoalInv, Admitting, Acquire, jobVars, passVars
<1>2. ASSUME NEW j \in Jobs, DeadlinePasses(j) PROVE GoalInv'
  BY <1>2 DEF TypeOK, AdmitInv, GoalInv, Admitting, DeadlinePasses, jobVars, passVars
<1>3. ASSUME NEW j \in Jobs, BeginAttempt(j) PROVE GoalInv'
  BY <1>3 DEF TypeOK, AdmitInv, GoalInv, Admitting, BeginAttempt, jobVars, passVars, EnterKeys
<1>4. ASSUME NEW j \in Jobs, GetLock(j) PROVE GoalInv'
  BY <1>4 DEF TypeOK, AdmitInv, GoalInv, Admitting, GetLock, jobVars, passVars, EnterKeys
<1>5. ASSUME NEW j \in Jobs, Park(j) PROVE GoalInv'
  BY <1>5 DEF TypeOK, AdmitInv, GoalInv, Admitting, Park, jobVars, passVars
<1>6. ASSUME NEW j \in Jobs, WaitTimesOut(j) PROVE GoalInv'
  BY <1>6 DEF TypeOK, AdmitInv, GoalInv, Admitting, WaitTimesOut, jobVars, passVars
<1>7. ASSUME NEW j \in Jobs, HoldKey(j) PROVE GoalInv'
  BY <1>7 DEF TypeOK, AdmitInv, GoalInv, Admitting, HoldKey, jobVars, passVars, Raise, EndPass
<1>8. ASSUME NEW j \in Jobs, MakeRoomForKey(j) PROVE GoalInv'
  BY <1>8 DEF TypeOK, AdmitInv, GoalInv, Admitting, MakeRoomForKey, jobVars, passVars, MakeRoom
<1>9. ASSUME NEW j \in Jobs, MakeRoomForTransient(j) PROVE GoalInv'
  BY <1>9 DEF TypeOK, AdmitInv, GoalInv, Admitting, MakeRoomForTransient, jobVars, passVars, MakeRoom
<1>10. ASSUME NEW j \in Jobs, GrantWithoutTransient(j) PROVE GoalInv'
  BY <1>10 DEF TypeOK, AdmitInv, GoalInv, Admitting, GrantWithoutTransient, jobVars, passVars, Grant, EndPass
<1>11. ASSUME NEW j \in Jobs, EvictNext(j) PROVE GoalInv'
  BY <1>11 DEF TypeOK, AdmitInv, GoalInv, Admitting, EvictNext, jobVars, passVars
<1>12. ASSUME NEW j \in Jobs, ExecutorUnloads(j) PROVE GoalInv'
  BY <1>12 DEF TypeOK, AdmitInv, GoalInv, Admitting, ExecutorUnloads, jobVars, passVars
<1>13. ASSUME NEW j \in Jobs, UnloadReturns(j) PROVE GoalInv'
  BY <1>13 DEF TypeOK, AdmitInv, GoalInv, Admitting, UnloadReturns, jobVars, passVars, Raise, EndPass
<1>14. ASSUME NEW j \in Jobs, LoadKey(j) PROVE GoalInv'
  BY <1>14 DEF TypeOK, AdmitInv, GoalInv, Admitting, LoadKey, jobVars, passVars, RoomMade
<1>15. ASSUME NEW j \in Jobs, GrantWithTransient(j) PROVE GoalInv'
  BY <1>15 DEF TypeOK, AdmitInv, GoalInv, Admitting, GrantWithTransient, jobVars, passVars, Grant, EndPass, RoomMade
<1>16. ASSUME NEW j \in Jobs, BlockOnHeld(j) PROVE GoalInv'
  BY <1>16 DEF TypeOK, AdmitInv, GoalInv, Admitting, BlockOnHeld, jobVars, passVars, Block, EndPass
<1>17. ASSUME NEW j \in Jobs, ExecutorLoads(j) PROVE GoalInv'
  BY <1>17 DEF TypeOK, AdmitInv, GoalInv, Admitting, ExecutorLoads, jobVars, passVars
<1>18. ASSUME NEW j \in Jobs, LoadReturns(j) PROVE GoalInv'
  BY <1>18 DEF TypeOK, AdmitInv, GoalInv, Admitting, LoadReturns, jobVars, passVars, EndPass
<1>19. ASSUME NEW j \in Jobs, LoadRetries(j) PROVE GoalInv'
  BY <1>19 DEF TypeOK, AdmitInv, GoalInv, Admitting, LoadRetries, jobVars, passVars, MakeRoom
<1>20. ASSUME NEW j \in Jobs, LoadFails(j) PROVE GoalInv'
  BY <1>20 DEF TypeOK, AdmitInv, GoalInv, Admitting, LoadFails, jobVars, passVars, Raise, EndPass
<1>21. ASSUME NEW j \in Jobs, Release(j) PROVE GoalInv'
  BY <1>21 DEF TypeOK, AdmitInv, GoalInv, Admitting, Release, jobVars, passVars
<1>22. ASSUME NEW j \in Jobs, EnterBarrier(j) PROVE GoalInv'
  BY <1>22 DEF TypeOK, AdmitInv, GoalInv, Admitting, EnterBarrier, jobVars, passVars
<1>23. ASSUME NEW j \in Jobs, GetBarrier(j) PROVE GoalInv'
  BY <1>23 DEF TypeOK, AdmitInv, GoalInv, Admitting, GetBarrier, jobVars, passVars
<1>24. ASSUME NEW j \in Jobs, Rebind(j) PROVE GoalInv'
  BY <1>24 DEF TypeOK, AdmitInv, GoalInv, Admitting, Rebind, jobVars, passVars
<1> QED
  BY <1>0, <1>1, <1>2, <1>3, <1>4, <1>5, <1>6, <1>7, <1>8, <1>9, <1>10, <1>11, <1>12, <1>13, <1>14, <1>15, <1>16, <1>17, <1>18, <1>19, <1>20, <1>21, <1>22, <1>23, <1>24
  DEF Next, AcquireStep, ExecutorStep, RecoveryStep
-----------------------------------------------------------------------------
(* Every job holds each of its models at most once *)

\* Taking the head off a sequence without repetitions.
LEMMA TailOfDistinct ==
  ASSUME NEW S, NEW s \in Seq(S), s # <<>>, Distinct(s)
  PROVE  /\ Head(s) \in Range(s)
         /\ Range(Tail(s)) = Range(s) \ {Head(s)}
         /\ Distinct(Tail(s))
<1>1. /\ Head(s) = s[1] /\ Len(s) \in Nat \ {0} /\ DOMAIN s = 1..Len(s)
      /\ Tail(s) \in Seq(S) /\ Len(Tail(s)) = Len(s) - 1
      /\ \A i \in 1..Len(Tail(s)) : Tail(s)[i] = s[i + 1]
  BY HeadTailProperties
<1>2. DOMAIN Tail(s) = 1..(Len(s) - 1) /\ \A i \in 1..(Len(s) - 1) : Tail(s)[i] = s[i + 1]
  BY <1>1
<1>3. Head(s) \in Range(s)
  BY <1>1 DEF Range
<1>4. Distinct(Tail(s))
  BY <1>1, <1>2 DEF Distinct
<1>5. ASSUME NEW x \in Range(Tail(s)) PROVE x \in Range(s) /\ x # Head(s)
  BY <1>1, <1>2, <1>5 DEF Range, Distinct
<1>6. ASSUME NEW x \in Range(s), x # Head(s) PROVE x \in Range(Tail(s))
  <2>1. PICK i \in 1..Len(s) : x = s[i]
    BY <1>1, <1>6 DEF Range
  <2>2. i - 1 \in 1..(Len(s) - 1) /\ x = Tail(s)[i - 1]
    BY <1>1, <1>2, <1>6, <2>1
  <2> QED BY <1>2, <2>2 DEF Range
<1> QED BY <1>3, <1>4, <1>5, <1>6

LEMMA EmptyIsDistinct == Range(<<>>) = {} /\ Distinct(<<>>)
BY DEF Range, Distinct

\* The models of a need are distinct.
LEMMA NeedIsDistinct ==
  ASSUME NEW j \in Jobs, NEW n \in Needs[j] \cup {NoNeed} PROVE Distinct(n.models)
BY JobAssumption, EmptyIsDistinct DEF NoNeed, Distinct

\* A job keeps HoldsOK while none of the state it speaks of changes.
LEMMA HoldsFrame ==
  ASSUME HoldsInv, NEW k \in Jobs,
         need'[k] = need[k], keys'[k] = keys[k], held'[k] = held[k], rebound'[k] = rebound[k],
         pc'[k] \in Admitting <=> pc[k] \in Admitting,
         pc'[k] \in Leased <=> pc[k] \in Leased
  PROVE  HoldsOK(k)'
BY DEF HoldsInv, HoldsOK, Protected

\* A failed attempt leaves its job with nothing.
LEMMA HoldsAfterRaise ==
  ASSUME TypeOK, HoldsInv, NEW j \in Jobs, pc[j] \in Admitting, Raise(j)
  PROVE  HoldsInv'
<1>1. HoldsOK(j)'
  <2>1. rebound[j] = {}
    BY DEF HoldsInv, HoldsOK, Admitting, Leased
  <2>2. /\ need'[j] = NoNeed /\ held'[j] = {} /\ keys'[j] = <<>> /\ pc'[j] = "idle"
        /\ rebound' = rebound
    BY DEF TypeOK, Raise, RollBack
  <2> QED BY <2>1, <2>2, EmptyIsDistinct DEF HoldsOK, Protected, Admitting, Leased, NoNeed
<1>2. ASSUME NEW k \in Jobs, k # j PROVE HoldsOK(k)'
  BY <1>2, HoldsFrame DEF TypeOK, Raise, RollBack
<1> QED BY <1>1, <1>2 DEF HoldsInv

\* Entering the attempt: nothing is held, every model of the need is to come.
LEMMA HoldsAfterEnterKeys ==
  ASSUME TypeOK, HoldsInv, NEW j \in Jobs, pc[j] \notin Admitting \cup Leased, EnterKeys(j),
         UNCHANGED <<need, held, rebound>>
  PROVE  HoldsInv'
<1>1. HoldsOK(j)'
  <2>1. keys'[j] = need[j].models /\ pc'[j] = "keys"
    BY DEF TypeOK, EnterKeys
  <2>2. held[j] = {} /\ need[j] \in Needs[j] \cup {NoNeed} /\ rebound[j] = {}
    BY DEF HoldsInv, HoldsOK, Admitting, Leased
  <2> QED BY <2>1, <2>2, NeedIsDistinct DEF HoldsOK, Protected, Admitting, Leased
<1>2. ASSUME NEW k \in Jobs, k # j PROVE HoldsOK(k)'
  BY <1>2, HoldsFrame DEF TypeOK, EnterKeys
<1> QED BY <1>1, <1>2 DEF HoldsInv

LEMMA HoldsStep == ASSUME TypeOK, GoalInv, HoldsInv, [Next]_vars PROVE HoldsInv'
<1>0. CASE UNCHANGED vars
  BY <1>0, HoldsFrame DEF HoldsInv, vars, jobVars
<1>1. ASSUME NEW j \in Jobs, Acquire(j) PROVE HoldsInv'
  <2>1. HoldsOK(j)'
    <3>1. keys[j] = <<>> /\ held[j] = {} /\ rebound[j] = {}
      BY <1>1 DEF HoldsInv, HoldsOK, Acquire, Admitting, Leased
    <3>2. need'[j] \in Needs[j] /\ pc'[j] = "top" /\ UNCHANGED <<keys, held, rebound>>
      BY <1>1 DEF TypeOK, Acquire
    <3> QED BY <3>1, <3>2, EmptyIsDistinct DEF HoldsOK, Protected, Admitting, Leased
  <2>2. ASSUME NEW k \in Jobs, k # j PROVE HoldsOK(k)'
    BY <1>1, <2>2, HoldsFrame DEF TypeOK, Acquire
  <2> QED BY <2>1, <2>2 DEF HoldsInv
<1>2. ASSUME NEW j \in Jobs, DeadlinePasses(j) PROVE HoldsInv'
  BY <1>2, HoldsFrame DEF TypeOK, HoldsInv, DeadlinePasses, Admitting, Leased, jobVars
<1>3. ASSUME NEW j \in Jobs, BeginAttempt(j) PROVE HoldsInv'
  <2>1. CASE lock = NoJob
    BY <1>3, <2>1, HoldsAfterEnterKeys DEF BeginAttempt, Admitting, Leased
  <2>2. CASE lock # NoJob
    BY <1>3, <2>2, HoldsFrame DEF TypeOK, HoldsInv, BeginAttempt, Admitting, Leased
  <2> QED BY <2>1, <2>2
<1>4. ASSUME NEW j \in Jobs, GetLock(j) PROVE HoldsInv'
  BY <1>4, HoldsAfterEnterKeys DEF GetLock, Admitting, Leased
<1>5. ASSUME NEW j \in Jobs, Park(j) PROVE HoldsInv'
  BY <1>5, HoldsFrame DEF TypeOK, HoldsInv, Park, Admitting, Leased, jobVars
<1>6. ASSUME NEW j \in Jobs, WaitTimesOut(j) PROVE HoldsInv'
  BY <1>6, HoldsFrame DEF TypeOK, HoldsInv, WaitTimesOut, Admitting, Leased, jobVars
<1>7. ASSUME NEW j \in Jobs, HoldKey(j) PROVE HoldsInv'
  <2>1. CASE evicting[Head(keys[j])]
    BY <1>7, <2>1, HoldsAfterRaise DEF HoldKey, Admitting
  <2>2. CASE ~evicting[Head(keys[j])]
    <3> DEFINE m == Head(keys[j])
    <3>1. /\ keys'[j] = Tail(keys[j]) /\ held'[j] = held[j] \cup {m}
          /\ UNCHANGED <<pc, need, rebound>>
          /\ \A k \in Jobs \ {j} : keys'[k] = keys[k] /\ held'[k] = held[k]
      BY <1>7, <2>2 DEF TypeOK, HoldKey
    <3>2. /\ m \in Range(keys[j]) /\ Distinct(Tail(keys[j]))
          /\ Range(Tail(keys[j])) = Range(keys[j]) \ {m}
      BY <1>7, TailOfDistinct DEF TypeOK, HoldsInv, HoldsOK, HoldKey
    <3>3. HoldsOK(j)'
      BY <1>7, <3>1, <3>2 DEF HoldsInv, HoldsOK, Protected, HoldKey, Admitting, Leased
    <3>4. ASSUME NEW k \in Jobs, k # j PROVE HoldsOK(k)'
      BY <3>1, <3>4, HoldsFrame
    <3> QED BY <3>3, <3>4 DEF HoldsInv
  <2> QED BY <2>1, <2>2
<1>8. ASSUME NEW j \in Jobs, MakeRoomForKey(j) PROVE HoldsInv'
  BY <1>8, HoldsFrame DEF TypeOK, HoldsInv, MakeRoomForKey, Admitting, Leased, jobVars, MakeRoom
<1>9. ASSUME NEW j \in Jobs, MakeRoomForTransient(j) PROVE HoldsInv'
  BY <1>9, HoldsFrame DEF TypeOK, HoldsInv, MakeRoomForTransient, Admitting, Leased, jobVars, MakeRoom
<1>10. ASSUME NEW j \in Jobs, GrantWithoutTransient(j) PROVE HoldsInv'
  <2>1. HoldsOK(j)'
    <3>1. keys[j] = <<>> /\ rebound[j] = {} /\ pc'[j] = "leased"
      BY <1>10 DEF TypeOK, HoldsInv, HoldsOK, GrantWithoutTransient, Grant, Admitting, Leased
    <3> QED BY <1>10, <3>1 DEF HoldsInv, HoldsOK, Protected, GrantWithoutTransient, Admitting, Leased
  <2>2. ASSUME NEW k \in Jobs, k # j PROVE HoldsOK(k)'
    BY <1>10, <2>2, HoldsFrame DEF TypeOK, GrantWithoutTransient, Grant
  <2> QED BY <2>1, <2>2 DEF HoldsInv
<1>11. ASSUME NEW j \in Jobs, EvictNext(j) PROVE HoldsInv'
  BY <1>11, HoldsFrame DEF TypeOK, HoldsInv, EvictNext, Admitting, Leased, jobVars
<1>12. ASSUME NEW j \in Jobs, ExecutorUnloads(j) PROVE HoldsInv'
  BY <1>12, HoldsFrame DEF TypeOK, HoldsInv, ExecutorUnloads, Admitting, Leased, jobVars
<1>13. ASSUME NEW j \in Jobs, UnloadReturns(j) PROVE HoldsInv'
  <2>1. CASE io = "ok"
    BY <1>13, <2>1, HoldsFrame DEF TypeOK, HoldsInv, UnloadReturns, Admitting, Leased
  <2>2. CASE io = "error"
    BY <1>13, <2>2, HoldsAfterRaise DEF UnloadReturns, Admitting
  <2> QED BY <1>13, <2>1, <2>2 DEF UnloadReturns
<1>14. ASSUME NEW j \in Jobs, LoadKey(j) PROVE HoldsInv'
  BY <1>14, HoldsFrame DEF TypeOK, HoldsInv, LoadKey, Admitting, Leased, jobVars, RoomMade
<1>15. ASSUME NEW j \in Jobs, GrantWithTransient(j) PROVE HoldsInv'
  <2>1. HoldsOK(j)'
    <3>1. keys[j] = <<>> /\ rebound[j] = {} /\ pc'[j] = "leased"
      BY <1>15 DEF TypeOK, GoalInv, HoldsInv, HoldsOK, GrantWithTransient, RoomMade, Grant, Leased
    <3> QED BY <1>15, <3>1 DEF HoldsInv, HoldsOK, Protected, GrantWithTransient, Admitting, Leased
  <2>2. ASSUME NEW k \in Jobs, k # j PROVE HoldsOK(k)'
    BY <1>15, <2>2, HoldsFrame DEF TypeOK, GrantWithTransient, Grant
  <2> QED BY <2>1, <2>2 DEF HoldsInv
<1>16. ASSUME NEW j \in Jobs, BlockOnHeld(j) PROVE HoldsInv'
  <2>1. PICK x \in {"top", "parking", "parked"} : pc' = [pc EXCEPT ![j] = x]
    BY <1>16, BlockLeavesTo DEF BlockOnHeld
  <2>2. HoldsOK(j)'
    <3>1. rebound[j] = {}
      BY <1>16 DEF HoldsInv, HoldsOK, BlockOnHeld, RoomMade, Leased
    <3>2. held'[j] = {} /\ keys'[j] = <<>> /\ UNCHANGED <<need, rebound>>
      BY <1>16 DEF TypeOK, BlockOnHeld, Block, RollBack
    <3> QED BY <2>1, <3>1, <3>2, EmptyIsDistinct
            DEF TypeOK, HoldsInv, HoldsOK, Protected, Admitting, Leased
  <2>3. ASSUME NEW k \in Jobs, k # j PROVE HoldsOK(k)'
    BY <1>16, <2>3, HoldsFrame DEF TypeOK, BlockOnHeld, Block, RollBack
  <2> QED BY <2>2, <2>3 DEF HoldsInv
<1>17. ASSUME NEW j \in Jobs, ExecutorLoads(j) PROVE HoldsInv'
  BY <1>17, HoldsFrame DEF TypeOK, HoldsInv, ExecutorLoads, Admitting, Leased, jobVars
<1>18. ASSUME NEW j \in Jobs, LoadReturns(j) PROVE HoldsInv'
  BY <1>18, HoldsFrame DEF TypeOK, HoldsInv, LoadReturns, Admitting, Leased, jobVars
<1>19. ASSUME NEW j \in Jobs, LoadRetries(j) PROVE HoldsInv'
  BY <1>19, HoldsFrame DEF TypeOK, HoldsInv, LoadRetries, Admitting, Leased, jobVars, MakeRoom
<1>20. ASSUME NEW j \in Jobs, LoadFails(j) PROVE HoldsInv'
  BY <1>20, HoldsAfterRaise DEF LoadFails, Admitting
<1>21. ASSUME NEW j \in Jobs, Release(j) PROVE HoldsInv'
  <2>1. HoldsOK(j)'
    <3>1. keys[j] = <<>>
      BY <1>21 DEF HoldsInv, HoldsOK, Release, Admitting
    <3>2. /\ need'[j] = NoNeed /\ held'[j] = {} /\ rebound'[j] = {} /\ pc'[j] = "idle"
          /\ keys' = keys
      BY <1>21 DEF TypeOK, Release
    <3> QED BY <3>1, <3>2, EmptyIsDistinct DEF HoldsOK, Admitting, Leased
  <2>2. ASSUME NEW k \in Jobs, k # j PROVE HoldsOK(k)'
    BY <1>21, <2>2, HoldsFrame DEF TypeOK, Release, Admitting, Leased
  <2> QED BY <2>1, <2>2 DEF HoldsInv
<1>22. ASSUME NEW j \in Jobs, EnterBarrier(j) PROVE HoldsInv'
  BY <1>22, HoldsFrame DEF TypeOK, HoldsInv, EnterBarrier, Admitting, Leased, jobVars
<1>23. ASSUME NEW j \in Jobs, GetBarrier(j) PROVE HoldsInv'
  BY <1>23, HoldsFrame DEF TypeOK, HoldsInv, GetBarrier, Admitting, Leased, jobVars
<1>24. ASSUME NEW j \in Jobs, Rebind(j) PROVE HoldsInv'
  <2>1. HoldsOK(j)'
    <3>1. PICK H \in Handles[j] : rebound' = [rebound EXCEPT ![j] = @ \cup (held[j] \cap H)]
      BY <1>24 DEF Rebind
    <3>2. rebound'[j] \subseteq UNION Handles[j]
      BY <3>1 DEF TypeOK, HoldsInv, HoldsOK
    <3> QED BY <1>24, <3>2 DEF TypeOK, HoldsInv, HoldsOK, Protected, Rebind, Admitting, Leased
  <2>2. ASSUME NEW k \in Jobs, k # j PROVE HoldsOK(k)'
    BY <1>24, <2>2, HoldsFrame DEF TypeOK, Rebind
  <2> QED BY <2>1, <2>2 DEF HoldsInv
<1> QED
  BY <1>0, <1>1, <1>2, <1>3, <1>4, <1>5, <1>6, <1>7, <1>8, <1>9, <1>10, <1>11, <1>12, <1>13, <1>14, <1>15, <1>16, <1>17, <1>18, <1>19, <1>20, <1>21, <1>22, <1>23, <1>24
  DEF Next, AcquireStep, ExecutorStep, RecoveryStep
-----------------------------------------------------------------------------
(* What a pass reserved *)

LEMMA PassStep == ASSUME TypeOK, AdmitInv, PassInv, [Next]_vars PROVE PassInv'
<1>0. CASE UNCHANGED vars
  BY <1>0 DEF PassInv, vars, jobVars, modelVars, passVars
<1>1. ASSUME NEW j \in Jobs, Acquire(j) PROVE PassInv'
  BY <1>1 DEF TypeOK, AdmitInv, PassInv, Admitting, Acquire, jobVars, modelVars, passVars
<1>2. ASSUME NEW j \in Jobs, DeadlinePasses(j) PROVE PassInv'
  BY <1>2 DEF TypeOK, AdmitInv, PassInv, Admitting, DeadlinePasses, jobVars, modelVars, passVars
<1>3. ASSUME NEW j \in Jobs, BeginAttempt(j) PROVE PassInv'
  BY <1>3 DEF TypeOK, AdmitInv, PassInv, Admitting, BeginAttempt, jobVars, modelVars, passVars, EnterKeys
<1>4. ASSUME NEW j \in Jobs, GetLock(j) PROVE PassInv'
  BY <1>4 DEF TypeOK, AdmitInv, PassInv, Admitting, GetLock, jobVars, modelVars, passVars, EnterKeys
<1>5. ASSUME NEW j \in Jobs, Park(j) PROVE PassInv'
  BY <1>5 DEF TypeOK, AdmitInv, PassInv, Admitting, Park, jobVars, modelVars, passVars
<1>6. ASSUME NEW j \in Jobs, WaitTimesOut(j) PROVE PassInv'
  BY <1>6 DEF TypeOK, AdmitInv, PassInv, Admitting, WaitTimesOut, jobVars, modelVars, passVars
<1>7. ASSUME NEW j \in Jobs, HoldKey(j) PROVE PassInv'
  BY <1>7 DEF TypeOK, AdmitInv, PassInv, Admitting, HoldKey, jobVars, modelVars, passVars, Raise, EndPass
<1>8. ASSUME NEW j \in Jobs, MakeRoomForKey(j) PROVE PassInv'
  BY <1>8 DEF TypeOK, AdmitInv, PassInv, Admitting, MakeRoomForKey, jobVars, modelVars, passVars, MakeRoom, Evictable
<1>9. ASSUME NEW j \in Jobs, MakeRoomForTransient(j) PROVE PassInv'
  BY <1>9 DEF TypeOK, AdmitInv, PassInv, Admitting, MakeRoomForTransient, jobVars, modelVars, passVars, MakeRoom, Evictable
<1>10. ASSUME NEW j \in Jobs, GrantWithoutTransient(j) PROVE PassInv'
  BY <1>10 DEF TypeOK, AdmitInv, PassInv, Admitting, GrantWithoutTransient, jobVars, modelVars, passVars, Grant, EndPass
<1>11. ASSUME NEW j \in Jobs, EvictNext(j) PROVE PassInv'
  BY <1>11 DEF TypeOK, AdmitInv, PassInv, Admitting, EvictNext, jobVars, modelVars, passVars
<1>12. ASSUME NEW j \in Jobs, ExecutorUnloads(j) PROVE PassInv'
  BY <1>12 DEF TypeOK, AdmitInv, PassInv, Admitting, ExecutorUnloads, jobVars, modelVars, passVars
<1>13. ASSUME NEW j \in Jobs, UnloadReturns(j) PROVE PassInv'
  BY <1>13 DEF TypeOK, AdmitInv, PassInv, Admitting, UnloadReturns, jobVars, modelVars, passVars, Raise, EndPass
<1>14. ASSUME NEW j \in Jobs, LoadKey(j) PROVE PassInv'
  BY <1>14 DEF TypeOK, AdmitInv, PassInv, Admitting, LoadKey, jobVars, modelVars, passVars, RoomMade
<1>15. ASSUME NEW j \in Jobs, GrantWithTransient(j) PROVE PassInv'
  BY <1>15 DEF TypeOK, AdmitInv, PassInv, Admitting, GrantWithTransient, jobVars, modelVars, passVars, Grant, EndPass, RoomMade
<1>16. ASSUME NEW j \in Jobs, BlockOnHeld(j) PROVE PassInv'
  BY <1>16 DEF TypeOK, AdmitInv, PassInv, Admitting, BlockOnHeld, jobVars, modelVars, passVars, Block, EndPass
<1>17. ASSUME NEW j \in Jobs, ExecutorLoads(j) PROVE PassInv'
  BY <1>17 DEF TypeOK, AdmitInv, PassInv, Admitting, ExecutorLoads, jobVars, modelVars, passVars
<1>18. ASSUME NEW j \in Jobs, LoadReturns(j) PROVE PassInv'
  BY <1>18 DEF TypeOK, AdmitInv, PassInv, Admitting, LoadReturns, jobVars, modelVars, passVars, EndPass
<1>19. ASSUME NEW j \in Jobs, LoadRetries(j) PROVE PassInv'
  BY <1>19 DEF TypeOK, AdmitInv, PassInv, Admitting, LoadRetries, jobVars, modelVars, passVars, MakeRoom, Evictable
<1>20. ASSUME NEW j \in Jobs, LoadFails(j) PROVE PassInv'
  BY <1>20 DEF TypeOK, AdmitInv, PassInv, Admitting, LoadFails, jobVars, modelVars, passVars, Raise, EndPass
<1>21. ASSUME NEW j \in Jobs, Release(j) PROVE PassInv'
  BY <1>21 DEF TypeOK, AdmitInv, PassInv, Admitting, Release, jobVars, modelVars, passVars
<1>22. ASSUME NEW j \in Jobs, EnterBarrier(j) PROVE PassInv'
  BY <1>22 DEF TypeOK, AdmitInv, PassInv, Admitting, EnterBarrier, jobVars, modelVars, passVars
<1>23. ASSUME NEW j \in Jobs, GetBarrier(j) PROVE PassInv'
  BY <1>23 DEF TypeOK, AdmitInv, PassInv, Admitting, GetBarrier, jobVars, modelVars, passVars
<1>24. ASSUME NEW j \in Jobs, Rebind(j) PROVE PassInv'
  BY <1>24 DEF TypeOK, AdmitInv, PassInv, Admitting, Rebind, jobVars, modelVars, passVars
<1> QED
  BY <1>0, <1>1, <1>2, <1>3, <1>4, <1>5, <1>6, <1>7, <1>8, <1>9, <1>10, <1>11, <1>12, <1>13, <1>14, <1>15, <1>16, <1>17, <1>18, <1>19, <1>20, <1>21, <1>22, <1>23, <1>24
  DEF Next, AcquireStep, ExecutorStep, RecoveryStep

LEMMA SparedStep ==
  ASSUME TypeOK, AdmitInv, OwnModelsSpared, [Next]_vars PROVE OwnModelsSpared'
<1>0. CASE UNCHANGED vars
  BY <1>0 DEF OwnModelsSpared, Protected, vars, jobVars, passVars
<1>1. ASSUME NEW j \in Jobs, Acquire(j) PROVE OwnModelsSpared'
  BY <1>1 DEF TypeOK, AdmitInv, OwnModelsSpared, Protected, Admitting, Acquire, jobVars, passVars
<1>2. ASSUME NEW j \in Jobs, DeadlinePasses(j) PROVE OwnModelsSpared'
  BY <1>2 DEF TypeOK, AdmitInv, OwnModelsSpared, Protected, Admitting, DeadlinePasses, jobVars, passVars
<1>3. ASSUME NEW j \in Jobs, BeginAttempt(j) PROVE OwnModelsSpared'
  BY <1>3 DEF TypeOK, AdmitInv, OwnModelsSpared, Protected, Admitting, BeginAttempt, jobVars, passVars, EnterKeys
<1>4. ASSUME NEW j \in Jobs, GetLock(j) PROVE OwnModelsSpared'
  BY <1>4 DEF TypeOK, AdmitInv, OwnModelsSpared, Protected, Admitting, GetLock, jobVars, passVars, EnterKeys
<1>5. ASSUME NEW j \in Jobs, Park(j) PROVE OwnModelsSpared'
  BY <1>5 DEF TypeOK, AdmitInv, OwnModelsSpared, Protected, Admitting, Park, jobVars, passVars
<1>6. ASSUME NEW j \in Jobs, WaitTimesOut(j) PROVE OwnModelsSpared'
  BY <1>6 DEF TypeOK, AdmitInv, OwnModelsSpared, Protected, Admitting, WaitTimesOut, jobVars, passVars
<1>7. ASSUME NEW j \in Jobs, HoldKey(j) PROVE OwnModelsSpared'
  BY <1>7 DEF TypeOK, AdmitInv, OwnModelsSpared, Protected, Admitting, HoldKey, jobVars, passVars, Raise, EndPass
<1>8. ASSUME NEW j \in Jobs, MakeRoomForKey(j) PROVE OwnModelsSpared'
  BY <1>8 DEF TypeOK, AdmitInv, OwnModelsSpared, Protected, Admitting, MakeRoomForKey, jobVars, passVars, MakeRoom, Evictable
<1>9. ASSUME NEW j \in Jobs, MakeRoomForTransient(j) PROVE OwnModelsSpared'
  BY <1>9 DEF TypeOK, AdmitInv, OwnModelsSpared, Protected, Admitting, MakeRoomForTransient, jobVars, passVars, MakeRoom, Evictable
<1>10. ASSUME NEW j \in Jobs, GrantWithoutTransient(j) PROVE OwnModelsSpared'
  BY <1>10 DEF TypeOK, AdmitInv, OwnModelsSpared, Protected, Admitting, GrantWithoutTransient, jobVars, passVars, Grant, EndPass
<1>11. ASSUME NEW j \in Jobs, EvictNext(j) PROVE OwnModelsSpared'
  BY <1>11 DEF TypeOK, AdmitInv, OwnModelsSpared, Protected, Admitting, EvictNext, jobVars, passVars
<1>12. ASSUME NEW j \in Jobs, ExecutorUnloads(j) PROVE OwnModelsSpared'
  BY <1>12 DEF TypeOK, AdmitInv, OwnModelsSpared, Protected, Admitting, ExecutorUnloads, jobVars, passVars
<1>13. ASSUME NEW j \in Jobs, UnloadReturns(j) PROVE OwnModelsSpared'
  <2>1. CASE io = "ok"
    <3>1. /\ reserved' \subseteq reserved /\ need' = need
          /\ pc' = [pc EXCEPT ![j] = "evict"] /\ pc[j] = "unloading"
      BY <1>13, <2>1 DEF UnloadReturns
    <3> QED BY <3>1 DEF TypeOK, OwnModelsSpared, Protected
  <2>2. CASE io = "error"
    BY <1>13, <2>2 DEF UnloadReturns, Raise, EndPass, OwnModelsSpared
  <2> QED BY <1>13, <2>1, <2>2 DEF UnloadReturns
<1>14. ASSUME NEW j \in Jobs, LoadKey(j) PROVE OwnModelsSpared'
  BY <1>14 DEF TypeOK, AdmitInv, OwnModelsSpared, Protected, Admitting, LoadKey, jobVars, passVars, RoomMade
<1>15. ASSUME NEW j \in Jobs, GrantWithTransient(j) PROVE OwnModelsSpared'
  BY <1>15 DEF TypeOK, AdmitInv, OwnModelsSpared, Protected, Admitting, GrantWithTransient, jobVars, passVars, Grant, EndPass, RoomMade
<1>16. ASSUME NEW j \in Jobs, BlockOnHeld(j) PROVE OwnModelsSpared'
  BY <1>16 DEF TypeOK, AdmitInv, OwnModelsSpared, Protected, Admitting, BlockOnHeld, jobVars, passVars, Block, EndPass
<1>17. ASSUME NEW j \in Jobs, ExecutorLoads(j) PROVE OwnModelsSpared'
  BY <1>17 DEF TypeOK, AdmitInv, OwnModelsSpared, Protected, Admitting, ExecutorLoads, jobVars, passVars
<1>18. ASSUME NEW j \in Jobs, LoadReturns(j) PROVE OwnModelsSpared'
  BY <1>18 DEF TypeOK, AdmitInv, OwnModelsSpared, Protected, Admitting, LoadReturns, jobVars, passVars, EndPass
<1>19. ASSUME NEW j \in Jobs, LoadRetries(j) PROVE OwnModelsSpared'
  BY <1>19 DEF TypeOK, AdmitInv, OwnModelsSpared, Protected, Admitting, LoadRetries, jobVars, passVars, MakeRoom, Evictable
<1>20. ASSUME NEW j \in Jobs, LoadFails(j) PROVE OwnModelsSpared'
  BY <1>20 DEF TypeOK, AdmitInv, OwnModelsSpared, Protected, Admitting, LoadFails, jobVars, passVars, Raise, EndPass
<1>21. ASSUME NEW j \in Jobs, Release(j) PROVE OwnModelsSpared'
  BY <1>21 DEF TypeOK, AdmitInv, OwnModelsSpared, Protected, Admitting, Release, jobVars, passVars
<1>22. ASSUME NEW j \in Jobs, EnterBarrier(j) PROVE OwnModelsSpared'
  BY <1>22 DEF TypeOK, AdmitInv, OwnModelsSpared, Protected, Admitting, EnterBarrier, jobVars, passVars
<1>23. ASSUME NEW j \in Jobs, GetBarrier(j) PROVE OwnModelsSpared'
  BY <1>23 DEF TypeOK, AdmitInv, OwnModelsSpared, Protected, Admitting, GetBarrier, jobVars, passVars
<1>24. ASSUME NEW j \in Jobs, Rebind(j) PROVE OwnModelsSpared'
  BY <1>24 DEF TypeOK, AdmitInv, OwnModelsSpared, Protected, Admitting, Rebind, jobVars, passVars
<1> QED
  BY <1>0, <1>1, <1>2, <1>3, <1>4, <1>5, <1>6, <1>7, <1>8, <1>9, <1>10, <1>11, <1>12, <1>13, <1>14, <1>15, <1>16, <1>17, <1>18, <1>19, <1>20, <1>21, <1>22, <1>23, <1>24
  DEF Next, AcquireStep, ExecutorStep, RecoveryStep
-----------------------------------------------------------------------------
(* The hold counts *)

LEMMA HoldersAreFinite == ASSUME NEW m PROVE IsFiniteSet(HoldersOf(m))
BY JobAssumption, FS_Subset DEF HoldersOf

\* One holder fewer, one holder more.
LEMMA CountWithout ==
  ASSUME NEW S, IsFiniteSet(S), NEW j \in S
  PROVE  Cardinality(S) \in Nat /\ Cardinality(S) > 0 /\ Cardinality(S \ {j}) = Cardinality(S) - 1
<1>1. Cardinality(S \ {j}) = Cardinality(S) - 1 /\ IsFiniteSet(S \ {j})
  BY FS_RemoveElement
<1>2. Cardinality(S) \in Nat /\ Cardinality(S \ {j}) \in Nat
  BY <1>1, FS_CardinalityType
<1> QED BY <1>1, <1>2

LEMMA CountWith ==
  ASSUME NEW S, IsFiniteSet(S), NEW j, j \notin S
  PROVE  Cardinality(S \cup {j}) = Cardinality(S) + 1
BY FS_AddElement

\* A model some job recreates is held by no other job.
LEMMA HandlesAreOwn ==
  ASSUME HoldsInv, NEW j \in Jobs, NEW H \in Handles[j], NEW m \in H,
         NEW k \in Jobs, k # j
  PROVE  m \notin held[k]
<1>1. held[k] \subseteq Range(need[k].models) /\ need[k] \in Needs[k] \cup {NoNeed}
  BY DEF HoldsInv, HoldsOK, Protected
<1>2. Range(NoNeed.models) = {}
  BY EmptyIsDistinct DEF NoNeed
<1> QED BY <1>1, <1>2, HandleAssumption

\* Nothing changes for the counts while counts and holds stay.
LEMMA AccountingFrame ==
  ASSUME HoldAccounting, UNCHANGED <<opCount, held, rebound>> PROVE HoldAccounting'
BY DEF HoldAccounting, HoldersOf

\* Ending the holds of an attempt takes exactly its job off the holders.
LEMMA RollBackCounts ==
  ASSUME TypeOK, HoldsInv, HoldAccounting, NEW j \in Jobs, pc[j] \in Admitting,
         RollBack(j), rebound' = rebound
  PROVE  HoldAccounting'
<1>1. rebound[j] = {}
  BY DEF HoldsInv, HoldsOK, Admitting, Leased
<1>2. ASSUME NEW m \in Models, m \in held[j] PROVE opCount'[m] = Cardinality(HoldersOf(m)')
  <2>1. HoldersOf(m)' = HoldersOf(m) \ {j} /\ j \in HoldersOf(m)
    BY <1>1, <1>2 DEF TypeOK, HoldersOf, RollBack
  <2>2. opCount[m] = Cardinality(HoldersOf(m))
    BY DEF HoldAccounting
  <2>3. opCount[m] > 0 /\ Cardinality(HoldersOf(m) \ {j}) = opCount[m] - 1
    BY <2>1, <2>2, HoldersAreFinite, CountWithout
  <2>4. opCount'[m] = IF opCount[m] > 0 THEN opCount[m] - 1 ELSE opCount[m]
    BY <1>2 DEF RollBack, EndOperations
  <2> QED BY <2>1, <2>3, <2>4
<1>3. ASSUME NEW m \in Models, m \notin held[j] PROVE opCount'[m] = Cardinality(HoldersOf(m)')
  <2>1. HoldersOf(m)' = HoldersOf(m)
    BY <1>3 DEF TypeOK, HoldersOf, RollBack
  <2>2. opCount'[m] = opCount[m]
    BY <1>3 DEF RollBack, EndOperations
  <2> QED BY <2>1, <2>2 DEF HoldAccounting
<1> QED BY <1>2, <1>3 DEF HoldAccounting

LEMMA AccountingStep ==
  ASSUME TypeOK, HoldsInv, HoldAccounting, [Next]_vars PROVE HoldAccounting'
<1>0. CASE UNCHANGED vars
  BY <1>0, AccountingFrame DEF vars, jobVars, modelVars
<1>1. ASSUME NEW j \in Jobs, Acquire(j) PROVE HoldAccounting'
  BY <1>1, AccountingFrame DEF Acquire, jobVars, modelVars
<1>2. ASSUME NEW j \in Jobs, DeadlinePasses(j) PROVE HoldAccounting'
  BY <1>2, AccountingFrame DEF DeadlinePasses, jobVars, modelVars
<1>3. ASSUME NEW j \in Jobs, BeginAttempt(j) PROVE HoldAccounting'
  BY <1>3, AccountingFrame DEF BeginAttempt, jobVars, modelVars
<1>4. ASSUME NEW j \in Jobs, GetLock(j) PROVE HoldAccounting'
  BY <1>4, AccountingFrame DEF GetLock, jobVars, modelVars
<1>5. ASSUME NEW j \in Jobs, Park(j) PROVE HoldAccounting'
  BY <1>5, AccountingFrame DEF Park, jobVars, modelVars
<1>6. ASSUME NEW j \in Jobs, WaitTimesOut(j) PROVE HoldAccounting'
  BY <1>6, AccountingFrame DEF WaitTimesOut, jobVars, modelVars
<1>7. ASSUME NEW j \in Jobs, HoldKey(j) PROVE HoldAccounting'
  <2>1. CASE evicting[Head(keys[j])]
    BY <1>7, <2>1, RollBackCounts DEF HoldKey, Raise, Admitting
  <2>2. CASE ~evicting[Head(keys[j])]
    <3>1. PICK h \in Models : h = Head(keys[j])
      BY <1>7, HeadTailProperties DEF TypeOK, HoldKey
    <3>2. /\ opCount' = [opCount EXCEPT ![h] = @ + 1]
          /\ held' = [held EXCEPT ![j] = @ \cup {h}]
          /\ rebound' = rebound
      BY <1>7, <2>2, <3>1 DEF HoldKey
    <3>3. h \notin held[j] /\ rebound[j] = {}
      BY <1>7, <3>1, TailOfDistinct DEF TypeOK, HoldsInv, HoldsOK, HoldKey, Admitting, Leased
    <3>4. opCount'[h] = Cardinality(HoldersOf(h)')
      <4>1. HoldersOf(h)' = HoldersOf(h) \cup {j} /\ j \notin HoldersOf(h)
        BY <3>2, <3>3 DEF TypeOK, HoldersOf
      <4>2. Cardinality(HoldersOf(h)') = Cardinality(HoldersOf(h)) + 1
        BY <4>1, HoldersAreFinite, CountWith
      <4> QED BY <3>2, <4>2 DEF TypeOK, HoldAccounting
    <3>5. ASSUME NEW m \in Models, m # h PROVE opCount'[m] = Cardinality(HoldersOf(m)')
      <4>1. HoldersOf(m)' = HoldersOf(m)
        BY <3>2, <3>5 DEF TypeOK, HoldersOf
      <4> QED BY <3>2, <3>5, <4>1 DEF TypeOK, HoldAccounting
    <3> QED BY <3>4, <3>5 DEF HoldAccounting
  <2> QED BY <2>1, <2>2
<1>8. ASSUME NEW j \in Jobs, MakeRoomForKey(j) PROVE HoldAccounting'
  BY <1>8, AccountingFrame DEF MakeRoomForKey, jobVars, modelVars
<1>9. ASSUME NEW j \in Jobs, MakeRoomForTransient(j) PROVE HoldAccounting'
  BY <1>9, AccountingFrame DEF MakeRoomForTransient, jobVars, modelVars
<1>10. ASSUME NEW j \in Jobs, GrantWithoutTransient(j) PROVE HoldAccounting'
  BY <1>10, AccountingFrame DEF GrantWithoutTransient, jobVars, modelVars
<1>11. ASSUME NEW j \in Jobs, EvictNext(j) PROVE HoldAccounting'
  BY <1>11, AccountingFrame DEF EvictNext, jobVars, modelVars
<1>12. ASSUME NEW j \in Jobs, ExecutorUnloads(j) PROVE HoldAccounting'
  BY <1>12, AccountingFrame DEF ExecutorUnloads, jobVars, modelVars
<1>13. ASSUME NEW j \in Jobs, UnloadReturns(j) PROVE HoldAccounting'
  <2>1. CASE io = "ok"
    BY <1>13, <2>1, AccountingFrame DEF UnloadReturns
  <2>2. CASE io = "error"
    BY <1>13, <2>2, RollBackCounts DEF UnloadReturns, Raise, Admitting
  <2> QED BY <1>13, <2>1, <2>2 DEF UnloadReturns
<1>14. ASSUME NEW j \in Jobs, LoadKey(j) PROVE HoldAccounting'
  BY <1>14, AccountingFrame DEF LoadKey, jobVars, modelVars
<1>15. ASSUME NEW j \in Jobs, GrantWithTransient(j) PROVE HoldAccounting'
  BY <1>15, AccountingFrame DEF GrantWithTransient, jobVars, modelVars
<1>16. ASSUME NEW j \in Jobs, BlockOnHeld(j) PROVE HoldAccounting'
  BY <1>16, RollBackCounts DEF BlockOnHeld, RoomMade, Block, Admitting
<1>17. ASSUME NEW j \in Jobs, ExecutorLoads(j) PROVE HoldAccounting'
  BY <1>17, AccountingFrame DEF ExecutorLoads, jobVars, modelVars
<1>18. ASSUME NEW j \in Jobs, LoadReturns(j) PROVE HoldAccounting'
  BY <1>18, AccountingFrame DEF LoadReturns, jobVars, modelVars
<1>19. ASSUME NEW j \in Jobs, LoadRetries(j) PROVE HoldAccounting'
  BY <1>19, AccountingFrame DEF LoadRetries, jobVars, modelVars
<1>20. ASSUME NEW j \in Jobs, LoadFails(j) PROVE HoldAccounting'
  BY <1>20, RollBackCounts DEF LoadFails, Raise, Admitting
<1>21. ASSUME NEW j \in Jobs, Release(j) PROVE HoldAccounting'
  <2>1. /\ held' = [held EXCEPT ![j] = {}] /\ rebound' = [rebound EXCEPT ![j] = {}]
        /\ \A m \in Models :
            opCount'[m] = IF m \in held[j] /\ opCount[m] > 0 THEN opCount[m] - 1 ELSE opCount[m]
    BY <1>21 DEF Release, EndOperations
  <2>2. ASSUME NEW m \in Models, m \in held[j] \ rebound[j]
        PROVE  opCount'[m] = Cardinality(HoldersOf(m)')
    <3>1. HoldersOf(m)' = HoldersOf(m) \ {j} /\ j \in HoldersOf(m)
      BY <2>1, <2>2 DEF TypeOK, HoldersOf
    <3>2. opCount[m] = Cardinality(HoldersOf(m))
      BY DEF HoldAccounting
    <3>3. opCount[m] > 0 /\ Cardinality(HoldersOf(m) \ {j}) = opCount[m] - 1
      BY <3>1, <3>2, HoldersAreFinite, CountWithout
    <3> QED BY <2>1, <2>2, <3>1, <3>3
  <2>3. ASSUME NEW m \in Models, m \in held[j] \cap rebound[j]
        PROVE  opCount'[m] = Cardinality(HoldersOf(m)')
    <3>1. HoldersOf(m) = {} /\ HoldersOf(m)' = {}
      BY <2>1, <2>3, HandlesAreOwn DEF TypeOK, HoldersOf, HoldsInv, HoldsOK
    <3>2. opCount[m] = 0
      BY <3>1, FS_EmptySet DEF HoldAccounting
    <3> QED BY <2>1, <3>1, <3>2, FS_EmptySet
  <2>4. ASSUME NEW m \in Models, m \notin held[j]
        PROVE  opCount'[m] = Cardinality(HoldersOf(m)')
    <3>1. HoldersOf(m)' = HoldersOf(m)
      BY <2>1, <2>4 DEF TypeOK, HoldersOf
    <3> QED BY <2>1, <2>4, <3>1 DEF HoldAccounting
  <2> QED BY <2>2, <2>3, <2>4 DEF HoldAccounting
<1>22. ASSUME NEW j \in Jobs, EnterBarrier(j) PROVE HoldAccounting'
  BY <1>22, AccountingFrame DEF EnterBarrier, jobVars, modelVars
<1>23. ASSUME NEW j \in Jobs, GetBarrier(j) PROVE HoldAccounting'
  BY <1>23, AccountingFrame DEF GetBarrier, jobVars, modelVars
<1>24. ASSUME NEW j \in Jobs, Rebind(j) PROVE HoldAccounting'
  <2>1. PICK H \in Handles[j] :
            /\ opCount' = [m \in Models |-> IF m \in H THEN 0 ELSE opCount[m]]
            /\ rebound' = [rebound EXCEPT ![j] = @ \cup (held[j] \cap H)]
            /\ held' = held
    BY <1>24 DEF Rebind
  <2>2. ASSUME NEW m \in Models, m \in H PROVE opCount'[m] = Cardinality(HoldersOf(m)')
    <3>1. HoldersOf(m)' = {}
      BY <2>1, <2>2, HandlesAreOwn DEF TypeOK, HoldersOf
    <3> QED BY <2>1, <2>2, <3>1, FS_EmptySet
  <2>3. ASSUME NEW m \in Models, m \notin H PROVE opCount'[m] = Cardinality(HoldersOf(m)')
    <3>1. HoldersOf(m)' = HoldersOf(m)
      BY <2>1, <2>3 DEF TypeOK, HoldersOf
    <3> QED BY <2>1, <2>3, <3>1 DEF HoldAccounting
  <2> QED BY <2>2, <2>3 DEF HoldAccounting
<1> QED
  BY <1>0, <1>1, <1>2, <1>3, <1>4, <1>5, <1>6, <1>7, <1>8, <1>9, <1>10, <1>11, <1>12, <1>13, <1>14, <1>15, <1>16, <1>17, <1>18, <1>19, <1>20, <1>21, <1>22, <1>23, <1>24
  DEF Next, AcquireStep, ExecutorStep, RecoveryStep
-----------------------------------------------------------------------------
(* A held model stays resident *)

\* No new holder, and no change of the flags of a held model.
LEMMA ResidentFrame ==
  ASSUME HeldStaysResident,
         \A m \in Models :
            /\ HoldersOf(m)' \subseteq HoldersOf(m)
            /\ HoldersOf(m) # {} => (loaded[m] => loaded'[m]) /\ (~evicting[m] => ~evicting'[m])
  PROVE  HeldStaysResident'
BY DEF HeldStaysResident

LEMMA HoldersUnchanged ==
  ASSUME UNCHANGED <<held, rebound>>, NEW m \in Models PROVE HoldersOf(m)' = HoldersOf(m)
BY DEF HoldersOf

\* Only idle models get reserved.
LEMMA ResidentAfterMakeRoom ==
  ASSUME TypeOK, HoldAccounting, HeldStaysResident, NEW j \in Jobs,
         NEW bytes, NEW aggressive, NEW why, MakeRoom(j, bytes, aggressive, why),
         UNCHANGED <<held, rebound, loaded>>
  PROVE  HeldStaysResident'
<1>1. ASSUME NEW m \in Models, HoldersOf(m) # {} PROVE ~evicting[m] => ~evicting'[m]
  <2>1. opCount[m] # 0
    BY <1>1, HoldersAreFinite, FS_EmptySet DEF HoldAccounting
  <2> QED BY <2>1 DEF TypeOK, MakeRoom, Evictable
<1> QED BY <1>1, HoldersUnchanged, ResidentFrame

\* Whoever rolls back only loses holds.
LEMMA ResidentAfterRollBack ==
  ASSUME TypeOK, HeldStaysResident, NEW j \in Jobs, RollBack(j), UNCHANGED <<rebound, loaded>>,
         \A m \in Models : ~evicting[m] => ~evicting'[m]
  PROVE  HeldStaysResident'
<1>1. \A m \in Models : HoldersOf(m)' \subseteq HoldersOf(m)
  BY DEF TypeOK, HoldersOf, RollBack
<1> QED BY <1>1, ResidentFrame

LEMMA ResidentStep ==
  ASSUME TypeOK, AdmitInv, HoldsInv, PassInv, HoldAccounting, HeldStaysResident, [Next]_vars
  PROVE  HeldStaysResident'
<1>0. CASE UNCHANGED vars
  BY <1>0, ResidentFrame, HoldersUnchanged DEF vars, jobVars, modelVars
<1>1. ASSUME NEW j \in Jobs, Acquire(j) PROVE HeldStaysResident'
  BY <1>1, ResidentFrame, HoldersUnchanged DEF Acquire, jobVars, modelVars
<1>2. ASSUME NEW j \in Jobs, DeadlinePasses(j) PROVE HeldStaysResident'
  BY <1>2, ResidentFrame, HoldersUnchanged DEF DeadlinePasses, jobVars, modelVars
<1>3. ASSUME NEW j \in Jobs, BeginAttempt(j) PROVE HeldStaysResident'
  BY <1>3, ResidentFrame, HoldersUnchanged DEF BeginAttempt, jobVars, modelVars
<1>4. ASSUME NEW j \in Jobs, GetLock(j) PROVE HeldStaysResident'
  BY <1>4, ResidentFrame, HoldersUnchanged DEF GetLock, jobVars, modelVars
<1>5. ASSUME NEW j \in Jobs, Park(j) PROVE HeldStaysResident'
  BY <1>5, ResidentFrame, HoldersUnchanged DEF Park, jobVars, modelVars
<1>6. ASSUME NEW j \in Jobs, WaitTimesOut(j) PROVE HeldStaysResident'
  BY <1>6, ResidentFrame, HoldersUnchanged DEF WaitTimesOut, jobVars, modelVars
<1>7. ASSUME NEW j \in Jobs, HoldKey(j) PROVE HeldStaysResident'
  <2>1. CASE evicting[Head(keys[j])]
    BY <1>7, <2>1, ResidentAfterRollBack DEF HoldKey, Raise
  <2>2. CASE ~evicting[Head(keys[j])]
    <3>1. /\ held' = [held EXCEPT ![j] = @ \cup {Head(keys[j])}]
          /\ UNCHANGED <<rebound, loaded, evicting>>
          /\ loaded[Head(keys[j])]
      BY <1>7, <2>2 DEF HoldKey
    <3>2. \A m \in Models : m # Head(keys[j]) => HoldersOf(m)' = HoldersOf(m)
      BY <3>1 DEF TypeOK, HoldersOf
    <3> QED BY <2>2, <3>1, <3>2 DEF HeldStaysResident
  <2> QED BY <2>1, <2>2
<1>8. ASSUME NEW j \in Jobs, MakeRoomForKey(j) PROVE HeldStaysResident'
  BY <1>8, ResidentAfterMakeRoom DEF MakeRoomForKey
<1>9. ASSUME NEW j \in Jobs, MakeRoomForTransient(j) PROVE HeldStaysResident'
  BY <1>9, ResidentAfterMakeRoom DEF MakeRoomForTransient
<1>10. ASSUME NEW j \in Jobs, GrantWithoutTransient(j) PROVE HeldStaysResident'
  BY <1>10, ResidentFrame, HoldersUnchanged DEF GrantWithoutTransient, jobVars, modelVars
<1>11. ASSUME NEW j \in Jobs, EvictNext(j) PROVE HeldStaysResident'
  BY <1>11, ResidentFrame, HoldersUnchanged DEF TypeOK, EvictNext
<1>12. ASSUME NEW j \in Jobs, ExecutorUnloads(j) PROVE HeldStaysResident'
  <2>1. UNCHANGED <<held, rebound, evicting>>
    BY <1>12 DEF ExecutorUnloads, jobVars
  <2>2. ASSUME NEW m \in Models, HoldersOf(m) # {} PROVE loaded[m] => loaded'[m]
    <3>1. ~evicting[m]
      BY <2>2 DEF HeldStaysResident
    <3>2. m \notin victims
      BY <3>1 DEF TypeOK, PassInv
    <3> QED BY <1>12, <3>2 DEF TypeOK, ExecutorUnloads
  <2> QED BY <2>1, <2>2, ResidentFrame, HoldersUnchanged
<1>13. ASSUME NEW j \in Jobs, UnloadReturns(j) PROVE HeldStaysResident'
  <2>1. \A m \in Models : ~evicting[m] => ~evicting'[m]
    BY <1>13 DEF TypeOK, UnloadReturns
  <2>2. CASE io = "ok"
    <3>1. UNCHANGED <<held, rebound, loaded>>
      BY <1>13, <2>2 DEF UnloadReturns
    <3> QED BY <2>1, <3>1, ResidentFrame, HoldersUnchanged
  <2>3. CASE io = "error"
    BY <1>13, <2>1, <2>3, ResidentAfterRollBack DEF UnloadReturns, Raise
  <2> QED BY <1>13, <2>2, <2>3 DEF UnloadReturns
<1>14. ASSUME NEW j \in Jobs, LoadKey(j) PROVE HeldStaysResident'
  BY <1>14, ResidentFrame, HoldersUnchanged DEF TypeOK, LoadKey, CancelReservations
<1>15. ASSUME NEW j \in Jobs, GrantWithTransient(j) PROVE HeldStaysResident'
  BY <1>15, ResidentFrame, HoldersUnchanged DEF TypeOK, GrantWithTransient, CancelReservations
<1>16. ASSUME NEW j \in Jobs, BlockOnHeld(j) PROVE HeldStaysResident'
  <2>1. \A m \in Models : ~evicting[m] => ~evicting'[m]
    BY <1>16 DEF TypeOK, BlockOnHeld, CancelReservations
  <2> QED BY <1>16, <2>1, ResidentAfterRollBack DEF BlockOnHeld, Block
<1>17. ASSUME NEW j \in Jobs, ExecutorLoads(j) PROVE HeldStaysResident'
  BY <1>17, ResidentFrame, HoldersUnchanged DEF TypeOK, ExecutorLoads, jobVars
<1>18. ASSUME NEW j \in Jobs, LoadReturns(j) PROVE HeldStaysResident'
  BY <1>18, ResidentFrame, HoldersUnchanged DEF LoadReturns, jobVars, modelVars
<1>19. ASSUME NEW j \in Jobs, LoadRetries(j) PROVE HeldStaysResident'
  BY <1>19, ResidentAfterMakeRoom DEF LoadRetries
<1>20. ASSUME NEW j \in Jobs, LoadFails(j) PROVE HeldStaysResident'
  BY <1>20, ResidentAfterRollBack DEF LoadFails, Raise
<1>21. ASSUME NEW j \in Jobs, Release(j) PROVE HeldStaysResident'
  <2>1. \A m \in Models : HoldersOf(m)' \subseteq HoldersOf(m)
    BY <1>21 DEF TypeOK, Release, HoldersOf
  <2> QED BY <1>21, <2>1, ResidentFrame DEF Release
<1>22. ASSUME NEW j \in Jobs, EnterBarrier(j) PROVE HeldStaysResident'
  BY <1>22, ResidentFrame, HoldersUnchanged DEF EnterBarrier, jobVars, modelVars
<1>23. ASSUME NEW j \in Jobs, GetBarrier(j) PROVE HeldStaysResident'
  BY <1>23, ResidentFrame, HoldersUnchanged DEF GetBarrier, jobVars, modelVars
<1>24. ASSUME NEW j \in Jobs, Rebind(j) PROVE HeldStaysResident'
  <2>1. PICK H \in Handles[j] :
            /\ loaded' = [m \in Models |-> loaded[m] /\ m \notin H]
            /\ evicting' = [m \in Models |-> evicting[m] /\ m \notin H]
            /\ rebound' = [rebound EXCEPT ![j] = @ \cup (held[j] \cap H)]
            /\ held' = held
    BY <1>24 DEF Rebind
  <2>2. ASSUME NEW m \in Models, m \in H PROVE HoldersOf(m)' = {}
    BY <2>1, <2>2, HandlesAreOwn DEF TypeOK, HoldersOf
  <2>3. ASSUME NEW m \in Models, m \notin H
        PROVE  HoldersOf(m)' = HoldersOf(m) /\ loaded'[m] = loaded[m] /\ evicting'[m] = evicting[m]
    BY <2>1, <2>3 DEF TypeOK, HoldersOf
  <2> QED BY <2>2, <2>3 DEF HeldStaysResident
<1> QED
  BY <1>0, <1>1, <1>2, <1>3, <1>4, <1>5, <1>6, <1>7, <1>8, <1>9, <1>10, <1>11, <1>12, <1>13, <1>14, <1>15, <1>16, <1>17, <1>18, <1>19, <1>20, <1>21, <1>22, <1>23, <1>24
  DEF Next, AcquireStep, ExecutorStep, RecoveryStep
-----------------------------------------------------------------------------
(* The invariants *)

LEMMA Inductive == Spec => []IInv
<1>1. Init => AdmitInv /\ GoalInv /\ HoldsInv /\ PassInv /\ OwnModelsSpared
  BY EmptyIsDistinct
  DEF Init, AdmitInv, GoalInv, HoldsInv, HoldsOK, PassInv, OwnModelsSpared, Admitting, Leased
<1>2. Init => HoldAccounting /\ HeldStaysResident
  <2>1. Init => \A m \in Models : HoldersOf(m) = {}
    BY DEF Init, HoldersOf
  <2> QED BY <2>1, FS_EmptySet DEF Init, HoldAccounting, HeldStaysResident
<1>3. AdmitInv /\ GoalInv /\ HoldsInv /\ PassInv /\ OwnModelsSpared /\ HoldAccounting
      /\ HeldStaysResident /\ TypeOK /\ [Next]_vars
      => AdmitInv' /\ GoalInv' /\ HoldsInv' /\ PassInv' /\ OwnModelsSpared' /\ HoldAccounting'
         /\ HeldStaysResident'
  BY AdmitStep, GoalStep, HoldsStep, PassStep, SparedStep, AccountingStep, ResidentStep
<1> QED BY <1>1, <1>2, <1>3, TypeCorrect, PTL DEF Spec, IInv

\* A model's hold count is always the number of attempts and leases that hold
\* it, whatever fails, blocks or is recreated (property HoldAccounting).
THEOREM HoldsAreCounted == Spec => []HoldAccounting
<1>1. IInv => HoldAccounting
  BY DEF IInv
<1> QED BY <1>1, Inductive, PTL

\* No admission, eviction or recovery takes a held model off the card
\* (property HeldStaysResident).
THEOREM HeldIsResident == Spec => []HeldStaysResident
<1>1. IInv => HeldStaysResident
  BY DEF IInv
<1> QED BY <1>1, Inductive, PTL

\* A pass never reserves, hence never evicts, a model its own job needs
\* (property OwnModelsSpared).
THEOREM OwnModelsAreSpared == Spec => []OwnModelsSpared
<1>1. IInv => OwnModelsSpared
  BY DEF IInv
<1> QED BY <1>1, Inductive, PTL
-----------------------------------------------------------------------------
(* What a pass leaves behind, and who wakes the waiting *)

LEMMA StrandStep ==
  ASSUME TypeOK, AdmitInv, PassInv, NoStrandedReservation, [Next]_vars
  PROVE  NoStrandedReservation'
<1>0. CASE UNCHANGED vars
  BY <1>0 DEF TypeOK, AdmitInv, PassInv, NoStrandedReservation, Admitting, vars, jobVars, modelVars, passVars, historyVars
<1>1. ASSUME NEW j \in Jobs, Acquire(j) PROVE NoStrandedReservation'
  BY <1>1 DEF TypeOK, AdmitInv, PassInv, NoStrandedReservation, Admitting, Acquire, jobVars, modelVars, passVars, historyVars
<1>2. ASSUME NEW j \in Jobs, DeadlinePasses(j) PROVE NoStrandedReservation'
  BY <1>2 DEF TypeOK, AdmitInv, PassInv, NoStrandedReservation, Admitting, DeadlinePasses, jobVars, modelVars, passVars, historyVars
<1>3. ASSUME NEW j \in Jobs, BeginAttempt(j) PROVE NoStrandedReservation'
  BY <1>3 DEF TypeOK, AdmitInv, PassInv, NoStrandedReservation, Admitting, BeginAttempt, EnterKeys, jobVars, modelVars, passVars, historyVars
<1>4. ASSUME NEW j \in Jobs, GetLock(j) PROVE NoStrandedReservation'
  BY <1>4 DEF TypeOK, AdmitInv, PassInv, NoStrandedReservation, Admitting, GetLock, EnterKeys, jobVars, modelVars, passVars, historyVars
<1>5. ASSUME NEW j \in Jobs, Park(j) PROVE NoStrandedReservation'
  BY <1>5 DEF TypeOK, AdmitInv, PassInv, NoStrandedReservation, Admitting, Park, jobVars, modelVars, passVars, historyVars
<1>6. ASSUME NEW j \in Jobs, WaitTimesOut(j) PROVE NoStrandedReservation'
  BY <1>6 DEF TypeOK, AdmitInv, PassInv, NoStrandedReservation, Admitting, WaitTimesOut, jobVars, modelVars, passVars, historyVars
<1>7. ASSUME NEW j \in Jobs, HoldKey(j) PROVE NoStrandedReservation'
  BY <1>7 DEF TypeOK, AdmitInv, PassInv, NoStrandedReservation, Admitting, HoldKey, Raise, EndPass, RollBack, jobVars, modelVars, passVars, historyVars
<1>8. ASSUME NEW j \in Jobs, MakeRoomForKey(j) PROVE NoStrandedReservation'
  BY <1>8 DEF TypeOK, AdmitInv, PassInv, NoStrandedReservation, Admitting, MakeRoomForKey, MakeRoom, jobVars, modelVars, passVars, historyVars
<1>9. ASSUME NEW j \in Jobs, MakeRoomForTransient(j) PROVE NoStrandedReservation'
  BY <1>9 DEF TypeOK, AdmitInv, PassInv, NoStrandedReservation, Admitting, MakeRoomForTransient, MakeRoom, jobVars, modelVars, passVars, historyVars
<1>10. ASSUME NEW j \in Jobs, GrantWithoutTransient(j) PROVE NoStrandedReservation'
  BY <1>10 DEF TypeOK, AdmitInv, PassInv, NoStrandedReservation, Admitting, GrantWithoutTransient, Grant, EndPass, jobVars, modelVars, passVars, historyVars
<1>11. ASSUME NEW j \in Jobs, EvictNext(j) PROVE NoStrandedReservation'
  BY <1>11 DEF TypeOK, AdmitInv, PassInv, NoStrandedReservation, Admitting, EvictNext, jobVars, modelVars, passVars, historyVars
<1>12. ASSUME NEW j \in Jobs, ExecutorUnloads(j) PROVE NoStrandedReservation'
  BY <1>12 DEF TypeOK, AdmitInv, PassInv, NoStrandedReservation, Admitting, ExecutorUnloads, jobVars, modelVars, passVars, historyVars
<1>13. ASSUME NEW j \in Jobs, UnloadReturns(j) PROVE NoStrandedReservation'
  <2>1. PICK v \in victims :
          /\ evicting' = [evicting EXCEPT ![v] = FALSE]
          /\ \/ reserved' = reserved \ {v} /\ stranded' = stranded
             \/ Raise(j)
    BY <1>13 DEF UnloadReturns, historyVars
  <2>2. \A m \in Models : evicting'[m] => evicting[m] /\ m # v
    BY <2>1 DEF TypeOK
  <2>3. CASE reserved' = reserved \ {v} /\ stranded' = stranded
    BY <2>2, <2>3 DEF NoStrandedReservation
  <2>4. CASE Raise(j)
    BY <2>2, <2>4 DEF NoStrandedReservation, Raise
  <2> QED BY <2>1, <2>3, <2>4
<1>14. ASSUME NEW j \in Jobs, LoadKey(j) PROVE NoStrandedReservation'
  BY <1>14 DEF TypeOK, AdmitInv, PassInv, NoStrandedReservation, Admitting, LoadKey, CancelReservations, RoomMade, jobVars, modelVars, passVars, historyVars
<1>15. ASSUME NEW j \in Jobs, GrantWithTransient(j) PROVE NoStrandedReservation'
  BY <1>15 DEF TypeOK, AdmitInv, PassInv, NoStrandedReservation, Admitting, GrantWithTransient, Grant, EndPass, CancelReservations, RoomMade, jobVars, modelVars, passVars, historyVars
<1>16. ASSUME NEW j \in Jobs, BlockOnHeld(j) PROVE NoStrandedReservation'
  BY <1>16 DEF TypeOK, AdmitInv, PassInv, NoStrandedReservation, Admitting, BlockOnHeld, Block, EndPass, CancelReservations, RoomMade, jobVars, modelVars, passVars, historyVars
<1>17. ASSUME NEW j \in Jobs, ExecutorLoads(j) PROVE NoStrandedReservation'
  BY <1>17 DEF TypeOK, AdmitInv, PassInv, NoStrandedReservation, Admitting, ExecutorLoads, jobVars, modelVars, passVars, historyVars
<1>18. ASSUME NEW j \in Jobs, LoadReturns(j) PROVE NoStrandedReservation'
  BY <1>18 DEF TypeOK, AdmitInv, PassInv, NoStrandedReservation, Admitting, LoadReturns, EndPass, jobVars, modelVars, passVars, historyVars
<1>19. ASSUME NEW j \in Jobs, LoadRetries(j) PROVE NoStrandedReservation'
  BY <1>19 DEF TypeOK, AdmitInv, PassInv, NoStrandedReservation, Admitting, LoadRetries, MakeRoom, jobVars, modelVars, passVars, historyVars
<1>20. ASSUME NEW j \in Jobs, LoadFails(j) PROVE NoStrandedReservation'
  BY <1>20 DEF TypeOK, AdmitInv, PassInv, NoStrandedReservation, Admitting, LoadFails, Raise, EndPass, jobVars, modelVars, passVars, historyVars
<1>21. ASSUME NEW j \in Jobs, Release(j) PROVE NoStrandedReservation'
  BY <1>21 DEF TypeOK, AdmitInv, PassInv, NoStrandedReservation, Admitting, Release, jobVars, modelVars, passVars, historyVars
<1>22. ASSUME NEW j \in Jobs, EnterBarrier(j) PROVE NoStrandedReservation'
  BY <1>22 DEF TypeOK, AdmitInv, PassInv, NoStrandedReservation, Admitting, EnterBarrier, jobVars, modelVars, passVars, historyVars
<1>23. ASSUME NEW j \in Jobs, GetBarrier(j) PROVE NoStrandedReservation'
  BY <1>23 DEF TypeOK, AdmitInv, PassInv, NoStrandedReservation, Admitting, GetBarrier, jobVars, modelVars, passVars, historyVars
<1>24. ASSUME NEW j \in Jobs, Rebind(j) PROVE NoStrandedReservation'
  BY <1>24 DEF TypeOK, AdmitInv, PassInv, NoStrandedReservation, Admitting, Rebind, jobVars, modelVars, passVars, historyVars
<1> QED
  BY <1>0, <1>1, <1>2, <1>3, <1>4, <1>5, <1>6, <1>7, <1>8, <1>9, <1>10, <1>11, <1>12,
     <1>13, <1>14, <1>15, <1>16, <1>17, <1>18, <1>19, <1>20, <1>21, <1>22, <1>23, <1>24
  DEF Next, AcquireStep, ExecutorStep, RecoveryStep

LEMMA WakerStep ==
  ASSUME TypeOK, AdmitInv, HoldsInv, HoldAccounting, WaitsBesideLease, [Next]_vars
  PROVE  WaitsBesideLease'
<1>0. CASE UNCHANGED vars
  BY <1>0 DEF TypeOK, WaitsBesideLease, Leased, vars, jobVars, modelVars, passVars, historyVars
<1>1. ASSUME NEW j \in Jobs, Acquire(j) PROVE WaitsBesideLease'
  BY <1>1 DEF TypeOK, WaitsBesideLease, Leased, Acquire, jobVars, modelVars, passVars, historyVars
<1>2. ASSUME NEW j \in Jobs, DeadlinePasses(j) PROVE WaitsBesideLease'
  BY <1>2 DEF TypeOK, WaitsBesideLease, Leased, DeadlinePasses, jobVars, modelVars, passVars, historyVars
<1>3. ASSUME NEW j \in Jobs, BeginAttempt(j) PROVE WaitsBesideLease'
  <2>1. /\ pc[j] = "top" /\ event' = FALSE
        /\ missed' = (missed \ {j}) \cup {k \in Jobs : event /\ pc[k] = "parking"}
        /\ pc' = [pc EXCEPT ![j] = pc'[j]] /\ pc'[j] \in {"keys", "lockWait"}
    BY <1>3 DEF TypeOK, BeginAttempt, EnterKeys
  <2> SUFFICES ASSUME NEW k \in Jobs \ missed', pc'[k] = "parked" \/ pc'[k] = "parking"
               PROVE  \E w \in Jobs : pc'[w] \in Leased
    BY DEF WaitsBesideLease
  <2>2. /\ k # j /\ pc[k] = pc'[k] /\ k \notin missed
        /\ pc[k] = "parking" => ~event
    BY <2>1 DEF TypeOK
  <2>3. PICK w \in Jobs : pc[w] \in Leased
    BY <2>2 DEF WaitsBesideLease
  <2> QED BY <2>1, <2>3 DEF TypeOK, Leased
<1>4. ASSUME NEW j \in Jobs, GetLock(j) PROVE WaitsBesideLease'
  BY <1>4 DEF TypeOK, WaitsBesideLease, Leased, GetLock, EnterKeys, jobVars, modelVars, passVars, historyVars
<1>5. ASSUME NEW j \in Jobs, Park(j) PROVE WaitsBesideLease'
  BY <1>5 DEF TypeOK, WaitsBesideLease, Leased, Park, jobVars, modelVars, passVars, historyVars
<1>6. ASSUME NEW j \in Jobs, WaitTimesOut(j) PROVE WaitsBesideLease'
  BY <1>6 DEF TypeOK, WaitsBesideLease, Leased, WaitTimesOut, jobVars, modelVars, passVars, historyVars
<1>7. ASSUME NEW j \in Jobs, HoldKey(j) PROVE WaitsBesideLease'
  BY <1>7 DEF TypeOK, WaitsBesideLease, Leased, HoldKey, Raise, EndPass, RollBack, jobVars, modelVars, passVars, historyVars
<1>8. ASSUME NEW j \in Jobs, MakeRoomForKey(j) PROVE WaitsBesideLease'
  BY <1>8 DEF TypeOK, WaitsBesideLease, Leased, MakeRoomForKey, MakeRoom, jobVars, modelVars, passVars, historyVars
<1>9. ASSUME NEW j \in Jobs, MakeRoomForTransient(j) PROVE WaitsBesideLease'
  BY <1>9 DEF TypeOK, WaitsBesideLease, Leased, MakeRoomForTransient, MakeRoom, jobVars, modelVars, passVars, historyVars
<1>10. ASSUME NEW j \in Jobs, GrantWithoutTransient(j) PROVE WaitsBesideLease'
  BY <1>10 DEF TypeOK, WaitsBesideLease, Leased, GrantWithoutTransient, Grant, EndPass, jobVars, modelVars, passVars, historyVars
<1>11. ASSUME NEW j \in Jobs, EvictNext(j) PROVE WaitsBesideLease'
  BY <1>11 DEF TypeOK, WaitsBesideLease, Leased, EvictNext, jobVars, modelVars, passVars, historyVars
<1>12. ASSUME NEW j \in Jobs, ExecutorUnloads(j) PROVE WaitsBesideLease'
  BY <1>12 DEF TypeOK, WaitsBesideLease, Leased, ExecutorUnloads, jobVars, modelVars, passVars, historyVars
<1>13. ASSUME NEW j \in Jobs, UnloadReturns(j) PROVE WaitsBesideLease'
  <2>1. PICK x \in {"evict", "idle"} : pc' = [pc EXCEPT ![j] = x]
    BY <1>13 DEF UnloadReturns, Raise
  <2>2. pc[j] = "unloading" /\ missed' = missed /\ event' = event
    BY <1>13 DEF UnloadReturns, Raise, historyVars
  <2> QED BY <2>1, <2>2 DEF TypeOK, WaitsBesideLease, Leased
<1>14. ASSUME NEW j \in Jobs, LoadKey(j) PROVE WaitsBesideLease'
  BY <1>14 DEF TypeOK, WaitsBesideLease, Leased, LoadKey, CancelReservations, RoomMade, jobVars, modelVars, passVars, historyVars
<1>15. ASSUME NEW j \in Jobs, GrantWithTransient(j) PROVE WaitsBesideLease'
  BY <1>15 DEF TypeOK, WaitsBesideLease, Leased, GrantWithTransient, Grant, EndPass, CancelReservations, RoomMade, jobVars, modelVars, passVars, historyVars
<1>16. ASSUME NEW j \in Jobs, BlockOnHeld(j) PROVE WaitsBesideLease'
  <2>1. pc[j] = "evict" /\ missed' = missed /\ event' = event
    BY <1>16 DEF BlockOnHeld, Block, RoomMade, historyVars
  <2>2. PICK foreign \in ForeignUse : ~MayProceed(j, foreign)
    BY <1>16 DEF BlockOnHeld
  <2>3. PICK m \in Models \ Protected(j) : loaded[m] /\ opCount[m] > 0
    BY <2>2 DEF MayProceed, HasHeldEvictable
  <2>4. HoldersOf(m) # {}
    BY <2>3, FS_EmptySet DEF HoldAccounting
  <2>5. PICK k \in Jobs : m \in held[k] \ rebound[k]
    BY <2>4 DEF HoldersOf
  <2>6. k # j /\ pc[k] \in Admitting \cup Leased
    BY <2>3, <2>5 DEF HoldsInv, HoldsOK
  <2>7. pc[k] \in Leased
    BY <2>1, <2>6 DEF AdmitInv, Admitting
  <2>8. PICK x \in {"top", "parking"} : pc' = [pc EXCEPT ![j] = x]
    BY <1>16, BlockLeavesTo DEF BlockOnHeld
  <2>9. pc'[k] \in Leased
    BY <2>6, <2>7, <2>8 DEF TypeOK
  <2> QED BY <2>9 DEF WaitsBesideLease
<1>17. ASSUME NEW j \in Jobs, ExecutorLoads(j) PROVE WaitsBesideLease'
  BY <1>17 DEF TypeOK, WaitsBesideLease, Leased, ExecutorLoads, jobVars, modelVars, passVars, historyVars
<1>18. ASSUME NEW j \in Jobs, LoadReturns(j) PROVE WaitsBesideLease'
  BY <1>18 DEF TypeOK, WaitsBesideLease, Leased, LoadReturns, EndPass, jobVars, modelVars, passVars, historyVars
<1>19. ASSUME NEW j \in Jobs, LoadRetries(j) PROVE WaitsBesideLease'
  BY <1>19 DEF TypeOK, WaitsBesideLease, Leased, LoadRetries, MakeRoom, jobVars, modelVars, passVars, historyVars
<1>20. ASSUME NEW j \in Jobs, LoadFails(j) PROVE WaitsBesideLease'
  BY <1>20 DEF TypeOK, WaitsBesideLease, Leased, LoadFails, Raise, EndPass, jobVars, modelVars, passVars, historyVars
<1>21. ASSUME NEW j \in Jobs, Release(j) PROVE WaitsBesideLease'
  BY <1>21 DEF TypeOK, WaitsBesideLease, Leased, Release, jobVars, modelVars, passVars, historyVars
<1>22. ASSUME NEW j \in Jobs, EnterBarrier(j) PROVE WaitsBesideLease'
  BY <1>22 DEF TypeOK, WaitsBesideLease, Leased, EnterBarrier, jobVars, modelVars, passVars, historyVars
<1>23. ASSUME NEW j \in Jobs, GetBarrier(j) PROVE WaitsBesideLease'
  BY <1>23 DEF TypeOK, WaitsBesideLease, Leased, GetBarrier, jobVars, modelVars, passVars, historyVars
<1>24. ASSUME NEW j \in Jobs, Rebind(j) PROVE WaitsBesideLease'
  BY <1>24 DEF TypeOK, WaitsBesideLease, Leased, Rebind, jobVars, modelVars, passVars, historyVars
<1> QED
  BY <1>0, <1>1, <1>2, <1>3, <1>4, <1>5, <1>6, <1>7, <1>8, <1>9, <1>10, <1>11, <1>12,
     <1>13, <1>14, <1>15, <1>16, <1>17, <1>18, <1>19, <1>20, <1>21, <1>22, <1>23, <1>24
  DEF Next, AcquireStep, ExecutorStep, RecoveryStep

\* A model reserved for eviction is never forgotten: when a pass ends, each model
\* it flagged is evicted, spared or usable again, but for those that an unload which
\* raised kept it from coming to; these stay flagged until they are recreated
\* (property NoStrandedReservation, vram_arbiter.py:292,314).
THEOREM NothingStaysReserved == Spec => []NoStrandedReservation
<1>1. Init => NoStrandedReservation
  BY DEF Init, NoStrandedReservation
<1>2. IInv /\ NoStrandedReservation /\ [Next]_vars => NoStrandedReservation'
  BY StrandStep DEF IInv
<1> QED BY <1>1, <1>2, Inductive, PTL DEF Spec

\* A waiting acquire is woken: a job that waits does so beside a lease that is out,
\* and a release wakes every waiter, so there is no state in which all the others
\* wait or rest.  Excepted is a job whose event another attempt cleared before its
\* wait began, the wakeup the deployed Python loses (property WaitsBesideLease,
\* vram_arbiter.py:143,148).
THEOREM WaiterIsWoken == Spec => []WaitsBesideLease
<1>1. Init => WaitsBesideLease
  BY DEF Init, WaitsBesideLease
<1>2. IInv /\ WaitsBesideLease /\ [Next]_vars => WaitsBesideLease'
  BY WakerStep DEF IInv
<1> QED BY <1>1, <1>2, Inductive, PTL DEF Spec
-----------------------------------------------------------------------------
(* The transient bytes *)

NeedBytes == [j \in Jobs |-> need[j].transient]
LeaseHolders == {j \in Jobs : pc[j] \in Leased}

\* No lease is granted or released.
LeasesStay ==
    /\ transient' = transient
    /\ \A k \in Jobs :
        /\ pc'[k] \in Leased <=> pc[k] \in Leased
        /\ pc[k] \in Leased => need'[k] = need[k]

LEMMA HoldersFinite == IsFiniteSet(LeaseHolders) /\ LeaseHolders \in SUBSET Jobs
BY JobAssumption, FS_Subset DEF LeaseHolders

LEMMA BytesAreNat ==
  ASSUME TypeOK
  PROVE  /\ \A k \in LeaseHolders : NeedBytes[k] = need[k].transient /\ NeedBytes[k] \in Nat
         /\ \A S \in SUBSET LeaseHolders : SumFunctionOnSet(NeedBytes, S) \in Nat
<1>1. \A k \in Jobs : NeedBytes[k] = need[k].transient /\ NeedBytes[k] \in Nat
  BY DEF TypeOK, NeedType, NeedBytes
<1>2. ASSUME NEW S \in SUBSET LeaseHolders PROVE SumFunctionOnSet(NeedBytes, S) \in Nat
  <2>1. IsFiniteSet(S) /\ S \subseteq Jobs
    BY HoldersFinite, FS_Subset
  <2> QED BY <1>1, <2>1, SumIsNat
<1> QED BY <1>1, <1>2, HoldersFinite

LEMMA SameLeasesSameBytes ==
  ASSUME TypeOK, TransientAccounting, LeasesStay PROVE TransientAccounting'
<1>1. LeaseHolders' = LeaseHolders
  BY DEF LeaseHolders, LeasesStay
<1>2. \A k \in LeaseHolders : NeedBytes[k] = NeedBytes'[k]
  BY DEF LeaseHolders, LeasesStay, NeedBytes
<1>3. SumFunctionOnSet(NeedBytes, LeaseHolders) = SumFunctionOnSet(NeedBytes', LeaseHolders)
  BY <1>2, HoldersFinite, SumOfAgreeing
<1> QED BY <1>1, <1>3 DEF TransientAccounting, LeasesStay, NeedBytes, LeaseHolders

LEMMA GrantAdds ==
  ASSUME TypeOK, TransientAccounting, NEW j \in Jobs, pc[j] \notin Leased,
         pc' = [pc EXCEPT ![j] = "leased"], need' = need,
         transient' = transient + need[j].transient
  PROVE  TransientAccounting'
<1>1. LeaseHolders' = LeaseHolders \cup {j} /\ j \notin LeaseHolders
  BY DEF LeaseHolders, Leased, TypeOK
<1>2. NeedBytes' = NeedBytes /\ \A k \in Jobs : NeedBytes[k] \in Nat /\ NeedBytes[j] = need[j].transient
  BY DEF NeedBytes, TypeOK, NeedType
<1> DEFINE S == LeaseHolders \cup {j}
<1>3. IsFiniteSet(S) /\ S \subseteq Jobs /\ j \in S /\ S \ {j} = LeaseHolders
  BY <1>1, HoldersFinite, FS_AddElement
<1>4. SumFunctionOnSet(NeedBytes, S) = NeedBytes[j] + SumFunctionOnSet(NeedBytes, S \ {j})
  <2> HIDE DEF S
  <2> QED BY <1>2, <1>3, SumWithout
<1>5. SumFunctionOnSet(NeedBytes, S \ {j}) = SumFunctionOnSet(NeedBytes, LeaseHolders)
  <2> HIDE DEF S
  <2> QED BY <1>3
<1>6. SumFunctionOnSet(NeedBytes, LeaseHolders) \in Nat /\ need[j].transient \in Nat
  BY BytesAreNat DEF TypeOK, NeedType
<1>7. transient' = SumFunctionOnSet(NeedBytes, S)
  <2> HIDE DEF S
  <2>1. transient = SumFunctionOnSet(NeedBytes, LeaseHolders)
    BY DEF TransientAccounting, NeedBytes, LeaseHolders
  <2> QED BY <1>2, <1>4, <1>5, <1>6, <2>1
<1>8. transient' = SumFunctionOnSet(NeedBytes', LeaseHolders')
  BY <1>1, <1>2, <1>7
<1> QED BY <1>8 DEF TransientAccounting, NeedBytes, LeaseHolders

LEMMA ReleaseSubtracts ==
  ASSUME TypeOK, TransientAccounting, NEW j \in Jobs, Release(j)
  PROVE  TransientAccounting'
<1>1. j \in LeaseHolders /\ LeaseHolders' = LeaseHolders \ {j}
  BY DEF Release, LeaseHolders, Leased, TypeOK
<1> DEFINE R == LeaseHolders \ {j}
<1>2. IsFiniteSet(R) /\ R \subseteq Jobs /\ R \in SUBSET LeaseHolders
  BY HoldersFinite, FS_Subset
<1>3. \A k \in R : NeedBytes[k] = NeedBytes'[k]
  BY <1>2 DEF Release, NeedBytes, TypeOK
<1>4. SumFunctionOnSet(NeedBytes, R) = SumFunctionOnSet(NeedBytes', R)
  <2> HIDE DEF R
  <2> QED BY <1>2, <1>3, SumOfAgreeing
<1>5. SumFunctionOnSet(NeedBytes, LeaseHolders) = NeedBytes[j] + SumFunctionOnSet(NeedBytes, R)
  BY <1>1, HoldersFinite, BytesAreNat, SumWithout
<1>6. NeedBytes[j] = need[j].transient /\ NeedBytes[j] \in Nat
  BY <1>1, BytesAreNat
<1>7. SumFunctionOnSet(NeedBytes, R) \in Nat
  BY <1>2, BytesAreNat
<1>8. transient = SumFunctionOnSet(NeedBytes, LeaseHolders)
  BY DEF TransientAccounting, NeedBytes, LeaseHolders
<1>9. transient' = ClampAtZero(transient - need[j].transient)
  BY DEF Release
<1>10. transient' = SumFunctionOnSet(NeedBytes, R)
  <2> HIDE DEF R
  <2> QED BY <1>5, <1>6, <1>7, <1>8, <1>9 DEF ClampAtZero
<1>11. transient' = SumFunctionOnSet(NeedBytes', LeaseHolders')
  BY <1>1, <1>4, <1>10
<1> QED BY <1>11 DEF TransientAccounting, NeedBytes, LeaseHolders

LEMMA TransientStep ==
  ASSUME TypeOK, TransientAccounting, [Next]_vars PROVE TransientAccounting'
<1>0. CASE UNCHANGED vars
  BY <1>0, SameLeasesSameBytes DEF LeasesStay, vars, jobVars
<1>1. ASSUME NEW j \in Jobs, Acquire(j) PROVE TransientAccounting'
  <2>1. LeasesStay
    BY <1>1 DEF Acquire, LeasesStay, Leased, TypeOK, jobVars
  <2> QED BY <2>1, SameLeasesSameBytes
<1>2. ASSUME NEW j \in Jobs, DeadlinePasses(j) PROVE TransientAccounting'
  <2>1. LeasesStay
    BY <1>2 DEF DeadlinePasses, LeasesStay, Leased, TypeOK, jobVars
  <2> QED BY <2>1, SameLeasesSameBytes
<1>3. ASSUME NEW j \in Jobs, BeginAttempt(j) PROVE TransientAccounting'
  <2>1. LeasesStay
    BY <1>3 DEF BeginAttempt, EnterKeys, LeasesStay, Leased, TypeOK, jobVars
  <2> QED BY <2>1, SameLeasesSameBytes
<1>4. ASSUME NEW j \in Jobs, GetLock(j) PROVE TransientAccounting'
  <2>1. LeasesStay
    BY <1>4 DEF GetLock, EnterKeys, LeasesStay, Leased, TypeOK, jobVars
  <2> QED BY <2>1, SameLeasesSameBytes
<1>5. ASSUME NEW j \in Jobs, Park(j) PROVE TransientAccounting'
  <2>1. LeasesStay
    BY <1>5 DEF Park, LeasesStay, Leased, TypeOK, jobVars
  <2> QED BY <2>1, SameLeasesSameBytes
<1>6. ASSUME NEW j \in Jobs, WaitTimesOut(j) PROVE TransientAccounting'
  <2>1. LeasesStay
    BY <1>6 DEF WaitTimesOut, LeasesStay, Leased, TypeOK, jobVars
  <2> QED BY <2>1, SameLeasesSameBytes
<1>7. ASSUME NEW j \in Jobs, HoldKey(j) PROVE TransientAccounting'
  <2>1. LeasesStay
    BY <1>7 DEF HoldKey, Raise, LeasesStay, Leased, TypeOK, jobVars
  <2> QED BY <2>1, SameLeasesSameBytes
<1>8. ASSUME NEW j \in Jobs, MakeRoomForKey(j) PROVE TransientAccounting'
  <2>1. LeasesStay
    BY <1>8 DEF MakeRoomForKey, MakeRoom, LeasesStay, Leased, TypeOK, jobVars
  <2> QED BY <2>1, SameLeasesSameBytes
<1>9. ASSUME NEW j \in Jobs, MakeRoomForTransient(j) PROVE TransientAccounting'
  <2>1. LeasesStay
    BY <1>9 DEF MakeRoomForTransient, MakeRoom, LeasesStay, Leased, TypeOK, jobVars
  <2> QED BY <2>1, SameLeasesSameBytes
<1>10. ASSUME NEW j \in Jobs, GrantWithoutTransient(j) PROVE TransientAccounting'
  <2>1. transient \in Nat /\ need[j].transient = 0 /\ transient' = transient + need[j].transient
    BY <1>10 DEF GrantWithoutTransient, Grant, TypeOK
  <2> QED BY <1>10, <2>1, GrantAdds DEF GrantWithoutTransient, Grant, Leased
<1>11. ASSUME NEW j \in Jobs, EvictNext(j) PROVE TransientAccounting'
  <2>1. LeasesStay
    BY <1>11 DEF EvictNext, LeasesStay, Leased, TypeOK, jobVars
  <2> QED BY <2>1, SameLeasesSameBytes
<1>12. ASSUME NEW j \in Jobs, ExecutorUnloads(j) PROVE TransientAccounting'
  <2>1. LeasesStay
    BY <1>12 DEF ExecutorUnloads, LeasesStay, Leased, TypeOK, jobVars
  <2> QED BY <2>1, SameLeasesSameBytes
<1>13. ASSUME NEW j \in Jobs, UnloadReturns(j) PROVE TransientAccounting'
  <2>1. LeasesStay
    BY <1>13 DEF UnloadReturns, Raise, LeasesStay, Leased, TypeOK, jobVars
  <2> QED BY <2>1, SameLeasesSameBytes
<1>14. ASSUME NEW j \in Jobs, LoadKey(j) PROVE TransientAccounting'
  <2>1. LeasesStay
    BY <1>14 DEF LoadKey, RoomMade, LeasesStay, Leased, TypeOK, jobVars
  <2> QED BY <2>1, SameLeasesSameBytes
<1>15. ASSUME NEW j \in Jobs, GrantWithTransient(j) PROVE TransientAccounting'
  BY <1>15, GrantAdds DEF GrantWithTransient, Grant, RoomMade, Leased
<1>16. ASSUME NEW j \in Jobs, BlockOnHeld(j) PROVE TransientAccounting'
  <2>1. PICK x \in {"top", "parking", "parked"} : pc' = [pc EXCEPT ![j] = x]
    BY <1>16, BlockLeavesTo DEF BlockOnHeld
  <2>2. LeasesStay
    BY <1>16, <2>1 DEF BlockOnHeld, Block, RoomMade, LeasesStay, Leased, TypeOK
  <2> QED BY <2>2, SameLeasesSameBytes
<1>17. ASSUME NEW j \in Jobs, ExecutorLoads(j) PROVE TransientAccounting'
  <2>1. LeasesStay
    BY <1>17 DEF ExecutorLoads, LeasesStay, Leased, TypeOK, jobVars
  <2> QED BY <2>1, SameLeasesSameBytes
<1>18. ASSUME NEW j \in Jobs, LoadReturns(j) PROVE TransientAccounting'
  <2>1. LeasesStay
    BY <1>18 DEF LoadReturns, LeasesStay, Leased, TypeOK, jobVars
  <2> QED BY <2>1, SameLeasesSameBytes
<1>19. ASSUME NEW j \in Jobs, LoadRetries(j) PROVE TransientAccounting'
  <2>1. LeasesStay
    BY <1>19 DEF LoadRetries, MakeRoom, LeasesStay, Leased, TypeOK, jobVars
  <2> QED BY <2>1, SameLeasesSameBytes
<1>20. ASSUME NEW j \in Jobs, LoadFails(j) PROVE TransientAccounting'
  <2>1. LeasesStay
    BY <1>20 DEF LoadFails, Raise, LeasesStay, Leased, TypeOK, jobVars
  <2> QED BY <2>1, SameLeasesSameBytes
<1>21. ASSUME NEW j \in Jobs, Release(j) PROVE TransientAccounting'
  BY <1>21, ReleaseSubtracts
<1>22. ASSUME NEW j \in Jobs, EnterBarrier(j) PROVE TransientAccounting'
  <2>1. LeasesStay
    BY <1>22 DEF EnterBarrier, LeasesStay, Leased, TypeOK, jobVars
  <2> QED BY <2>1, SameLeasesSameBytes
<1>23. ASSUME NEW j \in Jobs, GetBarrier(j) PROVE TransientAccounting'
  <2>1. LeasesStay
    BY <1>23 DEF GetBarrier, LeasesStay, Leased, TypeOK, jobVars
  <2> QED BY <2>1, SameLeasesSameBytes
<1>24. ASSUME NEW j \in Jobs, Rebind(j) PROVE TransientAccounting'
  <2>1. LeasesStay
    BY <1>24 DEF Rebind, LeasesStay, Leased, TypeOK, jobVars
  <2> QED BY <2>1, SameLeasesSameBytes
<1> QED
  BY <1>0, <1>1, <1>2, <1>3, <1>4, <1>5, <1>6, <1>7, <1>8, <1>9, <1>10, <1>11, <1>12,
     <1>13, <1>14, <1>15, <1>16, <1>17, <1>18, <1>19, <1>20, <1>21, <1>22, <1>23, <1>24
  DEF Next, AcquireStep, ExecutorStep, RecoveryStep

\* The bytes reserved for inference are those of the outstanding leases, so a
\* blocked, failed or released acquire leaves none behind and the release's clamp
\* at zero never hides a difference (property TransientAccounting,
\* vram_arbiter.py:339).
THEOREM TransientIsAccounted == Spec => []TransientAccounting
<1>1. Init => TransientAccounting
  <2>1. Init => LeaseHolders = {}
    BY DEF Init, LeaseHolders, Leased
  <2> QED BY <2>1, SumOfNone DEF Init, TransientAccounting, LeaseHolders
<1>2. TypeOK /\ TransientAccounting /\ [Next]_vars => TransientAccounting'
  BY TransientStep
<1> QED BY <1>1, <1>2, TypeCorrect, PTL DEF Spec
-----------------------------------------------------------------------------
(* A pass makes room *)

LEMMA AgesAreAnOrder ==
  ASSUME TypeOK, NEW S \in SUBSET Models PROVE IsOrder(S, OlderAmong(S))
<1>1. \A m \in S : lastUsed[m] \in Nat /\ Position(m) \in Nat
  BY PositionType DEF TypeOK
<1>2. ASSUME NEW m \in S, NEW n \in S, Older(n, m) PROVE n # m
  BY <1>1, <1>2 DEF Older
<1>3. ASSUME NEW m \in S, NEW n \in S, NEW k \in S, Older(k, n), Older(n, m) PROVE Older(k, m)
  BY <1>1, <1>3 DEF Older
<1>4. \A m \in S : OlderAmong(S)[m] = {n \in S : Older(n, m)}
  BY DEF OlderAmong
<1>5. \A m \in S : OlderAmong(S)[m] \in SUBSET S /\ m \notin OlderAmong(S)[m]
  BY <1>2, <1>4
<1>6. ASSUME NEW m \in S, NEW n \in OlderAmong(S)[m], NEW k \in OlderAmong(S)[n]
      PROVE  k \in OlderAmong(S)[m]
  BY <1>3, <1>4, <1>6
<1> QED BY <1>5, <1>6 DEF IsOrder

LEMMA BudgetType ==
  ASSUME TypeOK, NEW foreign \in Nat PROVE Budget(foreign) \in Budgets
<1>1. IsFiniteSet({m \in Models : loaded[m]})
  BY RegistryAssumption, FS_Subset
<1>2. ResidentBytes \in Nat
  BY <1>1, CardAssumption, SumIsNat DEF ResidentBytes
<1>3. transient \in Nat /\ Total \in Nat /\ Headroom \in Nat
  BY CardAssumption DEF TypeOK
<1>4. ClampAtZero(Total - ResidentBytes - transient - foreign) \in Nat
  BY <1>2, <1>3 DEF ClampAtZero
<1> QED BY <1>2, <1>3, <1>4 DEF Budget, Budgets

\* Whatever probe reading an admission decides on: if the idle models it may evict
\* are worth the shortfall, evicting the victims of the policy makes the need fit,
\* unless the card was over-committed already (vram_arbiter.py:293, the bytes the
\* code asks the policy for, vram_budget.py:52).
THEOREM EvictionMakesRoom ==
  ASSUME TypeOK, NEW S \in SUBSET {m \in Models : loaded[m]},
         NEW foreign \in Nat, NEW bytes \in Nat, ~OverCommitted(Budget(foreign)),
         SumFunctionOnSet(Size, S) >= Shortfall(Budget(foreign), bytes)
  PROVE  LET chosen == Victims(S, Size, Shortfall(Budget(foreign), bytes), OlderAmong(S))
         IN  CanFit(AfterFreeing(Budget(foreign), SumFunctionOnSet(Size, chosen)), bytes)
<1>1. PICK b : b = Budget(foreign)
  OBVIOUS
<1>2. b \in Budgets /\ b.resident = ResidentBytes
  BY <1>1, BudgetType DEF Budget
<1>3. Shortfall(b, bytes) \in Nat
  BY <1>2 DEF Budgets, Shortfall, Available, Pessimistic, ByAccounting, ClampAtZero
<1> DEFINE chosen == Victims(S, Size, Shortfall(b, bytes), OlderAmong(S))
           resident == {m \in Models : loaded[m]}
<1>4. IsFiniteSet(resident) /\ resident \in SUBSET Models
  BY RegistryAssumption, FS_Subset
<1>5. \A m \in Models : Size[m] \in Nat
  BY CardAssumption
<1>6. IsFiniteSet(S) /\ S \in SUBSET Models /\ S \in SUBSET resident
  BY <1>4, FS_Subset
<1>7. chosen \in SUBSET resident /\ IsFiniteSet(chosen)
  BY <1>4, <1>6, FS_Subset DEF Victims
<1>8. SumFunctionOnSet(Size, chosen) >= Shortfall(b, bytes)
  BY <1>1, <1>3, <1>5, <1>6, AgesAreAnOrder, VictimsCoverShortfall
<1>9. SumFunctionOnSet(Size, chosen) <= b.resident /\ SumFunctionOnSet(Size, chosen) \in Nat
  <2> HIDE DEF chosen, resident
  <2>1. \A m \in resident : Size[m] \in Nat
    BY <1>4, <1>5
  <2>2. SumFunctionOnSet(Size, chosen) <= SumFunctionOnSet(Size, resident)
    BY <1>4, <1>7, <2>1, SumGrows
  <2>3. SumFunctionOnSet(Size, chosen) \in Nat
    BY <1>7, <2>1, SumIsNat
  <2> QED BY <1>2, <2>2, <2>3 DEF ResidentBytes, resident
<1>10. CanFit(AfterFreeing(b, SumFunctionOnSet(Size, chosen)), bytes)
  <2> HIDE DEF chosen
  <2> QED BY <1>1, <1>2, <1>8, <1>9, ShortfallMakesRoom
<1> QED BY <1>1, <1>10
-----------------------------------------------------------------------------
(* The arbiter implements the promise *)

\* The mapping does not move while no lease and no residency does.
LEMMA MappingUnchanged ==
  ASSUME \A j \in Jobs : LeaseOf(j)' = LeaseOf(j), UNCHANGED loaded
  PROVE  UNCHANGED <<Leases, Resident>>
BY DEF Leases, Resident

LEMMA LeaseUnchanged ==
  ASSUME NEW j \in Jobs, pc'[j] \in Leased <=> pc[j] \in Leased,
         pc[j] \in Leased => held'[j] = held[j] /\ rebound'[j] = rebound[j]
  PROVE  LeaseOf(j)' = LeaseOf(j)
BY DEF LeaseOf

\* A lease covers models, so it is never mistaken for no lease.
LEMMA LeaseIsNoNoLease ==
  ASSUME TypeOK, NEW j \in Jobs, pc[j] \in Leased PROVE LeaseOf(j) # {NoJob}
BY JobAssumption DEF TypeOK, LeaseOf

\* What some lease covers is held.
LEMMA CoveredIsHeld ==
  ASSUME TypeOK, NEW m \in Promise!Covered PROVE HoldersOf(m) # {}
<1>1. PICK k \in Jobs : Leases[k] # {NoJob} /\ m \in Leases[k]
  BY DEF Promise!Covered
<1>2. m \in held[k] \ rebound[k]
  BY <1>1 DEF Leases, LeaseOf
<1> QED BY <1>2 DEF HoldersOf

LEMMA GrantIsGrant ==
  ASSUME TypeOK, HeldStaysResident, NEW j \in Jobs, pc[j] \notin Leased, NEW bytes,
         Grant(j, bytes), UNCHANGED <<held, rebound, loaded>>
  PROVE  Promise!Next
<1> DEFINE S == held[j] \ rebound[j]
<1>1. pc' = [pc EXCEPT ![j] = "leased"]
  BY DEF Grant
<1>2. S \in SUBSET Models
  BY DEF TypeOK
<1>3. Leases[j] = {NoJob}
  BY DEF Leases, LeaseOf
<1>4. S \subseteq Resident
  BY <1>2 DEF HeldStaysResident, HoldersOf, Resident
<1>5. Leases' = [Leases EXCEPT ![j] = S]
  BY <1>1 DEF TypeOK, Leases, LeaseOf, Leased
<1>6. Resident' = Resident
  BY DEF Resident
<1>7. Promise!Grant(j, S)
  BY <1>3, <1>4, <1>5, <1>6 DEF Promise!Grant
<1> QED BY <1>2, <1>7 DEF Promise!Next

LEMMA PromiseStep ==
  ASSUME IInv, [Next]_vars PROVE [Promise!Next]_<<Leases, Resident>>
<1> USE DEF IInv
<1>0. CASE UNCHANGED vars
  BY <1>0, MappingUnchanged, LeaseUnchanged DEF vars, jobVars, modelVars
<1>1. ASSUME NEW j \in Jobs, Acquire(j) PROVE [Promise!Next]_<<Leases, Resident>>
  BY <1>1, MappingUnchanged, LeaseUnchanged DEF TypeOK, Acquire, Leased, jobVars, modelVars
<1>2. ASSUME NEW j \in Jobs, DeadlinePasses(j) PROVE [Promise!Next]_<<Leases, Resident>>
  BY <1>2, MappingUnchanged, LeaseUnchanged DEF TypeOK, DeadlinePasses, Leased, jobVars, modelVars
<1>3. ASSUME NEW j \in Jobs, BeginAttempt(j) PROVE [Promise!Next]_<<Leases, Resident>>
  BY <1>3, MappingUnchanged, LeaseUnchanged DEF TypeOK, BeginAttempt, Leased, jobVars, modelVars, EnterKeys
<1>4. ASSUME NEW j \in Jobs, GetLock(j) PROVE [Promise!Next]_<<Leases, Resident>>
  BY <1>4, MappingUnchanged, LeaseUnchanged DEF TypeOK, GetLock, Leased, jobVars, modelVars, EnterKeys
<1>5. ASSUME NEW j \in Jobs, Park(j) PROVE [Promise!Next]_<<Leases, Resident>>
  BY <1>5, MappingUnchanged, LeaseUnchanged DEF TypeOK, Park, Leased, jobVars, modelVars
<1>6. ASSUME NEW j \in Jobs, WaitTimesOut(j) PROVE [Promise!Next]_<<Leases, Resident>>
  BY <1>6, MappingUnchanged, LeaseUnchanged DEF TypeOK, WaitTimesOut, Leased, jobVars, modelVars
<1>7. ASSUME NEW j \in Jobs, HoldKey(j) PROVE [Promise!Next]_<<Leases, Resident>>
  BY <1>7, MappingUnchanged, LeaseUnchanged DEF TypeOK, HoldKey, Leased, jobVars, modelVars, Raise, RollBack
<1>8. ASSUME NEW j \in Jobs, MakeRoomForKey(j) PROVE [Promise!Next]_<<Leases, Resident>>
  BY <1>8, MappingUnchanged, LeaseUnchanged DEF TypeOK, MakeRoomForKey, Leased, jobVars, modelVars, MakeRoom
<1>9. ASSUME NEW j \in Jobs, MakeRoomForTransient(j) PROVE [Promise!Next]_<<Leases, Resident>>
  BY <1>9, MappingUnchanged, LeaseUnchanged DEF TypeOK, MakeRoomForTransient, Leased, jobVars, modelVars, MakeRoom
<1>10. ASSUME NEW j \in Jobs, GrantWithoutTransient(j) PROVE [Promise!Next]_<<Leases, Resident>>
  BY <1>10, GrantIsGrant DEF GrantWithoutTransient, Leased
<1>11. ASSUME NEW j \in Jobs, EvictNext(j) PROVE [Promise!Next]_<<Leases, Resident>>
  BY <1>11, MappingUnchanged, LeaseUnchanged DEF TypeOK, EvictNext, Leased, jobVars, modelVars
<1>12. ASSUME NEW j \in Jobs, ExecutorUnloads(j) PROVE [Promise!Next]_<<Leases, Resident>>
  <2>1. Leases' = Leases
    BY <1>12 DEF ExecutorUnloads, jobVars, Leases, LeaseOf
  <2>2. CASE loaded' = loaded
    BY <2>1, <2>2 DEF Resident
  <2>3. ASSUME NEW v \in victims, loaded' = [loaded EXCEPT ![v] = FALSE]
        PROVE  [Promise!Next]_<<Leases, Resident>>
    <3>1. v \in Models /\ Resident' = Resident \ {v}
      BY <2>3 DEF TypeOK, Resident
    <3>2. v \notin Promise!Covered
      BY <3>1, CoveredIsHeld DEF TypeOK, PassInv, HeldStaysResident
    <3>3. CASE v \in Resident
      BY <2>1, <3>1, <3>2, <3>3 DEF Promise!Evict, Promise!Next
    <3>4. CASE v \notin Resident
      BY <2>1, <3>1, <3>4
    <3> QED BY <3>3, <3>4
  <2> QED BY <1>12, <2>2, <2>3 DEF ExecutorUnloads
<1>13. ASSUME NEW j \in Jobs, UnloadReturns(j) PROVE [Promise!Next]_<<Leases, Resident>>
  BY <1>13, MappingUnchanged, LeaseUnchanged DEF TypeOK, UnloadReturns, Leased, jobVars, modelVars, Raise, RollBack
<1>14. ASSUME NEW j \in Jobs, LoadKey(j) PROVE [Promise!Next]_<<Leases, Resident>>
  BY <1>14, MappingUnchanged, LeaseUnchanged DEF TypeOK, LoadKey, Leased, jobVars, modelVars, RoomMade
<1>15. ASSUME NEW j \in Jobs, GrantWithTransient(j) PROVE [Promise!Next]_<<Leases, Resident>>
  BY <1>15, GrantIsGrant DEF GrantWithTransient, RoomMade, Leased
<1>16. ASSUME NEW j \in Jobs, BlockOnHeld(j) PROVE [Promise!Next]_<<Leases, Resident>>
  <2>1. \A k \in Jobs : LeaseOf(k)' = LeaseOf(k)
    BY <1>16, BlockLeavesTo, LeaseUnchanged
    DEF TypeOK, BlockOnHeld, RoomMade, Block, RollBack, Leased
  <2> QED BY <1>16, <2>1, MappingUnchanged DEF BlockOnHeld, Block
<1>17. ASSUME NEW j \in Jobs, ExecutorLoads(j) PROVE [Promise!Next]_<<Leases, Resident>>
  <2>1. Leases' = Leases
    BY <1>17 DEF ExecutorLoads, jobVars, Leases, LeaseOf
  <2>2. CASE loaded' = loaded
    BY <2>1, <2>2 DEF Resident
  <2>3. CASE loaded' = [loaded EXCEPT ![Head(keys[j])] = TRUE]
    <3>1. CASE Head(keys[j]) \in Models
      <4>1. Resident' = Resident \cup {Head(keys[j])}
        BY <2>3, <3>1 DEF TypeOK, Resident
      <4> QED BY <2>1, <3>1, <4>1 DEF Promise!Load, Promise!Next
    <3>2. CASE Head(keys[j]) \notin Models
      BY <2>1, <2>3, <3>2 DEF TypeOK, Resident
    <3> QED BY <3>1, <3>2
  <2> QED BY <1>17, <2>2, <2>3 DEF ExecutorLoads
<1>18. ASSUME NEW j \in Jobs, LoadReturns(j) PROVE [Promise!Next]_<<Leases, Resident>>
  BY <1>18, MappingUnchanged, LeaseUnchanged DEF TypeOK, LoadReturns, Leased, jobVars, modelVars
<1>19. ASSUME NEW j \in Jobs, LoadRetries(j) PROVE [Promise!Next]_<<Leases, Resident>>
  BY <1>19, MappingUnchanged, LeaseUnchanged DEF TypeOK, LoadRetries, Leased, jobVars, modelVars, MakeRoom
<1>20. ASSUME NEW j \in Jobs, LoadFails(j) PROVE [Promise!Next]_<<Leases, Resident>>
  BY <1>20, MappingUnchanged, LeaseUnchanged DEF TypeOK, LoadFails, Leased, jobVars, modelVars, Raise, RollBack
<1>21. ASSUME NEW j \in Jobs, Release(j) PROVE [Promise!Next]_<<Leases, Resident>>
  <2>1. Leases[j] # {NoJob}
    BY <1>21, LeaseIsNoNoLease DEF Release, Leases, Leased
  <2>2. Leases' = [Leases EXCEPT ![j] = {NoJob}]
    BY <1>21 DEF TypeOK, Release, Leases, LeaseOf, Leased
  <2>3. Resident' = Resident
    BY <1>21 DEF Release, Resident
  <2> QED BY <2>1, <2>2, <2>3 DEF Promise!Release, Promise!Next
<1>22. ASSUME NEW j \in Jobs, EnterBarrier(j) PROVE [Promise!Next]_<<Leases, Resident>>
  BY <1>22, MappingUnchanged, LeaseUnchanged DEF TypeOK, EnterBarrier, Leased, jobVars, modelVars
<1>23. ASSUME NEW j \in Jobs, GetBarrier(j) PROVE [Promise!Next]_<<Leases, Resident>>
  BY <1>23, MappingUnchanged, LeaseUnchanged DEF TypeOK, GetBarrier, Leased, jobVars, modelVars
<1>24. ASSUME NEW j \in Jobs, Rebind(j) PROVE [Promise!Next]_<<Leases, Resident>>
  <2>1. PICK H \in Handles[j] :
            /\ loaded' = [m \in Models |-> loaded[m] /\ m \notin H]
            /\ rebound' = [rebound EXCEPT ![j] = @ \cup (held[j] \cap H)]
            /\ held' = held
    BY <1>24 DEF Rebind
  <2>2. pc[j] \in Leased /\ pc' = [pc EXCEPT ![j] = "leased"]
    BY <1>24 DEF Rebind, Leased
  <2>3. Leases[j] # {NoJob}
    BY <2>2, LeaseIsNoNoLease DEF Leases
  <2>4. ASSUME NEW k \in Jobs \ {j}, Leases[k] # {NoJob} PROVE Leases[k] \cap H = {}
    BY <2>4, HandlesAreOwn DEF Leases, LeaseOf
  <2>5. Leases' = [Leases EXCEPT ![j] = @ \ H]
    BY <2>1, <2>2 DEF TypeOK, Leases, LeaseOf, Leased
  <2>6. Resident' = Resident \ H
    BY <2>1 DEF Resident
  <2>7. H \in SUBSET Models
    BY JobAssumption
  <2> QED BY <2>3, <2>4, <2>5, <2>6, <2>7 DEF Promise!Recreate, Promise!Next
<1> QED
  BY <1>0, <1>1, <1>2, <1>3, <1>4, <1>5, <1>6, <1>7, <1>8, <1>9, <1>10, <1>11, <1>12, <1>13, <1>14, <1>15, <1>16, <1>17, <1>18, <1>19, <1>20, <1>21, <1>22, <1>23, <1>24
  DEF Next, AcquireStep, ExecutorStep, RecoveryStep

\* Every behaviour of the arbiter is one of the promise: leases cover resident
\* models until they are released or recreate them (property KeepsPromise).
THEOREM ArbiterKeepsPromise == Spec => KeepsPromise
<1>1. Init => Promise!Init
  BY DEF Init, Promise!Init, Leases, LeaseOf, Resident, Leased
<1>2. IInv /\ [Next]_vars => [Promise!Next]_<<Leases, Resident>>
  BY PromiseStep
<1> QED BY <1>1, <1>2, Inductive, PTL DEF Spec, KeepsPromise, Promise!Spec
=============================================================================
