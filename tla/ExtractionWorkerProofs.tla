---------------------- MODULE ExtractionWorkerProofs ----------------------
(***************************************************************************)
(* Proofs about ExtractionWorker, for every set of archives, every batch   *)
(* size and every number of disturbances.                                  *)
(***************************************************************************)
EXTENDS ExtractionWorker, FiniteSetTheorems, TLAPS

\* What the type of clients and of the sets of archives rests on: every
\* connection was opened, and a unit under way is an archive.
Counted ==
  /\ clients <= opened
  /\ at \in {"extract", "mark"} => unit \in Logs

\* The invariant of the worker: what it promises and why.
IInv == TypeOK /\ Counted /\ NothingHidden /\ MarkFollowsExtract /\ LadderOK

\* What the proofs need of the constants.
LEMMA Constants ==
  /\ Logs \in SUBSET Nat /\ IsFiniteSet(Logs) /\ None \notin Logs
  /\ Pending0 \in SUBSET Logs /\ BatchSize \in Nat
  /\ MaxConnections \in Nat /\ MaxOutages \in Nat /\ MaxKills \in Nat /\ MaxStops \in Nat
  BY ConstantsAssumption

LEMMA InitIInv == Init => IInv
<1> SUFFICES ASSUME Init PROVE IInv
  OBVIOUS
<1> USE Constants DEF Init, Fresh
<1>1. TypeOK
  <2>1. episodes \in [Logs -> 0..EpisodesPerLog] /\ marked \in [Logs -> 0..EpisodesPerLog]
    BY DEF EpisodesPerLog
  <2>2. read \in [Logs -> 0..ReadLimit] /\ attempts \in [Logs -> Nat]
    BY DEF ReadLimit
  <2>3. stopping \in BOOLEAN /\ up \in BOOLEAN
    OBVIOUS
  <2>. QED
    BY <2>1, <2>2, <2>3 DEF TypeOK, Idle
<1>2. Counted /\ NothingHidden /\ MarkFollowsExtract
  BY DEF Counted, NothingHidden, MarkFollowsExtract
<1>3. LadderOK
  BY DEF LadderOK, AtMostTwoTries, MAX_UNIT_ATTEMPTS
<1>. QED
  BY <1>1, <1>2, <1>3 DEF IInv

\* Every step keeps the types.
LEMMA TypeStep == IInv /\ [Next]_vars => TypeOK' /\ Counted'
<1> SUFFICES ASSUME TypeOK, Counted, [Next]_vars PROVE TypeOK' /\ Counted'
  BY DEF IInv
<1> USE Constants
<1> USE DEF TypeOK, Counted, Idle, Touch, EpisodesPerLog, ReadLimit,
            store, activity, ladder, worker, counters
<1>. QED
  <2>1. ASSUME StartDaemon PROVE TypeOK' /\ Counted'
    BY <2>1 DEF StartDaemon
  <2>2. ASSUME Tick PROVE TypeOK' /\ Counted'
    BY <2>2 DEF Tick
  <2>3. ASSUME Connect PROVE TypeOK' /\ Counted'
    BY <2>3 DEF Connect
  <2>4. ASSUME Disconnect PROVE TypeOK' /\ Counted'
    BY <2>4 DEF Disconnect
  <2>5. ASSUME FinishIngest PROVE TypeOK' /\ Counted'
    BY <2>5 DEF FinishIngest
  <2>6. ASSUME NEW l \in Logs, StartIngest(l) PROVE TypeOK' /\ Counted'
    BY <2>6 DEF StartIngest
  <2>7. ASSUME SeeShutdown PROVE TypeOK' /\ Counted'
    BY <2>7 DEF SeeShutdown
  <2>8. ASSUME GoIdle PROVE TypeOK' /\ Counted'
    BY <2>8 DEF GoIdle
  <2>9. ASSUME TriggerAfterIdle PROVE TypeOK' /\ Counted'
    BY <2>9 DEF TriggerAfterIdle
  <2>10. ASSUME Exit PROVE TypeOK' /\ Counted'
    <3>1. attempts' \in [Logs -> Nat] /\ queue' \in SUBSET Logs /\ skipped' \in SUBSET Logs
      BY <2>10 DEF Exit, ProcessEnds
    <3>2. stopping' \in BOOLEAN /\ up' \in BOOLEAN
      BY <2>10 DEF Exit, ProcessEnds
    <3>3. kills' \in 0..MaxKills /\ clients' \in 0..MaxConnections /\ clients' <= opened'
      BY <2>10 DEF Exit, ProcessEnds
    <3>. QED
      BY <2>10, <3>1, <3>2, <3>3 DEF Exit, ProcessEnds
  <2>11. ASSUME CancelIngest PROVE TypeOK' /\ Counted'
    BY <2>11 DEF CancelIngest
  <2>12. ASSUME WakeUp PROVE TypeOK' /\ Counted'
    BY <2>12 DEF WakeUp
  <2>13. ASSUME StopWaiting PROVE TypeOK' /\ Counted'
    BY <2>13 DEF StopWaiting, EndBatch
  <2>14. ASSUME List PROVE TypeOK' /\ Counted'
    BY <2>14 DEF List, TakePending, FirstOf, Eligible, Awaiting
  <2>15. ASSUME ListFails PROVE TypeOK' /\ Counted'
    BY <2>15 DEF ListFails
  <2>16. ASSUME LeaveBatch PROVE TypeOK' /\ Counted'
    BY <2>16 DEF LeaveBatch, EndBatch
  <2>17. ASSUME NEW l \in Logs, StartUnit(l) PROVE TypeOK' /\ Counted'
    BY <2>17 DEF StartUnit
  <2>18. ASSUME Extract PROVE TypeOK' /\ Counted'
    BY <2>18 DEF Extract, ReadOnceMore
  <2>19. ASSUME Mark PROVE TypeOK' /\ Counted'
    BY <2>19 DEF Mark
  <2>20. ASSUME Fail PROVE TypeOK' /\ Counted'
    <3>1. attempts' \in [Logs -> Nat] /\ streak' \in Nat /\ unit \in Logs
      BY <2>20 DEF Fail, Wedged
    <3>2. skipped' \in SUBSET Logs /\ quarantine' \in SUBSET Logs
      BY <2>20, <3>1 DEF Fail, Wedged
    <3>3. /\ queue' \in SUBSET Logs /\ yield' \in Nat /\ age' \in 0..3
          /\ unit' = None /\ at' \in {"off", "batch"}
      <4>1. CASE EndBatch("off", yield)
        BY <4>1 DEF EndBatch
      <4>2. CASE at' = "batch" /\ unit' = None /\ UNCHANGED <<queue, yield, age>>
        BY <4>2
      <4>. QED
        BY <2>20, <4>1, <4>2 DEF Fail, Wedged
    <3>. QED
      BY <2>20, <3>1, <3>2, <3>3 DEF Fail, Wedged
  <2>21. ASSUME ShutdownRequest PROVE TypeOK' /\ Counted'
    BY <2>21 DEF ShutdownRequest
  <2>22. ASSUME Kill PROVE TypeOK' /\ Counted'
    <3>1. attempts' \in [Logs -> Nat] /\ queue' \in SUBSET Logs /\ skipped' \in SUBSET Logs
      BY <2>22 DEF Kill, ProcessEnds
    <3>2. stopping' \in BOOLEAN /\ up' \in BOOLEAN
      BY <2>22 DEF Kill, ProcessEnds
    <3>3. kills' \in 0..MaxKills /\ clients' \in 0..MaxConnections /\ clients' <= opened'
      BY <2>22 DEF Kill, ProcessEnds
    <3>. QED
      BY <2>22, <3>1, <3>2, <3>3 DEF Kill, ProcessEnds
  <2>23. ASSUME ProviderFails PROVE TypeOK' /\ Counted'
    <3>1. up' \in BOOLEAN
      BY <2>23 DEF ProviderFails
    <3>2. outages' \in 0..MaxOutages
      BY <2>23 DEF ProviderFails
    <3>. QED
      BY <2>23, <3>1, <3>2 DEF ProviderFails
  <2>24. ASSUME ProviderReturns PROVE TypeOK' /\ Counted'
    BY <2>24 DEF ProviderReturns
  <2>25. CASE UNCHANGED vars
    BY <2>25 DEF vars
  <2>. QED
    BY <2>1, <2>2, <2>3, <2>4, <2>5, <2>6, <2>7, <2>8, <2>9, <2>10, <2>11, <2>12, <2>13,
       <2>14, <2>15, <2>16, <2>17, <2>18, <2>19, <2>20, <2>21, <2>22, <2>23, <2>24, <2>25
       DEF Next, ClientStep, DaemonStep, WorkerStep, Disturbance

\* Nothing becomes extracted without having been read: the mark belongs to the
\* unit whose extraction has just succeeded.
LEMMA HiddenStep == IInv /\ [Next]_vars => NothingHidden' /\ MarkFollowsExtract'
<1> SUFFICES ASSUME TypeOK, NothingHidden, MarkFollowsExtract, [Next]_vars
             PROVE  NothingHidden' /\ MarkFollowsExtract'
  BY DEF IInv
<1> USE Constants
<1> USE DEF TypeOK, NothingHidden, MarkFollowsExtract, Idle, EpisodesPerLog, ReadLimit,
            store, activity, ladder, worker, counters
<1>. QED
  <2>1. ASSUME StartDaemon PROVE NothingHidden' /\ MarkFollowsExtract'
    BY <2>1 DEF StartDaemon
  <2>2. ASSUME Tick PROVE NothingHidden' /\ MarkFollowsExtract'
    BY <2>2 DEF Tick
  <2>3. ASSUME Connect PROVE NothingHidden' /\ MarkFollowsExtract'
    BY <2>3 DEF Connect
  <2>4. ASSUME Disconnect PROVE NothingHidden' /\ MarkFollowsExtract'
    BY <2>4 DEF Disconnect
  <2>5. ASSUME FinishIngest PROVE NothingHidden' /\ MarkFollowsExtract'
    BY <2>5 DEF FinishIngest
  <2>6. ASSUME NEW l \in Logs, StartIngest(l) PROVE NothingHidden' /\ MarkFollowsExtract'
    BY <2>6 DEF StartIngest
  <2>7. ASSUME SeeShutdown PROVE NothingHidden' /\ MarkFollowsExtract'
    BY <2>7 DEF SeeShutdown
  <2>8. ASSUME GoIdle PROVE NothingHidden' /\ MarkFollowsExtract'
    BY <2>8 DEF GoIdle
  <2>9. ASSUME TriggerAfterIdle PROVE NothingHidden' /\ MarkFollowsExtract'
    BY <2>9 DEF TriggerAfterIdle
  <2>10. ASSUME Exit PROVE NothingHidden' /\ MarkFollowsExtract'
    BY <2>10 DEF Exit, ProcessEnds
  <2>11. ASSUME CancelIngest PROVE NothingHidden' /\ MarkFollowsExtract'
    BY <2>11 DEF CancelIngest
  <2>12. ASSUME WakeUp PROVE NothingHidden' /\ MarkFollowsExtract'
    BY <2>12 DEF WakeUp
  <2>13. ASSUME StopWaiting PROVE NothingHidden' /\ MarkFollowsExtract'
    BY <2>13 DEF StopWaiting, EndBatch
  <2>14. ASSUME List PROVE NothingHidden' /\ MarkFollowsExtract'
    BY <2>14 DEF List, TakePending, FirstOf, Eligible, Awaiting
  <2>15. ASSUME ListFails PROVE NothingHidden' /\ MarkFollowsExtract'
    BY <2>15 DEF ListFails
  <2>16. ASSUME LeaveBatch PROVE NothingHidden' /\ MarkFollowsExtract'
    BY <2>16 DEF LeaveBatch, EndBatch
  <2>17. ASSUME NEW l \in Logs, StartUnit(l) PROVE NothingHidden' /\ MarkFollowsExtract'
    BY <2>17 DEF StartUnit
  <2>18. ASSUME Extract PROVE NothingHidden' /\ MarkFollowsExtract'
    BY <2>18 DEF Extract, ReadOnceMore
  <2>19. ASSUME Mark PROVE NothingHidden' /\ MarkFollowsExtract'
    BY <2>19 DEF Mark
  <2>20. ASSUME Fail PROVE NothingHidden' /\ MarkFollowsExtract'
    BY <2>20 DEF Fail, Wedged, EndBatch
  <2>21. ASSUME ShutdownRequest PROVE NothingHidden' /\ MarkFollowsExtract'
    BY <2>21 DEF ShutdownRequest
  <2>22. ASSUME Kill PROVE NothingHidden' /\ MarkFollowsExtract'
    BY <2>22 DEF Kill, ProcessEnds
  <2>23. ASSUME ProviderFails PROVE NothingHidden' /\ MarkFollowsExtract'
    BY <2>23 DEF ProviderFails
  <2>24. ASSUME ProviderReturns PROVE NothingHidden' /\ MarkFollowsExtract'
    BY <2>24 DEF ProviderReturns
  <2>25. CASE UNCHANGED vars
    BY <2>25 DEF vars
  <2>. QED
    BY <2>1, <2>2, <2>3, <2>4, <2>5, <2>6, <2>7, <2>8, <2>9, <2>10, <2>11, <2>12, <2>13,
       <2>14, <2>15, <2>16, <2>17, <2>18, <2>19, <2>20, <2>21, <2>22, <2>23, <2>24, <2>25
       DEF Next, ClientStep, DaemonStep, WorkerStep, Disturbance

\* An archive set aside leaves the queue for good, so no third attempt starts.
LEMMA LadderStep == IInv /\ [Next]_vars => LadderOK'
<1> SUFFICES ASSUME TypeOK, LadderOK, [Next]_vars PROVE LadderOK'
  BY DEF IInv
<1> USE Constants
<1> USE DEF TypeOK, LadderOK, AtMostTwoTries, MAX_UNIT_ATTEMPTS,
            store, activity, ladder, worker, counters
<1>. QED
  <2>1. ASSUME StartDaemon PROVE LadderOK'
    BY <2>1 DEF StartDaemon
  <2>2. ASSUME Tick PROVE LadderOK'
    BY <2>2 DEF Tick
  <2>3. ASSUME Connect PROVE LadderOK'
    BY <2>3 DEF Connect
  <2>4. ASSUME Disconnect PROVE LadderOK'
    BY <2>4 DEF Disconnect
  <2>5. ASSUME FinishIngest PROVE LadderOK'
    BY <2>5 DEF FinishIngest
  <2>6. ASSUME NEW l \in Logs, StartIngest(l) PROVE LadderOK'
    BY <2>6 DEF StartIngest
  <2>7. ASSUME SeeShutdown PROVE LadderOK'
    BY <2>7 DEF SeeShutdown
  <2>8. ASSUME GoIdle PROVE LadderOK'
    BY <2>8 DEF GoIdle
  <2>9. ASSUME TriggerAfterIdle PROVE LadderOK'
    BY <2>9 DEF TriggerAfterIdle
  <2>10. ASSUME Exit PROVE LadderOK'
    BY <2>10 DEF Exit, ProcessEnds
  <2>11. ASSUME CancelIngest PROVE LadderOK'
    BY <2>11 DEF CancelIngest
  <2>12. ASSUME WakeUp PROVE LadderOK'
    BY <2>12 DEF WakeUp
  <2>13. ASSUME StopWaiting PROVE LadderOK'
    BY <2>13 DEF StopWaiting, EndBatch
  <2>14. ASSUME List PROVE LadderOK'
    BY <2>14 DEF List, TakePending, FirstOf
  <2>15. ASSUME ListFails PROVE LadderOK'
    BY <2>15 DEF ListFails
  <2>16. ASSUME LeaveBatch PROVE LadderOK'
    BY <2>16 DEF LeaveBatch, EndBatch
  <2>17. ASSUME NEW l \in Logs, StartUnit(l) PROVE LadderOK'
    BY <2>17 DEF StartUnit
  <2>18. ASSUME Extract PROVE LadderOK'
    BY <2>18 DEF Extract, ReadOnceMore
  <2>19. ASSUME Mark PROVE LadderOK'
    BY <2>19 DEF Mark
  <2>20. ASSUME Fail PROVE LadderOK'
    <3>1. unit \in Logs \ (queue \cup skipped) /\ attempts[unit] < 2
      BY <2>20 DEF Fail, Wedged
    <3>2. attempts' = [attempts EXCEPT ![unit] = attempts[unit] + 1]
      BY <2>20 DEF Fail, Wedged
    <3>3. skipped' = IF attempts[unit] + 1 >= 2 THEN skipped \cup {unit} ELSE skipped
      BY <2>20, <3>1, <3>2 DEF Fail, Wedged
    <3>4. queue' \in SUBSET queue /\ at' \in {"off", "batch"}
      BY <2>20 DEF Fail, Wedged, EndBatch
    <3>. QED
      BY <3>1, <3>2, <3>3, <3>4
  <2>21. ASSUME ShutdownRequest PROVE LadderOK'
    BY <2>21 DEF ShutdownRequest
  <2>22. ASSUME Kill PROVE LadderOK'
    BY <2>22 DEF Kill, ProcessEnds
  <2>23. ASSUME ProviderFails PROVE LadderOK'
    BY <2>23 DEF ProviderFails
  <2>24. ASSUME ProviderReturns PROVE LadderOK'
    BY <2>24 DEF ProviderReturns
  <2>25. CASE UNCHANGED vars
    BY <2>25 DEF vars
  <2>. QED
    BY <2>1, <2>2, <2>3, <2>4, <2>5, <2>6, <2>7, <2>8, <2>9, <2>10, <2>11, <2>12, <2>13,
       <2>14, <2>15, <2>16, <2>17, <2>18, <2>19, <2>20, <2>21, <2>22, <2>23, <2>24, <2>25
       DEF Next, ClientStep, DaemonStep, WorkerStep, Disturbance

THEOREM Inductive == Spec => []IInv
<1>1. IInv /\ [Next]_vars => IInv'
  BY TypeStep, HiddenStep, LadderStep DEF IInv
<1>. QED
  BY <1>1, InitIInv, PTL DEF Spec

\* The variables keep their types.
THEOREM TypeInvariant == Spec => []TypeOK
<1>1. IInv => TypeOK
  BY DEF IInv
<1>. QED
  BY <1>1, Inductive, PTL

\* However a batch is interrupted, cancelled, killed or failed, an archive that
\* no successful extraction has read keeps every episode pending.
THEOREM NothingIsHidden == Spec => []NothingHidden
<1>1. IInv => NothingHidden
  BY DEF IInv
<1>. QED
  BY <1>1, Inductive, PTL

\* The ladder of record_failure and take_pending: two attempts, and never an
\* archive that was given up on in a batch, with or without a quarantine file.
THEOREM LadderHolds == Spec => []LadderOK
<1>1. IInv => LadderOK
  BY DEF IInv
<1>. QED
  BY <1>1, Inductive, PTL

-----------------------------------------------------------------------------
(* The over-fetch of take_pending                                          *)

\* The members of S before x, and how they count.
Before(x, S) == {y \in S : y < x}

LEMMA BeforeIsFinite ==
  ASSUME NEW S \in SUBSET Nat, IsFiniteSet(S), NEW x
  PROVE  IsFiniteSet(Before(x, S)) /\ Cardinality(Before(x, S)) \in Nat
<1>1. Before(x, S) \in SUBSET S
  BY DEF Before
<1>. QED
  BY <1>1, FS_Subset, FS_CardinalityType

\* Fetching as many archives more as may have to be dropped loses none: what
\* is left after dropping them starts with the archives a batch wants.
LEMMA OverFetchIsEnough ==
  ASSUME NEW S \in SUBSET Nat, IsFiniteSet(S), NEW K, IsFiniteSet(K), NEW k \in Nat
  PROVE  FirstOf(k, FirstOf(k + Cardinality(K), S) \ K) = FirstOf(k, S \ K)
<1> DEFINE c == Cardinality(K)
           F == FirstOf(k + c, S)
<1>0. c \in Nat
  BY FS_CardinalityType
<1>1. F \in SUBSET S /\ F \ K \in SUBSET Nat /\ S \ K \in SUBSET Nat
  BY DEF FirstOf
<1>2. IsFiniteSet(F) /\ IsFiniteSet(F \ K) /\ IsFiniteSet(S \ K)
  BY <1>1, FS_Subset, FS_Difference
<1>3. \A T \in SUBSET Nat : \A x : x \in FirstOf(k, T) <=> x \in T /\ Cardinality(Before(x, T)) < k
  BY DEF FirstOf, Before
<1>4. ASSUME NEW x \in FirstOf(k, S \ K) PROVE x \in FirstOf(k, F \ K)
  <2>1. x \in S \ K /\ Cardinality(Before(x, S \ K)) < k
    BY <1>1, <1>3, <1>4
  <2>2. Cardinality(Before(x, S)) < k + c
    <3>1. Before(x, S) \in SUBSET (Before(x, S \ K) \cup K)
      BY DEF Before
    <3>2. IsFiniteSet(Before(x, S \ K)) /\ Cardinality(Before(x, S \ K)) \in Nat
      BY <1>1, <1>2, BeforeIsFinite
    <3>3. /\ IsFiniteSet(Before(x, S \ K) \cup K)
          /\ Cardinality(Before(x, S \ K) \cup K)
               = Cardinality(Before(x, S \ K)) + c - Cardinality(Before(x, S \ K) \cap K)
      BY <3>2, FS_Union
    <3>4. Cardinality(Before(x, S \ K) \cap K) \in Nat
      BY <3>2, FS_Intersection, FS_CardinalityType
    <3>5. Cardinality(Before(x, S)) <= Cardinality(Before(x, S \ K) \cup K)
      BY <3>1, <3>3, FS_Subset
    <3>6. Cardinality(Before(x, S)) \in Nat
      BY BeforeIsFinite
    <3>. QED
      BY <1>0, <2>1, <3>2, <3>3, <3>4, <3>5, <3>6
  <2>3. x \in F \ K
    BY <2>1, <2>2 DEF FirstOf, Before
  <2>4. Before(x, F \ K) \in SUBSET Before(x, S \ K)
    BY <1>1 DEF Before
  <2>5. Cardinality(Before(x, F \ K)) <= Cardinality(Before(x, S \ K))
    BY <1>1, <1>2, <2>4, BeforeIsFinite, FS_Subset
  <2>6. Cardinality(Before(x, F \ K)) \in Nat /\ Cardinality(Before(x, S \ K)) \in Nat
    BY <1>1, <1>2, BeforeIsFinite
  <2>. QED
    BY <1>1, <1>3, <2>1, <2>3, <2>5, <2>6
<1>5. ASSUME NEW x \in FirstOf(k, F \ K) PROVE x \in FirstOf(k, S \ K)
  <2>1. x \in F \ K /\ Cardinality(Before(x, F \ K)) < k
    BY <1>1, <1>3, <1>5
  <2>2. x \in S /\ Cardinality(Before(x, S)) < k + c
    BY <2>1 DEF FirstOf, Before
  <2>3. ASSUME NEW y \in S, y < x PROVE y \in F
    <3>0. x \in Nat /\ y \in Nat /\ \A z \in S : z \in Nat
      BY <2>2, <2>3
    <3>1. Before(y, S) \in SUBSET Before(x, S)
      <4> SUFFICES ASSUME NEW z \in S, z < y PROVE z < x
        BY DEF Before
      <4>. QED
        BY <2>3, <3>0
    <3>2. Cardinality(Before(y, S)) <= Cardinality(Before(x, S))
      BY <3>1, BeforeIsFinite, FS_Subset
    <3>3. Cardinality(Before(y, S)) \in Nat /\ Cardinality(Before(x, S)) \in Nat
      BY BeforeIsFinite
    <3>4. Cardinality(Before(y, S)) < k + c
      BY <1>0, <2>2, <3>2, <3>3
    <3>. QED
      BY <3>4 DEF FirstOf, Before
  <2>4. Before(x, F \ K) = Before(x, S \ K)
    BY <1>1, <2>3 DEF Before
  <2>. QED
    BY <1>1, <1>3, <2>1, <2>2, <2>4
<1>. QED
  BY <1>4, <1>5

\* What the batch is made of, in any state.
LEMMA TakePendingIsFull == TypeOK => TakePending = FirstOf(BatchSize, Eligible \ skipped)
<1> SUFFICES ASSUME TypeOK PROVE TakePending = FirstOf(BatchSize, Eligible \ skipped)
  OBVIOUS
<1>1. Eligible \in SUBSET Logs /\ skipped \in SUBSET Logs
  BY DEF TypeOK, Eligible, Awaiting
<1>2. Eligible \in SUBSET Nat /\ IsFiniteSet(Eligible) /\ IsFiniteSet(skipped)
  BY <1>1, ConstantsAssumption, FS_Subset
<1>. QED
  BY <1>2, OverFetchIsEnough, ConstantsAssumption DEF TakePending

\* A batch is full whenever enough archives are worth attempting, whichever
\* archives this daemon or an earlier one has given up on.
THEOREM BatchesAreFull == Spec => BatchIsFull
<1>1. TypeOK /\ [Next]_vars
        => [List => queue' = FirstOf(BatchSize, Eligible \ skipped)]_vars
  <2> SUFFICES ASSUME TypeOK
               PROVE  List => queue' = FirstOf(BatchSize, Eligible \ skipped)
    OBVIOUS
  <2>. QED
    BY TakePendingIsFull DEF List
<1>. QED
  BY <1>1, TypeInvariant, PTL DEF Spec, BatchIsFull
=============================================================================
