------------------------- MODULE JobLifecycleProofs -------------------------
(***************************************************************************)
(* Proofs about JobLifecycle for any jobs, workers, retry limit and number *)
(* of mishaps, and, in the second part, about Rendering, what a job        *)
(* composes and renders, for any document and any data.                    *)
(***************************************************************************)
EXTENDS JobLifecycle, Rendering, TLAPS

-----------------------------------------------------------------------------
(* Types *)

\* The initial state has the shape TypeOK describes.
LEMMA TypeInit == Init => TypeOK
<1> SUFFICES ASSUME Init PROVE TypeOK
  OBVIOUS
<1>1. RowsOK
  BY DEF Init, RowsOK, Statuses, NoRow
<1>2. BrokerOK
  BY DEF Init, BrokerOK, NoMessages
<1>3. WorkersOK
  BY RetriesAssumption DEF Init, WorkersOK, Phases, Views, Statuses
<1> QED
  BY <1>1, <1>2, <1>3 DEF TypeOK

\* Sending or taking a message keeps the shape of the queue.
LEMMA QueueType ==
  ASSUME BrokerOK, NEW j \in Jobs, NEW n \in 0..MaxRetries, NEW m \in Nat
  PROVE  [queue EXCEPT ![j][n] = m] \in [Jobs -> [0..MaxRetries -> Nat]]
<1>1. [queue[j] EXCEPT ![n] = m] \in [0..MaxRetries -> Nat]
  BY DEF BrokerOK
<1> QED
  BY <1>1 DEF BrokerOK

\* Delivering a message keeps the shape of the queue.
LEMMA DeliverType ==
  ASSUME BrokerOK, NEW j \in Jobs, NEW n \in 0..MaxRetries, Deliver(j, n)
  PROVE  queue' \in [Jobs -> [0..MaxRetries -> Nat]]
<1>1. queue[j][n] \in Nat
  BY DEF BrokerOK
<1>2. queue[j][n] + 1 \in Nat
  BY <1>1
<1> QED
  BY <1>2, QueueType DEF Deliver

\* Counting a mishap keeps the shape of the budget.
LEMMA SpendType ==
  ASSUME BrokerOK, NEW m \in Mishaps, Spend(m)
  PROVE  used' \in [Mishaps -> Nat]
BY DEF BrokerOK, Spend

\* Rows, objects and flags keep their types in every step.
LEMMA RowsType == TypeOK /\ [Next]_vars => RowsOK'
<1> SUFFICES ASSUME TypeOK, [Next]_vars PROVE RowsOK'
  OBVIOUS
<1> USE DEF TypeOK, RowsOK, dbVars, Statuses
<1>1. ASSUME NEW j \in Jobs, CreateQueued(j) PROVE RowsOK'
  BY <1>1 DEF CreateQueued
<1>2. ASSUME NEW j \in Jobs, CreateFromCache(j) PROVE RowsOK'
  <2>1. PICK i \in Jobs :
          /\ rows' = [rows EXCEPT ![j] = rows[i]]
          /\ objects' = [objects EXCEPT ![j] =
                [k \in Kinds |-> IF rows[i][k] # 0 THEN objects[i][k] ELSE objects[j][k]]]
    BY <1>2 DEF CreateFromCache, CacheHits
  <2>2. [k \in Kinds |-> IF rows[i][k] # 0 THEN objects[i][k] ELSE objects[j][k]]
          \in [Kinds -> Nat]
    OBVIOUS
  <2> QED
    BY <1>2, <2>1, <2>2 DEF CreateFromCache
<1>3. ASSUME NEW j \in Jobs, Enqueue(j) PROVE RowsOK'
  BY <1>3 DEF Enqueue
<1>4. ASSUME NEW j \in Jobs, LoseEnqueue(j) PROVE RowsOK'
  BY <1>4 DEF LoseEnqueue
<1>5. ASSUME NEW j \in Jobs, GrowOld(j) PROVE RowsOK'
  BY <1>5 DEF GrowOld
<1>6. ASSUME NEW j \in Jobs, RecoverStale(j) PROVE RowsOK'
  BY <1>6 DEF RecoverStale
<1>7. ASSUME NEW j \in Jobs, PurgeFailed(j) PROVE RowsOK'
  BY <1>7 DEF PurgeFailed
<1>8. ASSUME NEW w \in Workers, NEW j \in Jobs, NEW n \in 0..MaxRetries, Receive(w, j, n)
      PROVE  RowsOK'
  BY <1>8 DEF Receive
<1>9. ASSUME NEW w \in Workers, Claim(w) PROVE RowsOK'
  BY <1>9 DEF Claim
<1>10. ASSUME NEW w \in Workers, SkipClaim(w) PROVE RowsOK'
  BY <1>10 DEF SkipClaim
<1>11. ASSUME NEW w \in Workers, FinishRendering(w) PROVE RowsOK'
  BY <1>11 DEF FinishRendering
<1>12. ASSUME NEW w \in Workers, Upload(w) PROVE RowsOK'
  <2>1. task[w] \in Jobs /\ NextKind(w) \in Kinds /\ draft[w] \in Nat
    BY <1>12 DEF Upload, WorkersOK, NextKind, Kinds
  <2>2. [objects[task[w]] EXCEPT ![NextKind(w)] = draft[w]] \in [Kinds -> Nat]
    BY <2>1
  <2> QED
    BY <1>12, <2>1, <2>2 DEF Upload
<1>13. ASSUME NEW w \in Workers, Insert(w) PROVE RowsOK'
  BY <1>13 DEF Insert
<1>14. ASSUME NEW w \in Workers, Commit(w) PROVE RowsOK'
  <2>1. task[w] \in Jobs /\ draft[w] \in Nat
    BY <1>14 DEF Commit, WorkersOK
  <2>2. [k \in Kinds |-> IF k \in staged[w] THEN draft[w] ELSE rows[task[w]][k]]
          \in [Kinds -> Nat]
    BY <2>1
  <2> QED
    BY <1>14, <2>1, <2>2 DEF Commit
<1>15. ASSUME NEW w \in Workers, Requeue(w) PROVE RowsOK'
  BY <1>15 DEF Requeue
<1>16. ASSUME NEW w \in Workers, Retry(w) PROVE RowsOK'
  BY <1>16 DEF Retry
<1>17. ASSUME NEW w \in Workers, GiveUp(w) PROVE RowsOK'
  BY <1>17 DEF GiveUp
<1>18. ASSUME NEW w \in Workers, MarkFailed(w) PROVE RowsOK'
  BY <1>18 DEF MarkFailed
<1>19. ASSUME NEW w \in Workers, Ack(w) PROVE RowsOK'
  BY <1>19 DEF Ack
<1>20. ASSUME NEW w \in Workers, TransientError(w) PROVE RowsOK'
  BY <1>20 DEF TransientError
<1>21. ASSUME NEW w \in Workers, PermanentError(w) PROVE RowsOK'
  BY <1>21 DEF PermanentError
<1>22. ASSUME NEW w \in Workers, Crash(w) PROVE RowsOK'
  BY <1>22 DEF Crash
<1>23. ASSUME NEW w \in Workers, HandlerFails(w) PROVE RowsOK'
  BY <1>23 DEF HandlerFails
<1>24. ASSUME NEW w \in Workers, Redeliver(w) PROVE RowsOK'
  BY <1>24 DEF Redeliver
<1>25. CASE UNCHANGED vars
  BY <1>25 DEF vars
<1> QED
  BY <1>1, <1>2, <1>3, <1>4, <1>5, <1>6, <1>7, <1>8, <1>9, <1>10, <1>11, <1>12, <1>13,
     <1>14, <1>15, <1>16, <1>17, <1>18, <1>19, <1>20, <1>21, <1>22, <1>23,
     <1>24, <1>25 DEF Next, Create, Work, Fail

\* The broker, the budgets and the history keep their types in every step.
LEMMA BrokerType == TypeOK /\ [Next]_vars => BrokerOK'
<1> SUFFICES ASSUME TypeOK, [Next]_vars PROVE BrokerOK'
  OBVIOUS
<1> USE DEF TypeOK, BrokerOK, brokerVars
<1>1. ASSUME NEW j \in Jobs, CreateQueued(j) PROVE BrokerOK'
  BY <1>1 DEF CreateQueued
<1>2. ASSUME NEW j \in Jobs, CreateFromCache(j) PROVE BrokerOK'
  BY <1>2 DEF CreateFromCache
<1>3. ASSUME NEW j \in Jobs, Enqueue(j) PROVE BrokerOK'
  <2>1. queue' \in [Jobs -> [0..MaxRetries -> Nat]]
    <3>1. 0 \in 0..MaxRetries
      BY RetriesAssumption
    <3> HIDE DEF BrokerOK
    <3> QED
      BY <1>3, <3>1, DeliverType DEF Enqueue
  <2>2. unsent[j] \in Nat /\ unsent[j] > 0
    BY <1>3 DEF Enqueue
  <2>3. unsent[j] - 1 \in Nat
    BY <2>2
  <2> QED
    BY <1>3, <2>1, <2>3 DEF Enqueue
<1>4. ASSUME NEW j \in Jobs, LoseEnqueue(j) PROVE BrokerOK'
  <2>1. used' \in [Mishaps -> Nat]
    BY <1>4, SpendType DEF LoseEnqueue, Mishaps
  <2> QED
    BY <1>4, <2>1 DEF LoseEnqueue
<1>5. ASSUME NEW j \in Jobs, GrowOld(j) PROVE BrokerOK'
  <2>1. used' \in [Mishaps -> Nat]
    BY <1>5, SpendType DEF GrowOld, Mishaps
  <2> QED
    BY <1>5, <2>1 DEF GrowOld
<1>6. ASSUME NEW j \in Jobs, RecoverStale(j) PROVE BrokerOK'
  BY <1>6 DEF RecoverStale
<1>7. ASSUME NEW j \in Jobs, PurgeFailed(j) PROVE BrokerOK'
  BY <1>7 DEF PurgeFailed
<1>8. ASSUME NEW w \in Workers, NEW j \in Jobs, NEW n \in 0..MaxRetries, Receive(w, j, n)
      PROVE  BrokerOK'
  <2>1. queue[j][n] \in Nat
    OBVIOUS
  <2>2. queue[j][n] - 1 \in Nat
    BY <1>8, <2>1 DEF Receive
  <2>3. queue' \in [Jobs -> [0..MaxRetries -> Nat]]
    <3> HIDE DEF BrokerOK
    <3> QED
      BY <1>8, <2>2, QueueType DEF Receive
  <2> QED
    BY <1>8, <2>3 DEF Receive
<1>9. ASSUME NEW w \in Workers, Claim(w) PROVE BrokerOK'
  BY <1>9 DEF Claim
<1>10. ASSUME NEW w \in Workers, SkipClaim(w) PROVE BrokerOK'
  BY <1>10 DEF SkipClaim
<1>11. ASSUME NEW w \in Workers, FinishRendering(w) PROVE BrokerOK'
  BY <1>11 DEF FinishRendering
<1>12. ASSUME NEW w \in Workers, Upload(w) PROVE BrokerOK'
  BY <1>12 DEF Upload
<1>13. ASSUME NEW w \in Workers, Insert(w) PROVE BrokerOK'
  BY <1>13 DEF Insert
<1>14. ASSUME NEW w \in Workers, Commit(w) PROVE BrokerOK'
  BY <1>14 DEF Commit
<1>15. ASSUME NEW w \in Workers, Requeue(w) PROVE BrokerOK'
  BY <1>15 DEF Requeue
<1>16. ASSUME NEW w \in Workers, Retry(w) PROVE BrokerOK'
  <2>1. task[w] \in Jobs
    BY <1>16 DEF Retry, WorkersOK
  <2>2. tries[w] + 1 \in 0..MaxRetries
    BY <1>16, RetriesAssumption DEF Retry, WorkersOK
  <2>3. queue' \in [Jobs -> [0..MaxRetries -> Nat]]
    BY <1>16, <2>1, <2>2, DeliverType DEF Retry
  <2> QED
    BY <1>16, <2>3 DEF Retry
<1>17. ASSUME NEW w \in Workers, GiveUp(w) PROVE BrokerOK'
  BY <1>17 DEF GiveUp, WorkersOK
<1>18. ASSUME NEW w \in Workers, MarkFailed(w) PROVE BrokerOK'
  BY <1>18 DEF MarkFailed
<1>19. ASSUME NEW w \in Workers, Ack(w) PROVE BrokerOK'
  BY <1>19 DEF Ack
<1>20. ASSUME NEW w \in Workers, TransientError(w) PROVE BrokerOK'
  <2>1. used' \in [Mishaps -> Nat]
    BY <1>20, SpendType DEF TransientError, Mishaps
  <2> QED
    BY <1>20, <2>1 DEF TransientError
<1>21. ASSUME NEW w \in Workers, PermanentError(w) PROVE BrokerOK'
  <2>1. used' \in [Mishaps -> Nat]
    BY <1>21, SpendType DEF PermanentError, Mishaps
  <2> QED
    BY <1>21, <2>1 DEF PermanentError
<1>22. ASSUME NEW w \in Workers, Crash(w) PROVE BrokerOK'
  <2>1. task[w] \in Jobs /\ tries[w] \in 0..MaxRetries
    BY <1>22 DEF Crash, WorkersOK
  <2>2. queue' \in [Jobs -> [0..MaxRetries -> Nat]]
    BY <1>22, <2>1, DeliverType DEF Crash
  <2>3. used' \in [Mishaps -> Nat]
    BY <1>22, SpendType DEF Crash, Mishaps
  <2> QED
    BY <1>22, <2>2, <2>3 DEF Crash
<1>23. ASSUME NEW w \in Workers, HandlerFails(w) PROVE BrokerOK'
  <2>1. used' \in [Mishaps -> Nat]
    BY <1>23, SpendType DEF HandlerFails, Mishaps
  <2>2. task[w] \in Jobs
    BY <1>23 DEF HandlerFails, WorkersOK
  <2> QED
    BY <1>23, <2>1, <2>2 DEF HandlerFails
<1>24. ASSUME NEW w \in Workers, Redeliver(w) PROVE BrokerOK'
  <2>1. task[w] \in Jobs /\ tries[w] \in 0..MaxRetries
    BY <1>24 DEF Redeliver, WorkersOK
  <2>2. queue' \in [Jobs -> [0..MaxRetries -> Nat]]
    BY <1>24, <2>1, DeliverType DEF Redeliver
  <2>3. used' \in [Mishaps -> Nat]
    BY <1>24, SpendType DEF Redeliver, Mishaps
  <2> QED
    BY <1>24, <2>2, <2>3 DEF Redeliver
<1>25. CASE UNCHANGED vars
  BY <1>25 DEF vars
<1> QED
  BY <1>1, <1>2, <1>3, <1>4, <1>5, <1>6, <1>7, <1>8, <1>9, <1>10, <1>11, <1>12, <1>13,
     <1>14, <1>15, <1>16, <1>17, <1>18, <1>19, <1>20, <1>21, <1>22, <1>23,
     <1>24, <1>25 DEF Next, Create, Work, Fail

\* The workers keep their types in every step, and only idle ones hold no job.
LEMMA WorkersType == TypeOK /\ [Next]_vars => WorkersOK'
<1> SUFFICES ASSUME TypeOK, [Next]_vars PROVE WorkersOK'
  OBVIOUS
<1> USE DEF TypeOK, WorkersOK, workerVars, Abandon, Goto, Phases
<1>1. ASSUME NEW j \in Jobs, CreateQueued(j) PROVE WorkersOK'
  BY <1>1 DEF CreateQueued
<1>2. ASSUME NEW j \in Jobs, CreateFromCache(j) PROVE WorkersOK'
  BY <1>2 DEF CreateFromCache
<1>3. ASSUME NEW j \in Jobs, Enqueue(j) PROVE WorkersOK'
  BY <1>3 DEF Enqueue
<1>4. ASSUME NEW j \in Jobs, LoseEnqueue(j) PROVE WorkersOK'
  BY <1>4 DEF LoseEnqueue
<1>5. ASSUME NEW j \in Jobs, GrowOld(j) PROVE WorkersOK'
  BY <1>5 DEF GrowOld
<1>6. ASSUME NEW j \in Jobs, RecoverStale(j) PROVE WorkersOK'
  BY <1>6 DEF RecoverStale
<1>7. ASSUME NEW j \in Jobs, PurgeFailed(j) PROVE WorkersOK'
  BY <1>7 DEF PurgeFailed
<1>8. ASSUME NEW w \in Workers, NEW j \in Jobs, NEW n \in 0..MaxRetries, Receive(w, j, n)
      PROVE  WorkersOK'
  <2>1. View(j) \in Views
    BY DEF RowsOK, View, Views
  <2> QED
    BY <1>8, <2>1, NoJobAssumption DEF Receive
<1>9. ASSUME NEW w \in Workers, Claim(w) PROVE WorkersOK'
  BY <1>9 DEF Claim
<1>10. ASSUME NEW w \in Workers, SkipClaim(w) PROVE WorkersOK'
  BY <1>10 DEF SkipClaim
<1>11. ASSUME NEW w \in Workers, FinishRendering(w) PROVE WorkersOK'
  <2>1. View(task[w]) \in Views
    BY <1>11 DEF RowsOK, View, Views, FinishRendering
  <2> QED
    BY <1>11, <2>1 DEF FinishRendering
<1>12. ASSUME NEW w \in Workers, Upload(w) PROVE WorkersOK'
  BY <1>12 DEF Upload
<1>13. ASSUME NEW w \in Workers, Insert(w) PROVE WorkersOK'
  BY <1>13 DEF Insert, NextKind, Kinds
<1>14. ASSUME NEW w \in Workers, Commit(w) PROVE WorkersOK'
  BY <1>14 DEF Commit
<1>15. ASSUME NEW w \in Workers, Requeue(w) PROVE WorkersOK'
  BY <1>15 DEF Requeue
<1>16. ASSUME NEW w \in Workers, Retry(w) PROVE WorkersOK'
  BY <1>16 DEF Retry
<1>17. ASSUME NEW w \in Workers, GiveUp(w) PROVE WorkersOK'
  BY <1>17 DEF GiveUp
<1>18. ASSUME NEW w \in Workers, MarkFailed(w) PROVE WorkersOK'
  BY <1>18 DEF MarkFailed
<1>19. ASSUME NEW w \in Workers, Ack(w) PROVE WorkersOK'
  BY <1>19, RetriesAssumption DEF Ack, Release, Views, Statuses
<1>20. ASSUME NEW w \in Workers, TransientError(w) PROVE WorkersOK'
  BY <1>20 DEF TransientError, InTransactions
<1>21. ASSUME NEW w \in Workers, PermanentError(w) PROVE WorkersOK'
  BY <1>21 DEF PermanentError, InTransactions
<1>22. ASSUME NEW w \in Workers, Crash(w) PROVE WorkersOK'
  BY <1>22, RetriesAssumption DEF Crash, Release, Views, Statuses
<1>23. ASSUME NEW w \in Workers, HandlerFails(w) PROVE WorkersOK'
  BY <1>23 DEF HandlerFails
<1>24. ASSUME NEW w \in Workers, Redeliver(w) PROVE WorkersOK'
  BY <1>24 DEF Redeliver
<1>25. CASE UNCHANGED vars
  BY <1>25 DEF vars
<1> QED
  BY <1>1, <1>2, <1>3, <1>4, <1>5, <1>6, <1>7, <1>8, <1>9, <1>10, <1>11, <1>12, <1>13,
     <1>14, <1>15, <1>16, <1>17, <1>18, <1>19, <1>20, <1>21, <1>22, <1>23,
     <1>24, <1>25 DEF Next, Create, Work, Fail

\* TypeOK is inductive.
LEMMA TypeStep == TypeOK /\ [Next]_vars => TypeOK'
BY RowsType, BrokerType, WorkersType DEF TypeOK

\* The state of jobs, files, broker and workers always has its type.
THEOREM TypeCorrect == Spec => []TypeOK
<1>1. QED BY TypeInit, TypeStep, PTL DEF Spec

-----------------------------------------------------------------------------
(* The inductive invariant of delivery *)

\* A step that commits no artifact row, loses no object and neither completes
\* a job nor removes one that a transaction has pinned.
Gentle ==
  /\ rows' = rows
  /\ \A j \in Jobs, k \in Kinds : objects[j][k] # 0 => objects'[j][k] # 0
  /\ renders' \in Nat /\ renders' >= renders
  /\ \A j \in Jobs :
       /\ status'[j] = "absent" => status[j] = "absent"
       /\ status'[j] = "completed" => status[j] = "completed"
       /\ HasRow(j) /\ RowShared(j) => HasRow(j)'

\* What a step may do to a worker that is not in the middle of storing.
Same(w) ==
  /\ pc'[w] = pc[w] /\ task'[w] = task[w] /\ staged'[w] = staged[w]
  /\ seen'[w] = seen[w] /\ draft'[w] = draft[w]

Dropped(w) == staged'[w] = {} /\ pc'[w] \notin Storing

\* Workers outside the second transaction have nothing staged.
LEMMA NothingStaged ==
  ASSUME DeliveryInv, NEW w \in Workers, pc[w] \notin Storing
  PROVE  staged[w] = {}
BY DEF DeliveryInv, StagedInv

\* A worker in the second transaction has a job.
LEMMA StoringHasJob ==
  ASSUME TypeOK, NEW w \in Workers, pc[w] \in Storing
  PROVE  task[w] \in Jobs
BY DEF TypeOK, WorkersOK, Storing

\* Gentle steps keep what is said of jobs.
LEMMA GentleJobs ==
  ASSUME TypeOK, DeliveryInv, Gentle, NEW j \in Jobs
  PROVE  JobInv(j)'
<1>1. JobInv(j)
  BY DEF DeliveryInv
<1>2. 1..renders \subseteq 1..renders'
  BY DEF Gentle, TypeOK, WorkersOK
<1>3. (rows[j] = NoRow \/ \E n \in 1..renders : Published(j, n))'
  BY <1>1, <1>2 DEF JobInv, Gentle, Published, NoRow
<1> QED
  BY <1>1, <1>3 DEF JobInv, Gentle, NoRow

\* Gentle steps keep what is said of the workers they do not involve.
LEMMA GentleWorker ==
  ASSUME TypeOK, DeliveryInv, Gentle, NEW w \in Workers, Same(w) \/ Dropped(w)
  PROVE  StagedInv(w)' /\ StoringInv(w)'
<1>1. CASE Dropped(w)
  BY <1>1 DEF Dropped, StagedInv, StoringInv
<1>2. CASE Same(w) /\ pc[w] \notin Storing
  BY <1>2, NothingStaged DEF Same, StagedInv, StoringInv
<1>3. CASE Same(w) /\ pc[w] \in Storing
  <2>1. task[w] \in Jobs
    BY <1>3, StoringHasJob
  <2>2. StagedInv(w) /\ StoringInv(w)
    BY DEF DeliveryInv
  <2>3. staged[w] \subseteq Kinds /\ NextKind(w) \in Kinds
    BY DEF TypeOK, WorkersOK, NextKind, Kinds
  <2>4. StagedInv(w)'
    <3>1. staged[w] # {} => RowShared(task[w])
      BY DEF RowShared
    <3> QED
      BY <1>3, <2>1, <2>2, <2>3, <3>1 DEF StagedInv, Same, Gentle, HasRow, NoRow
  <2>5. StoringInv(w)'
    <3>1. NextKind(w)' = NextKind(w)
      BY <1>3 DEF Same, NextKind
    <3>2. 1..renders \subseteq 1..renders'
      BY DEF Gentle, TypeOK, WorkersOK
    <3> QED
      BY <1>3, <2>1, <2>2, <2>3, <3>1, <3>2 DEF StoringInv, Same, Gentle, NoRow
  <2> QED
    BY <2>4, <2>5
<1> QED
  BY <1>1, <1>2, <1>3

\* Exclusion is lost by inserting only.
LEMMA KeepExclusive ==
  ASSUME ExclusiveInv, \A w \in Workers : Same(w) \/ staged'[w] = {}
  PROVE  ExclusiveInv'
BY DEF ExclusiveInv, Same

\* A gentle step that only ends or repeats what workers do keeps the invariant.
LEMMA GentleStep ==
  ASSUME TypeOK, DeliveryInv, Gentle, \A w \in Workers : Same(w) \/ Dropped(w)
  PROVE  DeliveryInv'
<1>1. ExclusiveInv'
  BY KeepExclusive DEF DeliveryInv, Dropped
<1> QED
  BY <1>1, GentleJobs, GentleWorker DEF DeliveryInv

\* No row, no object and no worker exists at first.
LEMMA DeliveryInit == Init => DeliveryInv
BY DEF Init, DeliveryInv, JobInv, StagedInv, StoringInv, ExclusiveInv, Storing, NoRow

\* The steps of the API, of time and of the maintenance tasks.
LEMMA OutsideStep ==
  ASSUME TypeOK, DeliveryInv, NEW j \in Jobs,
         CreateQueued(j) \/ Enqueue(j) \/ LoseEnqueue(j) \/ GrowOld(j)
           \/ RecoverStale(j) \/ PurgeFailed(j)
  PROVE  DeliveryInv'
<1> USE DEF CreateQueued, Enqueue, LoseEnqueue, GrowOld, RecoverStale, PurgeFailed,
            dbVars, brokerVars, workerVars
<1>1. \A w \in Workers : Same(w)
  BY DEF Same
<1>2. /\ rows' = rows /\ objects' = objects /\ renders' = renders
  OBVIOUS
<1>3. ASSUME NEW i \in Jobs
      PROVE  /\ status'[i] = "absent" => status[i] = "absent"
             /\ status'[i] = "completed" => status[i] = "completed"
             /\ HasRow(i) /\ RowShared(i) => HasRow(i)'
  BY DEF TypeOK, RowsOK, HasRow, View
<1>4. Gentle
  BY <1>2, <1>3 DEF Gentle, TypeOK, WorkersOK
<1> QED
  BY <1>1, <1>4, GentleStep

\* The steps of a worker outside the second transaction, and the ones that
\* leave it.
LEMMA WorkerStep ==
  ASSUME TypeOK, DeliveryInv, NEW w \in Workers,
         \/ \E j \in Jobs, n \in 0..MaxRetries : Receive(w, j, n)
         \/ Claim(w) \/ SkipClaim(w) \/ Requeue(w) \/ Retry(w) \/ GiveUp(w)
         \/ MarkFailed(w) \/ Ack(w) \/ TransientError(w)
         \/ PermanentError(w) \/ HandlerFails(w) \/ Crash(w)
  PROVE  DeliveryInv'
<1> USE DEF Receive, Claim, SkipClaim, Requeue, Retry, GiveUp, MarkFailed, Ack,
            TransientError, PermanentError, HandlerFails, Crash, Release, Abandon, Goto,
            dbVars, brokerVars
<1>1. \A v \in Workers \ {w} : Same(v)
  BY DEF Same, TypeOK, WorkersOK
<1>2. Dropped(w)
  <2>1. staged'[w] = {}
    BY NothingStaged DEF TypeOK, WorkersOK, Storing
  <2>2. pc'[w] \notin Storing
    BY DEF TypeOK, WorkersOK, Storing
  <2> QED
    BY <2>1, <2>2 DEF Dropped
<1>3. /\ rows' = rows /\ objects' = objects /\ renders' = renders
  OBVIOUS
<1>4. ASSUME NEW i \in Jobs
      PROVE  /\ status'[i] = "absent" => status[i] = "absent"
             /\ status'[i] = "completed" => status[i] = "completed"
             /\ HasRow(i) => HasRow(i)'
  BY DEF TypeOK, RowsOK, HasRow
<1>5. Gentle
  BY <1>3, <1>4 DEF Gentle, TypeOK, WorkersOK
<1> QED
  BY <1>1, <1>2, <1>5, GentleStep

\* A message delivered again concerns the broker only.
LEMMA RedeliverStep ==
  ASSUME TypeOK, DeliveryInv, NEW w \in Workers, Redeliver(w)
  PROVE  DeliveryInv'
<1>1. Gentle /\ \A v \in Workers : Same(v)
  BY DEF Redeliver, dbVars, workerVars, Gentle, Same, HasRow, RowShared, TypeOK, WorkersOK
<1> QED
  BY <1>1, GentleStep

\* The second transaction opens: nothing is staged, the draft is fresh, and
\* a job loaded as COMPLETED has its rows.
LEMMA FinishRenderingStep ==
  ASSUME TypeOK, DeliveryInv, NEW w \in Workers, FinishRendering(w)
  PROVE  DeliveryInv'
<1> USE DEF FinishRendering, Goto, dbVars, brokerVars
<1>1. \A v \in Workers \ {w} : Same(v)
  BY DEF Same, TypeOK, WorkersOK
<1>2. staged[w] = {} /\ staged' = staged
  BY NothingStaged DEF Storing
<1>3. Gentle
  BY DEF Gentle, TypeOK, WorkersOK, HasRow
<1>4. task[w] \in Jobs
  BY DEF TypeOK, WorkersOK
<1>5. StagedInv(w)' /\ StoringInv(w)'
  <2>1. CASE ~HasRow(task[w])
    BY <1>2, <2>1 DEF StagedInv, StoringInv, Storing, TypeOK, WorkersOK
  <2>2. CASE HasRow(task[w])
    <3>1. pc'[w] = "storing" /\ draft'[w] = renders + 1 /\ renders' = renders + 1
      BY <2>2 DEF TypeOK, WorkersOK
    <3>2. draft'[w] \in 1..renders'
      BY <3>1 DEF TypeOK, WorkersOK
    <3>3. seen'[w] = "completed" => rows[task[w]] # NoRow
      BY <1>4 DEF View, TypeOK, WorkersOK, RowsOK, DeliveryInv, JobInv
    <3>4. Formats[task[w]] # {}
      BY <1>4, FormatsAssumption
    <3> QED
      BY <1>2, <3>1, <3>2, <3>3, <3>4 DEF StagedInv, StoringInv, NoRow
  <2> QED
    BY <2>1, <2>2
<1>6. ExclusiveInv'
  BY <1>1, <1>2, KeepExclusive DEF DeliveryInv
<1> QED
  BY <1>1, <1>3, <1>5, <1>6, GentleJobs, GentleWorker DEF DeliveryInv

\* An upload overwrites the object of a key, never with nothing.
LEMMA UploadStep ==
  ASSUME TypeOK, DeliveryInv, NEW w \in Workers, Upload(w)
  PROVE  DeliveryInv'
<1> DEFINE j == task[w]
           k == NextKind(w)
<1>1. j \in Jobs /\ k \in Kinds /\ pc[w] \in Storing
  BY StoringHasJob DEF Upload, NextKind, Kinds, Storing
<1>2. draft[w] \in 1..renders /\ StoringInv(w) /\ StagedInv(w)
  BY <1>1 DEF DeliveryInv, StoringInv
<1>3. \A v \in Workers \ {w} : Same(v)
  BY DEF Same, Upload, Goto, TypeOK, WorkersOK
<1>4. \A i \in Jobs, l \in Kinds :
        objects'[i][l] = IF i = j /\ l = k THEN draft[w] ELSE objects[i][l]
  BY <1>1 DEF Upload, TypeOK, RowsOK
<1>5. Gentle
  <2>1. draft[w] # 0
    BY <1>2
  <2> QED
    BY <1>4, <2>1 DEF Gentle, Upload, dbVars, TypeOK, WorkersOK, HasRow
<1>6. /\ pc'[w] = "inserting" /\ rows' = rows /\ status' = status
      /\ task' = task /\ staged' = staged /\ draft' = draft /\ seen' = seen
      /\ renders' = renders
  BY DEF Upload, Goto, dbVars, TypeOK, WorkersOK
<1>7. StagedInv(w)'
  <2>1. staged[w] \subseteq Kinds
    BY DEF TypeOK, WorkersOK
  <2> QED
    BY <1>1, <1>2, <1>5, <1>6, <2>1 DEF StagedInv, HasRow, Gentle, NoRow, Storing
<1>8. StoringInv(w)'
  <2>1. NextKind(w)' = k /\ objects'[j][k] = draft[w]
    BY <1>1, <1>4, <1>6 DEF NextKind
  <2>2. pc[w] = "storing"
    BY DEF Upload
  <2> QED
    BY <1>1, <1>2, <1>6, <2>1, <2>2 DEF StoringInv, NoRow
<1>9. ExclusiveInv'
  BY <1>6 DEF DeliveryInv, ExclusiveInv
<1> QED
  BY <1>3, <1>5, <1>7, <1>8, <1>9, GentleJobs, GentleWorker DEF DeliveryInv

\* An insert that succeeds is the only one pending for its job, and the first
\* one: the docx row comes first and its key excludes every other worker.
LEMMA InsertStep ==
  ASSUME TypeOK, DeliveryInv, NEW w \in Workers, Insert(w)
  PROVE  DeliveryInv'
<1> DEFINE j == task[w]
           k == NextKind(w)
<1>1. j \in Jobs /\ k \in Kinds /\ pc[w] \in Storing
  BY StoringHasJob DEF Insert, NextKind, Kinds, Storing
<1>2. StoringInv(w) /\ StagedInv(w) /\ JobInv(j)
  BY <1>1 DEF DeliveryInv
<1>3. \A v \in Workers \ {w} : Same(v)
  BY DEF Same, Insert, Abandon, Goto, TypeOK, WorkersOK
<1>4. Gentle
  BY DEF Gentle, Insert, dbVars, TypeOK, WorkersOK, HasRow
<1>5. /\ rows' = rows /\ status' = status /\ objects' = objects /\ task' = task
      /\ draft' = draft /\ seen' = seen /\ renders' = renders
  BY DEF Insert, dbVars
<1>6. CASE rows[j][k] # 0 \/ ~HasRow(j)
  <2>1. Dropped(w)
    BY <1>6 DEF Dropped, Insert, Abandon, Storing, TypeOK, WorkersOK
  <2> QED
    BY <1>3, <1>4, <2>1, GentleStep
<1>7. CASE rows[j][k] = 0 /\ HasRow(j)
  <2> DEFINE now == staged[w] \cup {k}
  <2>1. /\ staged'[w] = now
        /\ pc'[w] = IF now = Formats[j] THEN "committing" ELSE "storing"
    BY <1>7 DEF Insert, Goto, TypeOK, WorkersOK
  <2>2. staged[w] \in {{}, {"docx"}} /\ "docx" \in Formats[j] /\ Formats[j] \subseteq Kinds
    <3>1. staged[w] \subseteq Formats[j] /\ staged[w] # Formats[j]
      BY <1>1, <1>2 DEF StoringInv, Insert
    <3>2. Formats[j] \in {{"docx"}, {"docx", "pdf"}}
      BY <1>1, FormatsAssumption
    <3> QED
      BY <1>2, <3>1, <3>2 DEF StagedInv, Kinds
  <2>3. k \in Formats[j]
    <3>1. staged[w] = {} => k = "docx"
      BY DEF NextKind
    <3>2. staged[w] = {"docx"} => k = "pdf" /\ Formats[j] # {"docx"}
      BY <1>1, <1>2 DEF NextKind, StoringInv, Insert
    <3> QED
      BY <1>1, <2>2, <3>1, <3>2, FormatsAssumption
  <2>4. rows[j] = NoRow
    <3>1. CASE staged[w] = {}
      <4>1. k = "docx"
        BY <3>1 DEF NextKind
      <4>2. ASSUME NEW n \in 1..renders, Published(j, n) PROVE FALSE
        BY <1>7, <2>2, <4>1, <4>2 DEF Published, Kinds
      <4> QED
        BY <1>2, <4>2 DEF JobInv
    <3>2. CASE staged[w] # {}
      BY <1>2, <3>2 DEF StagedInv
    <3> QED
      BY <3>1, <3>2
  <2>5. StagedInv(w)'
    <3>1. "docx" \in now
      BY <2>2 DEF NextKind
    <3>2. \A l \in now : objects[j][l] # 0
      BY <1>2 DEF StagedInv, StoringInv, Insert, Storing
    <3>3. pc'[w] \in Storing
      BY <2>1 DEF Storing
    <3> QED
      BY <1>5, <1>7, <2>1, <2>4, <3>1, <3>2, <3>3 DEF StagedInv, HasRow, NoRow
  <2>6. StoringInv(w)'
    <3>1. now \subseteq Formats[j]
      BY <1>1, <1>2, <2>3 DEF StoringInv
    <3>2. pc'[w] # "inserting" /\ (pc'[w] = "committing" <=> now = Formats[j])
      BY <2>1
    <3> QED
      BY <1>1, <1>2, <1>5, <2>1, <3>1, <3>2 DEF StoringInv, NoRow
  <2>7. ExclusiveInv'
    <3>1. ASSUME NEW v \in Workers \ {w}, task[v] = j PROVE staged[v] = {}
      <4>1. CASE staged[w] # {}
        BY <3>1, <4>1 DEF DeliveryInv, ExclusiveInv
      <4>2. CASE staged[w] = {}
        <5>1. "docx" \notin staged[v]
          BY <3>1, <4>2 DEF Insert, NextKind
        <5> QED
          BY <5>1 DEF DeliveryInv, StagedInv
      <4> QED
        BY <4>1, <4>2
    <3>2. \A u, v \in Workers \ {w} :
            u # v /\ task'[u] = task'[v] => staged'[u] = {} \/ staged'[v] = {}
      BY <1>3 DEF Same, DeliveryInv, ExclusiveInv
    <3> QED
      BY <1>3, <1>5, <3>1, <3>2 DEF Same, ExclusiveInv
  <2> QED
    BY <1>3, <1>4, <2>5, <2>6, <2>7, GentleJobs, GentleWorker DEF DeliveryInv
<1> QED
  BY <1>6, <1>7

\* A commit publishes the whole result of one rendering for a job that had none.
LEMMA CommitPublishes ==
  ASSUME TypeOK, DeliveryInv, NEW w \in Workers, Commit(w)
  PROVE  /\ task[w] \in Jobs
         /\ rows[task[w]] = NoRow
         /\ staged[w] = Formats[task[w]] /\ staged[w] # {}
         /\ draft[w] \in 1..renders
         /\ seen[w] # "completed"
         /\ rows' = [rows EXCEPT ![task[w]] =
                       [k \in Kinds |-> IF k \in Formats[task[w]] THEN draft[w] ELSE 0]]
<1>1. task[w] \in Jobs /\ pc[w] \in Storing
  BY StoringHasJob DEF Commit, Storing
<1>2. StagedInv(w) /\ StoringInv(w)
  BY DEF DeliveryInv
<1>3. staged[w] = Formats[task[w]] /\ staged[w] # {} /\ draft[w] \in 1..renders
  BY <1>1, <1>2, FormatsAssumption DEF Commit, StoringInv
<1>4. rows[task[w]] = NoRow
  BY <1>2, <1>3 DEF StagedInv
<1>5. rows' = [rows EXCEPT ![task[w]] =
                 [k \in Kinds |-> IF k \in Formats[task[w]] THEN draft[w] ELSE 0]]
  BY <1>3, <1>4 DEF Commit, NoRow
<1> QED
  BY <1>1, <1>2, <1>3, <1>4, <1>5 DEF StoringInv

\* The commit keeps the invariant: no other worker has anything staged.
LEMMA CommitStep ==
  ASSUME TypeOK, DeliveryInv, NEW w \in Workers, Commit(w)
  PROVE  DeliveryInv'
<1> DEFINE j == task[w]
<1>1. /\ j \in Jobs /\ rows[j] = NoRow /\ staged[w] = Formats[j] /\ staged[w] # {}
      /\ draft[w] \in 1..renders /\ seen[w] # "completed"
      /\ rows' = [rows EXCEPT ![j] = [k \in Kinds |-> IF k \in Formats[j] THEN draft[w] ELSE 0]]
  BY CommitPublishes
<1>2. status' = [status EXCEPT ![j] = "completed"] /\ objects' = objects /\ renders' = renders
  BY <1>1 DEF Commit
<1>3. \A v \in Workers \ {w} : Same(v)
  BY DEF Same, Commit, Abandon, TypeOK, WorkersOK
<1>4. Dropped(w)
  BY DEF Dropped, Commit, Abandon, Storing, TypeOK, WorkersOK
<1>5. \A v \in Workers \ {w} : task[v] = j => staged[v] = {}
  BY <1>1 DEF DeliveryInv, ExclusiveInv
<1>6. rows'[j] # NoRow /\ \A i \in Jobs \ {j} : rows'[i] = rows[i]
  <2>1. "docx" \in Formats[j] /\ "docx" \in Kinds
    BY <1>1, FormatsAssumption DEF Kinds
  <2>2. rows'[j]["docx"] = draft[w] /\ draft[w] # 0
    BY <1>1, <2>1 DEF TypeOK, RowsOK
  <2> QED
    BY <1>1, <2>1, <2>2 DEF NoRow, TypeOK, RowsOK
<1>7. ASSUME NEW i \in Jobs PROVE JobInv(i)'
  <2>1. JobInv(i)
    BY DEF DeliveryInv
  <2>2. CASE i # j
    BY <1>2, <1>6, <2>1, <2>2 DEF JobInv, Published, NoRow, TypeOK, RowsOK
  <2>3. CASE i = j
    <3>1. rows'[i] = [k \in Kinds |-> IF k \in Formats[i] THEN draft[w] ELSE 0]
      BY <1>1, <2>3 DEF TypeOK, RowsOK
    <3>2. \E n \in 1..renders' : rows'[i] = [k \in Kinds |-> IF k \in Formats[i] THEN n ELSE 0]
      BY <1>1, <1>2, <3>1
    <3>3. \A k \in Formats[i] : objects[i][k] # 0
      BY <1>1, <2>3 DEF DeliveryInv, StagedInv
    <3>4. \A k \in Kinds : rows'[i][k] # 0 => k \in Formats[i]
      BY <3>1
    <3>5. status'[i] = "completed" /\ rows'[i] # NoRow
      BY <1>1, <1>2, <1>6, <2>3 DEF TypeOK, RowsOK
    <3> QED
      BY <1>2, <3>2, <3>3, <3>4, <3>5 DEF JobInv, NoRow, Published
  <2> QED
    BY <2>2, <2>3
<1>8. ASSUME NEW v \in Workers PROVE StagedInv(v)' /\ StoringInv(v)'
  <2>1. CASE v = w
    BY <1>4, <2>1 DEF Dropped, StagedInv, StoringInv
  <2>2. CASE v # w /\ pc[v] \notin Storing
    BY <1>3, <2>2, NothingStaged DEF Same, StagedInv, StoringInv
  <2>3. CASE v # w /\ pc[v] \in Storing
    <3>1. task[v] \in Jobs /\ StagedInv(v) /\ StoringInv(v) /\ Same(v)
      BY <1>3, <2>3, StoringHasJob DEF DeliveryInv
    <3>2. staged[v] # {} => task[v] # j
      BY <1>5, <2>3
    <3>3. StagedInv(v)'
      BY <1>2, <1>6, <3>1, <3>2 DEF StagedInv, Same, HasRow, NoRow, TypeOK, RowsOK
    <3>4. rows[task[v]] # NoRow => rows'[task[v]] # NoRow
      BY <1>6, <3>1
    <3>5. StoringInv(v)'
      BY <1>2, <3>1, <3>4 DEF StoringInv, Same, NextKind, NoRow
    <3> QED
      BY <3>3, <3>5
  <2> QED
    BY <2>1, <2>2, <2>3
<1>9. ExclusiveInv'
  BY <1>3, <1>4, KeepExclusive DEF Dropped, DeliveryInv
<1> QED
  BY <1>7, <1>8, <1>9 DEF DeliveryInv

\* A job created from the cache gets the whole result of the job it reuses.
LEMMA CachePublishes ==
  ASSUME TypeOK, DeliveryInv, NEW j \in Jobs, CreateFromCache(j)
  PROVE  /\ rows[j] = NoRow /\ status[j] = "absent"
         /\ \E n \in 1..renders :
              rows' = [rows EXCEPT ![j] = [k \in Kinds |-> IF k \in Formats[j] THEN n ELSE 0]]
         /\ \A h \in Jobs, k \in Kinds : objects[h][k] # 0 => objects'[h][k] # 0
         /\ \A k \in Kinds : rows'[j][k] # 0 => objects'[j][k] # 0
<1>1. PICK i \in CacheHits(j) :
        /\ rows[i] # NoRow
        /\ rows' = [rows EXCEPT ![j] = rows[i]]
        /\ objects' = [objects EXCEPT ![j] =
                         [k \in Kinds |-> IF rows[i][k] # 0 THEN objects[i][k] ELSE @[k]]]
  BY DEF CreateFromCache
<1>2. i \in Jobs /\ i # j /\ Formats[i] = Formats[j]
  BY CacheKeyAssumption DEF CacheHits
<1>3. JobInv(i) /\ JobInv(j)
  BY <1>2 DEF DeliveryInv
<1>4. PICK n \in 1..renders : rows[i] = [k \in Kinds |-> IF k \in Formats[j] THEN n ELSE 0]
  BY <1>1, <1>2, <1>3 DEF JobInv, Published
<1>5. rows[j] = NoRow /\ status[j] = "absent"
  BY <1>3 DEF JobInv, CreateFromCache
<1>6. \A h \in Jobs, k \in Kinds : objects'[h][k] =
        IF h = j /\ rows[i][k] # 0 THEN objects[i][k] ELSE objects[h][k]
  BY <1>1 DEF TypeOK, RowsOK
<1>7. \A k \in Kinds : rows[i][k] # 0 => objects[i][k] # 0
  BY <1>3 DEF JobInv
<1>8. rows'[j] = rows[i]
  BY <1>1 DEF TypeOK, RowsOK
<1> QED
  BY <1>1, <1>4, <1>5, <1>6, <1>7, <1>8

\* Reuse keeps the invariant: no worker can have anything staged for a job
\* that is only being created.
LEMMA CreateFromCacheStep ==
  ASSUME TypeOK, DeliveryInv, NEW j \in Jobs, CreateFromCache(j)
  PROVE  DeliveryInv'
<1>1. PICK n \in 1..renders :
        rows' = [rows EXCEPT ![j] = [k \in Kinds |-> IF k \in Formats[j] THEN n ELSE 0]]
  BY CachePublishes
<1>2. /\ rows[j] = NoRow /\ status[j] = "absent"
      /\ \A h \in Jobs, k \in Kinds : objects[h][k] # 0 => objects'[h][k] # 0
      /\ \A k \in Kinds : rows'[j][k] # 0 => objects'[j][k] # 0
  BY CachePublishes
<1>3. status' = [status EXCEPT ![j] = "completed"] /\ renders' = renders
  BY DEF CreateFromCache
<1>4. \A w \in Workers : Same(w)
  BY DEF Same, CreateFromCache, workerVars
<1>5. rows'[j] = [k \in Kinds |-> IF k \in Formats[j] THEN n ELSE 0]
  BY <1>1 DEF TypeOK, RowsOK
<1>6. rows'[j] # NoRow /\ \A i \in Jobs \ {j} : rows'[i] = rows[i]
  <2>1. "docx" \in Formats[j] /\ "docx" \in Kinds
    BY FormatsAssumption DEF Kinds
  <2>2. rows'[j]["docx"] = n /\ n # 0
    BY <1>5, <2>1
  <2> QED
    BY <1>1, <2>1, <2>2 DEF NoRow, TypeOK, RowsOK
<1>7. ASSUME NEW i \in Jobs PROVE JobInv(i)'
  <2>1. JobInv(i)
    BY DEF DeliveryInv
  <2>2. CASE i # j
    <3>1. rows'[i] = rows[i] /\ status'[i] = status[i] /\ renders' = renders
      BY <1>3, <1>6, <2>2 DEF TypeOK, RowsOK
    <3>2. \A k \in Kinds : rows[i][k] # 0 => objects'[i][k] # 0
      BY <1>2, <2>1 DEF JobInv
    <3> QED
      BY <2>1, <3>1, <3>2 DEF JobInv, Published, NoRow
  <2>3. CASE i = j
    <3>1. status'[i] = "completed" /\ n \in 1..renders'
      BY <1>3, <2>3 DEF TypeOK, RowsOK
    <3> QED
      BY <1>2, <1>5, <1>6, <2>3, <3>1 DEF JobInv, NoRow, Published
  <2> QED
    BY <2>2, <2>3
<1>8. ASSUME NEW w \in Workers PROVE StagedInv(w)' /\ StoringInv(w)'
  <2>1. CASE pc[w] \notin Storing
    BY <1>4, <2>1, NothingStaged DEF Same, StagedInv, StoringInv
  <2>2. CASE pc[w] \in Storing
    <3>1. task[w] \in Jobs /\ StagedInv(w) /\ StoringInv(w) /\ Same(w)
      BY <1>4, <2>2, StoringHasJob DEF DeliveryInv
    <3>2. staged[w] \subseteq Kinds /\ NextKind(w) \in Kinds /\ NextKind(w)' = NextKind(w)
      BY <3>1 DEF TypeOK, WorkersOK, NextKind, Kinds, Same
    <3>3. staged[w] # {} => task[w] # j
      BY <1>2, <3>1 DEF StagedInv, HasRow
    <3>4. StagedInv(w)'
      BY <1>2, <1>3, <1>6, <3>1, <3>2, <3>3 DEF StagedInv, Same, HasRow, NoRow, TypeOK, RowsOK
    <3>5. rows[task[w]] # NoRow => rows'[task[w]] # NoRow
      BY <1>2, <1>6, <3>1
    <3>6. StoringInv(w)'
      BY <1>2, <1>3, <3>1, <3>2, <3>5 DEF StoringInv, Same, NoRow
    <3> QED
      BY <3>4, <3>6
  <2> QED
    BY <2>1, <2>2
<1>9. ExclusiveInv'
  BY <1>4, KeepExclusive DEF DeliveryInv
<1> QED
  BY <1>7, <1>8, <1>9 DEF DeliveryInv

\* DeliveryInv is inductive relative to the types.
LEMMA DeliveryStep == TypeOK /\ DeliveryInv /\ [Next]_vars => DeliveryInv'
<1> SUFFICES ASSUME TypeOK, DeliveryInv, [Next]_vars PROVE DeliveryInv'
  OBVIOUS
<1>1. CASE UNCHANGED vars
  <2>1. Gentle /\ \A w \in Workers : Same(w)
    BY <1>1 DEF vars, Gentle, Same, HasRow, RowShared, TypeOK, WorkersOK
  <2> QED
    BY <2>1, GentleStep
<1>2. CASE Next
  BY <1>2, OutsideStep, CreateFromCacheStep, WorkerStep, RedeliverStep, FinishRenderingStep,
     UploadStep, InsertStep, CommitStep DEF Next, Create, Work, Fail
<1> QED
  BY <1>1, <1>2

\* Whatever workers do to each other, the delivery invariant holds.
THEOREM DeliveryCorrect == Spec => [](TypeOK /\ DeliveryInv)
<1>1. Init => TypeOK /\ DeliveryInv
  BY TypeInit, DeliveryInit
<1>2. TypeOK /\ DeliveryInv /\ [Next]_vars => TypeOK' /\ DeliveryInv'
  BY TypeStep, DeliveryStep
<1> QED
  BY <1>1, <1>2, PTL DEF Spec

-----------------------------------------------------------------------------
(* What users of a job may rely on *)

\* A job reported COMPLETED has a row for every format of its mode.
THEOREM CompletedIsWholeCorrect == Spec => []CompletedIsWhole
<1>1. TypeOK /\ DeliveryInv => CompletedIsWhole
  <2> SUFFICES ASSUME DeliveryInv, NEW j \in Jobs, status[j] = "completed"
               PROVE  Whole(j)
    BY DEF CompletedIsWhole
  <2>1. PICK n \in 1..renders : Published(j, n) /\ rows[j] # NoRow
    BY DEF DeliveryInv, JobInv
  <2> QED
    BY <2>1, FormatsAssumption DEF Whole, Published
<1> QED
  BY <1>1, DeliveryCorrect, PTL

\* All rows of a job come from one rendering.
THEOREM OneRenderingCorrect == Spec => []OneRendering
<1>1. TypeOK /\ DeliveryInv => OneRendering
  <2> SUFFICES ASSUME DeliveryInv, NEW j \in Jobs, NEW k \in Kinds, NEW l \in Kinds,
                      rows[j][k] # 0, rows[j][l] # 0
               PROVE  rows[j][k] = rows[j][l]
    BY DEF OneRendering
  <2>1. PICK n \in 1..renders : Published(j, n)
    BY DEF DeliveryInv, JobInv, NoRow
  <2> QED
    BY <2>1 DEF Published
<1> QED
  BY <1>1, DeliveryCorrect, PTL

\* No artifact row is without an object.
THEOREM RowsAreBackedCorrect == Spec => []RowsAreBacked
<1>1. TypeOK /\ DeliveryInv => RowsAreBacked
  BY DEF DeliveryInv, JobInv, RowsAreBacked
<1> QED
  BY <1>1, DeliveryCorrect, PTL

\* Every step leaves the rows alone or publishes the whole result of one
\* rendering for a job that had no row.
LEMMA RowsChange ==
  ASSUME TypeOK, DeliveryInv, [Next]_vars
  PROVE  \/ rows' = rows /\ renders' \in {renders, renders + 1}
         \/ \E j \in Jobs, n \in 1..renders :
              /\ rows[j] = NoRow
              /\ rows' = [rows EXCEPT ![j] = [k \in Kinds |-> IF k \in Formats[j] THEN n ELSE 0]]
              /\ renders' = renders
<1>1. ASSUME NEW j \in Jobs,
             CreateQueued(j) \/ Enqueue(j) \/ LoseEnqueue(j) \/ GrowOld(j)
               \/ RecoverStale(j) \/ PurgeFailed(j)
      PROVE  rows' = rows /\ renders' = renders
  BY <1>1 DEF CreateQueued, Enqueue, LoseEnqueue, GrowOld, RecoverStale, PurgeFailed, dbVars
<1>2. ASSUME NEW w \in Workers,
             \/ \E j \in Jobs, n \in 0..MaxRetries : Receive(w, j, n)
             \/ Claim(w) \/ SkipClaim(w) \/ Upload(w) \/ Insert(w) \/ Requeue(w)
             \/ Retry(w) \/ GiveUp(w) \/ MarkFailed(w) \/ Ack(w) \/ Fail(w)
      PROVE  rows' = rows /\ renders' = renders
  BY <1>2 DEF Receive, Claim, SkipClaim, Upload, Insert, Requeue, Retry, GiveUp, MarkFailed,
              Ack, Fail, TransientError, PermanentError, HandlerFails, Crash, Redeliver,
              dbVars
<1>3. ASSUME NEW w \in Workers, FinishRendering(w)
      PROVE  rows' = rows /\ renders' = renders + 1
  BY <1>3 DEF FinishRendering, dbVars
<1>4. ASSUME NEW w \in Workers, Commit(w)
      PROVE  \E j \in Jobs, n \in 1..renders :
               /\ rows[j] = NoRow
               /\ rows' = [rows EXCEPT ![j] =
                             [k \in Kinds |-> IF k \in Formats[j] THEN n ELSE 0]]
               /\ renders' = renders
  <2>1. renders' = renders
    BY <1>4 DEF Commit
  <2> QED
    BY <1>4, <2>1, CommitPublishes
<1>5. ASSUME NEW j \in Jobs, CreateFromCache(j)
      PROVE  \E n \in 1..renders :
               /\ rows[j] = NoRow
               /\ rows' = [rows EXCEPT ![j] =
                             [k \in Kinds |-> IF k \in Formats[j] THEN n ELSE 0]]
               /\ renders' = renders
  <2>1. renders' = renders
    BY <1>5 DEF CreateFromCache
  <2> QED
    BY <1>5, <2>1, CachePublishes
<1>6. CASE UNCHANGED vars
  BY <1>6 DEF vars
<1> QED
  BY <1>1, <1>2, <1>3, <1>4, <1>5, <1>6 DEF Next, Create, Work

\* Committed artifact rows of a job are never replaced.
THEOREM DeliveredOnceCorrect == Spec => DeliveredOnce
<1>1. TypeOK /\ DeliveryInv /\ [Next]_vars
        => [\A j \in Jobs : rows[j] # NoRow => rows'[j] = rows[j]]_vars
  <2> SUFFICES ASSUME TypeOK, DeliveryInv, [Next]_vars, NEW j \in Jobs, rows[j] # NoRow
               PROVE  rows'[j] = rows[j]
    OBVIOUS
  <2> QED
    BY RowsChange DEF TypeOK, RowsOK
<1> QED
  BY <1>1, DeliveryCorrect, PTL DEF Spec, DeliveredOnce

\* The pipeline implements the abstract shelf: every step publishes a whole
\* result, renders one, or is invisible.
THEOREM PublishesOnceCorrect == Spec => PublishesOnce
<1>1. Init => Shelf!Init
  BY DEF Init, Shelf!Init, Shelf!Empty, NoRow
<1>2. TypeOK /\ DeliveryInv /\ [Next]_vars => [Shelf!Next]_<<rows, renders>>
  <2> SUFFICES ASSUME TypeOK, DeliveryInv, [Next]_vars
               PROVE  [Shelf!Next]_<<rows, renders>>
    OBVIOUS
  <2>1. CASE rows' = rows /\ renders' \in {renders, renders + 1}
    BY <2>1 DEF Shelf!Next, Shelf!Render
  <2>2. ASSUME NEW j \in Jobs, NEW n \in 1..renders, rows[j] = NoRow,
               rows' = [rows EXCEPT ![j] = [k \in Kinds |-> IF k \in Formats[j] THEN n ELSE 0]],
               renders' = renders
        PROVE  [Shelf!Next]_<<rows, renders>>
    BY <2>2 DEF Shelf!Next, Shelf!Publish, Shelf!Empty, NoRow
  <2> QED
    BY <2>1, <2>2, RowsChange
<1> QED
  BY <1>1, <1>2, DeliveryCorrect, PTL DEF Spec, PublishesOnce, Shelf!Spec

-----------------------------------------------------------------------------
(* No queued job is forgotten *)

\* Somebody will take care of j: a pending enqueue, a message, a worker.
Held(j) ==
  \/ unsent[j] > 0
  \/ \E n \in 0..MaxRetries : queue[j][n] > 0
  \/ \E w \in Workers : Carries(w, j)

\* Nothing about i changes: neither status, enqueues, messages nor carriers.
Untouched(i) ==
  /\ status'[i] = status[i] /\ unsent'[i] = unsent[i] /\ queue'[i] = queue[i]
  /\ \A w \in Workers : Carries(w, i) => Carries(w, i)'

\* What is untouched stays held.
LEMMA UntouchedHeld ==
  ASSUME NEW i \in Jobs, Untouched(i), Held(i)
  PROVE  Held(i)'
BY DEF Untouched, Held

\* A message delivered for j holds j and leaves the queues of the others alone.
LEMMA DeliverHolds ==
  ASSUME TypeOK, NEW j \in Jobs, NEW n \in 0..MaxRetries, Deliver(j, n)
  PROVE  Held(j)' /\ \A i \in Jobs \ {j} : queue'[i] = queue[i]
<1>1. queue'[j][n] = queue[j][n] + 1 /\ queue[j][n] \in Nat
  BY DEF Deliver, TypeOK, BrokerOK
<1>2. queue'[j][n] > 0
  BY <1>1
<1>3. \A i \in Jobs \ {j} : queue'[i] = queue[i]
  BY DEF Deliver, TypeOK, BrokerOK
<1> QED
  BY <1>2, <1>3 DEF Held

\* Steps of the API, of time and of the maintenance tasks.
LEMMA OutsideHolds ==
  ASSUME TypeOK, NeverForgotten, NEW j \in Jobs,
         CreateQueued(j) \/ CreateFromCache(j) \/ Enqueue(j) \/ LoseEnqueue(j)
           \/ GrowOld(j) \/ RecoverStale(j) \/ PurgeFailed(j)
  PROVE  NeverForgotten'
<1> SUFFICES ASSUME NEW i \in Jobs, status'[i] = "queued", i \notin stranded'
             PROVE  Held(i)'
  BY DEF NeverForgotten, Held
<1>1. \A w \in Workers : Carries(w, i) => Carries(w, i)'
  BY DEF CreateQueued, CreateFromCache, Enqueue, LoseEnqueue, GrowOld, RecoverStale,
         PurgeFailed, workerVars, Carries, Claimable
<1>2. status[i] = "queued" /\ i \notin stranded => Held(i)
  BY DEF NeverForgotten, Held
<1>3. CASE CreateQueued(j) \/ RecoverStale(j)
  <2>1. CASE i = j
    <3>1. unsent'[i] = unsent[i] + 1 /\ unsent[i] \in Nat
      BY <1>3, <2>1 DEF CreateQueued, RecoverStale, TypeOK, BrokerOK
    <3>2. unsent'[i] > 0
      BY <3>1
    <3> QED
      BY <3>2 DEF Held
  <2>2. CASE i # j
    <3>1. Untouched(i) /\ status[i] = "queued" /\ i \notin stranded
      BY <1>1, <1>3, <2>2 DEF Untouched, CreateQueued, RecoverStale, TypeOK, RowsOK, BrokerOK
    <3> QED
      BY <1>2, <3>1, UntouchedHeld
  <2> QED
    BY <2>1, <2>2
<1>4. CASE CreateFromCache(j) \/ GrowOld(j) \/ PurgeFailed(j)
  <2>1. Untouched(i) /\ status[i] = "queued" /\ i \notin stranded
    BY <1>1, <1>4 DEF Untouched, CreateFromCache, GrowOld, PurgeFailed, brokerVars,
                      TypeOK, RowsOK
  <2> QED
    BY <1>2, <2>1, UntouchedHeld
<1>5. CASE Enqueue(j)
  <2>1. Held(j)' /\ \A h \in Jobs \ {j} : queue'[h] = queue[h]
    BY <1>5, RetriesAssumption, DeliverHolds DEF Enqueue
  <2>2. CASE i # j
    <3>1. Untouched(i) /\ status[i] = "queued" /\ i \notin stranded
      BY <1>1, <1>5, <2>1, <2>2 DEF Untouched, Enqueue, dbVars, TypeOK, BrokerOK
    <3> QED
      BY <1>2, <3>1, UntouchedHeld
  <2> QED
    BY <2>1, <2>2
<1>6. CASE LoseEnqueue(j)
  <2>1. i # j /\ Untouched(i) /\ status[i] = "queued" /\ i \notin stranded
    BY <1>1, <1>6 DEF Untouched, LoseEnqueue, dbVars, TypeOK, BrokerOK
  <2> QED
    BY <1>2, <2>1, UntouchedHeld
<1> QED
  BY <1>3, <1>4, <1>5, <1>6

\* A step of w, which holds j before or after it, does not concern other jobs.
LEMMA OtherJobsHeld ==
  ASSUME TypeOK, NeverForgotten, NEW w \in Workers, NEW j, NEW i \in Jobs, i # j,
         task[w] \in {j, NoJob}, \A v \in Workers \ {w} : Same(v),
         status'[i] = status[i], unsent' = unsent, queue'[i] = queue[i],
         status'[i] = "queued", i \notin stranded
  PROVE  Held(i)'
<1>1. Held(i)
  BY DEF NeverForgotten, Held
<1>2. ~Carries(w, i)
  BY NoJobAssumption DEF Carries
<1>3. \A v \in Workers : Carries(v, i) => Carries(v, i)'
  BY <1>2 DEF Carries, Claimable, Same
<1>4. Untouched(i)
  BY <1>3 DEF Untouched
<1> QED
  BY <1>1, <1>4, UntouchedHeld

\* A worker that takes a message of a queued job finds it claimable.
LEMMA ReceiveHolds ==
  ASSUME TypeOK, NeverForgotten, NEW w \in Workers, NEW j \in Jobs, NEW n \in 0..MaxRetries,
         Receive(w, j, n)
  PROVE  NeverForgotten'
<1> SUFFICES ASSUME NEW i \in Jobs, status'[i] = "queued", i \notin stranded'
             PROVE  Held(i)'
  BY DEF NeverForgotten, Held
<1> USE DEF Receive, dbVars
<1>1. CASE i = j
  <2>1. HasRow(i) /\ View(i) = "queued"
    BY DEF HasRow, View
  <2>2. task'[w] = i /\ pc'[w] = "read" /\ seen'[w] = "queued"
    BY <1>1, <2>1 DEF Goto, TypeOK, WorkersOK
  <2> QED
    BY <2>2 DEF Held, Carries, Claimable
<1>2. CASE i # j
  <2>1. task[w] = NoJob
    BY DEF TypeOK, WorkersOK
  <2>2. \A v \in Workers \ {w} : Same(v)
    BY DEF Same, Goto, TypeOK, WorkersOK
  <2>3. queue'[i] = queue[i]
    BY <1>2 DEF TypeOK, BrokerOK
  <2> QED
    BY <1>2, <2>1, <2>2, <2>3, OtherJobsHeld
<1> QED
  BY <1>1, <1>2

\* The other steps of a worker settle its job, carry it on or send a message.
LEMMA WorkerHolds ==
  ASSUME TypeOK, DeliveryInv, NeverForgotten, NEW w \in Workers,
         \/ Claim(w) \/ SkipClaim(w) \/ FinishRendering(w) \/ Upload(w) \/ Insert(w)
         \/ Commit(w) \/ Requeue(w) \/ Retry(w) \/ GiveUp(w) \/ MarkFailed(w) \/ Ack(w)
         \/ Fail(w)
  PROVE  NeverForgotten'
<1> SUFFICES ASSUME NEW i \in Jobs, status'[i] = "queued", i \notin stranded'
             PROVE  Held(i)'
  BY DEF NeverForgotten, Held
<1>1. pc[w] # "idle" /\ task[w] \in Jobs
  BY DEF Claim, SkipClaim, FinishRendering, Upload, Insert, Commit, Requeue, Retry, GiveUp,
         MarkFailed, Ack, Fail, TransientError, PermanentError, HandlerFails, Crash,
         Redeliver, InTransactions,
         TypeOK, WorkersOK
<1>2. \A v \in Workers \ {w} : Same(v)
  BY DEF Claim, SkipClaim, FinishRendering, Upload, Insert, Commit, Requeue, Retry, GiveUp,
         MarkFailed, Ack, Fail, TransientError, PermanentError, HandlerFails, Crash,
         Redeliver, Release, Abandon, Goto,
         workerVars, Same, TypeOK, WorkersOK
<1>3. status[i] = "queued" /\ i \notin stranded => Held(i)
  BY DEF NeverForgotten, Held
<1>4. unsent' = unsent
  BY DEF Claim, SkipClaim, FinishRendering, Upload, Insert, Commit, Requeue, Retry, GiveUp,
         MarkFailed, Ack, Fail, TransientError, PermanentError, HandlerFails, Crash,
         Redeliver, brokerVars
<1>5. i \notin stranded
  BY DEF Claim, SkipClaim, FinishRendering, Upload, Insert, Commit, Requeue, Retry, GiveUp,
         MarkFailed, Ack, Fail, TransientError, PermanentError, HandlerFails, Crash,
         Redeliver, brokerVars
<1>6. CASE i # task[w]
  <2>1. status'[i] = status[i]
    BY <1>1, <1>6 DEF Claim, SkipClaim, FinishRendering, Upload, Insert, Commit, Requeue,
       Retry, GiveUp, MarkFailed, Ack, Fail, TransientError, PermanentError, HandlerFails,
       Crash, Redeliver, dbVars,
       TypeOK, RowsOK
  <2>2. queue'[i] = queue[i]
    <3>1. queue' = queue \/ Retry(w) \/ Crash(w) \/ Redeliver(w)
      BY DEF Claim, SkipClaim, FinishRendering, Upload, Insert, Commit, Requeue, GiveUp,
             MarkFailed, Ack, Fail, TransientError, PermanentError, HandlerFails, brokerVars
    <3> QED
      BY <1>6, <3>1 DEF Retry, Crash, Redeliver, Deliver, TypeOK, BrokerOK
  <2> QED
    BY <1>1, <1>2, <1>4, <1>5, <1>6, <2>1, <2>2, OtherJobsHeld
<1>7. CASE i = task[w]
  <2>1. CASE Claim(w) \/ FinishRendering(w) \/ Upload(w) \/ Insert(w) \/ Requeue(w)
               \/ TransientError(w) \/ PermanentError(w)
    <3>1. task'[w] = i
      BY <1>7, <2>1 DEF Claim, FinishRendering, Upload, Insert, Requeue, TransientError,
                        PermanentError
    <3>2. pc'[w] \in (InTransactions \ {"read"}) \cup {"requeueing", "retrying", "failing"}
      BY <1>7, <2>1 DEF Claim, FinishRendering, Upload, Insert, Requeue, TransientError,
                        PermanentError, InTransactions, Goto, Abandon, HasRow, dbVars,
                        TypeOK, WorkersOK
    <3> QED
      BY <3>1, <3>2 DEF Held, Carries
  <2>2. CASE SkipClaim(w)
    <3>1. HasRow(i) /\ status[i] = "queued"
      BY <1>7, <2>2 DEF SkipClaim, dbVars, HasRow
    <3>2. PICK v \in Workers :
            \/ Carries(v, i)
            \/ unsent[i] > 0
            \/ \E n \in 0..MaxRetries : queue[i][n] > 0
      BY <1>3, <1>5, <3>1 DEF Held
    <3>3. CASE unsent[i] > 0 \/ \E n \in 0..MaxRetries : queue[i][n] > 0
      BY <2>2, <3>3 DEF SkipClaim, brokerVars, Held
    <3>4. CASE Carries(v, i) /\ v # w
      BY <1>2, <3>4 DEF Same, Held, Carries, Claimable
    <3>5. CASE Carries(v, i) /\ v = w
      <4>1. pc[w] = "read" /\ Claimable(w)
        BY <2>2, <3>5 DEF Carries, SkipClaim
      <4>2. PICK u \in Workers \ {w} :
              /\ task[u] = i
              /\ \/ staged[u] # {}
                 \/ pc[u] \in {"requeueing", "failing"}
                 \/ pc[u] = "read" /\ Claimable(u)
        <5>1. staged[w] = {}
          BY <4>1, NothingStaged DEF Storing
        <5>2. CASE RowShared(i)
          BY <5>1, <5>2 DEF RowShared
        <5>3. CASE ~RowShared(i)
          BY <1>7, <2>2, <3>1, <4>1, <5>3 DEF SkipClaim, RowLocked, View
        <5> QED
          BY <5>2, <5>3
      <4>3. Carries(u, i)
        BY <4>2, NothingStaged DEF Carries, Storing, InTransactions
      <4> QED
        BY <1>2, <4>3 DEF Same, Held, Carries, Claimable
    <3> QED
      BY <3>2, <3>3, <3>4, <3>5
  <2>3. CASE Commit(w)
    <3>1. status'[i] = "completed"
      BY <1>7, <2>3, CommitPublishes DEF Commit, TypeOK, RowsOK
    <3> QED
      BY <3>1
  <2>4. CASE Retry(w)
    <3>1. tries[w] + 1 \in 0..MaxRetries
      BY <2>4, RetriesAssumption DEF Retry, TypeOK, WorkersOK
    <3> QED
      BY <1>7, <2>4, <3>1, DeliverHolds DEF Retry
  <2>5. CASE GiveUp(w)
    BY <1>7, <2>5 DEF GiveUp
  <2>6. CASE MarkFailed(w)
    BY <1>7, <2>6 DEF MarkFailed, HasRow, TypeOK, RowsOK
  <2>7. CASE Ack(w)
    <3>1. ~Carries(w, i) /\ status[i] = "queued" /\ queue' = queue
      BY <2>7 DEF Ack, Carries, InTransactions, dbVars, brokerVars
    <3>2. \A v \in Workers : Carries(v, i) => Carries(v, i)'
      BY <1>2, <3>1 DEF Same, Carries, Claimable
    <3> QED
      BY <1>3, <1>4, <1>5, <3>1, <3>2 DEF Held
  <2>8. CASE Crash(w)
    <3>1. tries[w] \in 0..MaxRetries
      BY DEF TypeOK, WorkersOK
    <3> QED
      BY <1>7, <2>8, <3>1, DeliverHolds DEF Crash
  <2>9. CASE HandlerFails(w)
    BY <1>7, <2>9 DEF HandlerFails, dbVars
  <2>10. CASE Redeliver(w)
    <3>1. tries[w] \in 0..MaxRetries
      BY DEF TypeOK, WorkersOK
    <3> QED
      BY <1>7, <2>10, <3>1, DeliverHolds DEF Redeliver
  <2> QED
    BY <2>1, <2>2, <2>3, <2>4, <2>5, <2>6, <2>7, <2>8, <2>9, <2>10 DEF Fail
<1> QED
  BY <1>6, <1>7

\* A QUEUED job is never forgotten, except by a lost enqueue or exhausted retries.
THEOREM NeverForgottenCorrect == Spec => []NeverForgotten
<1>1. Init => NeverForgotten
  BY DEF Init, NeverForgotten
<1>2. TypeOK /\ DeliveryInv /\ NeverForgotten /\ [Next]_vars => NeverForgotten'
  <2> SUFFICES ASSUME TypeOK, DeliveryInv, NeverForgotten, [Next]_vars
               PROVE  NeverForgotten'
    OBVIOUS
  <2>1. CASE UNCHANGED vars
    BY <2>1 DEF vars, NeverForgotten, Carries, Claimable
  <2>2. CASE Next
    BY <2>2, OutsideHolds, ReceiveHolds, WorkerHolds DEF Next, Create, Work
  <2> QED
    BY <2>1, <2>2
<1> QED
  BY <1>1, <1>2, DeliveryCorrect, PTL DEF Spec

-----------------------------------------------------------------------------
(* The documents of Rendering, whose names this module also has.  Two programs*)
(* write each block; their lines are compared kind by kind, the lines of a   *)
(* block by appending lines that agree, and the blocks one by one.           *)

\* Two programs write the same lines.
Agree(ds, ps) == (\E S : ds \in Seq(S) /\ ps \in Seq(S)) /\ SameLines(ds, ps)

\* Files that agree still do when lines that agree are added.
LEMMA AgreeAppend ==
  ASSUME NEW a, NEW b, NEW c, NEW d, Agree(a, c), Agree(b, d)
  PROVE  Agree(a \o b, c \o d)
<1>1. PICK S : a \in Seq(S) /\ c \in Seq(S)
  BY DEF Agree
<1>2. PICK T : b \in Seq(T) /\ d \in Seq(T)
  BY DEF Agree
<1> DEFINE U == S \cup T
<1>3. a \in Seq(U) /\ b \in Seq(U) /\ c \in Seq(U) /\ d \in Seq(U)
  BY <1>1, <1>2
<1> HIDE DEF U
<1>4. Len(a) = Len(c) /\ Len(b) = Len(d)
  BY DEF Agree, SameLines
<1>5. /\ a \o b \in Seq(U) /\ c \o d \in Seq(U)
      /\ Len(a \o b) = Len(a) + Len(b) /\ Len(c \o d) = Len(a \o b)
  <2>1. a \o b \in Seq(U) /\ Len(a \o b) = Len(a) + Len(b)
    BY <1>3
  <2>2. c \o d \in Seq(U) /\ Len(c \o d) = Len(c) + Len(d)
    BY <1>3
  <2> QED
    BY <1>4, <2>1, <2>2
<1>6. ASSUME NEW i \in DOMAIN (a \o b) PROVE SameLine((a \o b)[i], (c \o d)[i])
  <2>1. i \in 1..(Len(a) + Len(b))
    BY <1>5
  <2>2. CASE i <= Len(a)
    <3>1. i \in DOMAIN a /\ (a \o b)[i] = a[i] /\ (c \o d)[i] = c[i]
      BY <1>3, <1>4, <2>1, <2>2
    <3> QED
      BY <3>1 DEF Agree, SameLines
  <2>3. CASE i > Len(a)
    <3>1. /\ i - Len(a) \in DOMAIN b /\ (a \o b)[i] = b[i - Len(a)]
          /\ (c \o d)[i] = d[i - Len(a)]
      BY <1>3, <1>4, <2>1, <2>3
    <3> QED
      BY <3>1 DEF Agree, SameLines
  <2>4. i <= Len(a) \/ i > Len(a)
    BY <1>3, <2>1
  <2> QED
    BY <2>2, <2>3, <2>4
<1> QED
  BY <1>5, <1>6 DEF Agree, SameLines

\* Lines both files leave out.
LEMMA AgreeUnless ==
  ASSUME NEW absent \in BOOLEAN, NEW a, NEW c, Agree(a, c)
  PROVE  Agree(Unless(absent, a), Unless(absent, c))
BY DEF Agree, SameLines, Unless

\* What two lines have to have in common.
LEMMA LinesAgree ==
  ASSUME NEW part, NEW text, NEW other, NEW ds, NEW ps,
         \/ text = other
         \/ part = "cell" /\ text = "" /\ other = "None"
         \/ part = "text" /\ text \in {"zero", "no rows"} /\ other = ""
         \/ part \notin {"text", "header"} /\ text = "lines" /\ other = "one line"
         \/ ds.uppercase /\ text = "a < b",
         \A field \in DOMAIN ds :
           ds[field] = ps[field] \/ (part = "header" /\ field = "italic")
  PROVE  SameLine(Line(part, text, ds), Line(part, other, ps))
<1> DEFINE d == Line(part, text, ds)
           p == Line(part, other, ps)
<1>1. /\ d.part = part /\ d.text = text /\ d.style = ds
      /\ p.part = part /\ p.text = other /\ p.style = ps
  BY DEF Line
<1> HIDE DEF d, p
<1>2. d.text = p.text \/ Differ(d, p)
  BY <1>1 DEF Differ
<1> QED
  BY <1>1, <1>2 DEF SameLine, d, p

\* One line.
LEMMA AgreeOne ==
  ASSUME NEW d, NEW p, SameLine(d, p)
  PROVE  Agree(<<d>>, <<p>>)
<1>1. <<d>> \in Seq({d, p}) /\ <<p>> \in Seq({d, p})
  OBVIOUS
<1>2. SameLines(<<d>>, <<p>>)
  BY DEF SameLines
<1> QED
  BY <1>1, <1>2 DEF Agree

\* As many lines in both files, each like its counterpart.
LEMMA AgreeEach ==
  ASSUME NEW n \in Nat, NEW ds, NEW ps,
         ds = [i \in 1..n |-> ds[i]], ps = [i \in 1..n |-> ps[i]],
         \A i \in 1..n : SameLine(ds[i], ps[i])
  PROVE  Agree(ds, ps)
<1> DEFINE S == {ds[i] : i \in 1..n} \cup {ps[i] : i \in 1..n}
<1>1. ds \in [1..n -> S] /\ ps \in [1..n -> S]
  OBVIOUS
<1> HIDE DEF S
<1>2. ds \in Seq(S) /\ ps \in Seq(S) /\ Len(ds) = n /\ Len(ps) = n
  BY <1>1
<1> QED
  BY <1>1, <1>2 DEF Agree, SameLines

\* The style both programs give a line whose style cannot be chosen.
LEMMA PlainStyle ==
  ASSUME NEW alignment, NEW bold \in BOOLEAN
  PROVE  PdfStyle(Style("None", "None", FALSE), alignment, "zero", bold)
           = Style(alignment, "zero", bold)
<1> DEFINE none == Style("None", "None", FALSE)
           z == none.bold \/ bold
<1>1. PdfStyle(none, alignment, "zero", bold)
        = [none EXCEPT !.alignment = Or(@, alignment), !.indent = Or(@, "zero"), !.bold = z]
  BY DEF PdfStyle
<1>2. none.bold = FALSE
  BY DEF Style
<1>3. z = bold
  BY <1>2
<1> HIDE DEF z
<1> QED
  BY <1>1, <1>3 DEF Style, Or

\* A text that is shown as it is: the PDF only turns line feeds into blanks.
LEMMA AgreePlain ==
  ASSUME NEW part, NEW text, NEW alignment, NEW bold \in BOOLEAN, part \notin {"text", "header"}
  PROVE  SameLine(Line(part, text, Style(alignment, "zero", bold)),
                    PdfPlain(part, text, alignment, bold))
<1> DEFINE style == Style(alignment, "zero", bold)
<1>1. PdfPlain(part, text, alignment, bold) = Line(part, Escaped(text), style)
  BY PlainStyle DEF PdfPlain
<1>2. text = Escaped(text) \/ (text = "lines" /\ Escaped(text) = "one line")
  BY DEF Escaped
<1> HIDE DEF style
<1> QED
  BY <1>1, <1>2, LinesAgree DEF style

\* The cell of a table.
LEMMA AgreeCell ==
  ASSUME NEW cell
  PROVE  SameLine(DocxCell(cell), PdfCell(cell))
<1> DEFINE v == cell.value
           style == Style(cell.column.alignment, "zero", FALSE)
<1>1. /\ DocxCell(cell) = Line("cell", Or(v, ""), style)
      /\ PdfCell(cell) = Line("cell", Escaped(v), style)
  BY PlainStyle DEF DocxCell, PdfCell, PdfPlain
<1>2. \/ Or(v, "") = Escaped(v)
      \/ Or(v, "") = "" /\ Escaped(v) = "None"
      \/ Or(v, "") = "lines" /\ Escaped(v) = "one line"
  BY DEF Or, Escaped
<1> HIDE DEF style
<1> QED
  BY <1>1, <1>2, LinesAgree

\* The style of a text of the DOCX.
LEMMA DocxStyleFields ==
  ASSUME NEW style \in Styles, NEW alignment, NEW indent,
         NEW s, s = DocxStyle(style, alignment, indent)
  PROVE  /\ DOMAIN s = {"uppercase", "alignment", "indent", "bold", "italic"}
         /\ s.uppercase = style.uppercase /\ s.bold = style.bold /\ s.italic = style.italic
         /\ s.alignment = Or(style.alignment, alignment)
         /\ s.indent = Or(style.indent, indent)
<1>1. DOMAIN style = {"uppercase", "alignment", "indent", "bold", "italic"}
  BY DEF Styles
<1> QED
  BY <1>1 DEF DocxStyle

\* Headers: the same text and weight; the DOCX is never in italics.
LEMMA AgreeHeader ==
  ASSUME NEW b, b.style \in Styles
  PROVE  Agree(DocxHeader(b), PdfHeader(b))
<1> DEFINE style == DocxStyle(b.style, "center", "zero")
           ds == [style EXCEPT !.bold = TRUE, !.italic = FALSE]
           ps == PdfStyle(b.style, "center", "zero", TRUE)
           shown == RenderText(b.text, b.style)
<1>7. style = DocxStyle(b.style, "center", "zero")
  OBVIOUS
<1>2. shown = b.text \/ (b.style.uppercase /\ b.text = "a < b")
  BY DEF RenderText
<1>10. /\ DOMAIN style = {"uppercase", "alignment", "indent", "bold", "italic"}
       /\ style.uppercase = b.style.uppercase
       /\ style.alignment = Or(b.style.alignment, "center")
       /\ style.indent = Or(b.style.indent, "zero")
  BY <1>7, DocxStyleFields
<1>11. /\ ps.uppercase = b.style.uppercase /\ ps.bold = TRUE
       /\ ps.alignment = Or(b.style.alignment, "center")
       /\ ps.indent = Or(b.style.indent, "zero")
  <2> DEFINE x == Or(b.style.alignment, "center")
             y == Or(b.style.indent, "zero")
             z == b.style.bold \/ TRUE
  <2>1. ps = [b.style EXCEPT !.alignment = x, !.indent = y, !.bold = z]
    BY DEF PdfStyle
  <2>2. z = TRUE
    OBVIOUS
  <2>3. DOMAIN b.style = {"uppercase", "alignment", "indent", "bold", "italic"}
    BY DEF Styles
  <2> HIDE DEF ps, x, y, z
  <2>4. /\ ps.uppercase = b.style.uppercase /\ ps.bold = z
        /\ ps.alignment = x /\ ps.indent = y
    BY <2>1, <2>3
  <2> QED
    BY <2>2, <2>4 DEF x, y
<1> HIDE DEF style, ps, shown
<1>1. /\ DOMAIN style = {"uppercase", "alignment", "indent", "bold", "italic"}
      /\ style.uppercase = b.style.uppercase /\ ps.uppercase = b.style.uppercase
      /\ style.alignment = ps.alignment /\ style.indent = ps.indent
      /\ ps.bold = TRUE
  BY <1>10, <1>11
<1>4. /\ DOMAIN ds = {"uppercase", "alignment", "indent", "bold", "italic"}
      /\ ds.uppercase = style.uppercase /\ ds.alignment = style.alignment
      /\ ds.indent = style.indent /\ ds.bold = TRUE
  BY <1>1
<1> HIDE DEF ds
<1>5. SameLine(Line("header", b.text, ds), Line("header", shown, ps))
  BY <1>1, <1>2, <1>4, LinesAgree
<1>6. /\ DocxHeader(b) = <<Line("header", b.text, ds)>>
      /\ PdfHeader(b) = <<Line("header", shown, ps)>>
  BY DEF DocxHeader, PdfHeader, style, ds, ps, shown
<1> QED
  BY <1>5, <1>6, AgreeOne

\* Text blocks.
LEMMA AgreeText ==
  ASSUME NEW b, b.style \in Styles
  PROVE  Agree(DocxText(b), PdfText(b))
<1> DEFINE ds == DocxStyle(b.style, "justify", "default")
           ps == PdfStyle(b.style, "justify", "default", FALSE)
           text == IF b.text \in Falsy THEN "" ELSE b.text
           shown == RenderText(text, b.style)
           own == Or(b.text, "")
<1>7. ds = DocxStyle(b.style, "justify", "default")
  OBVIOUS
<1>4. \/ own = shown
      \/ own \in {"zero", "no rows"} /\ shown = ""
      \/ b.style.uppercase /\ own = "a < b"
  BY DEF RenderText, Or, Falsy
<1>10. /\ DOMAIN ds = {"uppercase", "alignment", "indent", "bold", "italic"}
       /\ ds.uppercase = b.style.uppercase /\ ds.bold = b.style.bold
       /\ ds.italic = b.style.italic
       /\ ds.alignment = Or(b.style.alignment, "justify")
       /\ ds.indent = Or(b.style.indent, "default")
  BY <1>7, DocxStyleFields
<1>11. /\ ps.uppercase = b.style.uppercase /\ ps.bold = b.style.bold /\ ps.italic = b.style.italic
       /\ ps.alignment = Or(b.style.alignment, "justify")
       /\ ps.indent = Or(b.style.indent, "default")
  <2> DEFINE x == Or(b.style.alignment, "justify")
             y == Or(b.style.indent, "default")
             z == b.style.bold \/ FALSE
  <2>1. ps = [b.style EXCEPT !.alignment = x, !.indent = y, !.bold = z]
    BY DEF PdfStyle
  <2>2. z = b.style.bold
    BY DEF Styles
  <2>3. DOMAIN b.style = {"uppercase", "alignment", "indent", "bold", "italic"}
    BY DEF Styles
  <2> HIDE DEF ps, x, y, z
  <2>4. /\ ps.uppercase = b.style.uppercase /\ ps.bold = z /\ ps.italic = b.style.italic
        /\ ps.alignment = x /\ ps.indent = y
    BY <2>1, <2>3
  <2> QED
    BY <2>2, <2>4 DEF x, y
<1> HIDE DEF ds, ps, shown, own
<1>1. \A field \in DOMAIN ds : ds[field] = ps[field]
  BY <1>10, <1>11
<1>5. SameLine(Line("text", own, ds), Line("text", shown, ps))
  BY <1>1, <1>4, <1>10, LinesAgree
<1>6. /\ DocxText(b) = <<Line("text", own, ds)>>
      /\ PdfText(b) = <<Line("text", shown, ps)>>
  BY DEF DocxText, PdfText, ds, ps, shown, own
<1> QED
  BY <1>5, <1>6, AgreeOne

\* The captions, which both programs leave out when they are empty.
LEMMA AgreeCaption ==
  ASSUME NEW text, NEW bold \in BOOLEAN
  PROVE  Agree(Unless(text \in Falsy,
                        <<Line("caption", text, Style("center", "zero", bold))>>),
               Unless(text \in Falsy, <<PdfPlain("caption", text, "center", bold)>>))
<1>1. SameLine(Line("caption", text, Style("center", "zero", bold)),
                 PdfPlain("caption", text, "center", bold))
  BY AgreePlain
<1>2. (text \in Falsy) \in BOOLEAN
  OBVIOUS
<1> QED
  BY <1>1, <1>2, AgreeOne, AgreeUnless

\* The headers of the columns.
LEMMA AgreeColumns ==
  ASSUME NEW columns \in Seq(Columns)
  PROVE  Agree([c \in DOMAIN columns |->
                  Line("column", columns[c].header, Style("center", "zero", TRUE))],
               [c \in DOMAIN columns |-> PdfPlain("column", columns[c].header, "center", TRUE)])
<1> DEFINE ds == [c \in DOMAIN columns |->
                    Line("column", columns[c].header, Style("center", "zero", TRUE))]
           ps == [c \in DOMAIN columns |-> PdfPlain("column", columns[c].header, "center", TRUE)]
           n == Len(columns)
<1>1. n \in Nat /\ DOMAIN columns = 1..n
  OBVIOUS
<1>2. ASSUME NEW c \in 1..n PROVE SameLine(ds[c], ps[c])
  <2> DEFINE d == Line("column", columns[c].header, Style("center", "zero", TRUE))
             p == PdfPlain("column", columns[c].header, "center", TRUE)
  <2>1. SameLine(d, p)
    BY AgreePlain
  <2>2. ds[c] = d /\ ps[c] = p
    BY <1>1
  <2> QED
    BY <2>1, <2>2
<1>3. ds = [c \in 1..n |-> ds[c]] /\ ps = [c \in 1..n |-> ps[c]]
  BY <1>1
<1> HIDE DEF ds, ps, n
<1>4. Agree(ds, ps)
  BY <1>1, <1>2, <1>3, AgreeEach
<1> QED
  BY <1>4 DEF ds, ps

\* The number of cells.
LEMMA CellsCount ==
  ASSUME NEW b, b.columns \in Seq(Columns), b.cells \in Seq(Seq(Values))
  PROVE  \E n \in Nat : DOMAIN CellsOf(b) = 1..n
<1> DEFINE width == Len(b.columns)
           height == Len(b.cells)
<1>1. width \in Nat /\ height \in Nat
  OBVIOUS
<1>2. height * width \in Nat
  <2> HIDE DEF width, height
  <2> QED
    BY <1>1
<1>3. CASE b.rows # "rows"
  <2>1. CellsOf(b) = <<>>
    BY <1>3 DEF CellsOf
  <2>2. DOMAIN <<>> = 1..0
    OBVIOUS
  <2> QED
    BY <2>1, <2>2, 0 \in Nat
<1>4. CASE b.rows = "rows"
  <2>1. DOMAIN CellsOf(b) = 1..(height * width)
    BY <1>4 DEF CellsOf
  <2> QED
    BY <1>2, <2>1
<1> QED
  BY <1>3, <1>4

\* The cells of a table.
LEMMA AgreeCells ==
  ASSUME NEW b, b.columns \in Seq(Columns), b.cells \in Seq(Seq(Values))
  PROVE  Agree([i \in DOMAIN CellsOf(b) |-> DocxCell(CellsOf(b)[i])],
               [i \in DOMAIN CellsOf(b) |-> PdfCell(CellsOf(b)[i])])
<1> DEFINE cells == CellsOf(b)
           ds == [i \in DOMAIN cells |-> DocxCell(cells[i])]
           ps == [i \in DOMAIN cells |-> PdfCell(cells[i])]
<1>1. PICK n \in Nat : DOMAIN cells = 1..n
  BY CellsCount
<1> HIDE DEF cells
<1>2. ASSUME NEW i \in 1..n PROVE SameLine(ds[i], ps[i])
  BY <1>1, AgreeCell
<1>3. ds = [i \in 1..n |-> ds[i]] /\ ps = [i \in 1..n |-> ps[i]]
  BY <1>1
<1> HIDE DEF ds, ps
<1>4. Agree(ds, ps)
  BY <1>2, <1>3, AgreeEach
<1> QED
  BY <1>4 DEF ds, ps, cells

\* Tables: the caption, the headers of the columns and the cells, row by row.
LEMMA AgreeTable ==
  ASSUME NEW b, b.columns \in Seq(Columns), b.cells \in Seq(Seq(Values))
  PROVE  Agree(DocxTable(b), PdfTable(b))
<1> DEFINE dcap == Unless(b.caption \in Falsy,
                    <<Line("caption", b.caption, Style("center", "zero", TRUE))>>)
           pcap == Unless(b.caption \in Falsy,
                    <<PdfPlain("caption", b.caption, "center", TRUE)>>)
           dcols == [c \in DOMAIN b.columns |->
                    Line("column", b.columns[c].header, Style("center", "zero", TRUE))]
           pcols == [c \in DOMAIN b.columns |->
                    PdfPlain("column", b.columns[c].header, "center", TRUE)]
           dcells == [i \in DOMAIN CellsOf(b) |-> DocxCell(CellsOf(b)[i])]
           pcells == [i \in DOMAIN CellsOf(b) |-> PdfCell(CellsOf(b)[i])]
<1>1. Agree(dcap, pcap)
  BY AgreeCaption
<1>2. Agree(dcols, pcols)
  BY AgreeColumns
<1>3. Agree(dcells, pcells)
  BY AgreeCells
<1>4. DocxTable(b) = dcap \o dcols \o dcells /\ PdfTable(b) = pcap \o pcols \o pcells
  BY DEF DocxTable, PdfTable
<1> HIDE DEF dcap, dcols, dcells, pcap, pcols, pcells
<1>5. Agree(dcap \o dcols, pcap \o pcols)
  BY <1>1, <1>2, AgreeAppend
<1> QED
  BY <1>3, <1>4, <1>5, AgreeAppend

\* Lines without text of their own.
LEMMA AgreeSame ==
  ASSUME NEW part, NEW text, NEW style
  PROVE  Agree(<<Line(part, text, style)>>, <<Line(part, text, style)>>)
<1>1. SameLine(Line(part, text, style), Line(part, text, style))
  BY LinesAgree
<1> QED
  BY <1>1, AgreeOne

\* Images, which both programs align alike, and their captions.
LEMMA AgreeImage ==
  ASSUME NEW b
  PROVE  Agree(DocxImage(b), PdfImage(b))
<1> DEFINE image == <<Line("image", b.image, Style(b.alignment, "zero", FALSE))>>
           dcap == Unless(b.caption \in Falsy,
                    <<Line("caption", b.caption, Style("center", "zero", FALSE))>>)
           pcap == Unless(b.caption \in Falsy,
                    <<PdfPlain("caption", b.caption, "center", FALSE)>>)
<1>1. Agree(image, image)
  BY AgreeSame
<1>2. Agree(dcap, pcap)
  BY AgreeCaption
<1>3. DocxImage(b) = image \o dcap /\ PdfImage(b) = image \o pcap
  BY DEF DocxImage, PdfImage
<1> HIDE DEF image, dcap, pcap
<1> QED
  BY <1>1, <1>2, <1>3, AgreeAppend

\* A line of a signature.
LEMMA AgreeSigned ==
  ASSUME NEW text
  PROVE  Agree(<<Line("signed", text, Style("right", "zero", FALSE))>>, PdfSigned(text))
<1>1. SameLine(Line("signed", text, Style("right", "zero", FALSE)),
                 PdfPlain("signed", text, "right", FALSE))
  BY AgreePlain
<1> QED
  BY <1>1, AgreeOne DEF PdfSigned

\* Two lines, one after the other.
LEMMA TwoLines ==
  ASSUME NEW x, NEW y
  PROVE  <<x>> \o <<y>> = <<x, y>>
<1> DEFINE s == <<x>> \o <<y>>
           t == <<x, y>>
<1>1. <<x>> \in Seq({x, y}) /\ <<y>> \in Seq({x, y}) /\ <<x, y>> \in Seq({x, y})
  OBVIOUS
<1>2. s \in Seq({x, y}) /\ Len(s) = 2 /\ s[1] = x /\ s[2] = y
  BY <1>1
<1>3. t \in Seq({x, y}) /\ Len(t) = 2 /\ t[1] = x /\ t[2] = y
  OBVIOUS
<1> HIDE DEF s, t
<1>4. s \in [1..2 -> {x, y}] /\ t \in [1..2 -> {x, y}]
  BY <1>2, <1>3
<1>5. \A i \in 1..2 : s[i] = t[i]
  BY <1>2, <1>3
<1>6. s = t
  BY <1>4, <1>5
<1> QED
  BY <1>6 DEF s, t

\* Signatures: both programs leave out the role and the date on the same conditions.
LEMMA AgreeSignature ==
  ASSUME NEW b, b.includeDate \in BOOLEAN
  PROVE  Agree(DocxSignature(b), PdfSignature(b))
<1> DEFINE Signed(text) == Line("signed", text, Style("right", "zero", FALSE))
           norole == b.role \in Falsy
           nodate == ~b.includeDate \/ b.date \in Falsy
           dl == <<Signed(b.label)>>
           dn == <<Signed(b.name)>>
           dr == <<Signed(b.role)>>
           dd == <<Signed(b.date)>>
           pl == PdfSigned(b.label)
           pn == PdfSigned(b.name)
           pr == PdfSigned(b.role)
           pd == PdfSigned(b.date)
<1>1. Agree(dl, pl) /\ Agree(dn, pn) /\ Agree(dr, pr) /\ Agree(dd, pd)
  BY AgreeSigned
<1>2. norole \in BOOLEAN /\ nodate \in BOOLEAN
  <2>1. norole \in BOOLEAN
    OBVIOUS
  <2>2. nodate \in BOOLEAN
    OBVIOUS
  <2> QED
    BY <2>1, <2>2
<1>3. dl \o dn = <<Signed(b.label), Signed(b.name)>>
  BY TwoLines
<1>4. /\ DocxSignature(b) = (dl \o dn) \o Unless(norole, dr) \o Unless(nodate, dd)
      /\ PdfSignature(b) = pl \o pn \o Unless(norole, pr) \o Unless(nodate, pd)
  BY <1>3 DEF DocxSignature, PdfSignature
<1> HIDE DEF norole, nodate, dl, dn, dr, dd, pl, pn, pr, pd
<1>5. Agree(Unless(norole, dr), Unless(norole, pr))
  BY <1>1, <1>2, AgreeUnless
<1>6. Agree(Unless(nodate, dd), Unless(nodate, pd))
  BY <1>1, <1>2, AgreeUnless
<1>7. Agree(dl \o dn, pl \o pn)
  BY <1>1, AgreeAppend
<1>8. Agree((dl \o dn) \o Unless(norole, dr), (pl \o pn) \o Unless(norole, pr))
  BY <1>5, <1>7, AgreeAppend
<1>9. Agree(((dl \o dn) \o Unless(norole, dr)) \o Unless(nodate, dd),
            ((pl \o pn) \o Unless(norole, pr)) \o Unless(nodate, pd))
  BY <1>6, <1>8, AgreeAppend
<1> QED
  BY <1>4, <1>9

\* What is left of a block when its bindings are resolved: what a block of each kind is
\* drawn from.
LEMMA BlockAgrees ==
  ASSUME NEW b \in Blocks
  PROVE  Agree(DocxBlock(ResolvedBlock(b)), PdfBlock(ResolvedBlock(b)))
<1> DEFINE c == ResolvedBlock(b)
<1>1. CASE b \in TextBlocks
  <2>1. b.type \in {"text", "header"} /\ b.style \in Styles
    BY <1>1 DEF TextBlocks
  <2>2. c = [b EXCEPT !.text = Own(b.text, b.binding)]
    BY <2>1 DEF ResolvedBlock
  <2>3. DOMAIN b = {"type", "text", "binding", "style"}
    BY <1>1 DEF TextBlocks
  <2> HIDE DEF c
  <2>4. c.type = b.type /\ c.style = b.style
    BY <2>2, <2>3
  <2>5. CASE b.type = "header"
    <3>1. DocxBlock(c) = DocxHeader(c) /\ PdfBlock(c) = PdfHeader(c)
      BY <2>4, <2>5 DEF DocxBlock, PdfBlock
    <3> QED
      BY <2>1, <2>4, <3>1, AgreeHeader DEF c
  <2>6. CASE b.type = "text"
    <3>1. DocxBlock(c) = DocxText(c) /\ PdfBlock(c) = PdfText(c)
      BY <2>4, <2>6 DEF DocxBlock, PdfBlock
    <3> QED
      BY <2>1, <2>4, <3>1, AgreeText DEF c
  <2> QED
    BY <2>1, <2>5, <2>6
<1>2. CASE b \in TableBlocks
  <2>1. /\ b.type = "table" /\ b.columns \in Seq(Columns)
        /\ b.cells \in Seq(Seq(Values))
    BY <1>2 DEF TableBlocks
  <2>2. c = [b EXCEPT !.rows = Own(b.rows, b.binding)]
    BY <2>1 DEF ResolvedBlock
  <2>3. DOMAIN b = {"type", "rows", "binding", "caption", "columns", "cells"}
    BY <1>2 DEF TableBlocks
  <2> HIDE DEF c
  <2>4. c.type = b.type /\ c.columns = b.columns /\ c.cells = b.cells
    BY <2>2, <2>3
  <2>5. DocxBlock(c) = DocxTable(c) /\ PdfBlock(c) = PdfTable(c)
    BY <2>1, <2>4 DEF DocxBlock, PdfBlock
  <2> QED
    BY <2>1, <2>4, <2>5, AgreeTable DEF c
<1>3. CASE b \in ImageBlocks
  <2>1. b.type = "image"
    BY <1>3 DEF ImageBlocks
  <2>2. c = [b EXCEPT !.image = Lookup(b.binding)]
    BY <2>1 DEF ResolvedBlock
  <2>3. DOMAIN b = {"type", "binding", "caption", "wide", "alignment", "image"}
    BY <1>3 DEF ImageBlocks
  <2> HIDE DEF c
  <2>4. c.type = b.type
    BY <2>2, <2>3
  <2>5. DocxBlock(c) = DocxImage(c) /\ PdfBlock(c) = PdfImage(c)
    BY <2>1, <2>4 DEF DocxBlock, PdfBlock
  <2> QED
    BY <2>5, AgreeImage DEF c
<1>4. CASE b \in SignatureBlocks
  <2>1. b.type = "signature" /\ b.includeDate \in BOOLEAN
    BY <1>4 DEF SignatureBlocks
  <2>2. c = [b EXCEPT !.name = Lookup(b.signer), !.role = Optional(b.signerRole),
                      !.date = Optional(b.signedOn)]
    BY <2>1 DEF ResolvedBlock
  <2>3. DOMAIN b = {"type", "label", "signer", "signerRole", "signedOn", "includeDate", "name",
                    "role", "date"}
    BY <1>4 DEF SignatureBlocks
  <2> HIDE DEF c
  <2>4. c.type = b.type /\ c.includeDate = b.includeDate
    BY <2>2, <2>3
  <2>5. DocxBlock(c) = DocxSignature(c) /\ PdfBlock(c) = PdfSignature(c)
    BY <2>1, <2>4 DEF DocxBlock, PdfBlock
  <2>6. c.includeDate \in BOOLEAN
    BY <2>1, <2>4
  <2> QED
    BY <2>5, <2>6, AgreeSignature DEF c
<1>5. CASE b \in OtherBlocks
  <2>1. b.type \in {"page_break", "spacer"}
    BY <1>5 DEF OtherBlocks
  <2>2. c = b
    BY <2>1 DEF ResolvedBlock
  <2>3. DocxBlock(b) = <<Mark(b.type)>> /\ PdfBlock(b) = <<Mark(b.type)>>
    BY <2>1 DEF DocxBlock, PdfBlock
  <2> QED
    BY <2>2, <2>3, AgreeSame DEF Mark
<1> QED
  BY <1>1, <1>2, <1>3, <1>4, <1>5 DEF Blocks

\* The inductive invariant: what the resolved blocks and the files come from.
FilesInv ==
  /\ blocks \in Seq(Blocks)
  /\ phase \in {"queued", "composed", "rendered", "failed"} =>
       \A i \in DOMAIN blocks : Accepts(blocks[i])
  /\ phase \in {"composed", "rendered", "failed"} => resolved = Map(blocks)
  /\ phase \in {"composed", "rendered"} =>
       docx = [i \in DOMAIN blocks |-> DocxBlock(resolved[i])]
  /\ phase = "rendered" => pdf = [i \in DOMAIN resolved |-> PdfBlock(resolved[i])]
  /\ AcceptedIsRendered

\* A block that the mapper accepts and the DOCX or the PDF cannot show is one of those
\* the mapper does not look into (_resolve_block, compose, pdf.build).
LEMMA OnlyTheseFail ==
  ASSUME NEW b \in Blocks, Accepts(b),
         ~Composes(ResolvedBlock(b)) \/ ~Prints(ResolvedBlock(b))
  PROVE  Unrenderable(ResolvedBlock(b))
<1> DEFINE c == ResolvedBlock(b)
<1>1. c.type = "table" => c.rows \in Lists
  <2> SUFFICES ASSUME c.type = "table" PROVE c.rows \in Lists
    OBVIOUS
  <2>1. b \in TableBlocks
    BY DEF Blocks, TextBlocks, ImageBlocks, SignatureBlocks, OtherBlocks, ResolvedBlock
  <2>2. b.type = "table" /\ b.rows \in {"None", "no rows", "rows"}
    BY <2>1 DEF TableBlocks
  <2>3. c = [b EXCEPT !.rows = Own(b.rows, b.binding)]
    BY <2>2 DEF ResolvedBlock
  <2>4. c.rows = Own(b.rows, b.binding)
    BY <2>1, <2>3 DEF TableBlocks
  <2>5. b.rows = "rows" \/ Lookup(b.binding) \in Lists
    BY <2>2 DEF Accepts, TableRowsOK
  <2> QED
    BY <2>2, <2>4, <2>5 DEF Own, Lists
<1> HIDE DEF c
<1>2. ASSUME ~Composes(c) PROVE Unrenderable(c)
  <2>1. CASE c.type = "table" /\ c.rows \notin {"rows", "no rows"}
    <3>1. c.rows = "strings"
      BY <1>1, <2>1 DEF Lists
    <3> QED
      BY <2>1, <3>1 DEF Unrenderable
  <2>2. CASE c.type = "image" /\ c.image \in {"webp", "no picture"}
    <3>1. c.image \in Images \ {"png"}
      BY <2>2 DEF Images
    <3> QED
      BY <2>2, <3>1 DEF Unrenderable
  <2>3. CASE "control" \in Shown(DocxBlock(c))
    BY <2>3 DEF Unrenderable
  <2> QED
    BY <1>2, <2>1, <2>2, <2>3 DEF Composes
<1>3. ASSUME ~Prints(c) PROVE Unrenderable(c)
  <2>1. CASE c.type = "table" /\ ~RowsFit(c)
    BY <2>1 DEF Unrenderable
  <2>2. CASE c.type = "image" /\ (c.wide \/ c.image \in {"cut off", "tall"})
    <3>1. c.wide \/ c.image \in Images \ {"png"}
      BY <2>2 DEF Images
    <3> QED
      BY <2>2, <3>1 DEF Unrenderable
  <2> QED
    BY <1>3, <2>1, <2>2 DEF Prints
<1> QED
  BY <1>2, <1>3 DEF c

\* A request starts without files.
LEMMA FilesInit == RenderingInit => FilesInv
BY DEF RenderingInit, FilesInv, AcceptedIsRendered

\* A block is resolved alike as long as the data stays.
LEMMA MapStays ==
  ASSUME data' = data, NEW b
  PROVE  ResolvedBlock(b)' = ResolvedBlock(b)
<1>1. \A x : Lookup(x)' = Lookup(x)
  BY DEF Lookup
<1>2. \A x, y : Own(x, y)' = Own(x, y)
  BY <1>1 DEF Own
<1>3. \A x : Optional(x)' = Optional(x)
  BY <1>1 DEF Optional
<1> QED
  BY <1>1, <1>2, <1>3 DEF ResolvedBlock

\* Every step keeps the invariant.
LEMMA FilesNext ==
  ASSUME FilesInv, [RenderingNext]_renderingVars
  PROVE  FilesInv'
<1>1. CASE CreateDocument
  <2>1. /\ phase = "requested" /\ phase' \in {"queued", "refused"}
        /\ phase' = "queued" => \A i \in DOMAIN blocks : Accepts(blocks[i])
        /\ blocks' = blocks /\ data' = data
    BY <1>1 DEF CreateDocument
  <2>2. phase' = "queued" => (\A i \in DOMAIN blocks : Accepts(blocks[i]))'
    BY <2>1 DEF Accepts, TableRowsOK, Resolvable, Lookup
  <2> QED
    BY <2>1, <2>2 DEF FilesInv, AcceptedIsRendered
<1>2. CASE Compose
  <2>1. /\ phase = "queued" /\ resolved' = Map(blocks)
        /\ blocks' = blocks /\ data' = data
    BY <1>2 DEF Compose
  <2>2. (\A i \in DOMAIN blocks : Accepts(blocks[i]))
    BY <2>1 DEF FilesInv
  <2>3. (\A i \in DOMAIN blocks : Accepts(blocks[i]))'
    BY <2>1, <2>2 DEF Accepts, TableRowsOK, Resolvable, Lookup
  <2>4. (resolved = Map(blocks))'
    BY <2>1, MapStays DEF Map
  <2>5. CASE \A i \in DOMAIN blocks : Accepts(blocks[i]) /\ Composes(resolved'[i])
    <3>1. phase' = "composed" /\ docx' = [i \in DOMAIN blocks |-> DocxBlock(resolved'[i])]
      BY <1>2, <2>5 DEF Compose
    <3>2. (docx = [i \in DOMAIN blocks |-> DocxBlock(resolved[i])])'
      BY <2>1, <3>1
    <3> QED
      BY <2>1, <2>3, <2>4, <3>1, <3>2 DEF FilesInv, AcceptedIsRendered
  <2>6. CASE ~\A i \in DOMAIN blocks : Accepts(blocks[i]) /\ Composes(resolved'[i])
    <3>1. phase' = "failed"
      BY <1>2, <2>6 DEF Compose
    <3>2. PICK i \in DOMAIN blocks : ~Composes(resolved'[i])
      BY <2>2, <2>6
    <3>3. resolved'[i] = ResolvedBlock(blocks[i]) /\ i \in DOMAIN resolved'
      BY <2>1 DEF Map
    <3>4. blocks[i] \in Blocks /\ Accepts(blocks[i])
      BY <2>2 DEF FilesInv
    <3>5. Unrenderable(resolved'[i])
      BY <3>2, <3>3, <3>4, OnlyTheseFail
    <3>6. AcceptedIsRendered'
      BY <3>3, <3>5 DEF AcceptedIsRendered
    <3> QED
      BY <2>1, <2>3, <2>4, <3>1, <3>6 DEF FilesInv
  <2> QED
    BY <2>5, <2>6
<1>3. CASE Render
  <2>1. /\ phase = "composed"
        /\ blocks' = blocks /\ data' = data /\ resolved' = resolved /\ docx' = docx
    BY <1>3 DEF Render
  <2>2. (\A i \in DOMAIN blocks : Accepts(blocks[i]))'
    BY <2>1 DEF FilesInv, Accepts, TableRowsOK, Resolvable, Lookup
  <2>3. (resolved = Map(blocks))'
    BY <2>1, MapStays DEF FilesInv, Map
  <2>4. (docx = [i \in DOMAIN blocks |-> DocxBlock(resolved[i])])'
    BY <2>1 DEF FilesInv
  <2>5. CASE \A i \in DOMAIN resolved : Prints(resolved[i])
    <3>1. phase' = "rendered" /\ pdf' = [i \in DOMAIN resolved |-> PdfBlock(resolved[i])]
      BY <1>3, <2>5 DEF Render
    <3>2. (pdf = [i \in DOMAIN resolved |-> PdfBlock(resolved[i])])'
      BY <2>1, <3>1
    <3> QED
      BY <2>1, <2>2, <2>3, <2>4, <3>1, <3>2 DEF FilesInv, AcceptedIsRendered
  <2>6. CASE ~\A i \in DOMAIN resolved : Prints(resolved[i])
    <3>1. phase' = "failed"
      BY <1>3, <2>6 DEF Render
    <3>2. PICK i \in DOMAIN resolved : ~Prints(resolved[i])
      BY <2>6
    <3>3. resolved[i] = ResolvedBlock(blocks[i]) /\ i \in DOMAIN blocks
      BY <2>1 DEF FilesInv, Map
    <3>4. blocks[i] \in Blocks /\ Accepts(blocks[i])
      BY <2>1, <3>3 DEF FilesInv
    <3>5. Unrenderable(resolved[i])
      BY <3>2, <3>3, <3>4, OnlyTheseFail
    <3>6. AcceptedIsRendered'
      BY <2>1, <3>2, <3>5 DEF AcceptedIsRendered
    <3> QED
      BY <2>1, <2>2, <2>3, <2>4, <3>1, <3>6 DEF FilesInv
  <2> QED
    BY <2>5, <2>6
<1>4. CASE UNCHANGED renderingVars
  <2>1. /\ blocks' = blocks /\ data' = data /\ phase' = phase /\ resolved' = resolved
        /\ docx' = docx /\ pdf' = pdf
    BY <1>4 DEF renderingVars
  <2>2. phase' \in {"queued", "composed", "rendered", "failed"} =>
          (\A i \in DOMAIN blocks : Accepts(blocks[i]))'
    BY <2>1 DEF FilesInv, Accepts, TableRowsOK, Resolvable, Lookup
  <2>3. phase' \in {"composed", "rendered", "failed"} => (resolved = Map(blocks))'
    BY <2>1, MapStays DEF FilesInv, Map
  <2>4. phase' \in {"composed", "rendered"} =>
          (docx = [i \in DOMAIN blocks |-> DocxBlock(resolved[i])])'
    BY <2>1 DEF FilesInv
  <2>5. phase' = "rendered" => (pdf = [i \in DOMAIN resolved |-> PdfBlock(resolved[i])])'
    BY <2>1 DEF FilesInv
  <2> QED
    BY <2>1, <2>2, <2>3, <2>4, <2>5 DEF FilesInv, AcceptedIsRendered
<1> QED
  BY <1>1, <1>2, <1>3, <1>4 DEF RenderingNext

\* The invariant makes the two files agree.
LEMMA FilesAgree == FilesInv => FormatsAgree
<1> SUFFICES ASSUME FilesInv, phase = "rendered"
             PROVE  /\ DOMAIN docx = DOMAIN pdf
                    /\ \A i \in DOMAIN docx : SameLines(docx[i], pdf[i])
  BY DEF FormatsAgree
<1>1. /\ blocks \in Seq(Blocks) /\ resolved = Map(blocks)
      /\ docx = [i \in DOMAIN blocks |-> DocxBlock(resolved[i])]
      /\ pdf = [i \in DOMAIN resolved |-> PdfBlock(resolved[i])]
  BY DEF FilesInv
<1>2. DOMAIN resolved = DOMAIN blocks
  BY <1>1 DEF Map
<1>3. ASSUME NEW i \in DOMAIN blocks PROVE SameLines(docx[i], pdf[i])
  <2>1. blocks[i] \in Blocks
    BY <1>1
  <2>2. resolved[i] = ResolvedBlock(blocks[i])
    BY <1>1 DEF Map
  <2>3. docx[i] = DocxBlock(resolved[i]) /\ pdf[i] = PdfBlock(resolved[i])
    BY <1>1, <1>2
  <2> QED
    BY <2>1, <2>2, <2>3, BlockAgrees DEF Agree
<1> QED
  BY <1>1, <1>2, <1>3

\* What the files come from (process_job).
THEOREM FilesCorrect == RenderingSpec => []FilesInv
<1>1. RenderingInit => FilesInv
  BY FilesInit
<1>2. FilesInv /\ [RenderingNext]_renderingVars => FilesInv'
  BY FilesNext
<1> QED
  BY <1>1, <1>2, PTL DEF RenderingSpec

\* The DOCX and the PDF of every request show the same document (compose,
\* PdfRenderService.render).
THEOREM FormatsAgreeCorrect == RenderingSpec => []FormatsAgree
<1>1. FilesInv => FormatsAgree
  BY FilesAgree
<1> QED
  BY FilesCorrect, <1>1, PTL

\* What a worker fails to compose (create_job, process_job).
THEOREM AcceptedIsRenderedCorrect == RenderingSpec => []AcceptedIsRendered
<1>1. FilesInv => AcceptedIsRendered
  BY DEF FilesInv
<1> QED
  BY FilesCorrect, <1>1, PTL
=============================================================================
