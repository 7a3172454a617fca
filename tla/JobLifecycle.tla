---------------------------- MODULE JobLifecycle ----------------------------
(***************************************************************************)
(* The life of a document job between the API, PostgreSQL, the Celery      *)
(* broker, the workers and the object store.                               *)
(*                                                                         *)
(* A transaction of the code is one action when nothing in it can be seen  *)
(* or disturbed half-way, and several when it can: the first transaction   *)
(* of process_job is Receive (the unlocked read) and Claim (the update and *)
(* the commit), the second is FinishRendering (the read), Upload and       *)
(* Insert for every file, and Commit.                                      *)
(***************************************************************************)
EXTENDS Naturals, FiniteSets

CONSTANTS Jobs,        \* identifiers of document jobs
          Workers,     \* worker processes
          CacheKey,    \* CacheKey[j]: key of the template version and payload
          Formats,     \* Formats[j]: kinds of artifact the job's mode produces
          MaxRetries,  \* worker.max_retries
          NoJob,       \* what an idle worker holds
          Limit        \* Limit[m]: how many mishaps of kind m a behaviour may have

Kinds == {"docx", "pdf"}
Mishaps == {"crash", "error", "slow", "refusal"}

ASSUME FormatsAssumption == Formats \in [Jobs -> {{"docx"}, {"docx", "pdf"}}]
\* A cache hit has the same template version, and its render_strategy decides
\* between create_job and create_imported_job.
ASSUME CacheKeyAssumption ==
  \A i, j \in Jobs : CacheKey[i] = CacheKey[j] => Formats[i] = Formats[j]
ASSUME NoJobAssumption == NoJob \notin Jobs
ASSUME RetriesAssumption == MaxRetries \in Nat
ASSUME LimitAssumption == Limit \in [Mishaps -> Nat]

Statuses == {"absent", "queued", "processing", "completed", "failed", "deleted"}

VARIABLES
  status,    \* document_jobs.status; "absent" before INSERT, "deleted" after DELETE
  old,       \* started_at <= stale_before (read only while PROCESSING)
  rows,      \* document_artifacts: rows[j][k] is the checksum, 0 when no row
  objects,   \* object store: objects[j][k] is the content at the key, 0 when none
  queue,     \* broker: queue[j][n] messages for j with request.retries = n
  unsent,    \* committed requeues whose enqueue call is still to be made
  pc,        \* where each worker is in its task
  task,      \* the job of the message the worker holds
  tries,     \* request.retries of that message
  seen,      \* the job row as the worker's session loaded it
  draft,     \* identity of the bytes the worker has rendered
  staged,    \* kinds whose rows the worker inserted but has not committed
  renders,   \* renderings so far: gives every rendering its own bytes
  used,      \* mishaps so far
  stranded   \* history: jobs a send was lost for, whose retries ran out or
             \* whose failure could not be recorded

dbVars     == <<status, old, rows>>
brokerVars == <<queue, unsent>>
workerVars == <<pc, task, tries, seen, draft, staged>>
vars == <<status, old, rows, objects, queue, unsent, pc, task, tries, seen,
          draft, staged, renders, used, stranded>>

NoRow == [k \in Kinds |-> 0]
NoMessages == [n \in 0..MaxRetries |-> 0]
Phases == {"idle", "read", "rendering", "storing", "inserting", "committing",
           "requeueing", "retrying", "failing", "done"}
Views == Statuses \cup {"stale"}

RowsOK ==
  /\ status \in [Jobs -> Statuses]
  /\ old \in [Jobs -> BOOLEAN]
  /\ rows \in [Jobs -> [Kinds -> Nat]]
  /\ objects \in [Jobs -> [Kinds -> Nat]]

BrokerOK ==
  /\ queue \in [Jobs -> [0..MaxRetries -> Nat]]
  /\ unsent \in [Jobs -> Nat]
  /\ used \in [Mishaps -> Nat]
  /\ stranded \in SUBSET Jobs

WorkersOK ==
  /\ pc \in [Workers -> Phases]
  /\ task \in [Workers -> Jobs \cup {NoJob}]
  /\ \A w \in Workers : pc[w] = "idle" <=> task[w] = NoJob
  /\ tries \in [Workers -> 0..MaxRetries]
  /\ seen \in [Workers -> Views]
  /\ draft \in [Workers -> Nat]
  /\ staged \in [Workers -> SUBSET Kinds]
  /\ renders \in Nat

TypeOK == RowsOK /\ BrokerOK /\ WorkersOK

Init ==
  /\ status = [j \in Jobs |-> "absent"]
  /\ old = [j \in Jobs |-> FALSE]
  /\ rows = [j \in Jobs |-> NoRow]
  /\ objects = [j \in Jobs |-> NoRow]
  /\ queue = [j \in Jobs |-> NoMessages]
  /\ unsent = [j \in Jobs |-> 0]
  /\ pc = [w \in Workers |-> "idle"]
  /\ task = [w \in Workers |-> NoJob]
  /\ tries = [w \in Workers |-> 0]
  /\ seen = [w \in Workers |-> "absent"]
  /\ draft = [w \in Workers |-> 0]
  /\ staged = [w \in Workers |-> {}]
  /\ renders = 0
  /\ used = [m \in Mishaps |-> 0]
  /\ stranded = {}

-----------------------------------------------------------------------------
(* Helpers *)

HasRow(j) == status[j] \notin {"absent", "deleted"}

\* What SELECT loads into a session: the status, and whether it is stale.
View(j) == IF status[j] = "processing" /\ old[j] THEN "stale" ELSE status[j]

\* Rows inserted but not committed hold FOR KEY SHARE on the job row, which
\* FOR UPDATE (the claim, the recovery scan) and DELETE conflict with.
RowShared(j) == \E w \in Workers : task[w] = j /\ staged[w] # {}

Spend(m) == used[m] < Limit[m] /\ used' = [used EXCEPT ![m] = @ + 1]

Deliver(j, n) == queue' = [queue EXCEPT ![j][n] = @ + 1]

\* store_docx runs before store_pdf.
NextKind(w) == IF "docx" \notin staged[w] THEN "docx" ELSE "pdf"

\* The transaction of the worker is rolled back; the objects stay.
Abandon(w, phase) ==
  /\ pc' = [pc EXCEPT ![w] = phase]
  /\ staged' = [staged EXCEPT ![w] = {}]

\* Mutant of Release: the task is kept.
ReleaseKeepsTask(w) ==
  /\ Abandon(w, "idle")
  /\ UNCHANGED <<task, tries>>
  /\ seen' = [seen EXCEPT ![w] = "absent"]
  /\ draft' = [draft EXCEPT ![w] = 0]

\* The worker is free again and has forgotten the task.
Release(w) ==
  /\ Abandon(w, "idle")
  /\ task' = [task EXCEPT ![w] = NoJob]
  /\ tries' = [tries EXCEPT ![w] = 0]
  /\ seen' = [seen EXCEPT ![w] = "absent"]
  /\ draft' = [draft EXCEPT ![w] = 0]

Goto(w, phase) == pc' = [pc EXCEPT ![w] = phase]

-----------------------------------------------------------------------------
(* Faulty variants of the operations below, used to see that the properties *)
(* notice such mistakes; no specification here contains them.               *)

\* Upload leaves the file to a later task.
UploadLater(w) ==
  /\ pc[w] = "storing"
  /\ Goto(w, "inserting")
  /\ UNCHANGED <<objects, dbVars, brokerVars, task, tries, seen, draft, staged,
                 renders, used, stranded>>

\* Insert goes on to mark_completed after the first file.
InsertLeavesEarly(w) ==
  LET j == task[w]
      k == NextKind(w) IN
  /\ pc[w] = "inserting"
  /\ \A v \in Workers \ {w} : task[v] = j => k \notin staged[v]
  /\ IF rows[j][k] # 0 \/ ~HasRow(j)
     THEN Abandon(w, "failing")
     ELSE staged' = [staged EXCEPT ![w] = @ \cup {k}] /\ Goto(w, "committing")
  /\ UNCHANGED <<dbVars, objects, brokerVars, task, tries, seen, draft, renders,
                 used, stranded>>

\* Messages are acknowledged when they are received (acks_late off).
CrashForgets(w) ==
  /\ pc[w] # "idle"
  /\ Spend("crash")
  /\ Release(w)
  /\ UNCHANGED <<dbVars, objects, brokerVars, renders, stranded>>

\* The recovery scan resets the row and sends nothing.
RecoverWithoutSend(j) ==
  /\ View(j) = "stale"
  /\ ~RowShared(j)
  /\ status' = [status EXCEPT ![j] = "queued"]
  /\ UNCHANGED <<old, rows, objects, brokerVars, workerVars, renders, used, stranded>>

-----------------------------------------------------------------------------
(* The API: create_job and create_imported_job *)

\* Completed jobs find_completed_cache_hit may return for j.
CacheHits(j) == {i \in Jobs \ {j} : CacheKey[i] = CacheKey[j] /\ status[i] = "completed"}

\* No hit, or the hit has no reusable row: the job row is committed QUEUED, the
\* enqueue comes after.
CreateQueued(j) ==
  /\ status[j] = "absent"
  /\ CacheHits(j) = {} \/ \E i \in CacheHits(j) : rows[i] = NoRow
  /\ status' = [status EXCEPT ![j] = "queued"]
  /\ unsent' = [unsent EXCEPT ![j] = @ + 1]
  /\ UNCHANGED <<old, rows, objects, queue, workerVars, renders, used, stranded>>

\* A reusable result: its files are copied under the keys of the new job and
\* the job is inserted, started and completed in one transaction.
CreateFromCache(j) ==
  /\ status[j] = "absent"
  /\ \E i \in CacheHits(j) :
       /\ rows[i] # NoRow
       /\ rows' = [rows EXCEPT ![j] = rows[i]]
       /\ objects' = [objects EXCEPT ![j] =
                        [k \in Kinds |-> IF rows[i][k] # 0 THEN objects[i][k] ELSE @[k]]]
  /\ status' = [status EXCEPT ![j] = "completed"]
  /\ UNCHANGED <<old, brokerVars, workerVars, renders, used, stranded>>

\* The enqueue that follows a commit: enqueue_generation_job in the API,
\* enqueue_job in the recovery task.
Enqueue(j) ==
  /\ unsent[j] > 0
  /\ unsent' = [unsent EXCEPT ![j] = @ - 1]
  /\ Deliver(j, 0)
  /\ UNCHANGED <<dbVars, objects, workerVars, renders, used, stranded>>

\* The process dies between commit and enqueue, or the broker refuses.
LoseEnqueue(j) ==
  /\ unsent[j] > 0
  /\ Spend("refusal")
  /\ unsent' = [unsent EXCEPT ![j] = @ - 1]
  /\ stranded' = stranded \cup {j}
  /\ UNCHANGED <<dbVars, objects, queue, workerVars, renders>>

-----------------------------------------------------------------------------
(* The worker: process_document_job, process_job *)

\* A message is delivered and the job is read without a lock.  A job that no
\* longer exists ends the task.
Receive(w, j, n) ==
  /\ pc[w] = "idle"
  /\ queue[j][n] > 0
  /\ queue' = [queue EXCEPT ![j][n] = @ - 1]
  /\ task' = [task EXCEPT ![w] = j]
  /\ tries' = [tries EXCEPT ![w] = n]
  /\ seen' = [seen EXCEPT ![w] = View(j)]
  /\ Goto(w, IF HasRow(j) THEN "read" ELSE "done")
  /\ UNCHANGED <<dbVars, objects, unsent, draft, staged, renders, used, stranded>>

\* The guard of claim_for_processing looks at the row the session already
\* holds: SELECT ... FOR UPDATE locks it but does not reload it.
Claimable(w) == seen[w] \in {"queued", "stale"}

\* UPDATE sets the columns that differ from the loaded ones: a session that
\* loaded PROCESSING leaves status as it is in the database.
Claim(w) ==
  LET j == task[w] IN
  /\ pc[w] = "read"
  /\ Claimable(w)
  /\ HasRow(j)
  /\ ~RowShared(j)
  /\ status' = [status EXCEPT ![j] = IF seen[w] = "stale" THEN @ ELSE "processing"]
  /\ old' = [old EXCEPT ![j] = FALSE]
  /\ Goto(w, "rendering")
  /\ UNCHANGED <<rows, objects, brokerVars, task, tries, seen, draft, staged,
                 renders, used, stranded>>

\* A transaction that updates row j may be open in another worker (a claim,
\* _requeue_job, _mark_failed_job) or in the recovery scan.
RowLocked(w, j) ==
  \/ RowShared(j)
  \/ View(j) = "stale"
  \/ \E v \in Workers \ {w} :
       /\ task[v] = j
       /\ pc[v] \in {"requeueing", "failing"} \/ (pc[v] = "read" /\ Claimable(v))

\* claim_for_processing returns None: the row is gone, is not claimable as it
\* was loaded, or is locked by somebody else (SKIP LOCKED).
SkipClaim(w) ==
  LET j == task[w] IN
  /\ pc[w] = "read"
  /\ \/ ~Claimable(w)
     \/ ~HasRow(j)
     \/ RowLocked(w, j)
  /\ Goto(w, "done")
  /\ UNCHANGED <<dbVars, objects, brokerVars, task, tries, seen, draft, staged,
                 renders, used, stranded>>

\* The bytes are ready; the second transaction reads the job without a lock.
FinishRendering(w) ==
  LET j == task[w] IN
  /\ pc[w] = "rendering"
  /\ renders' = renders + 1
  /\ draft' = [draft EXCEPT ![w] = renders + 1]
  /\ seen' = [seen EXCEPT ![w] = View(j)]
  /\ Goto(w, IF HasRow(j) THEN "storing" ELSE "done")
  /\ UNCHANGED <<dbVars, objects, brokerVars, task, tries, staged, used, stranded>>

\* The key depends on the job and the kind only: an upload overwrites.
Upload(w) ==
  /\ pc[w] = "storing"
  /\ objects' = [objects EXCEPT ![task[w]][NextKind(w)] = draft[w]]
  /\ Goto(w, "inserting")
  /\ UNCHANGED <<dbVars, brokerVars, task, tries, seen, draft, staged, renders,
                 used, stranded>>

\* storage_key is UNIQUE: the insert waits for a transaction that holds the
\* same key, and fails when the key is committed or the job row is gone.
Insert(w) ==
  LET j == task[w]
      k == NextKind(w)
      fails == rows[j][k] # 0 \/ ~HasRow(j)
      now == staged[w] \cup {k}
  IN
  /\ pc[w] = "inserting"
  /\ \A v \in Workers \ {w} : task[v] = j => k \notin staged[v]
  /\ IF fails
     THEN Abandon(w, "failing")
     ELSE /\ staged' = [staged EXCEPT ![w] = now]
          /\ Goto(w, IF now = Formats[j] THEN "committing" ELSE "storing")
  /\ UNCHANGED <<dbVars, objects, brokerVars, task, tries, seen, draft, renders,
                 used, stranded>>

\* mark_completed and the commit.
Commit(w) ==
  LET j == task[w] IN
  /\ pc[w] = "committing"
  /\ rows' = [rows EXCEPT ![j] =
                [k \in Kinds |-> IF k \in staged[w] THEN draft[w] ELSE @[k]]]
  /\ status' = [status EXCEPT ![j] = IF seen[w] = "completed" THEN @ ELSE "completed"]
  /\ Abandon(w, "done")
  /\ UNCHANGED <<old, objects, brokerVars, task, tries, seen, draft, renders,
                 used, stranded>>

InTransactions == {"read", "rendering", "storing", "inserting", "committing"}

\* An exception _is_retryable_error accepts.
TransientError(w) ==
  /\ pc[w] \in InTransactions
  /\ Spend("error")
  /\ Abandon(w, "requeueing")
  /\ UNCHANGED <<dbVars, objects, brokerVars, task, tries, seen, draft, renders,
                 stranded>>

\* Any other exception: validation, quota, template not found, rendering.
PermanentError(w) ==
  /\ pc[w] \in InTransactions
  /\ Spend("error")
  /\ Abandon(w, "failing")
  /\ UNCHANGED <<dbVars, objects, brokerVars, task, tries, seen, draft, renders,
                 stranded>>

\* _requeue_job: a job that exists becomes QUEUED, whatever it was.
Requeue(w) ==
  LET j == task[w] IN
  /\ pc[w] = "requeueing"
  /\ status' = [status EXCEPT ![j] = IF HasRow(j) THEN "queued" ELSE @]
  /\ Goto(w, "retrying")
  /\ UNCHANGED <<old, rows, objects, brokerVars, task, tries, seen, draft, staged,
                 renders, used, stranded>>

\* task.retry sends the next message ...
Retry(w) ==
  /\ pc[w] = "retrying"
  /\ tries[w] < MaxRetries
  /\ Deliver(task[w], tries[w] + 1)
  /\ Goto(w, "done")
  /\ UNCHANGED <<dbVars, objects, unsent, task, tries, seen, draft, staged,
                 renders, used, stranded>>

\* ... or gives up: the task fails and the row is not touched.
GiveUp(w) ==
  /\ pc[w] = "retrying"
  /\ tries[w] = MaxRetries
  /\ stranded' = stranded \cup {task[w]}
  /\ Goto(w, "done")
  /\ UNCHANGED <<dbVars, objects, brokerVars, task, tries, seen, draft, staged,
                 renders, used>>

\* _mark_failed_job: a job that exists becomes FAILED, whatever it was.
MarkFailed(w) ==
  LET j == task[w] IN
  /\ pc[w] = "failing"
  /\ status' = [status EXCEPT ![j] = IF HasRow(j) THEN "failed" ELSE @]
  /\ Goto(w, "done")
  /\ UNCHANGED <<old, rows, objects, brokerVars, task, tries, seen, draft, staged,
                 renders, used, stranded>>

\* The failure handler fails itself (no database, no broker): the task ends
\* with an error, is acknowledged, and neither row nor message is written.
\* A row left PROCESSING is recovered some day; one left QUEUED is not.
HandlerFails(w) ==
  /\ pc[w] \in {"requeueing", "retrying", "failing"}
  /\ Spend("refusal")
  /\ stranded' = stranded \cup {j \in {task[w]} : status[j] = "queued"}
  /\ Goto(w, "done")
  /\ UNCHANGED <<dbVars, objects, brokerVars, task, tries, seen, draft, staged,
                 renders>>

\* acks_late: the message leaves the broker when the task has ended.
Ack(w) ==
  /\ pc[w] = "done"
  /\ Release(w)
  /\ UNCHANGED <<dbVars, objects, brokerVars, renders, used, stranded>>

\* reject_on_worker_lost: a task that has not been acknowledged comes back.
Crash(w) ==
  /\ pc[w] # "idle"
  /\ Spend("crash")
  /\ Deliver(task[w], tries[w])
  /\ Release(w)
  /\ UNCHANGED <<dbVars, objects, unsent, renders, stranded>>

\* The visibility timeout of the Redis broker passes before the task ends: the
\* message is delivered once more while the worker goes on.
Redeliver(w) ==
  /\ pc[w] # "idle"
  /\ Spend("slow")
  /\ Deliver(task[w], tries[w])
  /\ UNCHANGED <<dbVars, objects, unsent, workerVars, renders, stranded>>

-----------------------------------------------------------------------------
(* Time, stale-job recovery and retention *)

\* stale_job_timeout_seconds pass.  While a worker is still busy with the job
\* that is a mishap; otherwise it is only a matter of time.
GrowOld(j) ==
  /\ status[j] = "processing"
  /\ ~old[j]
  /\ IF \E w \in Workers : task[w] = j /\ pc[w] # "done"
     THEN Spend("slow")
     ELSE UNCHANGED used
  /\ old' = [old EXCEPT ![j] = TRUE]
  /\ UNCHANGED <<status, rows, objects, brokerVars, workerVars, renders, stranded>>

\* recover_stale_jobs commits QUEUED; _run_recover_stale_document_jobs enqueues
\* afterwards.
RecoverStale(j) ==
  /\ View(j) = "stale"
  /\ ~RowShared(j)
  /\ status' = [status EXCEPT ![j] = "queued"]
  /\ unsent' = [unsent EXCEPT ![j] = @ + 1]
  /\ UNCHANGED <<old, rows, objects, queue, workerVars, renders, used, stranded>>

\* _cleanup_failed_jobs: the row goes, its artifact rows stay, detached.
PurgeFailed(j) ==
  /\ status[j] = "failed"
  /\ ~RowShared(j)
  /\ status' = [status EXCEPT ![j] = "deleted"]
  /\ UNCHANGED <<old, rows, objects, brokerVars, workerVars, renders, used, stranded>>

-----------------------------------------------------------------------------
Create(j) == CreateQueued(j) \/ CreateFromCache(j)

Work(w) ==
  \/ \E j \in Jobs, n \in 0..MaxRetries : Receive(w, j, n)
  \/ Claim(w) \/ SkipClaim(w) \/ FinishRendering(w)
  \/ Upload(w) \/ Insert(w) \/ Commit(w)
  \/ Requeue(w) \/ Retry(w) \/ GiveUp(w) \/ MarkFailed(w) \/ Ack(w)

Fail(w) ==
  \/ TransientError(w) \/ PermanentError(w) \/ HandlerFails(w)
  \/ Crash(w) \/ Redeliver(w)

Next ==
  \/ \E j \in Jobs : Create(j) \/ Enqueue(j) \/ LoseEnqueue(j)
                     \/ GrowOld(j) \/ RecoverStale(j) \/ PurgeFailed(j)
  \/ \E w \in Workers : Work(w) \/ Fail(w)

Spec == Init /\ [][Next]_vars

(* Fairness: a running process keeps running (workers, the request that    *)
(* holds an unsent enqueue), a started_at keeps ageing, and the scheduler  *)
(* of celery_app.py repeats the recovery scan for ever.  Requests, faults  *)
(* and the retention pass have none.                                       *)
Fairness ==
  /\ \A w \in Workers : WF_vars(Work(w))
  /\ \A j \in Jobs : WF_vars(Enqueue(j)) /\ WF_vars(GrowOld(j)) /\ WF_vars(RecoverStale(j))

FairSpec == Spec /\ Fairness
-----------------------------------------------------------------------------
(* Properties *)

\* The rows of job j are those of a whole result.
Whole(j) == rows[j] # NoRow /\ \A k \in Kinds : rows[j][k] # 0 <=> k \in Formats[j]

\* A job reported COMPLETED has an artifact row for every format of its mode,
\* however many workers processed it (mark_completed, process_job tx 2).
CompletedIsWhole == \A j \in Jobs : status[j] = "completed" => Whole(j)

\* All rows of a job come from one rendering: two workers that finish the same
\* job never mix their files (store_docx, store_pdf in one transaction).
OneRendering ==
  \A j \in Jobs : \A k, l \in Kinds :
    rows[j][k] # 0 /\ rows[j][l] # 0 => rows[j][k] = rows[j][l]

\* Every artifact row has an object at its key: files are uploaded before the
\* row is inserted, and a crash in between never leaves a row without a file.
RowsAreBacked ==
  \A j \in Jobs, k \in Kinds : rows[j][k] # 0 => objects[j][k] # 0

\* A worker whose task will still settle the job or hand it on.
Carries(w, j) ==
  /\ task[w] = j
  /\ \/ pc[w] = "read" /\ Claimable(w)
     \/ pc[w] \in (InTransactions \ {"read"}) \cup {"requeueing", "retrying", "failing"}

\* A QUEUED job is never forgotten: an enqueue is pending, a message is in the
\* broker or a worker has it in hand -- unless an enqueue was lost, the retries
\* ran out or the failure handler failed: the three ways to forget a job.
NeverForgotten ==
  \A j \in Jobs :
    status[j] = "queued" /\ j \notin stranded =>
      \/ unsent[j] > 0
      \/ \E n \in 0..MaxRetries : queue[j][n] > 0
      \/ \E w \in Workers : Carries(w, j)

\* A committed artifact row is never replaced: a second delivery of the same
\* job fails on the unique storage key (document_artifacts.storage_key).
DeliveredOnce ==
  [][\A j \in Jobs : rows[j] # NoRow => rows'[j] = rows[j]]_vars

\* The files of a job are published whole, once, from one rendering.
Shelf == INSTANCE DocumentShelf WITH shelf <- rows
PublishesOnce == Shelf!Spec

Settled(j) == status[j] \in {"completed", "failed", "deleted"}

\* Every job that was created is settled in the end, for good, whatever
\* workers crash, repeat or overtake each other, when no enqueue is lost and
\* transient errors stay within the retry budget.
EventuallySettled ==
  \A j \in Jobs : status[j] # "absent" ~> [](Settled(j))

-----------------------------------------------------------------------------
(* Why the safety properties hold: the inductive invariant of the proofs *)

Storing == {"storing", "inserting", "committing"}

\* The rows of j are the whole result of rendering n.
Published(j, n) == rows[j] = [k \in Kinds |-> IF k \in Formats[j] THEN n ELSE 0]

\* Committed rows are one whole result, backed by objects; COMPLETED has them.
JobInv(j) ==
  /\ rows[j] = NoRow \/ \E n \in 1..renders : Published(j, n)
  /\ status[j] = "absent" => rows[j] = NoRow
  /\ status[j] = "completed" => rows[j] # NoRow
  /\ \A k \in Kinds : rows[j][k] # 0 => objects[j][k] # 0

\* A worker that holds uncommitted rows has the job's row pinned and nothing
\* committed before it; what it has inserted is uploaded, docx first.
StagedInv(w) ==
  staged[w] # {} =>
    /\ pc[w] \in Storing
    /\ "docx" \in staged[w]
    /\ HasRow(task[w])
    /\ rows[task[w]] = NoRow
    /\ \A k \in staged[w] : objects[task[w]][k] # 0

\* The second transaction works through the formats of the job.
StoringInv(w) ==
  pc[w] \in Storing =>
    /\ draft[w] \in 1..renders
    /\ seen[w] = "completed" => rows[task[w]] # NoRow
    /\ staged[w] \subseteq Formats[task[w]]
    /\ pc[w] = "committing" <=> staged[w] = Formats[task[w]]
    /\ pc[w] = "inserting" => objects[task[w]][NextKind(w)] # 0

\* The unique key lets one transaction at a time insert for a job.
ExclusiveInv ==
  \A v, w \in Workers :
    v # w /\ task[v] = task[w] => staged[v] = {} \/ staged[w] = {}

DeliveryInv ==
  /\ \A j \in Jobs : JobInv(j)
  /\ \A w \in Workers : StagedInv(w) /\ StoringInv(w)
  /\ ExclusiveInv

=============================================================================
