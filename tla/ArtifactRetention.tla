-------------------------- MODULE ArtifactRetention --------------------------
(***************************************************************************)
(* The files of finished jobs: stored once by a worker, copied to later    *)
(* jobs with the same cache key, expired by time or by an operator, and    *)
(* deleted by cleanups that may overlap.  Rows and the storage meter are   *)
(* in the database (READ COMMITTED), the files in an object store that no  *)
(* transaction covers.  A file counts for one byte.                        *)
(***************************************************************************)
EXTENDS Integers, FiniteSets

CONSTANTS Jobs,        \* document jobs; each is requested once
          CacheKey,    \* CacheKey[j]: organization, template version and cache_key of j
          Cleaners,    \* concurrent cleanups: scheduled, or asked for by an operator
          Retention,   \* generated_artifact_retention_days
          Quota,       \* storage_quota_bytes of the plan
          BatchSize,   \* cleanup_batch_size
          MaxTime,     \* bound: the clock
          MaxFailures  \* bound: transactions that fail

ASSUME JobsAssumption == IsFiniteSet(Jobs)
ASSUME TimesAssumption == Retention \in Nat /\ MaxTime \in Nat
ASSUME SizesAssumption ==
  Quota \in Nat /\ BatchSize \in Nat \ {0} /\ MaxFailures \in Nat

Kinds == {"docx", "pdf"}
Files == Jobs \X Kinds
NoMeter == -1

VARIABLES
  now,        \* the clock
  rows,       \* the files with a committed row in document_artifacts
  expires,    \* expires_at of each row, committed or not
  origin,     \* origin[j]: the job whose rendering the files of j are copies of
  objects,    \* the files in the object store
  status,     \* document_jobs.status; "none" before the request, "refused" if rolled back
  doneAt,     \* document_jobs.completed_at
  meter,      \* organization_usage_meters.storage_bytes
  tx,         \* the transaction of each job: its request, later its worker
  cleaner,    \* the cleanups
  failures,   \* failures so far
  born,       \* history: when the files of a rendering were stored
  invalidated,  \* history: the renderings an operator has invalidated
  leaked,     \* history: those that a request was copying at that moment
  litter,     \* history: files a failed transaction left behind
  raced       \* history: a meter was written from a value, or a row deleted,
              \* that another transaction had changed meanwhile

dbVars == <<rows, expires, origin, status, doneAt, meter>>
historyVars == <<born, invalidated, leaked, litter, raced>>
vars == <<now, dbVars, objects, tx, cleaner, failures, historyVars>>

\* The transaction of a job: what it copies and until when the copied rows were
\* valid when it read them, the files it has made, the meter it read and the
\* meter it wrote (which it then holds locked).
Closed(j) ==
  [phase |-> "idle", source |-> j, todo |-> {}, until |-> [k \in Kinds |-> 0], made |-> {}, seen |-> 0,
   own |-> NoMeter]
Resting == [phase |-> "idle", cutoff |-> 0, batch |-> {}, left |-> {}, seen |-> 0,
            own |-> NoMeter]

Init ==
  /\ now = 0
  /\ rows = {}
  /\ expires = [f \in Files |-> 0]
  /\ origin = [j \in Jobs |-> j]
  /\ objects = {}
  /\ status = [j \in Jobs |-> "none"]
  /\ doneAt = [j \in Jobs |-> 0]
  /\ meter = 0
  /\ tx = [j \in Jobs |-> Closed(j)]
  /\ cleaner = [c \in Cleaners |-> Resting]
  /\ failures = 0
  /\ born = [f \in Files |-> 0]
  /\ invalidated = {} /\ leaked = {} /\ litter = {}
  /\ raced = FALSE

Phases == {"idle", "looking", "copying", "storing", "metering"}
Transactions ==
  [phase : Phases, source : Jobs, todo : SUBSET Kinds, until : [Kinds -> Nat],
   made : SUBSET Kinds, seen : Nat, own : Nat \cup {NoMeter}]
Cleanups ==
  [phase : {"idle", "listing", "deleting", "metering", "committing"}, cutoff : 0..MaxTime,
   batch : SUBSET Files, left : SUBSET Files, seen : Nat, own : Nat \cup {NoMeter}]

TypeOK ==
  /\ now \in 0..MaxTime
  /\ rows \subseteq Files /\ objects \subseteq Files /\ litter \subseteq Files
  /\ expires \in [Files -> Nat] /\ born \in [Files -> 0..MaxTime]
  /\ origin \in [Jobs -> Jobs]
  /\ status \in [Jobs -> {"none", "refused", "queued", "failed", "completed"}]
  /\ doneAt \in [Jobs -> 0..MaxTime]
  /\ meter \in Nat
  /\ tx \in [Jobs -> Transactions]
  /\ cleaner \in [Cleaners -> Cleanups]
  /\ failures \in 0..MaxFailures
  /\ invalidated \subseteq Jobs /\ leaked \subseteq Jobs
  /\ raced \in BOOLEAN

-----------------------------------------------------------------------------
(* Rows, locks and the meter *)

Phase(j) == tx[j].phase
Mine(j, kinds) == {<<j, k>> : k \in kinds}
Live(f) == f \in rows /\ expires[f] >= now

\* The meter row is locked by the transaction that wrote it.
MeterFree ==
  /\ \A j \in Jobs : tx[j].own = NoMeter
  /\ \A c \in Cleaners : cleaner[c].own = NoMeter

\* The rows a cleanup has deleted and not committed.
Held(c) == IF cleaner[c].phase \in {"metering", "committing"} THEN cleaner[c].batch ELSE {}
RowsFree(files) == \A c \in Cleaners : Held(c) \cap files = {}

Rollback(j) ==
  /\ tx' = [tx EXCEPT ![j] = Closed(j)]
  /\ litter' = litter \cup Mine(j, tx[j].made)

\* The rows, the status and the meter of j become visible.
Publish(j) ==
  /\ rows' = rows \cup Mine(j, tx[j].made)
  /\ status' = [status EXCEPT ![j] = "completed"]
  /\ doneAt' = [doneAt EXCEPT ![j] = now]
  /\ meter' = tx[j].own
  /\ tx' = [tx EXCEPT ![j] = Closed(j)]

-----------------------------------------------------------------------------
(* A request: DocumentService.create_job *)

\* The generation is counted first: the meter row stays locked to the end.
Submit(j) ==
  /\ status[j] = "none"
  /\ Phase(j) = "idle"
  /\ MeterFree
  /\ tx' = [tx EXCEPT ![j].phase = "looking", ![j].own = meter]
  /\ UNCHANGED <<now, dbVars, objects, cleaner, failures, historyVars>>

\* find_completed_cache_hit takes the job completed last.
Candidates(j) ==
  LET done == {i \in Jobs : status[i] = "completed" /\ CacheKey[i] = CacheKey[j]}
  IN {i \in done : \A h \in done : doneAt[h] <= doneAt[i]}

\* list_reusable_by_job_id
Reusable(i) == {k \in Kinds : Live(<<i, k>>)}

\* No candidate, or nothing of it left: the job is queued for a worker.
Miss(j) ==
  /\ Phase(j) = "looking"
  /\ \/ Candidates(j) = {}
     \/ \E i \in Candidates(j) : Reusable(i) = {}
  /\ status' = [status EXCEPT ![j] = "queued"]
  /\ tx' = [tx EXCEPT ![j] = Closed(j)]
  /\ UNCHANGED <<now, rows, expires, origin, doneAt, meter, objects, cleaner, failures,
                 historyVars>>

\* The quota is checked, then the files are copied as the rows read now say.
Hit(j, i) ==
  /\ Phase(j) = "looking"
  /\ i \in Candidates(j)
  /\ Reusable(i) # {}
  /\ IF tx[j].own + Cardinality(Reusable(i)) > Quota
     THEN /\ tx' = [tx EXCEPT ![j] = Closed(j)]
          /\ status' = [status EXCEPT ![j] = "refused"]
     ELSE /\ tx' = [tx EXCEPT ![j].phase = "copying", ![j].source = i,
                              ![j].todo = Reusable(i),
                              ![j].until = [k \in Kinds |-> IF k \in Reusable(i)
                                                          THEN expires[<<i, k>>] ELSE 0]]
          /\ UNCHANGED status
  /\ UNCHANGED <<now, rows, expires, origin, doneAt, meter, objects, cleaner, failures,
                 historyVars>>

\* reuse_cached_artifacts, for one file: download, upload, insert, count.  The
\* copy expires with the row it was copied from.
Copy(j, k) ==
  /\ Phase(j) = "copying"
  /\ k \in tx[j].todo
  /\ <<tx[j].source, k>> \in objects
  /\ objects' = objects \cup {<<j, k>>}
  /\ expires' = [expires EXCEPT ![<<j, k>>] = tx[j].until[k]]
  /\ tx' = [tx EXCEPT ![j].todo = @ \ {k}, ![j].made = @ \cup {k}, ![j].own = @ + 1]
  /\ UNCHANGED <<now, rows, origin, status, doneAt, meter, cleaner, failures, historyVars>>

\* The object was deleted since the row was read: the request fails, and what
\* it has copied stays in the object store.
CopyFails(j, k) ==
  /\ Phase(j) = "copying"
  /\ k \in tx[j].todo
  /\ <<tx[j].source, k>> \notin objects
  /\ Rollback(j)
  /\ status' = [status EXCEPT ![j] = "refused"]
  /\ UNCHANGED <<now, rows, expires, origin, doneAt, meter, objects, cleaner, failures,
                 born, invalidated, leaked, raced>>

CompleteFromCache(j) ==
  /\ Phase(j) = "copying"
  /\ tx[j].todo = {}
  /\ Publish(j)
  /\ origin' = [origin EXCEPT ![j] = origin[tx[j].source]]
  /\ UNCHANGED <<now, expires, objects, cleaner, failures, historyVars>>

-----------------------------------------------------------------------------
(* The worker that has rendered a queued job: DocumentGenerationService *)

\* enforce_storage_delta_allowed goes by the meter as it is now.
Start(j) ==
  /\ status[j] = "queued"
  /\ Phase(j) = "idle"
  /\ IF meter + Cardinality(Kinds) > Quota
     THEN /\ status' = [status EXCEPT ![j] = "failed"]
          /\ UNCHANGED tx
     ELSE /\ tx' = [tx EXCEPT ![j].phase = "storing"]
          /\ UNCHANGED status
  /\ UNCHANGED <<now, rows, expires, origin, doneAt, meter, objects, cleaner, failures,
                 historyVars>>

\* Mutant of Missing: the PDF is stored first.
MissingPdf(j) == IF "pdf" \in tx[j].made THEN Kinds \ tx[j].made ELSE {"pdf"}

\* The DOCX is stored before the PDF.
Missing(j) == IF "docx" \in tx[j].made THEN Kinds \ tx[j].made ELSE {"docx"}

\* store_docx, store_pdf: upload, insert, read the meter - which is written at
\* once when the transaction has it locked already.
Store(j, k) ==
  /\ Phase(j) = "storing"
  /\ k \in Missing(j)
  /\ objects' = objects \cup {<<j, k>>}
  /\ expires' = [expires EXCEPT ![<<j, k>>] = now + Retention]
  /\ born' = [born EXCEPT ![<<j, k>>] = now]
  /\ tx' = [tx EXCEPT ![j].made = @ \cup {k},
                      ![j].phase = IF tx[j].own = NoMeter THEN "metering" ELSE "storing",
                      ![j].seen = IF tx[j].own = NoMeter THEN meter ELSE 0,
                      ![j].own = IF @ = NoMeter THEN NoMeter ELSE @ + 1]
  /\ UNCHANGED <<now, rows, origin, status, doneAt, meter, cleaner, failures, invalidated,
                 leaked, litter, raced>>

\* adjust_storage_bytes writes the value read plus one.
CountStored(j) ==
  /\ Phase(j) = "metering"
  /\ MeterFree
  /\ tx' = [tx EXCEPT ![j].phase = "storing", ![j].seen = 0,
                      ![j].own = tx[j].seen + 1]
  /\ raced' = (raced \/ tx[j].seen # meter)
  /\ UNCHANGED <<now, dbVars, objects, cleaner, failures, born, invalidated, leaked, litter>>

Complete(j) ==
  /\ Phase(j) = "storing"
  /\ tx[j].made = Kinds
  /\ Publish(j)
  /\ UNCHANGED <<now, expires, origin, objects, cleaner, failures, historyVars>>

\* A transaction fails or its process dies.  A request is lost, a queued job is
\* tried again.
Fail(j) ==
  /\ Phase(j) # "idle"
  /\ failures < MaxFailures
  /\ failures' = failures + 1
  /\ Rollback(j)
  /\ status' = [status EXCEPT ![j] = IF @ = "none" THEN "refused" ELSE @]
  /\ UNCHANGED <<now, rows, expires, origin, doneAt, meter, objects, cleaner,
                 born, invalidated, leaked, raced>>

\* get_preferred_for_job: what download and preview give out.
Preferred(j) == IF <<j, "pdf">> \in rows THEN "pdf" ELSE "docx"

-----------------------------------------------------------------------------
(* Operators and time *)

Lineage(key) == {f \in rows : CacheKey[f[1]] = key}

\* Mutant of Invalidate: only the rows of the newest job expire.
InvalidateOne(key) ==
  /\ Lineage(key) # {}
  /\ RowsFree(Lineage(key))
  /\ now < MaxTime
  /\ now' = now + 1
  /\ \E j \in {f[1] : f \in Lineage(key)} :
       /\ \A f \in Lineage(key) : doneAt[f[1]] <= doneAt[j]
       /\ expires' = [f \in Files |-> IF f[1] = j THEN now ELSE expires[f]]
  /\ invalidated' = invalidated \cup {origin[f[1]] : f \in Lineage(key)}
  /\ leaked' = leaked \cup {origin[tx[j].source] : j \in {i \in Jobs : Phase(i) = "copying"}}
  /\ UNCHANGED <<rows, origin, status, doneAt, meter, objects, tx, cleaner, failures, born,
                 litter, raced>>

\* invalidate_cache: every row of the cache key expires now, and the next
\* request is later.  When a cleanup is deleting one of the rows, the update
\* waits for it and then fails.
Invalidate(key) ==
  /\ Lineage(key) # {}
  /\ RowsFree(Lineage(key))
  /\ now < MaxTime
  /\ now' = now + 1
  /\ expires' = [f \in Files |-> IF f \in Lineage(key) THEN now ELSE expires[f]]
  /\ invalidated' = invalidated \cup {origin[f[1]] : f \in Lineage(key)}
  /\ leaked' = leaked \cup {origin[tx[j].source] : j \in {i \in Jobs : Phase(i) = "copying"}}
  /\ UNCHANGED <<rows, origin, status, doneAt, meter, objects, tx, cleaner, failures, born,
                 litter, raced>>

Tick ==
  /\ now < MaxTime
  /\ now' = now + 1
  /\ UNCHANGED <<dbVars, objects, tx, cleaner, failures, historyVars>>

-----------------------------------------------------------------------------
(* A cleanup: MaintenanceService._cleanup_expired_artifacts *)

Step(c, phase) == cleaner' = [cleaner EXCEPT ![c].phase = phase]

Begin(c) ==
  /\ cleaner[c].phase = "idle"
  /\ cleaner' = [cleaner EXCEPT ![c].phase = "listing", ![c].cutoff = now]
  /\ UNCHANGED <<now, dbVars, objects, tx, failures, historyVars>>

\* Mutant of Expired: rows about to expire are listed.
ExpiredSoon(c) == {f \in rows : expires[f] <= cleaner[c].cutoff}

Expired(c) == {f \in rows : expires[f] < cleaner[c].cutoff}

\* list_expired: a batch, oldest first.
IsBatch(c, batch) ==
  /\ \A f \in batch, g \in Expired(c) \ batch : expires[f] <= expires[g]
  /\ \/ Cardinality(batch) = BatchSize
     \/ batch = Expired(c) /\ Cardinality(batch) < BatchSize

List(c) ==
  /\ cleaner[c].phase = "listing"
  /\ \/ /\ Expired(c) = {}
        /\ cleaner' = [cleaner EXCEPT ![c] = Resting]
     \/ \E batch \in SUBSET Expired(c) :
          /\ batch # {} /\ IsBatch(c, batch)
          /\ cleaner' = [cleaner EXCEPT ![c].phase = "deleting", ![c].batch = batch,
                                        ![c].left = batch]
  /\ UNCHANGED <<now, dbVars, objects, tx, failures, historyVars>>

\* The objects go first, one by one, ...
DeleteObject(c, f) ==
  /\ cleaner[c].phase = "deleting"
  /\ f \in cleaner[c].left
  /\ objects' = objects \ {f}
  /\ cleaner' = [cleaner EXCEPT ![c].left = @ \ {f}]
  /\ UNCHANGED <<now, dbVars, tx, failures, historyVars>>

\* Mutant of DeleteRows: the objects that are left are forgotten.
DeleteRowsEarly(c) ==
  /\ cleaner[c].phase = "deleting"
  /\ RowsFree(cleaner[c].batch)
  /\ cleaner' = [cleaner EXCEPT ![c].phase = "metering", ![c].left = {}, ![c].seen = meter]
  /\ raced' = (raced \/ ~(cleaner[c].batch \subseteq rows))
  /\ UNCHANGED <<now, dbVars, objects, tx, failures, born, invalidated, leaked, litter>>

\* ... then the rows, waiting for another cleanup that deletes them (that they
\* are gone when it commits is a warning only), and the meter is read.
DeleteRows(c) ==
  /\ cleaner[c].phase = "deleting"
  /\ cleaner[c].left = {}
  /\ RowsFree(cleaner[c].batch)
  /\ cleaner' = [cleaner EXCEPT ![c].phase = "metering", ![c].seen = meter]
  /\ raced' = (raced \/ ~(cleaner[c].batch \subseteq rows))
  /\ UNCHANGED <<now, dbVars, objects, tx, failures, born, invalidated, leaked, litter>>

\* Mutant of Less: the difference may be negative.
Minus(a, b) == a - b

Less(a, b) == IF b <= a THEN a - b ELSE 0

\* adjust_storage_bytes: max(0, what was read less the batch).
CountDeleted(c) ==
  /\ cleaner[c].phase = "metering"
  /\ MeterFree
  /\ cleaner' = [cleaner EXCEPT ![c].phase = "committing", ![c].seen = 0,
                   ![c].own = Less(cleaner[c].seen, Cardinality(cleaner[c].batch))]
  /\ raced' = (raced \/ cleaner[c].seen # meter)
  /\ UNCHANGED <<now, dbVars, objects, tx, failures, born, invalidated, leaked, litter>>

\* Mutant of CommitBatch: the meter of the cleanup is not committed with it.
CommitWithoutMeter(c) ==
  /\ cleaner[c].phase = "committing"
  /\ rows' = rows \ cleaner[c].batch
  /\ cleaner' = [cleaner EXCEPT ![c] = Resting]
  /\ UNCHANGED <<now, expires, origin, status, doneAt, meter, objects, tx, failures,
                 historyVars>>

\* A full batch is followed by another one, with the same cutoff.
CommitBatch(c) ==
  /\ cleaner[c].phase = "committing"
  /\ rows' = rows \ cleaner[c].batch
  /\ meter' = cleaner[c].own
  /\ cleaner' = [cleaner EXCEPT ![c] =
                   IF Cardinality(cleaner[c].batch) < BatchSize THEN Resting
                   ELSE [Resting EXCEPT !.phase = "listing", !.cutoff = cleaner[c].cutoff]]
  /\ UNCHANGED <<now, expires, origin, status, doneAt, objects, tx, failures, historyVars>>

FailCleanup(c) ==
  /\ cleaner[c].phase # "idle"
  /\ failures < MaxFailures
  /\ failures' = failures + 1
  /\ cleaner' = [cleaner EXCEPT ![c] = Resting]
  /\ UNCHANGED <<now, dbVars, objects, tx, historyVars>>

-----------------------------------------------------------------------------
Request(j) ==
  \/ Submit(j) \/ Miss(j) \/ (\E i \in Jobs : Hit(j, i))
  \/ (\E k \in Kinds : Copy(j, k) \/ CopyFails(j, k)) \/ CompleteFromCache(j)

Work(j) ==
  \/ Start(j) \/ (\E k \in Kinds : Store(j, k)) \/ CountStored(j) \/ Complete(j)

Cleanup(c) ==
  \/ Begin(c) \/ List(c) \/ (\E f \in Files : DeleteObject(c, f)) \/ DeleteRows(c)
  \/ CountDeleted(c) \/ CommitBatch(c)

Next ==
  \/ \E j \in Jobs : Request(j) \/ Work(j) \/ Fail(j)
  \/ \E c \in Cleaners : Cleanup(c) \/ FailCleanup(c)
  \/ \E j \in Jobs : Invalidate(CacheKey[j])
  \/ Tick

Spec == Init /\ [][Next]_vars

-----------------------------------------------------------------------------
(* Properties *)

\* However cleanups overlap or fail half-way, a row without its object has
\* expired: what has not expired can be downloaded and copied
\* (_cleanup_expired_artifacts deletes objects before it commits).
UnbackedIsExpired == \A f \in rows : f \notin objects => expires[f] < now

\* As long as anything of a job is valid, the file a download or preview gives
\* out is: it prefers the PDF, the files have expiries of their own, and
\* list_reusable_by_job_id may find only one of them to copy.
ServedIsValid ==
  \A j \in Jobs : (\E k \in Kinds : Live(<<j, k>>)) => Live(<<j, Preferred(j)>>)

\* An invalidated rendering is not valid again under any job, unless a request
\* was copying it at that moment (expire_for_cache_key).
InvalidationHolds ==
  \A f \in rows : Live(f) /\ origin[f[1]] \in invalidated => origin[f[1]] \in leaked

\* As long as no two transactions worked on the meter or on the same rows at
\* once, the meter is the number of bytes stored (record_storage_usage in every
\* path that adds or deletes a file, also when it fails half-way).
MeterExact == ~raced => meter = Cardinality(rows)

\* An object without a row belongs to a running transaction or was left by one
\* that failed; cleanups leave none.
NoOrphans ==
  \A f \in objects : f \in rows \/ f[2] \in tx[f[1]].made \/ f \in litter

\* A file is deleted only when the retention after its rendering is over, or
\* its rendering was invalidated (list_expired, delete_artifacts).
Overdue(f) == now > born[<<origin[f[1]], f[2]>>] + Retention
DeletedOnTime ==
  [][\A f \in rows \ rows' : Overdue(f) \/ origin[f[1]] \in invalidated]_vars

=============================================================================
