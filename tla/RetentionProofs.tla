---------------------------- MODULE RetentionProofs ----------------------------
(***************************************************************************)
(* Proofs about ArtifactRetention for any jobs, cache keys, cleanups and   *)
(* bounds.                                                                 *)
(***************************************************************************)
EXTENDS ArtifactRetention, FiniteSetTheorems, TLAPS

-----------------------------------------------------------------------------
(* The inductive invariant *)

Working == {"storing", "metering"}
Holding == {"metering", "committing"}

\* A request copies from a completed job of the same key; who works is not completed, and
\* who is idle has made nothing.
RequestOK(j) ==
  /\ Phase(j) = "idle" => tx[j] = Closed(j)
  /\ Phase(j) \in {"looking", "copying"} => status[j] = "none" /\ tx[j].own # NoMeter
  /\ Phase(j) \in Working => status[j] = "queued"
  /\ Phase(j) = "looking" => tx[j].made = {}
  /\ Phase(j) = "copying" =>
       /\ status[tx[j].source] = "completed"
       /\ CacheKey[tx[j].source] = CacheKey[j]
       /\ tx[j].todo \cap tx[j].made = {}
  /\ Phase(j) = "storing" /\ tx[j].own = NoMeter => tx[j].made = {}
  /\ Phase(j) = "metering" => tx[j].own = NoMeter /\ \E k \in Kinds : tx[j].made = {k}

RequestsOK == \A j \in Jobs : RequestOK(j)

\* Rows and batches are of completed jobs, files in the making have objects, and a row
\* without one has expired.
FilesOK ==
  /\ \A f \in rows : status[f[1]] = "completed"
  /\ \A j \in Jobs : \A k \in tx[j].made : <<j, k>> \in objects
  /\ UnbackedIsExpired
  /\ NoOrphans

\* A cleanup works on files that have expired, and has deleted the objects that are not
\* left.
BatchOK(c) ==
  /\ cleaner[c].phase \in {"idle", "listing"} => cleaner[c].batch = {}
  /\ cleaner[c].phase # "committing" => cleaner[c].own = NoMeter
  /\ cleaner[c].phase = "committing" => cleaner[c].own # NoMeter
  /\ cleaner[c].phase \in Holding => cleaner[c].left = {}
  /\ cleaner[c].cutoff <= now
  /\ cleaner[c].left \subseteq cleaner[c].batch
  /\ \A f \in cleaner[c].batch :
       /\ status[f[1]] = "completed"
       /\ expires[f] < now
       /\ f \notin cleaner[c].left => f \notin objects

BatchesOK == \A c \in Cleaners : BatchOK(c)

\* Copies descend from a completed rendering of the same key; an invalidated rendering is
\* neither valid nor being copied, unless it leaked.
DescentOK(j) ==
  /\ CacheKey[origin[j]] = CacheKey[j]
  /\ origin[j] = j \/ status[origin[j]] = "completed"
  /\ status[j] # "completed" => origin[j] = j
  /\ j \in invalidated => status[j] = "completed"
  /\ Phase(j) = "copying" /\ origin[tx[j].source] \in invalidated =>
       origin[tx[j].source] \in leaked

LineageOK == (\A j \in Jobs : DescentOK(j)) /\ InvalidationHolds

Due(j, k) == born[<<j, k>>] + Retention

\* What a request copies expires with the row it was copied from.
CopyDates(j) ==
  Phase(j) = "copying" =>
    /\ \A k \in tx[j].todo \cup tx[j].made :
         \/ origin[tx[j].source] \in invalidated
         \/ tx[j].until[k] = Due(origin[tx[j].source], k)
    /\ Kinds \subseteq tx[j].todo \cup tx[j].made => tx[j].until["docx"] <= tx[j].until["pdf"]
    /\ \A k \in tx[j].made : expires[<<j, k>>] = tx[j].until[k]

\* What a worker has stored expires after the retention, the DOCX first.
WorkDates(j) ==
  Phase(j) \in Working =>
    /\ \A k \in tx[j].made : expires[<<j, k>>] = Due(j, k)
    /\ "docx" \in tx[j].made => expires[<<j, "docx">>] <= now + Retention
    /\ "pdf" \in tx[j].made =>
         "docx" \in tx[j].made /\ expires[<<j, "docx">>] <= expires[<<j, "pdf">>]

OrderOK(j) ==
  <<j, "docx">> \in rows /\ <<j, "pdf">> \in rows =>
    expires[<<j, "docx">>] <= expires[<<j, "pdf">>]

RowDate(f) == origin[f[1]] \in invalidated \/ expires[f] = Due(origin[f[1]], f[2])

\* A row expires when the retention of its rendering is over, the PDF not before the DOCX.
DatesOK ==
  /\ \A f \in rows : RowDate(f)
  /\ \A j \in Jobs : OrderOK(j) /\ CopyDates(j) /\ WorkDates(j)

\* One transaction at a time holds the meter, and one cleanup a row.
LocksOK ==
  /\ \A i, j \in Jobs : tx[i].own # NoMeter /\ tx[j].own # NoMeter => i = j
  /\ \A j \in Jobs, c \in Cleaners : tx[j].own # NoMeter => cleaner[c].own = NoMeter
  /\ \A c, d \in Cleaners : cleaner[c].own # NoMeter /\ cleaner[d].own # NoMeter => c = d
  /\ \A c, d \in Cleaners : c # d => Held(c) \cap Held(d) = {}

\* Unless two transactions raced, the meter counts the rows, and what its holder is going
\* to write counts the rows there will be.
CountOK ==
  /\ meter = Cardinality(rows)
  /\ \A j \in Jobs : tx[j].own # NoMeter =>
       tx[j].own = Cardinality(rows \cup Mine(j, tx[j].made))
  /\ \A c \in Cleaners : Held(c) \subseteq rows
  /\ \A c \in Cleaners : cleaner[c].phase = "committing" =>
       cleaner[c].own = Cardinality(rows \ cleaner[c].batch)

MeterOK == LocksOK /\ (~raced => CountOK)

Inv ==
  TypeOK /\ RequestsOK /\ FilesOK /\ BatchesOK /\ LineageOK /\ DatesOK /\ MeterOK

-----------------------------------------------------------------------------
(* What the actions do to a transaction *)

\* A transaction that is closed has nothing.
LEMMA ClosedType ==
  ASSUME NEW j \in Jobs
  PROVE  /\ Closed(j) \in Transactions /\ Closed(j).phase = "idle" /\ Closed(j).made = {}
         /\ Closed(j).own = NoMeter
BY DEF Closed, Transactions, Phases, NoMeter

\* A cleanup at rest has nothing.
LEMMA RestingType ==
  ASSUME TypeOK
  PROVE  /\ Resting \in Cleanups /\ Resting.phase = "idle" /\ Resting.batch = {}
         /\ Resting.left = {} /\ Resting.own = NoMeter /\ Resting.cutoff = 0
BY TimesAssumption DEF Resting, Cleanups, NoMeter, TypeOK

\* One transaction changes, the others stay.
LEMMA TxChange ==
  ASSUME TypeOK, NEW j \in Jobs, NEW t \in Transactions, tx' = [tx EXCEPT ![j] = t]
  PROVE  /\ tx' \in [Jobs -> Transactions] /\ tx'[j] = t
         /\ \A i \in Jobs \ {j} : tx'[i] = tx[i]
BY DEF TypeOK

\* One cleanup changes, the others stay.
LEMMA CleanerChange ==
  ASSUME TypeOK, NEW c \in Cleaners, NEW t \in Cleanups, cleaner' = [cleaner EXCEPT ![c] = t]
  PROVE  /\ cleaner' \in [Cleaners -> Cleanups] /\ cleaner'[c] = t
         /\ \A d \in Cleaners \ {c} : cleaner'[d] = cleaner[d]
BY DEF TypeOK

\* What is open has the shape of a transaction.
LEMMA TxType ==
  ASSUME TypeOK, NEW j \in Jobs
  PROVE  /\ tx[j] \in Transactions /\ tx[j].made \subseteq Kinds /\ tx[j].todo \subseteq Kinds
         /\ tx[j].source \in Jobs /\ tx[j].own \in Nat \cup {NoMeter} /\ tx[j].seen \in Nat
         /\ tx[j].phase \in Phases /\ tx[j].until \in [Kinds -> Nat]
BY DEF TypeOK, Transactions

\* So has a cleanup.
LEMMA CleanerType ==
  ASSUME TypeOK, NEW c \in Cleaners
  PROVE  /\ cleaner[c] \in Cleanups /\ cleaner[c].batch \subseteq Files
         /\ cleaner[c].left \subseteq Files /\ cleaner[c].cutoff \in 0..MaxTime
         /\ cleaner[c].seen \in Nat /\ cleaner[c].own \in Nat \cup {NoMeter}
BY DEF TypeOK, Cleanups

\* The rows are finitely many.
LEMMA FilesFinite == IsFiniteSet(Files) /\ IsFiniteSet(Kinds)
<1>1. IsFiniteSet({"docx"})
  BY FS_Singleton
<1>2. IsFiniteSet({"docx"} \cup {"pdf"})
  BY <1>1, FS_AddElement
<1>3. Kinds = {"docx"} \cup {"pdf"}
  BY DEF Kinds
<1>4. IsFiniteSet(Kinds)
  BY <1>2, <1>3
<1> QED
  BY <1>4, JobsAssumption, FS_Product DEF Files

\* A transaction that a rollback or a commit closes.
LEMMA CloseEffect ==
  ASSUME TypeOK, NEW j \in Jobs, tx' = [tx EXCEPT ![j] = Closed(j)]
  PROVE  /\ tx' \in [Jobs -> Transactions] /\ tx'[j] = Closed(j)
         /\ \A i \in Jobs \ {j} : tx'[i] = tx[i]
BY ClosedType, TxChange

\* A request begins and holds the meter.
LEMMA SubmitEffect ==
  ASSUME TypeOK, NEW j \in Jobs, Submit(j)
  PROVE  /\ tx' \in [Jobs -> Transactions]
         /\ \A i \in Jobs \ {j} : tx'[i] = tx[i]
         /\ tx'[j].phase = "looking" /\ tx'[j].own = meter /\ tx'[j].made = tx[j].made
         /\ tx'[j].source = tx[j].source
<1> DEFINE t == [tx[j] EXCEPT !.phase = "looking", !.own = meter]
<1>0. tx[j] \in Transactions /\ meter \in Nat
  BY TxType DEF TypeOK
<1>1. t \in Transactions
  BY <1>0 DEF Transactions, Phases
<1>2. tx' = [tx EXCEPT ![j] = t]
  BY DEF Submit
<1>3. /\ t.phase = "looking" /\ t.own = meter /\ t.made = tx[j].made
      /\ t.source = tx[j].source
  BY TxType DEF Transactions
<1> HIDE DEF t
<1> QED
  BY <1>1, <1>2, <1>3, TxChange

\* A request finds something to copy and the quota allows it.
LEMMA HitEffect ==
  ASSUME TypeOK, NEW j \in Jobs, NEW i \in Jobs, Hit(j, i),
         ~(tx[j].own + Cardinality(Reusable(i)) > Quota)
  PROVE  /\ tx' \in [Jobs -> Transactions] /\ status' = status
         /\ \A h \in Jobs \ {j} : tx'[h] = tx[h]
         /\ tx'[j].phase = "copying" /\ tx'[j].source = i /\ tx'[j].todo = Reusable(i)
         /\ tx'[j].made = tx[j].made /\ tx'[j].own = tx[j].own
         /\ \A k \in Reusable(i) : tx'[j].until[k] = expires[<<i, k>>]
<1> DEFINE until == [k \in Kinds |-> IF k \in Reusable(i) THEN expires[<<i, k>>] ELSE 0]
           t == [tx[j] EXCEPT !.phase = "copying", !.source = i, !.todo = Reusable(i),
                   !.until = until]
<1>1. Reusable(i) \subseteq Kinds
  BY DEF Reusable
<1>2. until \in [Kinds -> Nat]
  BY DEF TypeOK, Files
<1>3. tx' = [tx EXCEPT ![j] = t] /\ status' = status
  BY DEF Hit
<1>4. \A k \in Reusable(i) : until[k] = expires[<<i, k>>]
  BY <1>1
<1> HIDE DEF until
<1>0. tx[j] \in Transactions
  BY TxType
<1>5. t \in Transactions
  BY <1>0, <1>1, <1>2 DEF Transactions, Phases
<1>6. /\ t.phase = "copying" /\ t.source = i /\ t.todo = Reusable(i) /\ t.made = tx[j].made
      /\ t.own = tx[j].own /\ t.until = until
  BY TxType DEF Transactions
<1> HIDE DEF t
<1> QED
  BY <1>3, <1>4, <1>5, <1>6, TxChange

\* One file is copied.
LEMMA CopyEffect ==
  ASSUME TypeOK, NEW j \in Jobs, NEW k \in Kinds, Copy(j, k), tx[j].own # NoMeter
  PROVE  /\ tx' \in [Jobs -> Transactions]
         /\ \A i \in Jobs \ {j} : tx'[i] = tx[i]
         /\ tx'[j].phase = "copying" /\ tx'[j].source = tx[j].source
         /\ tx'[j].todo = tx[j].todo \ {k} /\ tx'[j].made = tx[j].made \cup {k}
         /\ tx'[j].own = tx[j].own + 1 /\ tx'[j].until = tx[j].until
<1> DEFINE t == [tx[j] EXCEPT !.todo = @ \ {k}, !.made = @ \cup {k}, !.own = @ + 1]
<1>0. tx[j] \in Transactions
  BY TxType
<1>a. tx[j].own + 1 \in Nat
  BY <1>0, TxType
<1>1. t \in Transactions
  BY <1>0, <1>a DEF Transactions
<1>2. tx' = [tx EXCEPT ![j] = t]
  BY DEF Copy
<1>3. /\ t.phase = "copying" /\ t.source = tx[j].source
      /\ t.todo = tx[j].todo \ {k} /\ t.made = tx[j].made \cup {k}
      /\ t.own = tx[j].own + 1 /\ t.until = tx[j].until
  BY TxType DEF Transactions, Copy, Phase
<1> HIDE DEF t
<1> QED
  BY <1>1, <1>2, <1>3, TxChange

\* A worker begins.
LEMMA StartEffect ==
  ASSUME TypeOK, NEW j \in Jobs, Start(j), ~(meter + Cardinality(Kinds) > Quota)
  PROVE  /\ tx' \in [Jobs -> Transactions] /\ status' = status
         /\ \A i \in Jobs \ {j} : tx'[i] = tx[i]
         /\ tx'[j].phase = "storing" /\ tx'[j].own = tx[j].own /\ tx'[j].made = tx[j].made
<1> DEFINE t == [tx[j] EXCEPT !.phase = "storing"]
<1>0. tx[j] \in Transactions
  BY TxType
<1>1. t \in Transactions
  BY <1>0 DEF Transactions, Phases
<1>2. tx' = [tx EXCEPT ![j] = t] /\ status' = status
  BY DEF Start
<1>3. t.phase = "storing" /\ t.own = tx[j].own /\ t.made = tx[j].made
  BY TxType DEF Transactions
<1> HIDE DEF t
<1> QED
  BY <1>1, <1>2, <1>3, TxChange

\* A worker stores one file.
LEMMA StoreEffect ==
  ASSUME TypeOK, NEW j \in Jobs, NEW k \in Kinds, Store(j, k)
  PROVE  /\ tx' \in [Jobs -> Transactions]
         /\ \A i \in Jobs \ {j} : tx'[i] = tx[i]
         /\ tx'[j].made = tx[j].made \cup {k}
         /\ tx[j].own = NoMeter =>
              tx'[j].phase = "metering" /\ tx'[j].own = NoMeter /\ tx'[j].seen = meter
         /\ tx[j].own # NoMeter => tx'[j].phase = "storing" /\ tx'[j].own = tx[j].own + 1
<1> DEFINE t == [tx[j] EXCEPT !.made = @ \cup {k},
                      !.phase = IF tx[j].own = NoMeter THEN "metering" ELSE "storing",
                      !.seen = IF tx[j].own = NoMeter THEN meter ELSE 0,
                      !.own = IF @ = NoMeter THEN NoMeter ELSE @ + 1]
<1>0. tx[j] \in Transactions /\ meter \in Nat
  BY TxType DEF TypeOK
<1>a. tx[j].own # NoMeter => tx[j].own + 1 \in Nat
  BY <1>0, TxType
<1>1. t \in Transactions
  BY <1>0, <1>a DEF Transactions, Phases
<1>2. tx' = [tx EXCEPT ![j] = t]
  BY DEF Store
<1>3. /\ t.made = tx[j].made \cup {k}
      /\ tx[j].own = NoMeter => t.phase = "metering" /\ t.own = NoMeter /\ t.seen = meter
      /\ tx[j].own # NoMeter => t.phase = "storing" /\ t.own = tx[j].own + 1
  BY TxType DEF Transactions
<1> HIDE DEF t
<1> QED
  BY <1>1, <1>2, <1>3, TxChange

\* A worker writes the meter.
LEMMA CountStoredEffect ==
  ASSUME TypeOK, NEW j \in Jobs, CountStored(j)
  PROVE  /\ tx' \in [Jobs -> Transactions]
         /\ \A i \in Jobs \ {j} : tx'[i] = tx[i]
         /\ tx'[j].phase = "storing" /\ tx'[j].made = tx[j].made
         /\ tx'[j].own = tx[j].seen + 1
<1> DEFINE t == [tx[j] EXCEPT !.phase = "storing", !.seen = 0, !.own = tx[j].seen + 1]
<1>0. tx[j] \in Transactions
  BY TxType
<1>a. tx[j].seen + 1 \in Nat
  BY <1>0, TxType
<1>1. t \in Transactions
  BY <1>0, <1>a DEF Transactions, Phases
<1>2. tx' = [tx EXCEPT ![j] = t]
  BY DEF CountStored
<1>3. t.phase = "storing" /\ t.made = tx[j].made /\ t.own = tx[j].seen + 1
  BY TxType DEF Transactions
<1> HIDE DEF t
<1> QED
  BY <1>1, <1>2, <1>3, TxChange

\* A cleanup begins.
LEMMA BeginEffect ==
  ASSUME TypeOK, NEW c \in Cleaners, Begin(c)
  PROVE  /\ cleaner' \in [Cleaners -> Cleanups]
         /\ \A d \in Cleaners \ {c} : cleaner'[d] = cleaner[d]
         /\ cleaner'[c].phase = "listing" /\ cleaner'[c].cutoff = now
         /\ cleaner'[c].batch = cleaner[c].batch /\ cleaner'[c].left = cleaner[c].left
         /\ cleaner'[c].own = cleaner[c].own
<1> DEFINE t == [cleaner[c] EXCEPT !.phase = "listing", !.cutoff = now]
<1>1. t \in Cleanups
  BY CleanerType DEF Cleanups, TypeOK
<1>2. cleaner' = [cleaner EXCEPT ![c] = t]
  BY DEF Begin
<1>3. /\ t.phase = "listing" /\ t.cutoff = now /\ t.batch = cleaner[c].batch
      /\ t.left = cleaner[c].left /\ t.own = cleaner[c].own
  BY CleanerType DEF Cleanups
<1> HIDE DEF t
<1> QED
  BY <1>1, <1>2, <1>3, CleanerChange

\* A cleanup lists a batch.
LEMMA ListEffect ==
  ASSUME TypeOK, NEW c \in Cleaners, List(c), cleaner' # [cleaner EXCEPT ![c] = Resting]
  PROVE  /\ cleaner' \in [Cleaners -> Cleanups]
         /\ \A d \in Cleaners \ {c} : cleaner'[d] = cleaner[d]
         /\ cleaner'[c].phase = "deleting" /\ cleaner'[c].cutoff = cleaner[c].cutoff
         /\ cleaner'[c].batch \subseteq Expired(c) /\ cleaner'[c].left = cleaner'[c].batch
         /\ cleaner'[c].own = cleaner[c].own
<1>0. PICK batch \in SUBSET Expired(c) :
        cleaner' = [cleaner EXCEPT ![c].phase = "deleting", ![c].batch = batch,
                                   ![c].left = batch]
  BY DEF List
<1> DEFINE t == [cleaner[c] EXCEPT !.phase = "deleting", !.batch = batch, !.left = batch]
<1>1. t \in Cleanups
  BY CleanerType DEF Cleanups, TypeOK, Expired
<1>2. cleaner' = [cleaner EXCEPT ![c] = t]
  BY <1>0
<1>3. /\ t.phase = "deleting" /\ t.cutoff = cleaner[c].cutoff /\ t.batch = batch
      /\ t.left = batch /\ t.own = cleaner[c].own
  BY CleanerType DEF Cleanups
<1> HIDE DEF t
<1> QED
  BY <1>1, <1>2, <1>3, CleanerChange

\* A cleanup deletes an object.
LEMMA DeleteObjectEffect ==
  ASSUME TypeOK, NEW c \in Cleaners, NEW f \in Files, DeleteObject(c, f)
  PROVE  /\ cleaner' \in [Cleaners -> Cleanups]
         /\ \A d \in Cleaners \ {c} : cleaner'[d] = cleaner[d]
         /\ cleaner'[c].phase = "deleting" /\ cleaner'[c].cutoff = cleaner[c].cutoff
         /\ cleaner'[c].batch = cleaner[c].batch /\ cleaner'[c].left = cleaner[c].left \ {f}
         /\ cleaner'[c].own = cleaner[c].own
<1> DEFINE t == [cleaner[c] EXCEPT !.left = @ \ {f}]
<1>1. t \in Cleanups
  BY CleanerType DEF Cleanups
<1>2. cleaner' = [cleaner EXCEPT ![c] = t]
  BY DEF DeleteObject
<1>3. /\ t.phase = "deleting" /\ t.cutoff = cleaner[c].cutoff /\ t.batch = cleaner[c].batch
      /\ t.left = cleaner[c].left \ {f} /\ t.own = cleaner[c].own
  BY CleanerType DEF Cleanups, DeleteObject
<1> HIDE DEF t
<1> QED
  BY <1>1, <1>2, <1>3, CleanerChange

\* A cleanup deletes the rows.
LEMMA DeleteRowsEffect ==
  ASSUME TypeOK, NEW c \in Cleaners, DeleteRows(c)
  PROVE  /\ cleaner' \in [Cleaners -> Cleanups]
         /\ \A d \in Cleaners \ {c} : cleaner'[d] = cleaner[d]
         /\ cleaner'[c].phase = "metering" /\ cleaner'[c].cutoff = cleaner[c].cutoff
         /\ cleaner'[c].batch = cleaner[c].batch /\ cleaner'[c].left = {}
         /\ cleaner'[c].own = cleaner[c].own /\ cleaner'[c].seen = meter
<1> DEFINE t == [cleaner[c] EXCEPT !.phase = "metering", !.seen = meter]
<1>1. t \in Cleanups
  BY CleanerType DEF Cleanups, TypeOK
<1>2. cleaner' = [cleaner EXCEPT ![c] = t]
  BY DEF DeleteRows
<1>3. /\ t.phase = "metering" /\ t.cutoff = cleaner[c].cutoff /\ t.batch = cleaner[c].batch
      /\ t.left = {} /\ t.own = cleaner[c].own /\ t.seen = meter
  BY CleanerType DEF Cleanups, DeleteRows
<1> HIDE DEF t
<1> QED
  BY <1>1, <1>2, <1>3, CleanerChange

\* A cleanup writes the meter.
LEMMA CountDeletedEffect ==
  ASSUME TypeOK, NEW c \in Cleaners, CountDeleted(c)
  PROVE  /\ cleaner' \in [Cleaners -> Cleanups]
         /\ \A d \in Cleaners \ {c} : cleaner'[d] = cleaner[d]
         /\ cleaner'[c].phase = "committing" /\ cleaner'[c].cutoff = cleaner[c].cutoff
         /\ cleaner'[c].batch = cleaner[c].batch /\ cleaner'[c].left = cleaner[c].left
         /\ cleaner'[c].own = Less(cleaner[c].seen, Cardinality(cleaner[c].batch))
         /\ cleaner'[c].own \in Nat
<1> DEFINE less == Less(cleaner[c].seen, Cardinality(cleaner[c].batch))
           t == [cleaner[c] EXCEPT !.phase = "committing", !.seen = 0, !.own = less]
<1>0. less \in Nat
  <2>1. IsFiniteSet(cleaner[c].batch)
    BY CleanerType, FilesFinite, FS_Subset
  <2>2. Cardinality(cleaner[c].batch) \in Nat
    BY <2>1, FS_CardinalityType
  <2> QED
    BY <2>2, CleanerType DEF Less
<1>1. cleaner' = [cleaner EXCEPT ![c] = t]
  BY DEF CountDeleted
<1> HIDE DEF less
<1>2. t \in Cleanups
  BY <1>0, CleanerType DEF Cleanups
<1>3. /\ t.phase = "committing" /\ t.cutoff = cleaner[c].cutoff /\ t.batch = cleaner[c].batch
      /\ t.left = cleaner[c].left /\ t.own = less
  BY CleanerType DEF Cleanups
<1> HIDE DEF t
<1> QED
  BY <1>0, <1>1, <1>2, <1>3, CleanerChange DEF less

\* A cleanup commits: it rests or lists the next batch.
LEMMA CommitBatchEffect ==
  ASSUME TypeOK, NEW c \in Cleaners, CommitBatch(c)
  PROVE  /\ cleaner' \in [Cleaners -> Cleanups]
         /\ \A d \in Cleaners \ {c} : cleaner'[d] = cleaner[d]
         /\ cleaner'[c].phase \in {"idle", "listing"}
         /\ cleaner'[c].cutoff \in {0, cleaner[c].cutoff}
         /\ cleaner'[c].batch = {} /\ cleaner'[c].left = {} /\ cleaner'[c].own = NoMeter
<1> DEFINE next == [Resting EXCEPT !.phase = "listing", !.cutoff = cleaner[c].cutoff]
           t == IF Cardinality(cleaner[c].batch) < BatchSize THEN Resting ELSE next
<1>1. t \in Cleanups
  BY CleanerType, RestingType DEF Cleanups
<1>2. cleaner' = [cleaner EXCEPT ![c] = t]
  BY DEF CommitBatch
<1>3. /\ t.phase \in {"idle", "listing"} /\ t.cutoff \in {0, cleaner[c].cutoff}
      /\ t.batch = {} /\ t.left = {} /\ t.own = NoMeter
  BY RestingType DEF Cleanups
<1> HIDE DEF t
<1> QED
  BY <1>1, <1>2, <1>3, CleanerChange

\* A cleanup that finds nothing or fails.
LEMMA RestEffect ==
  ASSUME TypeOK, NEW c \in Cleaners, cleaner' = [cleaner EXCEPT ![c] = Resting]
  PROVE  /\ cleaner' \in [Cleaners -> Cleanups] /\ cleaner'[c] = Resting
         /\ \A d \in Cleaners \ {c} : cleaner'[d] = cleaner[d]
BY RestingType, CleanerChange

-----------------------------------------------------------------------------
(* Type correctness *)

\* The initial state has the shape TypeOK describes.
LEMMA TypeInit == Init => TypeOK
<1> SUFFICES ASSUME Init PROVE TypeOK
  OBVIOUS
<1>1. \A j \in Jobs : Closed(j) \in Transactions
  BY ClosedType
<1>2. Resting \in Cleanups
  BY TimesAssumption DEF Resting, Cleanups, NoMeter
<1>3. tx \in [Jobs -> Transactions] /\ cleaner \in [Cleaners -> Cleanups]
  BY <1>1, <1>2 DEF Init
<1>4. failures \in 0..MaxFailures /\ now \in 0..MaxTime
  BY SizesAssumption, TimesAssumption DEF Init
<1>5. born \in [Files -> 0..MaxTime] /\ doneAt \in [Jobs -> 0..MaxTime]
  BY TimesAssumption DEF Init
<1> QED
  BY <1>3, <1>4, <1>5 DEF Init, TypeOK

\* A transaction that publishes has the meter.
LEMMA PublishOwns ==
  ASSUME TypeOK, RequestsOK, NEW j \in Jobs, CompleteFromCache(j) \/ Complete(j)
  PROVE  tx[j].own \in Nat
<1>1. tx[j].own \in Nat \cup {NoMeter}
  BY TxType
<1>2. tx[j].own # NoMeter
  BY DEF RequestsOK, RequestOK, CompleteFromCache, Complete, Phase, Working, Kinds
<1> QED
  BY <1>1, <1>2

\* Publishing keeps the shape of what it changes.
LEMMA PublishType ==
  ASSUME TypeOK, NEW j \in Jobs, Publish(j), tx[j].own \in Nat
  PROVE  /\ rows' \subseteq Files /\ meter' \in Nat
         /\ status' \in [Jobs -> {"none", "refused", "queued", "failed", "completed"}]
         /\ doneAt' \in [Jobs -> 0..MaxTime] /\ tx' \in [Jobs -> Transactions]
<1>1. Mine(j, tx[j].made) \subseteq Files
  BY TxType DEF Mine, Files
<1>2. tx' \in [Jobs -> Transactions]
  BY CloseEffect DEF Publish
<1> QED
  BY <1>1, <1>2 DEF Publish, TypeOK

\* Rolling back keeps the shape of what it changes.
LEMMA RollbackType ==
  ASSUME TypeOK, NEW j \in Jobs, Rollback(j)
  PROVE  tx' \in [Jobs -> Transactions] /\ litter' \subseteq Files
<1>1. Mine(j, tx[j].made) \subseteq Files
  BY TxType DEF Mine, Files
<1>2. tx' \in [Jobs -> Transactions]
  BY CloseEffect DEF Rollback
<1> QED
  BY <1>1, <1>2 DEF Rollback, TypeOK

\* Every step of a request keeps the shape of the state.
LEMMA TypeRequest ==
  ASSUME TypeOK, RequestsOK, NEW j \in Jobs, Request(j)
  PROVE  TypeOK'
<1>1. CASE Submit(j)
  BY <1>1, SubmitEffect DEF Submit, TypeOK, dbVars, historyVars
<1>2. CASE Miss(j)
  <2>1. tx' \in [Jobs -> Transactions]
    BY <1>2, CloseEffect DEF Miss
  <2> QED
    BY <1>2, <2>1 DEF Miss, TypeOK, historyVars
<1>3. ASSUME NEW i \in Jobs, Hit(j, i) PROVE TypeOK'
  <2>1. CASE tx[j].own + Cardinality(Reusable(i)) > Quota
    <3>1. tx' \in [Jobs -> Transactions]
      BY <1>3, <2>1, CloseEffect DEF Hit
    <3> QED
      BY <1>3, <2>1, <3>1 DEF Hit, TypeOK, historyVars
  <2>2. CASE ~(tx[j].own + Cardinality(Reusable(i)) > Quota)
    BY <1>3, <2>2, HitEffect DEF Hit, TypeOK, historyVars
  <2> QED
    BY <2>1, <2>2
<1>4. ASSUME NEW k \in Kinds, Copy(j, k) PROVE TypeOK'
  <2>1. tx[j].own # NoMeter
    BY <1>4 DEF RequestsOK, RequestOK, Copy
  <2>2. tx' \in [Jobs -> Transactions]
    BY <1>4, <2>1, CopyEffect
  <2>3. tx[j].until[k] \in Nat /\ <<j, k>> \in Files
    BY TxType DEF Files
  <2>4. expires' \in [Files -> Nat] /\ objects' \subseteq Files
    BY <1>4, <2>3 DEF Copy, TypeOK
  <2> QED
    BY <1>4, <2>2, <2>4 DEF Copy, TypeOK, historyVars
<1>5. ASSUME NEW k \in Kinds, CopyFails(j, k) PROVE TypeOK'
  BY <1>5, RollbackType DEF CopyFails, TypeOK
<1>6. CASE CompleteFromCache(j)
  <2>1. Publish(j) /\ tx[j].own \in Nat
    BY <1>6, PublishOwns DEF CompleteFromCache
  <2>2. origin' \in [Jobs -> Jobs]
    BY <1>6, TxType DEF CompleteFromCache, TypeOK
  <2> QED
    BY <1>6, <2>1, <2>2, PublishType DEF CompleteFromCache, TypeOK, historyVars
<1> QED
  BY <1>1, <1>2, <1>3, <1>4, <1>5, <1>6 DEF Request

\* So does every step of a worker.
LEMMA TypeWork ==
  ASSUME TypeOK, RequestsOK, NEW j \in Jobs, Work(j) \/ Fail(j)
  PROVE  TypeOK'
<1>1. CASE Start(j)
  <2>1. CASE meter + Cardinality(Kinds) > Quota
    BY <1>1, <2>1 DEF Start, TypeOK, historyVars
  <2>2. CASE ~(meter + Cardinality(Kinds) > Quota)
    BY <1>1, <2>2, StartEffect DEF Start, TypeOK, historyVars
  <2> QED
    BY <2>1, <2>2
<1>2. ASSUME NEW k \in Kinds, Store(j, k) PROVE TypeOK'
  <2>1. <<j, k>> \in Files /\ now + Retention \in Nat
    BY TimesAssumption DEF Files, TypeOK
  <2>2. expires' \in [Files -> Nat] /\ born' \in [Files -> 0..MaxTime] /\ objects' \subseteq Files
    BY <1>2, <2>1 DEF Store, TypeOK
  <2>3. tx' \in [Jobs -> Transactions]
    BY <1>2, StoreEffect
  <2> QED
    BY <1>2, <2>2, <2>3 DEF Store, TypeOK
<1>3. CASE CountStored(j)
  <2>1. tx' \in [Jobs -> Transactions]
    BY <1>3, CountStoredEffect
  <2>2. raced' \in BOOLEAN
    BY <1>3 DEF CountStored, TypeOK
  <2> QED
    BY <1>3, <2>1, <2>2 DEF CountStored, TypeOK, dbVars
<1>4. CASE Complete(j)
  <2>1. Publish(j) /\ tx[j].own \in Nat
    BY <1>4, PublishOwns DEF Complete
  <2> QED
    BY <1>4, <2>1, PublishType DEF Complete, TypeOK, historyVars
<1>5. CASE Fail(j)
  <2>1. tx' \in [Jobs -> Transactions] /\ litter' \subseteq Files
    BY <1>5, RollbackType DEF Fail
  <2>2. failures' \in 0..MaxFailures
    BY <1>5, SizesAssumption DEF Fail, TypeOK
  <2>3. status' \in [Jobs -> {"none", "refused", "queued", "failed", "completed"}]
    BY <1>5 DEF Fail, TypeOK
  <2> QED
    BY <1>5, <2>1, <2>2, <2>3 DEF Fail, TypeOK
<1> QED
  BY <1>1, <1>2, <1>3, <1>4, <1>5 DEF Work

\* So does every step of a cleanup.
LEMMA TypeCleanup ==
  ASSUME TypeOK, RequestsOK, BatchesOK, NEW c \in Cleaners, Cleanup(c) \/ FailCleanup(c)
  PROVE  TypeOK'
<1>1. CASE Begin(c)
  BY <1>1, BeginEffect DEF Begin, TypeOK, dbVars, historyVars
<1>2. CASE List(c)
  <2>1. cleaner' \in [Cleaners -> Cleanups]
    BY <1>2, ListEffect, RestEffect
  <2> QED
    BY <1>2, <2>1 DEF List, TypeOK, dbVars, historyVars
<1>3. ASSUME NEW f \in Files, DeleteObject(c, f) PROVE TypeOK'
  BY <1>3, DeleteObjectEffect DEF DeleteObject, TypeOK, dbVars, historyVars
<1>4. CASE DeleteRows(c)
  <2>1. raced' \in BOOLEAN
    BY <1>4 DEF DeleteRows, TypeOK
  <2> QED
    BY <1>4, <2>1, DeleteRowsEffect DEF DeleteRows, TypeOK, dbVars
<1>5. CASE CountDeleted(c)
  <2>1. raced' \in BOOLEAN
    BY <1>5 DEF CountDeleted, TypeOK
  <2> QED
    BY <1>5, <2>1, CountDeletedEffect DEF CountDeleted, TypeOK, dbVars
<1>6. CASE CommitBatch(c)
  <2>1. meter' \in Nat
    BY <1>6, CleanerType DEF CommitBatch, BatchesOK, BatchOK
  <2>2. rows' \subseteq Files
    BY <1>6 DEF CommitBatch, TypeOK
  <2> QED
    BY <1>6, <2>1, <2>2, CommitBatchEffect DEF CommitBatch, TypeOK, historyVars
<1>7. CASE FailCleanup(c)
  <2>1. failures' \in 0..MaxFailures
    BY <1>7, SizesAssumption DEF FailCleanup, TypeOK
  <2> QED
    BY <1>7, <2>1, RestEffect DEF FailCleanup, TypeOK, dbVars, historyVars
<1> QED
  BY <1>1, <1>2, <1>3, <1>4, <1>5, <1>6, <1>7 DEF Cleanup

\* Every step keeps the shape of the state.
LEMMA TypeNext == TypeOK /\ RequestsOK /\ BatchesOK /\ [Next]_vars => TypeOK'
<1> SUFFICES ASSUME TypeOK, RequestsOK, BatchesOK, [Next]_vars PROVE TypeOK'
  OBVIOUS
<1>1. ASSUME NEW i \in Jobs, Invalidate(CacheKey[i]) PROVE TypeOK'
  <2> DEFINE key == CacheKey[i]
  <2>1. now' \in 0..MaxTime /\ now \in Nat
    BY <1>1, TimesAssumption DEF Invalidate, TypeOK
  <2>2. expires' = [f \in Files |-> IF f \in Lineage(key) THEN now ELSE expires[f]]
    BY <1>1 DEF Invalidate
  <2>3. expires' \in [Files -> Nat]
    BY <2>1, <2>2 DEF TypeOK
  <2>4. \A f \in Lineage(key) : origin[f[1]] \in Jobs
    BY DEF Lineage, TypeOK, Files
  <2>5. \A j \in Jobs : origin[tx[j].source] \in Jobs
    BY TxType DEF TypeOK
  <2>6. invalidated' \subseteq Jobs /\ leaked' \subseteq Jobs
    BY <1>1, <2>4, <2>5 DEF Invalidate, TypeOK
  <2> QED
    BY <1>1, <2>1, <2>3, <2>6 DEF Invalidate, TypeOK
<1>2. CASE Tick
  <2>1. now' \in 0..MaxTime
    BY <1>2, TimesAssumption DEF Tick, TypeOK
  <2> QED
    BY <1>2, <2>1 DEF Tick, TypeOK, dbVars, historyVars
<1>3. CASE UNCHANGED vars
  BY <1>3 DEF vars, dbVars, historyVars, TypeOK
<1> QED
  BY <1>1, <1>2, <1>3, TypeRequest, TypeWork, TypeCleanup DEF Next


-----------------------------------------------------------------------------
(* Requests and workers *)

\* A job that is not completed changes: the others are not disturbed.
LEMMA OthersOK ==
  ASSUME TypeOK, RequestsOK, NEW j \in Jobs,
         \A i \in Jobs \ {j} : tx'[i] = tx[i] /\ status'[i] = status[i],
         status[j] = "completed" => status'[j] = "completed"
  PROVE  \A i \in Jobs \ {j} : RequestOK(i)'
<1> SUFFICES ASSUME NEW i \in Jobs \ {j} PROVE RequestOK(i)'
  OBVIOUS
<1>1. RequestOK(i) /\ tx'[i] = tx[i] /\ status'[i] = status[i]
  BY DEF RequestsOK
<1>2. status[tx[i].source] = "completed" => status'[tx[i].source] = "completed"
  BY TxType
<1> QED
  BY <1>1, <1>2 DEF RequestOK, Phase, Closed

\* A job whose transaction is closed has nothing to fulfil.
LEMMA ClosedOK ==
  ASSUME TypeOK, NEW j \in Jobs, tx' = [tx EXCEPT ![j] = Closed(j)]
  PROVE  RequestOK(j)'
BY CloseEffect, ClosedType DEF RequestOK, Phase, Closed, Working

\* Only a job at work or new changes its status.
LEMMA StatusChange ==
  ASSUME TypeOK, NEW j \in Jobs, NEW new, status' = [status EXCEPT ![j] = new]
  PROVE  status'[j] = new /\ \A i \in Jobs \ {j} : status'[i] = status[i]
BY DEF TypeOK

\* Steps of requests and workers keep what is said of them.
LEMMA RequestsStep ==
  ASSUME TypeOK, RequestsOK, NEW j \in Jobs, Request(j) \/ Work(j) \/ Fail(j)
  PROVE  RequestsOK'
<1>0. RequestOK(j)
  BY DEF RequestsOK
<1> SUFFICES /\ \A i \in Jobs \ {j} : tx'[i] = tx[i] /\ status'[i] = status[i]
             /\ status[j] = "completed" => status'[j] = "completed"
             /\ RequestOK(j)'
  BY OthersOK DEF RequestsOK
<1>1. CASE Submit(j)
  <2>1. status' = status /\ status[j] = "none" /\ tx[j] = Closed(j)
    BY <1>0, <1>1 DEF Submit, dbVars, RequestOK
  <2>2. tx'[j].made = {} /\ tx'[j].phase = "looking" /\ tx'[j].own # NoMeter
    BY <1>1, <2>1, SubmitEffect, ClosedType DEF TypeOK, NoMeter
  <2>3. RequestOK(j)'
    BY <2>1, <2>2 DEF RequestOK, Phase, Working
  <2> QED
    BY <1>1, <2>1, <2>3, SubmitEffect
<1>2. CASE Miss(j)
  <2>1. status[j] = "none"
    BY <1>0, <1>2 DEF Miss, RequestOK
  <2> QED
    BY <1>2, <2>1, CloseEffect, ClosedOK, StatusChange DEF Miss
<1>3. ASSUME NEW i \in Jobs, Hit(j, i)
      PROVE  /\ \A h \in Jobs \ {j} : tx'[h] = tx[h] /\ status'[h] = status[h]
             /\ status[j] = "completed" => status'[j] = "completed"
             /\ RequestOK(j)'
  <2>1. status[j] = "none" /\ tx[j].own # NoMeter /\ tx[j].made = {}
    BY <1>0, <1>3 DEF Hit, RequestOK
  <2>2. CASE tx[j].own + Cardinality(Reusable(i)) > Quota
    BY <1>3, <2>1, <2>2, CloseEffect, ClosedOK, StatusChange DEF Hit
  <2>3. CASE ~(tx[j].own + Cardinality(Reusable(i)) > Quota)
    <3>1. status[i] = "completed" /\ CacheKey[i] = CacheKey[j]
      BY <1>3 DEF Hit, Candidates
    <3>2. /\ tx'[j].phase = "copying" /\ tx'[j].source = i /\ status' = status
          /\ tx'[j].made = {} /\ tx'[j].own # NoMeter
          /\ \A h \in Jobs \ {j} : tx'[h] = tx[h]
      BY <1>3, <2>1, <2>3, HitEffect
    <3>3. RequestOK(j)'
      BY <2>1, <3>1, <3>2 DEF RequestOK, Phase, Working
    <3> QED
      BY <3>2, <3>3
  <2> QED
    BY <2>2, <2>3
<1>4. ASSUME NEW k \in Kinds, Copy(j, k)
      PROVE  /\ \A h \in Jobs \ {j} : tx'[h] = tx[h] /\ status'[h] = status[h]
             /\ status[j] = "completed" => status'[j] = "completed"
             /\ RequestOK(j)'
  <2>1. /\ tx[j].own # NoMeter /\ status[j] = "none"
        /\ status[tx[j].source] = "completed" /\ CacheKey[tx[j].source] = CacheKey[j]
        /\ tx[j].todo \cap tx[j].made = {}
    BY <1>0, <1>4 DEF Copy, RequestOK
  <2>2. status' = status
    BY <1>4 DEF Copy
  <2>3. /\ tx'[j].phase = "copying" /\ tx'[j].source = tx[j].source
        /\ tx'[j].todo = tx[j].todo \ {k} /\ tx'[j].made = tx[j].made \cup {k}
        /\ tx'[j].own = tx[j].own + 1
        /\ \A h \in Jobs \ {j} : tx'[h] = tx[h]
    BY <1>4, <2>1, CopyEffect
  <2>4. tx'[j].own # NoMeter
    BY <2>1, <2>3, TxType DEF NoMeter
  <2>5. RequestOK(j)'
    BY <2>1, <2>2, <2>3, <2>4 DEF RequestOK, Phase, Working
  <2> QED
    BY <2>2, <2>3, <2>5
<1>5. ASSUME NEW k \in Kinds, CopyFails(j, k)
      PROVE  /\ \A h \in Jobs \ {j} : tx'[h] = tx[h] /\ status'[h] = status[h]
             /\ status[j] = "completed" => status'[j] = "completed"
             /\ RequestOK(j)'
  <2>1. status[j] = "none"
    BY <1>0, <1>5 DEF CopyFails, RequestOK
  <2> QED
    BY <1>5, <2>1, CloseEffect, ClosedOK, StatusChange DEF CopyFails, Rollback
<1>6. CASE CompleteFromCache(j) \/ Complete(j)
  BY <1>6, CloseEffect, ClosedOK, StatusChange DEF CompleteFromCache, Complete, Publish
<1>7. CASE Start(j)
  <2>1. status[j] = "queued" /\ tx[j] = Closed(j)
    BY <1>0, <1>7 DEF Start, RequestOK
  <2>2. CASE meter + Cardinality(Kinds) > Quota
    <3>1. tx' = tx /\ status' = [status EXCEPT ![j] = "failed"]
      BY <1>7, <2>2 DEF Start
    <3>2. RequestOK(j)'
      BY <2>1, <3>1, ClosedType DEF RequestOK, Phase, Working, Closed
    <3> QED
      BY <2>1, <3>1, <3>2, StatusChange
  <2>3. CASE ~(meter + Cardinality(Kinds) > Quota)
    <3>1. /\ tx'[j].phase = "storing" /\ tx'[j].made = {} /\ status' = status
          /\ \A h \in Jobs \ {j} : tx'[h] = tx[h]
      BY <1>7, <2>1, <2>3, StartEffect, ClosedType
    <3>2. RequestOK(j)'
      BY <2>1, <3>1 DEF RequestOK, Phase, Working
    <3> QED
      BY <3>1, <3>2
  <2> QED
    BY <2>2, <2>3
<1>8. ASSUME NEW k \in Kinds, Store(j, k)
      PROVE  /\ \A h \in Jobs \ {j} : tx'[h] = tx[h] /\ status'[h] = status[h]
             /\ status[j] = "completed" => status'[j] = "completed"
             /\ RequestOK(j)'
  <2>1. status[j] = "queued" /\ (tx[j].own = NoMeter => tx[j].made = {})
    BY <1>0, <1>8 DEF Store, RequestOK, Working
  <2>2. status' = status
    BY <1>8 DEF Store
  <2>3. CASE tx[j].own = NoMeter
    <3>1. /\ tx'[j].phase = "metering" /\ tx'[j].own = NoMeter /\ tx'[j].made = {k}
          /\ \A h \in Jobs \ {j} : tx'[h] = tx[h]
      BY <1>8, <2>1, <2>3, StoreEffect
    <3>2. RequestOK(j)'
      BY <2>1, <2>2, <3>1 DEF RequestOK, Phase, Working
    <3> QED
      BY <2>2, <3>1, <3>2
  <2>4. CASE tx[j].own # NoMeter
    <3>1. /\ tx'[j].phase = "storing" /\ tx'[j].own = tx[j].own + 1
          /\ \A h \in Jobs \ {j} : tx'[h] = tx[h]
      BY <1>8, <2>4, StoreEffect
    <3>2. tx'[j].own # NoMeter
      BY <2>4, <3>1, TxType DEF NoMeter
    <3>3. RequestOK(j)'
      BY <2>1, <2>2, <3>1, <3>2 DEF RequestOK, Phase, Working
    <3> QED
      BY <2>2, <3>1, <3>3
  <2> QED
    BY <2>3, <2>4
<1>9. CASE CountStored(j)
  <2>1. status[j] = "queued" /\ status' = status
    BY <1>0, <1>9 DEF CountStored, RequestOK, Working, dbVars
  <2>2. /\ tx'[j].phase = "storing" /\ tx'[j].own = tx[j].seen + 1
        /\ \A h \in Jobs \ {j} : tx'[h] = tx[h]
    BY <1>9, CountStoredEffect
  <2>3. tx'[j].own # NoMeter
    BY <2>2, TxType DEF NoMeter
  <2>4. RequestOK(j)'
    BY <2>1, <2>2, <2>3 DEF RequestOK, Phase, Working
  <2> QED
    BY <2>1, <2>2, <2>4
<1>10. CASE Fail(j)
  <2>1. status[j] \in {"none", "queued"}
    BY <1>0, <1>10, TxType DEF Fail, RequestOK, Phase, Phases, Working
  <2> QED
    BY <1>10, <2>1, CloseEffect, ClosedOK, StatusChange DEF Fail, Rollback
<1> QED
  BY <1>1, <1>2, <1>3, <1>4, <1>5, <1>6, <1>7, <1>8, <1>9, <1>10 DEF Request, Work

\* Cleanups, operators and time change no request.
Elsewhere ==
  \/ \E c \in Cleaners : Cleanup(c) \/ FailCleanup(c)
  \/ \E i \in Jobs : Invalidate(CacheKey[i])
  \/ Tick
  \/ UNCHANGED vars

\* They leave transactions, statuses and origins alone.
LEMMA ElsewhereKeeps ==
  ASSUME Elsewhere
  PROVE  tx' = tx /\ status' = status /\ origin' = origin /\ litter' = litter
BY DEF Elsewhere, Cleanup, FailCleanup, Begin, List, DeleteObject, DeleteRows, CountDeleted,
       CommitBatch, Invalidate, Tick, vars, dbVars, historyVars

\* Every step keeps what is said of requests.
LEMMA RequestsNext == TypeOK /\ RequestsOK /\ [Next]_vars => RequestsOK'
<1> SUFFICES ASSUME TypeOK, RequestsOK, [Next]_vars PROVE RequestsOK'
  OBVIOUS
<1>1. CASE Elsewhere
  BY <1>1, ElsewhereKeeps DEF RequestsOK, RequestOK, Phase, Closed
<1> QED
  BY <1>1, RequestsStep DEF Next, Elsewhere


-----------------------------------------------------------------------------
(* Files and batches *)

\* Nobody has completed a job but its own transaction: a job at work has no rows, and
\* no cleanup has its files.
LEMMA AtWork ==
  ASSUME TypeOK, RequestsOK, FilesOK, BatchesOK, NEW j \in Jobs,
         Phase(j) # "idle" \/ status[j] # "completed"
  PROVE  /\ status[j] # "completed"
         /\ \A k : <<j, k>> \notin rows
         /\ \A k : \A c \in Cleaners : <<j, k>> \notin cleaner[c].batch
<1>1. status[j] # "completed"
  BY TxType DEF RequestsOK, RequestOK, Phase, Phases, Working
<1>2. \A k : <<j, k>> \notin rows
  BY <1>1 DEF FilesOK
<1>3. \A k : \A c \in Cleaners : <<j, k>> \notin cleaner[c].batch
  BY <1>1 DEF BatchesOK, BatchOK
<1> QED
  BY <1>1, <1>2, <1>3

\* A file is a job and a kind.
LEMMA FileShape ==
  ASSUME NEW f \in Files
  PROVE  f = <<f[1], f[2]>> /\ f[1] \in Jobs /\ f[2] \in Kinds
BY DEF Files

\* A completed job stays completed.
LEMMA CompletedStays ==
  ASSUME TypeOK, RequestsOK, [Next]_vars
  PROVE  \A i \in Jobs : status[i] = "completed" => status'[i] = "completed"
<1>1. CASE Elsewhere
  BY <1>1, ElsewhereKeeps
<1>2. ASSUME NEW j \in Jobs, Request(j) \/ Work(j) \/ Fail(j), NEW i \in Jobs,
             status[i] = "completed"
      PROVE  status'[i] = "completed"
  <2>1. Phase(j) \in {"idle", "looking", "copying", "storing", "metering"}
    BY TxType DEF Phase, Phases
  <2>2. Phase(j) # "idle" => status[j] \in {"none", "queued"}
    BY <2>1 DEF RequestsOK, RequestOK, Working
  <2>3. ASSUME NEW v, status' = [status EXCEPT ![j] = v], v = "completed" \/ status[j] # "completed"
        PROVE  status'[i] = "completed"
    BY <1>2, <2>3 DEF TypeOK
  <2>4. ASSUME status' = status PROVE status'[i] = "completed"
    BY <1>2, <2>4
  <2>5. CASE Submit(j) \/ CountStored(j) \/ \E k \in Kinds : Copy(j, k) \/ Store(j, k)
    BY <2>4, <2>5 DEF Submit, CountStored, Copy, Store, dbVars
  <2>6. CASE Miss(j) \/ Start(j)
    BY <2>2, <2>3, <2>4, <2>6 DEF Miss, Start
  <2>7. ASSUME NEW h \in Jobs, Hit(j, h) PROVE status'[i] = "completed"
    BY <2>2, <2>3, <2>4, <2>7 DEF Hit
  <2>8. ASSUME NEW k \in Kinds, CopyFails(j, k) PROVE status'[i] = "completed"
    BY <2>2, <2>3, <2>8 DEF CopyFails
  <2>9. CASE CompleteFromCache(j) \/ Complete(j)
    BY <2>3, <2>9 DEF CompleteFromCache, Complete, Publish
  <2>10. CASE Fail(j)
    BY <2>2, <2>3, <2>10 DEF Fail
  <2> QED
    BY <1>2, <2>5, <2>6, <2>7, <2>8, <2>9, <2>10 DEF Request, Work
<1> QED
  BY <1>1, <1>2 DEF Next, Elsewhere

\* Steps that make no file and delete none.
LEMMA FilesStay ==
  ASSUME TypeOK, RequestsOK, FilesOK, [Next]_vars,
         rows' = rows, objects' = objects, litter \subseteq litter',
         \A f \in rows : expires'[f] = expires[f],
         now <= now', now' \in Nat,
         \A i \in Jobs : tx'[i].made \subseteq tx[i].made,
         \A i \in Jobs : \A k \in tx[i].made : k \in tx'[i].made \/ <<i, k>> \in litter'
  PROVE  FilesOK'
<1>1. \A f \in rows' : status'[f[1]] = "completed"
  BY CompletedStays, FileShape DEF FilesOK, TypeOK
<1>2. \A j \in Jobs : \A k \in tx'[j].made : <<j, k>> \in objects'
  BY DEF FilesOK
<1>3. UnbackedIsExpired'
  BY DEF FilesOK, UnbackedIsExpired, TypeOK
<1>4. NoOrphans'
  <2> SUFFICES ASSUME NEW f \in objects, f \notin rows, f \notin litter'
               PROVE  f[2] \in tx'[f[1]].made
    BY DEF NoOrphans
  <2>1. f[2] \in tx[f[1]].made
    BY DEF FilesOK, NoOrphans
  <2>2. f \in Files
    BY DEF TypeOK
  <2> QED
    BY <2>1, <2>2, FileShape
<1> QED
  BY <1>1, <1>2, <1>3, <1>4 DEF FilesOK

\* A transaction makes one file.
LEMMA FilesMade ==
  ASSUME TypeOK, RequestsOK, FilesOK, BatchesOK, [Next]_vars, NEW j \in Jobs, NEW k \in Kinds,
         Phase(j) # "idle",
         rows' = rows, objects' = objects \cup {<<j, k>>}, litter' = litter, now' = now,
         \A f \in Files : f # <<j, k>> => expires'[f] = expires[f],
         tx'[j].made = tx[j].made \cup {k}, \A i \in Jobs \ {j} : tx'[i] = tx[i]
  PROVE  FilesOK'
<1>0. <<j, k>> \notin rows
  BY AtWork
<1>1. \A f \in rows' : status'[f[1]] = "completed"
  BY CompletedStays, FileShape DEF FilesOK, TypeOK
<1>2. \A i \in Jobs : \A h \in tx'[i].made : <<i, h>> \in objects'
  BY DEF FilesOK
<1>3. UnbackedIsExpired'
  BY <1>0 DEF FilesOK, UnbackedIsExpired, TypeOK
<1>4. NoOrphans'
  <2> SUFFICES ASSUME NEW f \in objects', f \notin rows, f \notin litter
               PROVE  f[2] \in tx'[f[1]].made
    BY DEF NoOrphans
  <2>1. CASE f = <<j, k>>
    BY <2>1
  <2>2. CASE f # <<j, k>>
    <3>1. f \in objects /\ f[2] \in tx[f[1]].made
      BY <2>2 DEF FilesOK, NoOrphans
    <3>2. f \in Files
      BY <3>1 DEF TypeOK
    <3> QED
      BY <3>1, <3>2, FileShape
  <2> QED
    BY <2>1, <2>2
<1> QED
  BY <1>1, <1>2, <1>3, <1>4 DEF FilesOK

\* A transaction publishes its files.
LEMMA FilesPublished ==
  ASSUME TypeOK, RequestsOK, FilesOK, BatchesOK, [Next]_vars, NEW j \in Jobs, Publish(j),
         expires' = expires, objects' = objects, litter' = litter, now' = now
  PROVE  FilesOK'
<1>0. /\ rows' = rows \cup Mine(j, tx[j].made) /\ tx'[j] = Closed(j)
      /\ \A i \in Jobs \ {j} : tx'[i] = tx[i]
      /\ status'[j] = "completed"
  BY CloseEffect, StatusChange DEF Publish
<1>1. \A f \in rows' : status'[f[1]] = "completed"
  <2> SUFFICES ASSUME NEW f \in rows' PROVE status'[f[1]] = "completed"
    OBVIOUS
  <2>1. CASE f \in rows
    BY <2>1, CompletedStays, FileShape DEF FilesOK, TypeOK
  <2>2. CASE f \in Mine(j, tx[j].made)
    BY <1>0, <2>2 DEF Mine
  <2> QED
    BY <1>0, <2>1, <2>2
<1>2. \A i \in Jobs : \A h \in tx'[i].made : <<i, h>> \in objects'
  BY <1>0, ClosedType DEF FilesOK
<1>3. UnbackedIsExpired'
  BY <1>0 DEF FilesOK, UnbackedIsExpired, Mine
<1>4. NoOrphans'
  <2> SUFFICES ASSUME NEW f \in objects, f \notin rows', f \notin litter
               PROVE  f[2] \in tx'[f[1]].made
    BY DEF NoOrphans
  <2>1. f \in Files /\ f[2] \in tx[f[1]].made
    BY <1>0 DEF FilesOK, NoOrphans, TypeOK
  <2>2. f[1] # j
    BY <1>0, <2>1, FileShape DEF Mine
  <2> QED
    BY <1>0, <2>1, <2>2, FileShape
<1> QED
  BY <1>1, <1>2, <1>3, <1>4 DEF FilesOK

\* Steps of requests and workers keep what is said of files.
LEMMA FilesStep ==
  ASSUME TypeOK, RequestsOK, FilesOK, BatchesOK, [Next]_vars,
         NEW j \in Jobs, Request(j) \/ Work(j) \/ Fail(j)
  PROVE  FilesOK'
<1>0. now \in Nat /\ RequestOK(j)
  BY TimesAssumption DEF TypeOK, RequestsOK
<1>1. CASE Submit(j)
  <2>1. \A i \in Jobs : tx'[i].made = tx[i].made
    BY <1>1, SubmitEffect
  <2>2. rows' = rows /\ objects' = objects /\ litter' = litter /\ expires' = expires /\ now' = now
    BY <1>1 DEF Submit, dbVars, historyVars
  <2> QED
    BY <1>0, <2>1, <2>2, FilesStay
<1>2. CASE Miss(j)
  <2>1. tx[j].made = {}
    BY <1>0, <1>2 DEF Miss, RequestOK
  <2> QED
    BY <1>0, <1>2, <2>1, CloseEffect, ClosedType, FilesStay DEF Miss, historyVars
<1>3. ASSUME NEW i \in Jobs, Hit(j, i) PROVE FilesOK'
  <2>1. tx[j].made = {}
    BY <1>0, <1>3 DEF Hit, RequestOK
  <2>2. /\ tx'[j].made = {}
        /\ \A h \in Jobs \ {j} : tx'[h] = tx[h]
    <3>1. CASE tx[j].own + Cardinality(Reusable(i)) > Quota
      BY <1>3, <2>1, <3>1, CloseEffect, ClosedType DEF Hit
    <3>2. CASE ~(tx[j].own + Cardinality(Reusable(i)) > Quota)
      BY <1>3, <2>1, <3>2, HitEffect
    <3> QED
      BY <3>1, <3>2
  <2> QED
    BY <1>0, <1>3, <2>1, <2>2, FilesStay DEF Hit, historyVars
<1>4. ASSUME NEW k \in Kinds, Copy(j, k) PROVE FilesOK'
  <2>1. tx[j].own # NoMeter /\ Phase(j) # "idle"
    BY <1>0, <1>4 DEF Copy, RequestOK
  <2>2. \A f \in Files : f # <<j, k>> => expires'[f] = expires[f]
    BY <1>4 DEF Copy, TypeOK
  <2>3. tx'[j].made = tx[j].made \cup {k} /\ \A i \in Jobs \ {j} : tx'[i] = tx[i]
    BY <1>4, <2>1, CopyEffect
  <2>4. rows' = rows /\ objects' = objects \cup {<<j, k>>} /\ litter' = litter /\ now' = now
    BY <1>4 DEF Copy, historyVars
  <2> QED
    BY <2>1, <2>2, <2>3, <2>4, FilesMade
<1>5. ASSUME Rollback(j), rows' = rows, objects' = objects, expires' = expires, now' = now
      PROVE  FilesOK'
  <2>1. /\ tx'[j].made = {} /\ litter' = litter \cup Mine(j, tx[j].made)
        /\ \A h \in Jobs \ {j} : tx'[h] = tx[h]
    BY <1>5, CloseEffect, ClosedType DEF Rollback
  <2>2. \A k \in tx[j].made : <<j, k>> \in litter'
    BY <2>1 DEF Mine
  <2> QED
    BY <1>0, <1>5, <2>1, <2>2, FilesStay
<1>6. CASE CompleteFromCache(j) \/ Complete(j)
  BY <1>6, FilesPublished DEF CompleteFromCache, Complete, historyVars
<1>7. CASE Start(j)
  <2>1. /\ tx'[j].made = tx[j].made
        /\ \A h \in Jobs \ {j} : tx'[h] = tx[h]
    <3>1. CASE meter + Cardinality(Kinds) > Quota
      BY <1>7, <3>1 DEF Start
    <3>2. CASE ~(meter + Cardinality(Kinds) > Quota)
      BY <1>7, <3>2, StartEffect
    <3> QED
      BY <3>1, <3>2
  <2> QED
    BY <1>0, <1>7, <2>1, FilesStay DEF Start, historyVars
<1>8. ASSUME NEW k \in Kinds, Store(j, k) PROVE FilesOK'
  <2>1. Phase(j) # "idle"
    BY <1>8 DEF Store
  <2>2. \A f \in Files : f # <<j, k>> => expires'[f] = expires[f]
    BY <1>8 DEF Store, TypeOK
  <2>3. FilesOK'
    <3>1. tx'[j].made = tx[j].made \cup {k} /\ \A i \in Jobs \ {j} : tx'[i] = tx[i]
      BY <1>8, StoreEffect
    <3> QED
      BY <1>8, <2>1, <2>2, <3>1, FilesMade DEF Store
  <2> QED
    BY <2>3
<1>9. CASE CountStored(j)
  <2>1. \A i \in Jobs : tx'[i].made = tx[i].made
    BY <1>9, CountStoredEffect
  <2>2. rows' = rows /\ objects' = objects /\ litter' = litter /\ expires' = expires /\ now' = now
    BY <1>9 DEF CountStored, dbVars
  <2> QED
    BY <1>0, <2>1, <2>2, FilesStay
<1>10. ASSUME NEW k \in Kinds, CopyFails(j, k) PROVE FilesOK'
  BY <1>5, <1>10 DEF CopyFails
<1>11. CASE Fail(j)
  BY <1>5, <1>11 DEF Fail
<1> QED
  BY <1>1, <1>2, <1>3, <1>4, <1>6, <1>7, <1>8, <1>9, <1>10, <1>11 DEF Request, Work

\* So do the other steps: cleanups delete the objects of expired rows only.
LEMMA FilesElsewhere ==
  ASSUME TypeOK, RequestsOK, FilesOK, BatchesOK, Elsewhere, [Next]_vars
  PROVE  FilesOK'
<1>0. tx' = tx /\ status' = status /\ litter' = litter /\ now \in Nat
  BY ElsewhereKeeps, TimesAssumption DEF TypeOK
<1>1. ASSUME rows' = rows, objects' = objects, expires' = expires, now' \in {now, now + 1}
      PROVE  FilesOK'
  BY <1>0, <1>1, FilesStay
<1>2. ASSUME NEW c \in Cleaners, NEW f \in Files, DeleteObject(c, f) PROVE FilesOK'
  <2>1. f \in cleaner[c].batch
    BY <1>2, CleanerType DEF DeleteObject, BatchesOK, BatchOK
  <2>2. expires[f] < now /\ status[f[1]] = "completed"
    BY <2>1 DEF BatchesOK, BatchOK
  <2>3. /\ rows' = rows /\ objects' = objects \ {f} /\ expires' = expires /\ now' = now
    BY <1>2 DEF DeleteObject, dbVars
  <2>4. UnbackedIsExpired'
    BY <2>2, <2>3 DEF FilesOK, UnbackedIsExpired
  <2>5. NoOrphans'
    BY <1>0, <2>3 DEF FilesOK, NoOrphans
  <2>6. ASSUME NEW i \in Jobs, NEW k \in tx[i].made PROVE <<i, k>> # f
    <3>1. status[i] # "completed"
      <4>1. Phase(i) # "idle"
        BY <2>6, ClosedType DEF RequestsOK, RequestOK
      <4> QED
        BY <4>1, AtWork
    <3> QED
      BY <2>2, <3>1
  <2> QED
    BY <1>0, <2>3, <2>4, <2>5, <2>6 DEF FilesOK
<1>3. ASSUME NEW c \in Cleaners, CommitBatch(c) PROVE FilesOK'
  <2>1. /\ rows' = rows \ cleaner[c].batch /\ objects' = objects /\ expires' = expires
        /\ now' = now
    BY <1>3 DEF CommitBatch
  <2>2. \A f \in cleaner[c].batch : f \notin objects
    BY <1>3 DEF CommitBatch, BatchesOK, BatchOK, Holding
  <2> QED
    BY <1>0, <2>1, <2>2 DEF FilesOK, UnbackedIsExpired, NoOrphans
<1>4. ASSUME NEW i \in Jobs, Invalidate(CacheKey[i]) PROVE FilesOK'
  <2>1. /\ rows' = rows /\ objects' = objects /\ now' = now + 1
        /\ \A f \in Files : expires'[f] \in {now, expires[f]}
    BY <1>4 DEF Invalidate
  <2>2. UnbackedIsExpired'
    <3> SUFFICES ASSUME NEW f \in rows, f \notin objects PROVE expires'[f] < now'
      BY <2>1 DEF UnbackedIsExpired
    <3>1. expires[f] < now /\ f \in Files /\ expires[f] \in Nat
      BY DEF FilesOK, UnbackedIsExpired, TypeOK
    <3> QED
      BY <1>0, <2>1, <3>1
  <2> QED
    BY <1>0, <2>1, <2>2 DEF FilesOK, NoOrphans
<1>5. ASSUME NEW c \in Cleaners,
             Begin(c) \/ List(c) \/ DeleteRows(c) \/ CountDeleted(c) \/ FailCleanup(c)
      PROVE  FilesOK'
  BY <1>1, <1>5 DEF Begin, List, DeleteRows, CountDeleted, FailCleanup, dbVars
<1>6. CASE Tick \/ UNCHANGED vars
  BY <1>1, <1>6 DEF Tick, vars, dbVars
<1> QED
  BY <1>2, <1>3, <1>4, <1>5, <1>6 DEF Elsewhere, Cleanup

\* Every step keeps what is said of files.
LEMMA FilesNext ==
  TypeOK /\ RequestsOK /\ FilesOK /\ BatchesOK /\ [Next]_vars => FilesOK'
BY FilesStep, FilesElsewhere DEF Next, Elsewhere


\* Steps that touch no cleanup and nothing a cleanup has listed.
LEMMA BatchesStay ==
  ASSUME TypeOK, RequestsOK, BatchesOK, [Next]_vars,
         cleaner' = cleaner, now <= now', now' \in Nat,
         \A c \in Cleaners : \A f \in cleaner[c].batch :
           /\ expires'[f] < now'
           /\ f \in objects' => f \in objects
  PROVE  BatchesOK'
<1> SUFFICES ASSUME NEW c \in Cleaners PROVE BatchOK(c)'
  BY DEF BatchesOK
<1>1. BatchOK(c) /\ cleaner'[c] = cleaner[c]
  BY DEF BatchesOK
<1>2. cleaner[c].cutoff <= now'
  BY <1>1, CleanerType, TimesAssumption DEF BatchOK, TypeOK
<1>3. \A f \in cleaner[c].batch : status'[f[1]] = "completed"
  BY <1>1, CompletedStays, CleanerType, FileShape DEF BatchOK
<1> QED
  BY <1>1, <1>2, <1>3 DEF BatchOK

\* One cleanup changes.
LEMMA BatchesOther ==
  ASSUME TypeOK, BatchesOK, NEW c \in Cleaners, BatchOK(c)',
         \A d \in Cleaners \ {c} : cleaner'[d] = cleaner[d],
         now' = now, expires' = expires, status' = status, objects' \subseteq objects
  PROVE  BatchesOK'
<1> SUFFICES ASSUME NEW d \in Cleaners \ {c} PROVE BatchOK(d)'
  BY DEF BatchesOK
<1> QED
  BY DEF BatchesOK, BatchOK

\* Steps of requests and workers touch no file of a completed job.
LEMMA BatchesStep ==
  ASSUME TypeOK, RequestsOK, FilesOK, BatchesOK, [Next]_vars,
         NEW j \in Jobs, Request(j) \/ Work(j) \/ Fail(j)
  PROVE  BatchesOK'
<1>0. now \in Nat /\ \A c \in Cleaners : \A f \in cleaner[c].batch : expires[f] < now /\ f \in Files
  BY TimesAssumption, CleanerType DEF TypeOK, BatchesOK, BatchOK
<1>1. ASSUME cleaner' = cleaner, now' = now, expires' = expires, objects' = objects
      PROVE  BatchesOK'
  BY <1>0, <1>1, BatchesStay
<1>2. ASSUME NEW k \in Kinds, Copy(j, k) \/ Store(j, k) PROVE BatchesOK'
  <2>1. Phase(j) # "idle"
    BY <1>2 DEF Copy, Store
  <2>2. \A c \in Cleaners : <<j, k>> \notin cleaner[c].batch
    BY <2>1, AtWork
  <2>3. /\ cleaner' = cleaner /\ now' = now /\ objects' = objects \cup {<<j, k>>}
        /\ \A f \in Files : f # <<j, k>> => expires'[f] = expires[f]
    BY <1>2 DEF Copy, Store, historyVars, TypeOK
  <2>4. ASSUME NEW c \in Cleaners, NEW f \in cleaner[c].batch
        PROVE  expires'[f] < now' /\ (f \in objects' => f \in objects)
    BY <1>0, <2>2, <2>3
  <2> QED
    BY <1>0, <2>3, <2>4, BatchesStay
<1>3. CASE Submit(j) \/ CountStored(j)
  BY <1>1, <1>3 DEF Submit, CountStored, dbVars
<1>4. ASSUME NEW i \in Jobs, Hit(j, i) PROVE BatchesOK'
  BY <1>1, <1>4 DEF Hit
<1>5. ASSUME NEW k \in Kinds, CopyFails(j, k) PROVE BatchesOK'
  BY <1>1, <1>5 DEF CopyFails
<1>6. CASE Miss(j) \/ Start(j) \/ CompleteFromCache(j) \/ Complete(j) \/ Fail(j)
  BY <1>1, <1>6 DEF Miss, Start, CompleteFromCache, Complete, Fail
<1> QED
  BY <1>2, <1>3, <1>4, <1>5, <1>6 DEF Request, Work

\* A cleanup lists what has expired, and its objects are gone when it goes on.
LEMMA BatchesElsewhere ==
  ASSUME TypeOK, RequestsOK, FilesOK, BatchesOK, [Next]_vars, Elsewhere
  PROVE  BatchesOK'
<1>0. now \in Nat /\ \A c \in Cleaners : \A f \in cleaner[c].batch : expires[f] < now /\ f \in Files
  BY TimesAssumption, CleanerType DEF TypeOK, BatchesOK, BatchOK
<1>r. ASSUME NEW c \in Cleaners, cleaner' = [cleaner EXCEPT ![c] = Resting],
             now' = now, expires' = expires, status' = status, objects' = objects
      PROVE  BatchesOK'
  <2>0. /\ cleaner'[c].phase = "idle" /\ cleaner'[c].batch = {} /\ cleaner'[c].left = {}
        /\ cleaner'[c].own = NoMeter /\ cleaner'[c].cutoff = 0
    BY <1>r, RestEffect, RestingType
  <2>1. BatchOK(c)'
    BY <1>0, <1>r, <2>0 DEF BatchOK, Holding
  <2> QED
    BY <1>r, <2>1, RestEffect, BatchesOther
<1>1. ASSUME NEW c \in Cleaners, Begin(c) PROVE BatchesOK'
  <2>1. cleaner[c].batch = {} /\ cleaner[c].left = {} /\ cleaner[c].own = NoMeter
    BY <1>1 DEF Begin, BatchesOK, BatchOK
  <2>a. /\ cleaner'[c].phase = "listing" /\ cleaner'[c].batch = {} /\ cleaner'[c].left = {}
        /\ cleaner'[c].own = NoMeter /\ cleaner'[c].cutoff = now /\ now' = now
    BY <1>1, <2>1, BeginEffect DEF Begin
  <2>2. BatchOK(c)'
    BY <1>0, <2>a DEF BatchOK, Holding
  <2> QED
    BY <1>1, <2>2, BeginEffect, BatchesOther DEF Begin, dbVars
<1>2. ASSUME NEW c \in Cleaners, List(c) PROVE BatchesOK'
  <2>0. now' = now /\ expires' = expires /\ status' = status /\ objects' = objects
    BY <1>2 DEF List, dbVars
  <2>1. CASE cleaner' = [cleaner EXCEPT ![c] = Resting]
    BY <1>r, <2>0, <2>1
  <2>2. CASE cleaner' # [cleaner EXCEPT ![c] = Resting]
    <3>1. /\ cleaner'[c].phase = "deleting" /\ cleaner'[c].cutoff = cleaner[c].cutoff
          /\ cleaner'[c].batch \subseteq Expired(c) /\ cleaner'[c].left = cleaner'[c].batch
          /\ cleaner'[c].own = cleaner[c].own
      BY <1>2, <2>2, ListEffect
    <3>2. cleaner[c].own = NoMeter /\ cleaner[c].cutoff <= now /\ cleaner[c].cutoff \in Nat
      <4>1. cleaner[c].phase = "listing"
        BY <1>2 DEF List
      <4>2. BatchOK(c) /\ cleaner[c].cutoff \in 0..MaxTime
        BY CleanerType DEF BatchesOK
      <4> QED
        BY <4>1, <4>2, TimesAssumption DEF BatchOK
    <3>3. ASSUME NEW f \in Expired(c) PROVE status[f[1]] = "completed" /\ expires[f] < now
      <4>1. f \in rows /\ expires[f] < cleaner[c].cutoff /\ expires[f] \in Nat
        BY DEF Expired, TypeOK
      <4> QED
        BY <1>0, <3>2, <4>1 DEF FilesOK
    <3>4. BatchOK(c)'
      BY <2>0, <3>1, <3>2, <3>3 DEF BatchOK, Holding
    <3> QED
      BY <1>2, <2>0, <2>2, <3>4, ListEffect, BatchesOther
  <2> QED
    BY <2>1, <2>2
<1>3. ASSUME NEW c \in Cleaners, NEW f \in Files, DeleteObject(c, f) PROVE BatchesOK'
  <2>0. /\ now' = now /\ expires' = expires /\ status' = status /\ objects' = objects \ {f}
        /\ cleaner[c].phase = "deleting"
    BY <1>3 DEF DeleteObject, dbVars
  <2>1. BatchOK(c)'
    <3>1. BatchOK(c)
      BY DEF BatchesOK
    <3> QED
      BY <1>3, <2>0, <3>1, DeleteObjectEffect DEF BatchOK, Holding
  <2> QED
    BY <1>3, <2>0, <2>1, DeleteObjectEffect, BatchesOther
<1>4. ASSUME NEW c \in Cleaners, DeleteRows(c) PROVE BatchesOK'
  <2>0. /\ now' = now /\ expires' = expires /\ status' = status /\ objects' = objects
        /\ cleaner[c].phase = "deleting" /\ cleaner[c].left = {}
    BY <1>4 DEF DeleteRows, dbVars
  <2>1. BatchOK(c)'
    <3>1. BatchOK(c)
      BY DEF BatchesOK
    <3> QED
      BY <1>4, <2>0, <3>1, DeleteRowsEffect DEF BatchOK, Holding
  <2> QED
    BY <1>4, <2>0, <2>1, DeleteRowsEffect, BatchesOther
<1>5. ASSUME NEW c \in Cleaners, CountDeleted(c) PROVE BatchesOK'
  <2>0. /\ now' = now /\ expires' = expires /\ status' = status /\ objects' = objects
        /\ cleaner[c].phase = "metering"
    BY <1>5 DEF CountDeleted, dbVars
  <2>1. BatchOK(c)'
    <3>1. BatchOK(c)
      BY DEF BatchesOK
    <3>2. /\ cleaner'[c].phase = "committing" /\ cleaner'[c].cutoff = cleaner[c].cutoff
          /\ cleaner'[c].batch = cleaner[c].batch /\ cleaner'[c].left = cleaner[c].left
          /\ cleaner'[c].own # NoMeter
      BY <1>5, CountDeletedEffect DEF NoMeter
    <3> QED
      BY <2>0, <3>1, <3>2 DEF BatchOK, Holding
  <2> QED
    BY <1>5, <2>0, <2>1, CountDeletedEffect, BatchesOther
<1>6. ASSUME NEW c \in Cleaners, CommitBatch(c) PROVE BatchesOK'
  <2>0. now' = now /\ expires' = expires /\ status' = status /\ objects' = objects
    BY <1>6 DEF CommitBatch
  <2>1. BatchOK(c)'
    <3>1. BatchOK(c)
      BY DEF BatchesOK
    <3> QED
      BY <1>0, <1>6, <2>0, <3>1, CommitBatchEffect DEF BatchOK, Holding
  <2> QED
    BY <1>6, <2>0, <2>1, CommitBatchEffect, BatchesOther
<1>7. ASSUME NEW c \in Cleaners, FailCleanup(c) PROVE BatchesOK'
  BY <1>r, <1>7 DEF FailCleanup, dbVars
<1>8. ASSUME NEW i \in Jobs, Invalidate(CacheKey[i]) PROVE BatchesOK'
  <2>1. /\ cleaner' = cleaner /\ objects' = objects /\ now' = now + 1
        /\ \A f \in Files : expires'[f] \in {now, expires[f]}
    BY <1>8 DEF Invalidate
  <2>2. ASSUME NEW c \in Cleaners, NEW f \in cleaner[c].batch PROVE expires'[f] < now'
    <3>1. expires[f] < now /\ f \in Files /\ expires[f] \in Nat
      BY <1>0 DEF TypeOK
    <3> QED
      BY <1>0, <2>1, <3>1
  <2> QED
    BY <1>0, <2>1, <2>2, BatchesStay
<1>9. CASE Tick \/ UNCHANGED vars
  <2>1. /\ cleaner' = cleaner /\ objects' = objects /\ now' \in {now, now + 1}
        /\ expires' = expires
    BY <1>9 DEF Tick, vars, dbVars
  <2>2. ASSUME NEW c \in Cleaners, NEW f \in cleaner[c].batch PROVE expires'[f] < now'
    <3>1. expires[f] < now /\ f \in Files /\ expires[f] \in Nat
      BY <1>0 DEF TypeOK
    <3> QED
      BY <1>0, <2>1, <3>1
  <2> QED
    BY <1>0, <2>1, <2>2, BatchesStay
<1> QED
  BY <1>1, <1>2, <1>3, <1>4, <1>5, <1>6, <1>7, <1>8, <1>9 DEF Elsewhere, Cleanup

\* Every step keeps what is said of cleanups.
LEMMA BatchesNext ==
  TypeOK /\ RequestsOK /\ FilesOK /\ BatchesOK /\ [Next]_vars => BatchesOK'
BY BatchesStep, BatchesElsewhere DEF Next, Elsewhere


-----------------------------------------------------------------------------
(* Descent and invalidation *)

\* Steps that neither publish, nor begin to copy, nor invalidate.
LEMMA LineageStay ==
  ASSUME TypeOK, RequestsOK, LineageOK, [Next]_vars, now' \in Nat, now <= now',
         origin' = origin, invalidated' = invalidated, leaked' = leaked,
         rows' \subseteq rows, \A f \in rows' : expires'[f] = expires[f],
         \A i \in Jobs : Phase(i)' = "copying" =>
           Phase(i) = "copying" /\ tx'[i].source = tx[i].source
  PROVE  LineageOK'
<1>1. ASSUME NEW i \in Jobs PROVE DescentOK(i)'
  <2>1. DescentOK(i) /\ origin[i] \in Jobs
    BY DEF LineageOK, TypeOK
  <2>2. /\ status[i] = "completed" => status'[i] = "completed"
        /\ status[origin[i]] = "completed" => status'[origin[i]] = "completed"
    BY <2>1, CompletedStays
  <2>3. Phase(i)' = "copying" => Phase(i) = "copying" /\ tx'[i].source = tx[i].source
    OBVIOUS
  <2> QED
    BY <2>1, <2>2, <2>3 DEF DescentOK
<1>2. InvalidationHolds'
  <2> SUFFICES ASSUME NEW f \in rows', Live(f)', origin[f[1]] \in invalidated
               PROVE  origin[f[1]] \in leaked
    BY DEF InvalidationHolds
  <2>1. f \in rows /\ expires[f] >= now
    BY TimesAssumption DEF Live, TypeOK
  <2> QED
    BY <2>1 DEF LineageOK, InvalidationHolds, Live
<1> QED
  BY <1>1, <1>2 DEF LineageOK

\* A request begins to copy what is valid, so not what was invalidated before.
LEMMA LineageHit ==
  ASSUME TypeOK, RequestsOK, LineageOK, [Next]_vars, NEW j \in Jobs, NEW i \in Jobs, Hit(j, i)
  PROVE  LineageOK'
<1>0. /\ origin' = origin /\ invalidated' = invalidated /\ leaked' = leaked /\ rows' = rows
      /\ expires' = expires /\ now' = now /\ now \in Nat
  BY TimesAssumption DEF Hit, historyVars, TypeOK
<1>1. CASE tx[j].own + Cardinality(Reusable(i)) > Quota
  <2>1. tx'[j].phase = "idle" /\ \A h \in Jobs \ {j} : tx'[h] = tx[h]
    BY <1>1, CloseEffect, ClosedType DEF Hit
  <2> QED
    BY <1>0, <2>1, LineageStay DEF Phase
<1>2. CASE ~(tx[j].own + Cardinality(Reusable(i)) > Quota)
  <2>1. tx'[j].source = i /\ status' = status /\ \A h \in Jobs \ {j} : tx'[h] = tx[h]
    BY <1>2, HitEffect
  <2>2. PICK k \in Kinds : Live(<<i, k>>)
    BY DEF Hit, Reusable
  <2>3. origin[i] \in invalidated => origin[i] \in leaked
    BY <2>2 DEF LineageOK, InvalidationHolds, Live
  <2>4. ASSUME NEW h \in Jobs PROVE DescentOK(h)'
    <3>1. DescentOK(h)
      BY DEF LineageOK
    <3>2. CASE h = j
      BY <1>0, <2>1, <2>3, <3>1, <3>2 DEF DescentOK
    <3>3. CASE h # j
      BY <1>0, <2>1, <3>1, <3>3 DEF DescentOK, Phase
    <3> QED
      BY <3>2, <3>3
  <2>5. InvalidationHolds'
    BY <1>0 DEF LineageOK, InvalidationHolds, Live
  <2> QED
    BY <2>4, <2>5 DEF LineageOK
<1> QED
  BY <1>1, <1>2

\* A copy is published: it descends from what its source descends from.
LEMMA LineageCopied ==
  ASSUME TypeOK, RequestsOK, FilesOK, BatchesOK, LineageOK, [Next]_vars,
         NEW j \in Jobs, CompleteFromCache(j)
  PROVE  LineageOK'
<1> DEFINE s == tx[j].source
<1>0. /\ invalidated' = invalidated /\ leaked' = leaked /\ expires' = expires /\ now' = now
      /\ rows' = rows \cup Mine(j, tx[j].made) /\ Phase(j) = "copying"
  BY DEF CompleteFromCache, Publish, historyVars
<1>1. /\ s \in Jobs /\ status[s] = "completed" /\ CacheKey[s] = CacheKey[j]
      /\ status[j] # "completed" /\ s # j
  <2>1. RequestOK(j)
    BY DEF RequestsOK
  <2> QED
    BY <1>0, <2>1, TxType DEF RequestOK
<1>2. /\ origin'[j] = origin[s] /\ \A i \in Jobs \ {j} : origin'[i] = origin[i]
      /\ tx'[j].phase = "idle" /\ \A i \in Jobs \ {j} : tx'[i] = tx[i]
      /\ status'[j] = "completed" /\ \A i \in Jobs \ {j} : status'[i] = status[i]
  BY CloseEffect, ClosedType, StatusChange DEF CompleteFromCache, Publish, TypeOK
<1>3. DescentOK(s) /\ DescentOK(j) /\ origin[s] \in Jobs
  BY <1>1 DEF LineageOK, TypeOK
<1> HIDE DEF s
<1>4. ASSUME NEW i \in Jobs PROVE DescentOK(i)'
  <2>1. CASE i = j
    <3>1. status[origin[s]] = "completed" /\ CacheKey[origin[s]] = CacheKey[j]
      BY <1>1, <1>3 DEF DescentOK
    <3>2. status'[origin[s]] = "completed"
      BY <1>2, <1>3, <3>1
    <3> QED
      BY <1>2, <2>1, <3>1, <3>2 DEF DescentOK, Phase
  <2>2. CASE i # j
    <3>1. DescentOK(i) /\ RequestOK(i) /\ origin[i] \in Jobs /\ tx[i].source \in Jobs
      BY TxType DEF LineageOK, RequestsOK, TypeOK
    <3>2. status[origin[i]] = "completed" => status'[origin[i]] = "completed"
      BY <1>2, <3>1
    <3>3. Phase(i)' = "copying" => Phase(i) = "copying" /\ tx[i].source # j
      BY <1>1, <1>2, <2>2, <3>1 DEF Phase, RequestOK
    <3> QED
      BY <1>0, <1>2, <2>2, <3>1, <3>2, <3>3 DEF DescentOK, Phase
  <2> QED
    BY <2>1, <2>2
<1>5. InvalidationHolds'
  <2> SUFFICES ASSUME NEW f \in rows', Live(f)', origin'[f[1]] \in invalidated
               PROVE  origin'[f[1]] \in leaked
    BY <1>0 DEF InvalidationHolds
  <2>1. CASE f \in rows
    <3>1. f \in Files /\ status[f[1]] = "completed"
      BY <2>1 DEF FilesOK, TypeOK
    <3>2. origin'[f[1]] = origin[f[1]]
      BY <1>1, <1>2, <3>1, FileShape
    <3> QED
      BY <1>0, <2>1, <3>2 DEF LineageOK, InvalidationHolds, Live
  <2>2. CASE f \notin rows
    <3>1. f[1] = j
      BY <1>0, <2>2 DEF Mine
    <3> QED
      BY <1>0, <1>2, <1>3, <3>1 DEF DescentOK, s
  <2> QED
    BY <2>1, <2>2
<1> QED
  BY <1>4, <1>5 DEF LineageOK

\* A rendering is published: nobody has invalidated it yet.
LEMMA LineageRendered ==
  ASSUME TypeOK, RequestsOK, FilesOK, BatchesOK, LineageOK, [Next]_vars,
         NEW j \in Jobs, Complete(j)
  PROVE  LineageOK'
<1>0. /\ invalidated' = invalidated /\ leaked' = leaked /\ expires' = expires /\ now' = now
      /\ origin' = origin /\ rows' = rows \cup Mine(j, tx[j].made) /\ Phase(j) = "storing"
  BY DEF Complete, Publish, historyVars
<1>1. status[j] # "completed"
  BY <1>0, AtWork
<1>2. tx'[j].phase = "idle" /\ \A i \in Jobs \ {j} : tx'[i] = tx[i]
  BY CloseEffect, ClosedType DEF Complete, Publish
<1>3. ASSUME NEW i \in Jobs PROVE DescentOK(i)'
  <2>1. DescentOK(i) /\ origin[i] \in Jobs
    BY DEF LineageOK, TypeOK
  <2>2. /\ status[i] = "completed" => status'[i] = "completed"
        /\ status[origin[i]] = "completed" => status'[origin[i]] = "completed"
    BY <2>1, CompletedStays
  <2>3. Phase(i)' = "copying" => Phase(i) = "copying" /\ tx'[i] = tx[i]
    BY <1>2 DEF Phase
  <2> QED
    BY <1>0, <2>1, <2>2, <2>3 DEF DescentOK
<1>4. InvalidationHolds'
  <2> SUFFICES ASSUME NEW f \in rows', Live(f)', origin[f[1]] \in invalidated
               PROVE  origin[f[1]] \in leaked
    BY <1>0 DEF InvalidationHolds
  <2>1. CASE f \in rows
    BY <1>0, <2>1 DEF LineageOK, InvalidationHolds, Live
  <2>2. CASE f \notin rows
    <3>1. f[1] = j
      BY <1>0, <2>2 DEF Mine
    <3> QED
      BY <1>1, <3>1 DEF LineageOK, DescentOK
  <2> QED
    BY <2>1, <2>2
<1> QED
  BY <1>3, <1>4 DEF LineageOK

\* An invalidation reaches every row of the rendering, as they share its key.
LEMMA LineageInvalidated ==
  ASSUME TypeOK, RequestsOK, FilesOK, LineageOK, [Next]_vars,
         NEW h \in Jobs, Invalidate(CacheKey[h])
  PROVE  LineageOK'
<1> DEFINE rowsOf == Lineage(CacheKey[h])
<1>0. /\ origin' = origin /\ status' = status /\ tx' = tx /\ rows' = rows /\ now' = now + 1
      /\ now \in Nat
      /\ invalidated' = invalidated \cup {origin[f[1]] : f \in rowsOf}
      /\ leaked' = leaked \cup {origin[tx[j].source] : j \in {i \in Jobs : Phase(i) = "copying"}}
      /\ \A f \in Files : expires'[f] = IF f \in rowsOf THEN now ELSE expires[f]
  BY TimesAssumption DEF Invalidate, TypeOK
<1>1. rowsOf = {f \in rows : CacheKey[f[1]] = CacheKey[h]}
  BY DEF Lineage
<1> HIDE DEF rowsOf
<1>2. ASSUME NEW i \in Jobs PROVE DescentOK(i)'
  <2>1. DescentOK(i)
    BY DEF LineageOK
  <2>2. ASSUME NEW f \in rowsOf PROVE status[origin[f[1]]] = "completed"
    <3>1. f \in rows /\ f \in Files /\ f[1] \in Jobs
      BY <1>1, FileShape DEF TypeOK
    <3>2. status[f[1]] = "completed" /\ DescentOK(f[1])
      BY <3>1 DEF FilesOK, LineageOK
    <3> QED
      BY <3>2 DEF DescentOK
  <2>3. i \in invalidated' => status[i] = "completed"
    BY <1>0, <2>1, <2>2 DEF DescentOK
  <2>4. Phase(i) = "copying" => origin[tx[i].source] \in leaked'
    BY <1>0
  <2> QED
    BY <1>0, <2>1, <2>3, <2>4 DEF DescentOK, Phase
<1>3. InvalidationHolds'
  <2> SUFFICES ASSUME NEW f \in rows, Live(f)', origin[f[1]] \in invalidated'
               PROVE  origin[f[1]] \in leaked'
    BY <1>0 DEF InvalidationHolds
  <2>1. f \in Files /\ f[1] \in Jobs /\ expires[f] \in Nat
    BY FileShape DEF TypeOK
  <2>2. f \notin rowsOf /\ expires[f] >= now
    BY <1>0, <2>1 DEF Live
  <2>3. origin[f[1]] \in invalidated
    <3> SUFFICES ASSUME NEW g \in rowsOf, origin[f[1]] = origin[g[1]] PROVE FALSE
      BY <1>0
    <3>1. g \in rows /\ g[1] \in Jobs /\ CacheKey[g[1]] = CacheKey[h]
      BY <1>1, FileShape DEF TypeOK
    <3>2. CacheKey[f[1]] = CacheKey[g[1]]
      BY <2>1, <3>1 DEF LineageOK, DescentOK
    <3> QED
      BY <1>1, <2>2, <3>1, <3>2
  <2> QED
    BY <1>0, <2>2, <2>3 DEF LineageOK, InvalidationHolds, Live
<1> QED
  BY <1>2, <1>3 DEF LineageOK

\* Every step keeps what is said of descent and invalidation.
LEMMA LineageNext ==
  ASSUME TypeOK, RequestsOK, FilesOK, BatchesOK, LineageOK, [Next]_vars
  PROVE  LineageOK'
<1>0. now \in Nat
  BY TimesAssumption DEF TypeOK
<1>1. ASSUME now' \in {now, now + 1}, origin' = origin, invalidated' = invalidated,
             leaked' = leaked, rows' \subseteq rows, expires' = expires, tx' = tx
      PROVE  LineageOK'
  BY <1>0, <1>1, LineageStay DEF Phase
<1>2. ASSUME now' = now, origin' = origin, invalidated' = invalidated, leaked' = leaked,
             rows' = rows, NEW j \in Jobs, \A i \in Jobs \ {j} : tx'[i] = tx[i],
             \A f \in rows : expires'[f] = expires[f],
             Phase(j)' = "copying" => Phase(j) = "copying" /\ tx'[j].source = tx[j].source
      PROVE  LineageOK'
  <2>1. \A i \in Jobs : Phase(i)' = "copying" =>
          Phase(i) = "copying" /\ tx'[i].source = tx[i].source
    BY <1>2 DEF Phase
  <2> QED
    BY <1>0, <1>2, <2>1, LineageStay
<1>3. ASSUME NEW j \in Jobs, Submit(j) PROVE LineageOK'
  BY <1>2, <1>3, SubmitEffect DEF Submit, dbVars, historyVars, Phase
<1>4. ASSUME NEW j \in Jobs, Miss(j) PROVE LineageOK'
  BY <1>2, <1>4, CloseEffect, ClosedType DEF Miss, historyVars, Phase
<1>5. ASSUME NEW j \in Jobs, NEW k \in Kinds, Copy(j, k) PROVE LineageOK'
  <2>1. tx[j].own # NoMeter /\ Phase(j) # "idle"
    BY <1>5 DEF Copy, RequestsOK, RequestOK
  <2>2. \A f \in rows : expires'[f] = expires[f]
    BY <1>5, <2>1, AtWork DEF Copy, TypeOK
  <2>3. tx'[j].source = tx[j].source /\ \A i \in Jobs \ {j} : tx'[i] = tx[i]
    BY <1>5, <2>1, CopyEffect
  <2>4. Phase(j) = "copying"
    BY <1>5 DEF Copy
  <2>5. now' = now /\ origin' = origin /\ invalidated' = invalidated /\ leaked' = leaked
          /\ rows' = rows
    BY <1>5 DEF Copy, historyVars
  <2> QED
    BY <1>2, <2>2, <2>3, <2>4, <2>5
<1>6. ASSUME NEW j \in Jobs, NEW k \in Kinds, CopyFails(j, k) PROVE LineageOK'
  BY <1>2, <1>6, CloseEffect, ClosedType DEF CopyFails, Rollback, Phase
<1>7. ASSUME NEW j \in Jobs, Start(j) PROVE LineageOK'
  <2>1. CASE meter + Cardinality(Kinds) > Quota
    BY <1>1, <1>7, <2>1 DEF Start, historyVars
  <2>2. CASE ~(meter + Cardinality(Kinds) > Quota)
    BY <1>2, <1>7, <2>2, StartEffect DEF Start, historyVars, Phase
  <2> QED
    BY <2>1, <2>2
<1>8. ASSUME NEW j \in Jobs, NEW k \in Kinds, Store(j, k) PROVE LineageOK'
  <2>1. Phase(j) # "idle"
    BY <1>8 DEF Store
  <2>2. \A f \in rows : expires'[f] = expires[f]
    BY <1>8, <2>1, AtWork DEF Store, TypeOK
  <2>3. tx'[j].phase # "copying" /\ \A i \in Jobs \ {j} : tx'[i] = tx[i]
    BY <1>8, StoreEffect
  <2>4. now' = now /\ origin' = origin /\ invalidated' = invalidated /\ leaked' = leaked
          /\ rows' = rows
    BY <1>8 DEF Store
  <2> QED
    BY <1>2, <2>2, <2>3, <2>4 DEF Phase
<1>9. ASSUME NEW j \in Jobs, CountStored(j) PROVE LineageOK'
  BY <1>2, <1>9, CountStoredEffect DEF CountStored, dbVars, Phase
<1>10. ASSUME NEW j \in Jobs, Fail(j) PROVE LineageOK'
  BY <1>2, <1>10, CloseEffect, ClosedType DEF Fail, Rollback, Phase
<1>11. ASSUME NEW j \in Jobs, CompleteFromCache(j) \/ Complete(j) \/ \E i \in Jobs : Hit(j, i)
       PROVE  LineageOK'
  BY <1>11, LineageHit, LineageCopied, LineageRendered
<1>12. ASSUME NEW c \in Cleaners, Begin(c) \/ List(c) \/ (\E f \in Files : DeleteObject(c, f))
                \/ FailCleanup(c)
       PROVE  LineageOK'
  BY <1>1, <1>12 DEF Begin, List, DeleteObject, FailCleanup, dbVars, historyVars
<1>13. ASSUME NEW c \in Cleaners, DeleteRows(c) \/ CountDeleted(c) \/ CommitBatch(c)
       PROVE  LineageOK'
  BY <1>1, <1>13 DEF DeleteRows, CountDeleted, CommitBatch, dbVars, historyVars
<1>14. ASSUME NEW i \in Jobs, Invalidate(CacheKey[i]) PROVE LineageOK'
  BY <1>14, LineageInvalidated
<1>15. CASE Tick \/ UNCHANGED vars
  BY <1>1, <1>15 DEF Tick, vars, dbVars, historyVars
<1> QED
  BY <1>3, <1>4, <1>5, <1>6, <1>7, <1>8, <1>9, <1>10, <1>11, <1>12, <1>13, <1>14, <1>15
  DEF Next, Request, Work, Cleanup


-----------------------------------------------------------------------------
(* Dates *)

\* Steps that neither make nor publish a file nor invalidate one.
LEMMA DatesStay ==
  ASSUME TypeOK, DatesOK, now' \in Nat, now <= now',
         rows' \subseteq rows, expires' = expires, born' = born, origin' = origin,
         invalidated' = invalidated,
         \A i \in Jobs : Phase(i)' = "copying" => tx'[i] = tx[i],
         \A i \in Jobs : Phase(i)' \in Working =>
           \/ tx'[i].made = {}
           \/ Phase(i) \in Working /\ tx'[i].made = tx[i].made
  PROVE  DatesOK'
<1>1. \A f \in rows' : RowDate(f)'
  BY DEF DatesOK, RowDate, Due
<1>2. ASSUME NEW i \in Jobs PROVE OrderOK(i)' /\ CopyDates(i)' /\ WorkDates(i)'
  <2>0. OrderOK(i) /\ CopyDates(i) /\ WorkDates(i)
    BY DEF DatesOK
  <2>1. OrderOK(i)'
    BY <2>0 DEF OrderOK
  <2>2. CopyDates(i)'
    BY <2>0 DEF CopyDates, Due, Phase
  <2>3. WorkDates(i)'
    <3>1. CASE tx'[i].made = {}
      BY <3>1 DEF WorkDates
    <3>2. CASE Phase(i) \in Working /\ tx'[i].made = tx[i].made
      <4>1. expires[<<i, "docx">>] \in Nat /\ Retention \in Nat /\ now \in Nat
        BY TimesAssumption DEF TypeOK, Files, Kinds
      <4> QED
        BY <2>0, <3>2, <4>1 DEF WorkDates, Due
    <3> QED
      BY <3>1, <3>2 DEF WorkDates
  <2> QED
    BY <2>1, <2>2, <2>3
<1> QED
  BY <1>1, <1>2 DEF DatesOK

\* A job at work changes its own files only: nothing descends from it yet.
LEMMA DatesOthers ==
  ASSUME TypeOK, RequestsOK, FilesOK, BatchesOK, LineageOK, DatesOK,
         NEW j \in Jobs, Phase(j) # "idle",
         rows' = rows, origin' = origin, invalidated' = invalidated, now' = now,
         \A f \in Files : f[1] # j => expires'[f] = expires[f] /\ born'[f] = born[f],
         \A i \in Jobs \ {j} : tx'[i] = tx[i],
         CopyDates(j)', WorkDates(j)'
  PROVE  DatesOK'
<1>0. status[j] # "completed" /\ \A k : <<j, k>> \notin rows
  BY AtWork
<1>1. ASSUME NEW i \in Jobs, status[i] = "completed", NEW k \in Kinds
      PROVE  Due(origin[i], k)' = Due(origin[i], k)
  <2>1. origin[i] \in Jobs /\ origin[i] # j
    BY <1>0, <1>1 DEF LineageOK, DescentOK, TypeOK
  <2>2. <<origin[i], k>> \in Files /\ <<origin[i], k>>[1] # j
    BY <2>1 DEF Files
  <2> QED
    BY <2>2 DEF Due
<1>2. ASSUME NEW f \in rows PROVE RowDate(f)'
  <2>1. f \in Files /\ f[1] \in Jobs /\ f[2] \in Kinds /\ f[1] # j /\ status[f[1]] = "completed"
    BY <1>0, FileShape DEF FilesOK, TypeOK
  <2>2. RowDate(f)
    BY DEF DatesOK
  <2> QED
    BY <1>1, <2>1, <2>2 DEF RowDate
<1>3. ASSUME NEW i \in Jobs, i # j PROVE OrderOK(i)' /\ CopyDates(i)' /\ WorkDates(i)'
  <2>0. OrderOK(i) /\ CopyDates(i) /\ WorkDates(i) /\ RequestOK(i)
    BY DEF DatesOK, RequestsOK
  <2>1. ASSUME NEW k \in Kinds
        PROVE  expires'[<<i, k>>] = expires[<<i, k>>] /\ born'[<<i, k>>] = born[<<i, k>>]
    <3>1. <<i, k>> \in Files /\ <<i, k>>[1] # j
      BY <1>3 DEF Files
    <3> QED
      BY <3>1
  <2>2. OrderOK(i)'
    BY <2>0, <2>1 DEF OrderOK, Kinds
  <2>3. CopyDates(i)'
    <3> SUFFICES ASSUME Phase(i) = "copying" PROVE CopyDates(i)'
      BY <1>3 DEF CopyDates, Phase
    <3>1. status[tx[i].source] = "completed" /\ tx[i].source \in Jobs
          /\ tx[i].todo \subseteq Kinds /\ tx[i].made \subseteq Kinds
      BY <2>0, TxType DEF RequestOK
    <3>2. \A k \in tx[i].todo \cup tx[i].made :
            Due(origin[tx[i].source], k)' = Due(origin[tx[i].source], k)
      BY <1>1, <1>3, <3>1
    <3> QED
      BY <1>3, <2>0, <2>1, <3>1, <3>2 DEF CopyDates, Phase
  <2>4. WorkDates(i)'
    <3>1. tx[i].made \subseteq Kinds
      BY TxType
    <3>2. \A k \in Kinds : Due(i, k)' = Due(i, k)
      BY <2>1 DEF Due
    <3> QED
      BY <1>3, <2>0, <2>1, <3>1, <3>2 DEF WorkDates, Phase, Kinds
  <2> QED
    BY <2>2, <2>3, <2>4
<1>4. OrderOK(j)'
  BY <1>0 DEF OrderOK
<1> QED
  BY <1>2, <1>3, <1>4 DEF DatesOK

\* A request that copies takes over the dates of what it copies.
LEMMA DatesHit ==
  ASSUME TypeOK, RequestsOK, FilesOK, BatchesOK, LineageOK, DatesOK,
         NEW j \in Jobs, NEW i \in Jobs, Hit(j, i)
  PROVE  DatesOK'
<1>0. /\ rows' = rows /\ expires' = expires /\ born' = born /\ origin' = origin
      /\ invalidated' = invalidated /\ now' = now /\ now \in Nat /\ Phase(j) = "looking"
  BY TimesAssumption DEF Hit, historyVars, TypeOK
<1>1. CASE tx[j].own + Cardinality(Reusable(i)) > Quota
  <2>1. tx'[j].phase = "idle" /\ \A h \in Jobs \ {j} : tx'[h] = tx[h]
    BY <1>1, CloseEffect, ClosedType DEF Hit
  <2> QED
    BY <1>0, <2>1, DatesStay DEF Phase, Working
<1>2. CASE ~(tx[j].own + Cardinality(Reusable(i)) > Quota)
  <2>1. /\ tx'[j].phase = "copying" /\ tx'[j].source = i /\ tx'[j].todo = Reusable(i)
        /\ tx'[j].made = {} /\ \A h \in Jobs \ {j} : tx'[h] = tx[h]
        /\ \A k \in Reusable(i) : tx'[j].until[k] = expires[<<i, k>>]
    BY <1>0, <1>2, HitEffect DEF RequestsOK, RequestOK
  <2>2. \A k \in Reusable(i) : k \in Kinds /\ <<i, k>> \in rows
    BY DEF Reusable, Live
  <2>3. \A k \in Reusable(i) : RowDate(<<i, k>>)
    BY <2>2 DEF DatesOK
  <2>4. \A k \in Reusable(i) :
          origin[i] \in invalidated \/ tx'[j].until[k] = Due(origin[i], k)
    BY <2>1, <2>3 DEF RowDate
  <2>5. Kinds \subseteq Reusable(i) => tx'[j].until["docx"] <= tx'[j].until["pdf"]
    BY <2>1, <2>2 DEF DatesOK, OrderOK, Kinds
  <2>6. CopyDates(j)'
    BY <1>0, <2>1, <2>4, <2>5 DEF CopyDates, Due, Phase
  <2>7. WorkDates(j)'
    BY <2>1 DEF WorkDates, Phase, Working
  <2> QED
    BY <1>0, <2>1, <2>6, <2>7, DatesOthers
<1> QED
  BY <1>1, <1>2

\* A copy gets the date read with its row.
LEMMA DatesCopy ==
  ASSUME TypeOK, RequestsOK, FilesOK, BatchesOK, LineageOK, DatesOK,
         NEW j \in Jobs, NEW k \in Kinds, Copy(j, k)
  PROVE  DatesOK'
<1>0. /\ rows' = rows /\ born' = born /\ origin' = origin /\ invalidated' = invalidated
      /\ now' = now /\ Phase(j) = "copying" /\ k \in tx[j].todo
  BY DEF Copy, historyVars
<1>1. \A f \in Files : expires'[f] = IF f = <<j, k>> THEN tx[j].until[k] ELSE expires[f]
  BY DEF Copy, TypeOK
<1>2. tx[j].own # NoMeter
  BY <1>0 DEF RequestsOK, RequestOK
<1>3. /\ tx'[j].phase = "copying" /\ tx'[j].source = tx[j].source
      /\ tx'[j].todo \cup tx'[j].made = tx[j].todo \cup tx[j].made
      /\ tx'[j].made = tx[j].made \cup {k} /\ tx'[j].until = tx[j].until
      /\ \A h \in Jobs \ {j} : tx'[h] = tx[h]
  BY <1>0, <1>2, CopyEffect
<1>4. \A h \in tx'[j].made : expires'[<<j, h>>] = tx'[j].until[h]
  <2> SUFFICES ASSUME NEW h \in tx'[j].made PROVE expires'[<<j, h>>] = tx[j].until[h]
    BY <1>3
  <2>1. h \in Kinds /\ <<j, h>> \in Files
    BY <1>3, TxType DEF Files
  <2>2. h # k => expires[<<j, h>>] = tx[j].until[h]
    BY <1>0, <1>3 DEF DatesOK, CopyDates
  <2> QED
    BY <1>1, <2>1, <2>2
<1>5. CopyDates(j)'
  <2>1. CopyDates(j)
    BY DEF DatesOK
  <2> QED
    BY <1>0, <1>3, <1>4, <2>1 DEF CopyDates, Due, Phase
<1>6. WorkDates(j)'
  BY <1>3 DEF WorkDates, Phase, Working
<1> QED
  BY <1>0, <1>1, <1>3, <1>5, <1>6, DatesOthers

\* A worker stores a file, the DOCX before the PDF.
LEMMA DatesStore ==
  ASSUME TypeOK, RequestsOK, FilesOK, BatchesOK, LineageOK, DatesOK,
         NEW j \in Jobs, NEW k \in Kinds, Store(j, k)
  PROVE  DatesOK'
<1>0. /\ rows' = rows /\ origin' = origin /\ invalidated' = invalidated
      /\ now' = now /\ Phase(j) = "storing" /\ k \in Missing(j)
      /\ now \in Nat /\ Retention \in Nat
  BY TimesAssumption DEF Store, TypeOK
<1>1. \A f \in Files :
        /\ expires'[f] = IF f = <<j, k>> THEN now + Retention ELSE expires[f]
        /\ born'[f] = IF f = <<j, k>> THEN now ELSE born[f]
  BY DEF Store, TypeOK
<1>2. /\ tx'[j].phase \in Working /\ tx'[j].made = tx[j].made \cup {k}
      /\ tx[j].made \subseteq Kinds /\ \A h \in Jobs \ {j} : tx'[h] = tx[h]
  BY StoreEffect, TxType DEF Working
<1>3. WorkDates(j)
  BY DEF DatesOK
<1>d. <<j, "docx">> \in Files /\ <<j, "pdf">> \in Files
  BY DEF Files, Kinds
<1>4. \A h \in tx'[j].made : expires'[<<j, h>>] = Due(j, h)'
  <2> SUFFICES ASSUME NEW h \in tx'[j].made
               PROVE  expires'[<<j, h>>] = born'[<<j, h>>] + Retention
    BY DEF Due
  <2>1. h \in Kinds /\ <<j, h>> \in Files
    BY <1>2 DEF Files
  <2>2. h # k => expires[<<j, h>>] = born[<<j, h>>] + Retention
    BY <1>0, <1>2, <1>3 DEF WorkDates, Working, Due
  <2> QED
    BY <1>1, <2>1, <2>2
<1>5. k = "docx" \/ (k = "pdf" /\ "docx" \in tx[j].made)
  BY <1>0 DEF Missing, Kinds
<1>6. "docx" \in tx'[j].made => expires'[<<j, "docx">>] <= now + Retention
  BY <1>0, <1>1, <1>2, <1>3, <1>d DEF WorkDates, Working
<1>7. "pdf" \in tx'[j].made =>
        "docx" \in tx'[j].made /\ expires'[<<j, "docx">>] <= expires'[<<j, "pdf">>]
  <2>1. CASE k = "docx"
    <3>1. "pdf" \notin tx[j].made
      BY <1>0, <1>3, <2>1 DEF WorkDates, Working, Missing, Kinds
    <3> QED
      BY <1>2, <2>1, <3>1
  <2>2. CASE k = "pdf" /\ "docx" \in tx[j].made
    BY <1>0, <1>1, <1>2, <1>3, <1>d, <2>2 DEF WorkDates, Working
  <2> QED
    BY <1>5, <2>1, <2>2
<1>8. WorkDates(j)'
  BY <1>0, <1>4, <1>6, <1>7 DEF WorkDates
<1>9. CopyDates(j)'
  BY <1>2 DEF CopyDates, Phase, Working
<1> QED
  BY <1>0, <1>1, <1>2, <1>8, <1>9, DatesOthers

\* Publishing gives the rows the dates of the files.
LEMMA DatesPublish ==
  ASSUME TypeOK, RequestsOK, FilesOK, BatchesOK, LineageOK, DatesOK,
         NEW j \in Jobs, CompleteFromCache(j) \/ Complete(j)
  PROVE  DatesOK'
<1> DEFINE from == IF Phase(j) = "copying" THEN origin[tx[j].source] ELSE j
<1>0. /\ expires' = expires /\ born' = born /\ invalidated' = invalidated /\ now' = now
      /\ rows' = rows \cup Mine(j, tx[j].made) /\ Phase(j) \in {"copying", "storing"}
  BY DEF CompleteFromCache, Complete, Publish, historyVars
<1>1. /\ tx'[j].phase = "idle" /\ \A i \in Jobs \ {j} : tx'[i] = tx[i]
      /\ tx[j].made \subseteq Kinds /\ tx[j].source \in Jobs
  BY CloseEffect, ClosedType, TxType DEF CompleteFromCache, Complete, Publish
<1>2. status[j] # "completed" /\ \A k : <<j, k>> \notin rows
  BY <1>0, AtWork
<1>3. origin'[j] = from /\ \A i \in Jobs \ {j} : origin'[i] = origin[i]
  <2>1. CASE CompleteFromCache(j)
    BY <2>1 DEF CompleteFromCache, TypeOK
  <2>2. CASE Complete(j)
    <3>1. origin[j] = j
      BY <1>2 DEF LineageOK, DescentOK
    <3> QED
      BY <2>2, <3>1 DEF Complete
  <2> QED
    BY <2>1, <2>2
<1>4. ASSUME NEW k \in tx[j].made
      PROVE  from \in invalidated \/ expires[<<j, k>>] = Due(from, k)
  <2>1. CopyDates(j) /\ WorkDates(j)
    BY DEF DatesOK
  <2> QED
    BY <1>0, <2>1 DEF CopyDates, WorkDates, Working
<1>5. Kinds \subseteq tx[j].made => expires[<<j, "docx">>] <= expires[<<j, "pdf">>]
  <2>1. CopyDates(j) /\ WorkDates(j)
    BY DEF DatesOK
  <2> QED
    BY <1>0, <2>1 DEF CopyDates, WorkDates, Working, Kinds
<1> HIDE DEF from
<1>6. ASSUME NEW f \in rows' PROVE RowDate(f)'
  <2>1. CASE f \in rows
    <3>1. f \in Files /\ f[1] \in Jobs /\ f[1] # j
      BY <1>2, <2>1, FileShape DEF FilesOK, TypeOK
    <3>2. RowDate(f)
      BY <2>1 DEF DatesOK
    <3> QED
      BY <1>0, <1>3, <3>1, <3>2 DEF RowDate, Due
  <2>2. CASE f \notin rows
    <3>1. PICK k \in tx[j].made : f = <<j, k>>
      BY <1>0, <2>2 DEF Mine
    <3> QED
      BY <1>0, <1>3, <1>4, <3>1 DEF RowDate, Due
  <2> QED
    BY <2>1, <2>2
<1>7. ASSUME NEW i \in Jobs PROVE OrderOK(i)' /\ CopyDates(i)' /\ WorkDates(i)'
  <2>1. CASE i = j
    <3>1. OrderOK(j)'
      <4> SUFFICES ASSUME <<j, "docx">> \in rows', <<j, "pdf">> \in rows'
                   PROVE  expires[<<j, "docx">>] <= expires[<<j, "pdf">>]
        BY <1>0 DEF OrderOK
      <4>1. "docx" \in tx[j].made /\ "pdf" \in tx[j].made
        BY <1>0, <1>2 DEF Mine
      <4> QED
        BY <1>5, <4>1 DEF Kinds
    <3> QED
      BY <1>1, <2>1, <3>1 DEF CopyDates, WorkDates, Phase, Working
  <2>2. CASE i # j
    <3>0. OrderOK(i) /\ CopyDates(i) /\ WorkDates(i) /\ RequestOK(i)
      BY DEF DatesOK, RequestsOK
    <3>1. OrderOK(i)'
      <4>1. \A k : <<i, k>> \in rows' => <<i, k>> \in rows
        BY <1>0, <2>2 DEF Mine
      <4> QED
        BY <1>0, <3>0, <4>1 DEF OrderOK
    <3>2. CopyDates(i)'
      <4> SUFFICES ASSUME Phase(i) = "copying" PROVE CopyDates(i)'
        BY <1>1, <2>2 DEF CopyDates, Phase
      <4>1. tx[i].source \in Jobs /\ tx[i].source # j
        BY <1>2, <3>0, TxType DEF RequestOK
      <4> QED
        BY <1>0, <1>1, <1>3, <2>2, <3>0, <4>1 DEF CopyDates, Due, Phase
    <3>3. WorkDates(i)'
      BY <1>0, <1>1, <2>2, <3>0 DEF WorkDates, Due, Phase
    <3> QED
      BY <3>1, <3>2, <3>3
  <2> QED
    BY <2>1, <2>2
<1> QED
  BY <1>6, <1>7 DEF DatesOK

\* An invalidation dates all the rows of the rendering alike.
LEMMA DatesInvalidate ==
  ASSUME TypeOK, RequestsOK, FilesOK, BatchesOK, LineageOK, DatesOK,
         NEW h \in Jobs, Invalidate(CacheKey[h])
  PROVE  DatesOK'
<1> DEFINE rowsOf == Lineage(CacheKey[h])
<1>0. /\ origin' = origin /\ tx' = tx /\ rows' = rows /\ now' = now + 1 /\ born' = born
      /\ now \in Nat /\ Retention \in Nat
      /\ invalidated' = invalidated \cup {origin[f[1]] : f \in rowsOf}
      /\ \A f \in Files : expires'[f] = IF f \in rowsOf THEN now ELSE expires[f]
  BY TimesAssumption DEF Invalidate, TypeOK
<1>1. rowsOf = {f \in rows : CacheKey[f[1]] = CacheKey[h]}
  BY DEF Lineage
<1> HIDE DEF rowsOf
<1>2. ASSUME NEW f \in rows PROVE RowDate(f)'
  <2>1. f \in Files /\ RowDate(f)
    BY DEF DatesOK, TypeOK
  <2> QED
    BY <1>0, <2>1 DEF RowDate, Due
<1>3. ASSUME NEW i \in Jobs PROVE OrderOK(i)' /\ CopyDates(i)' /\ WorkDates(i)'
  <2>0. OrderOK(i) /\ CopyDates(i) /\ WorkDates(i)
    BY DEF DatesOK
  <2>d. <<i, "docx">> \in Files /\ <<i, "pdf">> \in Files
    BY DEF Files, Kinds
  <2>1. OrderOK(i)'
    <3> SUFFICES ASSUME <<i, "docx">> \in rows, <<i, "pdf">> \in rows
                 PROVE  expires'[<<i, "docx">>] <= expires'[<<i, "pdf">>]
      BY <1>0 DEF OrderOK
    <3>1. <<i, "docx">> \in rowsOf <=> <<i, "pdf">> \in rowsOf
      BY <1>1
    <3> QED
      BY <1>0, <2>0, <2>d, <3>1 DEF OrderOK
  <2>2. ASSUME Phase(i) # "idle", NEW k \in Kinds PROVE expires'[<<i, k>>] = expires[<<i, k>>]
    <3>1. <<i, k>> \notin rowsOf
      BY <1>1, <2>2, AtWork
    <3> QED
      BY <1>0, <3>1 DEF Files
  <2>3. tx[i].made \subseteq Kinds
    BY TxType
  <2>4. CopyDates(i)'
    BY <1>0, <2>0, <2>2, <2>3 DEF CopyDates, Due, Phase
  <2>5. WorkDates(i)'
    <3> SUFFICES ASSUME Phase(i) \in Working PROVE WorkDates(i)'
      BY <1>0 DEF WorkDates, Phase
    <3>1. \A k \in Kinds : expires'[<<i, k>>] = expires[<<i, k>>] /\ Due(i, k)' = Due(i, k)
      BY <1>0, <2>2 DEF Working, Due
    <3>2. expires[<<i, "docx">>] \in Nat
      BY <2>d DEF TypeOK
    <3> QED
      BY <1>0, <2>0, <2>3, <3>1, <3>2 DEF WorkDates, Kinds
  <2> QED
    BY <2>1, <2>4, <2>5
<1> QED
  BY <1>0, <1>2, <1>3 DEF DatesOK

\* Every step keeps what is said of dates.
LEMMA DatesNext ==
  ASSUME TypeOK, RequestsOK, FilesOK, BatchesOK, LineageOK, DatesOK, [Next]_vars
  PROVE  DatesOK'
<1>0. now \in Nat
  BY TimesAssumption DEF TypeOK
<1>1. ASSUME now' \in {now, now + 1}, origin' = origin, invalidated' = invalidated,
             born' = born, rows' \subseteq rows, expires' = expires, tx' = tx
      PROVE  DatesOK'
  BY <1>0, <1>1, DatesStay DEF Phase
<1>2. ASSUME now' = now, origin' = origin, invalidated' = invalidated, born' = born,
             rows' = rows, expires' = expires,
             NEW j \in Jobs, \A i \in Jobs \ {j} : tx'[i] = tx[i],
             Phase(j)' # "copying",
             Phase(j)' \in Working =>
               tx'[j].made = {} \/ (Phase(j) \in Working /\ tx'[j].made = tx[j].made)
      PROVE  DatesOK'
  <2>1. \A i \in Jobs : Phase(i)' = "copying" => tx'[i] = tx[i]
    BY <1>2 DEF Phase
  <2>2. \A i \in Jobs : Phase(i)' \in Working =>
          tx'[i].made = {} \/ (Phase(i) \in Working /\ tx'[i].made = tx[i].made)
    BY <1>2 DEF Phase
  <2> QED
    BY <1>0, <1>2, <2>1, <2>2, DatesStay
<1>3. ASSUME NEW j \in Jobs, Submit(j) PROVE DatesOK'
  BY <1>2, <1>3, SubmitEffect DEF Submit, dbVars, historyVars, Phase, Working
<1>4. ASSUME NEW j \in Jobs, Miss(j) PROVE DatesOK'
  BY <1>2, <1>4, CloseEffect, ClosedType DEF Miss, historyVars, Phase, Working
<1>5. ASSUME NEW j \in Jobs, NEW k \in Kinds, CopyFails(j, k) PROVE DatesOK'
  BY <1>2, <1>5, CloseEffect, ClosedType DEF CopyFails, Rollback, Phase, Working
<1>6. ASSUME NEW j \in Jobs, Start(j) PROVE DatesOK'
  <2>1. CASE meter + Cardinality(Kinds) > Quota
    BY <1>1, <1>6, <2>1 DEF Start, historyVars
  <2>2. CASE ~(meter + Cardinality(Kinds) > Quota)
    <3>1. tx[j].made = {}
      BY <1>6, ClosedType DEF Start, RequestsOK, RequestOK
    <3>2. tx'[j].phase = "storing" /\ tx'[j].made = {} /\ \A i \in Jobs \ {j} : tx'[i] = tx[i]
      BY <1>6, <2>2, <3>1, StartEffect
    <3> QED
      BY <1>2, <1>6, <3>2 DEF Start, historyVars, Phase
  <2> QED
    BY <2>1, <2>2
<1>7. ASSUME NEW j \in Jobs, CountStored(j) PROVE DatesOK'
  <2>1. /\ tx'[j].phase = "storing" /\ tx'[j].made = tx[j].made
        /\ \A i \in Jobs \ {j} : tx'[i] = tx[i] /\ Phase(j) = "metering"
    BY <1>7, CountStoredEffect DEF CountStored
  <2> QED
    BY <1>2, <1>7, <2>1 DEF CountStored, dbVars, Phase, Working
<1>8. ASSUME NEW j \in Jobs, Fail(j) PROVE DatesOK'
  BY <1>2, <1>8, CloseEffect, ClosedType DEF Fail, Rollback, Phase, Working
<1>9. ASSUME NEW c \in Cleaners, Begin(c) \/ List(c) \/ (\E f \in Files : DeleteObject(c, f))
               \/ FailCleanup(c)
      PROVE  DatesOK'
  BY <1>1, <1>9 DEF Begin, List, DeleteObject, FailCleanup, dbVars, historyVars
<1>10. ASSUME NEW c \in Cleaners, DeleteRows(c) \/ CountDeleted(c) \/ CommitBatch(c)
       PROVE  DatesOK'
  BY <1>1, <1>10 DEF DeleteRows, CountDeleted, CommitBatch, dbVars, historyVars
<1>11. CASE Tick \/ UNCHANGED vars
  BY <1>1, <1>11 DEF Tick, vars, dbVars, historyVars
<1> QED
  BY <1>3, <1>4, <1>5, <1>6, <1>7, <1>8, <1>9, <1>10, <1>11, DatesHit, DatesCopy, DatesStore,
     DatesPublish, DatesInvalidate
  DEF Next, Request, Work, Cleanup


-----------------------------------------------------------------------------
(* The meter *)

\* Steps in which nobody takes the meter or a row.
LEMMA LocksStay ==
  ASSUME LocksOK,
         \A i \in Jobs : tx'[i].own # NoMeter => tx[i].own # NoMeter,
         \A c \in Cleaners : cleaner'[c].own # NoMeter => cleaner[c].own # NoMeter,
         \A c \in Cleaners : Held(c)' \subseteq Held(c)
  PROVE  LocksOK'
BY DEF LocksOK

\* The meter is taken when it is free.
LEMMA LocksTake ==
  ASSUME LocksOK, MeterFree,
         \/ \E j \in Jobs : (\A i \in Jobs \ {j} : tx'[i] = tx[i]) /\ cleaner' = cleaner
         \/ \E c \in Cleaners : (\A d \in Cleaners \ {c} : cleaner'[d] = cleaner[d]) /\ tx' = tx,
         \A c \in Cleaners : Held(c)' = Held(c)
  PROVE  LocksOK'
<1>1. CASE \E j \in Jobs : (\A i \in Jobs \ {j} : tx'[i] = tx[i]) /\ cleaner' = cleaner
  BY <1>1 DEF LocksOK, MeterFree
<1>2. CASE \E c \in Cleaners : (\A d \in Cleaners \ {c} : cleaner'[d] = cleaner[d]) /\ tx' = tx
  BY <1>2 DEF LocksOK, MeterFree
<1> QED
  BY <1>1, <1>2

\* Steps in which the rows, the meter and what will be written stay.
LEMMA CountStay ==
  ASSUME CountOK, rows' = rows, meter' = meter,
         \A i \in Jobs : tx'[i].own # NoMeter =>
           tx'[i].own = tx[i].own /\ tx'[i].made = tx[i].made,
         \A c \in Cleaners : Held(c)' \subseteq Held(c),
         \A c \in Cleaners : cleaner'[c].phase = "committing" => cleaner'[c] = cleaner[c]
  PROVE  CountOK'
BY DEF CountOK, Mine

\* A file more is a row more.
LEMMA OneMore ==
  ASSUME TypeOK, NEW j \in Jobs, NEW k \in Kinds, NEW made \in SUBSET Kinds,
         k \notin made, <<j, k>> \notin rows
  PROVE  Cardinality(rows \cup Mine(j, made \cup {k}))
           = Cardinality(rows \cup Mine(j, made)) + 1
<1> DEFINE S == rows \cup Mine(j, made)
<1>1. S \subseteq Files
  BY DEF TypeOK, Mine, Files
<1>2. IsFiniteSet(S)
  BY <1>1, FilesFinite, FS_Subset
<1>3. <<j, k>> \notin S
  BY DEF Mine
<1>4. rows \cup Mine(j, made \cup {k}) = S \cup {<<j, k>>}
  BY DEF Mine
<1> HIDE DEF S
<1>5. Cardinality(S \cup {<<j, k>>}) = Cardinality(S) + 1
  BY <1>2, <1>3, FS_AddElement
<1> QED
  BY <1>4, <1>5 DEF S

\* No files, no rows.
LEMMA NoneMore ==
  ASSUME NEW j
  PROVE  rows \cup Mine(j, {}) = rows
BY DEF Mine

\* Steps of a job that leave cleanups and the meter alone.
LEMMA MeterJob ==
  ASSUME TypeOK, MeterOK, NEW j \in Jobs,
         \A i \in Jobs \ {j} : tx'[i] = tx[i],
         tx'[j].own # NoMeter => tx'[j].own = tx[j].own /\ tx'[j].made = tx[j].made,
         cleaner' = cleaner, rows' = rows, meter' = meter, raced' = raced
  PROVE  MeterOK'
<1>1. \A i \in Jobs : tx'[i].own # NoMeter =>
        tx'[i].own = tx[i].own /\ tx'[i].made = tx[i].made
  OBVIOUS
<1>2. \A c \in Cleaners : Held(c)' = Held(c)
  BY DEF Held
<1>3. LocksOK'
  BY <1>1, <1>2, LocksStay DEF MeterOK
<1>4. CountOK => CountOK'
  BY <1>1, <1>2, CountStay
<1> QED
  BY <1>3, <1>4 DEF MeterOK

\* A request takes the meter first.
LEMMA MeterSubmit ==
  ASSUME TypeOK, RequestsOK, MeterOK, NEW j \in Jobs, Submit(j)
  PROVE  MeterOK'
<1>0. /\ cleaner' = cleaner /\ rows' = rows /\ meter' = meter /\ raced' = raced /\ MeterFree
      /\ tx[j].made = {}
  BY ClosedType DEF Submit, dbVars, historyVars, RequestsOK, RequestOK
<1>1. /\ tx'[j].own = meter /\ tx'[j].made = {} /\ \A i \in Jobs \ {j} : tx'[i] = tx[i]
  BY <1>0, SubmitEffect
<1>2. \A c \in Cleaners : Held(c)' = Held(c)
  BY <1>0 DEF Held
<1>3. LocksOK'
  BY <1>0, <1>1, <1>2, LocksTake DEF MeterOK
<1>4. CountOK => CountOK'
  <2>1. CountOK => meter = Cardinality(rows \cup Mine(j, {}))
    BY NoneMore DEF CountOK
  <2>2. \A i \in Jobs \ {j} : tx[i].own = NoMeter
    BY <1>0 DEF MeterFree
  <2> QED
    BY <1>0, <1>1, <1>2, <2>1, <2>2 DEF CountOK
<1> QED
  BY <1>0, <1>3, <1>4 DEF MeterOK

\* Who holds the meter makes a file.
LEMMA MeterMake ==
  ASSUME TypeOK, RequestsOK, FilesOK, BatchesOK, MeterOK, NEW j \in Jobs, NEW k \in Kinds,
         Phase(j) # "idle", k \notin tx[j].made, tx[j].own # NoMeter,
         tx'[j].own = tx[j].own + 1, tx'[j].made = tx[j].made \cup {k},
         \A i \in Jobs \ {j} : tx'[i] = tx[i],
         cleaner' = cleaner, rows' = rows, meter' = meter, raced' = raced
  PROVE  MeterOK'
<1>1. \A c \in Cleaners : Held(c)' = Held(c)
  BY DEF Held
<1>2. LocksOK'
  BY <1>1, LocksStay DEF MeterOK
<1>3. ASSUME CountOK PROVE CountOK'
  <2>1. tx'[j].own = Cardinality(rows \cup Mine(j, tx'[j].made))
    <3>1. tx[j].own = Cardinality(rows \cup Mine(j, tx[j].made))
      BY <1>3 DEF CountOK
    <3>2. tx[j].made \in SUBSET Kinds /\ <<j, k>> \notin rows
      BY TxType, AtWork
    <3> QED
      BY <3>1, <3>2, OneMore
  <2> QED
    BY ZenonT(60), <1>1, <1>3, <2>1 DEF CountOK, Mine
<1> QED
  BY <1>2, <1>3 DEF MeterOK

\* A worker takes the meter; unless another has changed it, what it writes is right.
LEMMA MeterCountStored ==
  ASSUME TypeOK, RequestsOK, FilesOK, BatchesOK, MeterOK, NEW j \in Jobs, CountStored(j)
  PROVE  MeterOK'
<1>0. /\ cleaner' = cleaner /\ rows' = rows /\ meter' = meter /\ MeterFree
      /\ raced' = (raced \/ tx[j].seen # meter) /\ Phase(j) = "metering"
  BY DEF CountStored, dbVars
<1>1. /\ tx'[j].own = tx[j].seen + 1 /\ tx'[j].made = tx[j].made
      /\ \A i \in Jobs \ {j} : tx'[i] = tx[i]
  BY CountStoredEffect
<1>2. \A c \in Cleaners : Held(c)' = Held(c)
  BY <1>0 DEF Held
<1>3. LocksOK'
  BY <1>0, <1>1, <1>2, LocksTake DEF MeterOK
<1>4. ASSUME ~raced' PROVE CountOK'
  <2>1. CountOK /\ tx[j].seen = meter
    BY <1>0, <1>4 DEF MeterOK
  <2>2. PICK k \in Kinds : tx[j].made = {k}
    BY <1>0 DEF RequestsOK, RequestOK
  <2>3. <<j, k>> \notin rows
    BY <1>0, AtWork
  <2>4. Cardinality(rows \cup Mine(j, {} \cup {k})) = Cardinality(rows \cup Mine(j, {})) + 1
    BY <2>3, OneMore
  <2>5. tx'[j].own = Cardinality(rows \cup Mine(j, tx'[j].made))
    BY <1>1, <2>1, <2>2, <2>4, NoneMore DEF CountOK
  <2>6. \A i \in Jobs \ {j} : tx[i].own = NoMeter
    BY <1>0 DEF MeterFree
  <2> QED
    BY <1>0, <1>1, <1>2, <2>1, <2>5, <2>6 DEF CountOK
<1> QED
  BY <1>3, <1>4 DEF MeterOK

\* A transaction publishes its files and the meter that counts them.
LEMMA MeterPublish ==
  ASSUME TypeOK, RequestsOK, BatchesOK, MeterOK,
         NEW j \in Jobs, CompleteFromCache(j) \/ Complete(j)
  PROVE  MeterOK'
<1>0. /\ Publish(j) /\ cleaner' = cleaner /\ raced' = raced
      /\ rows' = rows \cup Mine(j, tx[j].made) /\ meter' = tx[j].own
  BY DEF CompleteFromCache, Complete, Publish, historyVars
<1>1. tx[j].own # NoMeter
  BY PublishOwns DEF NoMeter
<1>2. tx'[j].own = NoMeter /\ \A i \in Jobs \ {j} : tx'[i] = tx[i]
  BY <1>0, CloseEffect, ClosedType DEF Publish
<1>3. \A c \in Cleaners : Held(c)' = Held(c)
  BY <1>0 DEF Held
<1>4. LocksOK'
  BY <1>0, <1>2, <1>3, LocksStay DEF MeterOK
<1>5. ASSUME CountOK PROVE CountOK'
  <2>1. \A i \in Jobs : tx'[i].own = NoMeter
    BY <1>1, <1>2 DEF MeterOK, LocksOK
  <2>2. \A c \in Cleaners : cleaner[c].phase # "committing"
    BY <1>1, <1>5 DEF MeterOK, LocksOK, BatchesOK, BatchOK
  <2>3. meter' = Cardinality(rows')
    BY <1>0, <1>1, <1>5 DEF CountOK
  <2> QED
    BY <1>0, <1>3, <1>5, <2>1, <2>2, <2>3 DEF CountOK
<1> QED
  BY <1>0, <1>4, <1>5 DEF MeterOK


\* A cleanup that neither takes nor writes the meter.
LEMMA MeterCleaner ==
  ASSUME TypeOK, MeterOK, NEW c \in Cleaners,
         \A d \in Cleaners \ {c} : cleaner'[d] = cleaner[d],
         cleaner'[c].own = NoMeter, cleaner'[c].phase \notin Holding,
         tx' = tx, rows' = rows, meter' = meter, raced' = raced
  PROVE  MeterOK'
<1>1. \A d \in Cleaners : Held(d)' \subseteq Held(d)
  BY DEF Held, Holding
<1>2. LocksOK'
  BY <1>1, LocksStay DEF MeterOK
<1>3. CountOK => CountOK'
  BY <1>1, CountStay DEF Holding
<1> QED
  BY <1>2, <1>3 DEF MeterOK

\* A cleanup locks the rows it deletes; they are still there, unless two raced.
LEMMA MeterDeleteRows ==
  ASSUME TypeOK, BatchesOK, MeterOK, NEW c \in Cleaners, DeleteRows(c)
  PROVE  MeterOK'
<1>0. /\ tx' = tx /\ rows' = rows /\ meter' = meter
      /\ raced' = (raced \/ ~(cleaner[c].batch \subseteq rows)) /\ RowsFree(cleaner[c].batch)
      /\ cleaner[c].phase = "deleting"
  BY DEF DeleteRows, dbVars
<1>1. /\ cleaner'[c].phase = "metering" /\ cleaner'[c].batch = cleaner[c].batch
      /\ cleaner'[c].own = NoMeter /\ \A d \in Cleaners \ {c} : cleaner'[d] = cleaner[d]
  BY <1>0, DeleteRowsEffect DEF BatchesOK, BatchOK
<1>2. Held(c)' = cleaner[c].batch /\ \A d \in Cleaners \ {c} : Held(d)' = Held(d)
  BY <1>1 DEF Held
<1>3. LocksOK'
  <2>1. \A a, b \in Cleaners : a # b => Held(a)' \cap Held(b)' = {}
    BY <1>0, <1>2 DEF MeterOK, LocksOK, RowsFree
  <2>2. /\ \A i, j \in Jobs : tx'[i].own # NoMeter /\ tx'[j].own # NoMeter => i = j
        /\ \A j \in Jobs, d \in Cleaners : tx'[j].own # NoMeter => cleaner'[d].own = NoMeter
        /\ \A a, b \in Cleaners :
             cleaner'[a].own # NoMeter /\ cleaner'[b].own # NoMeter => a = b
    BY <1>0, <1>1 DEF MeterOK, LocksOK
  <2> QED
    BY <2>1, <2>2 DEF LocksOK
<1>4. ASSUME ~raced' PROVE CountOK'
  <2>1. CountOK /\ cleaner[c].batch \subseteq rows
    BY <1>0, <1>4 DEF MeterOK
  <2> QED
    BY <1>0, <1>1, <1>2, <2>1 DEF CountOK, Mine
<1> QED
  BY <1>3, <1>4 DEF MeterOK

\* A cleanup takes the meter; unless another has changed it, what it writes is right.
LEMMA MeterCountDeleted ==
  ASSUME TypeOK, BatchesOK, MeterOK, NEW c \in Cleaners, CountDeleted(c)
  PROVE  MeterOK'
<1> DEFINE batch == cleaner[c].batch
<1>0. /\ tx' = tx /\ rows' = rows /\ meter' = meter /\ MeterFree
      /\ raced' = (raced \/ cleaner[c].seen # meter) /\ cleaner[c].phase = "metering"
  BY DEF CountDeleted, dbVars
<1>1. /\ cleaner'[c].phase = "committing" /\ cleaner'[c].batch = batch
      /\ cleaner'[c].own = Less(cleaner[c].seen, Cardinality(batch))
      /\ \A d \in Cleaners \ {c} : cleaner'[d] = cleaner[d]
  BY CountDeletedEffect
<1>2. Held(c) = batch /\ \A d \in Cleaners : Held(d)' = Held(d)
  BY <1>0, <1>1 DEF Held
<1>3. LocksOK'
  BY <1>0, <1>1, <1>2, LocksTake DEF MeterOK
<1> HIDE DEF batch
<1>4. ASSUME ~raced' PROVE CountOK'
  <2>1. CountOK /\ cleaner[c].seen = meter
    BY <1>0, <1>4 DEF MeterOK
  <2>2. batch \subseteq rows /\ cleaner[c].seen = Cardinality(rows)
    BY <1>2, <2>1 DEF CountOK
  <2>3. IsFiniteSet(rows)
    BY FilesFinite, FS_Subset DEF TypeOK
  <2>4. /\ Cardinality(rows) \in Nat /\ Cardinality(batch) \in Nat
        /\ Cardinality(batch) <= Cardinality(rows)
    BY <2>2, <2>3, FS_Subset, FS_CardinalityType
  <2>5. Cardinality(rows \ batch) = Cardinality(rows) - Cardinality(batch)
    <3>1. rows \cap batch = batch
      BY <2>2
    <3> QED
      BY <2>3, <3>1, FS_Difference
  <2>6. cleaner'[c].own = Cardinality(rows \ cleaner'[c].batch)
    BY <1>1, <2>2, <2>4, <2>5 DEF Less
  <2>7. \A d \in Cleaners \ {c} : cleaner'[d].phase = "committing" =>
          cleaner'[d].own = Cardinality(rows \ cleaner'[d].batch)
    BY <1>1, <2>1 DEF CountOK
  <2> QED
    BY <1>0, <1>2, <2>1, <2>6, <2>7 DEF CountOK, Mine
<1> QED
  BY <1>3, <1>4 DEF MeterOK

\* A cleanup commits the rows that are left and the meter that counts them.
LEMMA MeterCommitBatch ==
  ASSUME TypeOK, BatchesOK, MeterOK, NEW c \in Cleaners, CommitBatch(c)
  PROVE  MeterOK'
<1> DEFINE batch == cleaner[c].batch
<1>0. /\ tx' = tx /\ rows' = rows \ batch /\ meter' = cleaner[c].own /\ raced' = raced
      /\ cleaner[c].phase = "committing"
  BY DEF CommitBatch, historyVars
<1>1. /\ cleaner'[c].phase \in {"idle", "listing"} /\ cleaner'[c].own = NoMeter
      /\ \A d \in Cleaners \ {c} : cleaner'[d] = cleaner[d]
  BY CommitBatchEffect
<1>2. Held(c) = batch /\ Held(c)' = {} /\ \A d \in Cleaners \ {c} : Held(d)' = Held(d)
  BY <1>0, <1>1 DEF Held
<1>3. LocksOK'
  BY <1>0, <1>1, <1>2, LocksStay DEF MeterOK
<1>4. ASSUME CountOK PROVE CountOK'
  <2>1. cleaner[c].own # NoMeter
    BY <1>0 DEF BatchesOK, BatchOK
  <2>2. \A j \in Jobs : tx'[j].own = NoMeter
    BY <1>0, <2>1 DEF MeterOK, LocksOK
  <2>3. \A d \in Cleaners : cleaner'[d].phase # "committing"
    BY <1>1, <2>1 DEF MeterOK, LocksOK, BatchesOK, BatchOK
  <2>4. \A d \in Cleaners : Held(d)' \subseteq rows'
    <3> SUFFICES ASSUME NEW d \in Cleaners, d # c PROVE Held(d)' \subseteq rows'
      BY <1>2
    <3>1. Held(d) \cap Held(c) = {} /\ Held(d) \subseteq rows
      BY <1>4 DEF MeterOK, LocksOK, CountOK
    <3> QED
      BY <1>0, <1>2, <3>1
  <2>5. meter' = Cardinality(rows')
    BY <1>0, <1>4 DEF CountOK
  <2> QED
    BY <2>2, <2>3, <2>4, <2>5 DEF CountOK
<1> QED
  BY <1>0, <1>3, <1>4 DEF MeterOK

\* Every step keeps what is said of the meter.
LEMMA MeterNext ==
  ASSUME TypeOK, RequestsOK, FilesOK, BatchesOK, MeterOK, [Next]_vars
  PROVE  MeterOK'
<1>1. ASSUME tx' = tx, cleaner' = cleaner, rows' = rows, meter' = meter, raced' = raced
      PROVE  MeterOK'
  BY <1>1 DEF MeterOK, LocksOK, CountOK, Held, Mine
<1>2. ASSUME NEW j \in Jobs, tx' = [tx EXCEPT ![j] = Closed(j)],
             cleaner' = cleaner, rows' = rows, meter' = meter, raced' = raced
      PROVE  MeterOK'
  BY <1>2, CloseEffect, ClosedType, MeterJob
<1>3. ASSUME NEW j \in Jobs, Miss(j) PROVE MeterOK'
  BY <1>2, <1>3 DEF Miss, historyVars
<1>4. ASSUME NEW j \in Jobs, NEW i \in Jobs, Hit(j, i) PROVE MeterOK'
  <2>1. CASE tx[j].own + Cardinality(Reusable(i)) > Quota
    BY <1>2, <1>4, <2>1 DEF Hit, historyVars
  <2>2. CASE ~(tx[j].own + Cardinality(Reusable(i)) > Quota)
    BY <1>4, <2>2, HitEffect, MeterJob DEF Hit, historyVars
  <2> QED
    BY <2>1, <2>2
<1>5. ASSUME NEW j \in Jobs, NEW k \in Kinds, Copy(j, k) PROVE MeterOK'
  <2>1. tx[j].own # NoMeter /\ k \notin tx[j].made /\ Phase(j) # "idle"
    BY <1>5 DEF Copy, RequestsOK, RequestOK
  <2>2. /\ tx'[j].own = tx[j].own + 1 /\ tx'[j].made = tx[j].made \cup {k}
        /\ \A i \in Jobs \ {j} : tx'[i] = tx[i]
    BY <1>5, <2>1, CopyEffect
  <2>3. cleaner' = cleaner /\ rows' = rows /\ meter' = meter /\ raced' = raced
    BY <1>5 DEF Copy, historyVars
  <2> QED
    BY <2>1, <2>2, <2>3, MeterMake
<1>6. ASSUME NEW j \in Jobs, NEW k \in Kinds, CopyFails(j, k) PROVE MeterOK'
  BY <1>2, <1>6 DEF CopyFails, Rollback
<1>7. ASSUME NEW j \in Jobs, Start(j) PROVE MeterOK'
  <2>1. CASE meter + Cardinality(Kinds) > Quota
    BY <1>1, <1>7, <2>1 DEF Start, historyVars
  <2>2. CASE ~(meter + Cardinality(Kinds) > Quota)
    BY <1>7, <2>2, StartEffect, MeterJob DEF Start, historyVars
  <2> QED
    BY <2>1, <2>2
<1>8. ASSUME NEW j \in Jobs, NEW k \in Kinds, Store(j, k) PROVE MeterOK'
  <2>0. cleaner' = cleaner /\ rows' = rows /\ meter' = meter /\ raced' = raced
          /\ Phase(j) # "idle" /\ k \notin tx[j].made
    BY <1>8 DEF Store, Missing
  <2>1. CASE tx[j].own = NoMeter
    BY <1>8, <2>0, <2>1, StoreEffect, MeterJob
  <2>2. CASE tx[j].own # NoMeter
    BY <1>8, <2>0, <2>2, StoreEffect, MeterMake
  <2> QED
    BY <2>1, <2>2
<1>9. ASSUME NEW j \in Jobs, Fail(j) PROVE MeterOK'
  BY <1>2, <1>9 DEF Fail, Rollback
<1>10. ASSUME NEW c \in Cleaners, Begin(c) PROVE MeterOK'
  <2>1. cleaner[c].own = NoMeter
    BY <1>10 DEF Begin, BatchesOK, BatchOK
  <2> QED
    BY <1>10, <2>1, BeginEffect, MeterCleaner DEF Begin, dbVars, historyVars, Holding
<1>11. ASSUME NEW c \in Cleaners, cleaner' = [cleaner EXCEPT ![c] = Resting],
              tx' = tx, rows' = rows, meter' = meter, raced' = raced
       PROVE  MeterOK'
  BY <1>11, RestEffect, RestingType, MeterCleaner DEF Holding
<1>12. ASSUME NEW c \in Cleaners, List(c) PROVE MeterOK'
  <2>0. tx' = tx /\ rows' = rows /\ meter' = meter /\ raced' = raced
          /\ cleaner[c].phase = "listing"
    BY <1>12 DEF List, dbVars, historyVars
  <2>1. CASE cleaner' = [cleaner EXCEPT ![c] = Resting]
    BY <1>11, <2>0, <2>1
  <2>2. CASE cleaner' # [cleaner EXCEPT ![c] = Resting]
    <3>1. cleaner[c].own = NoMeter
      BY <2>0 DEF BatchesOK, BatchOK
    <3> QED
      BY <1>12, <2>0, <2>2, <3>1, ListEffect, MeterCleaner DEF Holding
  <2> QED
    BY <2>1, <2>2
<1>13. ASSUME NEW c \in Cleaners, NEW f \in Files, DeleteObject(c, f) PROVE MeterOK'
  <2>1. cleaner[c].own = NoMeter
    BY <1>13 DEF DeleteObject, BatchesOK, BatchOK
  <2> QED
    BY <1>13, <2>1, DeleteObjectEffect, MeterCleaner DEF DeleteObject, dbVars, historyVars, Holding
<1>14. ASSUME NEW c \in Cleaners, FailCleanup(c) PROVE MeterOK'
  BY <1>11, <1>14 DEF FailCleanup, dbVars, historyVars
<1>15. ASSUME NEW i \in Jobs, Invalidate(CacheKey[i]) PROVE MeterOK'
  BY <1>1, <1>15 DEF Invalidate
<1>16. CASE Tick \/ UNCHANGED vars
  BY <1>1, <1>16 DEF Tick, vars, dbVars, historyVars
<1> QED
  BY <1>3, <1>4, <1>5, <1>6, <1>7, <1>8, <1>9, <1>10, <1>12, <1>13, <1>14, <1>15, <1>16,
     MeterSubmit, MeterCountStored, MeterPublish, MeterDeleteRows, MeterCountDeleted,
     MeterCommitBatch
  DEF Next, Request, Work, Cleanup

-----------------------------------------------------------------------------
(* The theorems *)

\* Nothing is stored in the beginning.
LEMMA InvInit == Init => Inv
<1> SUFFICES ASSUME Init PROVE Inv
  OBVIOUS
<1>t. TypeOK
  BY TypeInit
<1>1. \A j \in Jobs : /\ tx[j] = Closed(j) /\ Phase(j) = "idle" /\ tx[j].made = {}
                      /\ tx[j].own = NoMeter /\ status[j] = "none" /\ origin[j] = j
  BY ClosedType DEF Init, Phase
<1>2. \A c \in Cleaners : /\ cleaner[c].phase = "idle" /\ cleaner[c].batch = {}
                          /\ cleaner[c].left = {} /\ cleaner[c].own = NoMeter
                          /\ cleaner[c].cutoff = 0
  BY <1>t, RestingType DEF Init
<1>3. rows = {} /\ objects = {} /\ now = 0 /\ invalidated = {} /\ meter = 0
  BY DEF Init
<1>4. RequestsOK
  BY <1>1 DEF RequestsOK, RequestOK, Working
<1>5. FilesOK
  BY <1>1, <1>3 DEF FilesOK, UnbackedIsExpired, NoOrphans
<1>6. BatchesOK
  BY <1>2, <1>3 DEF BatchesOK, BatchOK, Holding
<1>7. LineageOK
  BY <1>1, <1>3 DEF LineageOK, DescentOK, InvalidationHolds
<1>8. DatesOK
  BY <1>1, <1>3 DEF DatesOK, OrderOK, CopyDates, WorkDates, Working
<1>9. MeterOK
  <2>1. meter = Cardinality(rows)
    BY <1>3, FS_EmptySet
  <2>2. \A c \in Cleaners : Held(c) = {}
    BY <1>2 DEF Held
  <2> QED
    BY <1>1, <1>2, <2>1, <2>2 DEF MeterOK, LocksOK, CountOK
<1> QED
  BY <1>t, <1>4, <1>5, <1>6, <1>7, <1>8, <1>9 DEF Inv

\* Every step keeps the invariant.
LEMMA InvNext == Inv /\ [Next]_vars => Inv'
BY TypeNext, RequestsNext, FilesNext, BatchesNext, LineageNext, DatesNext, MeterNext DEF Inv

\* The inductive invariant holds for any jobs, cleanups and bounds.
THEOREM RetentionInvCorrect == Spec => []Inv
<1>1. Init => Inv
  BY InvInit
<1>2. Inv /\ [Next]_vars => Inv'
  BY InvNext
<1> QED
  BY <1>1, <1>2, PTL DEF Spec

\* The state always has the shape TypeOK describes; the meter is never negative.
THEOREM RetentionTypeCorrect == Spec => []TypeOK
<1>1. Inv => TypeOK
  BY DEF Inv
<1> QED
  BY <1>1, RetentionInvCorrect, PTL

\* What has not expired has its object (_cleanup_expired_artifacts).
THEOREM UnbackedIsExpiredCorrect == Spec => []UnbackedIsExpired
<1>1. Inv => UnbackedIsExpired
  BY DEF Inv, FilesOK
<1> QED
  BY <1>1, RetentionInvCorrect, PTL

\* Only failed transactions leave objects without rows (delete_artifacts, store_docx).
THEOREM NoOrphansCorrect == Spec => []NoOrphans
<1>1. Inv => NoOrphans
  BY DEF Inv, FilesOK
<1> QED
  BY <1>1, RetentionInvCorrect, PTL

\* An invalidated rendering does not come back (expire_for_cache_key).
THEOREM InvalidationCorrect == Spec => []InvalidationHolds
<1>1. Inv => InvalidationHolds
  BY DEF Inv, LineageOK
<1> QED
  BY <1>1, RetentionInvCorrect, PTL

\* The meter counts the rows unless two transactions raced (adjust_storage_bytes).
THEOREM MeterExactCorrect == Spec => []MeterExact
<1>1. Inv => MeterExact
  BY DEF Inv, MeterOK, CountOK, MeterExact
<1> QED
  BY <1>1, RetentionInvCorrect, PTL

\* What is given out of a job is valid as long as anything of it is
\* (get_preferred_for_job).
THEOREM ServedIsValidCorrect == Spec => []ServedIsValid
<1>1. Inv => ServedIsValid
  <2> SUFFICES ASSUME Inv, NEW j \in Jobs, NEW k \in Kinds, Live(<<j, k>>)
               PROVE  Live(<<j, Preferred(j)>>)
    BY DEF ServedIsValid
  <2>1. k = "docx" \/ k = "pdf"
    BY DEF Kinds
  <2>2. CASE <<j, "pdf">> \in rows
    <3>1. expires[<<j, "docx">>] \in Nat /\ expires[<<j, "pdf">>] \in Nat /\ now \in Nat
      BY TimesAssumption DEF Inv, TypeOK, Files, Kinds
    <3>2. <<j, "docx">> \in rows => expires[<<j, "docx">>] <= expires[<<j, "pdf">>]
      BY <2>2 DEF Inv, DatesOK, OrderOK
    <3>3. expires[<<j, "pdf">>] >= now
      BY <2>1, <3>1, <3>2 DEF Live
    <3> QED
      BY <2>2, <3>3 DEF Live, Preferred
  <2>3. CASE <<j, "pdf">> \notin rows
    BY <2>1, <2>3 DEF Live, Preferred
  <2> QED
    BY <2>2, <2>3
<1> QED
  BY <1>1, RetentionInvCorrect, PTL

\* A file is deleted when its retention is over or its rendering invalidated
\* (list_expired, delete_artifacts), by whichever cleanup.
THEOREM DeletedOnTimeCorrect == Spec => DeletedOnTime
<1> DEFINE OnTime == \A f \in rows \ rows' : Overdue(f) \/ origin[f[1]] \in invalidated
<1>1. Inv /\ [Next]_vars => [OnTime]_vars
  <2> SUFFICES ASSUME Inv, Next, NEW f \in rows, f \notin rows'
               PROVE  Overdue(f) \/ origin[f[1]] \in invalidated
    BY DEF vars, dbVars
  <2>1. PICK c \in Cleaners : f \in cleaner[c].batch
    <3>1. ASSUME NEW j \in Jobs, Publish(j)  PROVE  FALSE
      BY <3>1 DEF Publish
    <3>2. ASSUME NEW j \in Jobs, Request(j)  PROVE  FALSE
      <4>1. CASE Submit(j)
        BY <4>1 DEF Submit, dbVars
      <4>2. CASE Miss(j)
        BY <4>2 DEF Miss
      <4>3. CASE \E i \in Jobs : Hit(j, i)
        BY <4>3 DEF Hit
      <4>4. CASE \E k \in Kinds : Copy(j, k) \/ CopyFails(j, k)
        BY <4>4 DEF Copy, CopyFails
      <4>5. CASE CompleteFromCache(j)
        BY <3>1, <4>5 DEF CompleteFromCache
      <4> QED
        BY <3>2, <4>1, <4>2, <4>3, <4>4, <4>5 DEF Request
    <3>3. ASSUME NEW j \in Jobs, Work(j)  PROVE  FALSE
      <4>1. CASE Start(j)
        BY <4>1 DEF Start
      <4>2. CASE \E k \in Kinds : Store(j, k)
        BY <4>2 DEF Store
      <4>3. CASE CountStored(j)
        BY <4>3 DEF CountStored, dbVars
      <4>4. CASE Complete(j)
        BY <3>1, <4>4 DEF Complete
      <4> QED
        BY <3>3, <4>1, <4>2, <4>3, <4>4 DEF Work
    <3>4. ASSUME NEW j \in Jobs, Fail(j)  PROVE  FALSE
      BY <3>4 DEF Fail
    <3>5. ASSUME NEW j \in Jobs, Invalidate(CacheKey[j])  PROVE  FALSE
      BY <3>5 DEF Invalidate
    <3>6. ~Tick
      BY DEF Tick, dbVars
    <3>7. PICK c \in Cleaners : Cleanup(c) \/ FailCleanup(c)
      BY <3>2, <3>3, <3>4, <3>5, <3>6 DEF Next
    <3>8. CommitBatch(c)
      <4>1. ~FailCleanup(c)
        BY DEF FailCleanup, dbVars
      <4>2. ~Begin(c) /\ ~List(c) /\ ~DeleteRows(c) /\ ~CountDeleted(c)
        BY DEF Begin, List, DeleteRows, CountDeleted, dbVars
      <4>3. ~\E g \in Files : DeleteObject(c, g)
        BY DEF DeleteObject, dbVars
      <4> QED
        BY <3>7, <4>1, <4>2, <4>3 DEF Cleanup
    <3> QED
      BY <3>8 DEF CommitBatch
  <2>2. expires[f] < now
    BY <2>1 DEF Inv, BatchesOK, BatchOK
  <2>3. RowDate(f)
    BY DEF Inv, DatesOK
  <2> QED
    BY <2>2, <2>3 DEF RowDate, Due, Overdue
<1>2. Inv /\ [Next]_vars => Inv'
  BY InvNext
<1> QED
  BY <1>1, RetentionInvCorrect, PTL DEF Spec, DeletedOnTime

=============================================================================
