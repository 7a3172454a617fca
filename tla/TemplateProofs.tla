--------------------------- MODULE TemplateProofs ---------------------------
(***************************************************************************)
(* Proofs about TemplateVersions for any users, names, files and bounds.   *)
(***************************************************************************)
EXTENDS TemplateVersions, TLAPS

-----------------------------------------------------------------------------
(* Types *)

\* The constants of an idle request have the shape of a request.
LEMMA ClosedType == Closed \in Transactions
<1>1. (CHOOSE v \in Versions : TRUE) \in Versions
  BY NamesAssumption
<1>2. \E k \in Keys : TRUE
  <2>1. PICK v \in Versions, f \in Files : TRUE
    BY NamesAssumption
  <2>2. <<v, f>> \in Keys
    BY <2>1 DEF Keys
  <2> QED
    BY <2>2
<1>3. (CHOOSE k \in Keys : TRUE) \in Keys
  BY <1>2
<1>4. Foreign \in Contents
  BY BoundsAssumption DEF Foreign, Contents
<1> QED
  BY <1>1, <1>3, <1>4 DEF Closed, Transactions, Phases

\* What remains of an aborted request has the shape of a request.
LEMMA AbortType ==
  ASSUME TypeOK, NEW u \in Users, Abort(u)
  PROVE  tx' \in [Users -> Transactions]
<1>1. tx[u] \in Transactions
  BY DEF TypeOK
<1>2. [Closed EXCEPT !.phase = "undoing", !.key = tx[u].key] \in Transactions
  BY <1>1, ClosedType DEF Transactions, Phases
<1> QED
  BY <1>2, ClosedType DEF Abort, TypeOK

\* The initial state has the shape TypeOK describes.
LEMMA TypeInit == Init => TypeOK
<1> SUFFICES ASSUME Init PROVE TypeOK
  OBVIOUS
<1>1. Foreign \in Contents
  BY BoundsAssumption DEF Foreign, Contents
<1>2. tx \in [Users -> Transactions]
  BY ClosedType DEF Init
<1>3. objects \in [Keys -> Contents \cup {NoObject}]
  BY <1>1 DEF Init
<1>4. requests \in 0..MaxRequests /\ failures \in 0..MaxFailures /\ crashes \in 0..MaxCrashes
  BY BoundsAssumption DEF Init
<1>5. template \in BOOLEAN /\ rows \subseteq Rows /\ latest \in SUBSET Versions /\ litter \subseteq Keys
  BY DEF Init
<1> QED
  BY <1>2, <1>3, <1>4, <1>5 DEF TypeOK

\* Every step keeps the shape of the state.
LEMMA TypeNext == TypeOK /\ [Next]_vars => TypeOK'
<1> SUFFICES ASSUME TypeOK, [Next]_vars PROVE TypeOK'
  OBVIOUS
<1> USE DEF TypeOK, storeVars, boundVars
<1>1. ASSUME NEW u \in Users, NEW v \in Versions, NEW f \in Files, Upload(u, v, f) PROVE TypeOK'
  <2> DEFINE t == [Closed EXCEPT !.phase = "resolving", !.version = v, !.key = <<v, f>>,
                                 !.content = requests + 1]
  <2>1. requests + 1 \in Contents /\ requests' \in 0..MaxRequests /\ <<v, f>> \in Keys
    BY <1>1, BoundsAssumption DEF Upload, Contents, Foreign, Keys
  <2>2. t \in Transactions
    BY <2>1, ClosedType DEF Transactions, Phases
  <2> QED
    BY <1>1, <2>1, <2>2 DEF Upload
<1>2. ASSUME NEW u \in Users, NEW v \in Versions, NEW k \in Keys, Register(u, v, k) PROVE TypeOK'
  <2> DEFINE t == [Closed EXCEPT !.phase = "resolving", !.version = v, !.key = k,
                                 !.content = objects[k]]
  <2>1. objects[k] \in Contents /\ requests' \in 0..MaxRequests
    BY <1>2, BoundsAssumption DEF Register, Contents, Foreign
  <2>2. t \in Transactions
    BY <2>1, ClosedType DEF Transactions, Phases
  <2> QED
    BY <1>2, <2>1, <2>2 DEF Register
<1>3. ASSUME NEW u \in Users, Resolve(u) PROVE TypeOK'
  BY <1>3 DEF Resolve, Become, Transactions, Phases
<1>4. ASSUME NEW u \in Users, CreateTemplate(u) PROVE TypeOK'
  BY <1>4, AbortType DEF CreateTemplate, Transactions, Phases
<1>5. ASSUME NEW u \in Users, Check(u) PROVE TypeOK'
  BY <1>5, AbortType DEF Check, Become, Transactions, Phases
<1>6. ASSUME NEW u \in Users, Put(u) PROVE TypeOK'
  <2> DEFINE t == [tx[u] EXCEPT !.phase = "stored", !.put = TRUE]
  <2>1. tx[u].key \in Keys /\ tx[u].content \in Contents
    BY DEF Transactions
  <2>2. t \in Transactions
    BY DEF Transactions, Phases
  <2>3. tx' = [tx EXCEPT ![u] = t]
    BY <1>6 DEF Put
  <2>4. tx' \in [Users -> Transactions]
    BY <2>2, <2>3
  <2>5. objects' \in [Keys -> Contents \cup {NoObject}]
    BY <1>6, <2>1 DEF Put
  <2> QED
    BY <1>6, <2>4, <2>5 DEF Put
<1>7. ASSUME NEW u \in Users, StartClear(u) PROVE TypeOK'
  <2>1. Named(rows) \subseteq Versions
    BY DEF Named, Rows
  <2> DEFINE t == [tx[u] EXCEPT !.phase = "clearing", !.seen = Named(rows)]
  <2>2. t \in Transactions
    BY <2>1 DEF Transactions, Phases
  <2>3. tx' = [tx EXCEPT ![u] = t]
    BY <1>7 DEF StartClear
  <2>4. tx' \in [Users -> Transactions]
    BY <2>2, <2>3
  <2> QED
    BY <1>7, <2>4 DEF StartClear
<1>8. ASSUME NEW u \in Users, Clear(u) PROVE TypeOK'
  <2> DEFINE t == [tx[u] EXCEPT !.phase = "inserting", !.cleared = tx[u].seen]
  <2>1. t \in Transactions
    BY DEF Transactions, Phases
  <2>2. tx' = [tx EXCEPT ![u] = t]
    BY <1>8 DEF Clear
  <2>3. tx' \in [Users -> Transactions]
    BY <2>1, <2>2
  <2> QED
    BY <1>8, <2>3 DEF Clear
<1>9. ASSUME NEW u \in Users, Insert(u) PROVE TypeOK'
  BY <1>9, AbortType DEF Insert, Transactions, Phases
<1>10. ASSUME NEW u \in Users, Commit(u) PROVE TypeOK'
  <2>1. NewRow(u) \in Rows /\ {tx[u].version} \in SUBSET Versions
    BY DEF NewRow, Rows, Transactions
  <2>2. ASSUME NEW r \in rows
        PROVE  [r EXCEPT !.current = @ /\ r.version \notin tx[u].cleared] \in Rows
    BY DEF Rows
  <2>3. rows' \subseteq Rows
    BY <1>10, <2>1, <2>2 DEF Commit
  <2>4. tx' \in [Users -> Transactions]
    BY <1>10, ClosedType DEF Commit
  <2> QED
    BY <1>10, <2>1, <2>3, <2>4 DEF Commit
<1>11. ASSUME NEW u \in Users, Fail(u) PROVE TypeOK'
  BY <1>11, AbortType, BoundsAssumption DEF Fail
<1>12. ASSUME NEW u \in Users, Undo(u) PROVE TypeOK'
  BY <1>12, ClosedType DEF Undo
<1>13. ASSUME NEW u \in Users, Crash(u) PROVE TypeOK'
  <2>1. tx' \in [Users -> Transactions]
    BY <1>13, ClosedType DEF Crash
  <2>2. tx[u].key \in Keys
    BY DEF Transactions
  <2> QED
    BY <1>13, <2>1, <2>2, BoundsAssumption DEF Crash
<1>14. CASE UNCHANGED vars
  BY <1>14 DEF vars
<1> QED
  BY <1>1, <1>2, <1>3, <1>4, <1>5, <1>6, <1>7, <1>8, <1>9, <1>10, <1>11, <1>12, <1>13, <1>14
  DEF Next

\* The state keeps its shape in every behaviour.
THEOREM TemplateTypeCorrect == Spec => []TypeOK
BY TypeInit, TypeNext, PTL DEF Spec

-----------------------------------------------------------------------------
(* One row of a version, and the last one current *)

\* Only a request that is about to commit has inserted its row, and its version
\* is neither committed nor inserted by another request.
UploadInv(u) ==
  /\ tx[u].inserted <=> Phase(u) = "committing"
  /\ tx[u].inserted => tx[u].version \notin Named(rows)
  /\ \A w \in Others(u) : tx[u].inserted /\ tx[w].inserted => tx[u].version # tx[w].version

VersionInv ==
  /\ TypeOK
  /\ OneRowPerVersion
  /\ LatestIsCurrent
  /\ \A u \in Users : UploadInv(u)

\* Without versions and requests nothing is to be shown.
LEMMA VersionInit == Init => VersionInv
BY TypeInit DEF Init, VersionInv, OneRowPerVersion, LatestIsCurrent, UploadInv, Closed, Phase

\* A step of a request that has no row afterwards, and commits none.
LEMMA VersionFrame ==
  ASSUME VersionInv, TypeOK', NEW u \in Users, rows' = rows, latest' = latest,
         \A w \in Others(u) : tx'[w] = tx[w],
         ~tx'[u].inserted, tx'[u].phase # "committing"
  PROVE  VersionInv'
<1>1. OneRowPerVersion' /\ LatestIsCurrent'
  BY DEF VersionInv, OneRowPerVersion, LatestIsCurrent
<1>2. ASSUME NEW w \in Users PROVE UploadInv(w)'
  BY DEF VersionInv, UploadInv, Phase, Named, Others
<1> QED
  BY <1>1, <1>2 DEF VersionInv

\* An aborted request has no row.
LEMMA AbortShape ==
  ASSUME TypeOK, NEW u \in Users, Abort(u)
  PROVE  /\ \A w \in Others(u) : tx'[w] = tx[w]
         /\ ~tx'[u].inserted /\ ~tx'[u].put
         /\ tx'[u].phase = IF tx[u].put THEN "undoing" ELSE "idle"
         /\ tx[u].put => tx'[u].key = tx[u].key
BY DEF Abort, TypeOK, Closed, Others

\* The flags change, the version names stay.
LEMMA CommitRows ==
  ASSUME TypeOK, NEW u \in Users, Commit(u), NEW r \in rows'
  PROVE  \/ r = NewRow(u)
         \/ \E s \in rows : /\ r.version = s.version /\ r.key = s.key /\ r.content = s.content
                            /\ r = [s EXCEPT !.current = @ /\ s.version \notin tx[u].cleared]
BY DEF Commit, TypeOK, Rows

\* Every step keeps the version invariant.
LEMMA VersionNext == VersionInv /\ [Next]_vars => VersionInv'
<1> SUFFICES ASSUME VersionInv, [Next]_vars PROVE VersionInv'
  OBVIOUS
<1>0. TypeOK /\ TypeOK'
  BY TypeNext DEF VersionInv
<1>u. \A u \in Users : UploadInv(u) /\ tx[u] \in Transactions
  BY <1>0 DEF VersionInv, TypeOK
<1> USE DEF storeVars, boundVars
<1>1. ASSUME NEW u \in Users, NEW v \in Versions, NEW f \in Files, Upload(u, v, f) PROVE VersionInv'
  <2>1. tx'[u].phase = "resolving" /\ ~tx'[u].inserted /\ \A w \in Others(u) : tx'[w] = tx[w]
    BY <1>0, <1>1 DEF Upload, Closed, Others, TypeOK
  <2> QED
    BY <1>0, <1>1, <2>1, VersionFrame DEF Upload
<1>2. ASSUME NEW u \in Users, NEW v \in Versions, NEW k \in Keys, Register(u, v, k) PROVE VersionInv'
  <2>1. tx'[u].phase = "resolving" /\ ~tx'[u].inserted /\ \A w \in Others(u) : tx'[w] = tx[w]
    BY <1>0, <1>2 DEF Register, Closed, Others, TypeOK
  <2> QED
    BY <1>0, <1>2, <2>1, VersionFrame DEF Register
<1>3. ASSUME NEW u \in Users, Resolve(u) PROVE VersionInv'
  <2>1. tx'[u].phase # "committing" /\ ~tx'[u].inserted /\ \A w \in Others(u) : tx'[w] = tx[w]
    BY <1>0, <1>3, <1>u DEF Resolve, Become, UploadInv, Phase, Others, TypeOK
  <2> QED
    BY <1>0, <1>3, <2>1, VersionFrame DEF Resolve
<1>4. ASSUME NEW u \in Users, CreateTemplate(u) PROVE VersionInv'
  <2>1. tx'[u].phase # "committing" /\ ~tx'[u].inserted /\ \A w \in Others(u) : tx'[w] = tx[w]
    <3>1. CASE template
      BY <1>0, <1>4, <3>1, AbortShape DEF CreateTemplate
    <3>2. CASE ~template
      <4>1. Phase(u) = "creating"
            /\ tx' = [tx EXCEPT ![u].phase = "checking", ![u].created = TRUE]
        BY <1>4, <3>2 DEF CreateTemplate
      <4> QED
        BY <1>0, <1>u, <4>1 DEF UploadInv, Phase, Others, TypeOK, Transactions
    <3> QED
      BY <3>1, <3>2
  <2> QED
    BY <1>0, <1>4, <2>1, VersionFrame DEF CreateTemplate
<1>5. ASSUME NEW u \in Users, Check(u) PROVE VersionInv'
  <2>1. tx'[u].phase # "committing" /\ ~tx'[u].inserted /\ \A w \in Others(u) : tx'[w] = tx[w]
    <3>1. CASE tx[u].version \in Named(rows)
      BY <1>0, <1>5, <3>1, AbortShape DEF Check
    <3>2. CASE tx[u].version \notin Named(rows)
      <4>1. /\ Phase(u) = "checking"
            /\ \E p \in {"stored", "uploading"} : tx' = [tx EXCEPT ![u].phase = p]
        BY <1>5, <3>2 DEF Check, Become
      <4> QED
        BY <1>0, <1>u, <4>1 DEF UploadInv, Phase, Others, TypeOK, Transactions
    <3> QED
      BY <3>1, <3>2
  <2> QED
    BY <1>0, <1>5, <2>1, VersionFrame DEF Check
<1>6. ASSUME NEW u \in Users, Put(u) PROVE VersionInv'
  <2>1. tx'[u].phase # "committing" /\ ~tx'[u].inserted /\ \A w \in Others(u) : tx'[w] = tx[w]
    BY <1>0, <1>6, <1>u DEF Put, UploadInv, Phase, Others, TypeOK
  <2> QED
    BY <1>0, <1>6, <2>1, VersionFrame DEF Put
<1>7. ASSUME NEW u \in Users, StartClear(u) PROVE VersionInv'
  <2>1. tx'[u].phase # "committing" /\ ~tx'[u].inserted /\ \A w \in Others(u) : tx'[w] = tx[w]
    BY <1>0, <1>7, <1>u DEF StartClear, UploadInv, Phase, Others, TypeOK
  <2> QED
    BY <1>0, <1>7, <2>1, VersionFrame DEF StartClear
<1>8. ASSUME NEW u \in Users, Clear(u) PROVE VersionInv'
  <2>1. tx'[u].phase # "committing" /\ ~tx'[u].inserted /\ \A w \in Others(u) : tx'[w] = tx[w]
    BY <1>0, <1>8, <1>u DEF Clear, UploadInv, Phase, Others, TypeOK
  <2> QED
    BY <1>0, <1>8, <2>1, VersionFrame DEF Clear
<1>9. ASSUME NEW u \in Users, Insert(u) PROVE VersionInv'
  <2>1. CASE tx[u].version \in Named(rows)
    <3>1. tx'[u].phase # "committing" /\ ~tx'[u].inserted /\ \A w \in Others(u) : tx'[w] = tx[w]
      BY <1>0, <1>9, <2>1, AbortShape DEF Insert
    <3> QED
      BY <1>0, <1>9, <3>1, VersionFrame DEF Insert
  <2>2. CASE tx[u].version \notin Named(rows)
    <3>1. /\ tx'[u].phase = "committing" /\ tx'[u].inserted /\ tx'[u].version = tx[u].version
          /\ \A w \in Others(u) : tx'[w] = tx[w]
      BY <1>0, <1>9, <2>2 DEF Insert, Others, TypeOK, Transactions
    <3>2. rows' = rows /\ latest' = latest
      BY <1>9 DEF Insert
    <3>3. \A w \in Others(u) : tx[w].inserted => tx[w].version # tx[u].version
      BY <1>9 DEF Insert
    <3>4. ASSUME NEW w \in Users PROVE UploadInv(w)'
      BY <1>u, <2>2, <3>1, <3>2, <3>3 DEF UploadInv, Phase, Named, Others
    <3>5. OneRowPerVersion' /\ LatestIsCurrent'
      BY <3>2 DEF VersionInv, OneRowPerVersion, LatestIsCurrent
    <3> QED
      BY <1>0, <3>4, <3>5 DEF VersionInv
  <2> QED
    BY <2>1, <2>2
<1>10. ASSUME NEW u \in Users, Commit(u) PROVE VersionInv'
  <2>1. tx[u].inserted /\ tx[u].version \notin Named(rows)
    BY <1>10, <1>u DEF Commit, UploadInv
  <2>2. NewRow(u).version = tx[u].version /\ NewRow(u).current
    BY DEF NewRow
  <2>3. OneRowPerVersion'
    <3>1. SUFFICES ASSUME NEW r \in rows', NEW s \in rows', r.version = s.version PROVE r = s
      BY DEF OneRowPerVersion
    <3>2. \A q \in rows : q.version # tx[u].version
      BY <2>1 DEF Named
    <3> QED
      BY <1>0, <1>10, <2>2, <3>1, <3>2, CommitRows DEF VersionInv, OneRowPerVersion
  <2>4. LatestIsCurrent'
    <3>1. latest' = {tx[u].version}
      BY <1>10 DEF Commit
    <3>2. ASSUME NEW r \in rows', r.version \in latest' PROVE r.current
      <4>1. r = NewRow(u)
        BY <1>0, <1>10, <2>1, <3>1, <3>2, CommitRows DEF Named
      <4> QED
        BY <4>1, <2>2
    <3> QED
      BY <3>1, <3>2 DEF LatestIsCurrent
  <2>5. tx'[u] = Closed /\ \A w \in Others(u) : tx'[w] = tx[w]
    BY <1>0, <1>10 DEF Commit, Others, TypeOK
  <2>6. \A x : x \in Named(rows') => x = tx[u].version \/ x \in Named(rows)
    <3> SUFFICES ASSUME NEW r \in rows' PROVE r.version = tx[u].version \/ r.version \in Named(rows)
      BY DEF Named
    <3> QED
      BY <1>0, <1>10, <2>2, CommitRows DEF Named
  <2>7. ASSUME NEW w \in Users PROVE UploadInv(w)'
    BY <1>u, <2>1, <2>5, <2>6 DEF UploadInv, Phase, Others, Closed, Named
  <2> QED
    BY <1>0, <2>3, <2>4, <2>7 DEF VersionInv
<1>11. ASSUME NEW u \in Users, Fail(u) PROVE VersionInv'
  BY <1>0, <1>11, AbortShape, VersionFrame DEF Fail
<1>12. ASSUME NEW u \in Users, Undo(u) PROVE VersionInv'
  <2>1. tx'[u].phase # "committing" /\ ~tx'[u].inserted /\ \A w \in Others(u) : tx'[w] = tx[w]
    BY <1>0, <1>12 DEF Undo, Closed, Others, TypeOK
  <2> QED
    BY <1>0, <1>12, <2>1, VersionFrame DEF Undo
<1>13. ASSUME NEW u \in Users, Crash(u) PROVE VersionInv'
  <2>1. tx'[u].phase # "committing" /\ ~tx'[u].inserted /\ \A w \in Others(u) : tx'[w] = tx[w]
    BY <1>0, <1>13 DEF Crash, Closed, Others, TypeOK
  <2> QED
    BY <1>0, <1>13, <2>1, VersionFrame DEF Crash
<1>14. CASE UNCHANGED vars
  <2>1. UNCHANGED <<rows, latest, tx>>
    BY <1>14 DEF vars
  <2>2. ASSUME NEW w \in Users PROVE UploadInv(w)'
    BY <1>u, <2>1 DEF UploadInv, Phase, Named, Others
  <2> QED
    BY <1>0, <2>1, <2>2 DEF VersionInv, OneRowPerVersion, LatestIsCurrent
<1> QED
  BY <1>1, <1>2, <1>3, <1>4, <1>5, <1>6, <1>7, <1>8, <1>9, <1>10, <1>11, <1>12, <1>13, <1>14
  DEF Next

\* Nobody inserts a version that is committed or inserted.
THEOREM VersionInvCorrect == Spec => []VersionInv
BY VersionInit, VersionNext, PTL DEF Spec

\* A version name is used once, whoever uploads or registers it at the same time.
THEOREM OneRowCorrect == Spec => []OneRowPerVersion
BY VersionInvCorrect, PTL DEF VersionInv

\* The version committed last stays current, whatever other requests saw.
THEOREM LatestCorrect == Spec => []LatestIsCurrent
BY VersionInvCorrect, PTL DEF VersionInv

-----------------------------------------------------------------------------
(* The file of a version, when nobody else asks for its name *)

Writing == {"uploading", "stored", "clearing", "inserting", "committing"}

\* A request keeps to its names; the key of an upload carries the name of its
\* version.  If nobody else asks for that name, it is free from the check on,
\* and the object is the file the upload brought.
NameInv(u) ==
  /\ Phase(u) \notin {"idle", "undoing"} => tx[u].version \in MayUse[u]
  /\ Phase(u) # "idle" /\ u \notin Registering => tx[u].key[1] \in MayUse[u]
  /\ Phase(u) \notin {"idle", "undoing"} /\ u \notin Registering =>
       tx[u].key[1] = tx[u].version
  /\ Phase(u) \in {"uploading", "undoing"} => u \notin Registering
  /\ tx[u].put => Phase(u) \in Writing \ {"uploading"} /\ u \notin Registering

ObjectInv(u) ==
  u \notin Registering /\ Owned(tx[u].key[1]) =>
    /\ Phase(u) \in Writing \cup {"undoing"} => tx[u].key[1] \notin Named(rows)
    /\ Phase(u) \in Writing \ {"uploading"} => objects[tx[u].key] = tx[u].content

SourceInv(u) == NameInv(u) /\ ObjectInv(u)

RowInv ==
  \A r \in rows :
    Owned(r.version) => r.key[1] = r.version /\ objects[r.key] = r.content

SourcesInv ==
  /\ TypeOK
  /\ RowInv
  /\ \A u \in Users : SourceInv(u)

\* Without versions and requests nothing is to be shown.
LEMMA SourcesInit == Init => SourcesInv
BY TypeInit
DEF Init, SourcesInv, RowInv, SourceInv, NameInv, ObjectInv, Closed, Phase, Writing

\* A step of a request that leaves rows and objects alone.
LEMMA SourcesFrame ==
  ASSUME SourcesInv, TypeOK', NEW u \in Users, rows' = rows, objects' = objects,
         \A w \in Others(u) : tx'[w] = tx[w], NameInv(u)', ObjectInv(u)'
  PROVE  SourcesInv'
<1>1. RowInv'
  BY DEF SourcesInv, RowInv, Owned, Others
<1>2. ASSUME NEW w \in Others(u) PROVE NameInv(w)' /\ ObjectInv(w)'
  <2>1. NameInv(w) /\ ObjectInv(w) /\ tx'[w] = tx[w]
    BY DEF SourcesInv, SourceInv, Others
  <2> QED
    BY <2>1 DEF NameInv, ObjectInv, Phase, Named, Owned, Others
<1> QED
  BY <1>1, <1>2 DEF SourcesInv, SourceInv, Others

\* A request that goes on to a later phase keeps its names.
LEMMA SourcesAdvance ==
  ASSUME SourcesInv, TypeOK', NEW u \in Users, rows' = rows, objects' = objects,
         \A w \in Others(u) : tx'[w] = tx[w], Phase(u) \notin {"idle", "undoing"},
         tx'[u].version = tx[u].version, tx'[u].key = tx[u].key,
         tx'[u].content = tx[u].content, tx'[u].put = tx[u].put,
         \/ /\ Phase(u) \in Writing \ {"uploading"}
            /\ tx'[u].phase \in Writing \ {"uploading"}
         \/ /\ Phase(u) \notin Writing
            /\ \/ tx'[u].phase \in {"creating", "checking"}
               \/ /\ tx[u].version \notin Named(rows)
                  /\ tx'[u].phase = IF u \in Registering THEN "stored" ELSE "uploading"
  PROVE  SourcesInv'
<1>1. NameInv(u) /\ ObjectInv(u)
  BY DEF SourcesInv, SourceInv
<1>2. tx'[u].phase \notin {"idle", "undoing"}
  BY DEF Writing
<1>3. tx'[u].put => tx'[u].phase \in Writing \ {"uploading"} /\ u \notin Registering
  BY <1>1 DEF NameInv
<1>4. tx'[u].phase \in {"uploading", "undoing"} => u \notin Registering
  BY <1>2 DEF Writing
<1>5. NameInv(u)'
  BY <1>1, <1>2, <1>3, <1>4 DEF NameInv, Phase
<1>6. ASSUME u \notin Registering, Owned(tx[u].key[1])
      PROVE  /\ tx'[u].phase \in Writing \cup {"undoing"} => tx[u].key[1] \notin Named(rows)
             /\ tx'[u].phase \in Writing \ {"uploading"} => objects[tx[u].key] = tx[u].content
  BY <1>1, <1>2, <1>6 DEF NameInv, ObjectInv, Writing
<1>7. ObjectInv(u)'
  BY <1>6 DEF ObjectInv, Phase, Named, Owned, Others
<1> QED
  BY <1>5, <1>7, SourcesFrame

\* A request that ends, its object left or yet to be deleted.
LEMMA SourcesAbort ==
  ASSUME SourcesInv, TypeOK', NEW u \in Users, Abort(u), rows' = rows, objects' = objects,
         Phase(u) \notin {"idle", "undoing"}
  PROVE  SourcesInv'
<1>1. TypeOK /\ NameInv(u) /\ ObjectInv(u)
  BY DEF SourcesInv, SourceInv
<1>2. /\ ~tx'[u].put
      /\ tx'[u].phase = IF tx[u].put THEN "undoing" ELSE "idle"
      /\ tx[u].put => tx'[u].key = tx[u].key
      /\ \A w \in Others(u) : tx'[w] = tx[w]
  BY <1>1, AbortShape
<1>3. NameInv(u)'
  BY <1>1, <1>2 DEF NameInv, Phase
<1>4. ObjectInv(u)'
  BY <1>1, <1>2 DEF NameInv, ObjectInv, Phase, Named, Writing, Owned, Others
<1> QED
  BY <1>2, <1>3, <1>4, SourcesFrame

\* The name an upload asks for, when nobody else does, is not in the key of
\* another upload and is not the version of another request.
LEMMA NamesApart ==
  ASSUME SourcesInv, NEW u \in Users, NEW w \in Others(u), w \notin Registering,
         Phase(w) # "idle", Owned(tx[w].key[1])
  PROVE  /\ Phase(u) # "idle" /\ u \notin Registering => tx[u].key[1] # tx[w].key[1]
         /\ Phase(u) \notin {"idle", "undoing"} => tx[u].version # tx[w].key[1]
BY DEF Owned, SourcesInv, SourceInv, NameInv, Others

\* An upload that writes or deletes the object under its key disturbs no version
\* and no other upload whose name is its own.
LEMMA SourcesWrite ==
  ASSUME SourcesInv, TypeOK', NEW u \in Users, NEW c, rows' = rows,
         Phase(u) \in {"uploading", "undoing"}, objects' = [objects EXCEPT ![tx[u].key] = c],
         \A w \in Others(u) : tx'[w] = tx[w], NameInv(u)', ObjectInv(u)'
  PROVE  SourcesInv'
<1>1. NameInv(u) /\ ObjectInv(u) /\ TypeOK
  BY DEF SourcesInv, SourceInv
<1>2. u \notin Registering
  BY <1>1 DEF NameInv
<1>3. ASSUME NEW r \in rows, Owned(r.version)
      PROVE  r.key[1] = r.version /\ objects'[r.key] = r.content
  <2>1. r.key \in Keys /\ r.key[1] = r.version /\ objects[r.key] = r.content
    BY <1>1, <1>3 DEF SourcesInv, RowInv, TypeOK, Rows
  <2>2. r.version \in Named(rows)
    BY DEF Named
  <2>3. r.key # tx[u].key
    BY <1>1, <1>2, <1>3, <2>1, <2>2 DEF ObjectInv, Writing
  <2> QED
    BY <1>1, <2>1, <2>3 DEF TypeOK
<1>4. RowInv'
  BY <1>3 DEF RowInv, Owned, Others
<1>5. ASSUME NEW w \in Others(u) PROVE NameInv(w)' /\ ObjectInv(w)'
  <2>1. NameInv(w) /\ ObjectInv(w) /\ tx[w].key \in Keys /\ tx'[w] = tx[w]
    BY <1>1 DEF SourcesInv, SourceInv, Others, TypeOK, Transactions
  <2>2. ASSUME w \notin Registering, Owned(tx[w].key[1]), Phase(w) # "idle"
        PROVE  objects'[tx[w].key] = objects[tx[w].key]
    <3>1. tx[w].key # tx[u].key
      BY <1>2, <2>2, NamesApart
    <3> QED
      BY <1>1, <2>1, <3>1 DEF TypeOK
  <2>3. NameInv(w)'
    BY <2>1 DEF NameInv, Phase
  <2>4. ObjectInv(w)'
    BY <2>1, <2>2 DEF ObjectInv, Phase, Named, Owned, Others, Writing
  <2> QED
    BY <2>3, <2>4
<1> QED
  BY <1>4, <1>5 DEF SourcesInv, SourceInv, Others

\* Every step keeps it.
LEMMA SourcesNext == SourcesInv /\ [Next]_vars => SourcesInv'
<1> SUFFICES ASSUME SourcesInv, [Next]_vars PROVE SourcesInv'
  OBVIOUS
<1>0. TypeOK /\ TypeOK'
  BY TypeNext DEF SourcesInv
<1>u. \A u \in Users : NameInv(u) /\ ObjectInv(u) /\ tx[u] \in Transactions
  BY <1>0 DEF SourcesInv, SourceInv, TypeOK
<1> USE DEF storeVars, boundVars
<1>1. ASSUME NEW u \in Users, NEW v \in Versions, NEW f \in Files, Upload(u, v, f) PROVE SourcesInv'
  <2>1. /\ tx'[u].phase = "resolving" /\ tx'[u].key = <<v, f>> /\ tx'[u].version = v
        /\ ~tx'[u].put /\ \A w \in Others(u) : tx'[w] = tx[w]
    BY <1>0, <1>1 DEF Upload, Closed, Others, TypeOK
  <2>2. NameInv(u)' /\ ObjectInv(u)'
    BY <1>1, <2>1 DEF Upload, NameInv, ObjectInv, Phase, Writing
  <2> QED
    BY <1>0, <1>1, <2>1, <2>2, SourcesFrame DEF Upload
<1>2. ASSUME NEW u \in Users, NEW v \in Versions, NEW k \in Keys, Register(u, v, k) PROVE SourcesInv'
  <2>1. /\ tx'[u].phase = "resolving" /\ tx'[u].version = v
        /\ ~tx'[u].put /\ \A w \in Others(u) : tx'[w] = tx[w]
    BY <1>0, <1>2 DEF Register, Closed, Others, TypeOK
  <2>2. NameInv(u)' /\ ObjectInv(u)'
    BY <1>2, <2>1 DEF Register, NameInv, ObjectInv, Phase, Writing
  <2> QED
    BY <1>0, <1>2, <2>1, <2>2, SourcesFrame DEF Register
<1>3. ASSUME NEW u \in Users, Resolve(u) PROVE SourcesInv'
  <2>1. \E p \in {"checking", "creating"} : tx' = [tx EXCEPT ![u].phase = p]
    BY <1>3 DEF Resolve, Become
  <2>2. Phase(u) = "resolving" /\ rows' = rows /\ objects' = objects
    BY <1>3 DEF Resolve
  <2>3. /\ \A w \in Others(u) : tx'[w] = tx[w]
        /\ tx'[u].phase \in {"checking", "creating"}
        /\ tx'[u].version = tx[u].version /\ tx'[u].key = tx[u].key
        /\ tx'[u].content = tx[u].content /\ tx'[u].put = tx[u].put
    BY <1>0, <1>u, <2>1 DEF Others, TypeOK, Transactions
  <2> QED
    BY <1>0, <2>2, <2>3, SourcesAdvance DEF Writing
<1>4. ASSUME NEW u \in Users, CreateTemplate(u) PROVE SourcesInv'
  <2>1. Phase(u) = "creating" /\ rows' = rows /\ objects' = objects
    BY <1>4 DEF CreateTemplate
  <2>2. CASE template
    BY <1>0, <1>4, <2>1, <2>2, SourcesAbort DEF CreateTemplate
  <2>3. CASE ~template
    <3>1. tx' = [tx EXCEPT ![u].phase = "checking", ![u].created = TRUE]
      BY <1>4, <2>3 DEF CreateTemplate
    <3>2. /\ \A w \in Others(u) : tx'[w] = tx[w]
          /\ tx'[u].phase = "checking"
          /\ tx'[u].version = tx[u].version /\ tx'[u].key = tx[u].key
          /\ tx'[u].content = tx[u].content /\ tx'[u].put = tx[u].put
      BY <1>0, <1>u, <3>1 DEF Others, TypeOK, Transactions
    <3> QED
      BY <1>0, <2>1, <3>2, SourcesAdvance DEF Writing
  <2> QED
    BY <2>2, <2>3
<1>5. ASSUME NEW u \in Users, Check(u) PROVE SourcesInv'
  <2>1. Phase(u) = "checking" /\ rows' = rows /\ objects' = objects
    BY <1>5 DEF Check
  <2>2. CASE tx[u].version \in Named(rows)
    BY <1>0, <1>5, <2>1, <2>2, SourcesAbort DEF Check
  <2>3. CASE tx[u].version \notin Named(rows)
    <3> DEFINE p == IF u \in Registering THEN "stored" ELSE "uploading"
    <3>1. tx' = [tx EXCEPT ![u].phase = p]
      BY <1>5, <2>3 DEF Check, Become
    <3>2. /\ \A w \in Others(u) : tx'[w] = tx[w]
          /\ tx'[u].phase = p
          /\ tx'[u].version = tx[u].version /\ tx'[u].key = tx[u].key
          /\ tx'[u].content = tx[u].content /\ tx'[u].put = tx[u].put
      BY <1>0, <1>u, <3>1 DEF Others, TypeOK, Transactions
    <3> QED
      BY <1>0, <2>1, <2>3, <3>2, SourcesAdvance DEF Writing
  <2> QED
    BY <2>2, <2>3
<1>6. ASSUME NEW u \in Users, Put(u) PROVE SourcesInv'
  <2>1. /\ Phase(u) = "uploading" /\ rows' = rows
        /\ objects' = [objects EXCEPT ![tx[u].key] = tx[u].content]
        /\ tx' = [tx EXCEPT ![u].phase = "stored", ![u].put = TRUE]
    BY <1>6 DEF Put
  <2>2. /\ \A w \in Others(u) : tx'[w] = tx[w]
        /\ tx'[u].phase = "stored" /\ tx'[u].version = tx[u].version
        /\ tx'[u].key = tx[u].key /\ tx'[u].content = tx[u].content
    BY <1>0, <1>u, <2>1 DEF Others, TypeOK, Transactions
  <2>3. objects'[tx[u].key] = tx[u].content
    BY <1>0, <1>u, <2>1 DEF TypeOK, Transactions
  <2>4. NameInv(u)'
    BY <1>u, <2>1, <2>2 DEF NameInv, Phase, Writing
  <2>5. ObjectInv(u)'
    BY <1>u, <2>1, <2>2, <2>3 DEF ObjectInv, Phase, Named, Writing, Owned, Others
  <2> QED
    BY <1>0, <2>1, <2>2, <2>4, <2>5, SourcesWrite
<1>7. ASSUME NEW u \in Users, StartClear(u) PROVE SourcesInv'
  <2>1. Phase(u) = "stored" /\ rows' = rows /\ objects' = objects
    BY <1>7 DEF StartClear
  <2>2. /\ \A w \in Others(u) : tx'[w] = tx[w]
        /\ tx'[u].phase = "clearing"
        /\ tx'[u].version = tx[u].version /\ tx'[u].key = tx[u].key
        /\ tx'[u].content = tx[u].content /\ tx'[u].put = tx[u].put
    BY <1>0, <1>u, <1>7 DEF StartClear, Others, TypeOK, Transactions
  <2> QED
    BY <1>0, <2>1, <2>2, SourcesAdvance DEF Writing
<1>8. ASSUME NEW u \in Users, Clear(u) PROVE SourcesInv'
  <2>1. Phase(u) = "clearing" /\ rows' = rows /\ objects' = objects
    BY <1>8 DEF Clear
  <2>2. /\ \A w \in Others(u) : tx'[w] = tx[w]
        /\ tx'[u].phase = "inserting"
        /\ tx'[u].version = tx[u].version /\ tx'[u].key = tx[u].key
        /\ tx'[u].content = tx[u].content /\ tx'[u].put = tx[u].put
    BY <1>0, <1>u, <1>8 DEF Clear, Others, TypeOK, Transactions
  <2> QED
    BY <1>0, <2>1, <2>2, SourcesAdvance DEF Writing
<1>9. ASSUME NEW u \in Users, Insert(u) PROVE SourcesInv'
  <2>1. Phase(u) = "inserting" /\ rows' = rows /\ objects' = objects
    BY <1>9 DEF Insert
  <2>2. CASE tx[u].version \in Named(rows)
    BY <1>0, <1>9, <2>1, <2>2, SourcesAbort DEF Insert
  <2>3. CASE tx[u].version \notin Named(rows)
    <3>1. tx' = [tx EXCEPT ![u].phase = "committing", ![u].inserted = TRUE]
      BY <1>9, <2>3 DEF Insert
    <3>2. /\ \A w \in Others(u) : tx'[w] = tx[w]
          /\ tx'[u].phase = "committing"
          /\ tx'[u].version = tx[u].version /\ tx'[u].key = tx[u].key
          /\ tx'[u].content = tx[u].content /\ tx'[u].put = tx[u].put
      BY <1>0, <1>u, <3>1 DEF Others, TypeOK, Transactions
    <3> QED
      BY <1>0, <2>1, <3>2, SourcesAdvance DEF Writing
  <2> QED
    BY <2>2, <2>3
<1>10. ASSUME NEW u \in Users, Commit(u) PROVE SourcesInv'
  <2>1. /\ Phase(u) = "committing" /\ objects' = objects /\ tx'[u] = Closed
        /\ \A w \in Others(u) : tx'[w] = tx[w]
    BY <1>0, <1>10 DEF Commit, Others, TypeOK
  <2>2. tx[u].version \in MayUse[u] /\ (Owned(tx[u].version) => u \notin Registering)
    BY <1>u, <2>1 DEF NameInv, Owned
  <2>3. Owned(tx[u].version) =>
          tx[u].key[1] = tx[u].version /\ objects[tx[u].key] = tx[u].content
    BY <1>u, <2>1, <2>2 DEF NameInv, ObjectInv, Writing
  <2>4. RowInv'
    <3>1. SUFFICES ASSUME NEW r \in rows', Owned(r.version)
                   PROVE  r.key[1] = r.version /\ objects'[r.key] = r.content
      BY DEF RowInv, Owned, Others
    <3>2. CASE r = NewRow(u)
      BY <2>1, <2>3, <3>1, <3>2 DEF NewRow
    <3>3. CASE \E s \in rows : r.version = s.version /\ r.key = s.key /\ r.content = s.content
      BY <2>1, <3>1, <3>3 DEF SourcesInv, RowInv
    <3> QED
      BY <1>0, <1>10, <3>2, <3>3, CommitRows
  <2>5. \A x : x \in Named(rows') => x = tx[u].version \/ x \in Named(rows)
    <3> SUFFICES ASSUME NEW r \in rows' PROVE r.version = tx[u].version \/ r.version \in Named(rows)
      BY DEF Named
    <3> QED
      BY <1>0, <1>10, CommitRows DEF Named, NewRow
  <2>6. ASSUME NEW w \in Others(u) PROVE NameInv(w)' /\ ObjectInv(w)'
    <3>1. NameInv(w) /\ ObjectInv(w) /\ w \in Users /\ tx'[w] = tx[w]
      BY <1>u, <2>1 DEF Others
    <3>2. w \notin Registering /\ Owned(tx[w].key[1]) /\ Phase(w) # "idle" =>
            tx[w].key[1] # tx[u].version
      BY <2>1, NamesApart
    <3>3. w \notin Registering /\ Owned(tx[w].key[1]) /\ Phase(w) \in Writing \cup {"undoing"} =>
            tx[w].key[1] \notin Named(rows')
      BY <2>5, <3>1, <3>2 DEF ObjectInv, Writing
    <3>4. NameInv(w)'
      BY <3>1 DEF NameInv, Phase
    <3>5. ObjectInv(w)'
      BY <2>1, <3>1, <3>3 DEF ObjectInv, Phase, Named, Owned, Others
    <3> QED
      BY <3>4, <3>5
  <2>7. NameInv(u)' /\ ObjectInv(u)'
    BY <2>1 DEF NameInv, ObjectInv, Phase, Closed, Writing
  <2> QED
    BY <1>0, <2>4, <2>6, <2>7 DEF SourcesInv, SourceInv, Others
<1>11. ASSUME NEW u \in Users, Fail(u) PROVE SourcesInv'
  BY <1>0, <1>11, SourcesAbort DEF Fail
<1>12. ASSUME NEW u \in Users, Undo(u) PROVE SourcesInv'
  <2>1. /\ Phase(u) = "undoing" /\ rows' = rows /\ tx'[u] = Closed
        /\ objects' = [objects EXCEPT ![tx[u].key] = NoObject]
        /\ \A w \in Others(u) : tx'[w] = tx[w]
    BY <1>0, <1>12 DEF Undo, Others, TypeOK
  <2>2. NameInv(u)' /\ ObjectInv(u)'
    BY <2>1 DEF NameInv, ObjectInv, Phase, Closed, Writing
  <2> QED
    BY <1>0, <2>1, <2>2, SourcesWrite
<1>13. ASSUME NEW u \in Users, Crash(u) PROVE SourcesInv'
  <2>1. /\ rows' = rows /\ objects' = objects /\ tx'[u] = Closed
        /\ \A w \in Others(u) : tx'[w] = tx[w]
    BY <1>0, <1>13 DEF Crash, Others, TypeOK
  <2>2. NameInv(u)' /\ ObjectInv(u)'
    BY <2>1 DEF NameInv, ObjectInv, Phase, Closed, Writing
  <2> QED
    BY <1>0, <2>1, <2>2, SourcesFrame
<1>14. CASE UNCHANGED vars
  <2>1. UNCHANGED <<rows, objects, tx>>
    BY <1>14 DEF vars
  <2>2. \A u \in Users : NameInv(u)' /\ ObjectInv(u)'
    BY <1>u, <2>1 DEF NameInv, ObjectInv, Phase, Named, Owned, Others
  <2>3. RowInv'
    BY <2>1 DEF SourcesInv, RowInv, Owned, Others
  <2> QED
    BY <1>0, <2>2, <2>3 DEF SourcesInv, SourceInv
<1> QED
  BY <1>1, <1>2, <1>3, <1>4, <1>5, <1>6, <1>7, <1>8, <1>9, <1>10, <1>11, <1>12, <1>13, <1>14
  DEF Next

\* The file of a version is the one it was made from, for any number of users,
\* failures and crashes, if the version name is asked for by one user only.
THEOREM SourcesCorrect == Spec => []SourcesIntact
<1>1. SourcesInv => SourcesIntact
  BY DEF SourcesInv, RowInv, SourcesIntact
<1> QED
  BY <1>1, SourcesInit, SourcesNext, PTL DEF Spec

-----------------------------------------------------------------------------
(* Objects of failed uploads *)

\* An object is accounted for by a row, by a request that will commit or
\* delete it, or by a crash.
Accounted(k) ==
  \/ \E r \in rows : r.key = k
  \/ \E u \in Users : tx[u].key = k /\ (tx[u].put \/ Phase(u) = "undoing")
  \/ k \in litter

LitterInv ==
  /\ TypeOK
  /\ NoLitter
  /\ \A u \in Users : tx[u].put => Phase(u) # "idle"

\* A step of u keeps the accounts, if u still answers for its object or hands
\* it over, and no other object is new.
LEMMA LitterFrame ==
  ASSUME LitterInv, TypeOK', NEW u \in Users,
         \A w \in Others(u) : tx'[w] = tx[w],
         \A r \in rows : \E s \in rows' : s.key = r.key,
         litter \subseteq litter',
         \A k \in Keys : objects'[k] \in 1..MaxRequests =>
                           objects[k] \in 1..MaxRequests \/ Accounted(k)',
         \A k \in Keys : tx[u].key = k /\ (tx[u].put \/ Phase(u) = "undoing") =>
                           Accounted(k)' \/ objects'[k] \notin 1..MaxRequests,
         tx'[u].put => tx'[u].phase # "idle"
  PROVE  LitterInv'
<1>1. ASSUME NEW k \in Keys, objects'[k] \in 1..MaxRequests PROVE Accounted(k)'
  <2>1. CASE objects[k] \in 1..MaxRequests
    <3>1. Accounted(k)
      BY <2>1 DEF LitterInv, NoLitter, Accounted
    <3>2. CASE \E r \in rows : r.key = k
      BY <3>2 DEF Accounted
    <3>3. CASE k \in litter
      BY <3>3 DEF Accounted
    <3>4. ASSUME NEW w \in Users, tx[w].key = k, tx[w].put \/ Phase(w) = "undoing"
          PROVE  Accounted(k)'
      <4>1. CASE w = u
        BY <1>1, <3>4, <4>1
      <4>2. CASE w # u
        BY <3>4, <4>2 DEF Accounted, Phase, Others
      <4> QED
        BY <4>1, <4>2
    <3> QED
      BY <3>1, <3>2, <3>3, <3>4 DEF Accounted
  <2> QED
    BY <1>1, <2>1
<1>2. NoLitter'
  BY <1>1 DEF NoLitter, Accounted
<1>3. \A w \in Users : tx'[w].put => tx'[w].phase # "idle"
  BY DEF LitterInv, Phase, Others
<1> QED
  BY <1>2, <1>3 DEF LitterInv, Phase

\* A request that keeps its key and its object, whatever else it does.
LEMMA LitterKeep ==
  ASSUME LitterInv, TypeOK', NEW u \in Users, rows' = rows, objects' = objects, litter' = litter,
         \A w \in Others(u) : tx'[w] = tx[w], Phase(u) # "undoing",
         tx[u].put => tx'[u].put /\ tx'[u].key = tx[u].key, tx'[u].put => tx'[u].phase # "idle"
  PROVE  LitterInv'
<1>1. \A k \in Keys : tx[u].key = k /\ tx[u].put => Accounted(k)'
  BY DEF Accounted, Phase
<1> QED
  BY <1>1, LitterFrame

\* An aborted request will delete its object.
LEMMA LitterAbort ==
  ASSUME LitterInv, TypeOK', NEW u \in Users, Abort(u), Phase(u) # "undoing",
         rows' = rows, objects' = objects, litter' = litter
  PROVE  LitterInv'
<1>1. \A k \in Keys : tx[u].key = k /\ tx[u].put => Accounted(k)'
  BY AbortShape DEF LitterInv, Accounted, Phase
<1>2. /\ \A w \in Others(u) : tx'[w] = tx[w]
      /\ ~tx'[u].put
  BY AbortShape DEF LitterInv
<1> QED
  BY <1>1, <1>2, LitterFrame

\* Every step keeps the accounts.
LEMMA LitterNext == LitterInv /\ [Next]_vars => LitterInv'
<1> SUFFICES ASSUME LitterInv, [Next]_vars PROVE LitterInv'
  OBVIOUS
<1>0. TypeOK /\ TypeOK'
  BY TypeNext DEF LitterInv
<1>u. \A u \in Users : tx[u] \in Transactions /\ (tx[u].put => Phase(u) # "idle")
  BY <1>0 DEF LitterInv, TypeOK
<1> USE DEF storeVars, boundVars
<1>1. ASSUME NEW u \in Users, NEW v \in Versions, NEW f \in Files, Upload(u, v, f) PROVE LitterInv'
  <2>1. /\ ~tx[u].put /\ ~tx'[u].put /\ \A w \in Others(u) : tx'[w] = tx[w]
    BY <1>0, <1>1, <1>u DEF Upload, Closed, Others, TypeOK
  <2> QED
    BY <1>0, <1>1, <2>1, LitterKeep DEF Upload
<1>2. ASSUME NEW u \in Users, NEW v \in Versions, NEW k \in Keys, Register(u, v, k) PROVE LitterInv'
  <2>1. /\ ~tx[u].put /\ ~tx'[u].put /\ \A w \in Others(u) : tx'[w] = tx[w]
    BY <1>0, <1>2, <1>u DEF Register, Closed, Others, TypeOK
  <2> QED
    BY <1>0, <1>2, <2>1, LitterKeep DEF Register
<1>3. ASSUME NEW u \in Users, Resolve(u) PROVE LitterInv'
  <2>1. \E p \in {"checking", "creating"} : tx' = [tx EXCEPT ![u].phase = p]
    BY <1>3 DEF Resolve, Become
  <2>2. /\ \A w \in Others(u) : tx'[w] = tx[w]
        /\ tx'[u].put = tx[u].put /\ tx'[u].key = tx[u].key /\ tx'[u].phase # "idle"
    BY <1>0, <1>u, <2>1 DEF Others, TypeOK, Transactions
  <2> QED
    BY <1>0, <1>3, <2>2, LitterKeep DEF Resolve
<1>4. ASSUME NEW u \in Users, CreateTemplate(u) PROVE LitterInv'
  <2>1. CASE template
    BY <1>0, <1>4, <2>1, LitterAbort DEF CreateTemplate
  <2>2. CASE ~template
    <3>1. tx' = [tx EXCEPT ![u].phase = "checking", ![u].created = TRUE]
      BY <1>4, <2>2 DEF CreateTemplate
    <3>2. /\ \A w \in Others(u) : tx'[w] = tx[w]
          /\ tx'[u].put = tx[u].put /\ tx'[u].key = tx[u].key /\ tx'[u].phase # "idle"
      BY <1>0, <1>u, <3>1 DEF Others, TypeOK, Transactions
    <3> QED
      BY <1>0, <1>4, <3>2, LitterKeep DEF CreateTemplate
  <2> QED
    BY <2>1, <2>2
<1>5. ASSUME NEW u \in Users, Check(u) PROVE LitterInv'
  <2>1. CASE tx[u].version \in Named(rows)
    BY <1>0, <1>5, <2>1, LitterAbort DEF Check
  <2>2. CASE tx[u].version \notin Named(rows)
    <3>1. \E p \in {"stored", "uploading"} : tx' = [tx EXCEPT ![u].phase = p]
      BY <1>5, <2>2 DEF Check, Become
    <3>2. /\ \A w \in Others(u) : tx'[w] = tx[w]
          /\ tx'[u].put = tx[u].put /\ tx'[u].key = tx[u].key /\ tx'[u].phase # "idle"
      BY <1>0, <1>u, <3>1 DEF Others, TypeOK, Transactions
    <3> QED
      BY <1>0, <1>5, <3>2, LitterKeep DEF Check
  <2> QED
    BY <2>1, <2>2
<1>6. ASSUME NEW u \in Users, Put(u) PROVE LitterInv'
  <2>1. tx' = [tx EXCEPT ![u].phase = "stored", ![u].put = TRUE]
    BY <1>6 DEF Put
  <2>2. /\ \A w \in Others(u) : tx'[w] = tx[w]
        /\ tx'[u].put /\ tx'[u].key = tx[u].key /\ tx'[u].phase # "idle"
    BY <1>0, <1>u, <2>1 DEF Others, TypeOK, Transactions
  <2>3. \A k \in Keys : tx[u].key = k => Accounted(k)'
    BY <2>2 DEF Accounted
  <2>4. \A k \in Keys : objects'[k] \in 1..MaxRequests =>
                          objects[k] \in 1..MaxRequests \/ Accounted(k)'
    BY <1>0, <1>6, <2>3 DEF Put, TypeOK
  <2>5. /\ \A r \in rows : \E s \in rows' : s.key = r.key
        /\ litter \subseteq litter'
    BY <1>6 DEF Put
  <2> QED
    BY <1>0, <2>2, <2>3, <2>4, <2>5, LitterFrame
<1>7. ASSUME NEW u \in Users, StartClear(u) PROVE LitterInv'
  <2>1. /\ \A w \in Others(u) : tx'[w] = tx[w]
        /\ tx'[u].put = tx[u].put /\ tx'[u].key = tx[u].key /\ tx'[u].phase # "idle"
    BY <1>0, <1>u, <1>7 DEF StartClear, Others, TypeOK, Transactions
  <2> QED
    BY <1>0, <1>7, <2>1, LitterKeep DEF StartClear
<1>8. ASSUME NEW u \in Users, Clear(u) PROVE LitterInv'
  <2>1. /\ \A w \in Others(u) : tx'[w] = tx[w]
        /\ tx'[u].put = tx[u].put /\ tx'[u].key = tx[u].key /\ tx'[u].phase # "idle"
    BY <1>0, <1>u, <1>8 DEF Clear, Others, TypeOK, Transactions
  <2> QED
    BY <1>0, <1>8, <2>1, LitterKeep DEF Clear
<1>9. ASSUME NEW u \in Users, Insert(u) PROVE LitterInv'
  <2>1. CASE tx[u].version \in Named(rows)
    BY <1>0, <1>9, <2>1, LitterAbort DEF Insert
  <2>2. CASE tx[u].version \notin Named(rows)
    <3>1. tx' = [tx EXCEPT ![u].phase = "committing", ![u].inserted = TRUE]
      BY <1>9, <2>2 DEF Insert
    <3>2. /\ \A w \in Others(u) : tx'[w] = tx[w]
          /\ tx'[u].put = tx[u].put /\ tx'[u].key = tx[u].key /\ tx'[u].phase # "idle"
      BY <1>0, <1>u, <3>1 DEF Others, TypeOK, Transactions
    <3> QED
      BY <1>0, <1>9, <3>2, LitterKeep DEF Insert
  <2> QED
    BY <2>1, <2>2
<1>10. ASSUME NEW u \in Users, Commit(u) PROVE LitterInv'
  <2>1. /\ \A w \in Others(u) : tx'[w] = tx[w]
        /\ ~tx'[u].put
    BY <1>0, <1>10 DEF Commit, Closed, Others, TypeOK
  <2>2. NewRow(u) \in rows' /\ NewRow(u).key = tx[u].key
    BY <1>10 DEF Commit, NewRow
  <2>3. \A k \in Keys : tx[u].key = k => Accounted(k)'
    BY <2>2 DEF Accounted
  <2>4. ASSUME NEW r \in rows PROVE \E s \in rows' : s.key = r.key
    <3>1. [r EXCEPT !.current = @ /\ r.version \notin tx[u].cleared] \in rows'
      BY <1>10 DEF Commit
    <3>2. [r EXCEPT !.current = @ /\ r.version \notin tx[u].cleared].key = r.key
      BY <1>0 DEF TypeOK, Rows
    <3> QED
      BY <3>1, <3>2
  <2>5. objects' = objects /\ litter' = litter
    BY <1>10 DEF Commit
  <2> QED
    BY <1>0, <2>1, <2>3, <2>4, <2>5, LitterFrame
<1>11. ASSUME NEW u \in Users, Fail(u) PROVE LitterInv'
  BY <1>0, <1>11, LitterAbort DEF Fail
<1>12. ASSUME NEW u \in Users, Undo(u) PROVE LitterInv'
  <2>1. /\ \A w \in Others(u) : tx'[w] = tx[w]
        /\ ~tx'[u].put
    BY <1>0, <1>12 DEF Undo, Closed, Others, TypeOK
  <2>2. /\ objects' = [objects EXCEPT ![tx[u].key] = NoObject]
        /\ rows' = rows /\ litter' = litter
    BY <1>12 DEF Undo
  <2>3. objects'[tx[u].key] \notin 1..MaxRequests
    BY <1>0, <1>u, <2>2 DEF TypeOK, Transactions, NoObject
  <2>4. \A k \in Keys : objects'[k] \in 1..MaxRequests => objects[k] \in 1..MaxRequests
    BY <1>0, <2>2 DEF TypeOK, NoObject
  <2> QED
    BY <1>0, <2>1, <2>2, <2>3, <2>4, LitterFrame
<1>13. ASSUME NEW u \in Users, Crash(u) PROVE LitterInv'
  <2>1. /\ \A w \in Others(u) : tx'[w] = tx[w]
        /\ ~tx'[u].put
    BY <1>0, <1>13 DEF Crash, Closed, Others, TypeOK
  <2>2. objects' = objects /\ rows' = rows /\ litter \subseteq litter'
    BY <1>13 DEF Crash
  <2>3. \A k \in Keys : tx[u].key = k /\ (tx[u].put \/ Phase(u) = "undoing") => Accounted(k)'
    BY <1>13 DEF Crash, Accounted
  <2> QED
    BY <1>0, <2>1, <2>2, <2>3, LitterFrame
<1>14. CASE UNCHANGED vars
  BY <1>0, <1>14 DEF vars, LitterInv, NoLitter, Phase
<1> QED
  BY <1>1, <1>2, <1>3, <1>4, <1>5, <1>6, <1>7, <1>8, <1>9, <1>10, <1>11, <1>12, <1>13, <1>14
  DEF Next

\* An object that an upload wrote belongs to a version, to a request that is
\* still running, or to one whose process died.
THEOREM LitterCorrect == Spec => []NoLitter
<1>1. Init => LitterInv
  BY TypeInit, BoundsAssumption
  DEF Init, LitterInv, NoLitter, Closed, Foreign, NoObject, Phase
<1>2. LitterInv => NoLitter
  BY DEF LitterInv
<1> QED
  BY <1>1, <1>2, LitterNext, PTL DEF Spec

=============================================================================
