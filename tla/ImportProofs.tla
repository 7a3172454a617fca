----------------------------- MODULE ImportProofs -----------------------------
(***************************************************************************)
(* Proofs about TemplateImports for any files, layouts, keys, users, jobs  *)
(* and bounds, and about DocxImport for any documents and values: which    *)
(* fields its analysis finds, and what a rendering leaves of a document.   *)
(***************************************************************************)
EXTENDS TemplateImports, DocxImport, SequenceTheorems, FiniteSetTheorems, TLAPS

-----------------------------------------------------------------------------
(* The inductive invariant *)

\* What a user is going to write: a confirmation of spans of the file loaded,
\* or the schema of the placeholders.
Confirms(t) == \E b \in Bindings : b.file = t.seen.file /\ t.wants = Wanted(t.seen, b)
Extracts(t) == t.wants = [t.seen EXCEPT !.variables = "none", !.components = "none"]

\* The columns of a row are made from its bindings, but for versions whose schema was
\* extracted (ex), and for those changed while loaded (ov) if bindings may look alike.
Exempt(v, G, ex, ov) == v \in ex \/ (v \in ov /\ ~IsInjective(G))
RowFits(v, row, ex, ov) ==
  /\ Exempt(v, SchemaOf, ex, ov) \/ row.variables = Made(SchemaOf, row.bindings)
  /\ Exempt(v, FormOf, ex, ov) \/ row.components = Made(FormOf, row.bindings)

\* A request that has loaded version t.version knows its file, which never
\* changes, and what it had at that moment, if nobody has changed it since.
UserOK(t) ==
  t.phase = "loaded" =>
    /\ t.version \in Versions
    /\ t.seen \in Rows /\ t.wants \in Rows
    /\ t.seen.file = versions[t.version].file
    /\ \/ Confirms(t)
       \/ Extracts(t) /\ t.version \in extracted
    /\ t.seen.bindings # NoBindings => versions[t.version].bindings # NoBindings
    /\ t.version \notin overlapped => t.seen = versions[t.version]
    /\ t.seen.bindings # NoBindings => t.seen.bindings.file = t.seen.file
    /\ RowFits(t.version, t.seen, extracted, overlapped)

\* A row is the row of a new version, or has bindings of its own file.
RowOK(v) ==
  /\ versions[v].strategy = "docx_import" => versions[v].bindings # NoBindings
  /\ versions[v].bindings # NoBindings => versions[v].bindings.file = versions[v].file
  /\ RowFits(v, versions[v], extracted, overlapped)

\* A job is filled at keys of bindings its version has had since its submission.
JobOK(j) ==
  job[j].phase # "new" =>
    /\ job[j].version \in Versions
    /\ KeysAt(versions[job[j].version].bindings) \in job[j].since
    /\ job[j].mode = "docx_import" =>
         /\ versions[job[j].version].bindings # NoBindings
         /\ job[j].phase \in {"submitted", "rendering"} =>
              /\ job[j].filled = KeysOf[job[j].context.layout]
              /\ job[j].filled \in job[j].since
         /\ job[j].phase = "completed" =>
              /\ job[j].source = versions[job[j].version].file
              /\ job[j].filled = KeysOf[job[j].result.layout]
              /\ job[j].filled \in job[j].since

UsersOK == \A u \in Users : UserOK(user[u])
RowsOK == \A v \in Versions : RowOK(v)
JobsOK == \A j \in Jobs : JobOK(j)

Inv == TypeOK /\ UsersOK /\ RowsOK /\ JobsOK

-----------------------------------------------------------------------------
(* Rows *)

Columns == {"file", "strategy", "bindings", "variables", "components"}

\* The UPDATE writes a column if and only if the request changes it.
LEMMA MergeColumns ==
  ASSUME NEW row \in Rows, NEW seen \in Rows, NEW wants \in Rows
  PROVE  LET new == Merge(row, seen, wants)
         IN  /\ new \in Rows
             /\ new.file = IF seen.file # wants.file THEN wants.file ELSE row.file
             /\ new.strategy = IF seen.strategy # wants.strategy THEN wants.strategy
                               ELSE row.strategy
             /\ new.bindings = IF seen.bindings # wants.bindings THEN wants.bindings
                               ELSE row.bindings
             /\ new.variables = IF seen.variables # wants.variables THEN wants.variables
                                ELSE row.variables
             /\ new.components = IF seen.components # wants.components THEN wants.components
                                 ELSE row.components
<1>1. DOMAIN row = Columns
  BY DEF Rows, Columns
<1> DEFINE new == Merge(row, seen, wants)
<1>2. new = [c \in Columns |-> IF seen[c] # wants[c] THEN wants[c] ELSE row[c]]
  BY <1>1 DEF Merge
<1>3. /\ new.file = IF seen.file # wants.file THEN wants.file ELSE row.file
      /\ new.strategy = IF seen.strategy # wants.strategy THEN wants.strategy ELSE row.strategy
      /\ new.bindings = IF seen.bindings # wants.bindings THEN wants.bindings ELSE row.bindings
      /\ new.variables = IF seen.variables # wants.variables THEN wants.variables ELSE row.variables
      /\ new.components = IF seen.components # wants.components THEN wants.components
                          ELSE row.components
  BY <1>2 DEF Columns
<1>4. new = [file |-> new.file, strategy |-> new.strategy, bindings |-> new.bindings,
             variables |-> new.variables, components |-> new.components]
  BY <1>2 DEF Columns
<1> HIDE DEF new
<1>5. new \in Rows
  BY <1>3, <1>4 DEF Rows
<1> QED
  BY <1>3, <1>5 DEF new

\* A request that finds the row as it has loaded it leaves the row it wants.
LEMMA MergeFresh ==
  ASSUME NEW seen \in Rows, NEW wants \in Rows
  PROVE  Merge(seen, seen, wants) = wants
<1>1. DOMAIN seen = Columns /\ wants = [c \in Columns |-> wants[c]]
  BY DEF Rows, Columns
<1> QED
  BY <1>1 DEF Merge

\* The row of a new version is a row.
LEMMA NewRowType ==
  ASSUME NEW f \in Files
  PROVE  /\ NewRow(f) \in Rows
         /\ NewRow(f).file = f /\ NewRow(f).strategy = "constructor"
         /\ NewRow(f).bindings = NoBindings
         /\ \A v, ex, ov : RowFits(v, NewRow(f), ex, ov)
<1>1. /\ NewRow(f).file = f /\ NewRow(f).strategy = "constructor"
      /\ NewRow(f).bindings = NoBindings
      /\ NewRow(f).variables = "none" /\ NewRow(f).components = "none"
  BY DEF NewRow
<1>2. Made(SchemaOf, NoBindings) = "none" /\ Made(FormOf, NoBindings) = "none"
  BY DEF Made
<1>3. "none" \in AllMade(SchemaOf) /\ "none" \in AllMade(FormOf)
  BY <1>2 DEF AllMade
<1>4. NewRow(f) \in Rows
  BY <1>3 DEF NewRow, Rows
<1> QED
  BY <1>1, <1>2, <1>4 DEF RowFits

\* Confirmed bindings are never those of a version without any.
LEMMA BindingsAreSome == ASSUME NEW b \in Bindings PROVE b # NoBindings
BY NoneAssumption DEF Bindings, NoBindings

\* What a confirmation writes.
LEMMA WantedType ==
  ASSUME NEW row \in Rows, NEW b \in Bindings
  PROVE  /\ Wanted(row, b) \in Rows
         /\ Wanted(row, b).file = row.file /\ Wanted(row, b).strategy = "docx_import"
         /\ Wanted(row, b).bindings = b
         /\ Wanted(row, b).variables = Made(SchemaOf, b)
         /\ Wanted(row, b).components = Made(FormOf, b)
<1>1. Made(SchemaOf, b) \in AllMade(SchemaOf) /\ Made(FormOf, b) \in AllMade(FormOf)
  BY DEF AllMade
<1> QED
  BY <1>1 DEF Wanted, Rows

\* What an extraction writes.
LEMMA ExtractedType ==
  ASSUME NEW row \in Rows
  PROVE  LET new == [row EXCEPT !.variables = "none", !.components = "none"]
         IN  /\ new \in Rows
             /\ new.file = row.file /\ new.strategy = row.strategy /\ new.bindings = row.bindings
<1>1. "none" \in AllMade(SchemaOf) /\ "none" \in AllMade(FormOf)
  BY DEF AllMade, Made
<1> QED
  BY <1>1 DEF Rows

\* A column an UPDATE leaves alone fits the bindings it writes, if different bindings of a
\* file have different columns.
LEMMA ColumnFits ==
  ASSUME NEW G, DOMAIN G = Layouts, \A l \in Layouts : G[l] # "none", IsInjective(G),
         NEW b \in Bindings, NEW s \in Bindings \cup {NoBindings}, NEW o,
         s # NoBindings => s.file = b.file
  PROVE  (IF Made(G, s) # Made(G, b) THEN Made(G, b) ELSE Made(G, o))
           = Made(G, IF s # b THEN b ELSE o)
<1>1. b # NoBindings /\ b.layout \in Layouts
  BY BindingsAreSome DEF Bindings
<1>2. ASSUME s # b PROVE Made(G, s) # Made(G, b)
  <2>1. CASE s = NoBindings
    BY <1>1, <2>1 DEF Made
  <2>2. CASE s # NoBindings
    <3>1. s.layout \in Layouts /\ s.layout # b.layout
      BY <1>2, <2>2 DEF Bindings
    <3> QED
      BY <1>1, <2>2, <3>1 DEF Made, IsInjective
  <2> QED
    BY <2>1, <2>2
<1> QED
  BY <1>2

\* What is exempt stays exempt.
LEMMA FitsLonger ==
  ASSUME NEW v, NEW row, NEW ex, NEW ov, NEW ex2, NEW ov2, ex \subseteq ex2, ov \subseteq ov2,
         RowFits(v, row, ex, ov)
  PROVE  RowFits(v, row, ex2, ov2)
BY DEF RowFits, Exempt


-----------------------------------------------------------------------------
(* Types *)

\* The versions after an upload.
LEMMA UploadEffect ==
  ASSUME TypeOK, NEW f \in Files, Upload(f)
  PROVE  /\ versions' \in Seq(Rows) /\ Len(versions') \in Ids
         /\ DOMAIN versions' = 1..(Current + 1) /\ Versions = 1..Current /\ Current \in Nat
         /\ versions'[Current + 1] = NewRow(f)
         /\ \A v \in Versions : versions'[v] = versions[v]
<1>1. versions \in Seq(Rows) /\ Current \in Nat /\ Current + 1 \in Ids
  BY BoundsAssumption DEF TypeOK, Upload, Current, Ids
<1>2. versions' = Append(versions, NewRow(f)) /\ NewRow(f) \in Rows
  BY NewRowType DEF Upload
<1>3. versions' \in Seq(Rows) /\ Len(versions') = Current + 1
  BY <1>1, <1>2 DEF Current
<1>4. DOMAIN versions' = 1..(Current + 1) /\ Versions = 1..Current
  BY <1>1, <1>3, LenProperties DEF Versions, Current
<1>5. versions'[Current + 1] = NewRow(f)
  BY <1>1, <1>2 DEF Current
<1>6. \A v \in 1..Current : versions'[v] = versions[v]
  BY <1>1, <1>2 DEF Current
<1> QED
  BY <1>1, <1>3, <1>4, <1>5, <1>6

\* The versions after a change.
LEMMA SaveEffect ==
  ASSUME TypeOK, UsersOK, NEW u \in Users, Save(u)
  PROVE  LET v == user[u].version
             row == Merge(versions[v], user[u].seen, user[u].wants)
         IN  /\ user[u].phase = "loaded" /\ UserOK(user[u]) /\ v \in Versions
             /\ versions[v] \in Rows /\ row \in Rows
             /\ versions' \in Seq(Rows) /\ Len(versions') = Current
             /\ DOMAIN versions' = Versions
             /\ versions'[v] = row
             /\ \A w \in Versions \ {v} : versions'[w] = versions[w]
<1> DEFINE v == user[u].version
           row == Merge(versions[v], user[u].seen, user[u].wants)
<1>1. user[u].phase = "loaded" /\ UserOK(user[u]) /\ v \in Versions
  BY DEF Save, UsersOK, UserOK
<1>2. versions \in Seq(Rows) /\ versions[v] \in Rows
  BY <1>1, LenProperties, ElementOfSeq DEF TypeOK, Versions
<1>3. row \in Rows
  BY <1>1, <1>2, MergeColumns DEF UserOK
<1>4. versions' = [versions EXCEPT ![v] = row]
  BY DEF Save
<1> HIDE DEF row, v
<1>5. v \in 1..Len(versions)
  BY <1>1, <1>2, LenProperties DEF Versions
<1>6. /\ versions' \in Seq(Rows) /\ Len(versions') = Len(versions)
      /\ \A w \in 1..Len(versions) : versions'[w] = IF w = v THEN row ELSE versions[w]
  BY <1>2, <1>3, <1>4, <1>5, ExceptSeq
<1>7. DOMAIN versions' = Versions
  BY <1>4 DEF Versions
<1> QED
  BY <1>1, <1>2, <1>3, <1>5, <1>6, <1>7, LenProperties DEF Versions, Current, row, v

\* Idle requests and new jobs have the shape of requests and jobs.
LEMMA IdleType == Idle \in UserStates /\ Idle.phase = "idle" /\ NoJob \in JobStates
BY DEF Idle, NoRow, NewRow, UserStates, NoJob, JobStates

\* The initial state has the shape TypeOK describes.
LEMMA TypeInit == Init => TypeOK
<1> SUFFICES ASSUME Init PROVE TypeOK
  OBVIOUS
<1>1. PICK f \in Files : versions = <<NewRow(f)>>
  BY DEF Init
<1>2. NewRow(f) \in Rows
  BY NewRowType
<1> HIDE DEF NewRow
<1>3. versions \in Seq(Rows) /\ Len(versions) = 1
  BY <1>1, <1>2
<1>4. 1 \in Ids
  BY BoundsAssumption DEF Ids
<1>5. user \in [Users -> UserStates] /\ job \in [Jobs -> JobStates]
  BY IdleType DEF Init
<1>6. saves \in 0..MaxSaves
  BY BoundsAssumption DEF Init
<1> QED
  BY <1>3, <1>4, <1>5, <1>6 DEF Init, TypeOK


\* The keys of bindings are keys.
LEMMA BindingKeys == ASSUME NEW b \in Bindings PROVE KeysOf[b.layout] \in SUBSET Keys
<1>1. b.layout \in Layouts
  BY DEF Bindings
<1> QED
  BY <1>1, KeysOfAssumption

\* So are the keys of a version.
LEMMA KeysAtType ==
  ASSUME NEW b \in Bindings \cup {NoBindings}
  PROVE  KeysAt(b) \in SUBSET Keys /\ (b # NoBindings => KeysAt(b) = KeysOf[b.layout])
BY BindingKeys DEF KeysAt

\* Rows of versions are rows; the last version is one of them.
LEMMA RowTypes ==
  ASSUME TypeOK
  PROVE  /\ \A v \in Versions : v \in Ids /\ versions[v] \in Rows
         /\ Current \in Versions /\ Versions = 1..Current /\ Current \in Nat
<1>1. versions \in Seq(Rows) /\ Versions = 1..Len(versions) /\ Len(versions) \in 1..MaxVersions
  BY LenProperties DEF TypeOK, Versions, Ids
<1>2. \A v \in 1..Len(versions) : versions[v] \in Rows
  BY <1>1, ElementOfSeq
<1> QED
  BY <1>1, <1>2, BoundsAssumption DEF Current, Ids

\* What a submission makes of a job.
LEMMA SubmitStep ==
  ASSUME TypeOK, RowsOK, NEW j \in Jobs, NEW v \in Versions, NEW given \in Payloads,
         Submit(j, v, given)
  PROVE  LET row == versions[v]
             new == [NoJob EXCEPT !.phase = "submitted", !.mode = row.strategy, !.version = v,
                       !.data = given, !.context = row.bindings,
                       !.filled = Payload(row.strategy, row.bindings, given),
                       !.since = {KeysAt(row.bindings)}]
         IN  /\ new \in JobStates
             /\ job' = [job EXCEPT ![j] = new]
             /\ row.strategy = "docx_import" => row.bindings \in Bindings
<1> DEFINE row == versions[v]
<1>1. row \in Rows /\ v \in Ids /\ RowOK(v)
  BY RowTypes DEF RowsOK
<1>2. row.strategy = "docx_import" => row.bindings \in Bindings
  BY <1>1 DEF Rows, RowOK
<1>3. given \in SUBSET Keys
  BY PayloadsAssumption
<1>4. Payload(row.strategy, row.bindings, given) \in SUBSET Keys
  BY <1>2, <1>3, BindingKeys DEF Payload
<1>5. /\ row.bindings \in Bindings \cup {NoBindings}
      /\ row.strategy \in {"constructor", "docx_import"}
      /\ KeysAt(row.bindings) \in SUBSET Keys
  BY <1>1, KeysAtType DEF Rows
<1> DEFINE new == [NoJob EXCEPT !.phase = "submitted", !.mode = row.strategy, !.version = v,
                       !.data = given, !.context = row.bindings,
                       !.filled = Payload(row.strategy, row.bindings, given),
                       !.since = {KeysAt(row.bindings)}]
<1>6. job' = [job EXCEPT ![j] = new]
  BY DEF Submit
<1> HIDE DEF row
<1>7. new \in JobStates
  BY <1>1, <1>3, <1>4, <1>5 DEF NoJob, JobStates
<1> QED
  BY <1>2, <1>6, <1>7 DEF row

\* What a worker makes of a job it claims.
LEMMA ClaimStep ==
  ASSUME TypeOK, JobsOK, NEW j \in Jobs, Claim(j)
  PROVE  LET row == versions[job[j].version]
             new == [job[j] EXCEPT !.phase = "rendering", !.context = row.bindings,
                       !.filled = Payload(job[j].mode, row.bindings, job[j].data)]
             lost == [job[j] EXCEPT !.phase = "failed", !.context = NoBindings]
         IN  /\ job[j].phase = "queued" /\ JobOK(j) /\ row \in Rows
             /\ job[j].mode = "docx_import" => row.bindings \in Bindings
             /\ new \in JobStates /\ lost \in JobStates
             /\ \/ job' = [job EXCEPT ![j] = new]
                \/ job' = [job EXCEPT ![j] = lost]
<1> DEFINE row == versions[job[j].version]
           new == [job[j] EXCEPT !.phase = "rendering", !.context = row.bindings,
                       !.filled = Payload(job[j].mode, row.bindings, job[j].data)]
           lost == [job[j] EXCEPT !.phase = "failed", !.context = NoBindings]
<1>1. job[j].phase = "queued" /\ JobOK(j) /\ job[j] \in JobStates
  BY DEF Claim, JobsOK, TypeOK
<1>2. row \in Rows
  BY <1>1, RowTypes DEF JobOK
<1>3. job[j].mode = "docx_import" => row.bindings \in Bindings
  BY <1>1, <1>2 DEF JobOK, Rows
<1>4. Payload(job[j].mode, row.bindings, job[j].data) \in SUBSET Keys
  BY <1>1, <1>3, BindingKeys DEF Payload, JobStates
<1>5. row.bindings \in Bindings \cup {NoBindings}
  BY <1>2 DEF Rows
<1>6. \/ job' = [job EXCEPT ![j] = new]
      \/ job' = [job EXCEPT ![j] = lost]
  BY DEF Claim
<1> HIDE DEF row
<1>7. new \in JobStates /\ lost \in JobStates
  BY <1>1, <1>4, <1>5 DEF JobStates
<1> QED
  BY <1>1, <1>2, <1>3, <1>6, <1>7 DEF row

\* What rendering makes of a job.
LEMMA RenderStep ==
  ASSUME TypeOK, JobsOK, NEW j \in Jobs, Render(j)
  PROVE  LET source == versions[job[j].version].file
             plain == [job[j] EXCEPT !.phase = "completed", !.context = NoBindings]
             lost == [job[j] EXCEPT !.phase = "failed", !.context = NoBindings]
             new == [job[j] EXCEPT !.phase = "completed", !.context = NoBindings,
                       !.source = source, !.result = job[j].context]
         IN  /\ job[j].phase = "rendering" /\ JobOK(j)
             /\ plain \in JobStates /\ lost \in JobStates /\ new \in JobStates
             /\ \/ job[j].mode # "docx_import" /\ job' = [job EXCEPT ![j] = plain]
                \/ job' = [job EXCEPT ![j] = lost]
                \/ job' = [job EXCEPT ![j] = new]
<1> DEFINE source == versions[job[j].version].file
           plain == [job[j] EXCEPT !.phase = "completed", !.context = NoBindings]
           lost == [job[j] EXCEPT !.phase = "failed", !.context = NoBindings]
           new == [job[j] EXCEPT !.phase = "completed", !.context = NoBindings,
                       !.source = source, !.result = job[j].context]
<1>1. job[j].phase = "rendering" /\ JobOK(j) /\ job[j] \in JobStates
  BY DEF Render, JobsOK, TypeOK
<1>2. source \in Files
  BY <1>1, RowTypes DEF JobOK, Rows
<1>3. \/ job[j].mode # "docx_import" /\ job' = [job EXCEPT ![j] = plain]
      \/ job' = [job EXCEPT ![j] = lost]
      \/ job' = [job EXCEPT ![j] = new]
  BY DEF Render
<1> HIDE DEF source
<1>4. plain \in JobStates /\ lost \in JobStates /\ new \in JobStates
  BY <1>1, <1>2 DEF JobStates
<1> QED
  BY <1>1, <1>3, <1>4 DEF source


\* A user who confirms has loaded the current version and keeps its file.
LEMMA ConfirmStep ==
  ASSUME TypeOK, NEW u \in Users, NEW l \in Layouts, Confirm(u, l)
  PROVE  \E t \in UserStates :
           /\ user' = [user EXCEPT ![u] = t] /\ t.phase = "loaded" /\ t.version = Current
           /\ t.seen = versions[Current] /\ t.seen \in Rows /\ t.wants \in Rows /\ Confirms(t)
<1> DEFINE b == [file |-> user[u].file, layout |-> l]
           t == [phase |-> "loaded", file |-> user[u].file, version |-> Current,
                 seen |-> versions[Current], wants |-> Wanted(versions[Current], b)]
<1>1. versions[Current] \in Rows /\ Current \in Ids
  BY RowTypes
<1>2. user[u].file = versions[Current].file /\ user' = [user EXCEPT ![u] = t]
  BY DEF Confirm
<1>3. b \in Bindings /\ b.file = versions[Current].file
  BY <1>1, <1>2 DEF Bindings, Rows
<1> HIDE DEF b
<1>4. Wanted(versions[Current], b) \in Rows
  BY <1>1, <1>3, WantedType
<1>5. user[u].file \in Files
  BY <1>1, <1>2 DEF Rows
<1>6. t \in UserStates
  BY <1>1, <1>4, <1>5 DEF UserStates
<1>7. Confirms(t)
  BY <1>3 DEF Confirms
<1> QED
  BY <1>1, <1>2, <1>4, <1>6, <1>7

\* So has a user who extracts a schema.
LEMMA ExtractStep ==
  ASSUME TypeOK, NEW u \in Users, Extract(u)
  PROVE  \E t \in UserStates :
           /\ user' = [user EXCEPT ![u] = t] /\ t.phase = "loaded" /\ t.version = Current
           /\ t.seen = versions[Current] /\ t.seen \in Rows /\ t.wants \in Rows /\ Extracts(t)
<1> DEFINE w == [versions[Current] EXCEPT !.variables = "none", !.components = "none"]
           t == [phase |-> "loaded", file |-> "none", version |-> Current,
                 seen |-> versions[Current], wants |-> w]
<1>1. versions[Current] \in Rows /\ Current \in Ids
  BY RowTypes
<1>2. user' = [user EXCEPT ![u] = t]
  BY DEF Extract
<1>3. w \in Rows
  BY <1>1, ExtractedType
<1>4. t \in UserStates
  BY <1>1, <1>3 DEF UserStates
<1>5. Extracts(t)
  BY DEF Extracts
<1> QED
  BY <1>1, <1>2, <1>3, <1>4, <1>5

\* What a change adds to the history of the jobs of its version.
LEMMA SaveJobs ==
  ASSUME TypeOK, UsersOK, NEW u \in Users, Save(u)
  PROVE  LET v == user[u].version
             b == Merge(versions[v], user[u].seen, user[u].wants).bindings
         IN  /\ b \in Bindings \cup {NoBindings}
             /\ \A j \in Jobs :
                  job'[j] = IF job[j].version = v THEN [job[j] EXCEPT !.since = @ \cup {KeysAt(b)}]
                            ELSE job[j]
             /\ job' \in [Jobs -> JobStates]
<1> DEFINE v == user[u].version
           b == Merge(versions[v], user[u].seen, user[u].wants).bindings
<1>1. b \in Bindings \cup {NoBindings}
  BY SaveEffect DEF Rows
<1>2. job' = [j \in Jobs |-> IF job[j].version = v THEN [job[j] EXCEPT !.since = @ \cup {KeysAt(b)}]
                             ELSE job[j]]
  BY DEF Save
<1> HIDE DEF v, b
<1>3. ASSUME NEW j \in Jobs PROVE [job[j] EXCEPT !.since = @ \cup {KeysAt(b)}] \in JobStates
  BY <1>1, KeysAtType DEF TypeOK, JobStates
<1>4. job' \in [Jobs -> JobStates]
  BY <1>2, <1>3 DEF TypeOK
<1> QED
  BY <1>1, <1>2, <1>4 DEF v, b

\* Every step keeps the shape of the state.
LEMMA TypeNext == Inv /\ [Next]_vars => TypeOK'
<1> SUFFICES ASSUME Inv, [Next]_vars PROVE TypeOK'
  OBVIOUS
<1>i. TypeOK /\ UsersOK /\ RowsOK /\ JobsOK
  BY DEF Inv
<1>1. ASSUME NEW f \in Files, Upload(f) PROVE TypeOK'
  <2>1. versions' \in Seq(Rows) /\ Len(versions') \in Ids
    BY <1>i, <1>1, UploadEffect
  <2> QED
    BY <1>i, <1>1, <2>1 DEF Upload, TypeOK
<1>2. ASSUME NEW u \in Users, NEW f \in Files, Review(u, f) PROVE TypeOK'
  <2>1. [Idle EXCEPT !.phase = "reviewing", !.file = f] \in UserStates
    BY IdleType DEF UserStates
  <2> QED
    BY <1>i, <1>2, <2>1 DEF Review, TypeOK
<1>3. ASSUME NEW u \in Users, NEW l \in Layouts, Confirm(u, l) PROVE TypeOK'
  <2>1. user' \in [Users -> UserStates]
    BY <1>i, <1>3, ConfirmStep DEF TypeOK
  <2>2. saves' \in 0..MaxSaves
    BY <1>i, <1>3, BoundsAssumption DEF Confirm, TypeOK
  <2> QED
    BY <1>i, <1>3, <2>1, <2>2 DEF Confirm, TypeOK
<1>4. ASSUME NEW u \in Users, Refuse(u) \/ Fail(u) PROVE TypeOK'
  BY <1>i, <1>4, IdleType DEF Refuse, Fail, TypeOK
<1>5. ASSUME NEW u \in Users, Extract(u) PROVE TypeOK'
  <2>1. user' \in [Users -> UserStates]
    BY <1>i, <1>5, ExtractStep DEF TypeOK
  <2>2. saves' \in 0..MaxSaves
    BY <1>i, <1>5, BoundsAssumption DEF Extract, TypeOK
  <2>3. extracted' \subseteq Ids
    BY <1>i, <1>5, RowTypes DEF Extract, TypeOK
  <2> QED
    BY <1>i, <1>5, <2>1, <2>2, <2>3 DEF Extract, TypeOK
<1>6. ASSUME NEW u \in Users, Save(u) PROVE TypeOK'
  <2>1. versions' \in Seq(Rows) /\ Len(versions') \in Ids
    BY <1>i, <1>6, SaveEffect DEF TypeOK, Current
  <2>2. job' \in [Jobs -> JobStates]
    BY <1>i, <1>6, SaveJobs
  <2>3. overlapped' \subseteq Ids
    <3>1. user[u].version \in Ids
      BY <1>i, <1>6, SaveEffect, RowTypes
    <3> QED
      BY <1>i, <1>6, <3>1 DEF Save, TypeOK
  <2>4. user' \in [Users -> UserStates]
    BY <1>i, <1>6, IdleType DEF Save, TypeOK
  <2> QED
    BY <1>i, <1>6, <2>1, <2>2, <2>3, <2>4 DEF Save, TypeOK
<1>7. ASSUME NEW j \in Jobs, NEW v \in Versions, NEW given \in Payloads, Submit(j, v, given)
      PROVE TypeOK'
  <2>1. job' \in [Jobs -> JobStates]
    BY <1>i, <1>7, SubmitStep DEF TypeOK
  <2> QED
    BY <1>i, <1>7, <2>1 DEF Submit, TypeOK
<1>8. ASSUME NEW j \in Jobs, NEW i \in Jobs, Reuse(j, i) PROVE TypeOK'
  <2>1. [job[j] EXCEPT !.phase = "completed", !.context = NoBindings, !.source = job[i].source,
                     !.result = job[i].result] \in JobStates
    <3>1. job[j] \in JobStates /\ job[i] \in JobStates
      BY <1>i DEF TypeOK
    <3>2. job[i].source \in Files \cup {"none"} /\ job[i].result \in Bindings \cup {NoBindings}
      BY <3>1 DEF JobStates
    <3>3. NoBindings \in Bindings \cup {NoBindings}
      OBVIOUS
    <3> QED
      BY <3>1, <3>2, <3>3 DEF JobStates
  <2> QED
    BY <1>i, <1>8, <2>1 DEF Reuse, TypeOK
<1>9. ASSUME NEW j \in Jobs, Enqueue(j) PROVE TypeOK'
  <2>1. [job[j] EXCEPT !.phase = "queued", !.context = NoBindings] \in JobStates
    <3>1. job[j] \in JobStates
      BY <1>i DEF TypeOK
    <3> QED
      BY <3>1 DEF JobStates
  <2> QED
    BY <1>i, <1>9, <2>1 DEF Enqueue, TypeOK
<1>10. ASSUME NEW j \in Jobs, Claim(j) PROVE TypeOK'
  <2>1. job' \in [Jobs -> JobStates]
    BY <1>i, <1>10, ClaimStep DEF TypeOK
  <2> QED
    BY <1>i, <1>10, <2>1 DEF Claim, TypeOK
<1>11. ASSUME NEW j \in Jobs, Render(j) PROVE TypeOK'
  <2>1. job' \in [Jobs -> JobStates]
    BY <1>i, <1>11, RenderStep DEF TypeOK
  <2> QED
    BY <1>i, <1>11, <2>1 DEF Render, TypeOK
<1>12. ASSUME NEW j \in Jobs, Retry(j) PROVE TypeOK'
  <2>1. [job[j] EXCEPT !.phase = "queued", !.context = NoBindings] \in JobStates
    <3>1. job[j] \in JobStates
      BY <1>i DEF TypeOK
    <3> QED
      BY <3>1 DEF JobStates
  <2> QED
    BY <1>i, <1>12, <2>1 DEF Retry, TypeOK
<1>13. CASE UNCHANGED vars
  BY <1>i, <1>13 DEF vars, TypeOK
<1> QED
  BY <1>1, <1>2, <1>3, <1>4, <1>5, <1>6, <1>7, <1>8, <1>9, <1>10, <1>11, <1>12, <1>13 DEF Next


-----------------------------------------------------------------------------
(* Requests of users *)

\* What every step keeps of the versions: files, and having bindings.
LEMMA VersionsStep ==
  ASSUME Inv, [Next]_vars
  PROVE  /\ Versions \subseteq DOMAIN versions'
         /\ \A v \in Versions :
              /\ versions'[v].file = versions[v].file
              /\ versions[v].bindings # NoBindings => versions'[v].bindings # NoBindings
         /\ extracted \subseteq extracted' /\ overlapped \subseteq overlapped'
         /\ \/ versions' = versions
            \/ \E f \in Files : Upload(f)
            \/ \E u \in Users : Save(u)
<1>i. TypeOK /\ UsersOK /\ RowsOK /\ JobsOK
  BY DEF Inv
<1>1. ASSUME NEW f \in Files, Upload(f)
      PROVE  /\ Versions \subseteq DOMAIN versions'
             /\ \A v \in Versions : versions'[v] = versions[v]
             /\ extracted' = extracted /\ overlapped' = overlapped
  <2>1. Versions \subseteq DOMAIN versions' /\ \A v \in Versions : versions'[v] = versions[v]
    <3>1. /\ DOMAIN versions' = 1..(Current + 1) /\ Versions = 1..Current /\ Current \in Nat
          /\ \A v \in Versions : versions'[v] = versions[v]
      BY <1>i, <1>1, UploadEffect
    <3> QED
      BY <3>1
  <2> QED
    BY <1>1, <2>1 DEF Upload
<1>2. ASSUME NEW u \in Users, Save(u)
      PROVE  /\ Versions \subseteq DOMAIN versions'
             /\ \A v \in Versions :
                  /\ versions'[v].file = versions[v].file
                  /\ versions[v].bindings # NoBindings => versions'[v].bindings # NoBindings
             /\ extracted' = extracted /\ overlapped \subseteq overlapped'
  <2> DEFINE v == user[u].version
             seen == user[u].seen
             wants == user[u].wants
             row == Merge(versions[v], seen, wants)
  <2>1. /\ user[u].phase = "loaded" /\ UserOK(user[u]) /\ v \in Versions /\ versions[v] \in Rows
        /\ DOMAIN versions' = Versions /\ versions'[v] = row
        /\ \A w \in Versions \ {v} : versions'[w] = versions[w]
    BY <1>i, <1>2, SaveEffect
  <2>2. seen \in Rows /\ wants \in Rows /\ seen.file = versions[v].file
    BY <2>1 DEF UserOK
  <2>3. /\ wants.file = seen.file
        /\ wants.bindings # NoBindings \/ wants.bindings = seen.bindings
    <3>1. CASE Confirms(user[u])
      BY <2>2, <3>1, WantedType, BindingsAreSome DEF Confirms
    <3>2. CASE Extracts(user[u])
      BY <2>2, <3>2, ExtractedType DEF Extracts
    <3> QED
      BY <2>1, <3>1, <3>2 DEF UserOK
  <2>4. /\ row.file = versions[v].file
        /\ versions[v].bindings # NoBindings => row.bindings # NoBindings
    <3>1. /\ row.file = IF seen.file # wants.file THEN wants.file ELSE versions[v].file
          /\ row.bindings = IF seen.bindings # wants.bindings THEN wants.bindings
                            ELSE versions[v].bindings
      BY <2>1, <2>2, MergeColumns
    <3> QED
      BY <2>2, <2>3, <3>1
  <2>5. extracted' = extracted /\ overlapped \subseteq overlapped'
    BY <1>2 DEF Save
  <2> HIDE DEF v, seen, wants, row
  <2> QED
    BY <2>1, <2>4, <2>5
<1>3. CASE UNCHANGED vars
  BY <1>3 DEF vars, Versions
<1>4. ASSUME \/ \E u \in Users, f \in Files : Review(u, f)
             \/ \E u \in Users, l \in Layouts : Confirm(u, l)
             \/ \E u \in Users : Refuse(u) \/ Extract(u) \/ Fail(u)
             \/ \E j \in Jobs, v \in Versions, given \in Payloads : Submit(j, v, given)
             \/ \E j \in Jobs, i \in Jobs : Reuse(j, i)
             \/ \E j \in Jobs : Enqueue(j) \/ Claim(j) \/ Render(j) \/ Retry(j)
      PROVE  versions' = versions /\ extracted \subseteq extracted' /\ overlapped' = overlapped
  BY <1>4 DEF Review, Confirm, Refuse, Extract, Fail, Submit, Reuse, Enqueue, Claim, Render, Retry
<1> QED
  BY <1>1, <1>2, <1>3, <1>4 DEF Next, Versions

\* Initially nobody has loaded anything.
LEMMA UsersInit == Init => UsersOK
BY IdleType DEF Init, UsersOK, UserOK

\* What a request has loaded stays true of its version, or the version counts as changed.
LEMMA UsersNext == Inv /\ [Next]_vars => UsersOK'
<1> SUFFICES ASSUME Inv, [Next]_vars PROVE UsersOK'
  OBVIOUS
<1>i. TypeOK /\ UsersOK /\ RowsOK /\ JobsOK
  BY DEF Inv
<1> DEFINE Good(t) ==
             t.phase = "loaded" =>
               /\ t.version \in DOMAIN versions'
               /\ t.seen \in Rows /\ t.wants \in Rows
               /\ t.seen.file = versions'[t.version].file
               /\ \/ Confirms(t)
                  \/ Extracts(t) /\ t.version \in extracted'
               /\ t.seen.bindings # NoBindings => versions'[t.version].bindings # NoBindings
               /\ t.version \notin overlapped' => t.seen = versions'[t.version]
               /\ t.seen.bindings # NoBindings => t.seen.bindings.file = t.seen.file
               /\ RowFits(t.version, t.seen, extracted', overlapped')
<1>g. (\A u \in Users : Good(user'[u])) => UsersOK'
  BY DEF UsersOK, UserOK, Versions
<1>v. /\ Versions \subseteq DOMAIN versions'
      /\ \A v \in Versions :
           /\ versions'[v].file = versions[v].file
           /\ versions[v].bindings # NoBindings => versions'[v].bindings # NoBindings
      /\ extracted \subseteq extracted' /\ overlapped \subseteq overlapped'
  BY VersionsStep
<1>s. ASSUME NEW u \in Users,
             user[u].phase = "loaded" =>
               \/ versions'[user[u].version] = versions[user[u].version]
               \/ user[u].version \in overlapped'
      PROVE  Good(user[u])
  <2>1. UserOK(user[u])
    BY <1>i DEF UsersOK
  <2>2. user[u].phase = "loaded" =>
          RowFits(user[u].version, user[u].seen, extracted', overlapped')
    BY <1>v, <2>1, FitsLonger DEF UserOK
  <2> QED
    BY <1>v, <1>s, <2>1, <2>2 DEF UserOK
<1>d. ASSUME NEW t, t.phase # "loaded" PROVE Good(t)
  BY <1>d
<1>c. /\ Current \in Versions /\ versions[Current] \in Rows /\ RowOK(Current)
      /\ RowFits(Current, versions[Current], extracted', overlapped')
  <2>1. Current \in Versions /\ versions[Current] \in Rows /\ RowOK(Current)
    BY <1>i, RowTypes DEF RowsOK
  <2> QED
    BY <1>v, <2>1, FitsLonger DEF RowOK
<1>1. ASSUME versions' = versions, user' = user PROVE UsersOK'
  BY <1>1, <1>s, <1>g
<1>2. ASSUME versions' = versions, NEW u \in Users, NEW t, user' = [user EXCEPT ![u] = t], Good(t)
      PROVE  UsersOK'
  <2> HIDE DEF Good
  <2>1. ASSUME NEW q \in Users PROVE Good(user'[q])
    BY <1>i, <1>2, <1>s DEF TypeOK
  <2> QED
    BY <2>1, <1>g
<1>3. ASSUME NEW f \in Files, Upload(f) PROVE UsersOK'
  <2>1. user' = user
    BY <1>3 DEF Upload
  <2>2. \A v \in Versions : versions'[v] = versions[v]
    BY <1>i, <1>3, UploadEffect
  <2>3. ASSUME NEW u \in Users PROVE Good(user[u])
    <3>1. user[u].phase = "loaded" => user[u].version \in Versions
      BY <1>i DEF UsersOK, UserOK
    <3> HIDE DEF Good
    <3> QED
      BY <1>s, <2>2, <3>1
  <2> QED
    BY <2>1, <2>3, <1>g
<1>4. ASSUME NEW u \in Users, NEW f \in Files, Review(u, f) PROVE UsersOK'
  <2> DEFINE t == [Idle EXCEPT !.phase = "reviewing", !.file = f]
  <2>1. t.phase # "loaded"
    BY DEF Idle
  <2>2. versions' = versions /\ user' = [user EXCEPT ![u] = t]
    BY <1>4 DEF Review
  <2> HIDE DEF t, Good
  <2> QED
    BY <1>2, <1>d, <2>1, <2>2
<1>5. ASSUME NEW u \in Users, Refuse(u) \/ Fail(u) PROVE UsersOK'
  <2>1. versions' = versions /\ user' = [user EXCEPT ![u] = Idle]
    BY <1>5 DEF Refuse, Fail
  <2> HIDE DEF Good
  <2> QED
    BY <1>2, <1>d, <2>1, IdleType
<1>6. ASSUME NEW u \in Users, NEW l \in Layouts, Confirm(u, l) PROVE UsersOK'
  <2>1. PICK t \in UserStates :
           /\ user' = [user EXCEPT ![u] = t] /\ t.phase = "loaded" /\ t.version = Current
           /\ t.seen = versions[Current] /\ t.seen \in Rows /\ t.wants \in Rows /\ Confirms(t)
    BY <1>i, <1>6, ConfirmStep
  <2>2. versions' = versions /\ extracted' = extracted
    BY <1>6 DEF Confirm
  <2>3. Good(t)
    BY <1>c, <1>v, <2>1, <2>2 DEF RowOK
  <2> HIDE DEF Good
  <2> QED
    BY <1>2, <2>1, <2>2, <2>3
<1>7. ASSUME NEW u \in Users, Extract(u) PROVE UsersOK'
  <2>1. PICK t \in UserStates :
           /\ user' = [user EXCEPT ![u] = t] /\ t.phase = "loaded" /\ t.version = Current
           /\ t.seen = versions[Current] /\ t.seen \in Rows /\ t.wants \in Rows /\ Extracts(t)
    BY <1>i, <1>7, ExtractStep
  <2>2. versions' = versions /\ extracted' = extracted \cup {Current}
    BY <1>7 DEF Extract
  <2>3. Good(t)
    BY <1>c, <1>v, <2>1, <2>2 DEF RowOK
  <2> HIDE DEF Good
  <2> QED
    BY <1>2, <2>1, <2>2, <2>3
<1>8. ASSUME NEW u \in Users, Save(u) PROVE UsersOK'
  <2>1. /\ user[u].version \in Versions
        /\ \A w \in Versions \ {user[u].version} : versions'[w] = versions[w]
    BY <1>i, <1>8, SaveEffect
  <2>2. user' = [user EXCEPT ![u] = Idle]
    BY <1>8 DEF Save
  <2>3. ASSUME NEW q \in Users \ {u}, user[q].phase = "loaded"
        PROVE  \/ versions'[user[q].version] = versions[user[q].version]
               \/ user[q].version \in overlapped'
    <3>1. user[q].version \in Versions
      BY <1>i, <2>3 DEF UsersOK, UserOK
    <3>2. CASE user[q].version = user[u].version
      BY <1>8, <2>3, <3>2 DEF Save
    <3>3. CASE user[q].version # user[u].version
      BY <2>1, <3>1, <3>3
    <3> QED
      BY <3>2, <3>3
  <2> HIDE DEF Good
  <2>4. ASSUME NEW q \in Users PROVE Good(user'[q])
    BY <1>i, <1>s, <1>d, <2>2, <2>3, IdleType DEF TypeOK
  <2> QED
    BY <2>4, <1>g
<1>9. ASSUME \/ \E j \in Jobs, v \in Versions, given \in Payloads : Submit(j, v, given)
             \/ \E j \in Jobs, i \in Jobs : Reuse(j, i)
             \/ \E j \in Jobs : Enqueue(j) \/ Claim(j) \/ Render(j) \/ Retry(j)
      PROVE  UsersOK'
  <2>1. versions' = versions /\ user' = user
    BY <1>9 DEF Submit, Reuse, Enqueue, Claim, Render, Retry
  <2> QED
    BY <2>1, <1>1
<1>10. CASE UNCHANGED vars
  BY <1>10, <1>1 DEF vars
<1> QED
  BY <1>3, <1>4, <1>5, <1>6, <1>7, <1>8, <1>9, <1>10 DEF Next


-----------------------------------------------------------------------------
(* Rows of versions *)

\* The first version is a new one.
LEMMA RowsInit == Init => RowsOK
<1> SUFFICES ASSUME Init PROVE RowsOK
  OBVIOUS
<1>1. PICK f \in Files : versions = <<NewRow(f)>>
  BY DEF Init
<1>2. Versions = {1} /\ versions[1] = NewRow(f)
  BY <1>1 DEF Versions
<1> QED
  BY <1>2, NewRowType DEF RowsOK, RowOK

\* Bindings are written with the columns made from them, on the file they are of.
LEMMA RowsNext == Inv /\ [Next]_vars => RowsOK'
<1> SUFFICES ASSUME Inv, [Next]_vars PROVE RowsOK'
  OBVIOUS
<1>i. TypeOK /\ UsersOK /\ RowsOK /\ JobsOK
  BY DEF Inv
<1> DEFINE Good(v, row) ==
             /\ row.strategy = "docx_import" => row.bindings # NoBindings
             /\ row.bindings # NoBindings => row.bindings.file = row.file
             /\ RowFits(v, row, extracted', overlapped')
<1>g. (\A v \in DOMAIN versions' : Good(v, versions'[v])) => RowsOK'
  BY DEF RowsOK, RowOK, Versions
<1>v. extracted \subseteq extracted' /\ overlapped \subseteq overlapped'
  BY VersionsStep
<1>s. ASSUME NEW v \in Versions PROVE Good(v, versions[v])
  BY <1>i, <1>v, FitsLonger DEF RowsOK, RowOK
<1>1. CASE versions' = versions
  <2> HIDE DEF Good
  <2> QED
    BY <1>1, <1>s, <1>g DEF Versions
<1>2. ASSUME NEW f \in Files, Upload(f) PROVE RowsOK'
  <2>1. /\ DOMAIN versions' = 1..(Current + 1) /\ Versions = 1..Current /\ Current \in Nat
        /\ versions'[Current + 1] = NewRow(f)
        /\ \A v \in Versions : versions'[v] = versions[v]
    BY <1>i, <1>2, UploadEffect
  <2>2. Good(Current + 1, NewRow(f))
    BY NewRowType
  <2> HIDE DEF Good
  <2>3. ASSUME NEW v \in DOMAIN versions' PROVE Good(v, versions'[v])
    <3>1. v \in Versions \/ v = Current + 1
      BY <2>1
    <3> QED
      BY <1>s, <2>1, <2>2, <3>1
  <2> QED
    BY <2>3, <1>g
<1>3. ASSUME NEW u \in Users, Save(u) PROVE RowsOK'
  <2> DEFINE v == user[u].version
             seen == user[u].seen
             wants == user[u].wants
             old == versions[v]
             row == Merge(old, seen, wants)
  <2>1. /\ user[u].phase = "loaded" /\ UserOK(user[u]) /\ v \in Versions /\ old \in Rows
        /\ DOMAIN versions' = Versions /\ versions'[v] = row
        /\ \A w \in Versions \ {v} : versions'[w] = versions[w]
    BY <1>i, <1>3, SaveEffect
  <2>2. /\ seen \in Rows /\ wants \in Rows /\ seen.file = old.file
        /\ seen.bindings # NoBindings => old.bindings # NoBindings
        /\ v \notin overlapped => seen = old
        /\ seen.bindings # NoBindings => seen.bindings.file = seen.file
        /\ RowFits(v, seen, extracted, overlapped)
        /\ Confirms(user[u]) \/ (Extracts(user[u]) /\ v \in extracted)
    BY <2>1 DEF UserOK
  <2>3. RowOK(v)
    BY <1>i, <2>1 DEF RowsOK
  <2>4. /\ row.file = IF seen.file # wants.file THEN wants.file ELSE old.file
        /\ row.strategy = IF seen.strategy # wants.strategy THEN wants.strategy ELSE old.strategy
        /\ row.bindings = IF seen.bindings # wants.bindings THEN wants.bindings ELSE old.bindings
        /\ row.variables = IF seen.variables # wants.variables THEN wants.variables
                           ELSE old.variables
        /\ row.components = IF seen.components # wants.components THEN wants.components
                            ELSE old.components
    BY <2>1, <2>2, MergeColumns
  <2>5. v \notin overlapped' => row = wants
    BY <1>v, <2>2, MergeFresh
  <2>6. ASSUME Confirms(user[u]) PROVE Good(v, row)
    <3>1. PICK b \in Bindings : b.file = seen.file /\ wants = Wanted(seen, b)
      BY <2>6 DEF Confirms
    <3>2. /\ wants.file = seen.file /\ wants.strategy = "docx_import" /\ b # NoBindings
          /\ wants.bindings = b
          /\ wants.variables = Made(SchemaOf, b) /\ wants.components = Made(FormOf, b)
      BY <2>2, <3>1, WantedType, BindingsAreSome
    <3> HIDE DEF row, old, v, seen, wants
    <3>3. row.file = old.file /\ row.bindings # NoBindings
      BY <2>2, <2>4, <3>2
    <3>4. row.bindings.file = row.file
      BY <2>2, <2>3, <2>4, <3>1, <3>2, <3>3 DEF RowOK, old
    <3>5. seen.bindings \in Bindings \cup {NoBindings}
      BY <2>2 DEF Rows
    <3>6. /\ RowFits(v, seen, extracted', overlapped')
          /\ RowFits(v, old, extracted', overlapped')
      BY <1>v, <2>2, <2>3, FitsLonger DEF RowOK, old
    <3>7. ASSUME ~Exempt(v, SchemaOf, extracted', overlapped')
          PROVE  row.variables = Made(SchemaOf, row.bindings)
      <4>1. CASE v \notin overlapped'
        BY <2>5, <3>2, <4>1
      <4>2. CASE v \in overlapped'
        <5>1. IsInjective(SchemaOf)
          BY <3>7, <4>2 DEF Exempt
        <5>2. (IF Made(SchemaOf, seen.bindings) # Made(SchemaOf, b) THEN Made(SchemaOf, b)
               ELSE Made(SchemaOf, old.bindings))
                = Made(SchemaOf, IF seen.bindings # b THEN b ELSE old.bindings)
          BY <2>2, <3>1, <3>5, <5>1, SchemasAssumption, ColumnFits
        <5>3. /\ seen.variables = Made(SchemaOf, seen.bindings)
              /\ old.variables = Made(SchemaOf, old.bindings)
          BY <3>6, <3>7 DEF RowFits
        <5> QED
          BY <2>4, <3>2, <5>2, <5>3
      <4> QED
        BY <4>1, <4>2
    <3>8. ASSUME ~Exempt(v, FormOf, extracted', overlapped')
          PROVE  row.components = Made(FormOf, row.bindings)
      <4>1. CASE v \notin overlapped'
        BY <2>5, <3>2, <4>1
      <4>2. CASE v \in overlapped'
        <5>1. IsInjective(FormOf)
          BY <3>8, <4>2 DEF Exempt
        <5>2. (IF Made(FormOf, seen.bindings) # Made(FormOf, b) THEN Made(FormOf, b)
               ELSE Made(FormOf, old.bindings))
                = Made(FormOf, IF seen.bindings # b THEN b ELSE old.bindings)
          BY <2>2, <3>1, <3>5, <5>1, SchemasAssumption, ColumnFits
        <5>3. /\ seen.components = Made(FormOf, seen.bindings)
              /\ old.components = Made(FormOf, old.bindings)
          BY <3>6, <3>8 DEF RowFits
        <5> QED
          BY <2>4, <3>2, <5>2, <5>3
      <4> QED
        BY <4>1, <4>2
    <3> QED
      BY <3>3, <3>4, <3>7, <3>8 DEF RowFits
  <2>7. ASSUME Extracts(user[u]) /\ v \in extracted PROVE Good(v, row)
    <3>1. wants.file = seen.file /\ wants.strategy = seen.strategy /\ wants.bindings = seen.bindings
      BY <2>2, <2>7, ExtractedType DEF Extracts
    <3> HIDE DEF row, old, v, seen, wants
    <3>2. row.file = old.file /\ row.strategy = old.strategy /\ row.bindings = old.bindings
      BY <2>4, <3>1
    <3>3. RowFits(v, row, extracted', overlapped')
      BY <1>v, <2>7 DEF RowFits, Exempt
    <3> QED
      BY <1>v, <2>3, <2>7, <3>2, <3>3 DEF RowOK, old
  <2>8. Good(v, row)
    BY <2>2, <2>6, <2>7
  <2> HIDE DEF row, old, v, seen, wants, Good
  <2>9. ASSUME NEW w \in DOMAIN versions' PROVE Good(w, versions'[w])
    BY <1>s, <2>1, <2>8
  <2> QED
    BY <2>9, <1>g
<1> QED
  BY <1>1, <1>2, <1>3, VersionsStep

-----------------------------------------------------------------------------
(* Jobs *)

\* Initially there are no jobs.
LEMMA JobsInit == Init => JobsOK
BY DEF Init, JobsOK, JobOK, NoJob

\* What a job has been submitted, claimed or completed with stays among the bindings of
\* its version since then.
LEMMA JobsNext == Inv /\ [Next]_vars => JobsOK'
<1> SUFFICES ASSUME Inv, [Next]_vars PROVE JobsOK'
  OBVIOUS
<1>i. TypeOK /\ UsersOK /\ RowsOK /\ JobsOK
  BY DEF Inv
<1>t. \A j \in Jobs : job[j] \in JobStates /\ JobOK(j)
  BY <1>i DEF TypeOK, JobsOK
<1> DEFINE Good(g) ==
             g.phase # "new" =>
               /\ g.version \in DOMAIN versions'
               /\ KeysAt(versions'[g.version].bindings) \in g.since
               /\ g.mode = "docx_import" =>
                    /\ versions'[g.version].bindings # NoBindings
                    /\ g.phase \in {"submitted", "rendering"} =>
                         /\ g.filled = KeysOf[g.context.layout]
                         /\ g.filled \in g.since
                    /\ g.phase = "completed" =>
                         /\ g.source = versions'[g.version].file
                         /\ g.filled = KeysOf[g.result.layout]
                         /\ g.filled \in g.since
<1>g. (\A j \in Jobs : Good(job'[j])) => JobsOK'
  BY DEF JobsOK, JobOK, Versions
<1>v. /\ Versions \subseteq DOMAIN versions'
      /\ \A v \in Versions :
           /\ versions'[v].file = versions[v].file
           /\ versions[v].bindings # NoBindings => versions'[v].bindings # NoBindings
  BY VersionsStep
<1>s. ASSUME NEW j \in Jobs,
             job[j].phase # "new" =>
               versions'[job[j].version].bindings = versions[job[j].version].bindings
      PROVE  Good(job[j])
  BY <1>t, <1>v, <1>s DEF JobOK
<1>1. ASSUME versions' = versions, job' = job PROVE JobsOK'
  <2>1. \A j \in Jobs : Good(job[j])
    BY <1>1, <1>s
  <2> HIDE DEF Good
  <2> QED
    BY <1>1, <2>1, <1>g
<1>2. ASSUME versions' = versions, NEW j \in Jobs, NEW g, job' = [job EXCEPT ![j] = g], Good(g)
      PROVE  JobsOK'
  <2>1. \A i \in Jobs : Good(job[i])
    BY <1>2, <1>s
  <2> HIDE DEF Good
  <2>2. ASSUME NEW i \in Jobs PROVE Good(job'[i])
    BY <1>i, <1>2, <2>1 DEF TypeOK
  <2> QED
    BY <2>2, <1>g
<1>3. ASSUME NEW f \in Files, Upload(f) PROVE JobsOK'
  <2>1. job' = job
    BY <1>3 DEF Upload
  <2>2. \A v \in Versions : versions'[v] = versions[v]
    BY <1>i, <1>3, UploadEffect
  <2>3. ASSUME NEW j \in Jobs PROVE Good(job[j])
    <3>1. job[j].phase # "new" => job[j].version \in Versions
      BY <1>t DEF JobOK
    <3> HIDE DEF Good
    <3> QED
      BY <1>s, <2>2, <3>1
  <2> HIDE DEF Good
  <2> QED
    BY <2>1, <2>3, <1>g
<1>4. ASSUME NEW u \in Users, Save(u) PROVE JobsOK'
  <2> DEFINE v == user[u].version
             b == Merge(versions[v], user[u].seen, user[u].wants).bindings
  <2>1. /\ v \in Versions /\ versions'[v].bindings = b
        /\ \A w \in Versions \ {v} : versions'[w] = versions[w]
    BY <1>i, <1>4, SaveEffect
  <2>2. \A j \in Jobs : job'[j] = IF job[j].version = v THEN [job[j] EXCEPT !.since = @ \cup {KeysAt(b)}]
                                  ELSE job[j]
    BY <1>i, <1>4, SaveJobs
  <2> HIDE DEF v, b
  <2>3. ASSUME NEW j \in Jobs, job[j].version = v PROVE Good(job'[j])
    <3> DEFINE g == [job[j] EXCEPT !.since = @ \cup {KeysAt(b)}]
    <3>1. job'[j] = g
      BY <2>2, <2>3
    <3>2. /\ g.phase = job[j].phase /\ g.mode = job[j].mode /\ g.version = job[j].version
          /\ g.context = job[j].context /\ g.filled = job[j].filled /\ g.source = job[j].source
          /\ g.result = job[j].result /\ g.since = job[j].since \cup {KeysAt(b)}
      BY <1>t DEF JobStates
    <3> HIDE DEF g
    <3>3. Good(g)
      BY <1>t, <1>v, <2>1, <2>3, <3>2 DEF JobOK
    <3> QED
      BY <3>1, <3>3
  <2>4. ASSUME NEW j \in Jobs, job[j].version # v PROVE Good(job'[j])
    <3>1. job[j].phase # "new" => job[j].version \in Versions
      BY <1>t DEF JobOK
    <3> HIDE DEF Good
    <3> QED
      BY <1>s, <2>1, <2>2, <2>4, <3>1
  <2> HIDE DEF Good
  <2> QED
    BY <2>3, <2>4, <1>g
<1>5. ASSUME NEW j \in Jobs, NEW v \in Versions, NEW given \in Payloads, Submit(j, v, given)
      PROVE  JobsOK'
  <2> DEFINE row == versions[v]
             new == [NoJob EXCEPT !.phase = "submitted", !.mode = row.strategy, !.version = v,
                       !.data = given, !.context = row.bindings,
                       !.filled = Payload(row.strategy, row.bindings, given),
                       !.since = {KeysAt(row.bindings)}]
  <2>1. /\ job' = [job EXCEPT ![j] = new]
        /\ row.strategy = "docx_import" => row.bindings \in Bindings
    BY <1>i, <1>5, SubmitStep
  <2>2. versions' = versions
    BY <1>5 DEF Submit
  <2>3. /\ new.phase = "submitted" /\ new.mode = row.strategy /\ new.version = v
        /\ new.context = row.bindings /\ new.filled = Payload(row.strategy, row.bindings, given)
        /\ new.since = {KeysAt(row.bindings)}
    BY DEF NoJob
  <2>4. row.strategy = "docx_import" =>
          /\ row.bindings # NoBindings
          /\ new.filled = KeysOf[row.bindings.layout] /\ new.filled = KeysAt(row.bindings)
    BY <2>1, <2>3, BindingsAreSome DEF Payload, KeysAt
  <2>5. v \in DOMAIN versions' /\ versions'[v] = row
    BY <2>2 DEF Versions
  <2> HIDE DEF new, row
  <2>6. Good(new)
    BY <2>3, <2>4, <2>5
  <2> HIDE DEF Good
  <2> QED
    BY <1>2, <2>1, <2>2, <2>6
<1>6. ASSUME NEW j \in Jobs, NEW i \in Jobs, Reuse(j, i) PROVE JobsOK'
  <2> DEFINE g == [job[j] EXCEPT !.phase = "completed", !.context = NoBindings,
                     !.source = job[i].source, !.result = job[i].result]
  <2>1. /\ versions' = versions /\ job' = [job EXCEPT ![j] = g]
        /\ job[j].phase = "submitted" /\ job[i].phase = "completed"
        /\ job[i].version = job[j].version /\ job[i].mode = job[j].mode
        /\ job[i].filled = job[j].filled
    BY <1>6 DEF Reuse, SameKey
  <2>2. /\ g.phase = "completed" /\ g.mode = job[j].mode /\ g.version = job[j].version
        /\ g.filled = job[j].filled /\ g.source = job[i].source /\ g.result = job[i].result
        /\ g.since = job[j].since
    BY <1>t DEF JobStates
  <2>3. JobOK(j) /\ JobOK(i)
    BY <1>t
  <2> HIDE DEF g
  <2>4. Good(g)
    BY <2>1, <2>2, <2>3 DEF JobOK, Versions
  <2> HIDE DEF Good
  <2> QED
    BY <1>2, <2>1, <2>4
<1>7. ASSUME NEW j \in Jobs, Enqueue(j) \/ Retry(j) PROVE JobsOK'
  <2> DEFINE g == [job[j] EXCEPT !.phase = "queued", !.context = NoBindings]
  <2>1. /\ versions' = versions /\ job' = [job EXCEPT ![j] = g]
        /\ job[j].phase \in {"submitted", "rendering"}
    BY <1>7 DEF Enqueue, Retry
  <2>2. /\ g.phase = "queued" /\ g.mode = job[j].mode /\ g.version = job[j].version
        /\ g.since = job[j].since
    BY <1>t DEF JobStates
  <2> HIDE DEF g
  <2>3. Good(g)
    BY <1>t, <2>1, <2>2 DEF JobOK, Versions
  <2> HIDE DEF Good
  <2> QED
    BY <1>2, <2>1, <2>3
<1>8. ASSUME NEW j \in Jobs, Claim(j) PROVE JobsOK'
  <2> DEFINE row == versions[job[j].version]
             new == [job[j] EXCEPT !.phase = "rendering", !.context = row.bindings,
                       !.filled = Payload(job[j].mode, row.bindings, job[j].data)]
             lost == [job[j] EXCEPT !.phase = "failed", !.context = NoBindings]
  <2>1. /\ job[j].phase = "queued" /\ JobOK(j)
        /\ job[j].mode = "docx_import" => row.bindings \in Bindings
        /\ \/ job' = [job EXCEPT ![j] = new]
           \/ job' = [job EXCEPT ![j] = lost]
    BY <1>i, <1>8, ClaimStep
  <2>2. versions' = versions
    BY <1>8 DEF Claim
  <2>3. /\ new.phase = "rendering" /\ new.mode = job[j].mode /\ new.version = job[j].version
        /\ new.context = row.bindings /\ new.since = job[j].since
        /\ new.filled = Payload(job[j].mode, row.bindings, job[j].data)
    BY <1>t DEF JobStates
  <2>4. /\ lost.phase = "failed" /\ lost.mode = job[j].mode /\ lost.version = job[j].version
        /\ lost.since = job[j].since
    BY <1>t DEF JobStates
  <2>5. job[j].mode = "docx_import" =>
          new.filled = KeysOf[row.bindings.layout] /\ new.filled = KeysAt(row.bindings)
    BY <2>1, <2>3, BindingsAreSome DEF Payload, KeysAt
  <2> HIDE DEF new, lost
  <2>6. Good(lost)
    BY <2>1, <2>2, <2>4 DEF JobOK, Versions
  <2>7. Good(new)
    BY <2>1, <2>2, <2>3, <2>5 DEF JobOK, Versions
  <2> HIDE DEF Good
  <2> QED
    BY <1>2, <2>1, <2>2, <2>6, <2>7
<1>9. ASSUME NEW j \in Jobs, Render(j) PROVE JobsOK'
  <2> DEFINE source == versions[job[j].version].file
             plain == [job[j] EXCEPT !.phase = "completed", !.context = NoBindings]
             lost == [job[j] EXCEPT !.phase = "failed", !.context = NoBindings]
             new == [job[j] EXCEPT !.phase = "completed", !.context = NoBindings,
                       !.source = source, !.result = job[j].context]
  <2>1. /\ job[j].phase = "rendering" /\ JobOK(j)
        /\ \/ job[j].mode # "docx_import" /\ job' = [job EXCEPT ![j] = plain]
           \/ job' = [job EXCEPT ![j] = lost]
           \/ job' = [job EXCEPT ![j] = new]
    BY <1>i, <1>9, RenderStep
  <2>2. versions' = versions
    BY <1>9 DEF Render
  <2>3. /\ plain.phase = "completed" /\ plain.mode = job[j].mode
        /\ plain.version = job[j].version /\ plain.since = job[j].since
        /\ lost.phase = "failed" /\ lost.mode = job[j].mode
        /\ lost.version = job[j].version /\ lost.since = job[j].since
    BY <1>t DEF JobStates
  <2>4. /\ new.phase = "completed" /\ new.mode = job[j].mode /\ new.version = job[j].version
        /\ new.filled = job[j].filled /\ new.source = source /\ new.result = job[j].context
        /\ new.since = job[j].since
    BY <1>t DEF JobStates
  <2> HIDE DEF plain, lost, new
  <2>5. Good(lost)
    BY <2>1, <2>2, <2>3 DEF JobOK, Versions
  <2>6. job[j].mode # "docx_import" => Good(plain)
    BY <2>1, <2>2, <2>3 DEF JobOK, Versions
  <2>7. Good(new)
    BY <2>1, <2>2, <2>4 DEF JobOK, Versions
  <2> HIDE DEF Good
  <2> QED
    BY <1>2, <2>1, <2>2, <2>5, <2>6, <2>7
<1>10. ASSUME \/ \E u \in Users, f \in Files : Review(u, f)
              \/ \E u \in Users, l \in Layouts : Confirm(u, l)
              \/ \E u \in Users : Refuse(u) \/ Extract(u) \/ Fail(u)
       PROVE  JobsOK'
  <2>1. versions' = versions /\ job' = job
    BY <1>10 DEF Review, Confirm, Refuse, Extract, Fail
  <2> QED
    BY <2>1, <1>1
<1>11. CASE UNCHANGED vars
  BY <1>11, <1>1 DEF vars
<1> HIDE DEF Good
<1> QED
  BY <1>3, <1>4, <1>5, <1>6, <1>7, <1>8, <1>9, <1>10, <1>11 DEF Next

-----------------------------------------------------------------------------
(* Theorems *)

\* The conjuncts of Inv together are kept by every step of every instance.
THEOREM ImportInvCorrect == Spec => []Inv
<1>1. Init => Inv
  BY TypeInit, UsersInit, RowsInit, JobsInit DEF Inv
<1>2. Inv /\ [Next]_vars => Inv'
  BY TypeNext, UsersNext, RowsNext, JobsNext DEF Inv
<1> QED
  BY <1>1, <1>2, PTL DEF Spec

\* Requests, versions and jobs only take the shapes that TypeOK describes.
THEOREM ImportTypeCorrect == Spec => []TypeOK
<1>1. Inv => TypeOK
  BY DEF Inv
<1> QED
  BY <1>1, ImportInvCorrect, PTL

\* The bindings of a version are of its file, however uploads, reviews and confirmations of
\* any number of users interleave (confirm compares the checksums).
THEOREM BindingsFitFileCorrect == Spec => []BindingsFitFile
<1>1. Inv => BindingsFitFile
  BY DEF Inv, RowsOK, RowOK, BindingsFitFile
<1> QED
  BY <1>1, ImportInvCorrect, PTL

\* The columns of an imported version are made from its bindings until its schema is
\* extracted: always if changes do not overlap, and if different bindings make different
\* columns also when they do (update_import_configuration writes what differs).
THEOREM SchemaFitsCorrect == Spec => []SchemaFitsBindings
<1>1. Inv => SchemaFitsBindings
  BY DEF Inv, RowsOK, RowOK, RowFits, Exempt, SchemaFitsBindings
<1> QED
  BY <1>1, ImportInvCorrect, PTL

\* A completed import has the file of its version, filled at the keys of bindings the
\* version had since the submission, for any number of retries and reuses.
THEOREM DeliversConfirmedCorrect == Spec => []DeliversConfirmed
<1>1. Inv => DeliversConfirmed
  BY DEF Inv, JobsOK, JobOK, Completed, DeliversConfirmed
<1> QED
  BY <1>1, ImportInvCorrect, PTL


-----------------------------------------------------------------------------
(* The analysis of a file, of DocxImport                                     *)

\* What surrounds what, as FieldsNest says it of two fields.
Encloses(k, s, e, k2, s2, e2) ==
  /\ s < s2 /\ e2 < e
  /\ \/ k = "bracketed_label" /\ k2 # "bracketed_label"
     \/ k = "existing_placeholder" /\ k2 = "blank_span"

\* What a pattern has found of a text: the tokens at both ends and between them.
Shape(text, k, s, e) ==
  \/ k = "blank_span" /\ <<s, e>> \in Ranges(text) /\ BlankAt(text, s, e)
  \/ k = "existing_placeholder" /\ PlaceholderAt(text, s, e)
  \/ k = "bracketed_label" /\ BracketAt(text, s, e)

\* A field has the shape of its pattern.
LEMMA FieldShape ==
  ASSUME NEW text, NEW p, NEW k \in DetectionKinds, NEW s, NEW e, FieldAt(p, text, k, s, e),
         <<s, e>> \in Ranges(text)
  PROVE  Shape(text, k, s, e)
BY DEF FieldAt, DetectionKinds, Shape

\* A blank neither begins nor ends with a placeholder or a bracket, nor across their ends.
LEMMA BlankApart ==
  ASSUME NEW text, NEW k, NEW s \in Int, NEW e \in Int, NEW t \in Int, NEW u \in Int, t <= u,
         Shape(text, k, s, e), k # "blank_span", BlankAt(text, t, u)
  PROVE  e < t \/ u < s \/ Encloses(k, s, e, "blank_span", t, u)
<1>1. \A i \in t..u : text[i] \in {"blank", "dots"}
  BY DEF BlankAt, Alike
<1>2. CASE k = "existing_placeholder"
  <2>1. text[s] = "lbrace" /\ text[e] = "rbrace" /\ s < e
    BY <1>2 DEF Shape, PlaceholderAt
  <2>2. s \notin t..u /\ e \notin t..u
    BY <1>1, <2>1
  <2> QED
    BY <1>2, <2>1, <2>2 DEF Encloses
<1>3. CASE k = "bracketed_label"
  <2>1. text[s] = "open" /\ text[e] = "close" /\ s < e
    BY <1>3 DEF Shape, BracketAt
  <2>2. s \notin t..u /\ e \notin t..u
    BY <1>1, <2>1
  <2> QED
    BY <1>3, <2>1, <2>2 DEF Encloses
<1> QED
  BY <1>2, <1>3 DEF Shape

\* Two longest stretches that meet are one.
LEMMA BlanksApart ==
  ASSUME NEW text, NEW s1, NEW e1, NEW s2, NEW e2,
         <<s1, e1>> \in Ranges(text), <<s2, e2>> \in Ranges(text),
         BlankAt(text, s1, e1), BlankAt(text, s2, e2), s1 # s2 \/ e1 # e2
  PROVE  e1 < s2 \/ e2 < s1
<1>1. /\ s1 \in 1..Len(text) /\ e1 \in 1..Len(text) /\ s1 \in Int /\ e1 \in Int /\ s1 <= e1
      /\ s2 \in 1..Len(text) /\ e2 \in 1..Len(text) /\ s2 \in Int /\ e2 \in Int /\ s2 <= e2
  BY DEF Ranges
<1> SUFFICES ASSUME s2 <= e1, s1 <= e2 PROVE FALSE
  BY <1>1
<1> DEFINE s == IF s1 <= s2 THEN s1 ELSE s2
           e == IF e1 <= e2 THEN e2 ELSE e1
<1>2. s \in 1..Len(text) /\ e \in 1..Len(text) /\ s <= e
  BY <1>1
<1>3. <<s, e>> \in Ranges(text)
  BY <1>2 DEF Ranges
<1>4. text[s2] = text[s1]
  <2>1. CASE s1 <= s2
    BY <1>1, <2>1 DEF BlankAt, Alike
  <2>2. CASE s2 <= s1
    BY <1>1, <2>2 DEF BlankAt, Alike
  <2> QED
    BY <1>1, <2>1, <2>2
<1>5. ASSUME NEW i \in s..e PROVE text[i] = text[s1]
  <2>1. i \in s1..e1 \/ i \in s2..e2
    BY <1>1
  <2> QED
    BY <1>4, <2>1 DEF BlankAt, Alike
<1>6. text[s] = text[s1]
  BY <1>4
<1>7. s <= s1 /\ e1 <= e /\ s <= s2 /\ e2 <= e
  BY <1>1
<1> HIDE DEF s, e
<1>8. Alike(text, s, e)
  BY <1>5, <1>6 DEF Alike
<1>9. <<s, e>> = <<s1, e1>> /\ <<s, e>> = <<s2, e2>>
  BY <1>3, <1>7, <1>8 DEF BlankAt
<1> QED
  BY <1>9

\* Two spans each of which ends at the first token that may end it, and has inside no
\* token that may begin it, are apart if they are not the same.
LEMMA PairApart ==
  ASSUME NEW text, NEW first, NEW last, first # last,
         NEW s1 \in Int, NEW e1 \in Int, s1 < e1, NEW s2 \in Int, NEW e2 \in Int, s2 < e2,
         text[s1] = first, text[e1] = last, text[s2] = first, text[e2] = last,
         \A i \in (s1 + 1)..(e1 - 1) : text[i] \notin {first, last},
         \A i \in (s2 + 1)..(e2 - 1) : text[i] \notin {first, last},
         s1 # s2 \/ e1 # e2
  PROVE  e1 < s2 \/ e2 < s1
<1>1. ~(s1 < s2 /\ s2 < e1) /\ ~(s2 < s1 /\ s1 < e2)
  OBVIOUS
<1>2. ~(s1 < e2 /\ e2 < e1) /\ ~(s2 < e1 /\ e1 < e2)
  OBVIOUS
<1>3. s1 # e2 /\ s2 # e1
  OBVIOUS
<1> QED
  BY <1>1, <1>2, <1>3

\* A bracket is around a placeholder or apart from it: a key has no brackets.
LEMMA PlaceholderInBracket ==
  ASSUME NEW text, NEW s1 \in Int, NEW e1 \in Int, NEW s2 \in Int, NEW e2 \in Int,
         BracketAt(text, s1, e1), PlaceholderAt(text, s2, e2)
  PROVE  e1 < s2 \/ e2 < s1 \/ (s1 < s2 /\ e2 < e1)
<1>1. text[s1] = "open" /\ text[e1] = "close" /\ s1 < e1 /\ s2 < e2
  BY DEF BracketAt, PlaceholderAt
<1>2. \A i \in s2..e2 : text[i] \notin {"open", "close"}
  <2> SUFFICES ASSUME NEW i \in s2..e2 PROVE text[i] \notin {"open", "close"}
    OBVIOUS
  <2>1. i = s2 \/ i = e2 \/ i \in (s2 + 1)..(e2 - 1)
    OBVIOUS
  <2>2. text[i] \in {"lbrace", "rbrace", "word", "number", "blank", "dots"}
    BY <2>1 DEF PlaceholderAt
  <2> QED
    BY <2>2
<1>3. s1 \notin s2..e2 /\ e1 \notin s2..e2
  BY <1>1, <1>2
<1> QED
  BY <1>1, <1>3

\* Fields of one text at different positions or of different patterns.
LEMMA TwoFields ==
  ASSUME NEW text,
         NEW k1, NEW s1 \in Int, NEW e1 \in Int, Shape(text, k1, s1, e1),
         NEW k2, NEW s2 \in Int, NEW e2 \in Int, Shape(text, k2, s2, e2),
         ~(k1 = k2 /\ s1 = s2 /\ e1 = e2)
  PROVE  e1 < s2 \/ e2 < s1 \/ Encloses(k1, s1, e1, k2, s2, e2) \/ Encloses(k2, s2, e2, k1, s1, e1)
<1>1. CASE k1 = "blank_span" /\ k2 = "blank_span"
  <2>1. /\ <<s1, e1>> \in Ranges(text) /\ BlankAt(text, s1, e1)
        /\ <<s2, e2>> \in Ranges(text) /\ BlankAt(text, s2, e2)
    BY <1>1 DEF Shape
  <2> QED
    BY <1>1, <2>1, BlanksApart
<1>2. CASE k1 # "blank_span" /\ k2 = "blank_span"
  <2>1. s2 <= e2 /\ BlankAt(text, s2, e2)
    BY <1>2 DEF Shape, Ranges
  <2> QED
    BY <1>2, <2>1, BlankApart
<1>7. CASE k1 = "blank_span" /\ k2 # "blank_span"
  <2>1. s1 <= e1 /\ BlankAt(text, s1, e1)
    BY <1>7 DEF Shape, Ranges
  <2> QED
    BY <1>7, <2>1, BlankApart
<1>3. CASE k1 = "bracketed_label" /\ k2 = "bracketed_label"
  <2>1. BracketAt(text, s1, e1) /\ BracketAt(text, s2, e2)
    BY <1>3 DEF Shape
  <2>2. s1 < e1 /\ s2 < e2 /\ (s1 # s2 \/ e1 # e2)
    BY <1>3, <2>1 DEF BracketAt
  <2> QED
    BY <2>1, <2>2, PairApart DEF BracketAt, Brackets
<1>4. CASE k1 = "existing_placeholder" /\ k2 = "existing_placeholder"
  <2>1. PlaceholderAt(text, s1, e1) /\ PlaceholderAt(text, s2, e2)
    BY <1>4 DEF Shape
  <2>2. /\ \A i \in (s1 + 1)..(e1 - 1) : text[i] \notin {"lbrace", "rbrace"}
        /\ \A i \in (s2 + 1)..(e2 - 1) : text[i] \notin {"lbrace", "rbrace"}
    BY <2>1 DEF PlaceholderAt
  <2>3. s1 < e1 /\ s2 < e2 /\ (s1 # s2 \/ e1 # e2)
    BY <1>4, <2>1 DEF PlaceholderAt
  <2> QED
    BY <2>1, <2>2, <2>3, PairApart DEF PlaceholderAt
<1>5. CASE k1 = "bracketed_label" /\ k2 = "existing_placeholder"
  <2>1. BracketAt(text, s1, e1) /\ PlaceholderAt(text, s2, e2)
    BY <1>5 DEF Shape
  <2> QED
    BY <1>5, <2>1, PlaceholderInBracket DEF Encloses
<1>6. CASE k1 = "existing_placeholder" /\ k2 = "bracketed_label"
  <2>1. PlaceholderAt(text, s1, e1) /\ BracketAt(text, s2, e2)
    BY <1>6 DEF Shape
  <2> QED
    BY <1>6, <2>1, PlaceholderInBracket DEF Encloses
<1> QED
  BY <1>1, <1>2, <1>3, <1>4, <1>5, <1>6, <1>7 DEF Shape

\* What is known of a field: where it was found.
LEMMA FieldOf ==
  ASSUME NEW c, c \in UNION {Fields(path) : path \in Paths}
  PROVE  /\ c.kind \in DetectionKinds
         /\ c.start \in Int /\ c.end \in Int /\ c.start <= c.end
         /\ <<c.start, c.end>> \in Ranges(TextAt(c.path))
         /\ FieldAt(PlaceOf(c.path), TextAt(c.path), c.kind, c.start, c.end)
         /\ c = Span(c.path, TextAt(c.path), c.kind, c.start, c.end)
<1>1. PICK path \in Paths : c \in Fields(path)
  OBVIOUS
<1> DEFINE text == TextAt(path)
<1>2. PICK kind \in DetectionKinds :
        c \in {Span(path, text, kind, q[1], q[2]) :
                 q \in {r \in Ranges(text) :
                          FieldAt(PlaceOf(path), text, kind, r[1], r[2])}}
  BY <1>1 DEF Fields
<1>3. PICK q \in Ranges(text) :
        /\ FieldAt(PlaceOf(path), text, kind, q[1], q[2])
        /\ c = Span(path, text, kind, q[1], q[2])
  BY <1>2
<1>4. q[1] \in Int /\ q[2] \in Int /\ q[1] <= q[2] /\ <<q[1], q[2]>> \in Ranges(text)
  BY DEF Ranges
<1>5. c.path = path /\ c.kind = kind /\ c.start = q[1] /\ c.end = q[2]
  BY <1>3 DEF Span
<1> QED
  BY <1>3, <1>4, <1>5

\* The fields the analysis finds in a document.
LEMMA FoundNest ==
  ASSUME NEW c \in UNION {Fields(path) : path \in Paths},
         NEW d \in UNION {Fields(path) : path \in Paths}, c # d, c.path = d.path
  PROVE  c.end < d.start \/ d.end < c.start \/ Surrounds(c, d) \/ Surrounds(d, c)
<1> DEFINE text == TextAt(c.path)
<1>1. /\ c.kind \in DetectionKinds /\ c.start \in Int /\ c.end \in Int
      /\ <<c.start, c.end>> \in Ranges(TextAt(c.path))
      /\ FieldAt(PlaceOf(c.path), text, c.kind, c.start, c.end)
      /\ c = Span(c.path, text, c.kind, c.start, c.end)
  BY FieldOf
<1>2. /\ d.kind \in DetectionKinds /\ d.start \in Int /\ d.end \in Int
      /\ <<d.start, d.end>> \in Ranges(TextAt(d.path))
      /\ FieldAt(PlaceOf(d.path), text, d.kind, d.start, d.end)
      /\ d = Span(d.path, text, d.kind, d.start, d.end)
  BY FieldOf
<1> HIDE DEF text
<1>3. ~(c.kind = d.kind /\ c.start = d.start /\ c.end = d.end)
  BY <1>1, <1>2
<1>4. Shape(text, c.kind, c.start, c.end) /\ Shape(text, d.kind, d.start, d.end)
  BY <1>1, <1>2, FieldShape DEF text
<1>5. \/ c.end < d.start \/ d.end < c.start
      \/ Encloses(c.kind, c.start, c.end, d.kind, d.start, d.end)
      \/ Encloses(d.kind, d.start, d.end, c.kind, c.start, c.end)
  BY <1>1, <1>2, <1>3, <1>4, TwoFields
<1> QED
  BY <1>5 DEF Encloses, Surrounds

\* Fields nest, however the document is built (_extract_candidates).
THEOREM FieldsNestCorrect == DocxSpec => []FieldsNest
<1>1. DocxInit => FieldsNest
  BY DEF DocxInit, FieldsNest
<1>2. FieldsNest /\ [DocxNext]_docxVars => FieldsNest'
  <2> SUFFICES ASSUME FieldsNest, [DocxNext]_docxVars PROVE FieldsNest'
    OBVIOUS
  <2>1. CASE Analyze
    <3>1. candidates' = UNION {Fields(path) : path \in Paths}
      BY <2>1 DEF Analyze
    <3> QED
      BY <3>1, FoundNest DEF FieldsNest
  <2>2. CASE UNCHANGED candidates
    BY <2>2 DEF FieldsNest
  <2>3. CASE ConfirmSpans
    BY <2>2, <2>3 DEF ConfirmSpans
  <2>4. CASE Templateize
    BY <2>2, <2>4 DEF Templateize
  <2>5. CASE SubmitValues
    BY <2>2, <2>5 DEF SubmitValues
  <2>6. CASE Load
    BY <2>2, <2>6 DEF Load
  <2>7. CASE Replace
    BY <2>2, <2>7 DEF Replace
  <2>8. CASE SaveDocument
    BY <2>2, <2>8 DEF SaveDocument
  <2>9. CASE UNCHANGED docxVars
    BY <2>2, <2>9 DEF docxVars
  <2> QED
    BY <2>1, <2>3, <2>4, <2>5, <2>6, <2>7, <2>8, <2>9 DEF DocxNext
<1> QED
  BY <1>1, <1>2, PTL DEF DocxSpec

-----------------------------------------------------------------------------
(* Least positions, and functions defined by recursion on a position *)

\* A set of natural numbers has a least one.
LEMMA LeastNatural ==
  ASSUME NEW T \in SUBSET Nat, T # {}
  PROVE  \E n \in T : \A m \in T : n <= m
<1> DEFINE Below == {1..n : n \in T}
           R == StrictSubsetOrdering(Nat)
<1>1. Below \subseteq FiniteSubsetsOf(Nat)
  <2> SUFFICES ASSUME NEW n \in T PROVE 1..n \in FiniteSubsetsOf(Nat)
    OBVIOUS
  <2>1. IsFiniteSet(1..n)
    BY FS_Interval
  <2> QED
    BY <2>1 DEF FiniteSubsetsOf
<1>2. PICK B \in Below : \A C \in Below : <<C, B>> \notin R
  <2>1. Below # {}
    OBVIOUS
  <2> HIDE DEF Below, R
  <2> QED
    BY <1>1, <2>1, WFMin, FS_StrictSubsetOrderingWellFounded DEF R
<1>3. PICK n \in T : B = 1..n
  BY <1>2
<1>4. ASSUME NEW m \in T, m < n PROVE FALSE
  <2>1. 1..m \in Below
    OBVIOUS
  <2>2. /\ n \in 1..n /\ n \notin 1..m /\ 1..m \subseteq 1..n
        /\ 1..m \in SUBSET Nat /\ 1..n \in SUBSET Nat
    BY <1>4
  <2>3. <<1..m, 1..n>> \in R
    BY <2>2 DEF StrictSubsetOrdering
  <2> QED
    BY <1>2, <1>3, <2>1, <2>3
<1> QED
  BY <1>4

\* f is the function that begins with a and goes on as step tells.
Recursive(f, a, step) == f[0] = a /\ \A n \in Nat : f[n + 1] = step[<<n, f[n]>>]

\* Functions on the natural numbers may be defined by recursion.
LEMMA RecursionOnNat ==
  ASSUME NEW S, NEW a \in S, NEW step \in [Nat \X S -> S]
  PROVE  \E f \in [Nat -> S] : Recursive(f, a, step)
<1> DEFINE Begins(g, n) == /\ g \in [0..n -> S] /\ g[0] = a
                           /\ \A m \in 0..n : m < n => g[m + 1] = step[<<m, g[m]>>]
<1>1. ASSUME NEW n \in Nat PROVE \E g : Begins(g, n)
  <2> DEFINE T == {m \in Nat : ~\E g : Begins(g, m)}
  <2> SUFFICES ASSUME T # {} PROVE FALSE
    OBVIOUS
  <2>1. PICK m \in T : \A k \in T : m <= k
    BY LeastNatural
  <2>2. CASE m = 0
    <3>1. Begins([k \in 0..0 |-> a], 0)
      OBVIOUS
    <3> QED
      BY <2>1, <2>2, <3>1
  <2>3. CASE m # 0
    <3>1. m - 1 \in Nat /\ m - 1 < m /\ \E g : Begins(g, m - 1)
      <4>1. m \in Nat
        BY <2>1
      <4>2. m - 1 \in Nat /\ ~(m <= m - 1)
        BY <2>3, <4>1
      <4> HIDE DEF Begins
      <4>3. m - 1 \notin T
        <5> HIDE DEF T
        <5> QED
          BY <2>1, <4>2
      <4> QED
        BY <4>2, <4>3, <4>1
    <3>2. PICK g : Begins(g, m - 1)
      BY <3>1
    <3> DEFINE h == [k \in 0..m |-> IF k = m THEN step[<<m - 1, g[m - 1]>>] ELSE g[k]]
    <3>3. g[m - 1] \in S /\ step[<<m - 1, g[m - 1]>>] \in S
      BY <3>1, <3>2
    <3>4. h \in [0..m -> S] /\ h[0] = a
      <4>1. ASSUME NEW k \in 0..m, k # m PROVE k \in 0..(m - 1)
        BY <2>1, <4>1
      <4>2. \A k \in 0..m : h[k] \in S
        BY <3>2, <3>3, <4>1
      <4>3. 0 \in 0..m
        BY <2>1
      <4> QED
        BY <2>3, <3>2, <4>2, <4>3
    <3>5. ASSUME NEW k \in 0..m, k < m PROVE h[k + 1] = step[<<k, h[k]>>]
      <4>1. CASE k = m - 1
        <5>1. k + 1 = m /\ m \in 0..m /\ k # m /\ m \in Nat
          BY <2>1, <3>1, <4>1
        <5>2. h[m] = step[<<m - 1, g[m - 1]>>] /\ h[k] = g[k]
          BY <5>1
        <5> HIDE DEF h
        <5> QED
          BY <4>1, <5>1, <5>2
      <4>2. CASE k # m - 1
        <5>1. k \in 0..(m - 1) /\ k < m - 1 /\ k + 1 \in 0..m /\ k + 1 # m /\ k # m
          BY <2>1, <3>5, <4>2
        <5>2. h[k + 1] = g[k + 1] /\ h[k] = g[k]
          BY <5>1, <3>5
        <5>3. g[k + 1] = step[<<k, g[k]>>]
          BY <3>2, <5>1
        <5> HIDE DEF h
        <5> QED
          BY <5>2, <5>3
      <4> QED
        BY <4>1, <4>2
    <3> HIDE DEF h
    <3>6. Begins(h, m)
      BY <3>4, <3>5
    <3> QED
      BY <2>1, <3>6
  <2> QED
    BY <2>2, <2>3
<1>2. ASSUME NEW n \in Nat, NEW m \in Nat, NEW g, NEW h, Begins(g, n), Begins(h, m),
             NEW k \in Nat, k <= n, k <= m
      PROVE  g[k] = h[k]
  <2> DEFINE T == {j \in Nat : j <= n /\ j <= m /\ g[j] # h[j]}
  <2> SUFFICES ASSUME T # {} PROVE FALSE
    BY <1>2
  <2>1. PICK j \in T : \A i \in T : j <= i
    BY LeastNatural
  <2>2. j # 0
    BY <1>2, <2>1
  <2>3. j - 1 \in Nat /\ j - 1 \notin T /\ j - 1 \in 0..n /\ j - 1 \in 0..m
    BY <2>1, <2>2
  <2>4. g[j - 1] = h[j - 1]
    BY <2>1, <2>3
  <2>5. g[(j - 1) + 1] = step[<<j - 1, g[j - 1]>>] /\ h[(j - 1) + 1] = step[<<j - 1, h[j - 1]>>]
    BY <1>2, <2>1, <2>3
  <2>6. (j - 1) + 1 = j
    BY <2>1
  <2> QED
    BY <2>1, <2>4, <2>5, <2>6
<1> DEFINE G == [n \in Nat |-> CHOOSE g : Begins(g, n)]
           f == [n \in Nat |-> G[n][n]]
<1>3. \A n \in Nat : Begins(G[n], n)
  <2> HIDE DEF Begins
  <2> QED
    BY <1>1
<1>4. ASSUME NEW n \in Nat PROVE f[n] \in S /\ f[n + 1] = step[<<n, f[n]>>]
  <2>1. n + 1 \in Nat /\ n <= n + 1 /\ n < n + 1 /\ n <= n /\ n \in 0..(n + 1) /\ n \in 0..n
    OBVIOUS
  <2>2. f[n] = G[n][n] /\ f[n + 1] = G[n + 1][n + 1]
    BY <2>1
  <2> HIDE DEF G, f
  <2>3. Begins(G[n], n) /\ Begins(G[n + 1], n + 1)
    BY <1>3, <2>1
  <2>4. G[n][n] = G[n + 1][n]
    <3> HIDE DEF Begins
    <3> QED
      BY <1>2, <2>1, <2>3
  <2>5. G[n + 1][n + 1] = step[<<n, G[n + 1][n]>>]
    BY <2>1, <2>3
  <2>6. G[n][n] \in S
    BY <2>1, <2>3
  <2> QED
    BY <2>2, <2>4, <2>5, <2>6
<1>5. f[0] = a
  <2>1. Begins(G[0], 0)
    <3> HIDE DEF Begins, G
    <3> QED
      BY <1>3
  <2>2. f[0] = G[0][0]
    OBVIOUS
  <2> HIDE DEF G, f
  <2> QED
    BY <2>1, <2>2
<1>6. f \in [Nat -> S]
  <2>1. f = [n \in Nat |-> f[n]]
    OBVIOUS
  <2>2. \A n \in Nat : f[n] \in S
    BY <1>4
  <2> HIDE DEF f
  <2> QED
    BY <2>1, <2>2
<1> HIDE DEF f
<1> QED
  BY <1>4, <1>5, <1>6 DEF Recursive

-----------------------------------------------------------------------------
(* Where runs end. *)

\* The cursor of a loop over runs.
LEMMA CursorDef ==
  ASSUME NEW S, NEW runs \in Seq(Seq(S))
  PROVE  /\ Cursor(runs) \in [0..Len(runs) -> Nat]
         /\ Cursor(runs)[0] = 0
         /\ \A k \in 1..Len(runs) : Cursor(runs)[k] = Cursor(runs)[k - 1] + Len(runs[k])
<1> DEFINE step == [p \in Nat \X Nat |->
                      IF p[1] + 1 \in 1..Len(runs) THEN p[2] + Len(runs[p[1] + 1]) ELSE p[2]]
           N == Len(runs)
           Eq(c) == c = [k \in 0..N |-> IF k = 0 THEN 0 ELSE c[k - 1] + Len(runs[k])]
<1>1. N \in Nat /\ \A k \in 1..N : Len(runs[k]) \in Nat
  OBVIOUS
<1>2. step \in [Nat \X Nat -> Nat]
  BY <1>1
<1>3. PICK f \in [Nat -> Nat] : Recursive(f, 0, step)
  <2>1. 0 \in Nat
    OBVIOUS
  <2> HIDE DEF step
  <2> QED
    BY <1>2, <2>1, RecursionOnNat
<1>4. ASSUME NEW k \in 1..N PROVE f[k] = f[k - 1] + Len(runs[k])
  <2>1. k - 1 \in Nat /\ (k - 1) + 1 = k
    BY <1>1
  <2>2. f[k] = step[<<k - 1, f[k - 1]>>]
    <3> HIDE DEF step
    <3> QED
      BY <1>3, <2>1 DEF Recursive
  <2> QED
    BY <2>1, <2>2
<1> DEFINE g == [k \in 0..N |-> f[k]]
<1>5. Eq(g)
  <2>1. ASSUME NEW k \in 0..N PROVE g[k] = IF k = 0 THEN 0 ELSE g[k - 1] + Len(runs[k])
    <3>1. CASE k = 0
      BY <1>1, <1>3, <3>1 DEF Recursive
    <3>2. CASE k # 0
      <4>1. k \in 1..N /\ k - 1 \in 0..N
        BY <1>1, <3>2
      <4> QED
        BY <1>4, <3>2, <4>1
    <3> QED
      BY <3>1, <3>2
  <2>2. g = [k \in 0..N |-> g[k]]
    OBVIOUS
  <2> HIDE DEF g
  <2> QED
    BY <2>1, <2>2
<1>6. Eq(Cursor(runs))
  <2>1. Cursor(runs) = CHOOSE c : Eq(c)
    BY DEF Cursor
  <2> HIDE DEF Eq
  <2> QED
    BY <1>5, <2>1
<1> DEFINE c == Cursor(runs)
<1>7. c[0] = 0 /\ \A k \in 1..N : c[k] = c[k - 1] + Len(runs[k])
  <2>1. 0 \in 0..N /\ \A k \in 1..N : k \in 0..N /\ k # 0
    BY <1>1
  <2> HIDE DEF c
  <2> QED
    BY <1>6, <2>1 DEF c
<1> HIDE DEF c, N
<1>8. \A k \in 0..N : c[k] \in Nat
  <2> DEFINE T == {k \in Nat : k \in 0..N /\ c[k] \notin Nat}
  <2> SUFFICES ASSUME T # {} PROVE FALSE
    BY <1>1
  <2>1. PICK k \in T : \A j \in T : k <= j
    BY LeastNatural
  <2>2. k # 0
    BY <1>7, <2>1
  <2>3. k \in 1..N /\ k - 1 \in 0..N /\ k - 1 \in Nat /\ ~(k <= k - 1)
    BY <1>1, <2>1, <2>2
  <2>4. c[k - 1] \in Nat
    BY <2>1, <2>3
  <2>5. c[k] = c[k - 1] + Len(runs[k]) /\ Len(runs[k]) \in Nat
    BY <1>1, <1>7, <2>3
  <2>6. c[k] \in Nat
    <3> HIDE DEF T
    <3>1. \A x, y : x \in Nat /\ y \in Nat => x + y \in Nat
      OBVIOUS
    <3> QED
      BY <2>4, <2>5, <3>1
  <2> QED
    BY <2>1, <2>6
<1>9. c = [k \in 0..N |-> c[k]]
  BY <1>6 DEF c, N
<1> QED
  BY <1>7, <1>8, <1>9 DEF c, N

\* It never goes back.
LEMMA CursorGrows ==
  ASSUME NEW S, NEW runs \in Seq(Seq(S)), NEW i \in 0..Len(runs), NEW j \in 0..Len(runs), i <= j
  PROVE  Cursor(runs)[i] <= Cursor(runs)[j]
<1> DEFINE c == Cursor(runs)
           T == {k \in Nat : k \in i..Len(runs) /\ ~(c[i] <= c[k])}
<1> SUFFICES ASSUME T # {} PROVE FALSE
  OBVIOUS
<1>1. PICK k \in T : \A m \in T : k <= m
  BY LeastNatural
<1>2. c \in [0..Len(runs) -> Nat] /\ \A n \in 1..Len(runs) : c[n] = c[n - 1] + Len(runs[n])
  BY CursorDef
<1> HIDE DEF c
<1>3. k # i
  BY <1>1, <1>2
<1>4. k \in 1..Len(runs) /\ k - 1 \in Nat /\ k - 1 \in i..Len(runs) /\ ~(k <= k - 1)
  BY <1>1, <1>3
<1>5. c[i] <= c[k - 1]
  BY <1>1, <1>4
<1>6. c[k] = c[k - 1] + Len(runs[k]) /\ Len(runs[k]) \in Nat
  BY <1>2, <1>4
<1>7. c[k - 1] \in Nat /\ c[i] \in Nat
  <2>1. k - 1 \in 0..Len(runs)
    BY <1>4
  <2> QED
    BY <1>2, <2>1
<1> QED
  BY <1>1, <1>5, <1>6, <1>7, SMTT(30)

\* It only depends on the runs before.
LEMMA CursorSame ==
  ASSUME NEW S, NEW r \in Seq(Seq(S)), NEW s \in Seq(Seq(S)), Len(r) = Len(s),
         NEW n \in 0..Len(r), \A k \in 1..n : Len(r[k]) = Len(s[k])
  PROVE  Cursor(r)[n] = Cursor(s)[n]
<1> DEFINE c == Cursor(r)
           d == Cursor(s)
           T == {k \in Nat : k \in 0..n /\ c[k] # d[k]}
<1> SUFFICES ASSUME T # {} PROVE FALSE
  OBVIOUS
<1>1. PICK k \in T : \A m \in T : k <= m
  BY LeastNatural
<1>2. /\ c[0] = 0 /\ \A m \in 1..Len(r) : c[m] = c[m - 1] + Len(r[m])
      /\ d[0] = 0 /\ \A m \in 1..Len(r) : d[m] = d[m - 1] + Len(s[m])
  BY CursorDef
<1> HIDE DEF c, d
<1>3. k # 0
  BY <1>1, <1>2
<1>4. k \in 1..Len(r) /\ k \in 1..n /\ k - 1 \in Nat /\ k - 1 \in 0..n /\ ~(k <= k - 1)
  BY <1>1, <1>3
<1>5. c[k - 1] = d[k - 1]
  BY <1>1, <1>4
<1> QED
  BY <1>1, <1>2, <1>4, <1>5

-----------------------------------------------------------------------------
(* Texts with values in the place of spans. *)

\* Spans and values; no two spans begin at one position.
EditsOK(S, edits) ==
  /\ \A e \in edits :
       e.start \in Nat \ {0} /\ e.end \in Nat /\ e.start <= e.end /\ e.value \in Seq(S)
  /\ \A e, f \in edits : e.start = f.start => e = f

\* What is at a position is a sequence.
LEMMA PiecesType ==
  ASSUME NEW S, NEW edits, EditsOK(S, edits), NEW p, NEW token \in S
  PROVE  ValueAt(edits, p) \in Seq(S) /\ Kept(edits, p, token) \in Seq(S)
<1>1. <<>> \in Seq(S) /\ <<token>> \in Seq(S)
  OBVIOUS
<1>2. Kept(edits, p, token) \in Seq(S)
  BY <1>1 DEF Kept
<1>3. CASE \E e \in edits : e.start = p
  <2> DEFINE e == CHOOSE e \in edits : e.start = p
  <2>1. e \in edits
    BY <1>3
  <2>2. ValueAt(edits, p) = e.value
    BY <1>3 DEF ValueAt
  <2> HIDE DEF e
  <2>3. ValueAt(edits, p) \in Seq(S)
    BY <2>1, <2>2 DEF EditsOK
  <2> QED
    BY <1>2, <2>3
<1>4. CASE ~\E e \in edits : e.start = p
  BY <1>1, <1>2, <1>4 DEF ValueAt
<1> QED
  BY <1>3, <1>4

\* A text is spliced token by token.
LEMMA SpliceDef ==
  ASSUME NEW S, NEW run \in Seq(S), NEW from \in Nat, NEW edits, EditsOK(S, edits)
  PROVE  /\ SplicedUpTo(run, from, edits) \in [0..Len(run) -> Seq(S)]
         /\ SplicedUpTo(run, from, edits)[0] = <<>>
         /\ \A n \in 1..Len(run) :
              SplicedUpTo(run, from, edits)[n]
              = SplicedUpTo(run, from, edits)[n - 1]
                \o (ValueAt(edits, from + n) \o Kept(edits, from + n, run[n]))
<1> DEFINE N == Len(run)
           Piece(n) == ValueAt(edits, from + n) \o Kept(edits, from + n, run[n])
           step == [p \in Nat \X Seq(S) |->
                      IF p[1] + 1 \in 1..N THEN p[2] \o Piece(p[1] + 1) ELSE p[2]]
           Eq(c) == c = [n \in 0..N |-> IF n = 0 THEN <<>> ELSE c[n - 1] \o Piece(n)]
           f == SplicedUpTo(run, from, edits)
<1>1. N \in Nat /\ \A n \in 1..N : run[n] \in S
  OBVIOUS
<1> HIDE DEF N
<1>2. \A n \in 1..N : Piece(n) \in Seq(S)
  BY <1>1, PiecesType
<1> HIDE DEF Piece
<1>3. step \in [Nat \X Seq(S) -> Seq(S)]
  BY <1>2
<1>4. PICK h \in [Nat -> Seq(S)] : Recursive(h, <<>>, step)
  <2>1. <<>> \in Seq(S)
    OBVIOUS
  <2> HIDE DEF step
  <2> QED
    BY <1>3, <2>1, RecursionOnNat
<1>5. ASSUME NEW n \in 1..N PROVE h[n] = h[n - 1] \o Piece(n)
  <2>1. n - 1 \in Nat /\ (n - 1) + 1 = n
    BY <1>1
  <2>2. h[n] = step[<<n - 1, h[n - 1]>>]
    <3> HIDE DEF step
    <3> QED
      BY <1>4, <2>1 DEF Recursive
  <2> QED
    BY <2>1, <2>2
<1> DEFINE g == [n \in 0..N |-> h[n]]
<1>6. Eq(g)
  <2>1. ASSUME NEW n \in 0..N PROVE g[n] = IF n = 0 THEN <<>> ELSE g[n - 1] \o Piece(n)
    <3>1. CASE n = 0
      BY <1>1, <1>4, <3>1 DEF Recursive
    <3>2. CASE n # 0
      <4>1. n \in 1..N /\ n - 1 \in 0..N
        BY <1>1, <3>2
      <4> QED
        BY <1>5, <3>2, <4>1
    <3> QED
      BY <3>1, <3>2
  <2>2. g = [n \in 0..N |-> g[n]]
    OBVIOUS
  <2> HIDE DEF g
  <2> QED
    BY <2>1, <2>2
<1>7. Eq(f)
  <2>1. f = CHOOSE c : Eq(c)
    BY DEF SplicedUpTo, N, Piece
  <2> HIDE DEF Eq
  <2> QED
    BY <1>6, <2>1
<1> HIDE DEF f
<1>8. f[0] = <<>> /\ \A n \in 1..N : f[n] = f[n - 1] \o Piece(n)
  <2>1. 0 \in 0..N /\ \A n \in 1..N : n \in 0..N /\ n # 0
    BY <1>1
  <2> QED
    BY <1>7, <2>1
<1>9. \A n \in 0..N : f[n] \in Seq(S)
  <2> DEFINE Good(n) == f[n] \in Seq(S)
             T == {n \in Nat : n \in 0..N /\ ~Good(n)}
  <2>0. Good(0)
    BY <1>8
  <2> HIDE DEF Good
  <2> SUFFICES ASSUME T # {} PROVE FALSE
    <3>1. ASSUME T = {}, NEW n \in 0..N PROVE Good(n)
      <4>1. n \in Nat
        BY <1>1
      <4> QED
        BY <3>1, <4>1, Zenon
    <3> QED
      BY <3>1 DEF Good
  <2>1. PICK n \in T : \A j \in T : n <= j
    BY LeastNatural
  <2>2. n # 0
    BY <2>0, <2>1
  <2>3. n \in 1..N /\ n - 1 \in 0..N /\ n - 1 \in Nat /\ ~(n <= n - 1)
    BY <1>1, <2>1, <2>2
  <2>4. f[n - 1] \in Seq(S)
    BY <2>1, <2>3 DEF Good
  <2>5. f[n] = f[n - 1] \o Piece(n) /\ Piece(n) \in Seq(S)
    BY <1>2, <1>8, <2>3
  <2>6. f[n] \in Seq(S)
    <3> HIDE DEF T
    <3> QED
      BY <2>4, <2>5, ConcatProperties
  <2> QED
    BY <2>1, <2>6 DEF Good
<1>10. f = [n \in 0..N |-> f[n]]
  BY <1>7
<1> QED
  BY <1>8, <1>9, <1>10 DEF f, N, Piece

\* Where no span begins, nothing changes.
LEMMA SpliceBefore ==
  ASSUME NEW S, NEW run \in Seq(S), NEW from \in Nat, NEW edits, EditsOK(S, edits),
         NEW n \in 0..Len(run), \A e \in edits : e.start > from + n
  PROVE  SplicedUpTo(run, from, edits)[n] = SubSeq(run, 1, n)
<1> DEFINE f == SplicedUpTo(run, from, edits)
           T == {m \in Nat : m \in 0..n /\ f[m] # SubSeq(run, 1, m)}
<1> SUFFICES ASSUME T # {} PROVE FALSE
  OBVIOUS
<1>1. PICK m \in T : \A j \in T : m <= j
  BY LeastNatural
<1>2. /\ f[0] = <<>>
      /\ \A j \in 1..Len(run) :
           f[j] = f[j - 1] \o (ValueAt(edits, from + j) \o Kept(edits, from + j, run[j]))
  <2> HIDE DEF T
  <2> QED
    BY SpliceDef, ZenonT(40)
<1> HIDE DEF f
<1>3. SubSeq(run, 1, 0) = <<>>
  BY SubSeqEmpty
<1>4. m # 0
  BY <1>1, <1>2, <1>3
<1>5. /\ m \in 1..Len(run) /\ m \in 1..n /\ m - 1 \in Nat /\ m - 1 \in 0..n /\ ~(m <= m - 1)
      /\ m \in 1..m /\ 1 \in 1..Len(run)
  BY <1>1, <1>4
<1>6. f[m - 1] = SubSeq(run, 1, m - 1)
  BY <1>1, <1>5
<1>7. ASSUME NEW e \in edits PROVE e.start > from + m /\ e.start \in Nat
  BY <1>5 DEF EditsOK
<1>8. ValueAt(edits, from + m) = <<>> /\ Kept(edits, from + m, run[m]) = <<run[m]>>
  BY <1>5, <1>7 DEF ValueAt, Kept
<1>9. run[m] \in S
  BY <1>5
<1>10. SubSeq(run, 1, m) = SubSeq(run, 1, m - 1) \o <<run[m]>>
  BY <1>5, SubSeqRecursiveSecond
<1>11. <<>> \o <<run[m]>> = <<run[m]>>
  BY <1>9
<1> QED
  BY <1>1, <1>2, <1>5, <1>6, <1>8, <1>10, <1>11

\* x1 and x2 go on alike, to z1 and z2.
GoOn(S, x1, z1, x2, z2) == \E rest \in Seq(S) : z1 = x1 \o rest /\ z2 = x2 \o rest

\* From where two sets of spans agree, the same follows.
LEMMA SpliceAfter ==
  ASSUME NEW S, NEW run \in Seq(S), NEW from \in Nat, NEW E, NEW F, EditsOK(S, E), EditsOK(S, F),
         NEW c \in 0..Len(run), NEW n \in c..Len(run),
         \A m \in (c + 1)..n : /\ ValueAt(E, from + m) = ValueAt(F, from + m)
                               /\ Kept(E, from + m, run[m]) = Kept(F, from + m, run[m])
  PROVE  GoOn(S, SplicedUpTo(run, from, E)[c], SplicedUpTo(run, from, E)[n],
                 SplicedUpTo(run, from, F)[c], SplicedUpTo(run, from, F)[n])
<1> DEFINE f == SplicedUpTo(run, from, E)
           g == SplicedUpTo(run, from, F)
           PE(j) == ValueAt(E, from + j) \o Kept(E, from + j, run[j])
           PF(j) == ValueAt(F, from + j) \o Kept(F, from + j, run[j])
           Good(m) == \E rest \in Seq(S) : f[m] = f[c] \o rest /\ g[m] = g[c] \o rest
           T == {m \in Nat : m \in c..n /\ ~Good(m)}
<1>1. /\ f \in [0..Len(run) -> Seq(S)]
      /\ \A j \in 1..Len(run) : f[j] = f[j - 1] \o PE(j)
      /\ g \in [0..Len(run) -> Seq(S)]
      /\ \A j \in 1..Len(run) : g[j] = g[j - 1] \o PF(j)
  BY SpliceDef, ZenonT(40)
<1>2. \A j \in (c + 1)..n : PE(j) = PF(j)
  OBVIOUS
<1>3. \A j \in 1..Len(run) : PE(j) \in Seq(S)
  BY PiecesType
<1> HIDE DEF f, g, PE, PF
<1> SUFFICES ASSUME T # {} PROVE FALSE
  <2>1. ASSUME T = {} PROVE Good(n)
    <3> HIDE DEF Good
    <3> QED
      BY <2>1
  <2> QED
    BY <2>1 DEF f, g, GoOn
<1>4. PICK m \in T : \A j \in T : m <= j
  <2> HIDE DEF Good
  <2> QED
    BY LeastNatural
<1>5. m # c
  <2>1. c \in 0..Len(run) /\ f[c] \in Seq(S) /\ g[c] \in Seq(S) /\ <<>> \in Seq(S)
    BY <1>1
  <2>2. f[c] = f[c] \o <<>> /\ g[c] = g[c] \o <<>>
    BY <2>1, ConcatEmptySeq
  <2> QED
    BY <1>4, <2>1, <2>2
<1>6. /\ m \in (c + 1)..n /\ m \in 1..Len(run) /\ m - 1 \in Nat /\ m - 1 \in c..n /\ ~(m <= m - 1)
      /\ m - 1 \in 0..Len(run) /\ c \in 0..Len(run)
  <2> HIDE DEF Good
  <2> QED
    BY <1>4, <1>5
<1>7. Good(m - 1)
  <2> HIDE DEF Good
  <2> QED
    BY <1>4, <1>6
<1>8. PICK rest \in Seq(S) : f[m - 1] = f[c] \o rest /\ g[m - 1] = g[c] \o rest
  BY <1>7
<1>9. /\ f[m] = (f[c] \o rest) \o PE(m)
      /\ g[m] = (g[c] \o rest) \o PE(m)
      /\ PE(m) \in Seq(S) /\ f[c] \in Seq(S) /\ g[c] \in Seq(S)
  BY <1>1, <1>2, <1>3, <1>6, <1>8
<1>10. f[m] = f[c] \o (rest \o PE(m)) /\ g[m] = g[c] \o (rest \o PE(m)) /\ rest \o PE(m) \in Seq(S)
  <2>1. rest \o PE(m) \in Seq(S)
    BY <1>9, ConcatProperties
  <2>2. PICK p \in Seq(S), x \in Seq(S), y \in Seq(S) : p = PE(m) /\ x = f[c] /\ y = g[c]
    BY <1>9
  <2>3. (x \o rest) \o p = x \o (rest \o p) /\ (y \o rest) \o p = y \o (rest \o p)
    <3> HIDE DEF T, Good
    <3>1. (x \o rest) \o p = x \o (rest \o p)
      BY ConcatAssociative, SMTT(30)
    <3>2. (y \o rest) \o p = y \o (rest \o p)
      BY ConcatAssociative, SMTT(30)
    <3> QED
      BY <3>1, <3>2
  <2> QED
    BY <1>9, <2>1, <2>2, <2>3
<1>11. Good(m)
  BY <1>10
<1> QED
  <2> HIDE DEF Good
  <2> QED
    BY <1>4, <1>11

\* One span more, before all the others: spans stay spans.
LEMMA AddSpan ==
  ASSUME NEW S, NEW E, EditsOK(S, E), NEW d, EditsOK(S, {d}), \A e \in E : d.end < e.start
  PROVE  EditsOK(S, E \cup {d})
<1>1. /\ d.start \in Nat \ {0} /\ d.end \in Nat /\ d.start <= d.end
      /\ \A e \in E : e.start \in Nat \ {0} /\ e.end \in Nat /\ e.start <= e.end
      /\ \A e, f \in E : e.start = f.start => e = f
  BY DEF EditsOK
<1>2. ASSUME NEW e \in E \cup {d}, NEW f \in E \cup {d}, e.start = f.start PROVE e = f
  BY <1>1, <1>2
<1> QED
  BY <1>2 DEF EditsOK

\* All spans of E begin after d, which p is outside of.
Outside(S, E, d, p) ==
  /\ EditsOK(S, E) /\ EditsOK(S, {d}) /\ \A e \in E : d.end < e.start
  /\ p \in Nat /\ (p < d.start \/ d.end < p)

\* Outside a new span nothing changes.
LEMMA OutsideSame ==
  ASSUME NEW S, NEW E, NEW d, NEW p, Outside(S, E, d, p), NEW token
  PROVE  /\ ValueAt(E \cup {d}, p) = ValueAt(E, p)
         /\ Kept(E \cup {d}, p, token) = Kept(E, p, token)
<1>1. /\ d.start \in Nat \ {0} /\ d.end \in Nat /\ d.start <= d.end
      /\ \A e \in E : e.start \in Nat \ {0} /\ e.end \in Nat /\ e.start <= e.end
      /\ \A e, f \in E : e.start = f.start => e = f
      /\ \A e \in E : d.end < e.start
      /\ p \in Nat /\ (p < d.start \/ d.end < p)
  BY DEF EditsOK, Outside
<1>2. ValueAt(E \cup {d}, p) = ValueAt(E, p)
  <2>1. CASE \E e \in E : e.start = p
    <3>1. PICK e \in E : e.start = p
      BY <2>1
    <3>2. (CHOOSE x \in E : x.start = p) = e
      BY <1>1, <3>1
    <3>3. (CHOOSE x \in E \cup {d} : x.start = p) = e
      BY <1>1, <3>1
    <3> QED
      BY <3>1, <3>2, <3>3 DEF ValueAt
  <2>2. CASE ~\E e \in E : e.start = p
    <3>1. ~\E e \in E \cup {d} : e.start = p
      BY <1>1, <2>2
    <3> QED
      BY <2>2, <3>1 DEF ValueAt
  <2> QED
    BY <2>1, <2>2
<1>3. Kept(E \cup {d}, p, token) = Kept(E, p, token)
  <2>1. (\E e \in E \cup {d} : e.start <= p /\ p <= e.end)
          <=> (\E e \in E : e.start <= p /\ p <= e.end)
    BY <1>1
  <2> QED
    BY <2>1 DEF Kept
<1> QED
  BY <1>2, <1>3

\* The value is where the span begins.
LEMMA AddSpanStart ==
  ASSUME NEW S, NEW E, EditsOK(S, E), NEW d, EditsOK(S, {d}), \A e \in E : d.end < e.start
  PROVE  ValueAt(E \cup {d}, d.start) = d.value
<1>1. /\ d.start \in Nat \ {0} /\ d.end \in Nat /\ d.start <= d.end
      /\ \A e \in E : e.start \in Nat \ {0} /\ e.end \in Nat /\ e.start <= e.end
      /\ \A e, f \in E : e.start = f.start => e = f
  BY DEF EditsOK
<1>2. (CHOOSE x \in E \cup {d} : x.start = d.start) = d
  BY <1>1
<1> QED
  BY <1>2 DEF ValueAt

\* Nothing else is inside the span.
LEMMA AddSpanInside ==
  ASSUME NEW S, NEW E, EditsOK(S, E), NEW d, EditsOK(S, {d}), \A e \in E : d.end < e.start,
         NEW p \in Nat, d.start <= p, p <= d.end
  PROVE  /\ d.start < p => ValueAt(E \cup {d}, p) = <<>>
         /\ \A token : Kept(E \cup {d}, p, token) = <<>>
<1>1. /\ d.start \in Nat \ {0} /\ d.end \in Nat /\ d.start <= d.end
      /\ \A e \in E : e.start \in Nat \ {0} /\ e.end \in Nat /\ e.start <= e.end
      /\ \A e, f \in E : e.start = f.start => e = f
  BY DEF EditsOK
<1>2. ASSUME d.start < p PROVE ValueAt(E \cup {d}, p) = <<>>
  <2>1. ~\E e \in E \cup {d} : e.start = p
    BY <1>1, <1>2
  <2> QED
    BY <2>1 DEF ValueAt
<1>3. \A token : Kept(E \cup {d}, p, token) = <<>>
  BY DEF Kept
<1> QED
  BY <1>2, <1>3

\* The span begins after the token b of a run that goes on at least to its token n.
FirstTouch(run, from, d, b, n) ==
  /\ b \in Nat /\ b + from + 1 = d.start
  /\ n \in 0..Len(run) /\ b + 1 <= n /\ from + n <= d.end

FirstPiece(run, b, d) == SubSeq(run, 1, b) \o d.value

\* In the first run of the span: the tokens before it, and the value.
LEMMA SpliceFirst ==
  ASSUME NEW S, NEW run \in Seq(S), NEW from \in Nat, NEW E, EditsOK(S, E), NEW d, EditsOK(S, {d}),
         \A e \in E : d.end < e.start, NEW b, NEW n, FirstTouch(run, from, d, b, n)
  PROVE  SplicedUpTo(run, from, E \cup {d})[n] = FirstPiece(run, b, d)
<1> DEFINE F == E \cup {d}
           f == SplicedUpTo(run, from, F)
           before == SubSeq(run, 1, b)
           Good(m) == f[m] = before \o d.value
           T == {m \in Nat : m \in (d.start - from)..n /\ ~Good(m)}
<1>1. EditsOK(S, F)
  BY AddSpan
<1>2. d.start \in Nat /\ d.end \in Nat /\ d.value \in Seq(S) /\ d.start - from \in 1..n
      /\ d.start - 1 - from \in 0..n /\ n \in Nat /\ n <= Len(run) /\ Len(run) \in Nat
      /\ d.start - 1 - from = b /\ b \in Nat /\ n \in 0..Len(run)
  BY SMTT(30) DEF EditsOK, FirstTouch
<1>3. /\ f \in [0..Len(run) -> Seq(S)]
      /\ \A j \in 1..Len(run) :
           f[j] = f[j - 1] \o (ValueAt(F, from + j) \o Kept(F, from + j, run[j]))
  <2> HIDE DEF T, F
  <2> QED
    BY <1>1, SpliceDef
<1>4. f[d.start - 1 - from] = before
  <2>1. b \in 0..Len(run)
    BY <1>2
  <2>2. \A e \in F : e.start > from + b
    BY SMTT(30), <1>2 DEF EditsOK
  <2> HIDE DEF F, T
  <2>3. f[b] = before
    BY <1>1, <2>1, <2>2, SpliceBefore
  <2> QED
    BY <1>2, <2>3
<1> HIDE DEF f, F
<1>5. before \in Seq(S)
  <2>1. \A i \in 1..(d.start - 1 - from) : run[i] \in S
    BY <1>2
  <2> QED
    BY <1>2, <2>1, SubSeqProperties
<1>6. Good(d.start - from)
  <2> DEFINE k == d.start - from
  <2> HIDE DEF T, Good, before
  <2>1. k \in 1..Len(run) /\ k - 1 = d.start - 1 - from /\ from + k = d.start /\ from + k \in Nat
    <3>1. PICK s \in Nat : s = d.start
      BY <1>2
    <3>2. k = s - from /\ k \in 1..Len(run)
      BY <1>2, <3>1
    <3> HIDE DEF k
    <3>3. k - 1 = s - 1 - from /\ from + k = s
      BY <3>2
    <3> QED
      BY <3>1, <3>2, <3>3
  <2>2. ValueAt(F, from + k) = d.value /\ Kept(F, from + k, run[k]) = <<>>
    <3> DEFINE p == from + k
               token == run[k]
    <3>1. p \in Nat /\ p = d.start /\ p <= d.end /\ d.start <= p
      BY <1>2, <2>1 DEF EditsOK
    <3> HIDE DEF p, token
    <3>2. ValueAt(F, p) = d.value
      BY <3>1, AddSpanStart DEF F
    <3>3. Kept(F, p, token) = <<>>
      <4>1. p \in Nat /\ d.start <= p /\ p <= d.end
        BY <3>1
      <4> QED
        BY <4>1, AddSpanInside DEF F
    <3> QED
      BY <3>2, <3>3 DEF p, token
  <2>3. d.value \o <<>> = d.value
    BY <1>2, ConcatEmptySeq
  <2> HIDE DEF before, k
  <2>4. f[k] = f[k - 1] \o (ValueAt(F, from + k) \o Kept(F, from + k, run[k]))
    BY <1>3, <2>1
  <2>5. f[k] = before \o d.value
    BY <1>4, <2>1, <2>2, <2>3, <2>4
  <2> QED
    BY <2>5 DEF k, Good, before
<1> SUFFICES ASSUME T # {} PROVE FALSE
  <2>1. ASSUME T = {} PROVE Good(n)
    <3>1. n \in (d.start - from)..n
      BY <1>2
    <3> HIDE DEF Good
    <3> QED
      BY <1>2, <2>1, <3>1
  <2> HIDE DEF T
  <2> QED
    BY <2>1 DEF f, F, FirstPiece
<1> HIDE DEF before
<1>7. PICK m \in T : \A j \in T : m <= j
  <2> HIDE DEF Good
  <2> QED
    BY LeastNatural
<1>8. m # d.start - from
  <2> HIDE DEF Good
  <2> QED
    BY <1>6, <1>7
<1>9. /\ m \in Nat /\ m \in 1..Len(run) /\ m - 1 \in Nat /\ m - 1 \in (d.start - from)..n
      /\ ~(m <= m - 1) /\ ~Good(m) /\ d.start < from + m /\ from + m <= d.end /\ from + m \in Nat
  <2> HIDE DEF Good
  <2>1. m \in Nat /\ m \in (d.start - from)..n /\ ~Good(m)
    BY <1>7
  <2>2. PICK s \in Nat, t \in Nat : s = d.start /\ t = d.end
    BY <1>2
  <2>3. m > s - from
    BY <1>8, <2>1, <2>2
  <2>4. /\ m \in 1..Len(run) /\ m - 1 \in Nat /\ m - 1 \in (s - from)..n /\ ~(m <= m - 1)
        /\ s < from + m /\ from + m <= from + n /\ from + m \in Nat
    <3>1. n \in Nat /\ n <= Len(run) /\ Len(run) \in Nat /\ from \in Nat /\ s - from >= 0
      BY <1>2, <2>2, SMTT(30)
    <3>2. m <= n /\ m >= s - from /\ m - 1 >= s - from /\ m >= 1
      BY <2>1, <2>2, <2>3, <3>1
    <3> QED
      BY <2>1, <2>2, <3>1, <3>2
  <2>5. from + n <= t
    BY <2>2 DEF FirstTouch
  <2> QED
    BY <1>2, <2>1, <2>2, <2>4, <2>5, SMTT(30)
<1>10. Good(m - 1)
  <2> HIDE DEF Good
  <2> QED
    BY <1>7, <1>9
<1>11. ValueAt(F, from + m) = <<>> /\ Kept(F, from + m, run[m]) = <<>>
  <2> DEFINE p == from + m
             token == run[m]
  <2>1. p \in Nat /\ d.start < p /\ p <= d.end /\ d.start <= p
    BY <1>2, <1>9, SMTT(30)
  <2> HIDE DEF T, Good, p, token
  <2>2. ValueAt(F, p) = <<>> /\ Kept(F, p, token) = <<>>
    BY <2>1, AddSpanInside DEF F
  <2> QED
    BY <2>2 DEF p, token
<1>12. f[m] = f[m - 1] \o (<<>> \o <<>>)
  BY <1>3, <1>9, <1>11
<1>13. f[m] = f[m - 1]
  <2>1. before \o d.value \in Seq(S)
    BY <1>2, <1>5, ConcatProperties
  <2>2. <<>> \in Seq(S)
    OBVIOUS
  <2>3. <<>> \o <<>> = <<>>
    BY <2>2, ConcatEmptySeq
  <2> QED
    BY <1>10, <1>12, <2>1, <2>3, ConcatEmptySeq
<1> QED
  BY <1>9, <1>10, <1>13

\* In a later run of the span: nothing.
LEMMA SpliceLater ==
  ASSUME NEW S, NEW run \in Seq(S), NEW from \in Nat, NEW E, EditsOK(S, E), NEW d, EditsOK(S, {d}),
         \A e \in E : d.end < e.start, NEW n \in 0..Len(run),
         d.start <= from, from + n <= d.end
  PROVE  SplicedUpTo(run, from, E \cup {d})[n] = <<>>
<1> DEFINE F == E \cup {d}
           f == SplicedUpTo(run, from, F)
           T == {m \in Nat : m \in 0..n /\ f[m] # <<>>}
<1>1. EditsOK(S, F)
  BY AddSpan
<1>2. d.start \in Nat /\ d.end \in Nat /\ n \in Nat
  BY DEF EditsOK
<1>3. /\ f[0] = <<>>
      /\ \A j \in 1..Len(run) :
           f[j] = f[j - 1] \o (ValueAt(F, from + j) \o Kept(F, from + j, run[j]))
  <2> HIDE DEF T, F
  <2> QED
    BY <1>1, SpliceDef
<1> HIDE DEF f, F
<1> SUFFICES ASSUME T # {} PROVE FALSE
  <2>1. n \in 0..n
    BY <1>2
  <2> QED
    BY <1>2, <2>1 DEF f, F
<1>4. PICK m \in T : \A j \in T : m <= j
  BY LeastNatural
<1>5. m # 0
  BY <1>3, <1>4
<1>6. /\ m \in 1..Len(run) /\ m - 1 \in Nat /\ m - 1 \in 0..n /\ ~(m <= m - 1) /\ f[m] # <<>>
      /\ d.start < from + m /\ from + m <= d.end /\ from + m \in Nat
  BY <1>2, <1>4, <1>5
<1>7. f[m - 1] = <<>>
  BY <1>4, <1>6
<1>8. ValueAt(F, from + m) = <<>> /\ Kept(F, from + m, run[m]) = <<>>
  <2> DEFINE p == from + m
             token == run[m]
  <2>1. p \in Nat /\ d.start < p /\ p <= d.end /\ d.start <= p
    BY <1>2, <1>6
  <2> HIDE DEF T, p, token
  <2>2. ValueAt(F, p) = <<>> /\ Kept(F, p, token) = <<>>
    BY <2>1, AddSpanInside DEF F
  <2> QED
    BY <2>2 DEF p, token
<1>9. <<>> \o (<<>> \o <<>>) = <<>>
  <2>1. <<>> \in Seq(S)
    OBVIOUS
  <2>2. <<>> \o <<>> = <<>>
    BY <2>1, ConcatEmptySeq
  <2> QED
    BY <2>2
<1>10. f[m] = f[m - 1] \o (<<>> \o <<>>)
  BY <1>3, <1>6, <1>8
<1> QED
  BY <1>6, <1>7, <1>9, <1>10

-----------------------------------------------------------------------------
(* Runs with values in the place of spans. *)

\* A sequence and what follows it.
LEMMA Parts ==
  ASSUME NEW S, NEW x \in Seq(S), NEW y \in Seq(S)
  PROVE  /\ \A i \in 0..Len(x) : SubSeq(x \o y, 1, i) = SubSeq(x, 1, i)
         /\ SubSeq(x \o y, Len(x) + 1, Len(x \o y)) = y
         /\ \A i \in 1..Len(x) : (x \o y)[i] = x[i]
         /\ Len(x) <= Len(x \o y)
<1>1. /\ x \o y \in Seq(S) /\ Len(x \o y) = Len(x) + Len(y)
      /\ \A i \in 1..(Len(x) + Len(y)) : (x \o y)[i] = IF i <= Len(x) THEN x[i] ELSE y[i - Len(x)]
      /\ Len(x) \in Nat /\ Len(y) \in Nat
  BY ConcatProperties
<1> DEFINE z == x \o y
<1> HIDE DEF z
<1>2. ASSUME NEW i \in 0..Len(x) PROVE SubSeq(z, 1, i) = SubSeq(x, 1, i)
  <2>1. /\ SubSeq(z, 1, i) \in Seq(S) /\ Len(SubSeq(z, 1, i)) = i
        /\ \A j \in 1..i : SubSeq(z, 1, i)[j] = z[j]
    <3>1. \A j \in 1..i : z[j] \in S
      BY <1>1 DEF z
    <3> QED
      BY <3>1, SubSeqProperties
  <2>2. /\ SubSeq(x, 1, i) \in Seq(S) /\ Len(SubSeq(x, 1, i)) = i
        /\ \A j \in 1..i : SubSeq(x, 1, i)[j] = x[j]
    <3>1. \A j \in 1..i : x[j] \in S
      BY <1>1
    <3> QED
      BY <3>1, SubSeqProperties
  <2>3. \A j \in 1..i : z[j] = x[j]
    BY <1>1 DEF z
  <2> QED
    BY <2>1, <2>2, <2>3, SeqEqual
<1>3. SubSeq(z, Len(x) + 1, Len(z)) = y
  <2> DEFINE m == Len(x) + 1
             n == Len(z)
             w == SubSeq(z, m, n)
  <2>1. /\ m \in Int /\ n \in Int /\ n - m + 1 = Len(y)
        /\ m <= n => n - m + 1 = Len(y)
        /\ ~(m <= n) => Len(y) = 0
    BY <1>1 DEF z
  <2>2. \A i \in m..n : z[i] \in S
    BY <1>1 DEF z
  <2>3. \A i \in 1..Len(y) : m + i - 1 = Len(x) + i /\ z[Len(x) + i] = y[i]
    BY <1>1 DEF z
  <2> HIDE DEF m, n
  <2>4. w \in Seq(S) /\ Len(w) = Len(y) /\ \A i \in 1..Len(y) : w[i] = z[m + i - 1]
    BY <2>1, <2>2, SubSeqProperties
  <2>5. \A i \in 1..Len(y) : w[i] = y[i]
    BY <2>3, <2>4
  <2> HIDE DEF w
  <2>6. w = y
    BY <2>4, <2>5, SeqEqual
  <2> QED
    BY <2>6 DEF w, m, n
<1> QED
  BY <1>1, <1>2, <1>3 DEF z

\* The tokens of a run up to one are followed by those after it.
LEMMA SpliceExtends ==
  ASSUME NEW S, NEW run \in Seq(S), NEW from \in Nat, NEW edits, EditsOK(S, edits),
         NEW n \in 0..Len(run)
  PROVE  GoOn(S, SplicedUpTo(run, from, edits)[n], SplicedUpTo(run, from, edits)[Len(run)],
                 SplicedUpTo(run, from, edits)[n], SplicedUpTo(run, from, edits)[Len(run)])
<1>1. Len(run) \in n..Len(run)
  OBVIOUS
<1> QED
  BY <1>1, SpliceAfter

\* A text begins with the first n tokens of another.
BeginsWith(S, text, other, n) ==
  text \in Seq(S) /\ n <= Len(text) /\ \A i \in 1..n : text[i] = other[i]

\* Up to the first span a run is as it was.
LEMMA SplicePrefix ==
  ASSUME NEW S, NEW run \in Seq(S), NEW from \in Nat, NEW edits, EditsOK(S, edits),
         NEW n \in 0..Len(run), \A e \in edits : e.start > from + n
  PROVE  BeginsWith(S, SplicedUpTo(run, from, edits)[Len(run)], run, n)
<1> DEFINE f == SplicedUpTo(run, from, edits)
           x == SubSeq(run, 1, n)
           cur == f[Len(run)]
<1>1. f[n] = x
  BY SpliceBefore
<1>2. PICK rest \in Seq(S) : cur = f[n] \o rest
  <2>1. GoOn(S, f[n], cur, f[n], cur)
    BY SpliceExtends
  <2> HIDE DEF f, cur
  <2> QED
    BY <2>1 DEF GoOn
<1>3. x \in Seq(S) /\ Len(x) = n /\ \A i \in 1..n : x[i] = run[i]
  <2>1. n \in Nat /\ \A i \in 1..n : run[i] \in S
    OBVIOUS
  <2> QED
    BY <2>1, SubSeqProperties
<1>5. f \in [0..Len(run) -> Seq(S)]
  BY SpliceDef
<1>6. cur \in Seq(S)
  BY <1>5
<1>7. cur = x \o rest
  BY <1>1, <1>2
<1> HIDE DEF x, cur
<1>9. Len(x) <= Len(cur) /\ \A i \in 1..Len(x) : cur[i] = x[i]
  BY <1>3, <1>7, Parts
<1> QED
  BY <1>3, <1>6, <1>9 DEF cur, BeginsWith

\* The runs of cur end where those of runs end, as far as position e.
SameCursor(S, runs, cur, e) ==
  /\ cur \in Seq(Seq(S)) /\ Len(cur) = Len(runs)
  /\ \A k \in 0..Len(runs) :
       IF Cursor(runs)[k] <= e THEN Cursor(cur)[k] = Cursor(runs)[k] ELSE e <= Cursor(cur)[k]
  /\ \A k \in 1..Len(runs) : Cursor(runs)[k] <= e => cur[k] = runs[k]

\* With all spans after position e, the cursor is the same up to e and beyond e after it.
LEMMA SplicedCursor ==
  ASSUME NEW S, NEW runs \in Seq(Seq(S)), NEW edits, EditsOK(S, edits),
         NEW e \in Nat, \A x \in edits : e < x.start
  PROVE  SameCursor(S, runs, Spliced(runs, edits), e)
<1> DEFINE cur == Spliced(runs, edits)
           c == Cursor(runs)
           d == Cursor(cur)
           N == Len(runs)
<1>1. /\ c \in [0..N -> Nat] /\ c[0] = 0
      /\ \A k \in 1..N : c[k] = c[k - 1] + Len(runs[k])
  BY CursorDef
<1>2. /\ N \in Nat /\ DOMAIN runs = 1..N
      /\ \A k \in 1..N : runs[k] \in Seq(S) /\ k - 1 \in 0..N /\ k \in 0..N
  OBVIOUS
<1>3. cur = [k \in 1..N |-> SplicedUpTo(runs[k], c[k - 1], edits)[Len(runs[k])]]
  BY <1>2 DEF Spliced
<1> HIDE DEF c, N
<1>4. \A k \in 1..N :
        /\ runs[k] \in Seq(S) /\ Len(runs[k]) \in Nat /\ c[k - 1] \in Nat /\ c[k] \in Nat
        /\ c[k] = c[k - 1] + Len(runs[k])
  BY <1>1, <1>2
<1>5. ASSUME NEW k \in 1..N
      PROVE  SplicedUpTo(runs[k], c[k - 1], edits)[Len(runs[k])] \in Seq(S)
  <2>1. Len(runs[k]) \in 0..Len(runs[k])
    BY <1>4
  <2>2. SplicedUpTo(runs[k], c[k - 1], edits) \in [0..Len(runs[k]) -> Seq(S)]
    BY <1>4, SpliceDef
  <2> QED
    BY <2>1, <2>2
<1>6. /\ cur \in Seq(Seq(S)) /\ Len(cur) = N
      /\ \A k \in 1..N : cur[k] = SplicedUpTo(runs[k], c[k - 1], edits)[Len(runs[k])]
  BY <1>2, <1>3, <1>5
<1> HIDE DEF cur
<1>7. /\ d \in [0..N -> Nat] /\ d[0] = 0
      /\ \A k \in 1..N : d[k] = d[k - 1] + Len(cur[k])
  BY <1>6, CursorDef
<1>8. ASSUME NEW i \in 0..N, NEW j \in 0..N, i <= j PROVE c[i] <= c[j] /\ d[i] <= d[j]
  <2>1. c[i] <= c[j]
    BY <1>8, CursorGrows DEF c, N
  <2>2. d[i] <= d[j]
    <3> HIDE DEF d
    <3>1. i \in 0..Len(cur) /\ j \in 0..Len(cur)
      BY <1>6
    <3> QED
      BY <1>6, <1>8, <3>1, CursorGrows DEF d
  <2> QED
    BY <2>1, <2>2
<1>9. ASSUME NEW k \in 1..N, c[k] <= e PROVE cur[k] = runs[k]
  <2>1. PICK run \in Seq(S) : run = runs[k]
    BY <1>4
  <2>2. PICK from \in Nat : from = c[k - 1]
    BY <1>4
  <2>3. PICK n \in 0..Len(run) : n = Len(run)
    BY <2>1
  <2>4. \A x \in edits : x.start > from + n
    <3>1. c[k] = from + n
      BY <1>4, <2>1, <2>2, <2>3
    <3>2. \A x \in edits : x.start \in Nat
      BY DEF EditsOK
    <3> QED
      BY <1>4, <1>9, <3>1, <3>2
  <2>5. SplicedUpTo(run, from, edits)[n] = SubSeq(run, 1, n)
    BY <2>4, SpliceBefore
  <2>6. SubSeq(run, 1, n) = run
    BY <2>3, SubSeqFull
  <2> QED
    BY <1>6, <2>1, <2>2, <2>3, <2>5, <2>6
<1>10. ASSUME NEW k \in 0..N, c[k] <= e PROVE d[k] = c[k]
  <2>1. ASSUME NEW j \in 1..k PROVE Len(runs[j]) = Len(cur[j])
    <3>1. j \in 1..N /\ j \in 0..N /\ j <= k
      BY <1>2, <2>1
    <3>2. c[j] <= c[k]
      BY <1>8, <3>1
    <3>3. c[j] <= e
      BY <1>1, <1>10, <3>1, <3>2
    <3> QED
      BY <1>9, <3>1, <3>3
  <2> QED
    BY <1>6, <2>1, CursorSame DEF c, N
<1>11. ASSUME NEW k \in 0..N, ~(c[k] <= e) PROVE e <= d[k]
  <2> DEFINE T == {j \in Nat : j \in 0..N /\ ~(c[j] <= e)}
  <2>1. PICK j \in T : \A i \in T : j <= i
    <3>1. k \in T
      BY <1>2, <1>11
    <3> QED
      BY <3>1, LeastNatural
  <2>2. j # 0
    BY <1>1, <2>1
  <2>3. /\ j \in 1..N /\ j - 1 \in 0..N /\ j \in 0..N /\ j - 1 \in Nat /\ ~(j <= j - 1) /\ j <= k
        /\ ~(c[j] <= e)
    BY <1>2, <1>11, <2>1, <2>2
  <2>4. c[j - 1] <= e
    BY <2>1, <2>3
  <2>5. d[j - 1] = c[j - 1]
    BY <1>10, <2>3, <2>4
  <2> HIDE DEF T, d
  <2>6. PICK run \in Seq(S) : run = runs[j]
    BY <1>4, <2>3
  <2>7. PICK from \in Nat : from = c[j - 1]
    BY <1>4, <2>3
  <2>8. PICK n \in Nat : from + n = e
    <3>1. from <= e
      BY <2>4, <2>7
    <3>2. e - from \in Nat /\ from + (e - from) = e
      BY <3>1
    <3> QED
      BY <3>2
  <2>9. n \in 0..Len(run) /\ \A x \in edits : x.start > from + n
    <3>1. PICK to \in Nat : to = c[j] /\ to = from + Len(run)
      BY <1>4, <2>3, <2>6, <2>7
    <3>2. Len(run) \in Nat /\ ~(to <= e)
      BY <2>3, <3>1
    <3>3. n <= Len(run)
      BY <2>8, <3>1, <3>2
    <3>4. n \in 0..Len(run)
      BY <3>2, <3>3
    <3> QED
      BY <2>8, <3>4
  <2>10. PICK new : new = cur[j]
    OBVIOUS
  <2>11. BeginsWith(S, new, run, n)
    <3>1. new = SplicedUpTo(run, from, edits)[Len(run)]
      BY <1>6, <2>3, <2>6, <2>7, <2>10
    <3> QED
      BY <2>9, <3>1, SplicePrefix
  <2>12. PICK len \in Nat : len = Len(new) /\ n <= len
    BY <2>11 DEF BeginsWith
  <2>13. PICK dj \in Nat : dj = d[j] /\ dj = from + len
    BY <1>7, <2>3, <2>5, <2>7, <2>10, <2>12
  <2>14. PICK dk \in Nat : dk = d[k] /\ dj <= dk
    <3>1. d[j] <= d[k] /\ d[k] \in Nat
      BY <1>7, <1>8, <2>3
    <3> QED
      BY <2>13, <3>1
  <2>15. e <= dk
    BY <2>8, <2>12, <2>13, <2>14
  <2> QED
    BY <2>14, <2>15
<1> QED
  BY <1>6, <1>9, <1>10, <1>11 DEF cur, c, N, SameCursor

\* A run with the values of the spans, and one whose token x is the end of a span.
Whole(run, from, edits) == SplicedUpTo(run, from, edits)[Len(run)]
Around(old, b, v, x) == (SubSeq(old, 1, b) \o v) \o SubSeq(old, x + 1, Len(old))
Ready(S, run, from, E, d) ==
  /\ run \in Seq(S) /\ from \in Nat
  /\ EditsOK(S, E) /\ EditsOK(S, {d}) /\ \A e \in E : d.end < e.start
AroundValue(old, b, d, x) == Around(old, b, d.value, x)
Misses(run, from, d) == from + Len(run) < d.start \/ d.end <= from

\* A run that the span does not touch is the same with and without it.
LEMMA RunUntouched ==
  ASSUME NEW S, NEW run, NEW from, NEW E, NEW d, Ready(S, run, from, E, d),
         Misses(run, from, d)
  PROVE  Whole(run, from, E \cup {d}) = Whole(run, from, E)
<1>r. /\ run \in Seq(S) /\ from \in Nat
      /\ EditsOK(S, E) /\ EditsOK(S, {d}) /\ \A e \in E : d.end < e.start
  BY DEF Ready
<1> USE <1>r
<1> DEFINE F == E \cup {d}
<1>1. EditsOK(S, F)
  BY AddSpan
<1>2. PICK n \in 0..Len(run) : n = Len(run)
  OBVIOUS
<1>3. PICK z \in 0..Len(run) : z = 0
  OBVIOUS
<1>4. PICK s \in Nat, t \in Nat : s = d.start /\ t = d.end
  BY DEF EditsOK
<1>5. n \in z..Len(run) /\ Len(run) \in Nat
  BY <1>2, <1>3
<1>6. ASSUME NEW m \in (z + 1)..n
      PROVE  /\ ValueAt(E, from + m) = ValueAt(F, from + m)
             /\ Kept(E, from + m, run[m]) = Kept(F, from + m, run[m])
  <2>1. PICK p \in Nat : p = from + m /\ (p < s \/ t < p)
    BY <1>2, <1>3, <1>4, <1>5 DEF Misses
  <2>2. ValueAt(F, p) = ValueAt(E, p) /\ Kept(F, p, run[m]) = Kept(E, p, run[m])
    <3>1. p < d.start \/ d.end < p
      BY <1>4, <2>1
    <3>2. Outside(S, E, d, p)
      BY <3>1 DEF Outside
    <3> QED
      BY <3>2, OutsideSame
  <2> QED
    BY <2>1, <2>2
<1> HIDE DEF F
<1>7. GoOn(S, SplicedUpTo(run, from, E)[z], SplicedUpTo(run, from, E)[n],
             SplicedUpTo(run, from, F)[z], SplicedUpTo(run, from, F)[n])
  BY <1>1, <1>5, <1>6, SpliceAfter
<1>8. SplicedUpTo(run, from, E)[0] = <<>> /\ SplicedUpTo(run, from, F)[0] = <<>>
  <2>1. SplicedUpTo(run, from, E)[0] = <<>>
    BY SpliceDef, ZenonT(40)
  <2>2. SplicedUpTo(run, from, F)[0] = <<>>
    BY <1>1, SpliceDef, ZenonT(40)
  <2> QED
    BY <2>1, <2>2
<1> QED
  BY <1>2, <1>3, <1>7, <1>8 DEF F, GoOn, Whole

\* Behind the end of the span, old and new go on alike.
Behind(S, run, from, n, old, new, x, y) ==
  \E rest \in Seq(S) :
    /\ old = SubSeq(run, 1, n) \o rest /\ new = y \o rest
    /\ SubSeq(old, x + 1, Len(old)) = rest

\* What follows a span in its run is the same with and without it.
LEMMA RunBehind ==
  ASSUME NEW S, NEW run \in Seq(S), NEW from \in Nat, NEW E, EditsOK(S, E), NEW d, EditsOK(S, {d}),
         \A e \in E : d.end < e.start, NEW x \in Nat, x + from = d.end,
         NEW n \in 0..Len(run), n = x \/ (n = Len(run) /\ n < x)
  PROVE  Behind(S, run, from, n, SplicedUpTo(run, from, E)[Len(run)],
                SplicedUpTo(run, from, E \cup {d})[Len(run)], x,
                SplicedUpTo(run, from, E \cup {d})[n])
<1> DEFINE F == E \cup {d}
           f == SplicedUpTo(run, from, E)
           g == SplicedUpTo(run, from, F)
<1>1. EditsOK(S, F)
  BY AddSpan
<1>2. PICK len \in n..Len(run) : len = Len(run)
  OBVIOUS
<1>3. PICK s \in Nat, t \in Nat : s = d.start /\ t = d.end
  BY DEF EditsOK
<1>4. ASSUME NEW m \in (n + 1)..len
      PROVE  /\ ValueAt(E, from + m) = ValueAt(F, from + m)
             /\ Kept(E, from + m, run[m]) = Kept(F, from + m, run[m])
  <2>1. PICK p \in Nat : p = from + m /\ t < p
    BY <1>2, <1>3
  <2>2. ValueAt(F, p) = ValueAt(E, p) /\ Kept(F, p, run[m]) = Kept(E, p, run[m])
    <3>1. p < d.start \/ d.end < p
      BY <1>3, <2>1
    <3>2. Outside(S, E, d, p)
      BY <3>1 DEF Outside
    <3> QED
      BY <3>2, OutsideSame
  <2> QED
    BY <2>1, <2>2
<1>5. f[n] = SubSeq(run, 1, n)
  <2>1. ASSUME NEW e \in E PROVE e.start > from + n
    <3>1. PICK u \in Nat : u = e.start
      BY DEF EditsOK
    <3> QED
      BY <1>3, <3>1
  <2> QED
    BY <2>1, SpliceBefore
<1> HIDE DEF F
<1>6. GoOn(S, f[n], f[len], g[n], g[len])
  BY <1>1, <1>2, <1>4, SpliceAfter
<1> HIDE DEF f, g
<1>7. PICK old, new : old = f[len] /\ new = g[len]
  OBVIOUS
<1>8. PICK rest \in Seq(S) : old = f[n] \o rest /\ new = g[n] \o rest
  BY <1>6, <1>7 DEF GoOn
<1>9. PICK a \in Seq(S) : a = SubSeq(run, 1, n) /\ Len(a) = n
  <2>1. n \in Nat /\ \A i \in 1..n : run[i] \in S
    OBVIOUS
  <2>2. SubSeq(run, 1, n) \in Seq(S) /\ Len(SubSeq(run, 1, n)) = n
    BY <2>1, SubSeqProperties
  <2> QED
    BY <2>2
<1>10. old = a \o rest
  BY <1>5, <1>8, <1>9
<1>11. SubSeq(old, x + 1, Len(old)) = rest
  <2>1. CASE n = x
    <3>1. SubSeq(a \o rest, Len(a) + 1, Len(a \o rest)) = rest
      BY Parts
    <3> QED
      BY <1>9, <1>10, <2>1, <3>1
  <2>2. CASE n = Len(run) /\ n < x
    <3>1. old = a
      BY <1>2, <1>5, <1>7, <1>9, <2>2
    <3>2. Len(a \o rest) = Len(a) + Len(rest) /\ Len(rest) \in Nat /\ Len(a) \in Nat
      BY ConcatProperties
    <3>3. Len(rest) = 0
      BY <1>10, <3>1, <3>2
    <3>4. rest = <<>>
      BY <3>3
    <3>5. Len(old) = n /\ n \in Nat
      BY <1>9, <3>1
    <3>6. SubSeq(old, x + 1, Len(old)) = <<>>
      BY <2>2, <3>5
    <3> QED
      BY <3>4, <3>6
  <2> QED
    BY <2>1, <2>2
<1> QED
  BY <1>2, <1>7, <1>8, <1>9, <1>10, <1>11 DEF f, g, F, Behind

\* The span begins after token b of the run and ends at the place of its token x,
\* which it need not have.
BeginsIn(run, from, d, b, x) ==
  b \in Nat /\ b + from + 1 = d.start /\ x \in Nat /\ x + from = d.end /\ b + 1 <= Len(run)
GoesOnIn(from, d, b, x) ==
  d.start <= from /\ x \in Nat /\ x + from = d.end /\ b \in Int /\ b <= 0

\* The run in which the span begins.
LEMMA RunFirst ==
  ASSUME NEW S, NEW run, NEW from, NEW E, NEW d, Ready(S, run, from, E, d),
         NEW b, NEW x, BeginsIn(run, from, d, b, x)
  PROVE  Whole(run, from, E \cup {d}) = AroundValue(Whole(run, from, E), b, d, x)
<1>r. /\ run \in Seq(S) /\ from \in Nat
      /\ EditsOK(S, E) /\ EditsOK(S, {d}) /\ \A e \in E : d.end < e.start
  BY DEF Ready
<1> USE <1>r
<1>0. /\ b \in Nat /\ b + from + 1 = d.start /\ x \in Nat /\ x + from = d.end
      /\ b + 1 <= Len(run)
  BY DEF BeginsIn
<1>1. PICK len \in Nat : len = Len(run)
  OBVIOUS
<1>2. PICK s \in Nat, t \in Nat : s = d.start /\ t = d.end /\ s <= t
  BY DEF EditsOK
<1>3. PICK n \in 0..Len(run) : (n = x \/ (n = Len(run) /\ n < x)) /\ b + 1 <= n /\ n <= x
  <2>1. CASE x <= len
    <3>1. x \in 0..Len(run) /\ b + 1 <= x
      BY <1>0, <1>1, <1>2, <2>1
    <3> QED
      BY <3>1
  <2>2. CASE ~(x <= len)
    <3>1. len \in 0..Len(run) /\ len < x /\ b + 1 <= len /\ len <= x
      BY <1>0, <1>1, <1>2, <2>2
    <3> QED
      BY <1>1, <3>1
  <2> QED
    BY <2>1, <2>2
<1>4. PICK y : y = SplicedUpTo(run, from, E \cup {d})[n]
  OBVIOUS
<1>5. PICK new : new = SplicedUpTo(run, from, E \cup {d})[Len(run)]
  OBVIOUS
<1> DEFINE old == Whole(run, from, E)
<1>6. Behind(S, run, from, n, old, new, x, y)
  BY <1>0, <1>3, <1>4, <1>5, RunBehind DEF Whole
<1> HIDE DEF old
<1>7. PICK rest \in Seq(S) :
        /\ old = SubSeq(run, 1, n) \o rest /\ new = y \o rest
        /\ SubSeq(old, x + 1, Len(old)) = rest
  BY <1>6 DEF Behind
<1>8. y = SubSeq(run, 1, b) \o d.value
  <2>1. FirstTouch(run, from, d, b, n)
    BY <1>0, <1>1, <1>2, <1>3 DEF FirstTouch
  <2>2. y = FirstPiece(run, b, d)
    BY <1>4, <2>1, SpliceFirst
  <2> QED
    BY <2>2 DEF FirstPiece
<1>9. SubSeq(old, 1, b) = SubSeq(run, 1, b)
  <2>1. n \in Nat /\ n <= Len(run) /\ \A i \in 1..n : run[i] \in S
    BY <1>3
  <2>2. /\ SubSeq(run, 1, n) \in Seq(S) /\ Len(SubSeq(run, 1, n)) = n
        /\ \A i \in 1..n : SubSeq(run, 1, n)[i] = run[i]
    BY <2>1, SubSeqProperties
  <2>3. PICK a \in Seq(S) : a = SubSeq(run, 1, n) /\ Len(a) = n /\ \A i \in 1..n : a[i] = run[i]
    BY <2>2
  <2>4. b \in 0..Len(a)
    BY <1>0, <1>3, <2>1, <2>3
  <2>5. SubSeq(a \o rest, 1, b) = SubSeq(a, 1, b)
    BY <2>4, Parts
  <2>6. b <= n
    BY <1>0, <1>3, <2>1
  <2>7. SubSeq(a, 1, b) = SubSeq(run, 1, b)
    <3>1. \A i \in 1..b : a[i] \in S /\ run[i] \in S /\ a[i] = run[i]
      BY <1>0, <2>1, <2>3, <2>6
    <3>2. /\ SubSeq(a, 1, b) \in Seq(S) /\ Len(SubSeq(a, 1, b)) = b
          /\ \A i \in 1..b : SubSeq(a, 1, b)[i] = a[i]
      BY <1>0, <3>1, SubSeqProperties
    <3>3. /\ SubSeq(run, 1, b) \in Seq(S) /\ Len(SubSeq(run, 1, b)) = b
          /\ \A i \in 1..b : SubSeq(run, 1, b)[i] = run[i]
      BY <1>0, <3>1, SubSeqProperties
    <3>4. PICK v \in Seq(S), w \in Seq(S) : v = SubSeq(a, 1, b) /\ w = SubSeq(run, 1, b)
      BY <3>2, <3>3
    <3>5. Len(v) = Len(w) /\ \A i \in 1..Len(v) : v[i] = w[i]
      BY <3>1, <3>2, <3>3, <3>4
    <3>6. v = w
      BY <3>5, SeqEqual
    <3> QED
      BY <3>4, <3>6
  <2> QED
    BY <1>7, <2>3, <2>5, <2>7
<1> QED
  BY <1>5, <1>7, <1>8, <1>9 DEF old, Whole, Around, AroundValue

\* A run the span touches but does not begin in.
LEMMA RunLater ==
  ASSUME NEW S, NEW run, NEW from, NEW E, NEW d, Ready(S, run, from, E, d),
         NEW b, NEW x, GoesOnIn(from, d, b, x)
  PROVE  Whole(run, from, E \cup {d}) = Around(Whole(run, from, E), b, <<>>, x)
<1>r. /\ run \in Seq(S) /\ from \in Nat
      /\ EditsOK(S, E) /\ EditsOK(S, {d}) /\ \A e \in E : d.end < e.start
  BY DEF Ready
<1> USE <1>r
<1>0. d.start <= from /\ x \in Nat /\ x + from = d.end /\ b \in Int /\ b <= 0
  BY DEF GoesOnIn
<1>1. PICK len \in Nat : len = Len(run)
  OBVIOUS
<1>2. PICK s \in Nat, t \in Nat : s = d.start /\ t = d.end /\ s <= t
  BY DEF EditsOK
<1>3. PICK n \in 0..Len(run) : (n = x \/ (n = Len(run) /\ n < x)) /\ n <= x
  <2>1. CASE x <= len
    <3>1. x \in 0..Len(run) /\ x <= x
      BY <1>0, <1>1, <1>2, <2>1
    <3> QED
      BY <3>1
  <2>2. CASE ~(x <= len)
    <3>1. len \in 0..Len(run) /\ len < x /\ len <= x
      BY <1>0, <1>1, <1>2, <2>2
    <3> QED
      BY <1>1, <3>1
  <2> QED
    BY <2>1, <2>2
<1>4. PICK y : y = SplicedUpTo(run, from, E \cup {d})[n]
  OBVIOUS
<1>5. PICK new : new = SplicedUpTo(run, from, E \cup {d})[Len(run)]
  OBVIOUS
<1> DEFINE old == Whole(run, from, E)
<1>6. Behind(S, run, from, n, old, new, x, y)
  BY <1>0, <1>3, <1>4, <1>5, RunBehind DEF Whole
<1> HIDE DEF old
<1>7. PICK rest \in Seq(S) : new = y \o rest /\ SubSeq(old, x + 1, Len(old)) = rest
  BY <1>6 DEF Behind
<1>8. y = <<>>
  <2>1. n \in Nat /\ from + n <= d.end
    BY <1>0, <1>1, <1>2, <1>3
  <2> QED
    BY <1>0, <1>4, <2>1, SpliceLater
<1>9. SubSeq(old, 1, b) = <<>>
  BY <1>0, SubSeqEmpty
<1>10. <<>> \o <<>> = <<>>
  OBVIOUS
<1> QED
  BY <1>5, <1>7, <1>8, <1>9, <1>10 DEF old, Whole, Around

\* Run k has tokens of the span from s to t.
Touch(runs, k, s, t) == Cursor(runs)[k] >= s /\ Cursor(runs)[k - 1] + 1 <= t

\* As long as the runs end at the same positions, a span touches the same runs.
LEMMA TouchSame ==
  ASSUME NEW S, NEW runs \in Seq(Seq(S)), NEW s \in Nat, NEW t \in Nat, s <= t,
         NEW cur, SameCursor(S, runs, cur, t), NEW k \in 1..Len(runs)
  PROVE  /\ Touch(cur, k, s, t) <=> Touch(runs, k, s, t)
         /\ Touch(runs, k, s, t) => Cursor(cur)[k - 1] = Cursor(runs)[k - 1]
<1> DEFINE c == Cursor(runs)
           d == Cursor(cur)
           N == Len(runs)
<1>1. c \in [0..N -> Nat] /\ N \in Nat
  BY CursorDef
<1>2. /\ cur \in Seq(Seq(S)) /\ Len(cur) = N
      /\ \A i \in 0..N : IF c[i] <= t THEN d[i] = c[i] ELSE t <= d[i]
  BY DEF SameCursor
<1>3. d \in [0..N -> Nat]
  <2> HIDE DEF N, c
  <2>1. d \in [0..Len(cur) -> Nat]
    BY <1>2, CursorDef
  <2> QED
    BY <1>2, <2>1
<1>4. k \in 0..N /\ k - 1 \in 0..N
  BY <1>1
<1>5. c[k - 1] <= c[k]
  <2>1. k - 1 \in 0..Len(runs) /\ k \in 0..Len(runs) /\ k - 1 <= k
    BY <1>4
  <2> QED
    BY <2>1, CursorGrows
<1> HIDE DEF c, d, N
<1>6. PICK c1 \in Nat, c0 \in Nat : c1 = c[k] /\ c0 = c[k - 1]
  BY <1>1, <1>4
<1>7. PICK d1 \in Nat, d0 \in Nat : d1 = d[k] /\ d0 = d[k - 1]
  BY <1>3, <1>4
<1>8. /\ IF c1 <= t THEN d1 = c1 ELSE t <= d1
      /\ IF c0 <= t THEN d0 = c0 ELSE t <= d0
  BY <1>2, <1>4, <1>6, <1>7
<1>9. (d1 >= s /\ d0 + 1 <= t) <=> (c1 >= s /\ c0 + 1 <= t)
  BY <1>5, <1>6, <1>8
<1>10. c0 + 1 <= t => d0 = c0
  BY <1>8
<1> QED
  BY <1>6, <1>7, <1>9, <1>10 DEF c, d, Touch

\* The first run that a span touches is the one it begins in.
LEMMA TouchFirst ==
  ASSUME NEW S, NEW runs \in Seq(Seq(S)), NEW s \in Nat \ {0}, NEW t \in Nat, s <= t,
         NEW k \in 1..Len(runs), Touch(runs, k, s, t)
  PROVE  (\A i \in {j \in 1..Len(runs) : Touch(runs, j, s, t)} : k <= i) <=> Cursor(runs)[k - 1] < s
<1> DEFINE c == Cursor(runs)
           N == Len(runs)
<1>1. c \in [0..N -> Nat] /\ N \in Nat /\ c[0] = 0
  BY CursorDef
<1>2. ASSUME NEW i \in 0..N, NEW j \in 0..N, i <= j PROVE c[i] <= c[j]
  BY <1>2, CursorGrows
<1> HIDE DEF c, N
<1>3. k \in 1..N /\ k \in 0..N /\ k - 1 \in 0..N
  BY <1>1 DEF N
<1>4. PICK c0 \in Nat : c0 = c[k - 1]
  BY <1>1, <1>3
<1>5. ASSUME c0 < s, NEW i \in 1..N, Touch(runs, i, s, t), ~(k <= i) PROVE FALSE
  <2>1. i \in 0..N /\ i <= k - 1
    BY <1>1, <1>3, <1>5
  <2>2. c[i] <= c[k - 1] /\ c[i] \in Nat
    BY <1>1, <1>2, <1>3, <2>1
  <2>3. c[i] >= s
    BY <1>5 DEF Touch, c
  <2> QED
    BY <1>4, <1>5, <2>2, <2>3
<1>6. ASSUME ~(c0 < s) PROVE k - 1 \in 1..N /\ Touch(runs, k - 1, s, t) /\ ~(k <= k - 1)
  <2>1. k - 1 # 0
    BY <1>1, <1>4, <1>6
  <2>2. k - 1 \in 1..N /\ k - 2 \in 0..N /\ k - 2 <= k - 1 /\ k - 1 - 1 = k - 2 /\ ~(k <= k - 1)
    BY <1>1, <1>3, <2>1
  <2>3. PICK c2 \in Nat : c2 = c[k - 2] /\ c2 <= c0
    <3>1. c[k - 2] \in Nat /\ c[k - 2] <= c[k - 1]
      BY <1>1, <1>2, <1>3, <2>2
    <3> QED
      BY <1>4, <3>1
  <2>4. c0 + 1 <= t
    BY <1>4 DEF Touch, c
  <2>5. c2 + 1 <= t /\ c0 >= s
    BY <1>6, <2>3, <2>4
  <2>6. c[k - 1] >= s /\ c[k - 2] + 1 <= t
    BY <1>4, <2>3, <2>5
  <2> QED
    BY <2>2, <2>6 DEF Touch, c
<1>7. CASE c0 < s
  BY <1>4, <1>5, <1>7 DEF c, N
<1>8. CASE ~(c0 < s)
  BY <1>4, <1>6, <1>8 DEF c, N
<1> QED
  BY <1>7, <1>8

\* Run k after the replacement of a span.
Replaced(cur, k, s, t, v) ==
  IF Touch(cur, k, s, t)
  THEN (SubSeq(cur[k], 1, s - (Cursor(cur)[k - 1] + 1))
        \o (IF \A i \in {j \in 1..Len(cur) : Touch(cur, j, s, t)} : k <= i THEN v ELSE <<>>))
       \o SubSeq(cur[k], t - (Cursor(cur)[k - 1] + 1) + 2, Len(cur[k]))
  ELSE cur[k]

\* A replacement is made run by run.
LEMMA ReplaceByRun ==
  ASSUME NEW S, NEW cur \in Seq(Seq(S)), NEW s, NEW t, NEW v
  PROVE  ReplaceSpan(cur, s, t, v) = [k \in 1..Len(cur) |-> Replaced(cur, k, s, t, v)]
<1>1. DOMAIN cur = 1..Len(cur)
  OBVIOUS
<1> DEFINE touched == {k \in 1..Len(cur) : Cursor(cur)[k] >= s /\ Cursor(cur)[k - 1] + 1 <= t}
           one(k) == IF k \in touched
                     THEN SubSeq(cur[k], 1, s - (Cursor(cur)[k - 1] + 1))
                          \o (IF \A i \in touched : k <= i THEN v ELSE <<>>)
                          \o SubSeq(cur[k], t - (Cursor(cur)[k - 1] + 1) + 2, Len(cur[k]))
                     ELSE cur[k]
<1>2. ReplaceSpan(cur, s, t, v) = [k \in 1..Len(cur) |-> one(k)]
  BY <1>1 DEF ReplaceSpan
<1>3. ASSUME NEW k \in 1..Len(cur) PROVE one(k) = Replaced(cur, k, s, t, v)
  <2>1. touched = {j \in 1..Len(cur) : Touch(cur, j, s, t)}
    BY DEF Touch
  <2>2. k \in touched <=> Touch(cur, k, s, t)
    BY <2>1
  <2> HIDE DEF touched
  <2> QED
    BY <2>1, <2>2 DEF Replaced
<1> HIDE DEF one
<1> QED
  BY <1>2, <1>3

SplicedRun(runs, k, edits) == SplicedUpTo(runs[k], Cursor(runs)[k - 1], edits)[Len(runs[k])]

\* Run k after the replacement is the run with the new span besides.
LEMMA ReplacedRun ==
  ASSUME NEW S, NEW runs \in Seq(Seq(S)), NEW E, EditsOK(S, E), NEW d, EditsOK(S, {d}),
         \A e \in E : d.end < e.start, NEW cur, cur = Spliced(runs, E), NEW k \in 1..Len(runs)
  PROVE  Replaced(cur, k, d.start, d.end, d.value)
         = SplicedRun(runs, k, E \cup {d})
<1>1. PICK s \in Nat \ {0}, t \in Nat, v \in Seq(S) :
        s = d.start /\ t = d.end /\ v = d.value /\ s <= t
  BY DEF EditsOK
<1>2. SameCursor(S, runs, cur, t)
  <2>1. \A e \in E : t < e.start
    BY <1>1
  <2> QED
    BY <2>1, SplicedCursor
<1>3. Len(cur) = Len(runs) /\ cur \in Seq(Seq(S))
  BY <1>2 DEF SameCursor
<1>4. \A i \in 1..Len(runs) : Touch(cur, i, s, t) <=> Touch(runs, i, s, t)
  BY <1>1, <1>2, TouchSame
<1>5. Touch(runs, k, s, t) => Cursor(cur)[k - 1] = Cursor(runs)[k - 1]
  BY <1>1, <1>2, TouchSame
<1>6. PICK run \in Seq(S) : run = runs[k]
  OBVIOUS
<1>7. PICK from \in Nat, to \in Nat :
        from = Cursor(runs)[k - 1] /\ to = Cursor(runs)[k] /\ to = from + Len(run)
  <2>1. /\ Cursor(runs) \in [0..Len(runs) -> Nat]
        /\ Cursor(runs)[k] = Cursor(runs)[k - 1] + Len(runs[k])
    BY CursorDef
  <2>2. k \in 0..Len(runs) /\ k - 1 \in 0..Len(runs)
    OBVIOUS
  <2> QED
    BY <1>6, <2>1, <2>2
<1>8. PICK old : old = Whole(run, from, E)
  OBVIOUS
<1>9. cur[k] = old
  <2>1. DOMAIN runs = 1..Len(runs)
    OBVIOUS
  <2> QED
    BY <1>6, <1>7, <1>8, <2>1 DEF Spliced, Whole
<1>10. PICK new : new = Whole(run, from, E \cup {d}) /\ new = SplicedRun(runs, k, E \cup {d})
  BY <1>6, <1>7 DEF Whole, SplicedRun
<1>13. Ready(S, run, from, E, d)
  BY DEF Ready
<1>14. ASSUME NEW b, NEW x, BeginsIn(run, from, d, b, x)
       PROVE  Whole(run, from, E \cup {d}) = AroundValue(Whole(run, from, E), b, d, x)
  BY <1>13, <1>14, RunFirst
<1>11. CASE ~Touch(runs, k, s, t)
  <2>1. from + Len(run) < s \/ t <= from
    BY <1>1, <1>7, <1>11, SMTT(30) DEF Touch
  <2>2. Misses(run, from, d)
    BY <1>1, <2>1 DEF Misses
  <2>3. Whole(run, from, E \cup {d}) = Whole(run, from, E)
    BY <1>13, <2>2, RunUntouched
  <2>4. Replaced(cur, k, s, t, v) = old
    BY <1>4, <1>9, <1>11 DEF Replaced
  <2> QED
    BY <1>1, <1>8, <1>10, <2>3, <2>4
<1>12. CASE Touch(runs, k, s, t)
  <2>1. to >= s /\ from + 1 <= t
    BY <1>7, <1>12 DEF Touch
  <2>2. PICK x \in Nat : x + from = t
    <3>1. t - from \in Nat /\ (t - from) + from = t
      BY <2>1
    <3> QED
      BY <3>1
  <2>3. PICK b \in Int : b + from + 1 = s
    <3>1. s - from - 1 \in Int /\ (s - from - 1) + from + 1 = s
      BY <1>1
    <3> QED
      BY <3>1
  <2>4. s - (from + 1) = b /\ t - (from + 1) + 2 = x + 1
    BY <1>1, <2>2, <2>3
  <2>5. (\A i \in {j \in 1..Len(cur) : Touch(cur, j, s, t)} : k <= i) <=> from < s
    <3>1. {j \in 1..Len(cur) : Touch(cur, j, s, t)} = {j \in 1..Len(runs) : Touch(runs, j, s, t)}
      BY <1>3, <1>4
    <3>2. (\A i \in {j \in 1..Len(runs) : Touch(runs, j, s, t)} : k <= i)
            <=> Cursor(runs)[k - 1] < s
      BY <1>1, <1>12, TouchFirst
    <3> QED
      BY <1>7, <3>1, <3>2
  <2>6. Replaced(cur, k, s, t, v)
        = (SubSeq(old, 1, b) \o (IF from < s THEN v ELSE <<>>)) \o SubSeq(old, x + 1, Len(old))
    <3>1. Cursor(cur)[k - 1] = from
      BY <1>5, <1>7, <1>12
    <3>2. Touch(cur, k, s, t)
      BY <1>4, <1>12
    <3>3. Replaced(cur, k, s, t, v)
          = (SubSeq(old, 1, s - (from + 1))
             \o (IF \A i \in {j \in 1..Len(cur) : Touch(cur, j, s, t)} : k <= i THEN v ELSE <<>>))
            \o SubSeq(old, t - (from + 1) + 2, Len(old))
      BY <1>9, <3>1, <3>2 DEF Replaced
    <3> QED
      BY <2>4, <2>5, <3>3
  <2>7. CASE from < s
    <3>1. PICK len \in Nat : len = Len(run)
      OBVIOUS
    <3>2. b \in Nat /\ b + 1 <= len
      BY <1>1, <1>7, <2>1, <2>3, <2>7, <3>1, SMTT(30)
    <3>3. BeginsIn(run, from, d, b, x)
      BY <1>1, <2>2, <2>3, <3>1, <3>2 DEF BeginsIn
    <3>4. Whole(run, from, E \cup {d}) = AroundValue(Whole(run, from, E), b, d, x)
      BY <1>14, <3>3
    <3>5. new = Around(old, b, d.value, x)
      BY <1>8, <1>10, <3>4 DEF AroundValue
    <3>6. new = Replaced(cur, k, s, t, v)
      BY <1>1, <2>6, <2>7, <3>5 DEF Around
    <3> QED
      BY <1>1, <1>10, <3>6
  <2>8. CASE ~(from < s)
    <3>1. b <= 0
      BY <1>1, <2>3, <2>8
    <3>2. GoesOnIn(from, d, b, x)
      BY <1>1, <2>2, <2>3, <2>8, <3>1 DEF GoesOnIn
    <3>3. Whole(run, from, E \cup {d}) = Around(Whole(run, from, E), b, <<>>, x)
      BY <1>13, <3>2, RunLater
    <3>4. new = Around(old, b, <<>>, x)
      BY <1>8, <1>10, <3>3
    <3>5. new = Replaced(cur, k, s, t, v)
      BY <2>6, <2>8, <3>4 DEF Around
    <3> QED
      BY <1>1, <1>10, <3>5
  <2> QED
    BY <2>7, <2>8
<1> QED
  BY <1>11, <1>12

\* Replacing a span before all others in a text that has their values already
\* gives the text with all the values (_replace_span_in_runs).
THEOREM ReplaceSpliced ==
  ASSUME NEW S, NEW runs \in Seq(Seq(S)), NEW E, EditsOK(S, E), NEW d, EditsOK(S, {d}),
         \A e \in E : d.end < e.start
  PROVE  ReplaceSpan(Spliced(runs, E), d.start, d.end, d.value) = Spliced(runs, E \cup {d})
<1>1. PICK cur : cur = Spliced(runs, E)
  OBVIOUS
<1>2. cur \in Seq(Seq(S)) /\ Len(cur) = Len(runs)
  <2>1. PICK t \in Nat : t = d.end
    BY DEF EditsOK
  <2>2. SameCursor(S, runs, Spliced(runs, E), t)
    BY <2>1, SplicedCursor
  <2> QED
    BY <1>1, <2>2 DEF SameCursor
<1>3. PICK s, t, v : s = d.start /\ t = d.end /\ v = d.value
  OBVIOUS
<1>4. ReplaceSpan(cur, s, t, v) = [k \in 1..Len(cur) |-> Replaced(cur, k, s, t, v)]
  BY <1>2, ReplaceByRun
<1>5. ASSUME NEW k \in 1..Len(runs)
      PROVE  Replaced(cur, k, s, t, v) = SplicedRun(runs, k, E \cup {d})
  BY <1>1, <1>3, ReplacedRun
<1>6. DOMAIN runs = 1..Len(runs)
  OBVIOUS
<1>7. Spliced(runs, E \cup {d}) = [k \in 1..Len(runs) |-> SplicedRun(runs, k, E \cup {d})]
  BY <1>6 DEF Spliced, SplicedRun
<1> QED
  BY <1>1, <1>2, <1>3, <1>4, <1>5, <1>7

-----------------------------------------------------------------------------
(* The text of a paragraph. *)

\* t[k] is the text of the first k runs.
TextUpTo(S, runs, t) ==
  /\ t \in [0..Len(runs) -> Seq(S)] /\ t[0] = <<>>
  /\ \A k \in 1..Len(runs) : t[k] = t[k - 1] \o runs[k]
  /\ t[Len(runs)] = Text(runs)

\* A text is put together run by run.
LEMMA TextDef ==
  ASSUME NEW S, NEW runs \in Seq(Seq(S))
  PROVE  \E t : TextUpTo(S, runs, t)
<1> DEFINE N == Len(runs)
           step == [p \in Nat \X Seq(S) |->
                      IF p[1] + 1 \in 1..N THEN p[2] \o runs[p[1] + 1] ELSE p[2]]
           Eq(c) == c = [i \in 1..N |-> IF i = 1 THEN runs[i] ELSE c[i - 1] \o runs[i]]
<1>1. N \in Nat /\ \A k \in 1..N : runs[k] \in Seq(S)
  OBVIOUS
<1>2. step \in [Nat \X Seq(S) -> Seq(S)]
  <2>1. ASSUME NEW p \in Nat \X Seq(S) PROVE step[p] \in Seq(S)
    <3>1. ASSUME NEW x \in Seq(S), NEW y \in Seq(S) PROVE x \o y \in Seq(S)
      BY ConcatProperties
    <3> QED
      BY <1>1, <3>1
  <2> QED
    BY <2>1
<1>3. PICK f \in [Nat -> Seq(S)] : Recursive(f, <<>>, step)
  <2>1. <<>> \in Seq(S)
    OBVIOUS
  <2> HIDE DEF step
  <2> QED
    BY <1>2, <2>1, RecursionOnNat
<1>4. ASSUME NEW k \in 1..N PROVE f[k] = f[k - 1] \o runs[k]
  <2>1. k - 1 \in Nat /\ (k - 1) + 1 = k
    BY <1>1
  <2>2. f[k] = step[<<k - 1, f[k - 1]>>]
    <3> HIDE DEF step
    <3> QED
      BY <1>3, <2>1 DEF Recursive
  <2>3. f[k - 1] \in Seq(S)
    BY <2>1
  <2>4. step[<<k - 1, f[k - 1]>>] = f[k - 1] \o runs[k]
    BY <2>1, <2>3
  <2> QED
    BY <2>2, <2>4
<1>5. f[0] = <<>>
  BY <1>3 DEF Recursive
<1>6. Text(runs) = f[N]
  <2>1. CASE N = 0
    <3>1. runs = <<>>
      BY <2>1
    <3>2. Text(runs) = runs
      BY <2>1 DEF Text, FlattenSeq
    <3> QED
      BY <1>5, <2>1, <3>1, <3>2
  <2>2. CASE N # 0
    <3> DEFINE c == CHOOSE c : Eq(c)
               g == [i \in 1..N |-> f[i]]
    <3>1. Text(runs) = c[N]
      BY <2>2 DEF Text, FlattenSeq
    <3>2. f[1] = runs[1]
      <4>1. 1 \in 1..N /\ 1 - 1 = 0
        BY <1>1, <2>2
      <4>2. f[1] = <<>> \o runs[1] /\ runs[1] \in Seq(S)
        BY <1>1, <1>4, <1>5, <4>1
      <4> QED
        BY <4>2, ConcatEmptySeq
    <3>3. Eq(g)
      <4>1. ASSUME NEW i \in 1..N PROVE g[i] = IF i = 1 THEN runs[i] ELSE g[i - 1] \o runs[i]
        <5>1. CASE i = 1
          BY <3>2, <5>1
        <5>2. CASE i # 1
          <6>1. i - 1 \in 1..N
            BY <1>1, <5>2
          <6>2. g[i] = f[i] /\ g[i - 1] = f[i - 1]
            BY <6>1
          <6> HIDE DEF g
          <6> QED
            BY <1>4, <5>2, <6>2
        <5> QED
          BY <5>1, <5>2
      <4>2. g = [i \in 1..N |-> g[i]]
        OBVIOUS
      <4> HIDE DEF g
      <4> QED
        BY <4>1, <4>2
    <3>4. Eq(c)
      <4> HIDE DEF Eq, g
      <4> QED
        BY <3>3
    <3> HIDE DEF c
    <3>5. \A i \in 1..N : c[i] = IF i = 1 THEN runs[i] ELSE c[i - 1] \o runs[i]
      BY <3>4
    <3> HIDE DEF Eq, g
    <3>6. c[N] = f[N]
      <4> DEFINE T == {i \in Nat : i \in 1..N /\ c[i] # f[i]}
      <4> SUFFICES ASSUME T # {} PROVE FALSE
        <5>1. N \in 1..N /\ N \in Nat
          BY <1>1, <2>2
        <5> QED
          BY <5>1
      <4>1. PICK i \in T : \A j \in T : i <= j
        BY LeastNatural
      <4>2. i # 1
        <5>1. 1 \in 1..N
          BY <1>1, <2>2
        <5> QED
          BY <3>2, <3>5, <4>1, <5>1
      <4>3. i \in 1..N /\ i - 1 \in 1..N /\ i - 1 \in Nat /\ ~(i <= i - 1)
        BY <1>1, <4>1, <4>2
      <4>4. c[i - 1] = f[i - 1]
        BY <4>1, <4>3
      <4>5. c[i] = f[i]
        BY <1>4, <3>5, <4>2, <4>3, <4>4
      <4> QED
        BY <4>1, <4>5
    <3> QED
      BY <3>1, <3>6
  <2> QED
    BY <2>1, <2>2
<1> DEFINE t == [k \in 0..N |-> f[k]]
<1>7. t \in [0..N -> Seq(S)] /\ t[0] = <<>> /\ t[N] = Text(runs)
  <2>1. 0 \in 0..N /\ N \in 0..N /\ \A k \in 0..N : k \in Nat
    BY <1>1
  <2>2. \A k \in 0..N : f[k] \in Seq(S)
    BY <2>1
  <2> QED
    BY <1>5, <1>6, <2>1, <2>2
<1>8. ASSUME NEW k \in 1..N PROVE t[k] = t[k - 1] \o runs[k]
  <2>1. k \in 0..N /\ k - 1 \in 0..N
    BY <1>1
  <2>2. t[k] = f[k] /\ t[k - 1] = f[k - 1]
    BY <2>1
  <2> HIDE DEF t
  <2> QED
    BY <1>4, <2>2
<1> HIDE DEF t
<1> QED
  BY <1>7, <1>8 DEF TextUpTo

\* The text of the first k runs has the tokens up to where run k ends.
LEMMA TextLength ==
  ASSUME NEW S, NEW runs \in Seq(Seq(S)), NEW t, TextUpTo(S, runs, t), NEW n \in 0..Len(runs)
  PROVE  Len(t[n]) = Cursor(runs)[n]
<1> DEFINE c == Cursor(runs)
           N == Len(runs)
           T == {k \in Nat : k \in 0..N /\ Len(t[k]) # c[k]}
<1> SUFFICES ASSUME T # {} PROVE FALSE
  OBVIOUS
<1>1. c[0] = 0 /\ N \in Nat /\ \A k \in 1..N : c[k] = c[k - 1] + Len(runs[k])
  BY CursorDef
<1>2. /\ t \in [0..N -> Seq(S)] /\ t[0] = <<>>
      /\ \A k \in 1..N : t[k] = t[k - 1] \o runs[k] /\ runs[k] \in Seq(S)
  BY SMTT(30) DEF TextUpTo
<1>3. PICK k \in T : \A j \in T : k <= j
  BY LeastNatural
<1>4. k # 0
  <2>1. Len(t[0]) = 0
    BY <1>2
  <2> HIDE DEF c
  <2> QED
    BY <1>1, <1>3, <2>1
<1>5. k \in 1..N /\ k - 1 \in 0..N /\ k - 1 \in Nat /\ ~(k <= k - 1)
  BY <1>1, <1>3, <1>4
<1>6. Len(t[k - 1]) = c[k - 1]
  BY <1>3, <1>5
<1> HIDE DEF c
<1>7. Len(t[k]) = Len(t[k - 1]) + Len(runs[k])
  <2>1. PICK x \in Seq(S), y \in Seq(S) : x = t[k - 1] /\ y = runs[k]
    BY <1>2, <1>5
  <2>2. Len(x \o y) = Len(x) + Len(y)
    BY ConcatProperties
  <2> QED
    BY <1>2, <1>5, <2>1, <2>2
<1> QED
  BY <1>1, <1>3, <1>5, <1>6, <1>7

\* y is x as far as e, x having c tokens.
AlikeUpTo(c, x, y, e) ==
  IF c <= e THEN y = x ELSE e <= Len(y) /\ \A i \in 1..e : y[i] = x[i]

\* Before the first span the text is as it was.
LEMMA SplicedTextUpTo ==
  ASSUME NEW S, NEW runs \in Seq(Seq(S)), NEW E, EditsOK(S, E),
         NEW e \in Nat, \A x \in E : e < x.start, NEW cur, cur = Spliced(runs, E),
         NEW t, TextUpTo(S, runs, t), NEW u, TextUpTo(S, cur, u), NEW n \in 0..Len(runs)
  PROVE  AlikeUpTo(Cursor(runs)[n], t[n], u[n], e)
<1> DEFINE c == Cursor(runs)
           N == Len(runs)
           T == {k \in Nat : k \in 0..N /\ ~AlikeUpTo(c[k], t[k], u[k], e)}
<1> SUFFICES ASSUME T # {} PROVE FALSE
  OBVIOUS
<1>1. c \in [0..N -> Nat] /\ c[0] = 0 /\ N \in Nat /\ \A k \in 1..N : c[k] = c[k - 1] + Len(runs[k])
  BY CursorDef
<1>2. /\ t \in [0..N -> Seq(S)] /\ t[0] = <<>>
      /\ \A k \in 1..N : t[k] = t[k - 1] \o runs[k] /\ runs[k] \in Seq(S)
  <2>1. \A k \in 1..N : runs[k] \in Seq(S)
    OBVIOUS
  <2> HIDE DEF T
  <2> QED
    BY <2>1 DEF TextUpTo
<1>3. SameCursor(S, runs, cur, e)
  BY SplicedCursor
<1>4. cur \in Seq(Seq(S)) /\ Len(cur) = N /\ \A k \in 1..N : c[k] <= e => cur[k] = runs[k]
  BY <1>3 DEF SameCursor
<1>5. /\ u \in [0..N -> Seq(S)] /\ u[0] = <<>>
      /\ \A k \in 1..N : u[k] = u[k - 1] \o cur[k] /\ cur[k] \in Seq(S)
  <2>1. \A k \in 1..N : cur[k] \in Seq(S)
    BY <1>4
  <2> HIDE DEF T, c
  <2> QED
    BY <1>4, <2>1 DEF TextUpTo
<1>6. PICK k \in T : \A j \in T : k <= j
  BY LeastNatural
<1>7. k # 0
  <2>1. c[0] <= e /\ u[0] = t[0]
    BY <1>1, <1>2, <1>5
  <2> HIDE DEF c
  <2> QED
    BY <1>6, <2>1 DEF AlikeUpTo
<1>8. /\ k \in 1..N /\ k \in 0..N /\ k - 1 \in 0..N /\ k - 1 \in Nat /\ ~(k <= k - 1)
      /\ ~AlikeUpTo(c[k], t[k], u[k], e)
  BY <1>1, <1>6, <1>7
<1>9. AlikeUpTo(c[k - 1], t[k - 1], u[k - 1], e)
  BY <1>6, <1>8
<1>10. PICK from \in Nat, run \in Seq(S), new \in Seq(S) :
         from = c[k - 1] /\ run = runs[k] /\ new = cur[k]
  BY <1>1, <1>2, <1>5, <1>8
<1>11. PICK x \in Seq(S), y \in Seq(S) : x = t[k - 1] /\ y = u[k - 1]
  BY <1>2, <1>5, <1>8
<1>12. Len(x) = from
  <2>1. k - 1 \in 0..Len(runs)
    BY <1>8
  <2>2. Len(t[k - 1]) = Cursor(runs)[k - 1]
    BY <2>1, TextLength
  <2> QED
    BY <1>10, <1>11, <2>2
<1>13. PICK len \in Nat : len = Len(run) /\ c[k] = from + len
  BY <1>1, <1>8, <1>10
<1>14. t[k] = x \o run /\ u[k] = y \o new
  BY <1>2, <1>5, <1>8, <1>10, <1>11
<1>15. AlikeUpTo(from, x, y, e)
  BY <1>9, <1>10, <1>11
<1>16. ~AlikeUpTo(from + len, x \o run, y \o new, e)
  BY <1>8, <1>13, <1>14
<1> HIDE DEF T, c
<1>17. /\ Len(x \o run) = Len(x) + Len(run)
       /\ \A i \in 1..(Len(x) + Len(run)) :
            (x \o run)[i] = IF i <= Len(x) THEN x[i] ELSE run[i - Len(x)]
  BY ConcatProperties
<1>18. /\ Len(y \o new) = Len(y) + Len(new)
       /\ \A i \in 1..(Len(y) + Len(new)) :
            (y \o new)[i] = IF i <= Len(y) THEN y[i] ELSE new[i - Len(y)]
  BY ConcatProperties
<1>19. CASE from + len <= e
  <2>1. y = x
    BY <1>15, <1>19 DEF AlikeUpTo
  <2>2. c[k] <= e
    BY <1>13, <1>19
  <2>3. new = run
    BY <1>4, <1>8, <1>10, <2>2
  <2> QED
    BY <1>16, <1>19, <2>1, <2>3 DEF AlikeUpTo
<1>20. CASE ~(from + len <= e) /\ from <= e
  <2>1. y = x
    BY <1>15, <1>20 DEF AlikeUpTo
  <2>2. PICK m \in Nat : from + m = e
    <3>1. e - from \in Nat /\ from + (e - from) = e
      BY <1>20
    <3> QED
      BY <3>1
  <2>3. BeginsWith(S, new, run, m)
    <3>1. m \in 0..Len(run) /\ \A z \in E : z.start > from + m
      <4>1. m <= len
        BY <1>20, <2>2
      <4>2. \A z \in E : z.start \in Nat
        BY DEF EditsOK
      <4> QED
        BY <1>13, <2>2, <4>1, <4>2
    <3>2. new = SplicedUpTo(run, from, E)[Len(run)]
      <4>1. DOMAIN runs = 1..N
        OBVIOUS
      <4> QED
        BY <1>8, <1>10, <4>1 DEF Spliced, c
    <3>3. BeginsWith(S, SplicedUpTo(run, from, E)[Len(run)], run, m)
      BY <3>1, SplicePrefix
    <3> QED
      BY <3>2, <3>3
  <2>4. m <= Len(new) /\ \A i \in 1..m : new[i] = run[i]
    BY <2>3 DEF BeginsWith
  <2>5. e <= Len(y \o new)
    BY <1>12, <1>18, <2>1, <2>2, <2>4
  <2>6. ASSUME NEW i \in 1..e PROVE (y \o new)[i] = (x \o run)[i]
    <3>1. PICK nn \in Nat : nn = Len(new)
      OBVIOUS
    <3>2. m <= nn /\ m <= len
      BY <1>13, <1>20, <2>2, <2>4, <3>1
    <3>3. i \in 1..(from + len) /\ i \in 1..(from + nn)
      BY <2>2, <3>2
    <3>4. (x \o run)[i] = IF i <= from THEN x[i] ELSE run[i - from]
      BY <1>12, <1>13, <1>17, <3>3
    <3>5. (y \o new)[i] = IF i <= from THEN x[i] ELSE new[i - from]
      BY <1>12, <1>18, <2>1, <3>1, <3>3
    <3>6. ~(i <= from) => i - from \in 1..m
      BY <2>2
    <3> QED
      BY <2>4, <3>4, <3>5, <3>6
  <2> QED
    BY <1>16, <1>20, <2>5, <2>6 DEF AlikeUpTo
<1>21. CASE ~(from <= e)
  <2>1. e <= Len(y) /\ \A i \in 1..e : y[i] = x[i]
    BY <1>15, <1>21 DEF AlikeUpTo
  <2>2. PICK ny \in Nat, nn \in Nat : ny = Len(y) /\ nn = Len(new) /\ e <= ny
    <3>1. Len(y) \in Nat /\ Len(new) \in Nat
      OBVIOUS
    <3> QED
      BY <2>1, <3>1
  <2>3. e <= Len(y \o new) /\ ~(from + len <= e)
    BY <1>18, <1>21, <2>2
  <2>4. ASSUME NEW i \in 1..e PROVE (y \o new)[i] = (x \o run)[i]
    <3>1. i \in 1..(from + len) /\ i <= from /\ i \in 1..(ny + nn) /\ i <= ny
      BY <1>21, <2>2
    <3>2. (x \o run)[i] = x[i]
      BY <1>12, <1>13, <1>17, <3>1
    <3>3. (y \o new)[i] = y[i]
      BY <1>18, <2>2, <3>1
    <3> QED
      BY <2>1, <3>2, <3>3
  <2> QED
    BY <1>16, <2>3, <2>4 DEF AlikeUpTo
<1> QED
  BY <1>19, <1>20, <1>21

\* Two texts have the same e tokens first.
AlikeThrough(S, x, y, e) ==
  /\ x \in Seq(S) /\ y \in Seq(S)
  /\ e <= Len(x) /\ e <= Len(y) /\ \A i \in 1..e : y[i] = x[i]

SameSpan(x, y, s, e) == SubSeq(y, s, e) = SubSeq(x, s, e)

\* Texts that begin alike have the same spans.
LEMMA SubSeqSame ==
  ASSUME NEW S, NEW x, NEW y, NEW s \in Nat \ {0}, NEW e \in Nat, AlikeThrough(S, x, y, e)
  PROVE  SameSpan(x, y, s, e)
<1>0. /\ x \in Seq(S) /\ y \in Seq(S)
      /\ e <= Len(x) /\ e <= Len(y) /\ \A i \in 1..e : y[i] = x[i]
  BY DEF AlikeThrough
<1> USE <1>0
<1>1. \A i \in s..e : i \in 1..e /\ i \in 1..Len(x) /\ i \in 1..Len(y)
  <2>1. Len(x) \in Nat /\ Len(y) \in Nat
    OBVIOUS
  <2> QED
    BY <2>1
<1>2. (\A i \in s..e : x[i] \in S) /\ (\A i \in s..e : y[i] \in S)
  BY <1>1
<1>3. /\ SubSeq(x, s, e) \in Seq(S) /\ Len(SubSeq(x, s, e)) = IF s <= e THEN e - s + 1 ELSE 0
      /\ \A i \in 1..(e - s + 1) : SubSeq(x, s, e)[i] = x[s + i - 1]
  BY <1>2, SubSeqProperties
<1>4. /\ SubSeq(y, s, e) \in Seq(S) /\ Len(SubSeq(y, s, e)) = IF s <= e THEN e - s + 1 ELSE 0
      /\ \A i \in 1..(e - s + 1) : SubSeq(y, s, e)[i] = y[s + i - 1]
  BY <1>2, SubSeqProperties
<1>5. PICK v \in Seq(S), w \in Seq(S) : v = SubSeq(x, s, e) /\ w = SubSeq(y, s, e)
  BY <1>3, <1>4
<1>6. Len(v) = Len(w)
  BY <1>3, <1>4, <1>5
<1>7. ASSUME NEW i \in 1..Len(v) PROVE v[i] = w[i]
  <2>1. Len(v) = IF s <= e THEN e - s + 1 ELSE 0
    BY <1>3, <1>5
  <2>2. i \in 1..(e - s + 1) /\ s + i - 1 \in 1..e
    BY <2>1
  <2> QED
    BY <1>3, <1>4, <1>5, <2>2
<1>8. v = w
  BY <1>6, <1>7, SeqEqual
<1> QED
  BY <1>5, <1>8 DEF SameSpan

\* A span as the analysis or a selection tells it.
SpanIn(text, span) ==
  /\ span.start \in Nat \ {0} /\ span.end \in Nat /\ span.start <= span.end
  /\ span.end <= Len(text) /\ span.raw = SubSeq(text, span.start, span.end)

\* A span before all others still holds its text when they have been replaced.
LEMMA SpanStays ==
  ASSUME NEW S, NEW runs \in Seq(Seq(S)), NEW E, EditsOK(S, E),
         NEW span, SpanIn(Text(runs), span), \A x \in E : span.end < x.start
  PROVE  Matches(Spliced(runs, E), span)
<1>0. PICK s \in Nat \ {0}, e \in Nat :
        /\ s = span.start /\ e = span.end /\ s <= e
        /\ e <= Len(Text(runs)) /\ span.raw = SubSeq(Text(runs), s, e) /\ \A x \in E : e < x.start
  BY DEF SpanIn
<1>1. PICK cur : cur = Spliced(runs, E)
  OBVIOUS
<1>2. SameCursor(S, runs, cur, e)
  <2>1. \A x \in E : e < x.start
    BY <1>0
  <2>2. SameCursor(S, runs, Spliced(runs, E), e)
    BY <2>1, SplicedCursor
  <2> QED
    BY <1>1, <2>2
<1>3. cur \in Seq(Seq(S)) /\ Len(cur) = Len(runs)
  BY <1>2 DEF SameCursor
<1>4. PICK t : TextUpTo(S, runs, t)
  BY TextDef
<1>5. PICK u : TextUpTo(S, cur, u)
  BY <1>3, TextDef
<1>6. PICK n \in 0..Len(runs) : n = Len(runs)
  OBVIOUS
<1>7. AlikeUpTo(Cursor(runs)[n], t[n], u[n], e)
  <2>1. \A x \in E : e < x.start
    BY <1>0
  <2> QED
    BY <1>1, <1>4, <1>5, <2>1, SplicedTextUpTo
<1>8. Len(t[n]) = Cursor(runs)[n]
  BY <1>4, TextLength
<1>9. PICK x \in Seq(S), y \in Seq(S) : x = Text(runs) /\ y = Text(cur) /\ x = t[n] /\ y = u[n]
  BY <1>3, <1>4, <1>5, <1>6 DEF TextUpTo
<1>10. e <= Len(y) /\ \A i \in 1..e : y[i] = x[i]
  <2>1. PICK len \in Nat : len = Len(x) /\ e <= len
    <3>1. Len(x) \in Nat
      OBVIOUS
    <3> QED
      BY <1>0, <1>9, <3>1
  <2>2. AlikeUpTo(len, x, y, e)
    BY <1>7, <1>8, <1>9, <2>1
  <2>3. CASE len <= e
    <3>1. y = x
      BY <2>2, <2>3 DEF AlikeUpTo
    <3> QED
      BY <2>1, <3>1
  <2>4. CASE ~(len <= e)
    BY <2>2, <2>4 DEF AlikeUpTo
  <2> QED
    BY <2>3, <2>4
<1>11. SameSpan(x, y, s, e)
  <2>1. AlikeThrough(S, x, y, e)
    BY <1>0, <1>9, <1>10 DEF AlikeThrough
  <2> QED
    BY <2>1, SubSeqSame
<1> QED
  BY <1>0, <1>1, <1>9, <1>10, <1>11 DEF Matches, SameSpan

SplicesAt(run, from, edits, n) ==
  SplicedUpTo(run, from, edits)[n]
  = SplicedUpTo(run, from, edits)[n - 1]
      \o (ValueAt(edits, from + n) \o Kept(edits, from + n, run[n]))

\* What is added with token n of a run.
LEMMA SpliceStep ==
  ASSUME NEW S, NEW run \in Seq(S), NEW from \in Nat, NEW edits, EditsOK(S, edits),
         NEW n \in 1..Len(run)
  PROVE  SplicesAt(run, from, edits, n)
  BY SpliceDef DEF SplicesAt

TokenAt(text, p, token) == p <= Len(text) /\ text[p] = token
StartsIn(run, from, l, b) == b + from + 1 = l.start /\ b + 1 <= Len(run)
ValueStarts(run, from, E, l, b) == TokenAt(Whole(run, from, E), b + 1, l.value[1])

\* The value of the first span begins where the span began: in its run, ...
LEMMA FirstValueInRun ==
  ASSUME NEW S, NEW run \in Seq(S), NEW from \in Nat, NEW E, EditsOK(S, E),
         NEW l \in E, \A x \in E : x = l \/ l.end < x.start, l.value # <<>>,
         NEW b \in Nat, StartsIn(run, from, l, b)
  PROVE  ValueStarts(run, from, E, l, b)
<1>0. b + from + 1 = l.start /\ b + 1 <= Len(run)
  BY DEF StartsIn
<1> USE <1>0
<1> DEFINE f == SplicedUpTo(run, from, E)
<1>1. PICK s \in Nat, t \in Nat, v \in Seq(S) : s = l.start /\ t = l.end /\ v = l.value /\ s <= t
  BY DEF EditsOK
<1>2. b \in 0..Len(run) /\ b + 1 \in 0..Len(run) /\ b + 1 \in 1..Len(run) /\ (b + 1) - 1 = b
  <2>1. Len(run) \in Nat
    OBVIOUS
  <2> QED
    BY <2>1
<1>3. f[b] = SubSeq(run, 1, b)
  <2>1. ASSUME NEW x \in E PROVE x.start > from + b
    <3>1. PICK w \in Nat : w = x.start
      BY DEF EditsOK
    <3>2. w = s \/ t < w
      BY <1>1, <3>1
    <3>3. w > from + b
      BY <1>1, <3>2
    <3> QED
      BY <3>1, <3>3
  <2> QED
    BY <1>2, <2>1, SpliceBefore
<1>4. PICK p \in Nat, token \in S : p = from + (b + 1) /\ p = s /\ token = run[b + 1]
  <2>1. run[b + 1] \in S
    BY <1>2
  <2>2. from + (b + 1) \in Nat /\ from + (b + 1) = s
    BY <1>1
  <2> QED
    BY <2>1, <2>2
<1>5. ValueAt(E, p) = v
  <2>1. \A x \in E : x.start = l.start => x = l
    BY DEF EditsOK
  <2>2. (CHOOSE x \in E : x.start = p) = l
    BY <1>1, <1>4, <2>1
  <2>3. \E x \in E : x.start = p
    BY <1>1, <1>4
  <2> QED
    BY <1>1, <2>2, <2>3 DEF ValueAt
<1>6. PICK w \in Seq(S) : w = Kept(E, p, token)
  BY PiecesType
<1>7. f[b + 1] = SubSeq(run, 1, b) \o (v \o w)
  <2>1. PICK n \in 1..Len(run) : n = b + 1 /\ n - 1 = b
    BY <1>2
  <2>3. SplicesAt(run, from, E, n)
    BY SpliceStep
  <2>2. f[b + 1] = f[(b + 1) - 1]
                   \o (ValueAt(E, from + (b + 1)) \o Kept(E, from + (b + 1), run[b + 1]))
    BY <1>2, <2>1, <2>3 DEF SplicesAt
  <2> HIDE DEF f
  <2> QED
    BY <1>2, <1>3, <1>4, <1>5, <1>6, <2>2
<1>8. PICK n \in 0..Len(run) : n = b + 1
  BY <1>2
<1>9. GoOn(S, f[n], f[Len(run)], f[n], f[Len(run)])
  BY SpliceExtends
<1> HIDE DEF f
<1>10. PICK rest \in Seq(S) : f[Len(run)] = f[n] \o rest
  BY <1>9 DEF GoOn
<1>11. PICK x \in Seq(S) : x = SubSeq(run, 1, b) /\ Len(x) = b
  <2>1. \A i \in 1..b : run[i] \in S
    BY <1>2
  <2>2. SubSeq(run, 1, b) \in Seq(S) /\ Len(SubSeq(run, 1, b)) = b
    BY <2>1, SubSeqProperties
  <2> QED
    BY <2>2
<1>12. PICK q \in Seq(S) : q = v \o w /\ Len(q) >= 1 /\ q[1] = v[1]
  <2>1. /\ v \o w \in Seq(S) /\ Len(v \o w) = Len(v) + Len(w)
        /\ \A i \in 1..(Len(v) + Len(w)) : (v \o w)[i] = IF i <= Len(v) THEN v[i] ELSE w[i - Len(v)]
    BY ConcatProperties
  <2>2. Len(v) >= 1 /\ Len(v) \in Nat /\ Len(w) \in Nat
    BY <1>1, SMTT(30)
  <2>3. 1 \in 1..(Len(v) + Len(w)) /\ 1 <= Len(v) /\ Len(v) + Len(w) >= 1
    BY <2>2
  <2> QED
    BY <2>1, <2>3
<1>13. PICK r \in Seq(S) : r = x \o q /\ Len(r) >= b + 1 /\ r[b + 1] = v[1]
  <2>1. /\ x \o q \in Seq(S) /\ Len(x \o q) = Len(x) + Len(q)
        /\ \A i \in 1..(Len(x) + Len(q)) : (x \o q)[i] = IF i <= Len(x) THEN x[i] ELSE q[i - Len(x)]
    BY ConcatProperties
  <2>2. PICK lq \in Nat : lq = Len(q) /\ lq >= 1
    BY <1>12
  <2>3. b + 1 \in 1..(b + lq) /\ ~(b + 1 <= b) /\ (b + 1) - b = 1 /\ b + lq >= b + 1
    BY <2>2
  <2>4. (x \o q)[b + 1] = q[1]
    BY <1>11, <2>1, <2>2, <2>3
  <2> QED
    BY <1>11, <1>12, <2>1, <2>2, <2>3, <2>4
<1>14. PICK z \in Seq(S) : z = r \o rest /\ Len(z) >= b + 1 /\ z[b + 1] = v[1]
  <2>1. /\ r \o rest \in Seq(S) /\ Len(r \o rest) = Len(r) + Len(rest)
        /\ \A i \in 1..(Len(r) + Len(rest)) :
             (r \o rest)[i] = IF i <= Len(r) THEN r[i] ELSE rest[i - Len(r)]
    BY ConcatProperties
  <2>2. PICK lr \in Nat, lrest \in Nat : lr = Len(r) /\ lrest = Len(rest) /\ lr >= b + 1
    BY <1>13
  <2>3. b + 1 \in 1..(lr + lrest) /\ b + 1 <= lr /\ lr + lrest >= b + 1
    BY <2>2
  <2>4. (r \o rest)[b + 1] = r[b + 1]
    BY <2>1, <2>2, <2>3
  <2> QED
    BY <1>13, <2>1, <2>2, <2>3, <2>4
<1>15. Whole(run, from, E) = z
  BY <1>7, <1>8, <1>10, <1>11, <1>12, <1>13, <1>14 DEF Whole, f
<1> QED
  BY <1>1, <1>14, <1>15 DEF ValueStarts, TokenAt

\* A token stays where it is when more follows.
LEMMA TokenStays ==
  ASSUME NEW S, NEW x \in Seq(S), NEW y \in Seq(S), NEW p \in Nat \ {0}, NEW token,
         TokenAt(x, p, token)
  PROVE  TokenAt(x \o y, p, token)
<1>1. /\ Len(x \o y) = Len(x) + Len(y)
      /\ \A i \in 1..(Len(x) + Len(y)) : (x \o y)[i] = IF i <= Len(x) THEN x[i] ELSE y[i - Len(x)]
  BY ConcatProperties
<1>2. PICK lx \in Nat, ly \in Nat : lx = Len(x) /\ ly = Len(y)
  OBVIOUS
<1>3. p <= lx /\ x[p] = token
  BY <1>2 DEF TokenAt
<1>4. p <= lx + ly /\ p \in 1..(lx + ly)
  BY <1>3
<1> QED
  BY <1>1, <1>2, <1>3, <1>4 DEF TokenAt

\* A token of what follows.
LEMMA TokenBehind ==
  ASSUME NEW S, NEW x \in Seq(S), NEW y \in Seq(S), NEW p \in Nat \ {0}, NEW token,
         TokenAt(y, p, token)
  PROVE  TokenAt(x \o y, Len(x) + p, token)
<1>1. /\ Len(x \o y) = Len(x) + Len(y)
      /\ \A i \in 1..(Len(x) + Len(y)) : (x \o y)[i] = IF i <= Len(x) THEN x[i] ELSE y[i - Len(x)]
  BY ConcatProperties
<1>2. PICK lx \in Nat, ly \in Nat : lx = Len(x) /\ ly = Len(y)
  OBVIOUS
<1>3. p <= ly /\ y[p] = token
  BY <1>2 DEF TokenAt
<1>4. lx + p <= lx + ly /\ lx + p \in 1..(lx + ly) /\ ~(lx + p <= lx) /\ (lx + p) - lx = p
  BY <1>3
<1> QED
  BY <1>1, <1>2, <1>3, <1>4 DEF TokenAt

\* ... and in the text.
LEMMA FirstValueInText ==
  ASSUME NEW S, NEW runs \in Seq(Seq(S)), NEW E, EditsOK(S, E),
         NEW l \in E, \A x \in E : x = l \/ l.end < x.start, l.value # <<>>,
         l.start <= Len(Text(runs))
  PROVE  TokenAt(Text(Spliced(runs, E)), l.start, l.value[1])
<1>1. PICK s \in Nat \ {0}, end \in Nat : s = l.start /\ end = l.end /\ s <= end
  BY DEF EditsOK
<1>2. PICK e \in Nat : e + 1 = s
  <2>1. s - 1 \in Nat /\ (s - 1) + 1 = s
    OBVIOUS
  <2> QED
    BY <2>1
<1>3. ASSUME NEW x \in E PROVE e < x.start
  <2>1. PICK w \in Nat : w = x.start
    BY DEF EditsOK
  <2>2. w = s \/ end < w
    BY <1>1, <2>1
  <2> QED
    BY <1>1, <1>2, <2>1, <2>2
<1>4. PICK cur : cur = Spliced(runs, E)
  OBVIOUS
<1>5. SameCursor(S, runs, cur, e)
  <2>1. SameCursor(S, runs, Spliced(runs, E), e)
    BY <1>3, SplicedCursor
  <2> QED
    BY <1>4, <2>1
<1> DEFINE c == Cursor(runs)
           N == Len(runs)
<1>6. cur \in Seq(Seq(S)) /\ Len(cur) = N
  BY <1>5 DEF SameCursor
<1>7. PICK t : TextUpTo(S, runs, t)
  BY TextDef
<1>8. PICK u : TextUpTo(S, cur, u)
  BY <1>6, TextDef
<1>9. c \in [0..N -> Nat] /\ c[0] = 0 /\ N \in Nat /\ \A k \in 1..N : c[k] = c[k - 1] + Len(runs[k])
  BY CursorDef
<1>10. /\ u \in [0..N -> Seq(S)] /\ u[N] = Text(cur)
       /\ \A k \in 1..N : u[k] = u[k - 1] \o cur[k] /\ cur[k] \in Seq(S) /\ runs[k] \in Seq(S)
  <2>1. \A k \in 1..N : cur[k] \in Seq(S) /\ runs[k] \in Seq(S)
    BY <1>6
  <2> HIDE DEF c
  <2> QED
    BY <1>6, <1>8, <2>1 DEF TextUpTo
<1>11. PICK v1 : v1 = l.value[1]
  OBVIOUS
<1> DEFINE T == {k \in Nat : k \in 0..N /\ c[k] >= s /\ ~TokenAt(u[k], s, v1)}
<1>12. T = {}
  <2> SUFFICES ASSUME T # {} PROVE FALSE
    OBVIOUS
  <2>1. PICK k \in T : \A j \in T : k <= j
    BY LeastNatural
  <2>2. k # 0
    <3>1. ~(c[0] >= s)
      BY <1>9
    <3> HIDE DEF c
    <3> QED
      BY <2>1, <3>1
  <2>3. /\ k \in 1..N /\ k \in 0..N /\ k - 1 \in 0..N /\ k - 1 \in Nat /\ ~(k <= k - 1)
        /\ c[k] >= s /\ ~TokenAt(u[k], s, v1)
    BY <1>9, <2>1, <2>2
  <2>4. PICK from \in Nat, run \in Seq(S), new \in Seq(S), y \in Seq(S) :
          from = c[k - 1] /\ run = runs[k] /\ new = cur[k] /\ y = u[k - 1]
    BY <1>9, <1>10, <2>3
  <2>5. PICK len \in Nat : len = Len(run) /\ c[k] = from + len
    BY <1>9, <2>3, <2>4
  <2>6. u[k] = y \o new
    BY <1>10, <2>3, <2>4
  <2>7. CASE from >= s
    <3>1. TokenAt(y, s, v1)
      BY <2>1, <2>3, <2>4, <2>7
    <3>2. TokenAt(y \o new, s, v1)
      BY <3>1, TokenStays
    <3> QED
      BY <2>3, <2>6, <3>2
  <2>8. CASE ~(from >= s)
    <3>1. AlikeUpTo(c[k - 1], t[k - 1], u[k - 1], e)
      <4>1. AlikeUpTo(Cursor(runs)[k - 1], t[k - 1], u[k - 1], e)
        BY <1>3, <1>4, <1>7, <1>8, <2>3, SplicedTextUpTo
      <4> QED
        BY <4>1
    <3>2. u[k - 1] = t[k - 1]
      <4>1. from <= e
        BY <1>2, <2>8
      <4> QED
        BY <2>4, <3>1, <4>1 DEF AlikeUpTo
    <3>3. Len(y) = from
      <4>1. Len(t[k - 1]) = Cursor(runs)[k - 1]
        BY <1>7, <2>3, TextLength
      <4> QED
        BY <2>4, <3>2, <4>1
    <3>4. PICK b \in Nat : b + from + 1 = s /\ b + 1 <= len
      <4>1. s - 1 - from \in Nat /\ (s - 1 - from) + from + 1 = s
        BY <2>8
      <4>2. from + len >= s
        BY <2>3, <2>5
      <4>3. (s - 1 - from) + 1 <= len
        BY <4>2
      <4> QED
        BY <4>1, <4>3
    <3>5. new = Whole(run, from, E)
      <4>1. DOMAIN runs = 1..N
        OBVIOUS
      <4> QED
        BY <1>4, <2>3, <2>4, <4>1 DEF Spliced, Whole, c
    <3>6. TokenAt(new, b + 1, v1)
      <4>1. StartsIn(run, from, l, b)
        BY <1>1, <2>5, <3>4 DEF StartsIn
      <4>2. ValueStarts(run, from, E, l, b)
        BY <4>1, FirstValueInRun
      <4> QED
        BY <1>11, <3>5, <4>2 DEF ValueStarts
    <3>7. PICK p \in Nat \ {0} : p = b + 1 /\ from + p = s
      <4>1. b + 1 \in Nat \ {0} /\ from + (b + 1) = s
        BY <3>4
      <4> QED
        BY <4>1
    <3>8. TokenAt(new, p, v1)
      BY <3>6, <3>7
    <3>9. TokenAt(y \o new, Len(y) + p, v1)
      BY <3>8, TokenBehind
    <3> QED
      BY <2>3, <2>6, <3>3, <3>7, <3>9
  <2> QED
    BY <2>7, <2>8
<1>13. c[N] >= s /\ N \in 0..N
  <2>1. N \in 0..Len(runs) /\ N \in 0..N
    BY <1>9
  <2>2. Len(t[N]) = Cursor(runs)[N]
    BY <1>7, <2>1, TextLength
  <2>3. t[N] = Text(runs)
    BY <1>7 DEF TextUpTo
  <2>4. s <= Len(t[N])
    BY <1>1, <2>3
  <2>5. c[N] \in Nat
    BY <1>9, <2>1
  <2> QED
    BY <2>1, <2>2, <2>4, <2>5
<1>14. TokenAt(u[N], s, v1)
  <2> HIDE DEF c
  <2> QED
    BY <1>9, <1>12, <1>13
<1> QED
  BY <1>1, <1>4, <1>10, <1>11, <1>14

-----------------------------------------------------------------------------
(* Places and paths. *)

First == [walk \in {<<root>> : root \in Roots} |-> Place(Container(walk[1]), walk[1][1], <<>>)]
Under(Outer) ==
  [walk \in UNION {{Append(outer, step) : step \in Steps(Outer[outer].container)} :
                   outer \in DOMAIN Outer} |->
     Inside(Outer[Front(walk)], Last(walk))]

\* The iteration goes from the containers under n tables to those under n + 1.
LEMMA PlacesDef ==
  Places[0] = First /\ \A n \in Nat : Places[n + 1] = Under(Places[n])
<1> DEFINE Begins(g, n) == g = [m \in 0..n |-> IF m = 0 THEN First ELSE Under(g[m - 1])]
           Eq(P) == P = [n \in Nat |-> IF n = 0 THEN First ELSE Under(P[n - 1])]
<1>1. ASSUME NEW n \in Nat PROVE \E g : Begins(g, n)
  <2> DEFINE T == {m \in Nat : ~\E g : Begins(g, m)}
  <2> SUFFICES ASSUME T # {} PROVE FALSE
    OBVIOUS
  <2>1. PICK m \in T : \A k \in T : m <= k
    BY LeastNatural
  <2>2. ASSUME m = 0 PROVE FALSE
    <3> DEFINE g == [k \in 0..0 |-> First]
    <3>1. g = [k \in 0..0 |-> IF k = 0 THEN First ELSE Under(g[k - 1])]
      <4>1. \A k \in 0..0 : k = 0
        OBVIOUS
      <4> QED
        BY <4>1
    <3> HIDE DEF g
    <3>2. Begins(g, m)
      BY <2>2, <3>1
    <3> QED
      BY <2>1, <3>2
  <2>3. m # 0
    BY <2>2
  <2>4. m - 1 \in Nat /\ ~(m <= m - 1) /\ m \in Nat
    BY <2>1, <2>3
  <2>5. PICK g : Begins(g, m - 1)
    <3>1. m - 1 \notin T
      <4> HIDE DEF T
      <4> QED
        BY <2>1, <2>4
    <3> HIDE DEF Begins
    <3> QED
      BY <2>4, <3>1
  <2>6. \A k \in 0..(m - 1) : g[k] = IF k = 0 THEN First ELSE Under(g[k - 1])
    BY <2>5
  <2> DEFINE h == [k \in 0..m |-> IF k = m THEN Under(g[m - 1]) ELSE g[k]]
  <2>7. ASSUME NEW k \in 0..m PROVE h[k] = IF k = 0 THEN First ELSE Under(h[k - 1])
    <3>1. CASE k = m
      <4>1. h[k] = Under(g[m - 1]) /\ m - 1 \in 0..m /\ m - 1 # m
        BY <2>4, <3>1
      <4>2. h[m - 1] = g[m - 1]
        BY <4>1
      <4> HIDE DEF h
      <4> QED
        BY <2>3, <3>1, <4>1, <4>2
    <3>2. CASE k # m
      <4>1. k \in 0..(m - 1) /\ h[k] = g[k]
        BY <2>4, <3>2
      <4>2. k # 0 => k - 1 \in 0..m /\ k - 1 # m
        BY <2>4, <3>2
      <4>3. k # 0 => h[k - 1] = g[k - 1]
        BY <4>2
      <4> HIDE DEF h
      <4> QED
        BY <2>6, <4>1, <4>3
    <3> QED
      BY <3>1, <3>2
  <2>8. Begins(h, m)
    <3>1. h = [k \in 0..m |-> h[k]]
      OBVIOUS
    <3> HIDE DEF h
    <3> QED
      BY <2>7, <3>1
  <2> HIDE DEF Begins, h
  <2> QED
    BY <2>1, <2>8
<1>2. ASSUME NEW n \in Nat, NEW m \in Nat, NEW g, NEW h, Begins(g, n), Begins(h, m),
             NEW k \in Nat, k <= n, k <= m
      PROVE  g[k] = h[k]
  <2> DEFINE T == {j \in Nat : j <= n /\ j <= m /\ g[j] # h[j]}
  <2> SUFFICES ASSUME T # {} PROVE FALSE
    BY <1>2
  <2>1. PICK j \in T : \A i \in T : j <= i
    BY LeastNatural
  <2>2. /\ g[j] = IF j = 0 THEN First ELSE Under(g[j - 1])
        /\ h[j] = IF j = 0 THEN First ELSE Under(h[j - 1])
    <3>1. j \in 0..n /\ j \in 0..m
      BY <2>1
    <3> QED
      BY <1>2, <3>1
  <2>3. j # 0
    BY <2>1, <2>2
  <2>4. j - 1 \in Nat /\ ~(j <= j - 1) /\ j - 1 <= n /\ j - 1 <= m
    BY <2>1, <2>3
  <2>5. g[j - 1] = h[j - 1]
    BY <2>1, <2>4
  <2> QED
    BY <2>1, <2>2, <2>3, <2>5
<1> DEFINE G == [n \in Nat |-> CHOOSE g : Begins(g, n)]
           f == [n \in Nat |-> G[n][n]]
<1>3. \A n \in Nat : Begins(G[n], n)
  <2> HIDE DEF Begins
  <2> QED
    BY <1>1
<1>4. ASSUME NEW n \in Nat PROVE f[n] = IF n = 0 THEN First ELSE Under(f[n - 1])
  <2>1. Begins(G[n], n)
    BY <1>3
  <2>2. n \in 0..n
    OBVIOUS
  <2>3. G[n][n] = IF n = 0 THEN First ELSE Under(G[n][n - 1])
    <3> HIDE DEF G
    <3> QED
      BY <2>1, <2>2
  <2>4. CASE n = 0
    BY <2>3, <2>4
  <2>5. CASE n # 0
    <3>1. n - 1 \in Nat /\ n - 1 <= n /\ n - 1 <= n - 1
      BY <2>5
    <3>2. f[n] = G[n][n] /\ f[n - 1] = G[n - 1][n - 1]
      BY <3>1
    <3>3. Begins(G[n - 1], n - 1)
      <4> HIDE DEF Begins, G
      <4> QED
        BY <1>3, <3>1
    <3> HIDE DEF f, G, Begins
    <3>4. G[n][n - 1] = G[n - 1][n - 1]
      BY <1>2, <2>1, <3>1, <3>3
    <3> QED
      BY <2>3, <2>5, <3>2, <3>4
  <2> QED
    BY <2>4, <2>5
<1>5. Eq(f)
  <2>1. f = [n \in Nat |-> f[n]]
    OBVIOUS
  <2> HIDE DEF f
  <2> QED
    BY <1>4, <2>1
<1>6. Eq(Places)
  <2>1. Places = CHOOSE P : Eq(P)
    BY DEF Places, First, Under
  <2> HIDE DEF Eq, f
  <2> QED
    BY <1>5, <2>1
<1>7. Places[0] = First
  <2>1. 0 \in Nat
    OBVIOUS
  <2> QED
    BY <1>6, <2>1
<1>8. ASSUME NEW n \in Nat PROVE Places[n + 1] = Under(Places[n])
  <2>1. n + 1 \in Nat /\ n + 1 # 0 /\ (n + 1) - 1 = n
    OBVIOUS
  <2>2. Places[n + 1] = Under(Places[(n + 1) - 1])
    BY <1>6, <2>1
  <2> QED
    BY <2>1, <2>2
<1> QED
  BY <1>7, <1>8

\* a leads from the root of a walk to its last container.
Leads(a, walk) ==
  a = [m \in 1..Len(walk) |->
         IF m = 1 THEN Container(walk[1]) ELSE ResolveCell(a[m - 1], walk[m])]
LeadsTo(walk, n, container) ==
  /\ \E W : walk \in Seq(W)
  /\ Len(walk) = n + 1
  /\ \E a : Leads(a, walk) /\ a[n + 1] = container

\* The last and the others of a walk that goes one step on.
LEMMA AppendParts ==
  ASSUME NEW W, NEW s \in Seq(W), NEW x
  PROVE  /\ Append(s, x) \in Seq(W \cup {x}) /\ Len(Append(s, x)) = Len(s) + 1
         /\ \A i \in 1..Len(s) : Append(s, x)[i] = s[i]
         /\ Last(Append(s, x)) = x /\ Front(Append(s, x)) = s
<1> DEFINE V == W \cup {x}
           t == Append(s, x)
<1>1. s \in Seq(V) /\ x \in V /\ Len(s) \in Nat
  OBVIOUS
<1>2. /\ t \in Seq(V) /\ Len(t) = Len(s) + 1
      /\ \A i \in 1..Len(s) : t[i] = s[i] /\ t[Len(s) + 1] = x
  BY <1>1
<1>3. t[Len(s) + 1] = x
  BY <1>1
<1>4. Last(t) = x
  <2> HIDE DEF t
  <2> QED
    BY <1>2, <1>3 DEF Last
<1>5. Front(t) = s
  <2> HIDE DEF t, V
  <2>1. PICK n \in Nat : n = Len(s) /\ Len(t) - 1 = n
    BY <1>1, <1>2
  <2>2. \A i \in 1..n : t[i] \in V
    BY <1>1, <1>2, <2>1
  <2>3. /\ SubSeq(t, 1, n) \in Seq(V) /\ Len(SubSeq(t, 1, n)) = n
        /\ \A i \in 1..n : SubSeq(t, 1, n)[i] = t[i]
    BY <2>2, SubSeqProperties
  <2>4. PICK v \in Seq(V) : v = SubSeq(t, 1, n) /\ Len(v) = n /\ \A i \in 1..n : v[i] = t[i]
    BY <2>3
  <2>5. \A i \in 1..Len(v) : v[i] = s[i]
    BY <1>2, <2>1, <2>4
  <2>6. v = s
    BY <1>1, <2>1, <2>4, <2>5, SeqEqual
  <2>7. Front(t) = SubSeq(t, 1, n)
    BY <2>1 DEF Front
  <2> QED
    BY <2>4, <2>6, <2>7
<1> HIDE DEF t
<1> QED
  BY <1>2, <1>4, <1>5 DEF t, V

\* The container of a place inside another.
LEMMA InsideContainer ==
  ASSUME NEW place, NEW step
  PROVE  Inside(place, step).container = ResolveCell(place.container, step)
BY DEF Inside, Place, ResolveCell

\* Every walk of the iteration leads to the container it was listed with.
LEMMA WalksLead ==
  ASSUME NEW n \in Nat, NEW walk \in DOMAIN Places[n]
  PROVE  LeadsTo(walk, n, Places[n][walk].container)
<1> DEFINE T == {m \in Nat : \E w \in DOMAIN Places[m] : ~LeadsTo(w, m, Places[m][w].container)}
<1> SUFFICES ASSUME T # {} PROVE FALSE
  OBVIOUS
<1>1. PICK m \in T : \A k \in T : m <= k
  BY LeastNatural
<1>2. PICK w \in DOMAIN Places[m] : ~LeadsTo(w, m, Places[m][w].container)
  BY <1>1
<1>3. CASE m = 0
  <2>1. Places[m] = First
    BY <1>3, PlacesDef
  <2>2. PICK root \in Roots : w = <<root>>
    BY <1>2, <2>1 DEF First
  <2>3. w \in Seq({root}) /\ Len(w) = 1 /\ w[1] = root
    BY <2>2
  <2>4. Places[m][w] = Place(Container(w[1]), w[1][1], <<>>)
    BY <1>2, <2>1 DEF First
  <2>5. Places[m][w].container = Container(root)
    BY <2>3, <2>4 DEF Place
  <2> DEFINE a == [i \in 1..1 |-> Container(root)]
  <2>6. Leads(a, w)
    <3>1. \A i \in 1..1 : i = 1
      OBVIOUS
    <3>2. a = [i \in 1..1 |-> IF i = 1 THEN Container(w[1]) ELSE ResolveCell(a[i - 1], w[i])]
      BY <2>3, <3>1
    <3> HIDE DEF a
    <3> QED
      BY <2>3, <3>2 DEF Leads
  <2>7. a[1] = Container(root)
    <3>1. 1 \in 1..1
      OBVIOUS
    <3> QED
      BY <3>1
  <2> HIDE DEF a
  <2>8. a[m + 1] = Places[m][w].container /\ Len(w) = m + 1
    BY <1>3, <2>3, <2>5, <2>7
  <2>9. LeadsTo(w, m, Places[m][w].container)
    <3>1. \E W : w \in Seq(W)
      BY <2>3
    <3> QED
      BY <2>6, <2>8, <3>1 DEF LeadsTo
  <2> QED
    BY <1>2, <2>9
<1>4. CASE m # 0
  <2>1. PICK k \in Nat : k + 1 = m /\ ~(m <= k)
    <3>1. m - 1 \in Nat /\ (m - 1) + 1 = m /\ ~(m <= m - 1)
      BY <1>1, <1>4
    <3> QED
      BY <3>1
  <2> DEFINE Outer == Places[k]
  <2>2. Places[m] = Under(Outer)
    BY <2>1, PlacesDef
  <2>3. PICK outer \in DOMAIN Outer :
          \E step \in Steps(Outer[outer].container) : w = Append(outer, step)
    BY <1>2, <2>2 DEF Under
  <2>17. PICK step \in Steps(Outer[outer].container) : w = Append(outer, step)
    BY <2>3
  <2>4. LeadsTo(outer, k, Outer[outer].container)
    <3>1. k \notin T
      BY <1>1, <2>1
    <3> QED
      BY <2>3, <3>1
  <2>5. PICK W : outer \in Seq(W)
    BY <2>4 DEF LeadsTo
  <2>6. PICK a : Leads(a, outer) /\ a[k + 1] = Outer[outer].container
    BY <2>4 DEF LeadsTo
  <2>7. Len(outer) = k + 1
    BY <2>4 DEF LeadsTo
  <2>8. /\ w \in Seq(W \cup {step}) /\ Len(w) = k + 2
        /\ \A i \in 1..(k + 1) : w[i] = outer[i]
        /\ Last(w) = step /\ Front(w) = outer
    <3>1. /\ Append(outer, step) \in Seq(W \cup {step}) /\ Len(Append(outer, step)) = Len(outer) + 1
          /\ \A i \in 1..Len(outer) : Append(outer, step)[i] = outer[i]
          /\ Last(Append(outer, step)) = step /\ Front(Append(outer, step)) = outer
      BY <2>5, AppendParts
    <3> QED
      BY <2>7, <2>17, <3>1
  <2>9. w[k + 2] = step
    BY <2>8 DEF Last
  <2>10. Places[m][w].container = ResolveCell(a[k + 1], step)
    <3>1. Places[m][w] = Inside(Outer[Front(w)], Last(w))
      BY <1>2, <2>2 DEF Under
    <3>2. Places[m][w] = Inside(Outer[outer], step)
      BY <2>8, <3>1
    <3> QED
      BY <2>6, <3>2, InsideContainer
  <2> DEFINE b == [i \in 1..(k + 2) |-> IF i = k + 2 THEN ResolveCell(a[k + 1], step) ELSE a[i]]
  <2>11. \A i \in 1..(k + 1) :
           a[i] = IF i = 1 THEN Container(outer[1]) ELSE ResolveCell(a[i - 1], outer[i])
    BY <2>6, <2>7 DEF Leads
  <2>12. ASSUME NEW i \in 1..(k + 2)
         PROVE  b[i] = IF i = 1 THEN Container(w[1]) ELSE ResolveCell(b[i - 1], w[i])
    <3>1. CASE i = k + 2
      <4>1. k + 1 \in 1..(k + 2) /\ k + 1 # k + 2 /\ i # 1 /\ i - 1 = k + 1
        BY <2>1, <3>1
      <4>2. b[k + 1] = a[k + 1] /\ b[i] = ResolveCell(a[k + 1], step)
        BY <3>1, <4>1
      <4> HIDE DEF b
      <4> QED
        BY <2>9, <3>1, <4>1, <4>2
    <3>2. CASE i # k + 2
      <4>1. i \in 1..(k + 1) /\ b[i] = a[i] /\ w[i] = outer[i]
        BY <2>8, <3>2
      <4>2. CASE i = 1
        <5> HIDE DEF b
        <5> QED
          BY <2>11, <4>1, <4>2
      <4>3. CASE i # 1
        <5>1. i - 1 \in 1..(k + 2) /\ i - 1 # k + 2
          BY <3>2, <4>3
        <5>2. b[i - 1] = a[i - 1]
          BY <5>1
        <5> HIDE DEF b
        <5> QED
          BY <2>11, <4>1, <4>3, <5>2
      <4> QED
        BY <4>2, <4>3
    <3> QED
      BY <3>1, <3>2
  <2>13. b[k + 2] = ResolveCell(a[k + 1], step)
    BY <2>1
  <2>14. Leads(b, w)
    <3>1. b = [i \in 1..(k + 2) |-> b[i]]
      OBVIOUS
    <3> HIDE DEF b
    <3> QED
      BY <2>8, <2>12, <3>1 DEF Leads
  <2> HIDE DEF b, Outer
  <2>15. b[m + 1] = Places[m][w].container /\ Len(w) = m + 1
    <3>1. m + 1 = k + 2
      BY <2>1
    <3> QED
      BY <2>8, <2>10, <2>13, <3>1
  <2>16. LeadsTo(w, m, Places[m][w].container)
    <3>1. \E X : w \in Seq(X)
      BY <2>8
    <3> QED
      BY <2>14, <2>15, <3>1 DEF LeadsTo
  <2> QED
    BY <1>2, <2>16
<1> QED
  BY <1>3, <1>4

\* The paragraph that is found along a path is the one the path was made for
\* (iter_document_paragraph_targets, resolve_paragraph_target).
THEOREM ResolveIsParagraph ==
  ASSUME NEW path \in Paths
  PROVE  Resolve(path) = Paragraph(path)
<1>0. PICK n \in 0..MaxNesting : path.walk \in DOMAIN Places[n]
  BY DEF Paths
<1>1. PICK walk \in DOMAIN Places[n] : path.walk = walk
  BY <1>0
<1>2. n \in Nat
  BY <1>0
<1>3. LeadsTo(walk, n, Places[n][walk].container)
  BY <1>2, WalksLead
<1>4. Len(walk) = n + 1
  BY <1>3 DEF LeadsTo
<1>5. PICK a : Leads(a, walk) /\ a[n + 1] = Places[n][walk].container
  BY <1>3 DEF LeadsTo
<1> DEFINE at == CHOOSE at : Leads(at, walk)
<1>6. Resolve(path) = at[Len(walk)].paragraphs[path.number]
  BY <1>1 DEF Resolve, Leads
<1>7. Leads(at, walk)
  BY <1>5
<1> HIDE DEF at
<1>8. \A m \in 1..(n + 1) :
        /\ at[m] = IF m = 1 THEN Container(walk[1]) ELSE ResolveCell(at[m - 1], walk[m])
        /\ a[m] = IF m = 1 THEN Container(walk[1]) ELSE ResolveCell(a[m - 1], walk[m])
  BY <1>4, <1>5, <1>7 DEF Leads
<1> DEFINE T == {m \in Nat : m \in 1..(n + 1) /\ at[m] # a[m]}
<1>9. T = {}
  <2> SUFFICES ASSUME T # {} PROVE FALSE
    OBVIOUS
  <2>1. PICK m \in T : \A k \in T : m <= k
    BY LeastNatural
  <2>2. m # 1
    BY <1>8, <2>1
  <2>3. m \in 1..(n + 1) /\ m - 1 \in 1..(n + 1) /\ m - 1 \in Nat /\ ~(m <= m - 1)
    BY <2>1, <2>2
  <2>4. at[m - 1] = a[m - 1]
    BY <2>1, <2>3
  <2> QED
    BY <1>8, <2>1, <2>2, <2>3, <2>4
<1>10. at[n + 1] = a[n + 1]
  <2>1. n + 1 \in Nat /\ n + 1 \in 1..(n + 1)
    BY <1>2
  <2> QED
    BY <1>9, <2>1
<1>11. PlaceOf(path) = Places[n][walk]
  <2>1. (n + 1) - 1 = n
    BY <1>2
  <2> QED
    BY <1>1, <1>4, <2>1 DEF PlaceOf
<1> QED
  BY <1>4, <1>5, <1>6, <1>10, <1>11 DEF Paragraph

-----------------------------------------------------------------------------
(* The spans that have been replaced. *)

TokenOf(runs, token) == \E k \in DOMAIN runs : \E n \in DOMAIN runs[k] : runs[k][n] = token

\* Every token of a text is one of a run.
LEMMA TextTokens ==
  ASSUME NEW S, NEW runs \in Seq(Seq(S)), NEW p \in 1..Len(Text(runs))
  PROVE  TokenOf(runs, Text(runs)[p])
<1>1. PICK t : TextUpTo(S, runs, t)
  BY TextDef
<1> DEFINE N == Len(runs)
           T == {k \in Nat : k \in 0..N /\ \E q \in 1..Len(t[k]) : ~TokenOf(runs, t[k][q])}
<1>2. /\ t \in [0..N -> Seq(S)] /\ t[0] = <<>> /\ N \in Nat /\ t[N] = Text(runs)
      /\ \A k \in 1..N : t[k] = t[k - 1] \o runs[k] /\ runs[k] \in Seq(S) /\ k \in DOMAIN runs
  <2>1. N \in Nat /\ \A k \in 1..N : runs[k] \in Seq(S) /\ k \in DOMAIN runs
    OBVIOUS
  <2> QED
    BY <1>1, <2>1 DEF TextUpTo
<1>3. T = {}
  <2> SUFFICES ASSUME T # {} PROVE FALSE
    OBVIOUS
  <2>1. PICK k \in T : \A j \in T : k <= j
    BY LeastNatural
  <2>2. PICK q \in 1..Len(t[k]) : ~TokenOf(runs, t[k][q])
    BY <2>1
  <2>3. k # 0
    <3>1. Len(t[0]) = 0
      BY <1>2
    <3>2. ASSUME k = 0 PROVE FALSE
      BY <2>2, <3>1, <3>2
    <3> QED
      BY <3>2
  <2>4. k \in 1..N /\ k - 1 \in 0..N /\ k - 1 \in Nat /\ ~(k <= k - 1)
    BY <1>2, <2>1, <2>3
  <2>5. \A r \in 1..Len(t[k - 1]) : TokenOf(runs, t[k - 1][r])
    BY <2>1, <2>4
  <2>6. PICK x \in Seq(S), y \in Seq(S) : x = t[k - 1] /\ y = runs[k] /\ t[k] = x \o y
    BY <1>2, <2>4
  <2>7. /\ Len(x \o y) = Len(x) + Len(y)
        /\ \A i \in 1..(Len(x) + Len(y)) : (x \o y)[i] = IF i <= Len(x) THEN x[i] ELSE y[i - Len(x)]
    BY ConcatProperties
  <2>8. PICK lx \in Nat, ly \in Nat : lx = Len(x) /\ ly = Len(y)
    OBVIOUS
  <2>9. q \in 1..(lx + ly) /\ t[k][q] = IF q <= lx THEN x[q] ELSE y[q - lx]
    BY <2>2, <2>6, <2>7, <2>8
  <2>10. CASE q <= lx
    <3>1. q \in 1..Len(x)
      BY <2>8, <2>9, <2>10
    <3> QED
      BY <2>2, <2>5, <2>6, <2>9, <2>10, <3>1
  <2>11. CASE ~(q <= lx)
    <3>1. q - lx \in 1..Len(y) /\ t[k][q] = y[q - lx]
      BY <2>8, <2>9, <2>11
    <3>2. q - lx \in DOMAIN runs[k] /\ t[k][q] = runs[k][q - lx]
      BY <2>6, <3>1
    <3> QED
      BY <1>2, <2>2, <2>4, <3>2 DEF TokenOf
  <2> QED
    BY <2>10, <2>11
<1>4. N \in 0..N /\ N \in Nat
  BY <1>2
<1> QED
  BY <1>2, <1>3, <1>4

TokenInside(text, a, s, e) == SubSeq(text, a, e)[s - a + 1] = text[s]

\* A token of a span is one of the text.
LEMMA SpanToken ==
  ASSUME NEW text, NEW a \in Nat \ {0}, NEW s \in Nat, NEW e \in Nat, a <= s, s <= e
  PROVE  TokenInside(text, a, s, e)
<1> DEFINE S == {text[i] : i \in a..e}
<1>1. \A i \in a..e : text[i] \in S
  OBVIOUS
<1> HIDE DEF S
<1>2. \A i \in 1..(e - a + 1) : SubSeq(text, a, e)[i] = text[a + i - 1]
  BY <1>1, SubSeqProperties
<1>3. s - a + 1 \in 1..(e - a + 1) /\ a + (s - a + 1) - 1 = s
  OBVIOUS
<1> QED
  BY <1>2, <1>3 DEF TokenInside

\* A span that covers the beginning of one that was replaced by a new text does not match
\* any more, so that the renderer refuses it (_replace_span_in_runs).
THEOREM OverlapFound ==
  ASSUME NEW S, NEW runs \in Seq(Seq(S)), NEW E, EditsOK(S, E),
         NEW l \in E, \A x \in E : x = l \/ l.end < x.start, l.value # <<>>,
         ~TokenOf(runs, l.value[1]),
         NEW span, SpanIn(Text(runs), span), span.start <= l.start, l.start <= span.end
  PROVE  ~Matches(Spliced(runs, E), span)
<1>1. PICK a \in Nat \ {0}, s \in Nat, e \in Nat :
        a = span.start /\ s = l.start /\ e = span.end /\ a <= s /\ s <= e
  BY DEF EditsOK, SpanIn
<1>2. SpanIn(Text(runs), span)
  OBVIOUS
<1>3. PICK t \in Seq(S) : t = Text(runs)
  <2>1. PICK f : TextUpTo(S, runs, f)
    BY TextDef
  <2>2. Len(runs) \in 0..Len(runs)
    OBVIOUS
  <2> QED
    BY <2>1, <2>2 DEF TextUpTo
<1>4. PICK z \in Nat : z = Len(t) /\ e <= z
  BY <1>1, <1>2, <1>3 DEF SpanIn
<1>5. s \in 1..Len(Text(runs))
  BY <1>1, <1>3, <1>4
<1>6. TokenOf(runs, Text(runs)[s])
  BY <1>5, TextTokens
<1>7. TokenAt(Text(Spliced(runs, E)), l.start, l.value[1])
  <2>1. l.start <= Len(Text(runs))
    BY <1>1, <1>5
  <2> QED
    BY <2>1, FirstValueInText
<1>8. PICK cur : cur = Text(Spliced(runs, E))
  OBVIOUS
<1>9. ASSUME e <= Len(cur), SubSeq(cur, a, e) = SubSeq(t, a, e) PROVE FALSE
  <2>1. cur[s] = l.value[1]
    BY <1>1, <1>7, <1>8 DEF TokenAt
  <2>2. TokenInside(cur, a, s, e) /\ TokenInside(t, a, s, e)
    BY <1>1, SpanToken
  <2>3. cur[s] = t[s]
    BY <1>9, <2>2 DEF TokenInside
  <2> QED
    BY <1>3, <1>6, <2>1, <2>3
<1> QED
  BY <1>1, <1>2, <1>3, <1>8, <1>9 DEF Matches, SpanIn

\* A span of one of the paragraphs listed.
SpanOf(span) == span.path \in Paths /\ SpanIn(TextAt(span.path), span)
Typed ==
  /\ document \in Documents
  /\ \A path \in Paths : Paragraph(path) \in DOMAIN document.runs
  /\ \A i \in DOMAIN bindings : SpanOf(bindings[i])
  /\ data \in [DOMAIN bindings -> Values \cup {Missing}]

\* The runs of a paragraph.
LEMMA RunsType ==
  ASSUME document \in Documents, NEW para \in DOMAIN document.runs
  PROVE  document.runs[para] \in Seq(Seq(STRING))
<1>1. document.runs \in Seq(Seq(Seq(STRING)))
  BY TextsAssumption
<1> QED
  BY <1>1

\* What is known of a span that is filled.
LEMMA FilledType ==
  ASSUME Typed, NEW i \in Filled
  PROVE  /\ SpanIn(Text(document.runs[Filling(i)]), bindings[i])
         /\ Filling(i) \in DOMAIN document.runs /\ data[i] \in Values /\ data[i] \in Seq(STRING)
<1>1. i \in DOMAIN bindings /\ data[i] # Missing
  BY DEF Filled
<1>2. data[i] \in Values
  BY <1>1 DEF Typed
<1>3. SpanOf(bindings[i])
  BY <1>1 DEF Typed
<1>4. bindings[i].path \in Paths /\ SpanIn(TextAt(bindings[i].path), bindings[i])
  BY <1>3 DEF SpanOf
<1>5. Filling(i) \in DOMAIN document.runs
  BY <1>4 DEF Typed, Filling
<1>6. data[i] \in Seq(STRING)
  BY <1>2, TextsAssumption
<1> QED
  BY <1>2, <1>4, <1>5, <1>6 DEF TextAt, Filling

\* A filled span as an edit.
LEMMA EditType ==
  ASSUME Typed, NEW i \in Filled
  PROVE  EditsOK(STRING, {Edit(i)})
<1>1. /\ bindings[i].start \in Nat \ {0} /\ bindings[i].end \in Nat
      /\ bindings[i].start <= bindings[i].end
  BY FilledType DEF SpanIn
<1>2. data[i] \in Seq(STRING)
  BY FilledType
<1>3. Edit(i).start = bindings[i].start /\ Edit(i).end = bindings[i].end /\ Edit(i).value = data[i]
  BY DEF Edit
<1> HIDE DEF Edit
<1> QED
  BY <1>1, <1>2, <1>3 DEF EditsOK

\* Spans that are apart are edits that begin at different positions.
LEMMA EditsType ==
  ASSUME Typed, NEW I \in SUBSET Filled, Apart(I), NEW para
  PROVE  EditsOK(STRING, EditsOf(I, para))
<1>1. ASSUME NEW e \in EditsOf(I, para)
      PROVE  \E i \in I : Filling(i) = para /\ e = Edit(i)
  BY <1>1 DEF EditsOf
<1>2. ASSUME NEW e \in EditsOf(I, para)
      PROVE  /\ e.start \in Nat \ {0} /\ e.end \in Nat /\ e.start <= e.end
             /\ e.value \in Seq(STRING)
  <2>1. PICK i \in I : e = Edit(i)
    BY <1>1
  <2>2. i \in Filled
    OBVIOUS
  <2>3. EditsOK(STRING, {Edit(i)})
    BY <2>2, EditType
  <2> QED
    BY <2>1, <2>3 DEF EditsOK
<1>3. ASSUME NEW e \in EditsOf(I, para), NEW f \in EditsOf(I, para), e.start = f.start
      PROVE  e = f
  <2>1. PICK i \in I : Filling(i) = para /\ e = Edit(i)
    BY <1>1
  <2>2. PICK j \in I : Filling(j) = para /\ f = Edit(j)
    BY <1>1
  <2>3. ASSUME i # j PROVE FALSE
    <3>1. bindings[i].end < bindings[j].start \/ bindings[j].end < bindings[i].start
      BY <2>1, <2>2, <2>3 DEF Apart
    <3>2. e.end < f.start \/ f.end < e.start
      BY <2>1, <2>2, <3>1 DEF Edit
    <3>3. PICK a \in Nat, b \in Nat, c \in Nat :
            a = e.start /\ b = e.end /\ c = f.end /\ a <= b /\ a <= c
      BY <1>2, <1>3
    <3>4. f.start = a
      BY <1>3, <3>3
    <3> QED
      BY <3>2, <3>3, <3>4
  <2> QED
    BY <2>1, <2>2, <2>3
<1> QED
  BY <1>2, <1>3 DEF EditsOK

\* The paragraph of a span after the replacement of the spans of I.
LEMMA ExactAt ==
  ASSUME NEW I, NEW para \in DOMAIN document.runs
  PROVE  Exact(I)[para] = Spliced(document.runs[para], EditsOf(I, para))
  BY DEF Exact

\* The spans that have been replaced come after span i.
Ahead(I, i) == \A j \in I : Filling(j) = Filling(i) => bindings[i].end < bindings[j].start

\* Ahead, told of the edits.
LEMMA AheadEdits ==
  ASSUME NEW I, NEW i, Ahead(I, i)
  PROVE  \A x \in EditsOf(I, Filling(i)) : Edit(i).end < x.start
<1> SUFFICES ASSUME NEW x \in EditsOf(I, Filling(i)) PROVE Edit(i).end < x.start
  OBVIOUS
<1>1. PICK j \in I : Filling(j) = Filling(i) /\ x = Edit(j)
  BY DEF EditsOf
<1>2. bindings[i].end < bindings[j].start
  BY <1>1 DEF Ahead
<1> QED
  BY <1>1, <1>2 DEF Edit

\* The span before all that have been replaced is as it was.
LEMMA AheadMatches ==
  ASSUME Typed, NEW I \in SUBSET Filled, Apart(I), NEW i \in Filled, Ahead(I, i)
  PROVE  Matches(Exact(I)[Filling(i)], bindings[i])
<1> DEFINE para == Filling(i)
           E == EditsOf(I, para)
<1>1. para \in DOMAIN document.runs /\ SpanIn(Text(document.runs[para]), bindings[i])
  BY FilledType
<1>2. document.runs[para] \in Seq(Seq(STRING))
  BY <1>1, RunsType DEF Typed
<1>3. EditsOK(STRING, E)
  BY EditsType
<1>4. \A x \in E : bindings[i].end < x.start
  BY AheadEdits DEF Edit
<1>5. Exact(I)[para] = Spliced(document.runs[para], E)
  BY <1>1, ExactAt
<1> HIDE DEF para, E
<1>6. Matches(Spliced(document.runs[para], E), bindings[i])
  BY <1>1, <1>2, <1>3, <1>4, SpanStays
<1> QED
  BY <1>5, <1>6 DEF para

-----------------------------------------------------------------------------
(* The loop of the renderer *)

\* The spans that have been replaced do not begin before span i.
Sorted(I, i) == \A j \in I : Filling(j) = Filling(i) => bindings[j].start >= bindings[i].start

\* Spans that are apart are replaced from right to left.
LEMMA ApartAhead ==
  ASSUME Typed, Apart(Filled), NEW I \in SUBSET Filled, NEW i \in Filled \ I, Sorted(I, i)
  PROVE  Ahead(I, i)
<1> SUFFICES ASSUME NEW j \in I, Filling(j) = Filling(i)
             PROVE  bindings[i].end < bindings[j].start
  BY DEF Ahead
<1>1. bindings[j].start >= bindings[i].start
  BY DEF Sorted
<1>2. i # j /\ i \in Filled /\ j \in Filled
  OBVIOUS
<1>3. bindings[i].end < bindings[j].start \/ bindings[j].end < bindings[i].start
  BY <1>2 DEF Apart
<1>4. /\ bindings[i].start \in Nat /\ bindings[j].start \in Nat /\ bindings[j].end \in Nat
      /\ bindings[j].start <= bindings[j].end
  BY <1>2, FilledType DEF SpanIn
<1> QED
  BY <1>1, <1>3, <1>4

\* A span before those that are apart is apart from them.
LEMMA AheadApart ==
  ASSUME NEW I, Apart(I), NEW i, Ahead(I, i)
  PROVE  Apart(I \cup {i})
BY DEF Apart, Ahead

\* The edits of a paragraph when one more span has been replaced.
LEMMA EditsGrow ==
  ASSUME NEW I, NEW i, NEW para
  PROVE  EditsOf(I \cup {i}, para) =
           IF Filling(i) = para THEN EditsOf(I, para) \cup {Edit(i)} ELSE EditsOf(I, para)
<1> HIDE DEF Filling, Edit
<1>1. ASSUME NEW e PROVE e \in EditsOf(I \cup {i}, para) <=>
                           e \in EditsOf(I, para) \/ (Filling(i) = para /\ e = Edit(i))
  BY DEF EditsOf
<1> HIDE DEF EditsOf
<1> QED
  BY <1>1

\* The replacement of a span before all others makes the document exact for one
\* span more.
LEMMA ReplaceExact ==
  ASSUME Typed, NEW I \in SUBSET Filled, Apart(I), NEW i \in Filled, Ahead(I, i)
  PROVE  [Exact(I) EXCEPT ![Filling(i)] =
            ReplaceSpan(@, bindings[i].start, bindings[i].end, data[i])] = Exact(I \cup {i})
<1> DEFINE para == Filling(i)
           runs == document.runs[para]
           E == EditsOf(I, para)
           d == Edit(i)
<1>1. para \in DOMAIN document.runs
  BY FilledType
<1>2. runs \in Seq(Seq(STRING))
  BY <1>1, RunsType DEF Typed
<1>3. EditsOK(STRING, E) /\ EditsOK(STRING, {d})
  BY EditsType, EditType
<1>4. \A e \in E : d.end < e.start
  BY AheadEdits
<1>5. ReplaceSpan(Spliced(runs, E), d.start, d.end, d.value) = Spliced(runs, E \cup {d})
  <2> HIDE DEF para, runs, E, d
  <2> QED
    BY <1>2, <1>3, <1>4, ReplaceSpliced
<1>6. d.start = bindings[i].start /\ d.end = bindings[i].end /\ d.value = data[i]
  BY DEF Edit
<1>7. ReplaceSpan(Exact(I)[para], bindings[i].start, bindings[i].end, data[i])
        = Exact(I \cup {i})[para]
  <2>1. Exact(I)[para] = Spliced(runs, E)
    BY <1>1, ExactAt
  <2>2. Exact(I \cup {i})[para] = Spliced(runs, EditsOf(I \cup {i}, para))
    BY <1>1, ExactAt
  <2>3. EditsOf(I \cup {i}, para) = E \cup {d}
    BY EditsGrow
  <2> HIDE DEF para, runs, E, d
  <2> QED
    BY <1>5, <1>6, <2>1, <2>2, <2>3
<1>8. ASSUME NEW p \in DOMAIN document.runs, p # para
      PROVE  Exact(I)[p] = Exact(I \cup {i})[p]
  <2>1. EditsOf(I \cup {i}, p) = EditsOf(I, p)
    BY <1>8, EditsGrow
  <2> QED
    BY <2>1, ExactAt
<1>9. /\ Exact(I) = [p \in DOMAIN document.runs |-> Exact(I)[p]]
      /\ Exact(I \cup {i}) = [p \in DOMAIN document.runs |-> Exact(I \cup {i})[p]]
  BY DEF Exact
<1> HIDE DEF para
<1>10. [Exact(I) EXCEPT ![para] = ReplaceSpan(@, bindings[i].start, bindings[i].end, data[i])]
         = Exact(I \cup {i})
  BY <1>1, <1>7, <1>8, <1>9
<1> QED
  BY <1>10 DEF para

\* If a span still holds what was confirmed and the values are fresh, it is
\* before all spans that have been replaced.
LEMMA FreshAhead ==
  ASSUME Typed, NEW I \in SUBSET Filled, Apart(I), NEW i \in Filled, Sorted(I, i),
         \A j \in Filled : Fresh(data[j]),
         Matches(Exact(I)[Filling(i)], bindings[i])
  PROVE  Ahead(I, i)
<1> DEFINE para == Filling(i)
           runs == document.runs[para]
           E == EditsOf(I, para)
           J == {j \in I : Filling(j) = para}
           Starts == {bindings[j].start : j \in J}
<1> SUFFICES ASSUME NEW k \in I, Filling(k) = Filling(i),
                    ~(bindings[i].end < bindings[k].start)
             PROVE  FALSE
  BY DEF Ahead
<1>1. ASSUME NEW j \in Filled
      PROVE  /\ bindings[j].start \in Nat /\ bindings[j].end \in Nat
             /\ bindings[j].start <= bindings[j].end
  BY FilledType DEF SpanIn
<1>2. PICK l \in J : \A j \in J : bindings[l].start <= bindings[j].start
  <2>1. Starts \in SUBSET Nat /\ Starts # {}
    BY <1>1
  <2>2. PICK s \in Starts : \A m \in Starts : s <= m
    <3> HIDE DEF Starts
    <3> QED
      BY <2>1, LeastNatural
  <2>3. PICK l \in J : s = bindings[l].start
    BY <2>2
  <2> QED
    BY <2>2, <2>3
<1>3. l \in I /\ l \in Filled /\ Filling(l) = para
  OBVIOUS
<1>4. bindings[i].start <= bindings[l].start
  BY <1>1, <1>3 DEF Sorted
<1>5. bindings[l].start <= bindings[i].end
  <2>1. bindings[l].start <= bindings[k].start
    BY <1>2
  <2>2. bindings[k].start \in Nat /\ bindings[l].start \in Nat /\ bindings[i].end \in Nat
    BY <1>1, <1>3
  <2> QED
    BY <2>1, <2>2
<1>6. Edit(l) \in E
  BY <1>3 DEF EditsOf
<1>7. \A x \in E : x = Edit(l) \/ Edit(l).end < x.start
  <2> SUFFICES ASSUME NEW x \in E, x # Edit(l) PROVE Edit(l).end < x.start
    OBVIOUS
  <2>1. PICK j \in J : x = Edit(j)
    BY DEF EditsOf
  <2>2. j # l /\ j \in I /\ Filling(j) = Filling(l)
    BY <2>1
  <2>3. bindings[j].end < bindings[l].start \/ bindings[l].end < bindings[j].start
    BY <2>2, <1>3 DEF Apart
  <2>4. bindings[l].start <= bindings[j].start
    BY <1>2, <2>1
  <2>5. /\ bindings[l].start \in Nat /\ bindings[j].start \in Nat /\ bindings[j].end \in Nat
        /\ bindings[j].start <= bindings[j].end
    BY <1>1, <1>3, <2>2
  <2>6. bindings[l].end < bindings[j].start
    BY <2>3, <2>4, <2>5
  <2> QED
    BY <2>1, <2>6 DEF Edit
<1>8. para \in DOMAIN document.runs /\ SpanIn(Text(runs), bindings[i])
  BY FilledType
<1>9. runs \in Seq(Seq(STRING))
  BY <1>8, RunsType DEF Typed
<1>10. EditsOK(STRING, E)
  BY EditsType
<1>11. Edit(l).value # <<>> /\ ~TokenOf(runs, Edit(l).value[1])
  <2>1. Fresh(data[l]) /\ data[l] \in Seq(STRING)
    BY <1>3, FilledType
  <2>2. data[l] # <<>> /\ 1 \in DOMAIN data[l]
    BY <2>1 DEF Fresh
  <2>3. \A p \in DOMAIN document.runs : \A m \in DOMAIN document.runs[p] :
          \A n \in DOMAIN document.runs[p][m] : document.runs[p][m][n] # data[l][1]
    BY <2>1, <2>2 DEF Fresh
  <2>4. ~TokenOf(runs, data[l][1])
    BY <1>8, <2>3 DEF TokenOf
  <2> QED
    BY <2>2, <2>4 DEF Edit
<1>12. Exact(I)[para] = Spliced(runs, E)
  BY <1>8, ExactAt
<1>13. bindings[i].start <= Edit(l).start /\ Edit(l).start <= bindings[i].end
  BY <1>4, <1>5 DEF Edit
<1>14. ~Matches(Spliced(runs, E), bindings[i])
  <2> HIDE DEF para, runs, E, J
  <2> QED
    BY <1>6, <1>7, <1>8, <1>9, <1>10, <1>11, <1>13, OverlapFound
<1> QED
  BY <1>12, <1>14

-----------------------------------------------------------------------------
(* The invariant of RefusedOrExact *)

\* The spans that have been replaced.
Done == Filled \ todo

\* The runs are exact so far, unless a paragraph is bound through two of its
\* places, or spans that overlap are given values the text may have.
Renderable == OnePath /\ (Apart(Filled) \/ \A i \in Filled : Fresh(data[i]))

Listed ==
  /\ document \in Documents
  /\ \A path \in Paths : Paragraph(path) \in DOMAIN document.runs

Chosen == \A i \in DOMAIN bindings : SpanOf(bindings[i])
Found == \A c \in candidates : SpanOf(c)
Given ==
  phase \in {"submitted", "rendering", "rendered"} =>
    data \in [DOMAIN bindings -> Values \cup {Missing}]

InProgress ==
  phase = "rendering" =>
    /\ todo \subseteq Filled
    /\ \A i \in todo, j \in Done :
         bindings[i].path = bindings[j].path => bindings[j].start >= bindings[i].start
    /\ Renderable => Apart(Done) /\ result = Exact(Done)

RenderInv == Listed /\ Found /\ Chosen /\ Given /\ InProgress /\ RefusedOrExact

\* What depends on the document only.
LEMMA DocumentSame ==
  ASSUME document' = document
  PROVE  /\ Paths' = Paths
         /\ \A path : Paragraph(path)' = Paragraph(path)
         /\ \A span : SpanOf(span)' <=> SpanOf(span)
         /\ \A value : Fresh(value)' <=> Fresh(value)
<1>1. Places' = Places
  BY SMT DEF Places, Roots, Container, Inside, TextOf, Text
<1>2. Paths' = Paths
  BY <1>1 DEF Paths
<1>3. \A path : Paragraph(path)' = Paragraph(path)
  BY <1>1 DEF Paragraph, PlaceOf
<1>4. ASSUME NEW path PROVE TextAt(path)' = TextAt(path)
  BY <1>3 DEF TextAt, Text
<1>5. ASSUME NEW span PROVE SpanOf(span)' <=> SpanOf(span)
  BY <1>2, <1>4 DEF SpanOf, SpanIn
<1>6. ASSUME NEW value PROVE Fresh(value)' <=> Fresh(value)
  BY DEF Fresh
<1> QED
  BY <1>2, <1>3, <1>5, <1>6

\* What the loop reads and does not change.
LEMMA InputsSame ==
  ASSUME document' = document, bindings' = bindings, data' = data
  PROVE  /\ Filled' = Filled
         /\ OnePath' <=> OnePath
         /\ Renderable' <=> Renderable
<1>1. Filled' = Filled
  BY DEF Filled
<1>2. \A i : Filling(i)' = Filling(i)
  BY DocumentSame DEF Filling
<1>3. OnePath' <=> OnePath
  BY <1>1, <1>2 DEF OnePath
<1>4. Apart(Filled)' <=> Apart(Filled)
  BY <1>1, <1>2 DEF Apart
<1>5. Renderable' <=> Renderable
  BY <1>1, <1>3, <1>4, DocumentSame DEF Renderable
<1> QED
  BY <1>1, <1>3, <1>5

\* A span of a paragraph listed, whatever pattern or user has found it.
LEMMA SpansAreSpans ==
  ASSUME NEW path \in Paths, NEW kind, NEW q \in Ranges(TextAt(path))
  PROVE  SpanOf(Span(path, TextAt(path), kind, q[1], q[2]))
<1>1. q[1] \in 1..Len(TextAt(path)) /\ q[2] \in 1..Len(TextAt(path)) /\ q[1] <= q[2]
  BY DEF Ranges
<1> QED
  BY <1>1, SMTT(30) DEF SpanOf, SpanIn, Span

\* Every field that is found is a span of a paragraph.
LEMMA AnalyzeKeeps ==
  ASSUME RenderInv, Analyze
  PROVE  RenderInv'
<1>1. ASSUME NEW c \in candidates' PROVE SpanOf(c)
  <2>1. PICK path \in Paths : c \in Fields(path)
    BY <1>1 DEF Analyze
  <2>2. PICK kind \in DetectionKinds, q \in Ranges(TextAt(path)) :
          c = Span(path, TextAt(path), kind, q[1], q[2])
    BY <2>1 DEF Fields
  <2> QED
    BY <2>2, SpansAreSpans
<1>2. document' = document /\ bindings' = bindings /\ phase' = "analyzed"
  BY DEF Analyze
<1> QED
  BY <1>1, <1>2, DocumentSame
  DEF RenderInv, Listed, Found, Chosen, Given, InProgress, RefusedOrExact

\* The user binds fields that were found ...
LEMMA ConfirmKeeps ==
  ASSUME RenderInv, ConfirmSpans
  PROVE  RenderInv'
<1>1. PICK n \in 1..MaxChosen : \E chosen \in [1..n -> candidates] : bindings' = chosen
  BY DEF ConfirmSpans
<1>2. \A i \in DOMAIN bindings' : bindings'[i] \in candidates
  BY <1>1
<1>3. document' = document /\ candidates' = candidates /\ phase' = "confirmed"
  BY DEF ConfirmSpans
<1> QED
  BY <1>2, <1>3, DocumentSame
  DEF RenderInv, Listed, Found, Chosen, Given, InProgress, RefusedOrExact

\* ... or any spans.
LEMMA TemplateizeKeeps ==
  ASSUME RenderInv, Templateize
  PROVE  RenderInv'
<1> DEFINE Selections(path) == {Span(path, TextAt(path), "manual_selection", q[1], q[2]) :
                                  q \in Ranges(TextAt(path))}
           all == UNION {Selections(path) : path \in Paths}
<1>1. PICK one \in all : \E two \in all : bindings' = <<one, two>>
  BY DEF Templateize
<1>2. PICK two \in all : bindings' = <<one, two>>
  BY <1>1
<1>3. ASSUME NEW span \in all PROVE SpanOf(span)
  <2>1. PICK path \in Paths : span \in Selections(path)
    BY <1>3
  <2>2. PICK q \in Ranges(TextAt(path)) :
          span = Span(path, TextAt(path), "manual_selection", q[1], q[2])
    BY <2>1
  <2> QED
    BY <2>2, SpansAreSpans
<1> HIDE DEF all
<1>4. \A i \in DOMAIN bindings' : SpanOf(bindings'[i])
  BY <1>2, <1>3
<1>5. document' = document /\ candidates' = candidates /\ phase' = "selected"
  BY DEF Templateize
<1> QED
  BY <1>4, <1>5, DocumentSame
  DEF RenderInv, Listed, Found, Chosen, Given, InProgress, RefusedOrExact

\* Keys are given values of their own.
LEMMA SubmitKeeps ==
  ASSUME RenderInv, SubmitValues
  PROVE  RenderInv'
<1>1. /\ document' = document /\ candidates' = candidates /\ bindings' = bindings
      /\ data' \in [DOMAIN bindings -> Values \cup {Missing}] /\ phase' = "submitted"
  BY DEF SubmitValues
<1> QED
  BY <1>1, DocumentSame DEF RenderInv, Listed, Found, Chosen, Given, InProgress, RefusedOrExact

\* Nothing changes where nothing is replaced.
LEMMA SplicedNothing ==
  ASSUME NEW S, NEW runs \in Seq(Seq(S))
  PROVE  Spliced(runs, {}) = runs
<1>1. EditsOK(S, {})
  BY DEF EditsOK
<1>2. ASSUME NEW k \in DOMAIN runs
      PROVE  SplicedUpTo(runs[k], Cursor(runs)[k - 1], {})[Len(runs[k])] = runs[k]
  <2>1. runs[k] \in Seq(S) /\ Cursor(runs)[k - 1] \in Nat
    <3>1. Cursor(runs) \in [0..Len(runs) -> Nat]
      BY CursorDef
    <3>2. k - 1 \in 0..Len(runs) /\ runs[k] \in Seq(S)
      OBVIOUS
    <3> QED
      BY <3>1, <3>2
  <2>2. Len(runs[k]) \in 0..Len(runs[k])
    BY <2>1
  <2>3. \A e \in {} : e.start > Cursor(runs)[k - 1] + Len(runs[k])
    OBVIOUS
  <2>4. SplicedUpTo(runs[k], Cursor(runs)[k - 1], {})[Len(runs[k])]
          = SubSeq(runs[k], 1, Len(runs[k]))
    BY <1>1, <2>1, <2>2, <2>3, SpliceBefore, SMTT(30)
  <2>5. SubSeq(runs[k], 1, Len(runs[k])) = runs[k]
    BY <2>1
  <2> QED
    BY <2>4, <2>5
<1>3. Spliced(runs, {}) = [k \in DOMAIN runs |-> runs[k]]
  BY <1>2 DEF Spliced
<1> QED
  BY <1>3

\* The document before the loop.
LEMMA NothingExact ==
  ASSUME document \in Documents
  PROVE  Exact({}) = document.runs
<1>1. ASSUME NEW para \in DOMAIN document.runs PROVE Exact({})[para] = document.runs[para]
  <2>1. EditsOf({}, para) = {}
    BY DEF EditsOf
  <2>2. Spliced(document.runs[para], {}) = document.runs[para]
    BY RunsType, SplicedNothing
  <2> QED
    BY <2>1, <2>2, ExactAt
<1>2. Exact({}) = [para \in DOMAIN document.runs |-> Exact({})[para]]
  BY DEF Exact
<1>3. document.runs \in Seq(Seq(Seq(STRING)))
  BY TextsAssumption
<1>4. document.runs = [para \in DOMAIN document.runs |-> document.runs[para]]
  BY <1>3
<1> QED
  BY <1>1, <1>2, <1>4

\* The same, of the spans that have been replaced.
LEMMA DoneSame ==
  ASSUME document' = document, bindings' = bindings, data' = data, NEW D, Done' = D
  PROVE  (Apart(Done)' <=> Apart(D)) /\ Exact(Done)' = Exact(D)
<1>1. \A i : Filling(i)' = Filling(i)
  BY DocumentSame DEF Filling
<1>2. Apart(Done)' <=> Apart(D)
  BY <1>1 DEF Apart
<1>3. ASSUME NEW para PROVE EditsOf(Done, para)' = EditsOf(D, para)
  BY <1>1 DEF EditsOf, Edit
<1>4. Exact(Done)' = Exact(D)
  BY <1>3 DEF Exact
<1> QED
  BY <1>2, <1>4

\* The same, of all spans.
LEMMA FilledSame ==
  ASSUME document' = document, bindings' = bindings, data' = data
  PROVE  (Apart(Filled)' <=> Apart(Filled)) /\ Exact(Filled)' = Exact(Filled)
<1>1. \A i : Filling(i)' = Filling(i)
  BY DocumentSame DEF Filling
<1>2. Filled' = Filled
  BY InputsSame
<1>3. Apart(Filled)' <=> Apart(Filled)
  BY <1>1, <1>2 DEF Apart
<1>4. ASSUME NEW para PROVE EditsOf(Filled, para)' = EditsOf(Filled, para)
  BY <1>1, <1>2 DEF EditsOf, Edit
<1>5. Exact(Filled)' = Exact(Filled)
  BY <1>4 DEF Exact
<1> QED
  BY <1>3, <1>5

\* A rendering begins with the original.
LEMMA LoadKeeps ==
  ASSUME RenderInv, Load
  PROVE  RenderInv'
<1>1. /\ document' = document /\ candidates' = candidates /\ bindings' = bindings
      /\ data' = data /\ phase = "submitted" /\ phase' = "rendering"
      /\ result' = document.runs /\ todo' = Filled
  BY DEF Load
<1>2. Listed' /\ Found' /\ Chosen' /\ Given' /\ RefusedOrExact'
  BY <1>1, DocumentSame DEF RenderInv, Listed, Found, Chosen, Given, RefusedOrExact
<1>3. Done' = {} /\ todo' = Filled'
  BY <1>1, InputsSame DEF Done
<1>4. Apart({})
  BY DEF Apart
<1>5. result' = Exact({})
  BY <1>1, NothingExact DEF RenderInv, Listed
<1>6. (Apart(Done)' <=> Apart({})) /\ Exact(Done)' = Exact({})
  BY <1>1, <1>3, DoneSame
<1>7. Apart(Done)' /\ result' = Exact(Done)'
  BY <1>4, <1>5, <1>6
<1>8. InProgress'
  BY <1>3, <1>7 DEF InProgress
<1> QED
  BY <1>2, <1>8 DEF RenderInv

\* What is known while the loop runs.
LEMMA LoopTyped ==
  ASSUME RenderInv, phase = "rendering"
  PROVE  Typed
BY DEF RenderInv, Listed, Chosen, Given, Typed

\* The loop is over.
LEMMA SaveKeeps ==
  ASSUME RenderInv, SaveDocument
  PROVE  RenderInv'
<1>1. /\ document' = document /\ candidates' = candidates /\ bindings' = bindings
      /\ data' = data /\ phase = "rendering" /\ phase' = "rendered"
      /\ result' = result /\ todo = {}
  BY DEF SaveDocument
<1>2. Listed' /\ Found' /\ Chosen' /\ Given' /\ InProgress'
  BY <1>1, DocumentSame DEF RenderInv, Listed, Found, Chosen, Given, InProgress
<1>3. Done = Filled
  BY <1>1 DEF Done
<1>4. Renderable => Apart(Filled) /\ result = Exact(Filled)
  BY <1>1, <1>3 DEF RenderInv, InProgress
<1>5. OnePath => IF Apart(Filled) THEN result = Exact(Filled)
                 ELSE (\A i \in Filled : Fresh(data[i])) => result = Refused
  BY <1>4 DEF Renderable
<1>6. /\ Filled' = Filled /\ (OnePath' <=> OnePath)
      /\ Apart(Filled)' <=> Apart(Filled)
      /\ Exact(Filled)' = Exact(Filled)
      /\ \A value : Fresh(value)' <=> Fresh(value)
  BY <1>1, InputsSame, FilledSame, DocumentSame
<1>7. RefusedOrExact'
  BY <1>1, <1>5, <1>6 DEF RefusedOrExact
<1> QED
  BY <1>2, <1>7 DEF RenderInv

\* One replacement, or the refusal.
LEMMA ReplaceKeeps ==
  ASSUME RenderInv, Replace
  PROVE  RenderInv'
<1>1. PICK i \in todo :
        LET span == bindings[i]
            para == Resolve(span.path)
        IN /\ \A j \in todo \ {i} : InOrder(i, j)
           /\ IF Matches(result[para], span)
              THEN /\ result' = [result EXCEPT ![para] =
                                   ReplaceSpan(@, span.start, span.end, data[i])]
                   /\ todo' = todo \ {i}
                   /\ UNCHANGED phase
              ELSE /\ result' = Refused
                   /\ phase' = "rendered"
                   /\ UNCHANGED todo
  BY DEF Replace
<1>2. /\ document' = document /\ candidates' = candidates /\ bindings' = bindings
      /\ data' = data /\ phase = "rendering"
  BY DEF Replace
<1>3. Listed' /\ Found' /\ Chosen' /\ Given'
  BY <1>1, <1>2, DocumentSame DEF RenderInv, Listed, Found, Chosen, Given
<1>4. Typed
  BY <1>2, LoopTyped
<1>5. /\ i \in Filled /\ todo \subseteq Filled /\ i \notin Done /\ Done \in SUBSET Filled
      /\ \A j \in todo, k \in Done :
           bindings[j].path = bindings[k].path => bindings[k].start >= bindings[j].start
      /\ Renderable => Apart(Done) /\ result = Exact(Done)
  BY <1>1, <1>2 DEF RenderInv, InProgress, Done
<1>6. Resolve(bindings[i].path) = Filling(i)
  <2>1. SpanOf(bindings[i])
    BY <1>4, <1>5 DEF Typed, Filled
  <2> QED
    BY <2>1, ResolveIsParagraph DEF SpanOf, Filling
<1>7. ASSUME OnePath PROVE Sorted(Done, i)
  BY <1>1, <1>5, <1>7 DEF Sorted, OnePath
<1>8. \A j \in todo \ {i} : bindings[i].path = bindings[j].path =>
                              bindings[i].start >= bindings[j].start
  <2> SUFFICES ASSUME NEW j \in todo \ {i}, bindings[i].path = bindings[j].path
               PROVE  bindings[i].start >= bindings[j].start
    OBVIOUS
  <2>1. Before(i, j)
    BY <1>1 DEF InOrder
  <2>2. bindings[i].start \in Nat /\ bindings[j].start \in Nat
    BY <1>4, <1>5, FilledType DEF SpanIn
  <2> QED
    BY <2>1, <2>2 DEF Before
<1>9. /\ Filled' = Filled /\ (OnePath' <=> OnePath)
      /\ Renderable' <=> Renderable
      /\ Apart(Filled)' <=> Apart(Filled)
  BY <1>2, InputsSame, FilledSame
<1>10. CASE Matches(result[Filling(i)], bindings[i])
  <2>1. /\ result' = [result EXCEPT ![Filling(i)] =
                        ReplaceSpan(@, bindings[i].start, bindings[i].end, data[i])]
        /\ todo' = todo \ {i} /\ phase' = "rendering"
    BY <1>1, <1>2, <1>6, <1>10
  <2>2. Done' = Done \cup {i}
    BY <1>5, <1>9, <2>1 DEF Done
  <2>3. todo' \subseteq Filled'
    BY <1>5, <1>9, <2>1
  <2>4. \A j \in todo', k \in Done' :
          bindings'[j].path = bindings'[k].path => bindings'[k].start >= bindings'[j].start
    <3> SUFFICES ASSUME NEW j \in todo', NEW k \in Done', bindings[j].path = bindings[k].path
                 PROVE  bindings[k].start >= bindings[j].start
      BY <1>2
    <3>1. CASE k = i
      BY <1>8, <2>1, <3>1
    <3>2. CASE k # i
      BY <1>5, <2>1, <2>2, <3>2
    <3> QED
      BY <3>1, <3>2
  <2>5. ASSUME Renderable
        PROVE  Apart(Done \cup {i}) /\ result' = Exact(Done \cup {i})
    <3>1. Apart(Done) /\ result = Exact(Done) /\ Sorted(Done, i)
      BY <1>5, <1>7, <2>5 DEF Renderable
    <3>2. Matches(Exact(Done)[Filling(i)], bindings[i])
      BY <1>10, <3>1
    <3>3. Ahead(Done, i)
      BY <1>4, <1>5, <2>5, <3>1, <3>2, ApartAhead, FreshAhead DEF Renderable
    <3>4. [Exact(Done) EXCEPT ![Filling(i)] =
             ReplaceSpan(@, bindings[i].start, bindings[i].end, data[i])] = Exact(Done \cup {i})
      BY <1>4, <1>5, <3>1, <3>3, ReplaceExact
    <3>5. Apart(Done \cup {i})
      BY <3>1, <3>3, AheadApart
    <3> QED
      BY <2>1, <3>1, <3>4, <3>5
  <2>6. (Apart(Done)' <=> Apart(Done \cup {i})) /\ Exact(Done)' = Exact(Done \cup {i})
    BY <1>2, <2>2, DoneSame
  <2>7. Renderable' => Apart(Done)' /\ result' = Exact(Done)'
    BY <1>9, <2>5, <2>6
  <2>8. InProgress'
    BY <2>3, <2>4, <2>7 DEF InProgress
  <2>9. RefusedOrExact'
    BY <2>1 DEF RefusedOrExact
  <2> QED
    BY <1>3, <2>8, <2>9 DEF RenderInv
<1>11. CASE ~Matches(result[Filling(i)], bindings[i])
  <2>1. result' = Refused /\ phase' = "rendered"
    BY <1>1, <1>6, <1>11
  <2>2. ASSUME OnePath PROVE ~Apart(Filled)
    <3> SUFFICES ASSUME Apart(Filled) PROVE FALSE
      OBVIOUS
    <3>1. Apart(Done) /\ result = Exact(Done) /\ Sorted(Done, i)
      BY <1>5, <1>7, <2>2 DEF Renderable
    <3>2. Ahead(Done, i)
      BY <1>4, <1>5, <3>1, ApartAhead
    <3>3. Matches(Exact(Done)[Filling(i)], bindings[i])
      BY <1>4, <1>5, <3>1, <3>2, AheadMatches
    <3> QED
      BY <1>11, <3>1, <3>3
  <2>3. RefusedOrExact'
    BY <1>9, <2>1, <2>2 DEF RefusedOrExact, Refused
  <2>4. InProgress'
    BY <2>1 DEF InProgress
  <2> QED
    BY <1>3, <2>3, <2>4 DEF RenderInv
<1> QED
  BY <1>10, <1>11

\* A rendering is the original document but for its spans, or refused, however many spans
\* and runs there are and whatever the values (render, _replace_span_in_runs).
THEOREM RefusedOrExactCorrect == DocxSpec => []RefusedOrExact
<1>1. DocxInit => RenderInv
  BY DEF DocxInit, RenderInv, Listed, Found, Chosen, Given, InProgress, RefusedOrExact
<1>2. RenderInv /\ [DocxNext]_docxVars => RenderInv'
  <2> SUFFICES ASSUME RenderInv, [DocxNext]_docxVars PROVE RenderInv'
    OBVIOUS
  <2>1. CASE Analyze
    BY <2>1, AnalyzeKeeps
  <2>2. CASE ConfirmSpans
    BY <2>2, ConfirmKeeps
  <2>3. CASE Templateize
    BY <2>3, TemplateizeKeeps
  <2>4. CASE SubmitValues
    BY <2>4, SubmitKeeps
  <2>5. CASE Load
    BY <2>5, LoadKeeps
  <2>6. CASE Replace
    BY <2>6, ReplaceKeeps
  <2>7. CASE SaveDocument
    BY <2>7, SaveKeeps
  <2>8. CASE UNCHANGED docxVars
    <3>1. /\ document' = document /\ candidates' = candidates /\ bindings' = bindings
          /\ data' = data /\ phase' = phase /\ result' = result /\ todo' = todo
      BY <2>8 DEF docxVars
    <3>2. /\ Filled' = Filled /\ (OnePath' <=> OnePath)
          /\ Renderable' <=> Renderable
          /\ Apart(Filled)' <=> Apart(Filled)
          /\ Exact(Filled)' = Exact(Filled)
          /\ \A value : Fresh(value)' <=> Fresh(value)
      BY <3>1, InputsSame, FilledSame, DocumentSame
    <3>3. Done' = Done
      BY <3>1, <3>2 DEF Done
    <3>4. Listed' /\ Found' /\ Chosen' /\ Given'
      BY <3>1, DocumentSame DEF RenderInv, Listed, Found, Chosen, Given
    <3>5. (Apart(Done)' <=> Apart(Done)) /\ Exact(Done)' = Exact(Done)
      BY <3>1, <3>3, DoneSame
    <3>6. phase = "rendering" =>
            /\ todo \subseteq Filled
            /\ \A i \in todo, j \in Done :
                 bindings[i].path = bindings[j].path => bindings[j].start >= bindings[i].start
            /\ Renderable => Apart(Done) /\ result = Exact(Done)
      BY DEF RenderInv, InProgress
    <3>7. InProgress'
      BY <3>1, <3>2, <3>3, <3>5, <3>6 DEF RenderInv, InProgress
    <3>8. RefusedOrExact'
      BY <3>1, <3>2 DEF RenderInv, RefusedOrExact, Refused
    <3> QED
      BY <3>4, <3>7, <3>8 DEF RenderInv
  <2> QED
    BY <2>1, <2>2, <2>3, <2>4, <2>5, <2>6, <2>7, <2>8 DEF DocxNext
<1>3. RenderInv => RefusedOrExact
  BY DEF RenderInv
<1> QED
  BY <1>1, <1>2, <1>3, PTL DEF DocxSpec
=============================================================================
