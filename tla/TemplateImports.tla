---------------------------- MODULE TemplateImports ----------------------------
(***************************************************************************)
(* Imported DOCX templates: users analyse the file of a template, confirm  *)
(* which spans of it are filled from which keys, extract schemas and       *)
(* upload new versions, while jobs are submitted, served from the cache or *)
(* rendered by workers from the bindings stored with their version.        *)
(* A request that changes a version loads its row without a lock and       *)
(* writes the columns in which the row it wants differs from it.  How      *)
(* overlapping uploads interleave is in TemplateVersions.                  *)
(***************************************************************************)
EXTENDS Integers, Sequences, FiniteSets, Functions

CONSTANTS Files,        \* contents of DOCX files, told apart by their checksums
          Layouts,      \* ways to bind keys to spans of a file
          Keys,         \* binding keys
          KeysOf,       \* KeysOf[l]: the keys of layout l, all of them required
          SchemaOf,     \* SchemaOf[l]: the variables (keys, spans, sample texts) of layout l
          FormOf,       \* FormOf[l]: the components made of the first spans of its keys
          Payloads,     \* the sets of keys jobs are submitted with
          Users,        \* requests that change versions at the same time
          Jobs,
          MaxVersions,  \* bound: versions uploaded
          MaxSaves      \* bound: changes of versions

ASSUME NoneAssumption == "none" \notin Files \cup Layouts
ASSUME KeysOfAssumption == KeysOf \in [Layouts -> SUBSET Keys \ {{}}]
ASSUME SchemasAssumption ==
  /\ DOMAIN SchemaOf = Layouts /\ DOMAIN FormOf = Layouts
  /\ \A l \in Layouts : SchemaOf[l] # "none" /\ FormOf[l] # "none"
ASSUME PayloadsAssumption == Payloads \subseteq SUBSET Keys
ASSUME BoundsAssumption ==
  MaxVersions \in Nat \ {0} /\ MaxSaves \in Nat

VARIABLES
  versions,  \* rows of template_versions; the last one is current
  user,      \* requests of users
  job,       \* jobs
  saves,
  extracted, \* history: versions whose schema was extracted from the file again
  overlapped \* history: versions somebody changed while another had them loaded

vars == <<versions, user, job, saves, extracted, overlapped>>

Ids == 1..MaxVersions

\* Confirmed bindings: a layout of the file they were chosen on.
Bindings == [file : Files, layout : Layouts]
NoBindings == [file |-> "none", layout |-> "none"]

\* The keys of the bindings of a version, if it has any.
KeysAt(b) == IF b = NoBindings THEN {} ELSE KeysOf[b.layout]

\* build_schema_from_bindings: a column made from bindings ("none": from the
\* placeholders of the file, with sources and ids of another form).  Components
\* leave out sample texts, both columns all but the first span of a key.
Made(G, b) == IF b = NoBindings THEN "none" ELSE G[b.layout]
AllMade(G) == {Made(G, b) : b \in Bindings \cup {NoBindings}}

\* Columns of a version.  variables: variable_schema; components: component_schema.
Rows == [file : Files, strategy : {"constructor", "docx_import"},
         bindings : Bindings \cup {NoBindings}, variables : AllMade(SchemaOf),
         components : AllMade(FormOf)]
NewRow(f) == [file |-> f, strategy |-> "constructor", bindings |-> NoBindings,
              variables |-> "none", components |-> "none"]

NoRow == NewRow("none")
Idle == [phase |-> "idle", file |-> "none", version |-> 0, seen |-> NoRow, wants |-> NoRow]
UserStates ==
  [phase : {"idle", "reviewing", "loaded"}, file : Files \cup {"none"}, version : Ids \cup {0},
   seen : Rows \cup {NoRow}, wants : Rows \cup {NoRow}]

\* A job.  context: the bindings its request or worker has loaded, as long as it
\* has them; filled: the keys of its normalized payload, which make its cache key;
\* result: the bindings its document was filled by; since: history, the keys of the
\* bindings its version has had since it was submitted.
NoJob == [phase |-> "new", mode |-> "constructor", version |-> 0, data |-> {},
          context |-> NoBindings, filled |-> {}, source |-> "none",
          result |-> NoBindings, since |-> {}]
JobStates ==
  [phase : {"new", "submitted", "queued", "rendering", "completed", "failed"},
   mode : {"constructor", "docx_import"}, version : Ids \cup {0}, data : SUBSET Keys,
   context : Bindings \cup {NoBindings}, filled : SUBSET Keys, source : Files \cup {"none"},
   result : Bindings \cup {NoBindings}, since : SUBSET SUBSET Keys]

Init ==
  /\ \E f \in Files : versions = <<NewRow(f)>>
  /\ user = [u \in Users |-> Idle]
  /\ job = [j \in Jobs |-> NoJob]
  /\ saves = 0
  /\ extracted = {} /\ overlapped = {}

TypeOK ==
  /\ versions \in Seq(Rows) /\ Len(versions) \in Ids
  /\ user \in [Users -> UserStates]
  /\ job \in [Jobs -> JobStates]
  /\ saves \in 0..MaxSaves
  /\ extracted \subseteq Ids /\ overlapped \subseteq Ids

Versions == DOMAIN versions
Current == Len(versions)

-----------------------------------------------------------------------------
(* Users *)

\* upload_template with a version that is new: it becomes current.
Upload(f) ==
  /\ Current < MaxVersions
  /\ versions' = Append(versions, NewRow(f))
  /\ UNCHANGED <<user, job, saves, extracted, overlapped>>

\* analyze, inspect: of the current version or of a file at hand.  The answer
\* carries the checksum of the file.
Review(u, f) ==
  /\ user[u].phase = "idle"
  /\ user' = [user EXCEPT ![u] = [Idle EXCEPT !.phase = "reviewing", !.file = f]]
  /\ UNCHANGED <<versions, job, saves, extracted, overlapped>>

Wanted(row, b) ==
  [row EXCEPT !.strategy = "docx_import", !.bindings = b, !.variables = Made(SchemaOf, b),
     !.components = Made(FormOf, b)]

\* Mutant of Confirm: the checksum is not compared.
ConfirmUnchecked(u, l) ==
  /\ user[u].phase = "reviewing"
  /\ saves < MaxSaves
  /\ saves' = saves + 1
  /\ user' = [user EXCEPT ![u] =
                [phase |-> "loaded", file |-> user[u].file, version |-> Current,
                 seen |-> versions[Current],
                 wants |-> Wanted(versions[Current], [file |-> user[u].file, layout |-> l])]]
  /\ UNCHANGED <<versions, job, extracted, overlapped>>

\* confirm, templateize: the current version is loaded; its file has to be the
\* one the user has seen.
Confirm(u, l) ==
  /\ user[u].phase = "reviewing"
  /\ versions[Current].file = user[u].file
  /\ saves < MaxSaves
  /\ saves' = saves + 1
  /\ user' = [user EXCEPT ![u] =
                [phase |-> "loaded", file |-> user[u].file, version |-> Current,
                 seen |-> versions[Current],
                 wants |-> Wanted(versions[Current], [file |-> user[u].file, layout |-> l])]]
  /\ UNCHANGED <<versions, job, extracted, overlapped>>

\* The checksum differs, or the user gives up.
Refuse(u) ==
  /\ user[u].phase = "reviewing"
  /\ user' = [user EXCEPT ![u] = Idle]
  /\ UNCHANGED <<versions, job, saves, extracted, overlapped>>

\* extract_schema_for_template: the schema becomes that of the placeholders.
Extract(u) ==
  /\ user[u].phase = "idle"
  /\ saves < MaxSaves
  /\ saves' = saves + 1
  /\ user' = [user EXCEPT ![u] =
                [phase |-> "loaded", file |-> "none", version |-> Current,
                 seen |-> versions[Current],
                 wants |-> [versions[Current] EXCEPT !.variables = "none",
                                                     !.components = "none"]]]
  /\ extracted' = extracted \cup {Current}
  /\ UNCHANGED <<versions, job, overlapped>>

\* Mutant of Merge: the schema of components is left out.
MergeComponents(row, seen, wants) ==
  [c \in DOMAIN row |-> IF c # "components" /\ seen[c] # wants[c] THEN wants[c] ELSE row[c]]

\* The UPDATE: columns that do not differ from what was loaded are left alone.
Merge(row, seen, wants) ==
  [c \in DOMAIN row |-> IF seen[c] # wants[c] THEN wants[c] ELSE row[c]]

\* update_import_configuration, update_schema and the commit.
Save(u) ==
  /\ user[u].phase = "loaded"
  /\ LET v == user[u].version
         row == Merge(versions[v], user[u].seen, user[u].wants)
     IN /\ versions' = [versions EXCEPT ![v] = row]
        /\ job' = [j \in Jobs |-> IF job[j].version = v
                                  THEN [job[j] EXCEPT !.since = @ \cup {KeysAt(row.bindings)}]
                                  ELSE job[j]]
        /\ overlapped' = IF \E w \in Users \ {u} : user[w].phase = "loaded" /\ user[w].version = v
                         THEN overlapped \cup {v} ELSE overlapped
  /\ user' = [user EXCEPT ![u] = Idle]
  /\ UNCHANGED <<saves, extracted>>

\* The transaction is rolled back.
Fail(u) ==
  /\ user[u].phase = "loaded"
  /\ user' = [user EXCEPT ![u] = Idle]
  /\ UNCHANGED <<versions, job, saves, extracted, overlapped>>

-----------------------------------------------------------------------------
(* Jobs *)

\* prepare_payload: every key of the bindings is needed, others are ignored.
Complete(b, data) == KeysOf[b.layout] \subseteq data
Payload(mode, b, data) == IF mode = "docx_import" THEN KeysOf[b.layout] ELSE data

\* create_job, create_imported_job: the version named or the current one is
\* loaded and has to be of the kind asked for.
Submit(j, v, data) ==
  LET row == versions[v]
  IN /\ job[j].phase = "new"
     /\ row.strategy = "docx_import" => Complete(row.bindings, data)
     /\ job' = [job EXCEPT ![j] =
                  [NoJob EXCEPT !.phase = "submitted", !.mode = row.strategy, !.version = v,
                     !.data = data, !.context = row.bindings,
                     !.filled = Payload(row.strategy, row.bindings, data),
                     !.since = {KeysAt(row.bindings)}]]
     /\ UNCHANGED <<versions, user, saves, extracted, overlapped>>

\* Mutant of SameKey: the payload is left out of the cache key.
SameKeyAnyPayload(i, j) ==
  job[i].version = job[j].version /\ job[i].mode = job[j].mode

\* The cache key: version, strategy (or constructor) and normalized payload.
SameKey(i, j) ==
  /\ job[i].version = job[j].version /\ job[i].mode = job[j].mode
  /\ job[i].filled = job[j].filled

\* The job is completed by a job with its cache key ...
Reuse(j, i) ==
  /\ job[j].phase = "submitted"
  /\ job[i].phase = "completed" /\ SameKey(i, j)
  /\ job' = [job EXCEPT ![j] = [@ EXCEPT !.phase = "completed", !.context = NoBindings,
                                  !.source = job[i].source, !.result = job[i].result]]
  /\ UNCHANGED <<versions, user, saves, extracted, overlapped>>

\* ... or queued; also when the files of that job have expired.
Enqueue(j) ==
  /\ job[j].phase = "submitted"
  /\ job' = [job EXCEPT ![j] = [@ EXCEPT !.phase = "queued", !.context = NoBindings]]
  /\ UNCHANGED <<versions, user, saves, extracted, overlapped>>

\* process_job: the worker loads the version again and normalizes the payload
\* for the bindings it has now; a key that is missing now fails the job.
Claim(j) ==
  /\ job[j].phase = "queued"
  /\ LET row == versions[job[j].version]
         ready == job[j].mode = "docx_import" => Complete(row.bindings, job[j].data)
     IN job' = [job EXCEPT ![j] =
                  IF ready
                  THEN [@ EXCEPT !.phase = "rendering", !.context = row.bindings,
                          !.filled = Payload(job[j].mode, row.bindings, job[j].data)]
                  ELSE [@ EXCEPT !.phase = "failed", !.context = NoBindings]]
  /\ UNCHANGED <<versions, user, saves, extracted, overlapped>>

\* render: spans whose text is not what was confirmed fail the job.
Render(j) ==
  /\ job[j].phase = "rendering"
  /\ LET source == versions[job[j].version].file
     IN job' = [job EXCEPT ![j] =
                  IF job[j].mode = "constructor"
                  THEN [@ EXCEPT !.phase = "completed", !.context = NoBindings]
                  ELSE IF job[j].context.file # source
                  THEN [@ EXCEPT !.phase = "failed", !.context = NoBindings]
                  ELSE [@ EXCEPT !.phase = "completed", !.context = NoBindings,
                          !.source = source, !.result = job[j].context]]
  /\ UNCHANGED <<versions, user, saves, extracted, overlapped>>

\* A transient error or a crash: the job is queued again (see JobLifecycle).
Retry(j) ==
  /\ job[j].phase = "rendering"
  /\ job' = [job EXCEPT ![j] = [@ EXCEPT !.phase = "queued", !.context = NoBindings]]
  /\ UNCHANGED <<versions, user, saves, extracted, overlapped>>

-----------------------------------------------------------------------------
Next ==
  \/ \E f \in Files : Upload(f) \/ \E u \in Users : Review(u, f)
  \/ \E u \in Users :
       (\E l \in Layouts : Confirm(u, l)) \/ Refuse(u) \/ Extract(u) \/ Save(u) \/ Fail(u)
  \/ \E j \in Jobs :
       \/ \E v \in Versions, data \in Payloads : Submit(j, v, data)
       \/ \E i \in Jobs : Reuse(j, i)
       \/ Enqueue(j) \/ Claim(j) \/ Render(j) \/ Retry(j)

Spec == Init /\ [][Next]_vars

-----------------------------------------------------------------------------
(* Properties *)

\* The bindings of a version were chosen on the very file of that version,
\* whatever was uploaded since the user looked at it (confirm, templateize).
BindingsFitFile ==
  \A v \in Versions : versions[v].bindings # NoBindings => versions[v].bindings.file = versions[v].file

\* The variables and the form stored for an imported version are those of its
\* bindings until its schema is extracted again, unless changes overlapped; and then,
\* too, if no two ways to bind give the same (update_import_configuration writes only
\* the columns that differ from what was loaded).
SchemaFitsBindings ==
  \A v \in Versions \ extracted :
    versions[v].strategy = "docx_import" =>
      LET Fits(column, G) == versions[v][column] = Made(G, versions[v].bindings)
                             \/ (v \in overlapped /\ ~IsInjective(G))
      IN Fits("variables", SchemaOf) /\ Fits("components", FormOf)

Completed == {j \in Jobs : job[j].phase = "completed" /\ job[j].mode = "docx_import"}

\* A completed import was filled into the file of the version it was submitted
\* for, at exactly the keys of bindings that version has had since then, also
\* if it was reused, queued for long, retried, or the version was bound again.
\* Not at the same spans: the cache key (prepare_payload) has no bindings.
DeliversConfirmed ==
  \A j \in Completed :
    /\ job[j].source = versions[job[j].version].file
    /\ KeysOf[job[j].result.layout] \in job[j].since
=============================================================================
