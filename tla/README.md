# Verification of the document generator backend

TLA+ models of the backend in `src/app`, the TLC configurations that check them, and theorems about
them that TLAPS proves. Run `tlc -config <X>.cfg <MC module>.tla` for a run and
`tlapm <Module>Proofs.tla` for the proofs of a module.

## 1. The system and its parts

The backend turns templates and payloads into DOCX and PDF documents. Requests come in through a
FastAPI application; documents are produced by Celery workers. Everything durable is in PostgreSQL
(READ COMMITTED, one session per service call, `core/database.py`) and in an S3-compatible object
store; Redis is the broker, the result backend and the rate counter.

| part | state | operations | interacts with |
|---|---|---|---|
| Document jobs (`document_service.py`, `document_repository.py`) | `document_jobs` | create, create imported, status, download, preview | resolver, billing, artifacts, queue |
| Generation worker (`document_generation_service.py`, `workers/tasks.py`) | the task in hand | process, retry, mark failed, recover stale | jobs, artifacts, composer, store, broker |
| Artifacts and cache (`artifact_service.py`, `document_artifact_repository.py`) | `document_artifacts`, objects | store, reuse, expire, delete, verify | store, billing |
| Retention (`maintenance_service.py`) | - | delete expired artifacts, failed jobs, audit logs, temporary files | artifacts, store, billing |
| Billing (`billing_service.py`) | `organization_plans`, `organization_usage_meters`, `billing_invoices` | enforce, record, schedule change, run cycle | every other service |
| Templates (`template_service.py`) | `templates`, `template_versions`, objects | upload, register, read, extract schema, analyse, confirm, templateize | store, billing |
| DOCX import (`docx_template_import_service.py`, `docx_template_render_service.py`) | - | find fields, bind spans, replace spans | templates, worker |
| Composition and rendering (`services/generation/`) | - | validate, resolve, compose the DOCX, render the PDF | jobs, worker |
| API keys (`api_key_service.py`) | `api_keys`, Redis counters | create, rotate, revoke, disable, authenticate, limit, log use | Redis |
| Auth (`auth_service.py`) | `users`, `auth_sessions` | login, refresh, logout | operations |
| Authorization (`api/dependencies/`, the scoping in every repository) | memberships, scopes | admit a request, restrict its queries | every route |
| Audit (`audit_service.py`) | `audit_logs` | append | job creations, replays, invalidation, key changes, disabling |
| Operations (`operations_service.py`) | - | replay, invalidate cache, disable users and keys, cleanup, status | all of the above |

How they interact. A request is one or more transactions of its own; services share the session of
the caller (billing, audit and artifacts run inside the transaction of the job or the upload). The
job row and the broker message are two stores without a common transaction, and so are a row and its
object in the object store. The scheduler (`celery_app.py`) repeats three tasks: recovery of stale
jobs, retention, the billing cycle.

What is hard.

- *Interleaving*: rows are loaded without a lock, checked, and written back later; an UPDATE carries
  the columns that differ from the row as it was loaded. Only the claim of a job locks a row first,
  and it checks the copy it loaded before. Unique keys decide most races.
- *Two stores*: objects are written before rows are inserted, and deleted before rows are deleted.
- *Failure*: late acknowledgement, redelivery after a lost worker or the visibility timeout, retries
  with a budget, a failure handler that needs a transaction of its own.
- *Time*: a job older than `stale_job_timeout_seconds` is taken for abandoned; files expire while
  they are copied; periods end and rate windows turn while requests are running.
- *Late use*: what is checked when a request is accepted (role, template version, bindings, payload)
  is used by a later transaction or by a worker.
- *Offsets*: spans of a DOCX paragraph are addressed by offsets of a text that earlier replacements
  change, in runs that split it arbitrarily.

What makes each part correct.

| part | correct when |
|---|---|
| Jobs, worker, artifacts | a completed job has all its files, from one rendering, with objects behind them, unchanged; a queued job is not forgotten; every job is settled |
| Retention and cache | what has not expired can be downloaded; an invalidated rendering does not come back; nothing is deleted early; the storage meter follows the rows |
| Billing | an ended period has one invoice; nobody is billed for more than was accepted; every period is billed |
| Templates | the version committed last is current; the file of a version is what was uploaded; failed uploads leave nothing behind; bindings belong to the file they were chosen on |
| DOCX import | a filled document is the original but for its spans, or refused; proposed fields can be filled together |
| Rendering | DOCX and PDF say the same; what was accepted can be rendered |
| API keys, sessions | a secret or session put out of use stays so; limits count every request; no request waits for ever |
| Authorization, audit | jobs and versions stay inside their tenant, and public callers see what is published; the log tells who created each job, once, and who disabled an account or key |

## 2. Modules

| module | models | abstracts |
|---|---|---|
| `JobLifecycle` | creation (queued or from the cache), enqueue, broker, worker, retries, crash, recovery, purge of failed jobs | bytes of a document to the number of its rendering |
| `BillingLedger` | abstract: transactions of billing that happen at once, one after the other | sessions, locks, stale rows, meters, plans |
| `DocumentShelf` | abstract: the files of a job appear once, together, from one rendering | everything else |
| `ArtifactRetention` | cache hits and copies, storing, expiry, invalidation, overlapping cleanups, storage meter | rendering to one step; a file to one byte |
| `Billing` | provisioning, caps, usage, plan changes, renewals, invoices, billing cycle of one organization | dates to months, money and the other counters left out |
| `TemplateVersions` | upload and registration of versions of one template | files to the number of the request that brought them |
| `TemplateImports` | analysis, confirmation, schema extraction of imported versions; jobs from their bindings | spans and keys to layouts of a file; a schema column to a function of the layout |
| `DocxImport` | finding fields, binding, payload, replacing spans in runs | text to the kinds of token the patterns tell apart |
| `Rendering` | validation, resolution, DOCX composer, PDF renderer | values to the few kinds the code tells apart; pages to the sequence of what they show |
| `AuthSessions` | login, refresh, logout, disabling, enabling, expiry | tokens to session numbers |
| `ApiKeys` | key changes, authentication, four counters, usage log | secrets to numbers |
| `TenantApi` | roles, scopes, tenants, publication, job creation, replay, public reads, audit rows | payloads and results |
| `MC*` | instances for TLC | |
| `*Proofs` | theorems | |

How they fit together. `JobLifecycle` implements `DocumentShelf` (`PublishesOnce`), the interface the
rest relies on: a job publishes its files once. `ArtifactRetention` starts from there: its `Publish` is
one step, for the reason proved in `JobLifecycleProofs`, and it says what happens to the files later.
`TemplateVersions` says how overlapping uploads interleave, so `TemplateImports` and `TenantApi` may
take an upload as one step. `Billing` implements `BillingLedger` (`KeepsLedger`). `DocxImport` says what a
layout of bindings does to one file, so `TemplateImports` may take layouts as values. `TenantApi` decides
who may start what the others model.

In all of them a transaction of the code is one action when nothing in it can be seen or disturbed
half-way, and several when it can: a step per statement that reads what others change, or waits.

### JobLifecycle

`process_job` is `Receive` (the read), `Claim` or `SkipClaim`, then `FinishRendering`, `Upload` and
`Insert` for each file, `Commit`; its exception handlers are `TransientError`, `PermanentError`,
`Requeue`, `MarkFailed`, `HandlerFails`; `tasks.py` adds `Retry` and `GiveUp`; the Celery
configuration `Ack`, `Crash`, `Redeliver`. `create_job` and `create_imported_job` are `CreateQueued`
and `CreateFromCache` followed by `Enqueue` or `LoseEnqueue`; the scheduler is `RecoverStale` (and
`Enqueue`), retention `PurgeFailed`.

Locks are guards: `RowLocked`, `RowShared` (uncommitted artifact rows hold FOR KEY SHARE on the job
row) and the unique `storage_key` in `Insert`. `pc`, `seen`, `draft`, `staged` are the local state of
a worker; `seen` is the copy of the row a session loads once and never refreshes, which is why the
claim can act on a status that is no longer true. `stranded` is a history variable.

### ArtifactRetention

A job's transaction `tx[j]` is its request (`Submit`, then `Miss`, or `Hit` - `Copy` -
`CompleteFromCache`, or `CopyFails`) and later its worker (`Start`, `Store` and `CountStored` per
file, `Complete`); `own` is the meter it has written and holds locked, `seen` the meter it computed
from. A cleanup is `Begin` - `List` - `DeleteObject`... - `DeleteRows` - `CountDeleted` -
`CommitBatch`, with `FailCleanup` at any point: objects go first, rows with the commit. `Invalidate`
is the operator's request. `born`, `invalidated`, `leaked`, `litter` and `raced` are history: they name
the races the code leaves open, so that the properties can say that nothing else goes wrong.

### Billing

A session is a transaction: what it loaded (`seen`, `count`), the columns it changed (`dirty`), the
rows it wrote (`drafts`, `wrote`). Writes carry the values computed from what was loaded, wait for
the locks of other sessions (`RowFree`, `InvoiceFree`, `MeterFree`), and overwrite what was committed
meanwhile: that is SQLAlchemy's unit of work at READ COMMITTED. `_ensure_snapshot` is `Open`,
`Provision`, the renewal loop `FindInvoice` - `InsertInvoice` - `Renew`, `LoadMeter`, `CreateMeter`;
the operations then are `Enforce` and `Record`, `Schedule` and `Reload`, `Commit`; `Fail` and
`BreakDeadlock` roll back. A month is a number; a period is the number of its month; 0 is "no row".

`BillingLedger` has the month, the subscription's period, the invoices and the generations accepted.
A commit of a session is one `Transaction` of it: it bills months that have ended, once each and for no
more than they had (`Bill`), moves the subscription past billed months only (`Move`) and accepts at most
one generation, in this month or the last one (`Accept`). The last is tight: a request that began before
the month ended is counted in the month that has passed, perhaps after its invoice. Everything else a
session does is a stuttering step.

### TemplateVersions

A request is `Upload` or `Register`, `Resolve`, `CreateTemplate` when the template is new, `Check`,
`Put` (uploads only), `StartClear` and `Clear` (the UPDATE of the current flags, which sees the rows
committed when it starts and waits for those others hold), `Insert`, `Commit`; `Fail`, `Undo` and
`Crash` are the ways out. Keys are pairs of version and file name: the version pattern of
`dtos/template.py` makes `template_key` injective. Objects carry the number of the request that wrote
them, so that a replaced or deleted file is told apart. The storage and template limits are left out
(a refusal is a `Fail`), and so are waits of two requests for the usage meter or for changed template
metadata; these waits remove interleavings, they add none.

### TemplateImports and DocxImport

In `TemplateImports` a user looks at a file (`Review`), and later confirms a layout for the version
that is current then (`Confirm` checks the checksum, or the request is refused), or extracts its schema
(`Extract`); `Save` writes the columns that differ from the row loaded (`Merge`). The two schema columns
are `Made` from bindings by any functions `SchemaOf` and `FormOf`, which need not tell bindings apart:
`build_schema_from_bindings` keeps the first span of each key, and no sample texts in the components. Jobs are submitted
against the bindings of that moment (`Submit`), reused (`Reuse`, by the cache key), queued, claimed and
rendered with the bindings the worker finds (`Claim`, `Render`, `Retry`). `job.since` is history: the
keys of the bindings the version has had since the job was submitted.

`DocxImport` is the algorithm behind one such job. A walk begins at a root (the body, a section's header
or footer) and goes into a cell of a table per step; a path is a walk and the number of a paragraph.
`Places[n]` are the containers under `n` tables, with the text above them, in the order-free form of
`iter_document_paragraph_targets`; `Resolve` follows a path back into a document as the renderer does.
`Fields` applies the three patterns (`PlaceholderAt`, `BracketAt`, `BlankAt`) to a paragraph; a placeholder is
the tokens of its key between braces, blanks among them. `ConfirmSpans` and `Templateize` choose spans. The
renderer is `Load`, one `Replace` per replacement, the last one of a paragraph first (`InOrder`), and
`SaveDocument`; `todo` is what is left of its loop, and a span whose text is not what was confirmed ends it
with `Refused`. `ReplaceSpan` is the loop over the runs, `Cursor` its variable `cursor`. The reference,
`Spliced`, knows no order and no cursor: run by run and token by token, it puts each value where its span
begins in the original text, and keeps every token outside the spans in its run.

### Rendering

`Accepts` is the validation of the request and the resolution that `create_job` performs, `ResolvedBlock`
the mapper, `DocxBlock` and `PdfBlock` the two renderers. A file is, for each block, the sequence of lines
it shows, each with its text, alignment, indent and weight; a row of a table may lack its last columns.
`Composes` and `Prints` say which resolved blocks python-docx and ReportLab make a file of; a block of another
kind fails the job in `Compose` or `Render`.
`Blocks` types the blocks as `dtos/constructor.py` does, so that the theorems may speak of all of them.

### AuthSessions, ApiKeys

Both have requests that load rows without a lock. In `AuthSessions` each request is one step per
statement that may wait (`SetActive`, `ListSessions`, `Touch`, ...), row locks are `UserFree` and
`SessionFree`. `clean`, `late`, `forked`, `ended` and `alone` are history: which sessions descend from a
request that overlapped another. In `ApiKeys`, `Load` and `Commit` are the two ends of a change,
`Written` the columns its UPDATE carries; `Increment` is one Redis `INCR` with its check.

### TenantApi

`Admit` and `AdmitKey` check credentials in a transaction of their own. `FindTemplate` and `FindVersion`
are the two reads of a job creation or replay (`Clone`), `Insert` and `CommitJob` its ends, `LogReplay`
the audit row of a replay in a later transaction. A public read is `LoadVersions`, `Flush`, `Delete`: it
assigns the filtered list to an attached collection, whose orphans the commit deletes (`Hidden`).
Versions carry numbers that are never reused.

## 3. Runs

| run | checks | shows |
|---|---|---|
| `job_faults` | `TypeOK`, `RowsAreBacked`, `NeverForgotten`, `PublishesOnce` | one DOCX+PDF job, two workers, one retry; a crash, two errors, a delay and a refusal |
| `job_settles` | `EventuallySettled` | two jobs with one cache key, one completed from the files of the other while that one is repeated, failed or purged; every created job is settled for good |
| `retention_races` | `TypeOK`, `UnbackedIsExpired`, `ServedIsValid`, `InvalidationHolds`, `MeterExact`, `NoOrphans`, `DeletedOnTime` | two jobs with one cache key, two cleanups, a failure, invalidation at any moment |
| `billing_cycle` | `TypeOK`, `OneInvoicePerPeriod`, `NeverOverbilled`, `NoPeriodUnbilled`, `KeepsLedger`, `EventuallyBilled` | two overlapping transactions over three months, one failure |
| `template_races` | `TypeOK`, `LatestIsCurrent`, `NoLitter`, `SourcesIntact` | two uploads and a registration, one name shared and one not, a failure and a crash |
| `import_bindings` | `BindingsFitFile`, `SchemaFitsBindings`, `DeliversConfirmed` | two users change two versions, three times, while two jobs are submitted, reused and rendered |
| `docx_import` | `RefusedOrExact`, `FieldsNest` | every choice of up to three fields, or two spans by hand, in small documents |
| `rendering` | `FormatsAgree`, `AcceptedIsRendered` | every block, alone and beside five others, over every kind of value |
| `sessions` | `DisablingEndsSessions`, `OneSessionPerLogin`, `LogoutEndsLogin`, `EveryRequestEnds` | two overlapping requests of one user, disabled up to twice, one failure |
| `api_keys` | `EndedSecretsStayDead`, `LimitsHold`, `FloodContained` | two operators and two requests on one or two keys, at the turn of a minute |
| `tenant_api` | `TypeOK`, `JobsAreAuthorized`, `AuditComplete`, `PublishedIsKept` | three users and a key in two organizations, two requests at a time |
| `public_read` | `VersionsAreKept` (violated) | a GET with an API key deletes the unpublished versions of a template |

### Known disagreements

One is kept as a run. `public_read`: `get_template` (`template_service.py:92`) assigns the published
versions to `template.versions` of an attached object; the relationship cascades `delete-orphan`
(`models/template.py:34`) and the session commits, so reading a template with an API key deletes its
unpublished versions, although `docs/architecture.md:35` calls a version an "immutable versioned source
file". When a version to be deleted already has jobs, the route fails instead.

The others show in the models as the exceptions the properties make. They are facts of the code, found
while it was modelled:

| where | what happens | how the properties say it |
|---|---|---|
| `workers/tasks.py:72` | the last retry leaves the job QUEUED, where no scan looks, although `docs/generation-lifecycle.md:74` describes a final failure | `NeverForgotten` excepts `stranded` jobs |
| `document_repository.py:115` | a job recovered while its worker was only slow is completed, then set FAILED by the other worker | `PublishesOnce` is about files, not status |
| `artifact_service.py:41` | the second worker replaces the object of a committed row before its insert fails; row and object then have different checksums | `RowsAreBacked` asks for an object only |
| `billing_service.py:343` | concurrent requests pass the cap together and lose increments | `NeverOverbilled` is one-sided |
| `organization_plan_repository.py:51` | a renewal computed from an older copy of the subscription erases a plan change | no property promises the change |
| `template_version_repository.py:78` | two overlapping uploads are both current; reading the current version then raises | `LatestIsCurrent`: the last is current, not the only one |
| `template_service.py:192` | two uploads of one version share a key; the loser replaces and deletes the file of the winner | `SourcesIntact` is about names only one user asks for |
| `docx_template_render_service.py:52` | the cache key does not contain the bindings: after a version was bound again to other spans under the same keys, the old document is delivered | `DeliversConfirmed` is about keys |
| `operations_service.py:263` | invalidation sets the retention deadline, so the next cleanup deletes the files too | `DeletedOnTime` excepts invalidated renderings |
| `operations_service.py:282` | a request that is copying when the cache is invalidated commits a valid copy | `InvalidationHolds` excepts `leaked` |
| `core/config.py:168` | `cache_ttl_hours` is read by nothing: a result is reused until its retention ends | - |
| `auth_service.py:64` | two refreshes of one token both succeed; a logout then ends one of the two sessions | `forked` |
| `auth_service.py:41` | a login or refresh that overlaps the disabling of its user leaves a session that works once the account is enabled again | `clean`, `late` |
| `operations_service.py` (disabling) | two administrators can disable each other at the same time, and nobody is left | `AuditComplete` asks who did it, not whether anybody remains |
| `operations_service.py` (replay) | the replay of an imported job is refused when it is validated: its payload has no constructor | `Clone` takes constructor jobs |
| `dtos/constructor.py`, `variable_mapper_service.py`, `security_service.py:89` | rows that are not objects, images that are a WEBP, no picture or a damaged one, pictures and table rows larger than a page of the PDF, and control characters in a text that is shown are accepted and billed, then fail | `Unrenderable`, the exceptions of `AcceptedIsRendered` |
| composer and PDF renderer | 0, false and `[]` in text blocks, null cells, line feeds outside text and headers, upper-case entities, italic headers differ | `Differ` |
| `docx_template_import_utils.py:31` | a linked header or merged cell is one paragraph with two paths, replaced in the order of the paths | `OnePath` |
| `docx_template_import_service.py:343` | a bracket around a field overlaps it, and so does a placeholder whose key has four underscores or dots the blank found in it; choosing both makes every job fail | `FieldsNest` names the cases |
| `template_version_repository.py:52` | two overlapping confirmations: one that leaves `component_schema` as it was, because only a sample text or a later span changed, is committed after one of other keys; its bindings then stand beside the form of the other | `SchemaFitsBindings` excepts overlapped versions where two bindings have one column |

### Bounds

| bound | value | why it is enough |
|---|---|---|
| jobs (`JobLifecycle`, `ArtifactRetention`) | 1, or 2 with one cache key | jobs share nothing but the cache and the meter; two jobs make a copy and its source, two rows to race for |
| workers, cleanups, sessions, users, operators, requests | 2 | every race is of two transactions; the proofs take any number |
| `MaxRetries` | 1, default of the code 4 | first attempt, retry and exhaustion all occur |
| mishaps (`Limit`, `MaxFailures`, `MaxCrashes`) | 1 or 2 of a kind | each fault alone and with every other |
| `Retention`, `MaxTime` | 1, 2 | files expire, are invalidated, and a cleanup begins before or after either |
| `Quota`, `BatchSize` | 4, 2 | two results fit, a third file over them does not; a full and a short batch occur |
| months, requests of `Billing` | 3, 2 | a catch-up of two periods; billing cycles are not bounded |
| `Cap` | 1 for the default plan, 2 for others | the cap is reached with the requests at hand |
| users, versions of `TemplateVersions` | 3, 2 | one shared name, one name of its own |
| `MaxVersions`, `MaxSaves` of `TemplateImports` | 2, 3 | a version replaced while it is reviewed; two overlapping changes of a version that was bound before; layouts with equal keys and equal forms, and with other keys |
| texts of `DocxImport` | all of up to 2 tokens of three kinds, and nine others; runs split at every border of interest | each pattern, nested and adjacent fields, spans over empty runs, places in body, nested tables, merged cells and linked headers |
| documents of `Rendering` | one or two blocks | blocks are rendered one by one; pairs show that order is kept |
| `MaxNesting` | 2 | a cell in the body and a cell in a cell; `Init` asks that no document has more |
| `MaxSessions`, `MaxDisables` | 3, 2 | a login, its refresh and a fork; disabled again after it was enabled |
| `Limit`, `MinutesPerDay`, `MaxMinutes` of `ApiKeys` | 1 each, 2, 1 | every limit is reached by two requests; a minute turns inside a day |
| `MaxVersions`, `MaxJobs`, `MaxDisabled` of `TenantApi` | 2, 2 (1 in `public_read`), 1 | a draft and a published version; a job and its replay; an account or key disabled between two transactions |

Symmetry: permutations of what the specification treats alike (workers, cleanups, jobs, operators,
requests, users, files, layouts with equal keys), in runs without liveness only. Deadlock is not
checked: requests, months and versions are bounded, so a behaviour may end.

### Fairness

`JobLifecycle`: weak fairness of each worker (a process keeps running and takes messages), of
enqueuing by a request that is alive, of the ageing of `started_at` and of the recovery scan, which
`beat_schedule` repeats for ever. Requests, faults and the purge have none. `EventuallySettled` needs
a limit on errors no larger than the retry budget and no lost send: without these the code does forget
jobs (see the disagreements above).

`Billing`: weak fairness of each transaction's next step and of the scheduled cycle finding a due
subscription. Requests, failures and the calendar have none.

`AuthSessions`: weak fairness of the next step of each request that has begun: a handler runs to its
end, and the database wakes a statement when the row it waits for is free. Beginning, failing and
enabling have none. `EveryRequestEnds` is then absence of deadlock: no two handlers wait for each other.

## 4. Proofs

All for any sets of jobs, workers, sessions, plans, users, keys, names, documents and payloads, and any
bounds, from the assumptions named in the modules (`FormatsAssumption`, `CapAssumption`, `JobsAssumption`, `TextsAssumption`, ...).

| module | proved | argument |
|---|---|---|
| `JobLifecycleProofs` | `TypeOK`, `RowsAreBacked`, `PublishesOnce`, `NeverForgotten`; also that a completed job is whole, of one rendering, and final | `DeliveryInv`: committed rows are one whole rendering (`JobInv`); uncommitted rows of a worker are uploaded, pin the job row, and nothing was committed before (`StagedInv`, `StoringInv`); no two workers have uncommitted rows for one job (`ExclusiveInv`). The properties alone are not inductive: what `Commit` publishes depends on what the worker staged before. The refinement of `DocumentShelf` maps `Commit` and `CreateFromCache` to `Publish`, `FinishRendering` to `Render`, the rest to stuttering. `NeverForgotten` is inductive with the types. |
| `JobLifecycleProofs`, second part, on `Rendering` | `FormatsAgree`, `AcceptedIsRendered` | `FilesInv`: blocks are typed and, once accepted, valid and resolvable; `resolved` is what the mapper makes of them; `docx` and `pdf` are what the two programs make of `resolved`, which fail for unrenderable blocks only (`OnlyTheseFail`). The rest is a lemma per kind of block: the two sequences of lines are equally long and agree line by line, for tables of any size. |
| `BillingProofs` | `TypeOK`, `OneInvoicePerPeriod`, `NeverOverbilled`, `NoPeriodUnbilled`, `KeepsLedger` | `BillingInv`: per session, periods worked on have ended (`PeriodInv`), drafts are for periods it leaves, one each, none committed (`DraftInv`), counts are bounded by what was accepted plus the request in hand (`MeterInv`); drafts of two sessions are for different periods (`Apart`). `ChainInv`: one session at most has written the subscription (`OneWriter`), and the months between the committed period and the one a session has in hand are billed, by itself where it is ahead, in the table where it is behind (`Chain`); without the second half a stale session that commits its older period could make the next one skip a month. `TimeInv`: sessions are of this month or the last, never work on a month that has not begun, and are up to date when they come to the meter. The refinement of `BillingLedger` maps `Commit` to `Transaction`, `NextMonth` to itself, the rest to stuttering, and needs all three. |
| `TemplateProofs` | `TypeOK`, `LatestIsCurrent`, `SourcesIntact`, `NoLitter`; also that a version name is used once | `VersionInv`: only a request about to commit has inserted, and nobody else has its version. `SourcesInv`: for a name only one user asks for, the name is free from the check on and the object under the key is the user's. `LitterInv`: a request that put an object has not ended. |
| `RetentionProofs` | all seven properties of `retention_races` | `Inv`: who copies has a completed source of the same key, who works is queued, who is idle has made nothing (`RequestsOK`); rows and files in the making have objects (`FilesOK`); a cleanup's batch has expired (`BatchesOK`); copies descend from a rendering of the same key, and what was invalidated has expired or leaked (`LineageOK`); a copy expires when its rendering does, the DOCX not after the PDF (`DatesOK`); one transaction holds the meter, and until a race what it holds is the committed rows plus its own (`MeterOK`). The meter and the expiry of a row are only right because of what open transactions hold, so each part speaks of both. |
| `ImportProofs` | `BindingsFitFile`, `SchemaFitsBindings`, `DeliversConfirmed`, types | `UsersOK`: what a user loaded is the row as it is, unless somebody changed it since, and a change wants bindings of that file; `RowsOK`, with `RowFits`: the columns are made from the bindings; that must be known of rows as they were loaded, too, for an UPDATE combines both, and it is kept because a column left alone belongs to bindings with the same column (`ColumnFits`), the same bindings if columns tell them apart; `JobsOK`: a job's keys are among those its version has had since. |
| `ImportProofs`, second part, on `DocxImport` | `FieldsNest` | Two fields of one text, found by any of the patterns, are apart, or one is a bracket around the other or a placeholder around a blank (`TwoFields`): a bracket holds no bracket and a placeholder no brace (`PairApart`), a blank is a longest stretch (`BlanksApart`) and neither brackets nor braces are in a key or a blank (`PlaceholderInBracket`, `BlankApart`). For texts, nestings and documents of any size. |
| `ImportProofs`, third part, on `DocxImport` | `RefusedOrExact` | `RenderInv`: what is bound is a span of a paragraph listed; in the loop, the spans replaced (`Done`) do not begin before those left, and, if the spans are apart or the values new, they are apart and the runs are exactly the original with them replaced (`InProgress`). See below. |
| `ApiKeyProofs` | `EndedSecretsStayDead`, `LimitsHold`, `FloodContained`, types | Secrets are numbered once (`NumbersOK`, `FreshOK`); what is dead is not in an active row, and a change that leaves the status alone has seen it inactive (`DeadOK`, `SeenOK`); a counter is at least the requests it let through (`LimitsOK`), and a key draws from an organization's counter only after its own let it (`DrawnOK`). |
| `SessionProofs` | `DisablingEndsSessions`, `OneSessionPerLogin`, `LogoutEndsLogin`, types | Requests work on sessions that exist (`OpenOK`), which descend from ones that exist (`RootsOK`); a disabling in progress has listed every clean session that is live (`CleanOK`); a login that was never forked has one live session or one refresh (`LoginOK`); nothing is left of an ended one (`EndOK`). |
| `TenantApiProofs` | `JobsAreAuthorized`, `AuditComplete`, `PublishedIsKept`, types | Callers have their role or scope (`CallersOK`), their targets belong to their organization (`TargetsOK`), a version that was resolved belongs to the template and is published for a key (`ResolvedOK`), what a public read hides is not published (`HiddenOK`), a replay's original is logged (`ReplaysOK`), numbers are not reused (`VersionIdsOK`, `JobIdsOK`). |

The argument for `RefusedOrExact`. The property says nothing of the loop; the invariant says that after
each step the document is `Exact(Done)`. One step keeps this by three facts, each for runs of any number
and length:

- *The prefix is undisturbed* (`SplicedCursor`, `SplicedTextUpTo`): while only spans further right have
  been replaced, the runs up to the span end where they ended, and the text up to it is the original's. So
  the span still has its text (`SpanStays`: the renderer does not refuse it), and the cursor finds it.
- *A replacement is a splice* (`ReplaceSpliced`): each run falls before the span, is the first it touches,
  is a later one it touches, or lies behind it (`RunFirst`, `RunLater`, `RunUntouched`); what the loop
  makes of it is what `Spliced` asks for with one span more. Runs whose text has changed, and empty runs on
  the border of the span, are among these cases.
- *Overlaps are found* (`OverlapFound`): a span that covers the beginning of one that has been replaced
  would have to contain a token of that value, which the original does not have.

`ApartAhead` and `FreshAhead` conclude from the order of the loop and the check of the text that the next
span is to the left of all that have been replaced. Which paragraph the step works on is
`ResolveIsParagraph`: following a path down from the root (`Resolve`) ends where `iter_document_paragraph_targets`
made it (`Places`), by the least depth at which they would differ. As the library's induction theorems
cannot be used, every such argument takes the least counterexample (`LeastNatural`, from the library's
`WFMin`), and recursive functions are shown to have their equations in the same way (`RecursionOnNat`).
TLC checked `RenderInv` on the instance of `docx_import` before it was proved.

Only model-checked: liveness (`EventuallySettled`, `EventuallyBilled`, `EveryRequestEnds`: fairness is
out of the prover's reach), and `VersionsAreKept`, whose violation is a fact about an instance. `PublishesOnce` is checked by `job_faults` only, with one job; with several jobs and the cache
it is proved.

Two modules of proofs have parts about another component: `Rendering` and `DocxImport` name their
specifications apart (`RenderingSpec`, `DocxSpec`) so that a module can extend two.

## 5. Not modelled

| part | why |
|---|---|
| verification of documents | reads a checksum and decides nothing; when checksum and object may differ is said above |
| logs, temporary files, audit logs in retention | deleted by age alone |
| presigned URLs, listings, statistics, lookups by checksum | read only |
| template and user limits of a plan (`billing_service.py:371`) | a count of committed rows compared with a limit; concurrent requests pass together, as with the generation cap |
| the amount of usage committed after its period was invoiced (`billing_service.py:361`) | it is never billed; `KeepsLedger` says that it is of the month that has just ended, `NeverOverbilled` bounds the other side |
| provisioning on first use in `TemplateVersions`, meters of several organizations locked by one cleanup (`maintenance_service.py:97`) | one organization per model; `BreakDeadlock` is the outcome for one |
| key and type inference of candidates, the placeholder schema | wording; nothing else depends on it |
| hyperlinks in a paragraph | its text counts for offsets and its runs are not among the paragraph's: spans after one are shifted. The documents of the model have none |
| page geometry, fonts, spacing | calls of python-docx and a PDF library |
| token and password cryptography, file name checks | libraries, and checks without state |
| configuration, logging, metrics, health, DTOs, routers | parsing, constants, output; what a route asks of its caller is in `TenantApi` |
| frontend | a client without shared state |
| `src/_runrepo` | a second copy of the program: `src/app` is the one modelled |
| migrations, scripts, deployment | run once; the constraints they create are in the models |

## 6. Plan

1. Abstract specifications of the other components, with their refinements: a version log implemented by
   `TemplateVersions`, a session family ("what was ended stays ended") implemented by `AuthSessions`
   without overlapping requests.
2. `ArtifactRetention` with two organizations: the order in which a cleanup and the billing cycle lock
   meters.
3. The template and user limits in `TemplateVersions`, once there is something the code promises about
   them under concurrency.
