------------------------------ MODULE TenantApi ------------------------------
(***************************************************************************)
(* What a request to the API may do, from the check of its credentials to  *)
(* the last of its transactions: the roles of users and the scopes of API  *)
(* keys, the tenant every query is restricted to, the publication of       *)
(* template versions, replay, and the audit row of each change.            *)
(*                                                                         *)
(* A request is a sequence of transactions: credentials are checked in one *)
(* (get_current_user, resolve_api_key_principal), the service runs in      *)
(* others, so an account may be disabled between the two.  Inside a        *)
(* transaction every statement sees what is committed when it starts (READ *)
(* COMMITTED), so the template and its version are read at two moments.    *)
(***************************************************************************)
EXTENDS Naturals, FiniteSets

CONSTANTS
    Requests,     \* slots for requests in flight
    Users,
    Keys,         \* API keys
    Orgs,         \* organizations
    Templates,
    Nobody,       \* None: no user, no API key
    RoleIn,       \* RoleIn[u][o]: the role of u in o, "inactive" or "none"
    KeyOrg,       \* the organization of an API key
    KeyScopes,    \* its scopes
    TemplateOrg,  \* the organization of a template
    MaxVersions,  \* bound on the versions uploaded
    MaxJobs,      \* bound on the jobs created
    MaxDisabled   \* bound on the accounts and keys put out of service

VARIABLES
    active,       \* users whose account is active
    enabled,      \* API keys that are active
    versions,     \* template_versions
    lastVersion,  \* the number of versions ever inserted
    jobs,         \* document_jobs
    lastJob,      \* the number of jobs ever inserted
    audit,        \* audit_logs
    req           \* the requests in flight

vars == <<active, enabled, versions, lastVersion, jobs, lastJob, audit, req>>

-----------------------------------------------------------------------------
(* Roles and routes *)

Roles == {"VIEWER", "OPERATOR", "MANAGER", "ADMIN"}
Readers == Roles
Generators == Roles \ {"VIEWER"}
Writers == {"MANAGER", "ADMIN"}
Auditors == {"ADMIN"}

Scopes == {"templates:read", "documents:generate", "documents:read", "audit:read"}

\* What the routes for users ask for, by what they go on to do.  Routes that only
\* read, here or in the parts other modules describe, are "read".
DocumentRoutes == [op \in {"read", "create"} |-> IF op = "read" THEN Readers ELSE Generators]
TemplateRoutes == [op \in {"upload"} |-> Writers]
AdminRoutes == [op \in {"replay", "disable_user", "disable_key"} |-> Auditors]
UserOps == {"read", "create", "upload", "replay", "disable_user", "disable_key"}
Allowed(op) ==
    IF op \in DOMAIN DocumentRoutes THEN DocumentRoutes[op]
    ELSE IF op \in DOMAIN TemplateRoutes THEN TemplateRoutes[op]
    ELSE AdminRoutes[op]

\* What the routes for API keys ask for.
PublicDocumentRoutes ==
    [op \in {"read", "create"} |-> IF op = "read" THEN "documents:read" ELSE "documents:generate"]
PublicTemplateRoutes == [op \in {"view"} |-> "templates:read"]
PublicOps == {"read", "create", "view"}
ScopeOf(op) ==
    IF op \in DOMAIN PublicDocumentRoutes THEN PublicDocumentRoutes[op]
    ELSE PublicTemplateRoutes[op]

ASSUME NobodyAssumption == Nobody \notin Users \cup Keys \cup Orgs \cup Templates
ASSUME BoundsAssumption == MaxVersions \in Nat /\ MaxJobs \in Nat /\ MaxDisabled \in Nat
ASSUME GrantsAssumption ==
    /\ RoleIn \in [Users -> [Orgs -> Roles \cup {"inactive", "none"}]]
    /\ KeyOrg \in [Keys -> Orgs]
    /\ KeyScopes \in [Keys -> SUBSET Scopes]
    /\ TemplateOrg \in [Templates -> Orgs]

-----------------------------------------------------------------------------
(* Rows and requests *)

Versions == [id : Nat, template : Templates, published : BOOLEAN, current : BOOLEAN]

\* wanted: the version its payload named, 0 if none; origin: the job it replays, or 0.
Jobs == [id : Nat, org : Orgs, template : Templates, version : Nat, wanted : Nat,
         user : Users \cup {Nobody}, key : Keys \cup {Nobody}, origin : Nat]

Actions == {"created", "replayed", "user_disabled", "key_disabled"}
AuditRows == [action : Actions, org : Orgs, user : Users \cup {Nobody}, key : Keys \cup {Nobody},
              entity : Nat \cup Users \cup Keys]

\* drafts: the versions a public read took out of the collection it loaded.
Idle == [pc |-> "idle", op |-> "read", user |-> Nobody, key |-> Nobody, org |-> Nobody,
         template |-> Nobody, wanted |-> 0, version |-> 0, origin |-> 0, job |-> 0, drafts |-> {}]

Flights ==
    [pc : {"idle", "admitted", "found", "resolved", "inserted", "cloned", "viewing", "flushing",
           "deleting"},
     op : UserOps \cup PublicOps, user : Users \cup {Nobody}, key : Keys \cup {Nobody},
     org : Orgs \cup {Nobody}, template : Templates \cup {Nobody},
     wanted : Nat, version : Nat, origin : Nat, job : Nat, drafts : SUBSET Nat]

Entry(r, action, entity) ==
    [action |-> action, org |-> req[r].org, user |-> req[r].user, key |-> req[r].key,
     entity |-> entity]

Public(r) == req[r].key # Nobody

\* A request that is running op and has reached pc.
At(r, pc, op) == req[r].pc = pc /\ req[r].op = op

Done(r) == req' = [req EXCEPT ![r] = Idle]

-----------------------------------------------------------------------------
Init ==
    /\ active = Users
    /\ enabled = Keys
    /\ versions = {}
    /\ lastVersion = 0
    /\ jobs = {}
    /\ lastJob = 0
    /\ audit = {}
    /\ req = [r \in Requests |-> Idle]

(* Credentials *)

\* A token names a user only: account and memberships are read on every request.
MayAct(u, o, op) == u \in active /\ RoleIn[u][o] \in Allowed(op)

Admit(r, u, o, op) ==
    /\ req[r].pc = "idle"
    /\ MayAct(u, o, op)
    /\ req' = [req EXCEPT ![r] = [Idle EXCEPT !.pc = "admitted", !.op = op, !.user = u, !.org = o]]
    /\ UNCHANGED <<active, enabled, versions, lastVersion, jobs, lastJob, audit>>

\* Mutant: the organization of the key is not taken over.
AdmitKeyUnbound(r, k, op) ==
    /\ req[r].pc = "idle"
    /\ k \in enabled
    /\ ScopeOf(op) \in KeyScopes[k]
    /\ req' = [req EXCEPT ![r] = [Idle EXCEPT !.pc = "admitted", !.op = op, !.key = k]]
    /\ UNCHANGED <<active, enabled, versions, lastVersion, jobs, lastJob, audit>>

\* The organization of a public request is that of its key.
AdmitKey(r, k, op) ==
    /\ req[r].pc = "idle"
    /\ k \in enabled
    /\ ScopeOf(op) \in KeyScopes[k]
    /\ req' = [req EXCEPT ![r] =
                   [Idle EXCEPT !.pc = "admitted", !.op = op, !.key = k, !.org = KeyOrg[k]]]
    /\ UNCHANGED <<active, enabled, versions, lastVersion, jobs, lastJob, audit>>

(* Queries *)

JobsOf(o) == {j \in jobs : j.org = o}

\* A template is there from its first version on.
Visible(o, t, publishedOnly) ==
    /\ TemplateOrg[t] = o
    /\ \E v \in versions : v.template = t
    /\ publishedOnly => \E v \in versions : v.template = t /\ v.current /\ v.published

\* Mutant: the publication of the version is not checked a second time.
ResolvedOnce(t, wanted, publishedOnly) ==
    {v \in versions : /\ IF wanted = 0 THEN v.current ELSE v.id = wanted
                      /\ v.template = t}

Resolved(t, wanted, publishedOnly) ==
    {v \in versions : /\ IF wanted = 0 THEN v.current ELSE v.id = wanted
                      /\ v.template = t
                      /\ publishedOnly => v.published}

(* Creation of jobs *)

FindTemplate(r, t, wanted) ==
    /\ At(r, "admitted", "create")
    /\ Visible(req[r].org, t, Public(r))
    /\ req' = [req EXCEPT ![r].pc = "found", ![r].template = t, ![r].wanted = wanted]
    /\ UNCHANGED <<active, enabled, versions, lastVersion, jobs, lastJob, audit>>

\* replay_job reads the payload of a job and goes on as create_job, for a user.
Clone(r, j) ==
    /\ At(r, "admitted", "replay")
    /\ j \in JobsOf(req[r].org)
    /\ req' = [req EXCEPT ![r].pc = "found", ![r].org = j.org, ![r].template = j.template,
                          ![r].wanted = j.wanted, ![r].origin = j.id]
    /\ UNCHANGED <<active, enabled, versions, lastVersion, jobs, lastJob, audit>>

FindVersion(r) ==
    /\ req[r].pc = "found"
    /\ \E v \in Resolved(req[r].template, req[r].wanted, Public(r)) :
           req' = [req EXCEPT ![r].pc = "resolved", ![r].version = v.id]
    /\ UNCHANGED <<active, enabled, versions, lastVersion, jobs, lastJob, audit>>

\* The foreign key needs the version, and keeps it until the transaction ends.
Insert(r) ==
    /\ req[r].pc = "resolved"
    /\ lastJob < MaxJobs
    /\ \E v \in versions : v.id = req[r].version
    /\ lastJob' = lastJob + 1
    /\ req' = [req EXCEPT ![r].pc = "inserted", ![r].job = lastJob + 1]
    /\ UNCHANGED <<active, enabled, versions, lastVersion, jobs, audit>>

NewJob(r) ==
    [id |-> req[r].job, org |-> req[r].org, template |-> req[r].template,
     version |-> req[r].version, wanted |-> req[r].wanted,
     user |-> req[r].user, key |-> req[r].key, origin |-> req[r].origin]

\* The job and its audit row appear together.
CommitJob(r) ==
    /\ req[r].pc = "inserted"
    /\ jobs' = jobs \cup {NewJob(r)}
    /\ audit' = audit \cup {Entry(r, "created", req[r].job)}
    /\ IF req[r].op = "replay" THEN req' = [req EXCEPT ![r].pc = "cloned"] ELSE Done(r)
    /\ UNCHANGED <<active, enabled, versions, lastVersion, lastJob>>

\* The audit row of a replay comes in a transaction of its own.
LogReplay(r) ==
    /\ req[r].pc = "cloned"
    /\ audit' = audit \cup {Entry(r, "replayed", req[r].job)}
    /\ Done(r)
    /\ UNCHANGED <<active, enabled, versions, lastVersion, jobs, lastJob>>

(* Templates *)

\* upload_template and register_template; TemplateVersions describes their steps.
Upload(r, t, publish) ==
    /\ At(r, "admitted", "upload")
    /\ TemplateOrg[t] = req[r].org
    /\ lastVersion < MaxVersions
    /\ lastVersion' = lastVersion + 1
    /\ versions' =
           {[v EXCEPT !.current = @ /\ v.template # t] : v \in versions}
               \cup {[id |-> lastVersion + 1, template |-> t, published |-> publish,
                      current |-> TRUE]}
    /\ Done(r)
    /\ UNCHANGED <<active, enabled, jobs, lastJob, audit>>

View(r, t) ==
    /\ At(r, "admitted", "view")
    /\ Visible(req[r].org, t, TRUE)
    /\ req' = [req EXCEPT ![r].pc = "viewing", ![r].template = t]
    /\ UNCHANGED <<active, enabled, versions, lastVersion, jobs, lastJob, audit>>

\* Mutant: only the current version is kept in the answer.
HiddenButCurrent(t) == {v.id : v \in {w \in versions : w.template = t /\ ~w.current}}

\* What get_template takes out of template.versions before it answers.
Hidden(t) == {v.id : v \in {w \in versions : w.template = t /\ ~w.published}}

\* The versions are loaded by a second statement.
LoadVersions(r) ==
    /\ req[r].pc = "viewing"
    /\ IF Hidden(req[r].template) = {}
       THEN Done(r)
       ELSE req' = [req EXCEPT ![r].pc = "flushing", ![r].drafts = Hidden(req[r].template)]
    /\ UNCHANGED <<active, enabled, versions, lastVersion, jobs, lastJob, audit>>

\* The session commits: versions taken out of the collection are orphans to be deleted.
\* The jobs of each are loaded first, and their foreign key cannot be null.
Flush(r) ==
    /\ req[r].pc = "flushing"
    /\ IF \E j \in jobs : j.version \in req[r].drafts
       THEN Done(r)
       ELSE req' = [req EXCEPT ![r].pc = "deleting"]
    /\ UNCHANGED <<active, enabled, versions, lastVersion, jobs, lastJob, audit>>

\* DELETE waits for the transactions that hold the rows, and cascades to the jobs they brought.
Delete(r) ==
    /\ req[r].pc = "deleting"
    /\ ~ \E q \in Requests : req[q].pc = "inserted" /\ req[q].version \in req[r].drafts
    /\ versions' = {v \in versions : v.id \notin req[r].drafts}
    /\ jobs' = {j \in jobs : j.version \notin req[r].drafts}
    /\ Done(r)
    /\ UNCHANGED <<active, enabled, lastVersion, lastJob, audit>>

(* Support *)

OutOfService == Cardinality(Users \ active) + Cardinality(Keys \ enabled)

\* Mutant: administrators may disable themselves.
DisableAnyone(r, u) ==
    /\ At(r, "admitted", "disable_user")
    /\ OutOfService < MaxDisabled
    /\ RoleIn[u][req[r].org] # "none"
    /\ active' = active \ {u}
    /\ audit' = audit \cup {Entry(r, "user_disabled", u)}
    /\ Done(r)
    /\ UNCHANGED <<enabled, versions, lastVersion, jobs, lastJob>>

DisableUser(r, u) ==
    /\ At(r, "admitted", "disable_user")
    /\ OutOfService < MaxDisabled
    /\ u # req[r].user
    /\ RoleIn[u][req[r].org] # "none"
    /\ active' = active \ {u}
    /\ audit' = audit \cup {Entry(r, "user_disabled", u)}
    /\ Done(r)
    /\ UNCHANGED <<enabled, versions, lastVersion, jobs, lastJob>>

DisableKey(r, k) ==
    /\ At(r, "admitted", "disable_key")
    /\ OutOfService < MaxDisabled
    /\ KeyOrg[k] = req[r].org
    /\ enabled' = enabled \ {k}
    /\ audit' = audit \cup {Entry(r, "key_disabled", k)}
    /\ Done(r)
    /\ UNCHANGED <<active, versions, lastVersion, jobs, lastJob>>

\* A request that is answered with an error, or lost with its process, is rolled back;
\* so ends one that only reads.
End(r) ==
    /\ req[r].pc # "idle"
    /\ Done(r)
    /\ UNCHANGED <<active, enabled, versions, lastVersion, jobs, lastJob, audit>>

-----------------------------------------------------------------------------
Next ==
    \E r \in Requests :
        \/ \E u \in Users, o \in Orgs, op \in UserOps : Admit(r, u, o, op)
        \/ \E k \in Keys, op \in PublicOps : AdmitKey(r, k, op)
        \/ \E t \in Templates, wanted \in 0 .. MaxVersions : FindTemplate(r, t, wanted)
        \/ \E j \in jobs : Clone(r, j)
        \/ FindVersion(r) \/ Insert(r) \/ CommitJob(r) \/ LogReplay(r)
        \/ \E t \in Templates, publish \in BOOLEAN : Upload(r, t, publish)
        \/ \E t \in Templates : View(r, t)
        \/ LoadVersions(r) \/ Flush(r) \/ Delete(r)
        \/ \E u \in Users : DisableUser(r, u)
        \/ \E k \in Keys : DisableKey(r, k)
        \/ End(r)

Spec == Init /\ [][Next]_vars

-----------------------------------------------------------------------------
(* Properties *)

\* State and rows are what the tables allow; a request in flight has an organization.
TypeOK ==
    /\ active \subseteq Users
    /\ enabled \subseteq Keys
    /\ versions \subseteq Versions
    /\ lastVersion \in Nat
    /\ jobs \subseteq Jobs
    /\ lastJob \in Nat
    /\ audit \subseteq AuditRows
    /\ req \in [Requests -> Flights]
    /\ \A r \in Requests : req[r].pc # "idle" => req[r].org \in Orgs

\* A job belongs to the organization of its template and was made from a version of that
\* template, the one it named if it named one; who asked for it may generate documents there; and
\* what an API key asked for is published, although an upload may come between the two
\* reads, and a public read may delete the version under the request.
JobsAreAuthorized ==
    \A j \in jobs :
        /\ j.org = TemplateOrg[j.template]
        /\ \E v \in versions :
               /\ v.id = j.version
               /\ v.template = j.template
               /\ j.key # Nobody => v.published
        /\ j.wanted \in {0, j.version}
        /\ IF j.key = Nobody
           THEN RoleIn[j.user][j.org] \in IF j.origin = 0 THEN Generators ELSE Auditors
           ELSE KeyOrg[j.key] = j.org /\ "documents:generate" \in KeyScopes[j.key]

\* The audit log tells, once and in the right organization, who created a job, and who put
\* an account or a key out of service: somebody else, an administrator of an organization it
\* belongs to.  A replay is logged only for a job whose creation is, but its row may be lost;
\* uploads, extractions and what public reads delete are not logged at all.
AuditComplete ==
    /\ \A j \in jobs :
           {a \in audit : a.action = "created" /\ a.entity = j.id} =
               {[action |-> "created", org |-> j.org, user |-> j.user, key |-> j.key,
                 entity |-> j.id]}
    /\ \A u \in Users \ active :
           \E a \in audit : /\ a.action = "user_disabled" /\ a.entity = u /\ a.user # u
                            /\ RoleIn[a.user][a.org] \in Auditors
                            /\ RoleIn[u][a.org] # "none"
    /\ \A k \in Keys \ enabled :
           \E a \in audit : /\ a.action = "key_disabled" /\ a.entity = k
                            /\ RoleIn[a.user][a.org] \in Auditors
                            /\ KeyOrg[k] = a.org
    /\ \A a \in audit : a.action = "replayed" => [a EXCEPT !.action = "created"] \in audit

\* Public reads, which delete the versions they hide, leave alone what is published and the
\* jobs made from it.
PublishedIsKept ==
    [][\A v \in versions : v.published =>
           /\ \E w \in versions' : w.id = v.id /\ w.template = v.template /\ w.published
           /\ {j \in jobs : j.version = v.id} \subseteq jobs']_vars

\* A version, once uploaded, stays (docs/architecture.md: "immutable versioned source file").
VersionsAreKept == {v.id : v \in versions} = 1 .. lastVersion

=============================================================================
