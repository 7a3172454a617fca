--------------------------- MODULE TenantApiProofs ---------------------------
(***************************************************************************)
(* Proofs about TenantApi for any users, keys, organizations, templates,    *)
(* grants and numbers of concurrent requests.                               *)
(***************************************************************************)
EXTENDS TenantApi, TLAPS

-----------------------------------------------------------------------------
(* The inductive invariant *)

\* A request keeps the rights it was let in with.
CallerOK(f) ==
    f.pc # "idle" =>
        /\ f.org \in Orgs
        /\ IF f.key = Nobody
           THEN f.user \in Users /\ f.op \in UserOps /\ RoleIn[f.user][f.org] \in Allowed(f.op)
           ELSE /\ f.key \in Keys /\ f.op \in PublicOps
                /\ KeyOrg[f.key] = f.org /\ ScopeOf(f.op) \in KeyScopes[f.key]

Creating == {"found", "resolved", "inserted"}

\* It creates jobs from templates of its organization; only a replay has an origin.
TargetOK(f) ==
    /\ f.pc \in Creating =>
           /\ f.op \in {"create", "replay"}
           /\ f.template \in Templates
           /\ TemplateOrg[f.template] = f.org
    /\ f.pc \in Creating \cup {"admitted"} /\ f.op = "create" => f.origin = 0
    /\ f.pc = "cloned" => f.op = "replay"

\* The version it has resolved, while it is there, is one it may use; it cannot be
\* deleted once the job is inserted.
VersionOK(f) ==
    f.pc \in {"resolved", "inserted"} =>
        /\ f.version <= lastVersion
        /\ f.wanted \in {0, f.version}
        /\ \A v \in versions :
               v.id = f.version => v.template = f.template /\ (f.key # Nobody => v.published)
        /\ f.pc = "inserted" => \E v \in versions : v.id = f.version

\* What a public read is about to delete is not published.
DraftsOK(f) ==
    f.pc \in {"flushing", "deleting"} =>
        /\ \A i \in f.drafts : i <= lastVersion
        /\ \A v \in versions : v.id \in f.drafts => ~v.published

\* The id of a job that is not committed yet is new.
FreshJob(f) ==
    f.pc = "inserted" =>
        /\ f.job <= lastJob
        /\ \A j \in jobs : j.id # f.job
        /\ \A a \in audit : a.action = "created" => a.entity # f.job

\* A job that is going to be logged as replayed has been logged as created.
ReplayOK(f) ==
    f.pc = "cloned" =>
        [action |-> "created", org |-> f.org, user |-> f.user, key |-> f.key, entity |-> f.job]
            \in audit

CallersOK == \A r \in Requests : CallerOK(req[r])
TargetsOK == \A r \in Requests : TargetOK(req[r])
ResolvedOK == \A r \in Requests : VersionOK(req[r])
HiddenOK == \A r \in Requests : DraftsOK(req[r])
ReplaysOK == \A r \in Requests : ReplayOK(req[r])

\* Versions are numbered.
VersionIdsOK ==
    /\ \A v \in versions : v.id <= lastVersion
    /\ \A v, w \in versions : v.id = w.id => v = w

\* So are jobs, also those in flight.
JobIdsOK ==
    /\ \A j \in jobs : j.id <= lastJob
    /\ \A a \in audit : a.action = "created" => a.entity \in Nat /\ a.entity <= lastJob
    /\ \A r \in Requests : FreshJob(req[r])
    /\ \A q, r \in Requests :
           q # r /\ req[q].pc = "inserted" /\ req[r].pc = "inserted" => req[q].job # req[r].job

Inv ==
    /\ TypeOK
    /\ CallersOK
    /\ TargetsOK
    /\ ResolvedOK
    /\ HiddenOK
    /\ ReplaysOK
    /\ VersionIdsOK
    /\ JobIdsOK
    /\ JobsAreAuthorized
    /\ AuditComplete

-----------------------------------------------------------------------------
(* Types *)

\* Nobody is not a user, a key or an organization.
LEMMA NobodyIsNobody == Nobody \notin Users /\ Nobody \notin Keys /\ Nobody \notin Orgs
BY NobodyAssumption

\* An idle slot has the shape of a request.
LEMMA IdleType == Idle \in Flights
BY DEF Idle, Flights, UserOps

\* Entries of requests in flight have the shape of rows of the audit log.
LEMMA EntryType ==
    ASSUME TypeOK, NEW r \in Requests, req[r].pc # "idle",
           NEW action \in Actions, NEW entity \in Nat \cup Users \cup Keys
    PROVE  audit \cup {Entry(r, action, entity)} \subseteq AuditRows
<1>1. req[r] \in Flights /\ req[r].org \in Orgs
  BY DEF TypeOK
<1>2. Entry(r, action, entity) \in AuditRows
  BY <1>1 DEF Entry, Flights, AuditRows
<1> QED
  BY <1>2 DEF TypeOK

\* The initial state has the shape TypeOK describes.
LEMMA TypeInit == Init => TypeOK
BY IdleType DEF Init, TypeOK, Idle

\* A step that only changes one request, to a record of the right shape, keeps TypeOK.
LEMMA TypeOfFlight ==
    ASSUME TypeOK, NEW r \in Requests, NEW f \in Flights, f.pc # "idle" => f.org \in Orgs,
           req' = [req EXCEPT ![r] = f]
    PROVE  /\ req' \in [Requests -> Flights]
           /\ \A q \in Requests : req'[q].pc # "idle" => req'[q].org \in Orgs
BY DEF TypeOK

\* So does one that ends it.
LEMMA TypeOfDone ==
    ASSUME TypeOK, NEW r \in Requests, Done(r)
    PROVE  /\ req' \in [Requests -> Flights]
           /\ \A q \in Requests : req'[q].pc # "idle" => req'[q].org \in Orgs
<1>1. Idle.pc = "idle"
  BY DEF Idle
<1> QED
  BY <1>1, IdleType, TypeOfFlight DEF Done

\* A version that is no longer current keeps its other columns.
LEMMA UploadedType ==
    ASSUME NEW v \in Versions, NEW t
    PROVE  LET w == [v EXCEPT !.current = @ /\ v.template # t]
           IN  /\ w \in Versions
               /\ w.id = v.id /\ w.template = v.template /\ w.published = v.published
<1> DEFINE c == v.current /\ v.template # t
<1>1. c \in BOOLEAN
  OBVIOUS
<1>2. [v EXCEPT !.current = @ /\ v.template # t] = [v EXCEPT !.current = c]
  OBVIOUS
<1> HIDE DEF c
<1> QED
  BY <1>1, <1>2 DEF Versions

\* An upload adds a version and changes what is current among the others.
SameButCurrent(v, w) == w.id = v.id /\ w.template = v.template /\ w.published = v.published

\* The versions after an upload.
LEMMA UploadEffect ==
    ASSUME TypeOK, NEW r \in Requests, NEW t \in Templates, NEW publish \in BOOLEAN,
           Upload(r, t, publish)
    PROVE  /\ \A w \in versions' :
                  /\ w \in Versions
                  /\ w.id = lastVersion + 1 \/ \E v \in versions : SameButCurrent(v, w)
           /\ \A v \in versions : \E w \in versions' : SameButCurrent(v, w)
           /\ \A w, x \in versions' :
                  w.id = x.id =>
                      \/ w = x
                      \/ w.id = lastVersion + 1 /\ \E v \in versions : v.id = w.id
                      \/ \E v, y \in versions : v # y /\ v.id = y.id
<1> DEFINE old(v) == [v EXCEPT !.current = @ /\ v.template # t]
           new == [id |-> lastVersion + 1, template |-> t, published |-> publish, current |-> TRUE]
<1>1. versions' = {old(v) : v \in versions} \cup {new}
  BY DEF Upload
<1>2. new \in Versions /\ new.id = lastVersion + 1
  BY DEF Versions, TypeOK
<1>3. ASSUME NEW v \in versions PROVE old(v) \in Versions /\ SameButCurrent(v, old(v))
  BY UploadedType DEF TypeOK, SameButCurrent
<1> HIDE DEF old, new
<1>4. ASSUME NEW v \in versions, NEW y \in versions, old(v).id = old(y).id
      PROVE  old(v) = old(y) \/ (v # y /\ v.id = y.id)
  BY <1>3, <1>4 DEF SameButCurrent
<1>5. ASSUME NEW v \in versions, old(v).id = new.id
      PROVE  old(v).id = lastVersion + 1 /\ \E y \in versions : y.id = old(v).id
  BY <1>2, <1>3, <1>5 DEF SameButCurrent
<1>6. \A w \in versions' : w = new \/ \E v \in versions : w = old(v)
  BY <1>1
<1>7. \A v \in versions : old(v) \in versions'
  BY <1>1
<1>8. ASSUME NEW w \in versions', NEW x \in versions', w.id = x.id
      PROVE  \/ w = x
             \/ w.id = lastVersion + 1 /\ \E v \in versions : v.id = w.id
             \/ \E v, y \in versions : v # y /\ v.id = y.id
  BY <1>4, <1>5, <1>6, <1>8
<1> QED
  BY <1>2, <1>3, <1>6, <1>7, <1>8

\* Every step keeps the shape of the state.
LEMMA TypeNext == TypeOK /\ TargetsOK /\ [Next]_vars => TypeOK'
<1> SUFFICES ASSUME TypeOK, TargetsOK, [Next]_vars PROVE TypeOK'
  OBVIOUS
<1> USE DEF At
<1>t. \A r \in Requests : req[r] \in Flights /\ (req[r].pc # "idle" => req[r].org \in Orgs)
  BY DEF TypeOK
<1>1. ASSUME NEW r \in Requests, NEW u \in Users, NEW o \in Orgs, NEW op \in UserOps,
             Admit(r, u, o, op)
      PROVE TypeOK'
  <2> DEFINE f == [Idle EXCEPT !.pc = "admitted", !.op = op, !.user = u, !.org = o]
  <2>1. f \in Flights /\ f.org \in Orgs
    BY IdleType DEF Idle, Flights
  <2> HIDE DEF f
  <2>2. req' = [req EXCEPT ![r] = f]
    BY <1>1 DEF Admit, f
  <2> QED
    BY <1>1, <2>1, <2>2, TypeOfFlight DEF Admit, TypeOK
<1>2. ASSUME NEW r \in Requests, NEW k \in Keys, NEW op \in PublicOps, AdmitKey(r, k, op)
      PROVE TypeOK'
  <2> DEFINE f == [Idle EXCEPT !.pc = "admitted", !.op = op, !.key = k, !.org = KeyOrg[k]]
  <2>1. f \in Flights /\ f.org \in Orgs
    BY IdleType, GrantsAssumption DEF Idle, Flights
  <2> HIDE DEF f
  <2>2. req' = [req EXCEPT ![r] = f]
    BY <1>2 DEF AdmitKey, f
  <2> QED
    BY <1>2, <2>1, <2>2, TypeOfFlight DEF AdmitKey, TypeOK
<1>3. ASSUME NEW r \in Requests, NEW t \in Templates, NEW wanted \in 0 .. MaxVersions,
             FindTemplate(r, t, wanted)
      PROVE TypeOK'
  <2> DEFINE f == [req[r] EXCEPT !.pc = "found", !.template = t, !.wanted = wanted]
  <2>w. wanted \in Nat
    BY BoundsAssumption
  <2>1. f \in Flights /\ f.org \in Orgs
    BY <1>3, <1>t, <2>w DEF FindTemplate, Flights
  <2> HIDE DEF f
  <2>2. req' = [req EXCEPT ![r] = f]
    BY <1>3, <1>t DEF FindTemplate, f, Flights, TypeOK
  <2> QED
    BY <1>3, <2>1, <2>2, TypeOfFlight DEF FindTemplate, TypeOK
<1>4. ASSUME NEW r \in Requests, NEW j \in jobs, Clone(r, j) PROVE TypeOK'
  <2> DEFINE f == [req[r] EXCEPT !.pc = "found", !.org = j.org, !.template = j.template,
                                 !.wanted = j.wanted, !.origin = j.id]
  <2>j. j \in Jobs
    BY DEF TypeOK
  <2>1. f \in Flights /\ f.org \in Orgs
    BY ZenonT(60), <1>4, <1>t, <2>j DEF Clone, Flights, Jobs
  <2> HIDE DEF f
  <2>2. req' = [req EXCEPT ![r] = f]
    BY <1>4, <1>t DEF Clone, f, Flights, TypeOK
  <2> QED
    BY <1>4, <2>1, <2>2, TypeOfFlight DEF Clone, TypeOK
<1>5. ASSUME NEW r \in Requests, FindVersion(r) PROVE TypeOK'
  <2>1. PICK v \in versions : req' = [req EXCEPT ![r].pc = "resolved", ![r].version = v.id]
    BY <1>5 DEF FindVersion, Resolved
  <2> DEFINE f == [req[r] EXCEPT !.pc = "resolved", !.version = v.id]
  <2>v. v.id \in Nat
    BY DEF TypeOK, Versions
  <2>2. f \in Flights /\ f.org \in Orgs
    BY ZenonT(60), <1>5, <1>t, <2>v DEF FindVersion, Flights
  <2> HIDE DEF f
  <2>3. req' = [req EXCEPT ![r] = f]
    BY <2>1, <1>t DEF f, Flights, TypeOK
  <2> QED
    BY <1>5, <2>2, <2>3, TypeOfFlight DEF FindVersion, TypeOK
<1>6. ASSUME NEW r \in Requests, Insert(r) PROVE TypeOK'
  <2> DEFINE f == [req[r] EXCEPT !.pc = "inserted", !.job = lastJob + 1]
  <2>l. lastJob' \in Nat
    BY <1>6 DEF Insert, TypeOK
  <2>1. f \in Flights /\ f.org \in Orgs
    BY ZenonT(60), <1>6, <1>t, <2>l DEF Insert, Flights
  <2> HIDE DEF f
  <2>2. req' = [req EXCEPT ![r] = f]
    BY <1>6, <1>t DEF Insert, f, Flights, TypeOK
  <2> QED
    BY <1>6, <2>1, <2>2, <2>l, TypeOfFlight DEF Insert, TypeOK
<1>7. ASSUME NEW r \in Requests, CommitJob(r) PROVE TypeOK'
  <2>1. NewJob(r) \in Jobs
    BY <1>7, <1>t DEF CommitJob, NewJob, Jobs, Flights, TargetsOK, TargetOK, Creating
  <2>2. audit' \subseteq AuditRows
    BY <1>7, <1>t, EntryType DEF CommitJob, Actions, Flights
  <2>3. /\ req' \in [Requests -> Flights]
        /\ \A q \in Requests : req'[q].pc # "idle" => req'[q].org \in Orgs
    <3>1. CASE req[r].op # "replay"
      BY <1>7, <3>1, TypeOfDone DEF CommitJob
    <3>2. CASE req[r].op = "replay"
      <4> DEFINE f == [req[r] EXCEPT !.pc = "cloned"]
      <4>1. f \in Flights /\ f.org \in Orgs
        BY <1>7, <1>t DEF CommitJob, Flights
      <4> HIDE DEF f
      <4>2. req' = [req EXCEPT ![r] = f]
        BY <1>7, <3>2, <1>t DEF CommitJob, f, Flights, TypeOK
      <4> QED
        BY <4>1, <4>2, TypeOfFlight
    <3> QED
      BY <3>1, <3>2
  <2> QED
    BY <1>7, <2>1, <2>2, <2>3 DEF CommitJob, TypeOK
<1>8. ASSUME NEW r \in Requests, LogReplay(r) PROVE TypeOK'
  <2>1. audit' \subseteq AuditRows
    BY <1>8, <1>t, EntryType DEF LogReplay, Actions, Flights
  <2> QED
    BY <1>8, <2>1, TypeOfDone DEF LogReplay, TypeOK
<1>9. ASSUME NEW r \in Requests, NEW t \in Templates, NEW publish \in BOOLEAN,
             Upload(r, t, publish)
      PROVE TypeOK'
  <2>2. versions' \subseteq Versions /\ lastVersion' \in Nat
    <3>1. versions' \subseteq Versions
      BY <1>9, UploadEffect
    <3> QED
      BY <1>9, <3>1 DEF Upload, TypeOK
  <2> QED
    BY <1>9, <2>2, TypeOfDone DEF Upload, TypeOK
<1>10. ASSUME NEW r \in Requests, NEW t \in Templates, View(r, t) PROVE TypeOK'
  <2> DEFINE f == [req[r] EXCEPT !.pc = "viewing", !.template = t]
  <2>1. f \in Flights /\ f.org \in Orgs
    BY <1>10, <1>t DEF View, Flights
  <2> HIDE DEF f
  <2>2. req' = [req EXCEPT ![r] = f]
    BY <1>10, <1>t DEF View, f, Flights, TypeOK
  <2> QED
    BY <1>10, <2>1, <2>2, TypeOfFlight DEF View, TypeOK
<1>11. ASSUME NEW r \in Requests, LoadVersions(r) PROVE TypeOK'
  <2>1. CASE Hidden(req[r].template) = {}
    BY <1>11, <2>1, TypeOfDone DEF LoadVersions, TypeOK
  <2>2. CASE Hidden(req[r].template) # {}
    <3> DEFINE f == [req[r] EXCEPT !.pc = "flushing", !.drafts = Hidden(req[r].template)]
    <3>h. Hidden(req[r].template) \subseteq Nat
      BY DEF Hidden, TypeOK, Versions
    <3>1. f \in Flights /\ f.org \in Orgs
      BY <1>11, <1>t, <3>h DEF LoadVersions, Flights
    <3> HIDE DEF f
    <3>2. req' = [req EXCEPT ![r] = f]
      BY <1>11, <2>2, <1>t DEF LoadVersions, f, Flights, TypeOK
    <3> QED
      BY <1>11, <3>1, <3>2, TypeOfFlight DEF LoadVersions, TypeOK
  <2> QED
    BY <2>1, <2>2
<1>12. ASSUME NEW r \in Requests, Flush(r) PROVE TypeOK'
  <2>1. CASE Done(r)
    BY <1>12, <2>1, TypeOfDone DEF Flush, TypeOK
  <2>2. CASE req' = [req EXCEPT ![r].pc = "deleting"]
    <3> DEFINE f == [req[r] EXCEPT !.pc = "deleting"]
    <3>1. f \in Flights /\ f.org \in Orgs
      BY <1>12, <1>t DEF Flush, Flights
    <3> HIDE DEF f
    <3>2. req' = [req EXCEPT ![r] = f]
      BY <2>2, <1>t DEF f, Flights, TypeOK
    <3> QED
      BY <1>12, <3>1, <3>2, TypeOfFlight DEF Flush, TypeOK
  <2> QED
    BY <1>12, <2>1, <2>2 DEF Flush
<1>13. ASSUME NEW r \in Requests, Delete(r) PROVE TypeOK'
  BY <1>13, TypeOfDone DEF Delete, TypeOK
<1>14. ASSUME NEW r \in Requests, NEW u \in Users, DisableUser(r, u) PROVE TypeOK'
  <2>1. audit' \subseteq AuditRows
    BY <1>14, EntryType DEF DisableUser, Actions
  <2> QED
    BY <1>14, <2>1, TypeOfDone DEF DisableUser, TypeOK
<1>15. ASSUME NEW r \in Requests, NEW k \in Keys, DisableKey(r, k) PROVE TypeOK'
  <2>1. audit' \subseteq AuditRows
    BY <1>15, EntryType DEF DisableKey, Actions
  <2> QED
    BY <1>15, <2>1, TypeOfDone DEF DisableKey, TypeOK
<1>16. ASSUME NEW r \in Requests, End(r) PROVE TypeOK'
  BY <1>16, TypeOfDone DEF End, TypeOK
<1>17. CASE UNCHANGED vars
  BY <1>17 DEF vars, TypeOK
<1> QED
  BY <1>1, <1>2, <1>3, <1>4, <1>5, <1>6, <1>7, <1>8, <1>9, <1>10, <1>11, <1>12, <1>13, <1>14,
     <1>15, <1>16, <1>17 DEF Next

-----------------------------------------------------------------------------
(* Requests *)

\* Rights do not change while a request runs.
SameCaller(f, g) == f.key = g.key /\ f.op = g.op /\ f.user = g.user /\ f.org = g.org

\* A step is the admission of a request or a step of one, which keeps its caller.
LEMMA CallerStep ==
    ASSUME TypeOK, Next
    PROVE  \E r \in Requests :
               /\ \A q \in Requests \ {r} : req'[q] = req[q]
               /\ \/ \E u \in Users, o \in Orgs, op \in UserOps : Admit(r, u, o, op)
                  \/ \E k \in Keys, op \in PublicOps : AdmitKey(r, k, op)
                  \/ Done(r)
                  \/ req[r].pc # "idle" /\ SameCaller(req[r], req'[r])
<1> USE DEF At, SameCaller
<1>t. req \in [Requests -> Flights]
  BY DEF TypeOK
<1>1. PICK r \in Requests :
        \/ \E u \in Users, o \in Orgs, op \in UserOps : Admit(r, u, o, op)
        \/ \E k \in Keys, op \in PublicOps : AdmitKey(r, k, op)
        \/ \E t \in Templates, wanted \in 0 .. MaxVersions : FindTemplate(r, t, wanted)
        \/ \E j \in jobs : Clone(r, j)
        \/ FindVersion(r) \/ Insert(r) \/ CommitJob(r) \/ LogReplay(r)
        \/ \E t \in Templates, publish \in BOOLEAN : Upload(r, t, publish)
        \/ \E t \in Templates : View(r, t)
        \/ LoadVersions(r) \/ Flush(r) \/ Delete(r)
        \/ \E u \in Users : DisableUser(r, u)
        \/ \E k \in Keys : DisableKey(r, k)
        \/ End(r)
  BY DEF Next
<1>2. \A q \in Requests \ {r} : req'[q] = req[q]
  BY <1>1, <1>t DEF Done, Admit, AdmitKey, FindTemplate, Clone, FindVersion, Insert, CommitJob,
       LogReplay, Upload, View, LoadVersions, Flush, Delete, DisableUser, DisableKey, End
<1>3. ASSUME NEW t \in Templates, NEW wanted \in 0 .. MaxVersions, FindTemplate(r, t, wanted)
      PROVE  req[r].pc # "idle" /\ SameCaller(req[r], req'[r])
  BY <1>3, <1>t DEF FindTemplate, Flights
<1>4. ASSUME FindVersion(r)
      PROVE  req[r].pc # "idle" /\ SameCaller(req[r], req'[r])
  BY <1>4, <1>t DEF FindVersion, Flights
<1>5. ASSUME Insert(r)
      PROVE  req[r].pc # "idle" /\ SameCaller(req[r], req'[r])
  BY <1>5, <1>t DEF Insert, Flights
<1>6. ASSUME NEW t \in Templates, View(r, t)
      PROVE  req[r].pc # "idle" /\ SameCaller(req[r], req'[r])
  BY <1>6, <1>t DEF View, Flights
<1>7. ASSUME CommitJob(r)
      PROVE  Done(r) \/ (req[r].pc # "idle" /\ SameCaller(req[r], req'[r]))
  <2>1. CASE req[r].op = "replay"
    BY <1>7, <2>1, <1>t DEF CommitJob, Flights
  <2>2. CASE req[r].op # "replay"
    BY <1>7, <2>2 DEF CommitJob, Done
  <2> QED
    BY <1>7, <2>1, <2>2 DEF CommitJob
<1>8. ASSUME LoadVersions(r)
      PROVE  Done(r) \/ (req[r].pc # "idle" /\ SameCaller(req[r], req'[r]))
  <2>1. CASE Hidden(req[r].template) # {}
    BY <1>8, <2>1, <1>t DEF LoadVersions, Flights
  <2>2. CASE Hidden(req[r].template) = {}
    BY <1>8, <2>2 DEF LoadVersions, Done
  <2> QED
    BY <1>8, <2>1, <2>2 DEF LoadVersions
<1>9. ASSUME Flush(r)
      PROVE  Done(r) \/ (req[r].pc # "idle" /\ SameCaller(req[r], req'[r]))
  <2>1. CASE req' = [req EXCEPT ![r].pc = "deleting"]
    BY <1>9, <2>1, <1>t DEF Flush, Flights
  <2>2. CASE Done(r)
    BY <1>9, <2>2 DEF Flush, Done
  <2> QED
    BY <1>9, <2>1, <2>2 DEF Flush
<1>10. ASSUME NEW j \in jobs, Clone(r, j)
      PROVE  req[r].pc # "idle" /\ SameCaller(req[r], req'[r])
  BY <1>10, <1>t DEF Clone, JobsOf, Flights
<1> QED
  BY <1>1, <1>2, <1>3, <1>4, <1>5, <1>6, <1>7, <1>8, <1>9, <1>10
       DEF LogReplay, Upload, Delete, DisableUser, DisableKey, End

\* Initially nobody has been let in.
LEMMA CallersInit == Init => CallersOK
BY DEF Init, CallersOK, CallerOK, Idle

\* Every step keeps the rights of the requests in flight.
LEMMA CallersNext == TypeOK /\ CallersOK /\ [Next]_vars => CallersOK'
<1> SUFFICES ASSUME TypeOK, CallersOK, [Next]_vars PROVE CallersOK'
  OBVIOUS
<1>t. req \in [Requests -> Flights]
  BY DEF TypeOK
<1>1. CASE UNCHANGED vars
  BY <1>1 DEF vars, CallersOK
<1>2. CASE Next
  <2>1. PICK r \in Requests :
          /\ \A q \in Requests \ {r} : req'[q] = req[q]
          /\ \/ \E u \in Users, o \in Orgs, op \in UserOps : Admit(r, u, o, op)
             \/ \E k \in Keys, op \in PublicOps : AdmitKey(r, k, op)
             \/ Done(r)
             \/ req[r].pc # "idle" /\ SameCaller(req[r], req'[r])
    BY <1>2, CallerStep
  <2>2. ASSUME NEW u \in Users, NEW o \in Orgs, NEW op \in UserOps, Admit(r, u, o, op)
        PROVE  CallerOK(req'[r])
    <3> DEFINE f == [Idle EXCEPT !.pc = "admitted", !.op = op, !.user = u, !.org = o]
    <3>1. f.org = o /\ f.op = op /\ f.user = u /\ f.key = Nobody
      BY DEF Idle
    <3>2. req'[r] = f
      BY <2>2, <1>t DEF Admit
    <3> HIDE DEF f
    <3> QED
      BY <2>2, <3>1, <3>2 DEF Admit, MayAct, CallerOK
  <2>3. ASSUME NEW k \in Keys, NEW op \in PublicOps, AdmitKey(r, k, op)
        PROVE  CallerOK(req'[r])
    <3> DEFINE f == [Idle EXCEPT !.pc = "admitted", !.op = op, !.key = k, !.org = KeyOrg[k]]
    <3>1. f.org = KeyOrg[k] /\ f.op = op /\ f.key = k
      BY DEF Idle
    <3>2. req'[r] = f
      BY <2>3, <1>t DEF AdmitKey
    <3> HIDE DEF f
    <3>3. k # Nobody
      BY NobodyAssumption
    <3> QED
      BY <2>3, <3>1, <3>2, <3>3, GrantsAssumption DEF AdmitKey, CallerOK
  <2>4. ASSUME Done(r) PROVE CallerOK(req'[r])
    BY <2>4, <1>t DEF Done, CallerOK, Idle
  <2>5. ASSUME req[r].pc # "idle", SameCaller(req[r], req'[r]) PROVE CallerOK(req'[r])
    BY <2>5 DEF CallersOK, CallerOK, SameCaller
  <2>6. CallerOK(req'[r])
    BY <2>1, <2>2, <2>3, <2>4, <2>5
  <2>7. ASSUME NEW q \in Requests PROVE CallerOK(req'[q])
    BY <2>1, <2>6 DEF CallersOK
  <2> QED
    BY <2>7 DEF CallersOK, CallerOK
<1> QED
  BY <1>1, <1>2

\* Requests that create jobs keep to their organization.
LEMMA TargetsInit == Init => TargetsOK
BY DEF Init, TargetsOK, TargetOK, Creating, Idle

\* What the steps of a request leave of its record.
SameTarget(f, g) ==
    SameCaller(f, g) /\ g.template = f.template /\ g.wanted = f.wanted /\ g.origin = f.origin

Others(r) == \A q \in Requests \ {r} : req'[q] = req[q]

\* A request after finding its template.
LEMMA FindTemplateStep ==
    ASSUME TypeOK, NEW r \in Requests, NEW t \in Templates, NEW wanted \in 0 .. MaxVersions,
           FindTemplate(r, t, wanted)
    PROVE  /\ Others(r)
           /\ req'[r].pc = "found" /\ req'[r].template = t /\ req'[r].origin = req[r].origin
           /\ SameCaller(req[r], req'[r])
<1>1. req \in [Requests -> Flights]
  BY DEF TypeOK
<1> QED
  BY <1>1 DEF FindTemplate, Flights, SameCaller, Others

\* A request after reading the job to replay.
LEMMA CloneStep ==
    ASSUME TypeOK, NEW r \in Requests, NEW j \in jobs, Clone(r, j)
    PROVE  /\ Others(r)
           /\ req'[r].pc = "found" /\ req'[r].template = j.template
           /\ SameCaller(req[r], req'[r])
<1>1. req \in [Requests -> Flights]
  BY DEF TypeOK
<1> QED
  BY <1>1 DEF Clone, JobsOf, Flights, SameCaller, Others

\* A request after finding its version.
LEMMA FindVersionStep ==
    ASSUME TypeOK, NEW r \in Requests, FindVersion(r)
    PROVE  /\ Others(r)
           /\ req[r].pc = "found" /\ req'[r].pc = "resolved" /\ SameTarget(req[r], req'[r])
           /\ \E v \in Resolved(req[r].template, req[r].wanted, Public(r)) : req'[r].version = v.id
<1>1. req \in [Requests -> Flights]
  BY DEF TypeOK
<1> QED
  BY <1>1 DEF FindVersion, Flights, SameCaller, SameTarget, Others

\* A request after inserting the job.
LEMMA InsertStep ==
    ASSUME TypeOK, NEW r \in Requests, Insert(r)
    PROVE  /\ Others(r)
           /\ req[r].pc = "resolved" /\ req'[r].pc = "inserted" /\ SameTarget(req[r], req'[r])
           /\ req'[r].version = req[r].version /\ req'[r].job = lastJob + 1
<1>1. req \in [Requests -> Flights]
  BY DEF TypeOK
<1> QED
  BY <1>1 DEF Insert, Flights, SameCaller, SameTarget, Others

\* A request after committing the job.
LEMMA CommitJobStep ==
    ASSUME TypeOK, NEW r \in Requests, CommitJob(r)
    PROVE  /\ Others(r)
           /\ req[r].pc = "inserted"
           /\ \/ req'[r] = Idle
              \/ /\ req'[r].pc = "cloned" /\ req[r].op = "replay"
                 /\ SameCaller(req[r], req'[r]) /\ req'[r].job = req[r].job
<1>1. req \in [Requests -> Flights]
  BY DEF TypeOK
<1>2. CASE req[r].op = "replay"
  BY <1>1, <1>2 DEF CommitJob, Flights, SameCaller, Others
<1>3. CASE req[r].op # "replay"
  BY <1>1, <1>3 DEF CommitJob, Done, Others
<1> QED
  BY <1>2, <1>3

\* A request after loading the versions of its template.
LEMMA LoadVersionsStep ==
    ASSUME TypeOK, NEW r \in Requests, LoadVersions(r)
    PROVE  /\ Others(r)
           /\ \/ req'[r] = Idle
              \/ req'[r].pc = "flushing" /\ req'[r].drafts = Hidden(req[r].template)
<1>1. req \in [Requests -> Flights]
  BY DEF TypeOK
<1>2. CASE Hidden(req[r].template) # {}
  BY <1>1, <1>2 DEF LoadVersions, Flights, Others
<1>3. CASE Hidden(req[r].template) = {}
  BY <1>1, <1>3 DEF LoadVersions, Done, Others
<1> QED
  BY <1>2, <1>3

\* A request after flushing its changes.
LEMMA FlushStep ==
    ASSUME TypeOK, NEW r \in Requests, Flush(r)
    PROVE  /\ Others(r)
           /\ req[r].pc = "flushing"
           /\ \/ req'[r] = Idle
              \/ req'[r].pc = "deleting" /\ req'[r].drafts = req[r].drafts
<1>1. req \in [Requests -> Flights]
  BY DEF TypeOK
<1>2. CASE req' = [req EXCEPT ![r].pc = "deleting"]
  BY <1>1, <1>2 DEF Flush, Flights, Others
<1>3. CASE Done(r)
  BY <1>1, <1>3 DEF Flush, Done, Others
<1> QED
  BY <1>2, <1>3 DEF Flush

\* Steps after which a request holds nothing: it is let in, looks at a template, or ends.
LEMMA QuietStep ==
    ASSUME TypeOK, NEW r \in Requests,
           \/ \E u \in Users, o \in Orgs, op \in UserOps : Admit(r, u, o, op)
           \/ \E k \in Keys, op \in PublicOps : AdmitKey(r, k, op)
           \/ \E t \in Templates : View(r, t)
           \/ Done(r)
    PROVE  /\ Others(r)
           /\ \/ req'[r] = Idle
              \/ req'[r].pc = "viewing"
              \/ req'[r].pc = "admitted" /\ req'[r].origin = 0
<1>1. req \in [Requests -> Flights]
  BY DEF TypeOK
<1>2. ASSUME NEW u \in Users, NEW o \in Orgs, NEW op \in UserOps, Admit(r, u, o, op)
      PROVE  Others(r) /\ req'[r].pc = "admitted" /\ req'[r].origin = 0
  BY <1>1, <1>2 DEF Admit, Idle, Others
<1>3. ASSUME NEW k \in Keys, NEW op \in PublicOps, AdmitKey(r, k, op)
      PROVE  Others(r) /\ req'[r].pc = "admitted" /\ req'[r].origin = 0
  BY <1>1, <1>3 DEF AdmitKey, Idle, Others
<1>4. ASSUME NEW t \in Templates, View(r, t)
      PROVE  Others(r) /\ req'[r].pc = "viewing"
  BY <1>1, <1>4 DEF View, Flights, Others
<1>5. ASSUME Done(r)
      PROVE  Others(r) /\ req'[r] = Idle
  BY <1>1, <1>5 DEF Done, Others
<1> QED
  BY <1>2, <1>3, <1>4, <1>5

\* Idle requests satisfy every part of the invariant that is about one request.
LEMMA IdleOK ==
    /\ CallerOK(Idle) /\ TargetOK(Idle) /\ VersionOK(Idle) /\ DraftsOK(Idle)
    /\ FreshJob(Idle) /\ ReplayOK(Idle)
BY DEF Idle, CallerOK, TargetOK, Creating, VersionOK, DraftsOK, FreshJob, ReplayOK

\* Every step keeps requests in their organization.
LEMMA TargetsNext == TypeOK /\ TargetsOK /\ JobsAreAuthorized /\ [Next]_vars => TargetsOK'
<1> SUFFICES ASSUME TypeOK, TargetsOK, JobsAreAuthorized, Next PROVE TargetsOK'
  BY DEF vars, TargetsOK
<1> DEFINE Goal(r) == Others(r) /\ TargetOK(req'[r])
<1>1. ASSUME NEW r \in Requests, NEW t \in Templates, NEW wanted \in 0 .. MaxVersions,
             FindTemplate(r, t, wanted)
      PROVE  Goal(r)
  <2>1. req[r].pc = "admitted" /\ req[r].op = "create" /\ TemplateOrg[t] = req[r].org
    BY <1>1 DEF FindTemplate, At, Visible
  <2>2. req[r].origin = 0
    BY <2>1 DEF TargetsOK, TargetOK
  <2>3. /\ Others(r) /\ req'[r].pc = "found" /\ req'[r].template = t
        /\ req'[r].origin = req[r].origin /\ SameCaller(req[r], req'[r])
    BY <1>1, FindTemplateStep
  <2> QED
    BY <2>1, <2>2, <2>3 DEF SameCaller, TargetOK, Creating
<1>2. ASSUME NEW r \in Requests, NEW j \in jobs, Clone(r, j) PROVE Goal(r)
  <2>1. j \in Jobs /\ j.org = TemplateOrg[j.template] /\ j.org = req[r].org /\ req[r].op = "replay"
    BY <1>2 DEF Clone, At, JobsOf, TypeOK, JobsAreAuthorized
  <2> QED
    BY <1>2, <2>1, CloneStep DEF Jobs, SameCaller, TargetOK, Creating
<1>3. ASSUME NEW r \in Requests, FindVersion(r) PROVE Goal(r)
  BY <1>3, FindVersionStep DEF SameTarget, SameCaller, TargetsOK, TargetOK, Creating
<1>4. ASSUME NEW r \in Requests, Insert(r) PROVE Goal(r)
  BY <1>4, InsertStep DEF SameTarget, SameCaller, TargetsOK, TargetOK, Creating
<1>5. ASSUME NEW r \in Requests, CommitJob(r) PROVE Goal(r)
  BY <1>5, CommitJobStep, IdleOK DEF SameCaller, TargetOK, Creating
<1>6. ASSUME NEW r \in Requests, LoadVersions(r) \/ Flush(r) PROVE Goal(r)
  BY <1>6, LoadVersionsStep, FlushStep, IdleOK DEF TargetOK, Creating
<1>7. ASSUME NEW r \in Requests,
             \/ \E u \in Users, o \in Orgs, op \in UserOps : Admit(r, u, o, op)
             \/ \E k \in Keys, op \in PublicOps : AdmitKey(r, k, op)
             \/ \E t \in Templates : View(r, t)
             \/ Done(r)
      PROVE  Goal(r)
  BY <1>7, QuietStep, IdleOK DEF TargetOK, Creating
<1>8. PICK r \in Requests : Goal(r)
  <2> HIDE DEF Goal
  <2> QED
    BY <1>1, <1>2, <1>3, <1>4, <1>5, <1>6, <1>7
       DEF Next, LogReplay, Upload, Delete, DisableUser, DisableKey, End
<1>9. ASSUME NEW q \in Requests PROVE TargetOK(req'[q])
  BY <1>8 DEF Others, TargetsOK
<1> QED
  BY <1>9 DEF TargetsOK, TargetOK

-----------------------------------------------------------------------------
(* Versions *)

\* Only uploads and the deletions of public reads change the versions.
LEMMA VersionsStep ==
    ASSUME [Next]_vars
    PROVE  \/ UNCHANGED <<versions, lastVersion>>
           \/ \E r \in Requests, t \in Templates, publish \in BOOLEAN : Upload(r, t, publish)
           \/ \E r \in Requests : Delete(r)
<1>1. CASE UNCHANGED vars
  BY <1>1 DEF vars
<1>2. ASSUME NEW r \in Requests,
             \/ \E u \in Users, o \in Orgs, op \in UserOps : Admit(r, u, o, op)
             \/ \E k \in Keys, op \in PublicOps : AdmitKey(r, k, op)
             \/ \E t \in Templates, wanted \in 0 .. MaxVersions : FindTemplate(r, t, wanted)
             \/ \E j \in jobs : Clone(r, j)
             \/ FindVersion(r) \/ Insert(r) \/ CommitJob(r) \/ LogReplay(r)
             \/ \E t \in Templates : View(r, t)
             \/ LoadVersions(r) \/ Flush(r)
             \/ \E u \in Users : DisableUser(r, u)
             \/ \E k \in Keys : DisableKey(r, k)
             \/ End(r)
      PROVE  UNCHANGED <<versions, lastVersion>>
  BY <1>2 DEF Admit, AdmitKey, FindTemplate, Clone, FindVersion, Insert, CommitJob, LogReplay,
       View, LoadVersions, Flush, DisableUser, DisableKey, End
<1> QED
  BY <1>1, <1>2 DEF Next

\* The initial state satisfies VersionIdsOK.
LEMMA VersionIdsInit == Init => VersionIdsOK
BY DEF Init, VersionIdsOK

\* Versions are numbered in the order of their uploads.
LEMMA VersionIdsNext == TypeOK /\ VersionIdsOK /\ [Next]_vars => VersionIdsOK'
<1> SUFFICES ASSUME TypeOK, VersionIdsOK, [Next]_vars PROVE VersionIdsOK'
  OBVIOUS
<1>n. lastVersion \in Nat /\ \A v \in versions : v.id \in Nat
  BY DEF TypeOK, Versions
<1>1. CASE UNCHANGED <<versions, lastVersion>>
  BY <1>1 DEF VersionIdsOK
<1>2. ASSUME NEW r \in Requests, Delete(r) PROVE VersionIdsOK'
  BY <1>2 DEF Delete, VersionIdsOK
<1>3. ASSUME NEW r \in Requests, NEW t \in Templates, NEW publish \in BOOLEAN,
             Upload(r, t, publish)
      PROVE  VersionIdsOK'
  <2>1. lastVersion' = lastVersion + 1
    BY <1>3 DEF Upload
  <2>2. ~ \E v \in versions : v.id = lastVersion + 1
    BY <1>n DEF VersionIdsOK
  <2>3. \A w, x \in versions' : w.id = x.id => w = x
    BY <1>3, <2>2, UploadEffect DEF VersionIdsOK
  <2>4. ASSUME NEW w \in versions' PROVE w.id <= lastVersion + 1
    <3>1. w.id = lastVersion + 1 \/ \E v \in versions : SameButCurrent(v, w)
      BY <1>3, UploadEffect
    <3> QED
      BY <3>1, <1>n DEF SameButCurrent, VersionIdsOK
  <2> QED
    BY <2>1, <2>3, <2>4 DEF VersionIdsOK
<1> QED
  BY <1>1, <1>2, <1>3, VersionsStep

\* A change of the versions that a request may see without noticing.
Harmless(f) ==
    /\ lastVersion <= lastVersion'
    /\ \A w \in versions' :
           w.id <= lastVersion => \E v \in versions : SameButCurrent(v, w)
    /\ f.pc = "inserted" =>
           \A v \in versions : v.id = f.version => \E w \in versions' : w.id = v.id

\* Every step is harmless for every request that is not about to end with it.
LEMMA AlwaysHarmless ==
    ASSUME TypeOK, [Next]_vars, NEW r \in Requests
    PROVE  Harmless(req[r])
<1>n. lastVersion \in Nat
  BY DEF TypeOK
<1>1. CASE UNCHANGED <<versions, lastVersion>>
  BY <1>1, <1>n DEF Harmless, SameButCurrent
<1>2. ASSUME NEW q \in Requests, Delete(q) PROVE Harmless(req[r])
  BY <1>2, <1>n DEF Delete, Harmless, SameButCurrent
<1>3. ASSUME NEW q \in Requests, NEW t \in Templates, NEW publish \in BOOLEAN,
             Upload(q, t, publish)
      PROVE  Harmless(req[r])
  <2>1. lastVersion' = lastVersion + 1
    BY <1>3 DEF Upload
  <2>2. \A w \in versions' :
           w.id = lastVersion + 1 \/ \E v \in versions : SameButCurrent(v, w)
    BY <1>3, UploadEffect
  <2>3. \A v \in versions : \E w \in versions' : SameButCurrent(v, w)
    BY <1>3, UploadEffect
  <2> QED
    BY <1>n, <2>1, <2>2, <2>3 DEF Harmless, SameButCurrent
<1> QED
  BY <1>1, <1>2, <1>3, VersionsStep

\* What holds of the version of a request goes on to hold if its record stays.
LEMMA VersionStays ==
    ASSUME TypeOK, TypeOK', NEW r \in Requests, VersionOK(req[r]), Harmless(req[r])
    PROVE  /\ req[r].pc \in {"resolved", "inserted"} =>
                  /\ req[r].version <= lastVersion'
                  /\ \A w \in versions' :
                         w.id = req[r].version =>
                             /\ w.template = req[r].template
                             /\ req[r].key # Nobody => w.published
           /\ req[r].pc = "inserted" => \E w \in versions' : w.id = req[r].version
<1>1. lastVersion \in Nat /\ lastVersion' \in Nat /\ req[r].version \in Nat
  BY DEF TypeOK, Flights
<1> QED
  BY <1>1 DEF VersionOK, Harmless, SameButCurrent

\* Initially no request has resolved a version.
LEMMA ResolvedInit == Init => ResolvedOK
BY IdleOK DEF Init, ResolvedOK

\* A request that has resolved a version may use it, whatever happens to the others.
LEMMA ResolvedNext ==
    TypeOK /\ VersionIdsOK /\ TargetsOK /\ ResolvedOK /\ [Next]_vars => ResolvedOK'
<1> SUFFICES ASSUME TypeOK, VersionIdsOK, TargetsOK, ResolvedOK, [Next]_vars PROVE ResolvedOK'
  OBVIOUS
<1>t. TypeOK'
  BY TypeNext
<1> DEFINE Good(f) ==
             f.pc \in {"resolved", "inserted"} =>
                 /\ f.version <= lastVersion'
                 /\ f.wanted \in {0, f.version}
                 /\ \A v \in versions' :
                        v.id = f.version =>
                            v.template = f.template /\ (f.key # Nobody => v.published)
                 /\ f.pc = "inserted" => \E v \in versions' : v.id = f.version
<1>s. ASSUME NEW q \in Requests PROVE Good(req[q])
  <2>1. VersionOK(req[q]) /\ Harmless(req[q])
    BY AlwaysHarmless DEF ResolvedOK
  <2>2. req[q].pc \in {"resolved", "inserted"} => req[q].wanted \in {0, req[q].version}
    BY <2>1 DEF VersionOK
  <2> QED
    BY <1>t, <2>1, <2>2, VersionStays
<1>i. Good(Idle)
  BY DEF Idle
<1>1. ASSUME NEW r \in Requests, FindVersion(r) PROVE Others(r) /\ Good(req'[r])
  <2>1. PICK v \in Resolved(req[r].template, req[r].wanted, Public(r)) : req'[r].version = v.id
    BY <1>1, FindVersionStep
  <2>2. /\ Others(r) /\ req'[r].pc = "resolved" /\ req'[r].key = req[r].key
        /\ req'[r].template = req[r].template /\ req'[r].wanted = req[r].wanted
    BY <1>1, FindVersionStep DEF SameTarget, SameCaller
  <2>3. versions' = versions /\ lastVersion' = lastVersion
    BY <1>1 DEF FindVersion
  <2>4. /\ v \in versions /\ v.template = req[r].template
        /\ req[r].key # Nobody => v.published
        /\ req[r].wanted \in {0, v.id}
    BY DEF Resolved, Public
  <2>5. v.id <= lastVersion /\ \A w \in versions : w.id = v.id => w = v
    BY <2>4 DEF VersionIdsOK
  <2> QED
    BY <2>1, <2>2, <2>3, <2>4, <2>5
<1>2. ASSUME NEW r \in Requests, Insert(r) PROVE Others(r) /\ Good(req'[r])
  <2>1. /\ Others(r) /\ req[r].pc = "resolved" /\ req'[r].pc = "inserted"
        /\ req'[r].key = req[r].key
        /\ req'[r].template = req[r].template /\ req'[r].wanted = req[r].wanted
        /\ req'[r].version = req[r].version
    BY <1>2, InsertStep DEF SameTarget, SameCaller
  <2>2. versions' = versions /\ \E v \in versions : v.id = req[r].version
    BY <1>2 DEF Insert
  <2>3. Good(req[r])
    BY <1>s
  <2> QED
    BY <2>1, <2>2, <2>3
<1> HIDE DEF Good
<1>3. ASSUME NEW r \in Requests, CommitJob(r) PROVE Others(r) /\ Good(req'[r])
  BY <1>3, <1>i, CommitJobStep DEF Good
<1>4. ASSUME NEW r \in Requests, LoadVersions(r) \/ Flush(r) PROVE Others(r) /\ Good(req'[r])
  BY <1>4, <1>i, LoadVersionsStep, FlushStep DEF Good
<1>5. ASSUME NEW r \in Requests,
             \/ \E u \in Users, o \in Orgs, op \in UserOps : Admit(r, u, o, op)
             \/ \E k \in Keys, op \in PublicOps : AdmitKey(r, k, op)
             \/ \E t \in Templates : View(r, t)
             \/ Done(r)
      PROVE  Others(r) /\ Good(req'[r])
  BY <1>5, <1>i, QuietStep DEF Good
<1>6. ASSUME NEW r \in Requests, NEW t \in Templates, NEW wanted \in 0 .. MaxVersions,
             FindTemplate(r, t, wanted)
      PROVE  Others(r) /\ Good(req'[r])
  BY <1>6, FindTemplateStep DEF Good
<1>7. ASSUME NEW r \in Requests, NEW j \in jobs, Clone(r, j) PROVE Others(r) /\ Good(req'[r])
  BY <1>7, CloneStep DEF Good
<1>8. CASE UNCHANGED vars
  BY <1>s, <1>8 DEF vars, Good, ResolvedOK, VersionOK
<1>9. CASE Next
  <2>1. PICK r \in Requests : Others(r) /\ Good(req'[r])
    BY <1>9, <1>1, <1>2, <1>3, <1>4, <1>5, <1>6, <1>7
       DEF Next, LogReplay, Upload, Delete, DisableUser, DisableKey, End
  <2>2. ASSUME NEW q \in Requests PROVE Good(req'[q])
    BY <2>1, <1>s DEF Others
  <2> QED
    BY <2>2 DEF Good, ResolvedOK, VersionOK
<1> QED
  BY <1>8, <1>9

\* Initially nothing is about to be deleted.
LEMMA HiddenInit == Init => HiddenOK
BY IdleOK DEF Init, HiddenOK

\* Only unpublished versions are about to be deleted.
LEMMA HiddenNext == TypeOK /\ VersionIdsOK /\ HiddenOK /\ [Next]_vars => HiddenOK'
<1> SUFFICES ASSUME TypeOK, VersionIdsOK, HiddenOK, [Next]_vars PROVE HiddenOK'
  OBVIOUS
<1>t. TypeOK
  OBVIOUS
<1>n. lastVersion \in Nat /\ \A r \in Requests : req[r].drafts \subseteq Nat
  BY DEF TypeOK, Flights
<1> DEFINE Good(f) ==
             f.pc \in {"flushing", "deleting"} =>
                 /\ \A i \in f.drafts : i <= lastVersion'
                 /\ \A v \in versions' : v.id \in f.drafts => ~v.published
<1>s. ASSUME NEW q \in Requests PROVE Good(req[q])
  <2>1. DraftsOK(req[q]) /\ Harmless(req[q])
    BY AlwaysHarmless DEF HiddenOK
  <2>2. lastVersion' \in Nat
    BY <1>n, VersionsStep DEF Upload, Delete
  <2>3. req[q].drafts \subseteq Nat
    BY <1>n
  <2> QED
    BY <1>n, <2>1, <2>2, <2>3 DEF DraftsOK, Harmless, SameButCurrent
<1>i. Good(Idle)
  BY DEF Idle
<1>1. ASSUME NEW r \in Requests, LoadVersions(r) PROVE Others(r) /\ Good(req'[r])
  <2>1. versions' = versions /\ lastVersion' = lastVersion
    BY <1>1 DEF LoadVersions
  <2>2. \A i \in Hidden(req[r].template) : i <= lastVersion
    BY DEF Hidden, VersionIdsOK
  <2>3. \A v \in versions : v.id \in Hidden(req[r].template) => ~v.published
    BY DEF Hidden, VersionIdsOK
  <2> QED
    BY <1>1, <1>i, <2>1, <2>2, <2>3, LoadVersionsStep
<1>2. ASSUME NEW r \in Requests, Flush(r) PROVE Others(r) /\ Good(req'[r])
  BY <1>2, <1>i, <1>s, FlushStep
<1> HIDE DEF Good
<1>3. ASSUME NEW r \in Requests, CommitJob(r) PROVE Others(r) /\ Good(req'[r])
  BY <1>3, <1>i, CommitJobStep DEF Good
<1>4. ASSUME NEW r \in Requests, FindVersion(r) \/ Insert(r) PROVE Others(r) /\ Good(req'[r])
  BY <1>4, FindVersionStep, InsertStep DEF Good
<1>5. ASSUME NEW r \in Requests,
             \/ \E u \in Users, o \in Orgs, op \in UserOps : Admit(r, u, o, op)
             \/ \E k \in Keys, op \in PublicOps : AdmitKey(r, k, op)
             \/ \E t \in Templates : View(r, t)
             \/ Done(r)
      PROVE  Others(r) /\ Good(req'[r])
  BY <1>5, <1>i, QuietStep DEF Good
<1>6. ASSUME NEW r \in Requests, NEW t \in Templates, NEW wanted \in 0 .. MaxVersions,
             FindTemplate(r, t, wanted)
      PROVE  Others(r) /\ Good(req'[r])
  BY <1>6, FindTemplateStep DEF Good
<1>7. ASSUME NEW r \in Requests, NEW j \in jobs, Clone(r, j) PROVE Others(r) /\ Good(req'[r])
  BY <1>7, CloneStep DEF Good
<1>8. CASE UNCHANGED vars
  BY <1>s, <1>8 DEF vars, Good, HiddenOK, DraftsOK
<1>9. CASE Next
  <2>1. PICK r \in Requests : Others(r) /\ Good(req'[r])
    BY <1>9, <1>1, <1>2, <1>3, <1>4, <1>5, <1>6, <1>7
       DEF Next, LogReplay, Upload, Delete, DisableUser, DisableKey, End
  <2>2. ASSUME NEW q \in Requests PROVE Good(req'[q])
    BY <2>1, <1>s DEF Others
  <2> QED
    BY <2>2 DEF Good, HiddenOK, DraftsOK
<1> QED
  BY <1>8, <1>9

-----------------------------------------------------------------------------
(* Jobs *)

\* Only the commits of requests and the deletions of public reads change the jobs.
LEMMA JobsStep ==
    ASSUME [Next]_vars
    PROVE  \/ jobs' = jobs
           \/ \E r \in Requests : CommitJob(r)
           \/ \E r \in Requests : Delete(r)
<1>1. CASE UNCHANGED vars
  BY <1>1 DEF vars
<1>2. ASSUME NEW r \in Requests,
             \/ \E u \in Users, o \in Orgs, op \in UserOps : Admit(r, u, o, op)
             \/ \E k \in Keys, op \in PublicOps : AdmitKey(r, k, op)
             \/ \E t \in Templates, wanted \in 0 .. MaxVersions : FindTemplate(r, t, wanted)
             \/ \E j \in jobs : Clone(r, j)
             \/ FindVersion(r) \/ Insert(r) \/ LogReplay(r)
             \/ \E t \in Templates, publish \in BOOLEAN : Upload(r, t, publish)
             \/ \E t \in Templates : View(r, t)
             \/ LoadVersions(r) \/ Flush(r)
             \/ \E u \in Users : DisableUser(r, u)
             \/ \E k \in Keys : DisableKey(r, k)
             \/ End(r)
      PROVE  jobs' = jobs
  BY <1>2 DEF Admit, AdmitKey, FindTemplate, Clone, FindVersion, Insert, LogReplay,
       Upload, View, LoadVersions, Flush, DisableUser, DisableKey, End
<1> QED
  BY <1>1, <1>2 DEF Next

\* Initially there are no jobs.
LEMMA JobsInit == Init => JobsAreAuthorized
BY DEF Init, JobsAreAuthorized

\* Jobs stay inside their tenant and on versions their author may use.
LEMMA JobsNext ==
    TypeOK /\ CallersOK /\ TargetsOK /\ ResolvedOK /\ JobsAreAuthorized /\ [Next]_vars
        => JobsAreAuthorized'
<1> SUFFICES ASSUME TypeOK, CallersOK, TargetsOK, ResolvedOK, JobsAreAuthorized, [Next]_vars
             PROVE  JobsAreAuthorized'
  OBVIOUS
<1> DEFINE Owned(j) ==
             /\ j.org = TemplateOrg[j.template]
             /\ j.wanted \in {0, j.version}
             /\ IF j.key = Nobody
                THEN RoleIn[j.user][j.org] \in IF j.origin = 0 THEN Generators ELSE Auditors
                ELSE KeyOrg[j.key] = j.org /\ "documents:generate" \in KeyScopes[j.key]
           Of(j, v) ==
             v.id = j.version /\ v.template = j.template /\ (j.key # Nobody => v.published)
<1>o. \A j \in jobs : Owned(j) /\ \E v \in versions : Of(j, v)
  BY DEF JobsAreAuthorized
<1>g. (\A j \in jobs' : Owned(j) /\ \E v \in versions' : Of(j, v)) => JobsAreAuthorized'
  BY DEF JobsAreAuthorized
<1>1. CASE jobs' = jobs /\ UNCHANGED <<versions, lastVersion>>
  <2> HIDE DEF Owned, Of
  <2> QED
    BY <1>1, <1>o, <1>g
<1>2. ASSUME NEW r \in Requests, Delete(r) PROVE JobsAreAuthorized'
  <2>1. ASSUME NEW j \in jobs' PROVE Owned(j) /\ \E v \in versions' : Of(j, v)
    <3>1. j \in jobs /\ j.version \notin req[r].drafts
      BY <1>2 DEF Delete
    <3>2. Owned(j)
      BY <1>o, <3>1
    <3>3. PICK v \in versions : Of(j, v)
      BY <1>o, <3>1
    <3>4. v \in versions'
      BY <1>2, <3>1, <3>3 DEF Delete
    <3> QED
      BY <3>2, <3>3, <3>4
  <2> HIDE DEF Owned, Of
  <2> QED
    BY <2>1, <1>g
<1>3. ASSUME NEW r \in Requests, NEW t \in Templates, NEW publish \in BOOLEAN,
             Upload(r, t, publish)
      PROVE  JobsAreAuthorized'
  <2>1. ASSUME NEW j \in jobs' PROVE Owned(j) /\ \E v \in versions' : Of(j, v)
    <3>1. j \in jobs
      BY <1>3 DEF Upload
    <3>2. Owned(j)
      BY <1>o, <3>1
    <3>3. PICK v \in versions : Of(j, v)
      BY <1>o, <3>1
    <3>4. PICK w \in versions' : SameButCurrent(v, w)
      BY <1>3, UploadEffect
    <3> QED
      BY <3>2, <3>3, <3>4 DEF SameButCurrent
  <2> HIDE DEF Owned, Of
  <2> QED
    BY <2>1, <1>g
<1>4. ASSUME NEW r \in Requests, CommitJob(r) PROVE JobsAreAuthorized'
  <2> DEFINE n == NewJob(r)
  <2>1. /\ n.org = req[r].org /\ n.template = req[r].template /\ n.version = req[r].version
        /\ n.wanted = req[r].wanted /\ n.user = req[r].user /\ n.key = req[r].key
        /\ n.origin = req[r].origin
    BY DEF NewJob
  <2>2. req[r].pc = "inserted"
    BY <1>4 DEF CommitJob
  <2>3. jobs' = jobs \cup {n} /\ versions' = versions
    BY <1>4 DEF CommitJob
  <2> HIDE DEF n
  <2>4. CallerOK(req[r]) /\ TargetOK(req[r]) /\ VersionOK(req[r])
    BY DEF CallersOK, TargetsOK, ResolvedOK
  <2>5. \E v \in versions : Of(n, v)
    BY <2>1, <2>2, <2>4 DEF VersionOK
  <2>6. Owned(n)
    <3>1. n.org = TemplateOrg[n.template] /\ n.wanted \in {0, n.version}
      BY <2>1, <2>2, <2>4 DEF VersionOK, TargetOK, Creating
    <3>2. req[r].op \in {"create", "replay"} /\ (req[r].op = "create" => n.origin = 0)
      BY <2>1, <2>2, <2>4 DEF TargetOK, Creating
    <3>3. CASE n.key = Nobody
      <4>1. RoleIn[n.user][n.org] \in Allowed(req[r].op)
        BY <2>1, <2>2, <2>4, <3>3 DEF CallerOK
      <4>2. /\ Allowed("create") = Generators /\ Allowed("replay") = Auditors
            /\ Auditors \subseteq Generators
        BY DEF Allowed, DocumentRoutes, TemplateRoutes, AdminRoutes, Generators, Auditors, Roles
      <4> QED
        BY <3>1, <3>2, <3>3, <4>1, <4>2
    <3>4. CASE n.key # Nobody
      <4>1. /\ req[r].op \in PublicOps /\ KeyOrg[n.key] = n.org
            /\ ScopeOf(req[r].op) \in KeyScopes[n.key]
        BY <2>1, <2>2, <2>4, <3>4 DEF CallerOK
      <4>2. req[r].op = "create" /\ ScopeOf("create") = "documents:generate"
        BY <3>2, <4>1 DEF PublicOps, ScopeOf, PublicDocumentRoutes
      <4> QED
        BY <3>1, <3>4, <4>1, <4>2
    <3> QED
      BY <3>3, <3>4
  <2> HIDE DEF Owned, Of
  <2> QED
    BY <2>3, <2>5, <2>6, <1>o, <1>g
<1>5. ASSUME NEW r \in Requests, CommitJob(r) PROVE UNCHANGED <<versions, lastVersion>>
  BY <1>5 DEF CommitJob
<1> QED
  BY <1>1, <1>2, <1>3, <1>4, <1>5, VersionsStep, JobsStep

\* What a step that neither inserts nor commits a job leaves alone.
JobsLeftAlone(r) ==
    /\ Others(r) /\ req'[r].pc # "inserted"
    /\ lastJob' = lastJob /\ jobs' \subseteq jobs
    /\ audit \subseteq audit'
    /\ \A a \in audit' : a.action = "created" => a \in audit

\* Such are all steps but the insertion of a job and its commit.
LEMMA JobsLeftAloneStep ==
    ASSUME TypeOK, NEW r \in Requests,
           \/ \E u \in Users, o \in Orgs, op \in UserOps : Admit(r, u, o, op)
           \/ \E k \in Keys, op \in PublicOps : AdmitKey(r, k, op)
           \/ \E t \in Templates, wanted \in 0 .. MaxVersions : FindTemplate(r, t, wanted)
           \/ \E j \in jobs : Clone(r, j)
           \/ FindVersion(r) \/ LogReplay(r)
           \/ \E t \in Templates, publish \in BOOLEAN : Upload(r, t, publish)
           \/ \E t \in Templates : View(r, t)
           \/ LoadVersions(r) \/ Flush(r) \/ Delete(r)
           \/ \E u \in Users : DisableUser(r, u)
           \/ \E k \in Keys : DisableKey(r, k)
           \/ End(r)
    PROVE  JobsLeftAlone(r)
<1>0. Idle.pc = "idle"
  BY DEF Idle
<1>1. Others(r) /\ req'[r].pc # "inserted"
  <2>1. CASE Done(r)
    BY <1>0, <2>1, QuietStep
  <2>2. ASSUME NEW t \in Templates, NEW wanted \in 0 .. MaxVersions, FindTemplate(r, t, wanted)
        PROVE  Others(r) /\ req'[r].pc # "inserted"
    BY <2>2, FindTemplateStep
  <2>3. ASSUME NEW j \in jobs, Clone(r, j) PROVE Others(r) /\ req'[r].pc # "inserted"
    BY <2>3, CloneStep
  <2>4. ASSUME FindVersion(r) \/ LoadVersions(r) \/ Flush(r)
        PROVE  Others(r) /\ req'[r].pc # "inserted"
    BY <1>0, <2>4, FindVersionStep, LoadVersionsStep, FlushStep
  <2>5. ASSUME \/ \E u \in Users, o \in Orgs, op \in UserOps : Admit(r, u, o, op)
               \/ \E k \in Keys, op \in PublicOps : AdmitKey(r, k, op)
               \/ \E t \in Templates : View(r, t)
        PROVE  Others(r) /\ req'[r].pc # "inserted"
    BY <1>0, <2>5, QuietStep
  <2> QED
    BY <2>1, <2>2, <2>3, <2>4, <2>5 DEF LogReplay, Upload, Delete, DisableUser, DisableKey, End
<1>2. lastJob' = lastJob /\ jobs' \subseteq jobs
  BY DEF Admit, AdmitKey, FindTemplate, Clone, FindVersion, LogReplay, Upload, View, LoadVersions,
         Flush, Delete, DisableUser, DisableKey, End
<1>3. ASSUME NEW entity, NEW action, action # "created",
             audit' = audit \cup {Entry(r, action, entity)}
      PROVE  audit \subseteq audit' /\ \A a \in audit' : a.action = "created" => a \in audit
  BY <1>3 DEF Entry
<1>4. \/ audit' = audit
      \/ \E entity, action :
             action # "created" /\ audit' = audit \cup {Entry(r, action, entity)}
  <2>1. CASE audit' = audit
    BY <2>1
  <2>2. CASE LogReplay(r)
    BY <2>2 DEF LogReplay
  <2>3. ASSUME NEW u \in Users, DisableUser(r, u)
        PROVE  audit' = audit \cup {Entry(r, "user_disabled", u)}
    BY <2>3 DEF DisableUser
  <2>4. ASSUME NEW k \in Keys, DisableKey(r, k)
        PROVE  audit' = audit \cup {Entry(r, "key_disabled", k)}
    BY <2>4 DEF DisableKey
  <2>5. CASE \/ \E u \in Users : DisableUser(r, u)
             \/ \E k \in Keys : DisableKey(r, k)
    BY <2>3, <2>4, <2>5
  <2>6. CASE \/ \E u \in Users, o \in Orgs, op \in UserOps : Admit(r, u, o, op)
             \/ \E k \in Keys, op \in PublicOps : AdmitKey(r, k, op)
             \/ \E t \in Templates, wanted \in 0 .. MaxVersions : FindTemplate(r, t, wanted)
             \/ \E j \in jobs : Clone(r, j)
             \/ FindVersion(r)
             \/ \E t \in Templates, publish \in BOOLEAN : Upload(r, t, publish)
             \/ \E t \in Templates : View(r, t)
             \/ LoadVersions(r) \/ Flush(r) \/ Delete(r) \/ End(r)
    BY <2>6 DEF Admit, AdmitKey, FindTemplate, Clone, FindVersion, Upload, View, LoadVersions,
                Flush, Delete, End
  <2> QED
    BY <2>1, <2>2, <2>5, <2>6
<1>5. audit \subseteq audit' /\ \A a \in audit' : a.action = "created" => a \in audit
  BY <1>3, <1>4
<1> QED
  BY <1>1, <1>2, <1>5 DEF JobsLeftAlone

\* A step leaves the jobs and their log alone, inserts a job or commits one.
LEMMA JobsStepKinds ==
    ASSUME TypeOK, [Next]_vars
    PROVE  \/ UNCHANGED vars
           \/ \E r \in Requests : JobsLeftAlone(r) \/ Insert(r) \/ CommitJob(r)
BY JobsLeftAloneStep DEF Next

\* Initially no job has an id.
LEMMA JobIdsInit == Init => JobIdsOK
BY IdleOK DEF Init, JobIdsOK, Idle

\* A job gets an id nobody has used, and is logged as created once.
LEMMA JobIdsNext == TypeOK /\ JobIdsOK /\ [Next]_vars => JobIdsOK'
<1> SUFFICES ASSUME TypeOK, JobIdsOK, [Next]_vars PROVE JobIdsOK'
  OBVIOUS
<1>n. /\ lastJob \in Nat /\ \A j \in jobs : j.id \in Nat
      /\ \A r \in Requests : req[r].job \in Nat
  BY DEF TypeOK, Jobs, Flights
<1>1. CASE UNCHANGED vars
  BY <1>1 DEF vars, JobIdsOK, FreshJob
<1>2. ASSUME NEW r \in Requests, JobsLeftAlone(r) PROVE JobIdsOK'
  <2>1. \A q \in Requests : req'[q].pc = "inserted" => req'[q] = req[q]
    BY <1>2 DEF JobsLeftAlone, Others
  <2> QED
    BY <1>2, <2>1 DEF JobsLeftAlone, JobIdsOK, FreshJob
<1>3. ASSUME NEW r \in Requests, Insert(r) PROVE JobIdsOK'
  <2>1. Others(r) /\ req'[r].pc = "inserted" /\ req'[r].job = lastJob + 1
    BY <1>3, InsertStep
  <2>2. lastJob' = lastJob + 1 /\ jobs' = jobs /\ audit' = audit
    BY <1>3 DEF Insert
  <2>3. ASSUME NEW q \in Requests \ {r}, req[q].pc = "inserted"
        PROVE  req[q].job <= lastJob /\ req'[q] = req[q]
    BY <2>1, <2>3 DEF Others, JobIdsOK, FreshJob
  <2>4. ASSUME NEW q \in Requests PROVE FreshJob(req[q])
    BY DEF JobIdsOK
  <2>5. ASSUME NEW q \in Requests, req'[q].pc = "inserted"
        PROVE  /\ req'[q].job <= lastJob'
               /\ \A j \in jobs : j.id # req'[q].job
               /\ \A a \in audit : a.action = "created" => a.entity # req'[q].job
    <3>1. CASE q = r
      BY <1>n, <2>1, <2>2, <3>1 DEF JobIdsOK
    <3>2. CASE q # r
      <4>1. req'[q] = req[q]
        BY <2>1, <3>2 DEF Others
      <4> QED
        BY <1>n, <2>2, <2>4, <2>5, <4>1 DEF FreshJob
    <3> QED
      BY <3>1, <3>2
  <2>6. \A p, q \in Requests :
           p # q /\ req'[p].pc = "inserted" /\ req'[q].pc = "inserted" => req'[p].job # req'[q].job
    BY <1>n, <2>1, <2>3 DEF JobIdsOK, Others
  <2>7. /\ \A j \in jobs : j.id <= lastJob + 1
        /\ \A a \in audit : a.action = "created" => a.entity \in Nat /\ a.entity <= lastJob + 1
    BY <1>n DEF JobIdsOK
  <2> QED
    BY <2>2, <2>5, <2>6, <2>7 DEF JobIdsOK, FreshJob
<1>4. ASSUME NEW r \in Requests, CommitJob(r) PROVE JobIdsOK'
  <2> DEFINE n == NewJob(r)
             e == Entry(r, "created", req[r].job)
  <2>1. n.id = req[r].job /\ e.entity = req[r].job /\ e.action = "created"
    BY DEF NewJob, Entry
  <2>2. lastJob' = lastJob /\ jobs' = jobs \cup {n} /\ audit' = audit \cup {e}
    BY <1>4 DEF CommitJob
  <2> HIDE DEF n, e
  <2>3. Others(r) /\ req[r].pc = "inserted" /\ req'[r].pc # "inserted"
    BY <1>4, CommitJobStep DEF Idle
  <2>4. FreshJob(req[r]) /\ req[r].job <= lastJob
    BY <2>3 DEF JobIdsOK, FreshJob
  <2>5. ASSUME NEW q \in Requests, req'[q].pc = "inserted"
        PROVE  req'[q] = req[q] /\ req[q].job # req[r].job /\ FreshJob(req[q])
    BY <2>3, <2>5 DEF Others, JobIdsOK
  <2>6. ASSUME NEW q \in Requests, req'[q].pc = "inserted"
        PROVE  /\ req'[q].job <= lastJob
               /\ \A j \in jobs' : j.id # req'[q].job
               /\ \A a \in audit' : a.action = "created" => a.entity # req'[q].job
    BY <2>1, <2>2, <2>5, <2>6 DEF FreshJob
  <2>7. /\ \A j \in jobs' : j.id <= lastJob
        /\ \A a \in audit' : a.action = "created" => a.entity \in Nat /\ a.entity <= lastJob
    BY <1>n, <2>1, <2>2, <2>4 DEF JobIdsOK
  <2>8. \A p, q \in Requests :
           p # q /\ req'[p].pc = "inserted" /\ req'[q].pc = "inserted" => req'[p].job # req'[q].job
    BY <2>5 DEF JobIdsOK
  <2> QED
    BY <2>2, <2>6, <2>7, <2>8 DEF JobIdsOK, FreshJob
<1> QED
  BY <1>1, <1>2, <1>3, <1>4, JobsStepKinds

\* Initially no job is being replayed.
LEMMA ReplaysInit == Init => ReplaysOK
BY IdleOK DEF Init, ReplaysOK

\* The creation of a replayed job is logged before the replay.
LEMMA ReplaysNext == TypeOK /\ ReplaysOK /\ [Next]_vars => ReplaysOK'
<1> SUFFICES ASSUME TypeOK, ReplaysOK, [Next]_vars PROVE ReplaysOK'
  OBVIOUS
<1> DEFINE Created(f) ==
             [action |-> "created", org |-> f.org, user |-> f.user, key |-> f.key, entity |-> f.job]
           Good(f) == f.pc = "cloned" => Created(f) \in audit'
<1>a. audit \subseteq audit'
  <2>1. CASE UNCHANGED vars
    BY <2>1 DEF vars
  <2> QED
    BY <2>1, JobsStepKinds DEF JobsLeftAlone, Insert, CommitJob
<1>s. ASSUME NEW q \in Requests PROVE Good(req[q])
  BY <1>a DEF ReplaysOK, ReplayOK
<1>i. Good(Idle)
  BY DEF Idle
<1>1. ASSUME NEW r \in Requests, CommitJob(r) PROVE Others(r) /\ Good(req'[r])
  <2>1. CASE req'[r] = Idle
    BY <1>1, <1>i, <2>1, CommitJobStep
  <2>2. CASE req'[r].pc = "cloned" /\ SameCaller(req[r], req'[r]) /\ req'[r].job = req[r].job
    <3>1. Created(req'[r]) = Entry(r, "created", req[r].job)
      BY <2>2 DEF SameCaller, Entry
    <3>2. Entry(r, "created", req[r].job) \in audit'
      BY <1>1 DEF CommitJob
    <3> QED
      BY <1>1, <3>1, <3>2, CommitJobStep
  <2> QED
    BY <1>1, <2>1, <2>2, CommitJobStep
<1> HIDE DEF Good
<1>2. ASSUME NEW r \in Requests, LoadVersions(r) \/ Flush(r) PROVE Others(r) /\ Good(req'[r])
  BY <1>2, <1>i, LoadVersionsStep, FlushStep DEF Good
<1>3. ASSUME NEW r \in Requests, FindVersion(r) \/ Insert(r) PROVE Others(r) /\ Good(req'[r])
  BY <1>3, FindVersionStep, InsertStep DEF Good
<1>4. ASSUME NEW r \in Requests,
             \/ \E u \in Users, o \in Orgs, op \in UserOps : Admit(r, u, o, op)
             \/ \E k \in Keys, op \in PublicOps : AdmitKey(r, k, op)
             \/ \E t \in Templates : View(r, t)
             \/ Done(r)
      PROVE  Others(r) /\ Good(req'[r])
  BY <1>4, <1>i, QuietStep DEF Good
<1>5. ASSUME NEW r \in Requests, NEW t \in Templates, NEW wanted \in 0 .. MaxVersions,
             FindTemplate(r, t, wanted)
      PROVE  Others(r) /\ Good(req'[r])
  BY <1>5, FindTemplateStep DEF Good
<1>6. ASSUME NEW r \in Requests, NEW j \in jobs, Clone(r, j) PROVE Others(r) /\ Good(req'[r])
  BY <1>6, CloneStep DEF Good
<1>7. CASE UNCHANGED vars
  BY <1>s, <1>7 DEF vars, Good, ReplaysOK, ReplayOK
<1>8. CASE Next
  <2>1. PICK r \in Requests : Others(r) /\ Good(req'[r])
    BY <1>8, <1>1, <1>2, <1>3, <1>4, <1>5, <1>6
       DEF Next, LogReplay, Upload, Delete, DisableUser, DisableKey, End
  <2>2. ASSUME NEW q \in Requests PROVE Good(req'[q])
    BY <2>1, <1>s DEF Others
  <2> QED
    BY <2>2 DEF Good, ReplaysOK, ReplayOK
<1> QED
  BY <1>7, <1>8

-----------------------------------------------------------------------------
(* The audit log *)

Created(j) ==
    [action |-> "created", org |-> j.org, user |-> j.user, key |-> j.key, entity |-> j.id]
CreationsLogged ==
    \A j \in jobs : {a \in audit : a.action = "created" /\ a.entity = j.id} = {Created(j)}
UserLogged(u) ==
    \E a \in audit : /\ a.action = "user_disabled" /\ a.entity = u /\ a.user # u
                     /\ RoleIn[a.user][a.org] \in Auditors
                     /\ RoleIn[u][a.org] # "none"
KeyLogged(k) ==
    \E a \in audit : /\ a.action = "key_disabled" /\ a.entity = k
                     /\ RoleIn[a.user][a.org] \in Auditors
                     /\ KeyOrg[k] = a.org
ReplaysLogged == \A a \in audit : a.action = "replayed" => [a EXCEPT !.action = "created"] \in audit

\* The parts of AuditComplete.
LEMMA AuditParts ==
    AuditComplete <=>
        /\ CreationsLogged /\ ReplaysLogged
        /\ \A u \in Users \ active : UserLogged(u)
        /\ \A k \in Keys \ enabled : KeyLogged(k)
BY DEF AuditComplete, CreationsLogged, Created, ReplaysLogged, UserLogged, KeyLogged

\* Initially there is nothing to log.
LEMMA AuditInit == Init => AuditComplete
BY DEF Init, AuditComplete

\* The log only grows.
LEMMA AuditGrows == ASSUME TypeOK, [Next]_vars PROVE audit \subseteq audit'
<1>1. CASE UNCHANGED vars
  BY <1>1 DEF vars
<1> QED
  BY <1>1, JobsStepKinds DEF JobsLeftAlone, Insert, CommitJob

\* Each job has one row that says who created it.
LEMMA CreationsNext ==
    ASSUME TypeOK, JobIdsOK, CreationsLogged, [Next]_vars PROVE CreationsLogged'
<1>1. CASE UNCHANGED vars
  BY <1>1 DEF vars, CreationsLogged
<1>2. ASSUME NEW r \in Requests, JobsLeftAlone(r) PROVE CreationsLogged'
  <2>1. /\ jobs' \subseteq jobs /\ audit \subseteq audit'
        /\ \A a \in audit' : a.action = "created" => a \in audit
    BY <1>2 DEF JobsLeftAlone
  <2>2. ASSUME NEW j \in jobs'
        PROVE  {a \in audit' : a.action = "created" /\ a.entity = j.id} = {Created(j)}
    <3>1. {a \in audit' : a.action = "created" /\ a.entity = j.id}
              = {a \in audit : a.action = "created" /\ a.entity = j.id}
      BY <2>1
    <3> QED
      BY <2>1, <3>1 DEF CreationsLogged
  <2> QED
    BY <2>2 DEF CreationsLogged
<1>3. ASSUME NEW r \in Requests, Insert(r) PROVE CreationsLogged'
  BY <1>3 DEF Insert, CreationsLogged
<1>4. ASSUME NEW r \in Requests, CommitJob(r) PROVE CreationsLogged'
  <2> DEFINE n == NewJob(r)
             e == Entry(r, "created", req[r].job)
  <2>1. e = Created(n) /\ n.id = req[r].job /\ e.entity = req[r].job /\ e.action = "created"
    BY DEF NewJob, Entry, Created
  <2>2. jobs' = jobs \cup {n} /\ audit' = audit \cup {e}
    BY <1>4 DEF CommitJob
  <2>3. FreshJob(req[r]) /\ req[r].pc = "inserted"
    BY <1>4 DEF CommitJob, JobIdsOK
  <2> HIDE DEF n, e
  <2>4. {a \in audit' : a.action = "created" /\ a.entity = n.id} = {Created(n)}
    BY <2>1, <2>2, <2>3 DEF FreshJob
  <2>5. ASSUME NEW j \in jobs
        PROVE  {a \in audit' : a.action = "created" /\ a.entity = j.id} = {Created(j)}
    <3>1. e.entity # j.id
      BY <2>1, <2>3 DEF FreshJob
    <3>2. {a \in audit' : a.action = "created" /\ a.entity = j.id}
              = {a \in audit : a.action = "created" /\ a.entity = j.id}
      BY <2>2, <3>1
    <3> QED
      BY <3>2 DEF CreationsLogged
  <2> QED
    BY <2>2, <2>4, <2>5 DEF CreationsLogged
<1> QED
  BY <1>1, <1>2, <1>3, <1>4, JobsStepKinds

\* A row of a step: what it may add to the log.
LEMMA AuditStep ==
    ASSUME [Next]_vars
    PROVE  \/ audit' = audit
           \/ \E r \in Requests : CommitJob(r) \/ LogReplay(r)
           \/ \E r \in Requests, u \in Users : DisableUser(r, u)
           \/ \E r \in Requests, k \in Keys : DisableKey(r, k)
<1>1. CASE UNCHANGED vars
  BY <1>1 DEF vars
<1>2. ASSUME NEW r \in Requests,
             \/ \E u \in Users, o \in Orgs, op \in UserOps : Admit(r, u, o, op)
             \/ \E k \in Keys, op \in PublicOps : AdmitKey(r, k, op)
             \/ \E t \in Templates, wanted \in 0 .. MaxVersions : FindTemplate(r, t, wanted)
             \/ \E j \in jobs : Clone(r, j)
             \/ FindVersion(r) \/ Insert(r)
             \/ \E t \in Templates, publish \in BOOLEAN : Upload(r, t, publish)
             \/ \E t \in Templates : View(r, t)
             \/ LoadVersions(r) \/ Flush(r) \/ Delete(r) \/ End(r)
      PROVE  audit' = audit
  BY <1>2 DEF Admit, AdmitKey, FindTemplate, Clone, FindVersion, Insert, Upload, View,
              LoadVersions, Flush, Delete, End
<1> QED
  BY <1>1, <1>2 DEF Next

\* A replay is logged only for a job whose creation is.
LEMMA ReplaysLoggedNext ==
    ASSUME TypeOK, ReplaysOK, ReplaysLogged, [Next]_vars PROVE ReplaysLogged'
<1>1. ASSUME NEW a \in audit, a.action = "replayed"
      PROVE  [a EXCEPT !.action = "created"] \in audit'
  BY <1>1, AuditGrows DEF ReplaysLogged
<1>2. ASSUME NEW r \in Requests, LogReplay(r) PROVE ReplaysLogged'
  <2> DEFINE e == Entry(r, "replayed", req[r].job)
  <2>1. [e EXCEPT !.action = "created"] = Entry(r, "created", req[r].job)
    BY DEF Entry
  <2>2. Entry(r, "created", req[r].job) \in audit
    BY <1>2 DEF LogReplay, ReplaysOK, ReplayOK, Entry
  <2>3. audit' = audit \cup {e}
    BY <1>2 DEF LogReplay
  <2> HIDE DEF e
  <2> QED
    BY <1>1, <2>1, <2>2, <2>3 DEF ReplaysLogged
<1>3. ASSUME NEW e, e.action # "replayed", audit' = audit \cup {e} PROVE ReplaysLogged'
  BY <1>1, <1>3 DEF ReplaysLogged
<1>4. ASSUME NEW r \in Requests, CommitJob(r) PROVE ReplaysLogged'
  BY <1>3, <1>4 DEF CommitJob, Entry
<1>5. ASSUME NEW r \in Requests, NEW u \in Users, DisableUser(r, u) PROVE ReplaysLogged'
  BY <1>3, <1>5 DEF DisableUser, Entry
<1>6. ASSUME NEW r \in Requests, NEW k \in Keys, DisableKey(r, k) PROVE ReplaysLogged'
  BY <1>3, <1>6 DEF DisableKey, Entry
<1> QED
  BY <1>1, <1>2, <1>4, <1>5, <1>6, AuditStep DEF ReplaysLogged

\* Only administrators of the organization of a request put anything out of service.
LEMMA SupportCaller ==
    ASSUME CallersOK, NEW r \in Requests,
           At(r, "admitted", "disable_user") \/ At(r, "admitted", "disable_key")
    PROVE  req[r].key = Nobody /\ RoleIn[req[r].user][req[r].org] \in Auditors
<1>1. CallerOK(req[r]) /\ req[r].pc = "admitted" /\ req[r].op \in {"disable_user", "disable_key"}
  BY DEF At, CallersOK
<1>2. Allowed("disable_user") = Auditors /\ Allowed("disable_key") = Auditors
  BY DEF Allowed, DocumentRoutes, TemplateRoutes, AdminRoutes
<1>3. req[r].op \notin PublicOps
  BY <1>1 DEF PublicOps
<1> QED
  BY <1>1, <1>2, <1>3 DEF CallerOK

\* Who is put out of service is logged.
LEMMA SupportNext ==
    ASSUME TypeOK, CallersOK, [Next]_vars,
           \A u \in Users \ active : UserLogged(u), \A k \in Keys \ enabled : KeyLogged(k)
    PROVE  /\ \A u \in Users \ active' : UserLogged(u)'
           /\ \A k \in Keys \ enabled' : KeyLogged(k)'
<1>1. \A u \in Users \ active : UserLogged(u)'
  BY AuditGrows DEF UserLogged
<1>2. \A k \in Keys \ enabled : KeyLogged(k)'
  BY AuditGrows DEF KeyLogged
<1>3. ASSUME NEW r \in Requests, NEW u \in Users, DisableUser(r, u) PROVE UserLogged(u)'
  <2> DEFINE e == Entry(r, "user_disabled", u)
  <2>1. /\ e.action = "user_disabled" /\ e.entity = u
        /\ e.user = req[r].user /\ e.org = req[r].org
    BY DEF Entry
  <2>2. e \in audit'
    BY <1>3 DEF DisableUser
  <2> HIDE DEF e
  <2>3. RoleIn[req[r].user][req[r].org] \in Auditors
    BY <1>3, SupportCaller DEF DisableUser
  <2>4. u # req[r].user /\ RoleIn[u][req[r].org] # "none"
    BY <1>3 DEF DisableUser
  <2> QED
    BY <2>1, <2>2, <2>3, <2>4 DEF UserLogged
<1>4. ASSUME NEW r \in Requests, NEW k \in Keys, DisableKey(r, k) PROVE KeyLogged(k)'
  <2> DEFINE e == Entry(r, "key_disabled", k)
  <2>1. /\ e.action = "key_disabled" /\ e.entity = k
        /\ e.user = req[r].user /\ e.org = req[r].org
    BY DEF Entry
  <2>2. e \in audit'
    BY <1>4 DEF DisableKey
  <2> HIDE DEF e
  <2>3. RoleIn[req[r].user][req[r].org] \in Auditors
    BY <1>4, SupportCaller DEF DisableKey
  <2>4. KeyOrg[k] = req[r].org
    BY <1>4 DEF DisableKey
  <2> QED
    BY <2>1, <2>2, <2>3, <2>4 DEF KeyLogged
<1>5. \/ active' = active /\ enabled' = enabled
      \/ \E r \in Requests, u \in Users :
             DisableUser(r, u) /\ active' = active \ {u} /\ enabled' = enabled
      \/ \E r \in Requests, k \in Keys :
             DisableKey(r, k) /\ enabled' = enabled \ {k} /\ active' = active
  <2>1. CASE UNCHANGED vars
    BY <2>1 DEF vars
  <2>2. ASSUME NEW r \in Requests, NEW u \in Users, DisableUser(r, u)
        PROVE  active' = active \ {u} /\ enabled' = enabled
    BY <2>2 DEF DisableUser
  <2>3. ASSUME NEW r \in Requests, NEW k \in Keys, DisableKey(r, k)
        PROVE  enabled' = enabled \ {k} /\ active' = active
    BY <2>3 DEF DisableKey
  <2>4. ASSUME NEW r \in Requests,
               \/ \E u \in Users, o \in Orgs, op \in UserOps : Admit(r, u, o, op)
               \/ \E k \in Keys, op \in PublicOps : AdmitKey(r, k, op)
               \/ \E t \in Templates, wanted \in 0 .. MaxVersions : FindTemplate(r, t, wanted)
               \/ \E j \in jobs : Clone(r, j)
               \/ FindVersion(r) \/ Insert(r) \/ CommitJob(r) \/ LogReplay(r)
               \/ \E t \in Templates, publish \in BOOLEAN : Upload(r, t, publish)
               \/ \E t \in Templates : View(r, t)
               \/ LoadVersions(r) \/ Flush(r) \/ Delete(r) \/ End(r)
        PROVE  active' = active /\ enabled' = enabled
    BY <2>4 DEF Admit, AdmitKey, FindTemplate, Clone, FindVersion, Insert, CommitJob, LogReplay,
                Upload, View, LoadVersions, Flush, Delete, End
  <2> QED
    BY <2>1, <2>2, <2>3, <2>4 DEF Next
<1> QED
  BY <1>1, <1>2, <1>3, <1>4, <1>5

\* Every step keeps the log complete.
LEMMA AuditNext ==
    TypeOK /\ CallersOK /\ JobIdsOK /\ ReplaysOK /\ AuditComplete /\ [Next]_vars => AuditComplete'
<1> SUFFICES ASSUME TypeOK, CallersOK, JobIdsOK, ReplaysOK, AuditComplete, [Next]_vars
             PROVE  AuditComplete'
  OBVIOUS
<1>1. CreationsLogged' /\ ReplaysLogged'
  BY AuditParts, CreationsNext, ReplaysLoggedNext
<1>2. /\ \A u \in Users \ active' : UserLogged(u)'
      /\ \A k \in Keys \ enabled' : KeyLogged(k)'
  BY AuditParts, SupportNext
<1> QED
  BY <1>1, <1>2 DEF AuditComplete, CreationsLogged, Created, ReplaysLogged, UserLogged, KeyLogged

-----------------------------------------------------------------------------
(* Theorems *)

\* The inductive invariant holds in every reachable state.
THEOREM TenantInvCorrect == Spec => []Inv
<1>1. Init => Inv
  BY TypeInit, CallersInit, TargetsInit, ResolvedInit, HiddenInit, ReplaysInit, VersionIdsInit,
     JobIdsInit, JobsInit, AuditInit DEF Inv
<1>2. Inv /\ [Next]_vars => Inv'
  BY TypeNext, CallersNext, TargetsNext, ResolvedNext, HiddenNext, ReplaysNext, VersionIdsNext,
     JobIdsNext, JobsNext, AuditNext DEF Inv
<1> QED
  BY <1>1, <1>2, PTL DEF Spec

\* The state keeps its shape in every behaviour.
THEOREM TenantTypeCorrect == Spec => []TypeOK
<1>1. Inv => TypeOK
  BY DEF Inv
<1> QED
  BY <1>1, TenantInvCorrect, PTL

\* Jobs stay inside their tenant, on versions their author may use: what an API key asks
\* for is published although template and version are read by two statements.
THEOREM JobsAuthorizedCorrect == Spec => []JobsAreAuthorized
<1>1. Inv => JobsAreAuthorized
  BY DEF Inv
<1> QED
  BY <1>1, TenantInvCorrect, PTL

\* Every job, and every account or key that is out of service, has its audit row (create_job,
\* disable_user, disable_api_key); other changes are not logged, a replay not always.
THEOREM AuditCorrect == Spec => []AuditComplete
<1>1. Inv => AuditComplete
  BY DEF Inv
<1> QED
  BY <1>1, TenantInvCorrect, PTL

\* Public reads, which delete what they hide, lose nothing that is published.
THEOREM PublishedIsKeptCorrect == Spec => PublishedIsKept
<1> DEFINE Kept == \A v \in versions : v.published =>
                     /\ \E w \in versions' : w.id = v.id /\ w.template = v.template /\ w.published
                     /\ {j \in jobs : j.version = v.id} \subseteq jobs'
<1>1. Inv /\ [Next]_vars => [Kept]_vars
  <2> SUFFICES ASSUME Inv, Next, NEW v \in versions, v.published
               PROVE  /\ \E w \in versions' : /\ w.id = v.id /\ w.template = v.template
                                              /\ w.published
                      /\ {j \in jobs : j.version = v.id} \subseteq jobs'
    OBVIOUS
  <2>t. TypeOK /\ HiddenOK
    BY DEF Inv
  <2>1. ASSUME NEW r \in Requests, Delete(r)
        PROVE  v \in versions' /\ {j \in jobs : j.version = v.id} \subseteq jobs'
    <3>1. req[r].pc = "deleting"
      BY <2>1 DEF Delete
    <3>2. v.id \notin req[r].drafts
      BY <2>t, <3>1 DEF HiddenOK, DraftsOK
    <3> QED
      BY <2>1, <3>2 DEF Delete
  <2>2. ASSUME NEW r \in Requests, NEW t \in Templates, NEW publish \in BOOLEAN,
               Upload(r, t, publish)
        PROVE  /\ \E w \in versions' : SameButCurrent(v, w)
               /\ jobs' = jobs
    BY <2>t, <2>2, UploadEffect DEF Upload
  <2>3. ASSUME NEW r \in Requests, CommitJob(r) PROVE jobs \subseteq jobs' /\ versions' = versions
    BY <2>3 DEF CommitJob
  <2>4. \/ versions' = versions
        \/ \E w \in versions' : w.id = v.id /\ w.template = v.template /\ w.published
    BY <2>1, <2>2, VersionsStep DEF SameButCurrent
  <2>5. {j \in jobs : j.version = v.id} \subseteq jobs'
    BY <2>1, <2>3, JobsStep
  <2> QED
    BY <2>4, <2>5
<1> QED
  BY <1>1, TenantInvCorrect, PTL DEF Spec, PublishedIsKept

=============================================================================
