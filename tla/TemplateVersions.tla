-------------------------- MODULE TemplateVersions --------------------------
(***************************************************************************)
(* The versions of one template: concurrent uploads and registrations, at  *)
(* READ COMMITTED, of DOCX files that live in an object store.  An upload  *)
(* puts its object under a key made of version and file name, clears the   *)
(* current flag of the versions it sees, inserts its own as the current    *)
(* one, and deletes the object when its transaction fails.                 *)
(***************************************************************************)
EXTENDS Integers, FiniteSets

CONSTANTS Users,        \* concurrent requests
          Versions,     \* version names
          Files,        \* file names
          MayUse,       \* MayUse[u]: the version names u asks for
          Stored,       \* keys that hold an object from the start
          Registering,  \* the users that register stored objects
          MaxRequests,  \* bound: requests
          MaxFailures,  \* bound: requests that fail for reasons not modelled
          MaxCrashes    \* bound: processes that die, deletions that fail

Keys == Versions \X Files

ASSUME MayUseAssumption == MayUse \in [Users -> SUBSET Versions]
ASSUME StoredAssumption == Stored \subseteq Keys /\ Registering \subseteq Users
ASSUME NamesAssumption == Versions # {} /\ Files # {}
ASSUME BoundsAssumption ==
  MaxRequests \in Nat /\ MaxFailures \in Nat /\ MaxCrashes \in Nat

\* Contents carry the number of the request that brought them.
NoObject == 0
Foreign == MaxRequests + 1
Contents == 1..Foreign

VARIABLES
  template,  \* there is a row in templates
  rows,      \* template_versions
  objects,   \* the object store
  tx,        \* the requests
  requests, failures, crashes,   \* so far
  latest,    \* history: the version committed last, {} before the first
  litter     \* history: keys where a dead process may have left an object

vars == <<template, rows, objects, tx, requests, failures, crashes, latest, litter>>
storeVars == <<template, rows, latest>>
boundVars == <<requests, failures, crashes, litter>>

Rows == [version : Versions, key : Keys, content : Contents, current : BOOLEAN]
Phases == {"idle", "resolving", "creating", "checking", "uploading", "stored", "clearing",
           "inserting", "committing", "undoing"}

\* A request: what it wants (version, key, content), and what its transaction
\* holds: the template row, the object it put, the versions its UPDATE saw and
\* the ones it cleared, its new row.
Transactions ==
  [phase : Phases, version : Versions, key : Keys, content : Contents,
   created : BOOLEAN, put : BOOLEAN, seen : SUBSET Versions, cleared : SUBSET Versions,
   inserted : BOOLEAN]

Closed == [phase |-> "idle", version |-> CHOOSE v \in Versions : TRUE,
           key |-> CHOOSE k \in Keys : TRUE, content |-> Foreign,
           created |-> FALSE, put |-> FALSE, seen |-> {}, cleared |-> {}, inserted |-> FALSE]

Named(set) == {r.version : r \in set}

Init ==
  /\ template = FALSE
  /\ rows = {}
  /\ objects = [k \in Keys |-> IF k \in Stored THEN Foreign ELSE NoObject]
  /\ tx = [u \in Users |-> Closed]
  /\ requests = 0 /\ failures = 0 /\ crashes = 0
  /\ latest = {}
  /\ litter = {}

TypeOK ==
  /\ template \in BOOLEAN
  /\ rows \subseteq Rows
  /\ objects \in [Keys -> Contents \cup {NoObject}]
  /\ tx \in [Users -> Transactions]
  /\ requests \in 0..MaxRequests /\ failures \in 0..MaxFailures /\ crashes \in 0..MaxCrashes
  /\ latest \in SUBSET Versions
  /\ litter \subseteq Keys

-----------------------------------------------------------------------------
(* The requests *)

Phase(u) == tx[u].phase
Others(u) == Users \ {u}
Become(u, phase) == tx' = [tx EXCEPT ![u].phase = phase]

\* Mutant of Abort: the object stays.
AbortOnly(u) == tx' = [tx EXCEPT ![u] = Closed]

\* An exception: the transaction is rolled back; an object that was put is
\* deleted next.
Abort(u) ==
  tx' = [tx EXCEPT ![u] = IF tx[u].put
                          THEN [Closed EXCEPT !.phase = "undoing", !.key = tx[u].key]
                          ELSE Closed]

\* upload_template: the storage key follows from version and file name.
Upload(u, v, f) ==
  /\ Phase(u) = "idle"
  /\ requests < MaxRequests
  /\ u \notin Registering
  /\ v \in MayUse[u]
  /\ requests' = requests + 1
  /\ tx' = [tx EXCEPT ![u] = [Closed EXCEPT !.phase = "resolving", !.version = v,
                                            !.key = <<v, f>>, !.content = requests + 1]]
  /\ UNCHANGED <<storeVars, objects, failures, crashes, litter>>

\* Mutant of Register: a missing object is registered as an empty one.
RegisterMissing(u, v, k) ==
  /\ Phase(u) = "idle"
  /\ requests < MaxRequests
  /\ u \in Registering
  /\ v \in MayUse[u]
  /\ requests' = requests + 1
  /\ tx' = [tx EXCEPT ![u] = [Closed EXCEPT !.phase = "resolving", !.version = v,
                                            !.key = k, !.content = objects[k]]]
  /\ UNCHANGED <<storeVars, objects, failures, crashes, litter>>

\* register_template: the object is read, its key is the client's.
Register(u, v, k) ==
  /\ Phase(u) = "idle"
  /\ requests < MaxRequests
  /\ u \in Registering
  /\ v \in MayUse[u]
  /\ objects[k] # NoObject
  /\ requests' = requests + 1
  /\ tx' = [tx EXCEPT ![u] = [Closed EXCEPT !.phase = "resolving", !.version = v,
                                            !.key = k, !.content = objects[k]]]
  /\ UNCHANGED <<storeVars, objects, failures, crashes, litter>>

\* _get_or_create_template.  A new name or description of the template would be
\* written with the version and only make other requests wait there.
Resolve(u) ==
  /\ Phase(u) = "resolving"
  /\ Become(u, IF template THEN "checking" ELSE "creating")
  /\ UNCHANGED <<storeVars, objects, boundVars>>

\* The insert of the template waits for another one (uq_templates_org_code).
CreateTemplate(u) ==
  /\ Phase(u) = "creating"
  /\ \A w \in Others(u) : ~tx[w].created
  /\ IF template THEN Abort(u)
     ELSE tx' = [tx EXCEPT ![u].phase = "checking", ![u].created = TRUE]
  /\ UNCHANGED <<storeVars, objects, boundVars>>

\* Mutant of Check: versions that exist are not looked for.
CheckNothing(u) ==
  /\ Phase(u) = "checking"
  /\ Become(u, IF u \in Registering THEN "stored" ELSE "uploading")
  /\ UNCHANGED <<storeVars, objects, boundVars>>

\* A version that exists is refused.
Check(u) ==
  /\ Phase(u) = "checking"
  /\ IF tx[u].version \in Named(rows) THEN Abort(u)
     ELSE Become(u, IF u \in Registering THEN "stored" ELSE "uploading")
  /\ UNCHANGED <<storeVars, objects, boundVars>>

\* The object is written, whatever was under its key.
Put(u) ==
  /\ Phase(u) = "uploading"
  /\ objects' = [objects EXCEPT ![tx[u].key] = tx[u].content]
  /\ tx' = [tx EXCEPT ![u].phase = "stored", ![u].put = TRUE]
  /\ UNCHANGED <<storeVars, boundVars>>

\* unset_current_versions: the UPDATE sees the versions committed when it
\* starts ...
StartClear(u) ==
  /\ Phase(u) = "stored"
  /\ tx' = [tx EXCEPT ![u].phase = "clearing", ![u].seen = Named(rows)]
  /\ UNCHANGED <<storeVars, objects, boundVars>>

\* ... and waits until nobody else holds one of them.
Clear(u) ==
  /\ Phase(u) = "clearing"
  /\ \A w \in Others(u) : tx[w].cleared \cap tx[u].seen = {}
  /\ tx' = [tx EXCEPT ![u].phase = "inserting", ![u].cleared = tx[u].seen]
  /\ UNCHANGED <<storeVars, objects, boundVars>>

\* The insert of the version waits for another one of the same name
\* (uq_template_versions_template_version).
Insert(u) ==
  /\ Phase(u) = "inserting"
  /\ \A w \in Others(u) : ~(tx[w].inserted /\ tx[w].version = tx[u].version)
  /\ IF tx[u].version \in Named(rows) THEN Abort(u)
     ELSE tx' = [tx EXCEPT ![u].phase = "committing", ![u].inserted = TRUE]
  /\ UNCHANGED <<storeVars, objects, boundVars>>

NewRow(u) == [version |-> tx[u].version, key |-> tx[u].key, content |-> tx[u].content,
              current |-> TRUE]

\* Mutant of Commit: the flags are cleared after the insert.
CommitClearsLast(u) ==
  /\ Phase(u) = "committing"
  /\ template' = TRUE
  /\ rows' = {[r EXCEPT !.current = FALSE] : r \in rows \cup {NewRow(u)}}
  /\ latest' = {tx[u].version}
  /\ tx' = [tx EXCEPT ![u] = Closed]
  /\ UNCHANGED <<objects, boundVars>>

Commit(u) ==
  /\ Phase(u) = "committing"
  /\ template' = TRUE
  /\ rows' = {[r EXCEPT !.current = @ /\ r.version \notin tx[u].cleared] : r \in rows}
               \cup {NewRow(u)}
  /\ latest' = {tx[u].version}
  /\ tx' = [tx EXCEPT ![u] = Closed]
  /\ UNCHANGED <<objects, boundVars>>

\* Quota, usage meter or commit fail.
Fail(u) ==
  /\ Phase(u) \notin {"idle", "undoing"}
  /\ failures < MaxFailures
  /\ failures' = failures + 1
  /\ Abort(u)
  /\ UNCHANGED <<storeVars, objects, requests, crashes, litter>>

\* The handler deletes the object of a failed upload.
Undo(u) ==
  /\ Phase(u) = "undoing"
  /\ objects' = [objects EXCEPT ![tx[u].key] = NoObject]
  /\ tx' = [tx EXCEPT ![u] = Closed]
  /\ UNCHANGED <<storeVars, boundVars>>

\* The process dies, or the deletion fails.
Crash(u) ==
  /\ Phase(u) # "idle"
  /\ crashes < MaxCrashes
  /\ crashes' = crashes + 1
  /\ litter' = litter \cup IF tx[u].put \/ Phase(u) = "undoing" THEN {tx[u].key} ELSE {}
  /\ tx' = [tx EXCEPT ![u] = Closed]
  /\ UNCHANGED <<storeVars, objects, requests, failures>>

-----------------------------------------------------------------------------
Next ==
  \E u \in Users :
    \/ \E v \in Versions, f \in Files : Upload(u, v, f)
    \/ \E v \in Versions, k \in Keys : Register(u, v, k)
    \/ Resolve(u) \/ CreateTemplate(u) \/ Check(u) \/ Put(u) \/ StartClear(u) \/ Clear(u)
    \/ Insert(u) \/ Commit(u) \/ Fail(u) \/ Undo(u) \/ Crash(u)

Spec == Init /\ [][Next]_vars

-----------------------------------------------------------------------------
(* Properties *)

\* A version name is used once (upload_template, register_template).
OneRowPerVersion == \A r, s \in rows : r.version = s.version => r = s

\* However uploads overlap, the version committed last is current, so that a
\* template with versions always has one to generate from
\* (unset_current_versions and the insert that follows it).
LatestIsCurrent ==
  /\ rows # {} => latest # {}
  /\ \A r \in rows : r.version \in latest => r.current

\* A failed upload leaves no object behind, unless the process died.
NoLitter ==
  \A k \in Keys :
    objects[k] \in 1..MaxRequests =>
      \/ \E r \in rows : r.key = k
      \/ \E u \in Users : tx[u].key = k /\ (tx[u].put \/ Phase(u) = "undoing")
      \/ k \in litter

\* Only one user asks for version v, and uploads it.
Owned(v) ==
  \A u \in Users : v \in MayUse[u] =>
    u \notin Registering /\ \A w \in Others(u) : v \notin MayUse[w]

\* The file of a version is the one it was made from, whatever happens to other
\* uploads, as long as nobody else asks for the same version name.
SourcesIntact == \A r \in rows : Owned(r.version) => objects[r.key] = r.content

=============================================================================
