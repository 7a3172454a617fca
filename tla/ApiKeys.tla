-------------------------------- MODULE ApiKeys --------------------------------
(***************************************************************************)
(* API keys of one organization: operators create, rotate, revoke and      *)
(* disable them while requests authenticate with their secrets, raise the  *)
(* rate counters and log their use.  A change loads the row without a lock *)
(* and writes, when it commits, the columns in which the row it wants      *)
(* differs from the row it loaded; columns it does not write keep what     *)
(* others have committed.                                                  *)
(***************************************************************************)
EXTENDS Integers, FiniteSets

CONSTANTS Keys,
          Organization,  \* the one the keys belong to
          Changing,      \* the keys operators work on after their creation
          Operators,     \* changes that may run at the same time
          Requests,      \* requests; each is made once
          Limit,         \* Limit[c]: the setting of counter c; 0 switches it off
          MinutesPerDay,
          MaxChanges,    \* bound: changes
          MaxMinutes     \* bound: the clock

Counters == {"minuteKey", "minuteOrg", "dayKey", "dayOrg"}

ASSUME LimitAssumption == Limit \in [Counters -> Nat]
ASSUME KeysAssumption == Changing \subseteq Keys /\ Keys # {} /\ Organization \notin Keys
ASSUME RequestsAssumption == IsFiniteSet(Requests)
ASSUME BoundsAssumption ==
  MinutesPerDay \in Nat \ {0} /\ MaxChanges \in Nat /\ MaxMinutes \in Nat

VARIABLES
  row,      \* row[k]: the row of k in api_keys as committed
  change,   \* the changes that have loaded their row
  request,  \* the requests
  count,    \* count[c][b][s]: counter c of Redis in bucket b for the key or organization s
  minute,   \* the clock
  issued,   \* secrets handed out
  changes,  \* changes so far
  dead,     \* history: secrets that were replaced, revoked or disabled
  drawn     \* history: drawn[c][b][k]: how often requests of k have raised counter c

vars == <<row, change, request, count, minute, issued, changes, dead, drawn>>

\* Secrets are numbered as they are handed out, 0 is none.
Secrets == Nat
Statuses == {"active", "revoked", "disabled"}
Rows == [secret : Secrets, status : Statuses, revoked : BOOLEAN]
NoRow == [secret |-> 0, status |-> "active", revoked |-> FALSE]
Changes == {"rotate", "revoke", "disable"}
Closed == [op |-> "none", key |-> CHOOSE k \in Keys : TRUE, seen |-> NoRow]
Minutes == 0..MaxMinutes

\* A request: the key it belongs to, the minute its counters are for, how many
\* of the four it has raised.
Waiting == [phase |-> "new", key |-> CHOOSE k \in Keys : TRUE, at |-> 0, step |-> 0,
            served |-> FALSE, seen |-> NoRow]

Init ==
  /\ row = [k \in Keys |-> NoRow]
  /\ change = [o \in Operators |-> Closed]
  /\ request = [r \in Requests |-> Waiting]
  /\ count = [c \in Counters |-> [b \in Minutes |-> [s \in Keys \cup {Organization} |-> 0]]]
  /\ minute = 0 /\ issued = 0 /\ changes = 0
  /\ dead = {}
  /\ drawn = [c \in Counters |-> [b \in Minutes |-> [k \in Keys |-> 0]]]

TypeOK ==
  /\ row \in [Keys -> Rows]
  /\ change \in [Operators -> [op : Changes \cup {"none"}, key : Keys, seen : Rows]]
  /\ request \in [Requests ->
       [phase : {"new", "counting", "served", "refused", "logging", "done"}, key : Keys,
        at : Minutes, step : 0..4, served : BOOLEAN, seen : Rows]]
  /\ count \in [Counters -> [Minutes -> [Keys \cup {Organization} -> Nat]]]
  /\ minute \in Minutes /\ issued \in Secrets /\ changes \in 0..MaxChanges
  /\ dead \subseteq Secrets
  /\ drawn \in [Counters -> [Minutes -> [Keys -> Nat]]]

-----------------------------------------------------------------------------
(* Rows *)

HasRow(k) == row[k].secret # 0
Accepts(k) == HasRow(k) /\ row[k].status = "active" /\ ~row[k].revoked

\* What a change makes of the row it has loaded, ...
Wanted(op, seen) ==
  CASE op = "rotate" -> [secret |-> issued + 1, status |-> "active", revoked |-> FALSE]
    [] op = "revoke" -> [seen EXCEPT !.status = "revoked", !.revoked = TRUE]
    [] op = "disable" -> [seen EXCEPT !.status = "disabled", !.revoked = FALSE]
    [] op = "touch" -> seen

\* Mutant of Written: every column is written.
WrittenAll(op, seen) == DOMAIN seen

\* ... and the columns it writes: those that differ (the secret of a rotation
\* and the time of a revocation are always new).
Written(op, seen) ==
  {c \in DOMAIN seen : \/ Wanted(op, seen)[c] # seen[c]
                       \/ op = "revoke" /\ c = "revoked"}

Overwritten(current, op, seen) ==
  [c \in DOMAIN current |->
     IF c \in Written(op, seen) THEN Wanted(op, seen)[c] ELSE current[c]]

-----------------------------------------------------------------------------
(* Operators: ApiKeyService *)

Create(k) ==
  /\ ~HasRow(k)
  /\ issued' = issued + 1
  /\ row' = [row EXCEPT ![k] = [NoRow EXCEPT !.secret = issued + 1]]
  /\ UNCHANGED <<change, request, count, minute, changes, dead, drawn>>

\* get_by_id
Load(o, op, k) ==
  /\ change[o].op = "none"
  /\ k \in Changing /\ HasRow(k)
  /\ changes < MaxChanges
  /\ changes' = changes + 1
  /\ change' = [change EXCEPT ![o] = [op |-> op, key |-> k, seen |-> row[k]]]
  /\ UNCHANGED <<row, request, count, minute, issued, dead, drawn>>

\* What a committed change puts out of use: the secret it replaces, or the one it
\* was meant for if that is still there.
Ended(o) ==
  {row[change[o].key].secret} \cap
    (IF change[o].op = "rotate" THEN Secrets ELSE {change[o].seen.secret})

\* rotate, revoke, set_status: the columns are flushed and committed.
Commit(o) ==
  /\ change[o].op # "none"
  /\ LET k == change[o].key
     IN row' = [row EXCEPT ![k] = Overwritten(@, change[o].op, change[o].seen)]
  /\ issued' = IF change[o].op = "rotate" THEN issued + 1 ELSE issued
  /\ dead' = dead \cup Ended(o)
  /\ change' = [change EXCEPT ![o] = Closed]
  /\ UNCHANGED <<request, count, minute, changes, drawn>>

Fail(o) ==
  /\ change[o].op # "none"
  /\ change' = [change EXCEPT ![o] = Closed]
  /\ UNCHANGED <<row, request, count, minute, issued, changes, dead, drawn>>

-----------------------------------------------------------------------------
(* Requests: require_api_key_scope and ApiKeyUsageMiddleware *)

\* resolve_api_key_principal; a key without the scope is turned away at once.
\* All buckets are those of the moment the counting starts.
Resolve(r, k) ==
  /\ request[r].phase = "new"
  /\ Accepts(k)
  /\ \E phase \in {"counting", "refused"} :
       request' = [request EXCEPT ![r] = [@ EXCEPT !.phase = phase, !.key = k, !.at = minute]]
  /\ UNCHANGED <<row, change, count, minute, issued, changes, dead, drawn>>

Bucket(c, at) == IF c \in {"minuteKey", "minuteOrg"} THEN at ELSE at \div MinutesPerDay
PerKey(c) == c \in {"minuteKey", "dayKey"}

\* Whose counter it is.
Scope(c, k) == IF PerKey(c) THEN k ELSE Organization

\* Mutant of Order: the counters of the organization come first.
OrganizationFirst == <<"minuteOrg", "minuteKey", "dayOrg", "dayKey">>

Order == <<"minuteKey", "minuteOrg", "dayKey", "dayOrg">>

\* Mutant of Exceeds: the request that exceeds the limit is let through.
ExceedsLate(c, value) == value > Limit[c] + 1

Exceeds(c, value) == value > Limit[c]

\* One INCR, which is atomic.
Raise(r) ==
  LET c == Order[request[r].step + 1]
      b == Bucket(c, request[r].at)
      k == request[r].key
  IN /\ count' = [count EXCEPT ![c][b][Scope(c, k)] = @ + 1]
     /\ drawn' = [drawn EXCEPT ![c][b][k] = @ + 1]

\* _increment_and_check: INCR returns the value after the increment, and has
\* counted a request that is refused for it, too.
Increment(r) ==
  /\ request[r].phase = "counting"
  /\ request[r].step < 4
  /\ LET c == Order[request[r].step + 1]
         value == count[c][Bucket(c, request[r].at)][Scope(c, request[r].key)] + 1
     IN IF Limit[c] = 0
        THEN /\ request' = [request EXCEPT ![r].step = @ + 1]
             /\ UNCHANGED <<count, drawn>>
        ELSE /\ Raise(r)
             /\ request' = [request EXCEPT ![r].step = @ + 1,
                              ![r].phase = IF Exceeds(c, value) THEN "refused" ELSE "counting"]
  /\ UNCHANGED <<row, change, minute, issued, changes, dead>>

\* Redis fails, before the INCR or after it: the request fails.
RedisFails(r) ==
  /\ request[r].phase = "counting"
  /\ request[r].step < 4
  /\ Limit[Order[request[r].step + 1]] # 0
  /\ Raise(r) \/ UNCHANGED <<count, drawn>>
  /\ request' = [request EXCEPT ![r].phase = "refused"]
  /\ UNCHANGED <<row, change, minute, issued, changes, dead>>

Serve(r) ==
  /\ request[r].phase = "counting" /\ request[r].step = 4
  /\ request' = [request EXCEPT ![r].phase = "served", ![r].served = TRUE]
  /\ UNCHANGED <<row, change, count, minute, issued, changes, dead, drawn>>

\* log_usage loads the key, also for a refused request, ...
LogUsage(r) ==
  /\ request[r].phase \in {"served", "refused"}
  /\ request' = [request EXCEPT ![r].phase = "logging", ![r].seen = row[request[r].key]]
  /\ UNCHANGED <<row, change, count, minute, issued, changes, dead, drawn>>

\* ... and writes the time it was last used.
Touch(r) ==
  /\ request[r].phase = "logging"
  /\ row' = [row EXCEPT ![request[r].key] = Overwritten(@, "touch", request[r].seen)]
  /\ request' = [request EXCEPT ![r].phase = "done", ![r].seen = NoRow]
  /\ UNCHANGED <<change, count, minute, issued, changes, dead, drawn>>

Tick ==
  /\ minute < MaxMinutes
  /\ minute' = minute + 1
  /\ UNCHANGED <<row, change, request, count, issued, changes, dead, drawn>>

-----------------------------------------------------------------------------
Next ==
  \/ \E k \in Keys : Create(k)
  \/ \E o \in Operators : (\E op \in Changes, k \in Keys : Load(o, op, k)) \/ Commit(o) \/ Fail(o)
  \/ \E r \in Requests :
       \/ (\E k \in Keys : Resolve(r, k)) \/ Increment(r) \/ RedisFails(r)
       \/ Serve(r) \/ LogUsage(r) \/ Touch(r)
  \/ Tick

Spec == Init /\ [][Next]_vars

-----------------------------------------------------------------------------
(* Properties *)

\* A secret that was replaced, revoked or disabled is never accepted again, in
\* whatever order changes and usage records of the key overlap (rotate, revoke,
\* set_status and touch write back rows they loaded without a lock).
EndedSecretsStayDead == \A k \in Keys : Accepts(k) => row[k].secret \notin dead

\* No limit is exceeded in its window, however requests interleave.
ServedIn(c, b, k) ==
  {r \in Requests : /\ request[r].served
                    /\ Bucket(c, request[r].at) = b
                    /\ PerKey(c) => request[r].key = k}
LimitsHold ==
  \A c \in Counters, b \in Minutes, k \in Keys :
    Limit[c] > 0 => Cardinality(ServedIn(c, b, k)) <= Limit[c]

\* A key that is over its own limit does not use up what its organization has
\* left: requests refused for it do not reach the counters that follow
\* (the order of enforce_limits).
FloodContained ==
  \A b \in Minutes, k \in Keys :
    /\ Limit["minuteKey"] > 0 => drawn["minuteOrg"][b][k] <= Limit["minuteKey"]
    /\ Limit["dayKey"] > 0 => drawn["dayOrg"][b][k] <= Limit["dayKey"]
=============================================================================
