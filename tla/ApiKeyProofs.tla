------------------------------ MODULE ApiKeyProofs ------------------------------
(***************************************************************************)
(* Proofs about ApiKeys for any keys, operators, requests, limits and      *)
(* bounds.                                                                 *)
(***************************************************************************)
EXTENDS ApiKeys, FiniteSetTheorems, TLAPS

-----------------------------------------------------------------------------
(* The inductive invariant *)

\* Secrets are handed out once, and a change has loaded a row that is there.
NumbersOK ==
  /\ \A k \in Keys : row[k].secret <= issued
  /\ \A k, l \in Keys : k # l /\ HasRow(k) => row[k].secret # row[l].secret
  /\ \A o \in Operators :
       change[o].op # "none" => HasRow(change[o].key) /\ change[o].seen.secret <= issued
  /\ \A d \in dead : d <= issued

\* A secret that is out of use is in a row that is not active ...
DeadOK == \A k \in Keys : HasRow(k) /\ row[k].secret \in dead => row[k].status # "active"

\* ... which stays so, because a change that leaves the status alone has seen the
\* row inactive, and a row becomes active with a new secret only.
SeenOK ==
  \A o \in Operators :
    LET k == change[o].key
        seen == change[o].seen
    IN change[o].op # "none" /\ seen.secret = row[k].secret /\ seen.status # "active" =>
         row[k].status # "active"

\* A request that has not started has passed nothing.
FreshOK ==
  \A r \in Requests : request[r].phase = "new" => ~request[r].served /\ request[r].step = 0

Place == [minuteKey |-> 1, minuteOrg |-> 2, dayKey |-> 3, dayOrg |-> 4]
Scopes == Keys \cup {Organization}

\* The requests that counter c has let through in bucket b of scope s.
Passed(c, t) == t.served \/ (t.phase = "counting" /\ t.step >= Place[c])
Past(c, b, s) ==
  {r \in Requests : /\ Passed(c, request[r])
                    /\ Bucket(c, request[r].at) = b /\ Scope(c, request[r].key) = s}
LimitsOK ==
  \A c \in Counters, b \in Minutes, s \in Scopes :
    Limit[c] > 0 => /\ Cardinality(Past(c, b, s)) <= count[c][b][s]
                    /\ Cardinality(Past(c, b, s)) <= Limit[c]

\* The requests of k that are about to raise the counter after c, and what that
\* counter has from k already.
Before(c, b, k) ==
  {r \in Requests : /\ request[r].phase = "counting" /\ request[r].step = Place[c]
                    /\ Bucket(c, request[r].at) = b /\ request[r].key = k}
Following == [minuteKey |-> "minuteOrg", dayKey |-> "dayOrg"]
DrawnOK ==
  \A c \in {"minuteKey", "dayKey"}, b \in Minutes, k \in Keys :
    Limit[c] > 0 =>
      /\ drawn[Following[c]][b][k] + Cardinality(Before(c, b, k)) <= count[c][b][k]
      /\ drawn[Following[c]][b][k] + Cardinality(Before(c, b, k)) <= Limit[c]

Inv == TypeOK /\ NumbersOK /\ DeadOK /\ SeenOK /\ FreshOK /\ LimitsOK /\ DrawnOK

-----------------------------------------------------------------------------
(* Rows *)

Columns == {"secret", "status", "revoked"}

\* What a change makes of the row it finds, column by column.
LEMMA CommitColumns ==
  ASSUME NEW current \in Rows, NEW seen \in Rows, NEW op \in Changes \cup {"touch"}, issued \in Nat
  PROVE  LET new == Overwritten(current, op, seen)
             wants == Wanted(op, seen)
         IN  /\ wants \in Rows
             /\ new \in Rows
             /\ new.secret = IF wants.secret # seen.secret THEN wants.secret ELSE current.secret
             /\ new.status = IF wants.status # seen.status THEN wants.status ELSE current.status
<1> DEFINE new == Overwritten(current, op, seen)
           wants == Wanted(op, seen)
<1>1. wants \in Rows
  <2>1. CASE op = "rotate"
    BY <2>1 DEF Wanted, Rows, Statuses, Secrets
  <2>2. CASE op = "revoke"
    BY <2>2 DEF Wanted, Rows, Statuses
  <2>3. CASE op = "disable"
    BY <2>3 DEF Wanted, Rows, Statuses
  <2>4. CASE op = "touch"
    BY <2>4 DEF Wanted
  <2> QED
    BY <2>1, <2>2, <2>3, <2>4 DEF Changes
<1>2. DOMAIN seen = Columns /\ DOMAIN current = Columns
  BY DEF Rows, Columns
<1> HIDE DEF wants
<1>3. new = [c \in Columns |->
               IF wants[c] # seen[c] \/ (op = "revoke" /\ c = "revoked") THEN wants[c] ELSE current[c]]
  BY <1>2 DEF Overwritten, Written, wants
<1>4. new = [secret |-> new.secret, status |-> new.status, revoked |-> new.revoked]
  BY <1>3 DEF Columns
<1>5. /\ new.secret = IF wants.secret # seen.secret THEN wants.secret ELSE current.secret
      /\ new.status = IF wants.status # seen.status THEN wants.status ELSE current.status
      /\ new.revoked = wants.revoked \/ new.revoked = current.revoked
  BY <1>3 DEF Columns
<1> HIDE DEF new
<1>6. new \in Rows
  BY <1>1, <1>4, <1>5 DEF Rows
<1> QED
  BY <1>1, <1>5, <1>6 DEF new, wants

\* A usage record changes no column of the model.
LEMMA TouchColumns ==
  ASSUME NEW current \in Rows, NEW seen \in Rows
  PROVE  Overwritten(current, "touch", seen) = current
<1>1. DOMAIN current = Columns /\ current = [c \in Columns |-> current[c]]
  BY DEF Rows, Columns
<1>2. Written("touch", seen) = {}
  BY DEF Written, Wanted
<1> QED
  BY <1>1, <1>2 DEF Overwritten

\* Buckets are minutes.
LEMMA BucketType == ASSUME NEW c, NEW at \in Minutes PROVE Bucket(c, at) \in Minutes
<1>1. at \in Nat /\ at <= MaxMinutes /\ MinutesPerDay \in Nat /\ MinutesPerDay >= 1
  BY BoundsAssumption DEF Minutes
<1>2. at \div MinutesPerDay \in Nat /\ at \div MinutesPerDay <= at
  BY <1>1, Z3
<1> QED
  BY <1>1, <1>2, BoundsAssumption DEF Bucket, Minutes

-----------------------------------------------------------------------------
(* What the actions do *)

\* A committed change: the row it leaves, the secret it issues and the one it ends.
LEMMA CommitStep ==
  ASSUME TypeOK, NEW o \in Operators, Commit(o)
  PROVE  LET k == change[o].key
             op == change[o].op
             seen == change[o].seen
             new == Overwritten(row[k], op, seen)
         IN  /\ op \in Changes /\ k \in Keys /\ seen \in Rows /\ new \in Rows
             /\ row' = [row EXCEPT ![k] = new]
             /\ change' = [change EXCEPT ![o] = Closed]
             /\ \/ /\ op = "rotate" /\ issued' = issued + 1
                   /\ seen.secret # issued + 1 => new.secret = issued + 1
                   /\ dead' = dead \cup {row[k].secret}
                \/ /\ op # "rotate" /\ issued' = issued /\ new.secret = row[k].secret
                   /\ seen.status # "active" \/ new.status # "active"
                   /\ new.status # "active" \/ new.status = row[k].status
                   /\ \/ dead' = dead
                      \/ dead' = dead \cup {row[k].secret} /\ seen.secret = row[k].secret
<1> DEFINE k == change[o].key
           op == change[o].op
           seen == change[o].seen
           new == Overwritten(row[k], op, seen)
<1>1. op \in Changes /\ k \in Keys /\ seen \in Rows /\ row[k] \in Rows /\ issued \in Nat
  BY DEF Commit, TypeOK, Secrets
<1>2. /\ row' = [row EXCEPT ![k] = new] /\ change' = [change EXCEPT ![o] = Closed]
      /\ issued' = IF op = "rotate" THEN issued + 1 ELSE issued
      /\ dead' = dead \cup ({row[k].secret} \cap (IF op = "rotate" THEN Secrets ELSE {seen.secret}))
  BY DEF Commit, Ended
<1>3. /\ new \in Rows
      /\ new.secret = IF Wanted(op, seen).secret # seen.secret THEN Wanted(op, seen).secret
                      ELSE row[k].secret
      /\ new.status = IF Wanted(op, seen).status # seen.status THEN Wanted(op, seen).status
                      ELSE row[k].status
  <2> HIDE DEF k, op, seen
  <2>1. op \in Changes \cup {"touch"}
    BY <1>1
  <2> DEFINE now == row[k]
  <2>2. now \in Rows
    BY <1>1
  <2> HIDE DEF now
  <2>3. /\ Overwritten(now, op, seen) \in Rows
        /\ Overwritten(now, op, seen).secret =
             IF Wanted(op, seen).secret # seen.secret THEN Wanted(op, seen).secret ELSE now.secret
        /\ Overwritten(now, op, seen).status =
             IF Wanted(op, seen).status # seen.status THEN Wanted(op, seen).status ELSE now.status
    BY <1>1, <2>1, <2>2, CommitColumns
  <2> QED
    BY <2>3 DEF now
<1> HIDE DEF new, seen, k
<1>4. CASE op = "rotate"
  <2>1. Wanted(op, seen).secret = issued + 1
    BY <1>4 DEF Wanted
  <2>2. row[k].secret \in Secrets
    BY <1>1 DEF Rows
  <2> QED
    BY <1>1, <1>2, <1>3, <1>4, <2>1, <2>2 DEF new, seen, k
<1>5. CASE op \in {"revoke", "disable"}
  <2>1. Wanted(op, seen).secret = seen.secret /\ Wanted(op, seen).status \in {"revoked", "disabled"}
    <3>1. CASE op = "revoke"
      BY <1>1, <3>1 DEF Wanted, Rows
    <3>2. CASE op = "disable"
      BY <1>1, <3>2 DEF Wanted, Rows
    <3> QED
      BY <1>5, <3>1, <3>2
  <2>2. new.secret = row[k].secret
    BY <1>3, <2>1
  <2>3. /\ seen.status # "active" \/ new.status # "active"
        /\ new.status # "active" \/ new.status = row[k].status
    BY <1>3, <2>1
  <2>4. \/ dead' = dead
        \/ dead' = dead \cup {row[k].secret} /\ seen.secret = row[k].secret
    BY <1>2, <1>5
  <2> QED
    BY <1>1, <1>2, <1>3, <1>5, <2>2, <2>3, <2>4 DEF new, seen, k
<1> QED
  BY <1>1, <1>4, <1>5 DEF Changes

\* The counter a request raises next, its bucket and its scope.
NextCounter(r) == Order[request[r].step + 1]
NextBucket(r) == Bucket(NextCounter(r), request[r].at)
NextScope(r) == Scope(NextCounter(r), request[r].key)

\* A step of the counting leaves request g and raises the counter by up.  The request
\* goes on only if the counter is switched off or has been raised within its limit.
Counted(r, g, up) ==
  LET q == request[r]
      c == NextCounter(r)
      b == NextBucket(r)
      s == NextScope(r)
  IN  /\ request' = [request EXCEPT ![r] = g]
      /\ g \in [phase : {"counting", "refused"}, key : {q.key}, at : {q.at},
                step : 0..4, served : {q.served}, seen : {q.seen}]
      /\ g.phase = "counting" => g.step = q.step + 1
      /\ g.phase = "counting" /\ Limit[c] > 0 => up = 1 /\ count[c][b][s] + 1 <= Limit[c]
      /\ count' \in [Counters -> [Minutes -> [Scopes -> Nat]]]
      /\ drawn' \in [Counters -> [Minutes -> [Keys -> Nat]]]
      /\ \A d \in Counters, e \in Minutes, t \in Scopes :
           count'[d][e][t] = IF d = c /\ e = b /\ t = s THEN count[d][e][t] + up
                             ELSE count[d][e][t]
      /\ \A d \in Counters, e \in Minutes, k \in Keys :
           drawn'[d][e][k] = IF d = c /\ e = b /\ k = q.key THEN drawn[d][e][k] + up
                             ELSE drawn[d][e][k]

\* What a step of the counting does.
LEMMA CountStep ==
  ASSUME TypeOK, NEW r \in Requests, Increment(r) \/ RedisFails(r)
  PROVE  /\ request[r].phase = "counting" /\ request[r].step \in 0..3
         /\ request[r].key \in Keys /\ request[r].at \in Minutes
         /\ NextCounter(r) \in Counters /\ Place[NextCounter(r)] = request[r].step + 1
         /\ NextBucket(r) \in Minutes /\ NextScope(r) \in Scopes
         /\ \E g : \E up \in {0, 1} : Counted(r, g, up)
<1> DEFINE q == request[r]
           c == Order[q.step + 1]
           b == Bucket(c, q.at)
           s == Scope(c, q.key)
           Result(g, up) ==
             /\ request' = [request EXCEPT ![r] = g]
             /\ g \in [phase : {"counting", "refused"}, key : {q.key}, at : {q.at},
                       step : 0..4, served : {q.served}, seen : {q.seen}]
             /\ g.phase = "counting" => g.step = q.step + 1
             /\ g.phase = "counting" /\ Limit[c] > 0 => up = 1 /\ count[c][b][s] + 1 <= Limit[c]
             /\ count' \in [Counters -> [Minutes -> [Scopes -> Nat]]]
             /\ drawn' \in [Counters -> [Minutes -> [Keys -> Nat]]]
             /\ \A d \in Counters, e \in Minutes, t \in Scopes :
                  count'[d][e][t] = IF d = c /\ e = b /\ t = s THEN count[d][e][t] + up
                                    ELSE count[d][e][t]
             /\ \A d \in Counters, e \in Minutes, k \in Keys :
                  drawn'[d][e][k] = IF d = c /\ e = b /\ k = q.key THEN drawn[d][e][k] + up
                                    ELSE drawn[d][e][k]
<1>d. NextCounter(r) = c /\ NextBucket(r) = b /\ NextScope(r) = s
  BY DEF NextCounter, NextBucket, NextScope
<1>e. ASSUME NEW g, NEW up, Result(g, up) PROVE Counted(r, g, up)
  BY <1>e DEF Counted, NextCounter, NextBucket, NextScope
<1>1. /\ q.phase = "counting" /\ q.step \in 0..3 /\ q.key \in Keys /\ q.at \in Minutes
      /\ q.served \in BOOLEAN /\ q.seen \in Rows
      /\ q = [phase |-> q.phase, key |-> q.key, at |-> q.at, step |-> q.step,
              served |-> q.served, seen |-> q.seen]
  BY DEF TypeOK, Increment, RedisFails
<1>2. c \in Counters /\ Place[c] = q.step + 1
  <2>1. q.step = 0 \/ q.step = 1 \/ q.step = 2 \/ q.step = 3
    BY <1>1
  <2> QED
    BY <2>1 DEF Order, Place, Counters
<1>3. b \in Minutes /\ s \in Scopes
  BY <1>1, BucketType DEF Scope, Scopes
<1>t. /\ count \in [Counters -> [Minutes -> [Scopes -> Nat]]]
      /\ drawn \in [Counters -> [Minutes -> [Keys -> Nat]]]
      /\ Limit[c] \in Nat
  BY <1>2, LimitAssumption DEF TypeOK, Scopes
<1>r. Raise(r) <=> /\ count' = [count EXCEPT ![c][b][s] = @ + 1]
                   /\ drawn' = [drawn EXCEPT ![c][b][q.key] = @ + 1]
  BY DEF Raise
<1>n. Increment(r) =>
        IF Limit[c] = 0
        THEN request' = [request EXCEPT ![r].step = @ + 1] /\ UNCHANGED <<count, drawn>>
        ELSE /\ Raise(r)
             /\ request' = [request EXCEPT ![r].step = @ + 1,
                              ![r].phase = IF Exceeds(c, count[c][b][s] + 1) THEN "refused"
                                           ELSE "counting"]
  BY DEF Increment
<1>f. RedisFails(r) =>
        /\ Raise(r) \/ UNCHANGED <<count, drawn>>
        /\ request' = [request EXCEPT ![r].phase = "refused"]
  BY DEF RedisFails
<1> DEFINE On(p) == [q EXCEPT !.step = q.step + 1, !.phase = p]
           Out == [q EXCEPT !.phase = "refused"]
<1>4. Increment(r) =>
        \E p \in {"counting", "refused"} :
          /\ request' = [request EXCEPT ![r] = On(p)]
          /\ \/ p = "counting" /\ Limit[c] = 0 /\ UNCHANGED <<count, drawn>>
             \/ /\ p = "counting" => count[c][b][s] + 1 <= Limit[c]
                /\ Raise(r)
  <2>1. SUFFICES ASSUME Increment(r)
                 PROVE  \E p \in {"counting", "refused"} :
                          /\ request' = [request EXCEPT ![r] = On(p)]
                          /\ \/ p = "counting" /\ Limit[c] = 0 /\ UNCHANGED <<count, drawn>>
                             \/ /\ p = "counting" => count[c][b][s] + 1 <= Limit[c]
                                /\ Raise(r)
    OBVIOUS
  <2>2. CASE Limit[c] = 0
    <3>1. request' = [request EXCEPT ![r].step = @ + 1] /\ UNCHANGED <<count, drawn>>
      BY <1>n, <2>1, <2>2
    <3>2. [q EXCEPT !.step = q.step + 1] = On("counting")
      BY <1>1
    <3> HIDE DEF On, c
    <3>3. request' = [request EXCEPT ![r] = On("counting")]
      BY <3>1, <3>2
    <3> QED
      BY <2>2, <3>1, <3>3
  <2>3. CASE Limit[c] # 0
    <3> DEFINE p == IF Exceeds(c, count[c][b][s] + 1) THEN "refused" ELSE "counting"
    <3>1. Raise(r) /\ request' = [request EXCEPT ![r].step = @ + 1, ![r].phase = p]
      BY <1>n, <2>1, <2>3
    <3>2. count[c][b][s] \in Nat
      BY <1>2, <1>3, <1>t
    <3>3. p \in {"counting", "refused"} /\ (p = "counting" => count[c][b][s] + 1 <= Limit[c])
      BY <1>t, <3>2 DEF Exceeds
    <3> HIDE DEF p, c, b, s
    <3>4. request' = [request EXCEPT ![r] = On(p)]
      BY <3>1
    <3> QED
      BY <3>1, <3>3, <3>4
  <2> QED
    BY <2>2, <2>3
<1>5. RedisFails(r) => request' = [request EXCEPT ![r] = Out]
  BY <1>f
<1> HIDE DEF c, b, s
<1>g. /\ \A p \in {"counting", "refused"} :
           /\ On(p) \in [phase : {"counting", "refused"}, key : {q.key}, at : {q.at},
                         step : 0..4, served : {q.served}, seen : {q.seen}]
           /\ On(p).phase = p /\ On(p).step = q.step + 1
      /\ Out \in [phase : {"counting", "refused"}, key : {q.key}, at : {q.at},
                  step : 0..4, served : {q.served}, seen : {q.seen}]
      /\ Out.phase = "refused"
  <2>1. q.step + 1 \in 0..4
    BY <1>1
  <2> DEFINE n == q.step + 1
  <2> HIDE DEF n
  <2> DEFINE Keep == [phase : {"counting", "refused"}, key : {q.key}, at : {q.at},
                      step : 0..4, served : {q.served}, seen : {q.seen}]
  <2>2. q \in Keep /\ n \in 0..4
    BY <1>1, <2>1 DEF n
  <2>3. ASSUME NEW p \in {"counting", "refused"}
        PROVE  LET g == [q EXCEPT !.step = n, !.phase = p]
               IN  g \in Keep /\ g.phase = p /\ g.step = n
    BY <2>2
  <2>4. Out \in Keep /\ Out.phase = "refused"
    BY <2>2
  <2> QED
    BY <2>3, <2>4 DEF n
<1>6. ASSUME Raise(r)
      PROVE  /\ count' \in [Counters -> [Minutes -> [Scopes -> Nat]]]
             /\ drawn' \in [Counters -> [Minutes -> [Keys -> Nat]]]
             /\ \A d \in Counters, e \in Minutes, t \in Scopes :
                  count'[d][e][t] = IF d = c /\ e = b /\ t = s THEN count[d][e][t] + 1
                                    ELSE count[d][e][t]
             /\ \A d \in Counters, e \in Minutes, k \in Keys :
                  drawn'[d][e][k] = IF d = c /\ e = b /\ k = q.key THEN drawn[d][e][k] + 1
                                    ELSE drawn[d][e][k]
  <2> HIDE DEF q
  <2>1. /\ count' = [count EXCEPT ![c][b][s] = @ + 1]
        /\ drawn' = [drawn EXCEPT ![c][b][q.key] = @ + 1]
    BY <1>r, <1>6
  <2>2. count[c][b] \in [Scopes -> Nat] /\ drawn[c][b] \in [Keys -> Nat] /\ q.key \in Keys
    BY <1>1, <1>2, <1>3, <1>t
  <2>3. /\ count' \in [Counters -> [Minutes -> [Scopes -> Nat]]]
        /\ \A d \in Counters, e \in Minutes, t \in Scopes :
             count'[d][e][t] = IF d = c /\ e = b /\ t = s THEN count[d][e][t] + 1
                               ELSE count[d][e][t]
    BY <1>2, <1>3, <1>t, <2>1, <2>2
  <2>4. /\ drawn' \in [Counters -> [Minutes -> [Keys -> Nat]]]
        /\ \A d \in Counters, e \in Minutes, k \in Keys :
             drawn'[d][e][k] = IF d = c /\ e = b /\ k = q.key THEN drawn[d][e][k] + 1
                               ELSE drawn[d][e][k]
    BY <1>2, <1>3, <1>t, <2>1, <2>2
  <2> QED
    BY <2>3, <2>4
<1>7. ASSUME UNCHANGED <<count, drawn>>
      PROVE  /\ count' \in [Counters -> [Minutes -> [Scopes -> Nat]]]
             /\ drawn' \in [Counters -> [Minutes -> [Keys -> Nat]]]
             /\ \A d \in Counters, e \in Minutes, t \in Scopes :
                  count'[d][e][t] = IF d = c /\ e = b /\ t = s THEN count[d][e][t] + 0
                                    ELSE count[d][e][t]
             /\ \A d \in Counters, e \in Minutes, k \in Keys :
                  drawn'[d][e][k] = IF d = c /\ e = b /\ k = q.key THEN drawn[d][e][k] + 0
                                    ELSE drawn[d][e][k]
  BY <1>t, <1>7
<1> HIDE DEF On, Out, q
<1>8. ASSUME Increment(r) PROVE \E g : \E up \in {0, 1} : Result(g, up)
  <2>1. PICK p \in {"counting", "refused"} :
          /\ request' = [request EXCEPT ![r] = On(p)]
          /\ \/ p = "counting" /\ Limit[c] = 0 /\ UNCHANGED <<count, drawn>>
             \/ /\ p = "counting" => count[c][b][s] + 1 <= Limit[c]
                /\ Raise(r)
    BY <1>4, <1>8
  <2>2. CASE Limit[c] = 0 /\ UNCHANGED <<count, drawn>>
    <3>1. Result(On(p), 0)
      BY <1>g, <1>7, <2>1, <2>2
    <3> HIDE DEF Result
    <3> QED
      BY <3>1
  <2>3. CASE (p = "counting" => count[c][b][s] + 1 <= Limit[c]) /\ Raise(r)
    <3>1. Result(On(p), 1)
      BY <1>g, <1>6, <2>1, <2>3
    <3> HIDE DEF Result
    <3> QED
      BY <3>1
  <2> QED
    BY <2>1, <2>2, <2>3
<1>9. ASSUME RedisFails(r) PROVE \E g : \E up \in {0, 1} : Result(g, up)
  <2>1. CASE Raise(r)
    <3>1. Result(Out, 1)
      BY <1>5, <1>g, <1>6, <1>9, <2>1
    <3> HIDE DEF Result
    <3> QED
      BY <3>1
  <2>2. CASE UNCHANGED <<count, drawn>>
    <3>1. Result(Out, 0)
      BY <1>5, <1>g, <1>7, <1>9, <2>2
    <3> HIDE DEF Result
    <3> QED
      BY <3>1
  <2> QED
    BY <1>f, <1>9, <2>1, <2>2
<1>10. PICK g : \E up \in {0, 1} : Result(g, up)
  BY <1>8, <1>9
<1>11. PICK up \in {0, 1} : Result(g, up)
  BY <1>10
<1>12. Counted(r, g, up)
  <2> HIDE DEF Result
  <2> QED
    BY <1>e, <1>11
<1> QED
  BY <1>1, <1>2, <1>3, <1>d, <1>12 DEF q


-----------------------------------------------------------------------------
(* Types *)

\* Closed changes and new requests have the shape of changes and requests.
LEMMA ClosedType ==
  /\ NoRow \in Rows /\ NoRow.secret = 0
  /\ Closed \in [op : Changes \cup {"none"}, key : Keys, seen : Rows] /\ Closed.op = "none"
  /\ Waiting \in [phase : {"new", "counting", "served", "refused", "logging", "done"}, key : Keys,
                  at : Minutes, step : 0..4, served : BOOLEAN, seen : Rows]
  /\ Waiting.phase = "new" /\ Waiting.served = FALSE
<1>1. NoRow \in Rows /\ NoRow.secret = 0
  BY DEF NoRow, Rows, Secrets, Statuses
<1> DEFINE k == CHOOSE x \in Keys : TRUE
<1>2. k \in Keys
  BY KeysAssumption
<1>3. 0 \in Minutes
  BY BoundsAssumption DEF Minutes
<1> HIDE DEF k, NoRow
<1>4. /\ Closed = [op |-> "none", key |-> k, seen |-> NoRow]
      /\ Waiting = [phase |-> "new", key |-> k, at |-> 0, step |-> 0, served |-> FALSE,
                    seen |-> NoRow]
  BY DEF Closed, Waiting, k
<1> QED
  BY <1>1, <1>2, <1>3, <1>4

\* The initial state has the shape TypeOK describes.
LEMMA TypeInit == Init => TypeOK
<1> SUFFICES ASSUME Init PROVE TypeOK
  OBVIOUS
<1>1. row \in [Keys -> Rows]
  BY ClosedType DEF Init
<1>2. change \in [Operators -> [op : Changes \cup {"none"}, key : Keys, seen : Rows]]
  BY ClosedType DEF Init
<1>3. request \in [Requests ->
       [phase : {"new", "counting", "served", "refused", "logging", "done"}, key : Keys,
        at : Minutes, step : 0..4, served : BOOLEAN, seen : Rows]]
  BY ClosedType DEF Init
<1>4. /\ count \in [Counters -> [Minutes -> [Keys \cup {Organization} -> Nat]]]
      /\ drawn \in [Counters -> [Minutes -> [Keys -> Nat]]]
  BY DEF Init
<1>5. minute \in Minutes /\ issued \in Secrets /\ changes \in 0..MaxChanges /\ dead \subseteq Secrets
  BY BoundsAssumption DEF Init, Minutes, Secrets
<1> QED
  BY <1>1, <1>2, <1>3, <1>4, <1>5 DEF TypeOK

\* Every step keeps the shape of the state.
LEMMA TypeNext == TypeOK /\ [Next]_vars => TypeOK'
<1> SUFFICES ASSUME TypeOK, [Next]_vars PROVE TypeOK'
  OBVIOUS
<1>1. ASSUME NEW k \in Keys, Create(k) PROVE TypeOK'
  <2>1. [NoRow EXCEPT !.secret = issued + 1] \in Rows /\ issued + 1 \in Secrets
    <3> DEFINE n == issued + 1
    <3>1. n \in Secrets
      BY DEF TypeOK, Secrets
    <3> HIDE DEF n
    <3>2. [NoRow EXCEPT !.secret = n] \in Rows
      BY <3>1, ClosedType DEF Rows
    <3> QED
      BY <3>1, <3>2 DEF n
  <2> QED
    BY <1>1, <2>1 DEF Create, TypeOK
<1>2. ASSUME NEW o \in Operators, NEW op \in Changes, NEW k \in Keys, Load(o, op, k) PROVE TypeOK'
  <2>1. changes' \in 0..MaxChanges
    BY <1>2, BoundsAssumption DEF Load, TypeOK
  <2>2. [op |-> op, key |-> k, seen |-> row[k]]
           \in [op : Changes \cup {"none"}, key : Keys, seen : Rows]
    BY DEF TypeOK
  <2> QED
    BY <1>2, <2>1, <2>2 DEF Load, TypeOK
<1>3. ASSUME NEW o \in Operators, Commit(o) PROVE TypeOK'
  <2>1. row' \in [Keys -> Rows]
    BY <1>3, CommitStep DEF TypeOK
  <2>2. change' \in [Operators -> [op : Changes \cup {"none"}, key : Keys, seen : Rows]]
    BY <1>3, ClosedType DEF Commit, TypeOK
  <2>3. issued' \in Secrets
    BY <1>3 DEF Commit, TypeOK, Secrets
  <2>4. dead' \subseteq Secrets
    BY <1>3 DEF Commit, Ended, TypeOK, Rows
  <2> QED
    BY <1>3, <2>1, <2>2, <2>3, <2>4 DEF Commit, TypeOK
<1>4. ASSUME NEW o \in Operators, Fail(o) PROVE TypeOK'
  BY <1>4, ClosedType DEF Fail, TypeOK
<1>5. ASSUME NEW r \in Requests, NEW k \in Keys, Resolve(r, k) PROVE TypeOK'
  <2>1. ASSUME NEW phase \in {"counting", "refused"}
        PROVE  [request[r] EXCEPT !.phase = phase, !.key = k, !.at = minute] \in
                 [phase : {"new", "counting", "served", "refused", "logging", "done"}, key : Keys,
                  at : Minutes, step : 0..4, served : BOOLEAN, seen : Rows]
    BY ZenonT(60) DEF TypeOK
  <2>2. PICK phase \in {"counting", "refused"} :
          request' = [request EXCEPT ![r] =
                        [request[r] EXCEPT !.phase = phase, !.key = k, !.at = minute]]
    BY <1>5 DEF Resolve
  <2> DEFINE g == [request[r] EXCEPT !.phase = phase, !.key = k, !.at = minute]
  <2>3. g \in [phase : {"new", "counting", "served", "refused", "logging", "done"}, key : Keys,
               at : Minutes, step : 0..4, served : BOOLEAN, seen : Rows]
    BY <2>1
  <2> HIDE DEF g
  <2>4. request' \in [Requests ->
       [phase : {"new", "counting", "served", "refused", "logging", "done"}, key : Keys,
        at : Minutes, step : 0..4, served : BOOLEAN, seen : Rows]]
    BY <2>2, <2>3 DEF TypeOK, g
  <2> QED
    BY <1>5, <2>4 DEF Resolve, TypeOK
<1>6. ASSUME NEW r \in Requests, Increment(r) \/ RedisFails(r) PROVE TypeOK'
  <2>1. PICK g, up : Counted(r, g, up)
    BY <1>6, CountStep
  <2>g. /\ request' = [request EXCEPT ![r] = g]
        /\ g \in [phase : {"counting", "refused"}, key : {request[r].key}, at : {request[r].at},
                  step : 0..4, served : {request[r].served}, seen : {request[r].seen}]
        /\ count' \in [Counters -> [Minutes -> [Keys \cup {Organization} -> Nat]]]
        /\ drawn' \in [Counters -> [Minutes -> [Keys -> Nat]]]
    BY <2>1 DEF Counted, Scopes
  <2>2. request' \in [Requests ->
       [phase : {"new", "counting", "served", "refused", "logging", "done"}, key : Keys,
        at : Minutes, step : 0..4, served : BOOLEAN, seen : Rows]]
    BY <2>g DEF TypeOK
  <2>3. UNCHANGED <<row, change, minute, issued, changes, dead>>
    BY <1>6 DEF Increment, RedisFails
  <2> QED
    BY <2>g, <2>2, <2>3 DEF TypeOK
<1>7. ASSUME NEW r \in Requests, Serve(r) PROVE TypeOK'
  <2>1. [request[r] EXCEPT !.phase = "served", !.served = TRUE] \in
          [phase : {"new", "counting", "served", "refused", "logging", "done"}, key : Keys,
           at : Minutes, step : 0..4, served : BOOLEAN, seen : Rows]
    BY DEF TypeOK
  <2>2. request' = [request EXCEPT ![r] = [request[r] EXCEPT !.phase = "served", !.served = TRUE]]
    BY <1>7 DEF Serve
  <2> QED
    BY ZenonT(60), <1>7, <2>1, <2>2 DEF Serve, TypeOK
<1>8. ASSUME NEW r \in Requests, LogUsage(r) PROVE TypeOK'
  <2> DEFINE g == [request[r] EXCEPT !.phase = "logging", !.seen = row[request[r].key]]
  <2>1. g \in [phase : {"new", "counting", "served", "refused", "logging", "done"}, key : Keys,
           at : Minutes, step : 0..4, served : BOOLEAN, seen : Rows]
    BY DEF TypeOK
  <2>2. request' = [request EXCEPT ![r] = g]
    BY <1>8 DEF LogUsage
  <2> QED
    BY ZenonT(60), <1>8, <2>1, <2>2 DEF LogUsage, TypeOK
<1>9. ASSUME NEW r \in Requests, Touch(r) PROVE TypeOK'
  <2> DEFINE g == [request[r] EXCEPT !.phase = "done", !.seen = NoRow]
  <2>1. g \in [phase : {"new", "counting", "served", "refused", "logging", "done"}, key : Keys,
           at : Minutes, step : 0..4, served : BOOLEAN, seen : Rows]
    BY ClosedType DEF TypeOK
  <2>2. request' = [request EXCEPT ![r] = g]
    BY <1>9 DEF Touch
  <2>3. row' = [row EXCEPT ![request[r].key] = Overwritten(row[request[r].key], "touch", request[r].seen)]
    BY <1>9 DEF Touch
  <2>4. row[request[r].key] \in Rows /\ request[r].seen \in Rows
    BY DEF TypeOK
  <2>5. row' \in [Keys -> Rows]
    BY <2>3, <2>4, TouchColumns DEF TypeOK
  <2> QED
    BY ZenonT(60), <1>9, <2>1, <2>2, <2>5 DEF Touch, TypeOK
<1>10. CASE Tick
  <2>1. minute' \in Minutes
    BY <1>10, BoundsAssumption DEF Tick, TypeOK, Minutes
  <2> QED
    BY <1>10, <2>1 DEF Tick, TypeOK
<1>11. CASE UNCHANGED vars
  BY <1>11 DEF vars, TypeOK
<1> QED
  BY <1>1, <1>2, <1>3, <1>4, <1>5, <1>6, <1>7, <1>8, <1>9, <1>10, <1>11 DEF Next


-----------------------------------------------------------------------------
(* Secrets *)

SecretsOK == NumbersOK /\ DeadOK /\ SeenOK

\* Initially no secret has been handed out.
LEMMA SecretsInit == Init => SecretsOK
<1> SUFFICES ASSUME Init PROVE SecretsOK
  OBVIOUS
<1>1. /\ \A k \in Keys : row[k].secret = 0
      /\ \A o \in Operators : change[o].op = "none"
      /\ issued = 0 /\ dead = {}
  BY ClosedType DEF Init
<1> QED
  BY <1>1 DEF SecretsOK, NumbersOK, DeadOK, SeenOK, HasRow

\* Every step keeps a secret that is out of use in rows that are not active.
LEMMA SecretsNext == TypeOK /\ SecretsOK /\ [Next]_vars => SecretsOK'
<1> SUFFICES ASSUME TypeOK, SecretsOK, [Next]_vars PROVE SecretsOK'
  OBVIOUS
<1>t. /\ row \in [Keys -> Rows] /\ issued \in Nat
      /\ \A k \in Keys : row[k] \in Rows /\ row[k].secret \in Nat
      /\ \A o \in Operators : change[o].key \in Keys /\ change[o].seen \in Rows
                              /\ change[o].seen.secret \in Nat
      /\ change \in [Operators -> [op : Changes \cup {"none"}, key : Keys, seen : Rows]]
      /\ dead \subseteq Nat
  BY DEF TypeOK, Rows, Secrets
<1>1. ASSUME row' = row, issued' = issued, dead' = dead, change' = change PROVE SecretsOK'
  BY <1>1 DEF SecretsOK, NumbersOK, DeadOK, SeenOK, HasRow
<1>2. ASSUME NEW k \in Keys, Create(k) PROVE SecretsOK'
  <2> DEFINE new == [NoRow EXCEPT !.secret = issued + 1]
  <2>1. /\ row[k].secret = 0 /\ row' = [row EXCEPT ![k] = new] /\ issued' = issued + 1
        /\ dead' = dead /\ change' = change
    BY <1>2 DEF Create, HasRow
  <2>2. new.secret = issued + 1
    BY DEF NoRow
  <2> HIDE DEF new
  <2>3. \A l \in Keys : row'[l] = IF l = k THEN new ELSE row[l]
    BY <1>t, <2>1
  <2>4. NumbersOK'
    BY <1>t, <2>1, <2>2, <2>3 DEF SecretsOK, NumbersOK, HasRow
  <2>5. DeadOK'
    BY <1>t, <2>1, <2>2, <2>3 DEF SecretsOK, NumbersOK, DeadOK, HasRow
  <2>6. SeenOK'
    BY <1>t, <2>1, <2>2, <2>3 DEF SecretsOK, NumbersOK, SeenOK, HasRow
  <2> QED
    BY <2>4, <2>5, <2>6 DEF SecretsOK
<1>3. ASSUME NEW o \in Operators, NEW op \in Changes, NEW k \in Keys, Load(o, op, k)
      PROVE  SecretsOK'
  <2> DEFINE new == [op |-> op, key |-> k, seen |-> row[k]]
  <2>1. /\ row[k].secret # 0 /\ change' = [change EXCEPT ![o] = new]
        /\ row' = row /\ issued' = issued /\ dead' = dead
    BY <1>3 DEF Load, HasRow
  <2>2. new.key = k /\ new.seen = row[k]
    OBVIOUS
  <2> HIDE DEF new
  <2>3. \A q \in Operators : change'[q] = IF q = o THEN new ELSE change[q]
    BY <1>t, <2>1
  <2>4. NumbersOK' /\ DeadOK'
    BY <1>t, <2>1, <2>2, <2>3 DEF SecretsOK, NumbersOK, DeadOK, HasRow
  <2>5. SeenOK'
    BY <1>t, <2>1, <2>2, <2>3 DEF SecretsOK, SeenOK
  <2> QED
    BY <2>4, <2>5 DEF SecretsOK
<1>4. ASSUME NEW o \in Operators, Commit(o) PROVE SecretsOK'
  <2> DEFINE k == change[o].key
             op == change[o].op
             seen == change[o].seen
             new == Overwritten(row[k], op, seen)
  <2>1. /\ op \in Changes /\ k \in Keys /\ seen \in Rows /\ new \in Rows
        /\ row' = [row EXCEPT ![k] = new]
        /\ change' = [change EXCEPT ![o] = Closed]
        /\ \/ /\ op = "rotate" /\ issued' = issued + 1
              /\ seen.secret # issued + 1 => new.secret = issued + 1
              /\ dead' = dead \cup {row[k].secret}
           \/ /\ op # "rotate" /\ issued' = issued /\ new.secret = row[k].secret
              /\ seen.status # "active" \/ new.status # "active"
              /\ new.status # "active" \/ new.status = row[k].status
              /\ \/ dead' = dead
                 \/ dead' = dead \cup {row[k].secret} /\ seen.secret = row[k].secret
    BY <1>4, CommitStep
  <2>2. /\ row[k].secret # 0 /\ seen.secret <= issued /\ op # "none"
        /\ seen.secret = row[k].secret /\ seen.status # "active" => row[k].status # "active"
    BY <2>1 DEF SecretsOK, NumbersOK, SeenOK, HasRow, Changes
  <2> HIDE DEF k, op, seen, new
  <2>3. /\ \A l \in Keys : row'[l] = IF l = k THEN new ELSE row[l]
        /\ \A q \in Operators : change'[q] = IF q = o THEN Closed ELSE change[q]
        /\ Closed.op = "none"
    BY <1>t, <2>1, ClosedType
  <2>n. row[k].secret <= issued /\ row[k].secret \in Nat /\ seen.secret \in Nat
    BY <1>t, <2>1 DEF SecretsOK, NumbersOK, Rows, Secrets
  <2>4. CASE /\ issued' = issued + 1 /\ new.secret = issued + 1
             /\ dead' = dead \cup {row[k].secret}
    <3>1. NumbersOK'
      BY <1>t, <2>2, <2>3, <2>4, <2>n DEF SecretsOK, NumbersOK, HasRow
    <3>2. DeadOK'
      BY <1>t, <2>1, <2>2, <2>3, <2>4, <2>n DEF SecretsOK, NumbersOK, DeadOK, HasRow
    <3>3. SeenOK'
      BY <1>t, <2>2, <2>3, <2>4, <2>n DEF SecretsOK, NumbersOK, SeenOK
    <3> QED
      BY <3>1, <3>2, <3>3 DEF SecretsOK
  <2>5. CASE /\ issued' = issued /\ new.secret = row[k].secret
             /\ seen.status # "active" \/ new.status # "active"
             /\ new.status # "active" \/ new.status = row[k].status
             /\ \/ dead' = dead
                \/ dead' = dead \cup {row[k].secret} /\ seen.secret = row[k].secret
    <3>1. NumbersOK'
      <4>1. \A l \in Keys : row'[l].secret = row[l].secret
        BY <2>3, <2>5
      <4>2. \A d \in dead' : d <= issued
        BY <2>5, <2>n DEF SecretsOK, NumbersOK
      <4> QED
        <5>1. /\ \A l \in Keys : row'[l].secret <= issued'
              /\ \A l, m \in Keys : l # m /\ row'[l].secret # 0 =>
                   row'[l].secret # row'[m].secret
          BY <2>5, <4>1 DEF SecretsOK, NumbersOK, HasRow
        <5>2. \A q \in Operators : change'[q].op # "none" =>
                /\ change'[q] = change[q] /\ change[q].op # "none"
                /\ row'[change'[q].key].secret # 0 /\ change'[q].seen.secret <= issued'
          BY <1>t, <2>3, <2>5, <4>1 DEF SecretsOK, NumbersOK, HasRow
        <5> QED
          BY <2>5, <4>2, <5>1, <5>2 DEF NumbersOK, HasRow
    <3>2. DeadOK'
      <4>1. seen.secret = row[k].secret => new.status # "active"
        BY <2>2, <2>5
      <4>2. new.status # "active" \/ new.status = row[k].status
        BY <2>5
      <4>3. \A l \in Keys \ {k} : HasRow(l) /\ row[l].secret \in dead' => row[l].secret \in dead
        BY <2>1, <2>2, <2>5 DEF SecretsOK, NumbersOK, HasRow
      <4>4. row[k].secret \in dead' => row[k].secret \in dead \/ seen.secret = row[k].secret
        BY <2>5
      <4> QED
        BY <2>1, <2>3, <2>5, <4>1, <4>2, <4>3, <4>4 DEF SecretsOK, DeadOK, HasRow
    <3>3. SeenOK'
      BY <1>t, <2>2, <2>3, <2>5 DEF SecretsOK, SeenOK
    <3> QED
      BY <3>1, <3>2, <3>3 DEF SecretsOK
  <2> QED
    BY <1>t, <2>1, <2>2, <2>4, <2>5, <2>n
<1>5. ASSUME NEW o \in Operators, Fail(o) PROVE SecretsOK'
  <2>1. /\ row' = row /\ issued' = issued /\ dead' = dead
        /\ \A q \in Operators : change'[q] = IF q = o THEN Closed ELSE change[q]
        /\ Closed.op = "none"
    BY <1>t, <1>5, ClosedType DEF Fail
  <2> QED
    BY <2>1 DEF SecretsOK, NumbersOK, DeadOK, SeenOK, HasRow
<1>6. ASSUME NEW r \in Requests, Touch(r) PROVE SecretsOK'
  <2>1. /\ row' = [row EXCEPT ![request[r].key] =
                     Overwritten(row[request[r].key], "touch", request[r].seen)]
        /\ issued' = issued /\ dead' = dead /\ change' = change
    BY <1>6 DEF Touch
  <2>2. request[r].key \in Keys /\ request[r].seen \in Rows
    BY DEF TypeOK
  <2>3. Overwritten(row[request[r].key], "touch", request[r].seen) = row[request[r].key]
    BY <1>t, <2>2, TouchColumns
  <2>4. row' = row
    BY <1>t, <2>1, <2>3
  <2> QED
    BY <1>1, <2>1, <2>4
<1>7. ASSUME \/ \E r \in Requests, k \in Keys : Resolve(r, k)
             \/ \E r \in Requests : Increment(r) \/ RedisFails(r) \/ Serve(r) \/ LogUsage(r)
             \/ Tick
             \/ UNCHANGED vars
      PROVE  SecretsOK'
  <2>1. row' = row /\ issued' = issued /\ dead' = dead /\ change' = change
    BY <1>7 DEF Resolve, Increment, RedisFails, Serve, LogUsage, Tick, vars
  <2> QED
    BY <1>1, <2>1
<1> QED
  BY <1>2, <1>3, <1>4, <1>5, <1>6, <1>7 DEF Next


-----------------------------------------------------------------------------
(* Limits *)

\* The sets of requests that are counted are finite.
LEMMA PastFinite ==
  ASSUME NEW c, NEW b, NEW s
  PROVE  IsFiniteSet(Past(c, b, s)) /\ Cardinality(Past(c, b, s)) \in Nat
<1>1. IsFiniteSet(Past(c, b, s))
  BY RequestsAssumption, FS_Subset DEF Past
<1> QED
  BY <1>1, FS_CardinalityType

\* The requests about to raise a counter are finitely many.
LEMMA BeforeFinite ==
  ASSUME NEW c, NEW b, NEW k
  PROVE  IsFiniteSet(Before(c, b, k)) /\ Cardinality(Before(c, b, k)) \in Nat
<1>1. IsFiniteSet(Before(c, b, k))
  BY RequestsAssumption, FS_Subset DEF Before
<1> QED
  BY <1>1, FS_CardinalityType

\* Sets that gain or lose one element.
LEMMA Grows ==
  ASSUME NEW S, NEW T, NEW x, IsFiniteSet(S), T \subseteq S \cup {x}
  PROVE  Cardinality(T) <= Cardinality(S) + 1 /\ Cardinality(T) \in Nat /\ Cardinality(S) \in Nat
<1>c. Cardinality(S) \in Nat
  BY FS_CardinalityType
<1>1. IsFiniteSet(S \cup {x}) /\ Cardinality(S \cup {x}) <= Cardinality(S) + 1
  BY <1>c, FS_AddElement
<1>2. IsFiniteSet(T) /\ Cardinality(T) <= Cardinality(S \cup {x})
  BY <1>1, FS_Subset
<1> QED
  BY <1>1, <1>2, FS_CardinalityType

\* A subset is smaller by what it lacks.
LEMMA Shrinks ==
  ASSUME NEW S, NEW T, IsFiniteSet(S), T \subseteq S
  PROVE  /\ Cardinality(T) <= Cardinality(S) /\ Cardinality(T) \in Nat /\ Cardinality(S) \in Nat
         /\ \A x \in S \ T : Cardinality(T) + 1 <= Cardinality(S)
<1>1. IsFiniteSet(T) /\ Cardinality(T) <= Cardinality(S)
  BY FS_Subset
<1>2. Cardinality(T) \in Nat /\ Cardinality(S) \in Nat
  BY <1>1, FS_CardinalityType
<1>3. ASSUME NEW x \in S \ T PROVE Cardinality(T) + 1 <= Cardinality(S)
  <2>1. T \cup {x} \subseteq S
    OBVIOUS
  <2>2. Cardinality(T \cup {x}) = Cardinality(T) + 1
    BY <1>1, FS_AddElement
  <2>3. Cardinality(T \cup {x}) <= Cardinality(S)
    BY <2>1, FS_Subset
  <2> QED
    BY <2>2, <2>3
<1> QED
  BY <1>1, <1>2, <1>3

\* Initially nothing is counted.
LEMMA LimitsInit == Init => FreshOK /\ LimitsOK /\ DrawnOK
<1> SUFFICES ASSUME Init PROVE FreshOK /\ LimitsOK /\ DrawnOK
  OBVIOUS
<1>1. /\ \A r \in Requests : request[r].phase = "new" /\ request[r].served = FALSE
      /\ \A c \in Counters, b \in Minutes, s \in Scopes : count[c][b][s] = 0
      /\ \A c \in Counters, b \in Minutes, k \in Keys : drawn[c][b][k] = 0
  BY ClosedType DEF Init, Scopes
<1>2. \A c, b, s : Past(c, b, s) = {}
  BY <1>1 DEF Past, Passed
<1>3. \A c, b, k : Before(c, b, k) = {}
  BY <1>1 DEF Before
<1>4. \A c \in Counters : Limit[c] \in Nat
  BY LimitAssumption
<1>5. {"minuteKey", "dayKey"} \subseteq Counters /\ Keys \subseteq Scopes
      /\ \A c \in {"minuteKey", "dayKey"} : Following[c] \in Counters
  BY DEF Counters, Scopes, Following
<1>0. Cardinality({}) = 0
  BY FS_EmptySet
<1>6. LimitsOK
  <2>1. ASSUME NEW c \in Counters, NEW b \in Minutes, NEW s \in Scopes, Limit[c] > 0
        PROVE  /\ Cardinality(Past(c, b, s)) <= count[c][b][s]
               /\ Cardinality(Past(c, b, s)) <= Limit[c]
    <3>1. Cardinality(Past(c, b, s)) = 0 /\ count[c][b][s] = 0
      BY <1>0, <1>1, <1>2
    <3> QED
      BY <1>4, <2>1, <3>1
  <2> QED
    BY <2>1 DEF LimitsOK
<1>7. DrawnOK
  <2>1. ASSUME NEW c \in {"minuteKey", "dayKey"}, NEW b \in Minutes, NEW k \in Keys, Limit[c] > 0
        PROVE  /\ drawn[Following[c]][b][k] + Cardinality(Before(c, b, k)) <= count[c][b][k]
               /\ drawn[Following[c]][b][k] + Cardinality(Before(c, b, k)) <= Limit[c]
    <3>1. /\ Cardinality(Before(c, b, k)) = 0 /\ count[c][b][k] = 0
          /\ drawn[Following[c]][b][k] = 0
      BY <1>0, <1>1, <1>3, <1>5
    <3> QED
      BY <1>4, <1>5, <2>1, <3>1
  <2> QED
    BY <2>1 DEF DrawnOK
<1>8. FreshOK
  BY ClosedType DEF FreshOK, Init, Waiting
<1> QED
  BY <1>6, <1>7, <1>8

\* Requests stay as new as they are until they are resolved.
LEMMA FreshNext == TypeOK /\ FreshOK /\ [Next]_vars => FreshOK'
<1> SUFFICES ASSUME TypeOK, FreshOK, [Next]_vars PROVE FreshOK'
  OBVIOUS
<1>1. ASSUME NEW x \in Requests, request'[x].phase = "new" PROVE request'[x] = request[x]
  <2>1. ASSUME NEW r \in Requests, NEW k \in Keys, Resolve(r, k) PROVE request'[x] = request[x]
    BY <1>1, <2>1 DEF Resolve, TypeOK
  <2>2. ASSUME NEW r \in Requests, Increment(r) \/ RedisFails(r) PROVE request'[x] = request[x]
    <3>1. PICK g, up : Counted(r, g, up)
      BY <2>2, CountStep
    <3>2. request' = [request EXCEPT ![r] = g] /\ g.phase # "new"
      BY <3>1 DEF Counted
    <3> QED
      BY <1>1, <3>2 DEF TypeOK
  <2>3. ASSUME NEW r \in Requests, Serve(r) \/ LogUsage(r) \/ Touch(r)
        PROVE  request'[x] = request[x]
    BY <1>1, <2>3 DEF Serve, LogUsage, Touch, TypeOK
  <2>4. ASSUME \/ \E k \in Keys : Create(k)
               \/ \E o \in Operators, op \in Changes, k \in Keys : Load(o, op, k)
               \/ \E o \in Operators : Commit(o) \/ Fail(o)
               \/ Tick
               \/ UNCHANGED vars
        PROVE  request'[x] = request[x]
    BY <2>4 DEF Create, Load, Commit, Fail, Tick, vars
  <2> QED
    BY <2>1, <2>2, <2>3, <2>4 DEF Next
<1> QED
  BY <1>1 DEF FreshOK

\* What the steps of a request before and after the counting do.
LEMMA OutsideStep ==
  ASSUME TypeOK, FreshOK,
         \/ \E r \in Requests, k \in Keys : Resolve(r, k)
         \/ \E r \in Requests : Serve(r) \/ LogUsage(r) \/ Touch(r)
  PROVE  /\ count' = count /\ drawn' = drawn
         /\ \A x \in Requests :
              \/ ~request'[x].served /\ request'[x].step = 0
              \/ /\ request'[x].key = request[x].key /\ request'[x].at = request[x].at
                 /\ \A c \in Counters : Passed(c, request'[x]) => Passed(c, request[x])
                 /\ request'[x].phase # "counting" \/ request'[x] = request[x]
<1>1. ASSUME NEW r \in Requests, NEW k \in Keys, Resolve(r, k), NEW x \in Requests
      PROVE  request'[x] = request[x] \/ (~request'[x].served /\ request'[x].step = 0)
  <2>1. PICK phase \in {"counting", "refused"} :
          request' = [request EXCEPT ![r] =
                        [request[r] EXCEPT !.phase = phase, !.key = k, !.at = minute]]
    BY <1>1 DEF Resolve
  <2> DEFINE g == [request[r] EXCEPT !.phase = phase, !.key = k, !.at = minute]
  <2>2. g.served = request[r].served /\ g.step = request[r].step
    BY DEF TypeOK
  <2>3. ~request[r].served /\ request[r].step = 0
    BY <1>1 DEF FreshOK, Resolve
  <2> HIDE DEF g
  <2>4. request' = [request EXCEPT ![r] = g]
    BY <2>1 DEF g
  <2> QED
    BY <2>2, <2>3, <2>4 DEF TypeOK
<1>2. ASSUME NEW r \in Requests, Serve(r) \/ LogUsage(r) \/ Touch(r), NEW x \in Requests
      PROVE  /\ request'[x].key = request[x].key /\ request'[x].at = request[x].at
             /\ \A c \in Counters : Passed(c, request'[x]) => Passed(c, request[x])
             /\ request'[x].phase # "counting" \/ request'[x] = request[x]
  <2>1. CASE Serve(r)
    <3> DEFINE g == [request[r] EXCEPT !.phase = "served", !.served = TRUE]
    <3>1. /\ request' = [request EXCEPT ![r] = g]
          /\ request[r].phase = "counting" /\ request[r].step = 4
      BY <2>1 DEF Serve
    <3>2. g.key = request[r].key /\ g.at = request[r].at /\ g.phase = "served"
      BY DEF TypeOK
    <3>3. \A c \in Counters : Passed(c, request[r])
      BY <3>1 DEF Passed, Place, Counters
    <3> HIDE DEF g
    <3> QED
      BY <3>1, <3>2, <3>3 DEF TypeOK
  <2>2. CASE LogUsage(r)
    <3> DEFINE g == [request[r] EXCEPT !.phase = "logging", !.seen = row[request[r].key]]
    <3>1. request' = [request EXCEPT ![r] = g]
      BY <2>2 DEF LogUsage
    <3>2. /\ g.key = request[r].key /\ g.at = request[r].at /\ g.phase = "logging"
          /\ g.served = request[r].served
      BY DEF TypeOK
    <3> HIDE DEF g
    <3> QED
      BY <3>1, <3>2 DEF TypeOK, Passed
  <2>3. CASE Touch(r)
    <3> DEFINE g == [request[r] EXCEPT !.phase = "done", !.seen = NoRow]
    <3>1. request' = [request EXCEPT ![r] = g]
      BY <2>3 DEF Touch
    <3>2. /\ g.key = request[r].key /\ g.at = request[r].at /\ g.phase = "done"
          /\ g.served = request[r].served
      BY DEF TypeOK
    <3> HIDE DEF g
    <3> QED
      BY <3>1, <3>2 DEF TypeOK, Passed
  <2> QED
    BY <1>2, <2>1, <2>2, <2>3
<1>3. count' = count /\ drawn' = drawn
  BY DEF Resolve, Serve, LogUsage, Touch
<1> QED
  BY <1>1, <1>2, <1>3

\* Whoever a counter lets through has raised it within its limit.
LEMMA LimitsNext == TypeOK /\ FreshOK /\ LimitsOK /\ [Next]_vars => LimitsOK'
<1> SUFFICES ASSUME TypeOK, FreshOK, LimitsOK, [Next]_vars PROVE LimitsOK'
  OBVIOUS
<1>t. /\ \A c \in Counters, b \in Minutes, s \in Scopes : count[c][b][s] \in Nat
      /\ \A c \in Counters : Limit[c] \in Nat
  BY LimitAssumption DEF TypeOK, Scopes
<1>1. ASSUME count' = count,
             \A c \in Counters, b \in Minutes, s \in Scopes : Past(c, b, s)' \subseteq Past(c, b, s)
      PROVE  LimitsOK'
  <2>1. SUFFICES ASSUME NEW c \in Counters, NEW b \in Minutes, NEW s \in Scopes, Limit[c] > 0
                 PROVE  /\ Cardinality(Past(c, b, s)') <= count[c][b][s]
                        /\ Cardinality(Past(c, b, s)') <= Limit[c]
    BY <1>1 DEF LimitsOK
  <2>2. /\ Cardinality(Past(c, b, s)) <= count[c][b][s]
        /\ Cardinality(Past(c, b, s)) <= Limit[c]
    BY <2>1 DEF LimitsOK
  <2>3. /\ Cardinality(Past(c, b, s)') <= Cardinality(Past(c, b, s))
        /\ Cardinality(Past(c, b, s)') \in Nat /\ Cardinality(Past(c, b, s)) \in Nat
    BY <1>1, PastFinite, Shrinks
  <2> QED
    BY <1>t, <2>2, <2>3
<1>2. ASSUME NEW r \in Requests, Increment(r) \/ RedisFails(r) PROVE LimitsOK'
  <2> DEFINE q == request[r]
             n == NextCounter(r)
             nb == NextBucket(r)
             ns == NextScope(r)
  <2>1. /\ q.phase = "counting" /\ q.step \in 0..3 /\ q.key \in Keys /\ q.at \in Minutes
        /\ n \in Counters /\ Place[n] = q.step + 1 /\ nb \in Minutes /\ ns \in Scopes
    BY <1>2, CountStep
  <2>2. PICK g : \E up \in {0, 1} : Counted(r, g, up)
    BY <1>2, CountStep
  <2>3. PICK up \in {0, 1} : Counted(r, g, up)
    BY <2>2
  <2>4. /\ request' = [request EXCEPT ![r] = g]
        /\ g.key = q.key /\ g.at = q.at /\ g.served = q.served /\ g.phase \in {"counting", "refused"}
        /\ g.phase = "counting" => g.step = q.step + 1
        /\ g.phase = "counting" /\ Limit[n] > 0 => up = 1 /\ count[n][nb][ns] + 1 <= Limit[n]
        /\ \A d \in Counters, e \in Minutes, t \in Scopes :
             count'[d][e][t] = IF d = n /\ e = nb /\ t = ns THEN count[d][e][t] + up
                               ELSE count[d][e][t]
    BY <2>3 DEF Counted
  <2>5. \A x \in Requests : request'[x] = IF x = r THEN g ELSE request[x]
    BY <2>4 DEF TypeOK
  <2>p. \A d \in Counters : Place[d] \in Nat /\ (Place[d] = Place[n] => d = n)
    BY <2>1 DEF Place, Counters
  <2>6. ASSUME NEW c \in Counters, NEW b, NEW s
        PROVE  /\ Past(c, b, s)' \subseteq Past(c, b, s) \cup {r}
               /\ g.phase # "counting" \/ c # n \/ b # nb \/ s # ns =>
                    Past(c, b, s)' \subseteq Past(c, b, s)
    <3>1. Past(c, b, s)' \subseteq Past(c, b, s) \cup {r}
      BY <2>5 DEF Past
    <3>2. ASSUME g.phase # "counting" \/ c # n \/ b # nb \/ s # ns, r \in Past(c, b, s)'
          PROVE  r \in Past(c, b, s)
      <4>1. Passed(c, g) /\ Bucket(c, q.at) = b /\ Scope(c, q.key) = s
        BY <2>4, <2>5, <3>2 DEF Past
      <4>2. CASE g.served
        BY <2>4, <4>1, <4>2 DEF Past, Passed
      <4>3. CASE g.phase = "counting" /\ g.step >= Place[c]
        <5>1. c # n
          BY <3>2, <4>1, <4>3 DEF NextBucket, NextScope
        <5>2. q.step >= Place[c]
          BY <2>1, <2>4, <2>p, <4>3, <5>1
        <5> QED
          BY <2>1, <4>1, <5>2 DEF Past, Passed
      <4> QED
        BY <4>1, <4>2, <4>3 DEF Passed
    <3> QED
      BY <3>1, <3>2
  <2>7. SUFFICES ASSUME NEW c \in Counters, NEW b \in Minutes, NEW s \in Scopes, Limit[c] > 0
                 PROVE  /\ Cardinality(Past(c, b, s)') <= count'[c][b][s]
                        /\ Cardinality(Past(c, b, s)') <= Limit[c]
    BY DEF LimitsOK
  <2>8. /\ Cardinality(Past(c, b, s)) <= count[c][b][s]
        /\ Cardinality(Past(c, b, s)) <= Limit[c]
    BY <2>7 DEF LimitsOK
  <2> HIDE DEF q, n, nb, ns
  <2>9. CASE g.phase = "counting" /\ c = n /\ b = nb /\ s = ns
    <3>1. /\ Cardinality(Past(c, b, s)') <= Cardinality(Past(c, b, s)) + 1
          /\ Cardinality(Past(c, b, s)') \in Nat /\ Cardinality(Past(c, b, s)) \in Nat
      BY <2>6, PastFinite, Grows
    <3>2. count'[c][b][s] = count[c][b][s] + 1 /\ count[c][b][s] + 1 <= Limit[c]
      BY <2>4, <2>7, <2>9
    <3> QED
      BY <1>t, <2>8, <3>1, <3>2
  <2>10. CASE g.phase # "counting" \/ c # n \/ b # nb \/ s # ns
    <3>1. /\ Cardinality(Past(c, b, s)') <= Cardinality(Past(c, b, s))
          /\ Cardinality(Past(c, b, s)') \in Nat /\ Cardinality(Past(c, b, s)) \in Nat
      BY <2>6, <2>10, PastFinite, Shrinks
    <3>2. count'[c][b][s] = count[c][b][s] + 1 \/ count'[c][b][s] = count[c][b][s]
      BY <1>t, <2>3, <2>4
    <3> QED
      BY <1>t, <2>8, <3>1, <3>2
  <2> QED
    BY <2>9, <2>10
<1>3. ASSUME \/ \E r \in Requests, k \in Keys : Resolve(r, k)
             \/ \E r \in Requests : Serve(r) \/ LogUsage(r) \/ Touch(r)
      PROVE  LimitsOK'
  <2>1. /\ count' = count
        /\ \A x \in Requests :
             \/ ~request'[x].served /\ request'[x].step = 0
             \/ /\ request'[x].key = request[x].key /\ request'[x].at = request[x].at
                /\ \A c \in Counters : Passed(c, request'[x]) => Passed(c, request[x])
    BY <1>3, OutsideStep
  <2>2. ASSUME NEW c \in Counters, NEW b, NEW s PROVE Past(c, b, s)' \subseteq Past(c, b, s)
    <3>1. Place[c] \in Nat /\ ~(0 >= Place[c])
      BY DEF Place, Counters
    <3>2. ASSUME NEW x \in Requests, Passed(c, request'[x])
          PROVE  /\ request'[x].key = request[x].key /\ request'[x].at = request[x].at
                 /\ Passed(c, request[x])
      BY <2>1, <3>1, <3>2 DEF Passed
    <3> QED
      BY <3>2 DEF Past
  <2> QED
    BY <1>1, <2>1, <2>2
<1>4. ASSUME \/ \E k \in Keys : Create(k)
             \/ \E o \in Operators, op \in Changes, k \in Keys : Load(o, op, k)
             \/ \E o \in Operators : Commit(o) \/ Fail(o)
             \/ Tick
             \/ UNCHANGED vars
      PROVE  LimitsOK'
  <2>1. request' = request /\ count' = count
    BY <1>4 DEF Create, Load, Commit, Fail, Tick, vars
  <2>2. \A c, b, s : Past(c, b, s)' = Past(c, b, s)
    BY <2>1 DEF Past
  <2> QED
    BY <1>1, <2>1, <2>2
<1> QED
  BY <1>2, <1>3, <1>4 DEF Next


\* What a counter of the organization has from a key, and what is on its way, has raised the
\* counter of that key first.
LEMMA DrawnNext == TypeOK /\ FreshOK /\ DrawnOK /\ [Next]_vars => DrawnOK'
<1> SUFFICES ASSUME TypeOK, FreshOK, DrawnOK, [Next]_vars PROVE DrawnOK'
  OBVIOUS
<1>t. /\ \A c \in Counters, b \in Minutes, s \in Scopes : count[c][b][s] \in Nat
      /\ \A c \in Counters, b \in Minutes, k \in Keys : drawn[c][b][k] \in Nat
      /\ \A c \in Counters : Limit[c] \in Nat
  BY LimitAssumption DEF TypeOK, Scopes
<1>f. \A c \in {"minuteKey", "dayKey"} :
        /\ c \in Counters /\ Following[c] \in Counters /\ Following[c] # c
        /\ Place[Following[c]] = Place[c] + 1
        /\ \A at : Bucket(Following[c], at) = Bucket(c, at)
        /\ \A k : Scope(c, k) = k
  BY DEF Counters, Following, Place, Bucket, Scope, PerKey
<1>p. \A d, e \in Counters : Place[d] \in Nat /\ Place[d] > 0 /\ (Place[d] = Place[e] => d = e)
  BY DEF Place, Counters
<1>k. Keys \subseteq Scopes
  BY DEF Scopes
<1>1. ASSUME count' = count, drawn' = drawn,
             \A c \in {"minuteKey", "dayKey"} : \A b, k :
               Before(c, b, k)' \subseteq Before(c, b, k)
      PROVE  DrawnOK'
  <2>1. SUFFICES ASSUME NEW c \in {"minuteKey", "dayKey"}, NEW b \in Minutes, NEW k \in Keys,
                        Limit[c] > 0
                 PROVE  LET n == Cardinality(Before(c, b, k)')
                        IN  /\ drawn[Following[c]][b][k] + n <= count[c][b][k]
                            /\ drawn[Following[c]][b][k] + n <= Limit[c]
    BY <1>1 DEF DrawnOK
  <2>2. /\ drawn[Following[c]][b][k] + Cardinality(Before(c, b, k)) <= count[c][b][k]
        /\ drawn[Following[c]][b][k] + Cardinality(Before(c, b, k)) <= Limit[c]
    BY <2>1 DEF DrawnOK
  <2>3. /\ Cardinality(Before(c, b, k)') <= Cardinality(Before(c, b, k))
        /\ Cardinality(Before(c, b, k)') \in Nat /\ Cardinality(Before(c, b, k)) \in Nat
    BY <1>1, BeforeFinite, Shrinks
  <2>4. /\ drawn[Following[c]][b][k] \in Nat /\ count[c][b][k] \in Nat /\ Limit[c] \in Nat
    BY <1>t, <1>f, <1>k
  <2> QED
    BY <2>2, <2>3, <2>4
<1>2. ASSUME NEW r \in Requests, Increment(r) \/ RedisFails(r) PROVE DrawnOK'
  <2> DEFINE q == request[r]
             n == NextCounter(r)
             nb == NextBucket(r)
             ns == NextScope(r)
  <2>1. /\ q.phase = "counting" /\ q.step \in 0..3 /\ q.key \in Keys /\ q.at \in Minutes
        /\ n \in Counters /\ Place[n] = q.step + 1 /\ nb \in Minutes /\ ns \in Scopes
    BY <1>2, CountStep
  <2>2. PICK g : \E up \in {0, 1} : Counted(r, g, up)
    BY <1>2, CountStep
  <2>3. PICK up \in {0, 1} : Counted(r, g, up)
    BY <2>2
  <2>4. /\ request' = [request EXCEPT ![r] = g]
        /\ g.key = q.key /\ g.at = q.at /\ g.phase \in {"counting", "refused"}
        /\ g.phase = "counting" => g.step = q.step + 1
        /\ g.phase = "counting" /\ Limit[n] > 0 => up = 1 /\ count[n][nb][ns] + 1 <= Limit[n]
        /\ \A d \in Counters, e \in Minutes, t \in Scopes :
             count'[d][e][t] = IF d = n /\ e = nb /\ t = ns THEN count[d][e][t] + up
                               ELSE count[d][e][t]
        /\ \A d \in Counters, e \in Minutes, k \in Keys :
             drawn'[d][e][k] = IF d = n /\ e = nb /\ k = q.key THEN drawn[d][e][k] + up
                               ELSE drawn[d][e][k]
    BY <2>3 DEF Counted
  <2>5. \A x \in Requests : request'[x] = IF x = r THEN g ELSE request[x]
    BY <2>4 DEF TypeOK
  <2>6. SUFFICES ASSUME NEW c \in {"minuteKey", "dayKey"}, NEW b \in Minutes, NEW k \in Keys,
                        Limit[c] > 0
                 PROVE  LET m == Cardinality(Before(c, b, k)')
                        IN  /\ drawn'[Following[c]][b][k] + m <= count'[c][b][k]
                            /\ drawn'[Following[c]][b][k] + m <= Limit[c]
    BY DEF DrawnOK
  <2> DEFINE d == Following[c]
             old == Before(c, b, k)
             new == Before(c, b, k)'
  <2>7. /\ drawn[d][b][k] + Cardinality(old) <= count[c][b][k]
        /\ drawn[d][b][k] + Cardinality(old) <= Limit[c]
    BY <2>6 DEF DrawnOK
  <2>8. /\ c \in Counters /\ d \in Counters /\ d # c /\ Place[d] = Place[c] + 1
        /\ k \in Scopes
        /\ drawn[d][b][k] \in Nat /\ count[c][b][k] \in Nat /\ Limit[c] \in Nat
        /\ IsFiniteSet(old) /\ Cardinality(old) \in Nat
    BY <1>t, <1>f, <1>k, BeforeFinite
  <2>9. new \subseteq old \cup {r}
    BY <2>5 DEF Before
  <2>10. r \in new <=> /\ g.phase = "counting" /\ g.step = Place[c] /\ Bucket(c, q.at) = b
                       /\ q.key = k
    BY <2>4, <2>5 DEF Before
  <2>11. r \in old <=> q.step = Place[c] /\ Bucket(c, q.at) = b /\ q.key = k
    BY <2>1 DEF Before
  <2>12. n = c => nb = Bucket(c, q.at) /\ ns = q.key
    BY <1>f DEF NextBucket, NextScope
  <2>13. n = d => nb = Bucket(c, q.at)
    BY <1>f DEF NextBucket
  <2> HIDE DEF q, n, nb, ns, d, old, new
  <2>14. CASE r \in new
    <3>1. n = c /\ nb = b /\ ns = k /\ g.phase = "counting"
      BY <1>p, <2>1, <2>4, <2>8, <2>10, <2>12, <2>14
    <3>2. count'[c][b][k] = count[c][b][k] + 1 /\ count[c][b][k] + 1 <= Limit[c]
      BY <2>4, <2>6, <2>8, <3>1
    <3>3. drawn'[d][b][k] = drawn[d][b][k]
      BY <2>4, <2>8, <3>1
    <3>4. Cardinality(new) <= Cardinality(old) + 1 /\ Cardinality(new) \in Nat
      BY <2>8, <2>9, Grows
    <3>5. drawn'[d][b][k] + Cardinality(new) <= count'[c][b][k]
      BY <2>7, <2>8, <3>2, <3>3, <3>4
    <3> QED
      BY <2>8, <3>2, <3>3, <3>4, <3>5 DEF d, new
  <2>15. CASE r \notin new
    <3>1. new \subseteq old
      BY <2>9, <2>15
    <3>2. /\ Cardinality(new) <= Cardinality(old) /\ Cardinality(new) \in Nat
          /\ \A x \in old \ new : Cardinality(new) + 1 <= Cardinality(old)
      BY <2>8, <3>1, Shrinks
    <3>3. count'[c][b][k] = count[c][b][k] + 1 \/ count'[c][b][k] = count[c][b][k]
      BY <2>3, <2>4, <2>8
    <3>4. CASE n = d /\ nb = b /\ q.key = k
      <4>1. r \in old
        BY <2>1, <2>8, <2>11, <2>13, <3>4, <1>p
      <4>2. Cardinality(new) + 1 <= Cardinality(old)
        BY <2>15, <3>2, <4>1
      <4>3. drawn'[d][b][k] = drawn[d][b][k] + 1 \/ drawn'[d][b][k] = drawn[d][b][k]
        <5>1. drawn'[d][b][k] = drawn[d][b][k] + up
          BY <2>4, <2>8, <3>4
        <5>2. up = 0 \/ up = 1
          OBVIOUS
        <5> QED
          BY <2>8, <5>1, <5>2
      <4> QED
        BY <2>7, <2>8, <3>2, <3>3, <4>2, <4>3 DEF d, new
    <3>5. CASE ~(n = d /\ nb = b /\ q.key = k)
      <4>1. drawn'[d][b][k] = drawn[d][b][k]
        BY <2>4, <2>8, <3>5
      <4> QED
        BY <2>7, <2>8, <3>2, <3>3, <4>1 DEF d, new
    <3> QED
      BY <3>4, <3>5
  <2> QED
    BY <2>14, <2>15
<1>3. ASSUME \/ \E r \in Requests, k \in Keys : Resolve(r, k)
             \/ \E r \in Requests : Serve(r) \/ LogUsage(r) \/ Touch(r)
      PROVE  DrawnOK'
  <2>1. /\ count' = count /\ drawn' = drawn
        /\ \A x \in Requests :
             \/ request'[x].step = 0
             \/ request'[x].phase # "counting"
             \/ request'[x] = request[x]
    BY <1>3, OutsideStep
  <2>2. ASSUME NEW c \in {"minuteKey", "dayKey"}, NEW b, NEW k
        PROVE  Before(c, b, k)' \subseteq Before(c, b, k)
    <3>1. Place[c] # 0
      BY <1>f, <1>p
    <3> QED
      BY <2>1, <3>1 DEF Before
  <2> QED
    BY <1>1, <2>1, <2>2
<1>4. ASSUME \/ \E k \in Keys : Create(k)
             \/ \E o \in Operators, op \in Changes, k \in Keys : Load(o, op, k)
             \/ \E o \in Operators : Commit(o) \/ Fail(o)
             \/ Tick
             \/ UNCHANGED vars
      PROVE  DrawnOK'
  <2>1. request' = request /\ count' = count /\ drawn' = drawn
    BY <1>4 DEF Create, Load, Commit, Fail, Tick, vars
  <2>2. \A c, b, k : Before(c, b, k)' = Before(c, b, k)
    BY <2>1 DEF Before
  <2> QED
    BY <1>1, <2>1, <2>2
<1> QED
  BY <1>2, <1>3, <1>4 DEF Next

-----------------------------------------------------------------------------
(* Theorems *)

\* The conjuncts of Inv together are kept by every step of every instance.
THEOREM ApiKeyInvCorrect == Spec => []Inv
<1>1. Init => Inv
  BY TypeInit, SecretsInit, LimitsInit DEF Inv, SecretsOK
<1>2. Inv /\ [Next]_vars => Inv'
  BY TypeNext, SecretsNext, FreshNext, LimitsNext, DrawnNext DEF Inv, SecretsOK
<1> QED
  BY <1>1, <1>2, PTL DEF Spec

\* Rows, changes, requests and counters only take the shapes that TypeOK describes.
THEOREM ApiKeyTypeCorrect == Spec => []TypeOK
<1>1. Inv => TypeOK
  BY DEF Inv
<1> QED
  BY <1>1, ApiKeyInvCorrect, PTL

\* A secret that was rotated away, revoked or disabled is never accepted again, for any
\* number of overlapping changes, although each writes only the columns that differ from a
\* row it loaded without a lock (rotate, revoke, set_status).
THEOREM EndedSecretsCorrect == Spec => []EndedSecretsStayDead
<1>1. Inv => EndedSecretsStayDead
  BY DEF Inv, DeadOK, EndedSecretsStayDead, Accepts
<1> QED
  BY <1>1, ApiKeyInvCorrect, PTL

\* No window lets more requests through than its limit, for any limits and any interleaving
\* of the four increments of any number of requests (enforce_limits).
THEOREM LimitsHoldCorrect == Spec => []LimitsHold
<1>1. Inv => LimitsHold
  <2>1. SUFFICES ASSUME Inv, NEW c \in Counters, NEW b \in Minutes, NEW k \in Keys, Limit[c] > 0
                 PROVE  Cardinality(ServedIn(c, b, k)) <= Limit[c]
    BY DEF LimitsHold
  <2>2. ServedIn(c, b, k) \subseteq Past(c, b, Scope(c, k)) /\ Scope(c, k) \in Scopes
    BY DEF ServedIn, Past, Passed, Scope, Scopes
  <2>3. Cardinality(Past(c, b, Scope(c, k))) <= Limit[c] /\ Limit[c] \in Nat
    BY <2>1, <2>2, LimitAssumption DEF Inv, LimitsOK
  <2>4. /\ Cardinality(ServedIn(c, b, k)) <= Cardinality(Past(c, b, Scope(c, k)))
        /\ Cardinality(ServedIn(c, b, k)) \in Nat
        /\ Cardinality(Past(c, b, Scope(c, k))) \in Nat
    BY <2>2, PastFinite, Shrinks
  <2> QED
    BY <2>3, <2>4
<1> QED
  BY <1>1, ApiKeyInvCorrect, PTL

\* The counters of the organization have from one key at most what the limit of that key
\* lets through, for any number of requests refused for it (the order of enforce_limits).
THEOREM FloodContainedCorrect == Spec => []FloodContained
<1>1. Inv => FloodContained
  <2>1. SUFFICES ASSUME Inv, NEW b \in Minutes, NEW k \in Keys,
                        NEW c \in {"minuteKey", "dayKey"}, Limit[c] > 0
                 PROVE  drawn[Following[c]][b][k] <= Limit[c]
    BY DEF FloodContained, Following
  <2>2. drawn[Following[c]][b][k] + Cardinality(Before(c, b, k)) <= Limit[c]
    BY <2>1 DEF Inv, DrawnOK
  <2>3. Following[c] \in Counters /\ c \in Counters
    BY DEF Following, Counters
  <2>4. drawn[Following[c]][b][k] \in Nat /\ Limit[c] \in Nat
    <3>1. drawn \in [Counters -> [Minutes -> [Keys -> Nat]]]
      BY <2>1 DEF Inv, TypeOK
    <3> QED
      BY ZenonT(60), <2>1, <2>3, <3>1, LimitAssumption
  <2>5. Cardinality(Before(c, b, k)) \in Nat
    BY BeforeFinite
  <2> QED
    BY <2>2, <2>4, <2>5
<1> QED
  BY <1>1, ApiKeyInvCorrect, PTL

=============================================================================
