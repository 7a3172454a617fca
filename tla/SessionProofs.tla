----------------------------- MODULE SessionProofs -----------------------------
(***************************************************************************)
(* Proofs about AuthSessions for any users, requests and bounds.           *)
(***************************************************************************)
EXTENDS AuthSessions, SequenceTheorems, TLAPS

-----------------------------------------------------------------------------
(* The inductive invariant *)

Creating == {"login", "refresh"}

\* A request works for a user, a refresh or logout on a session that is there, and
\* only a disabling lists sessions.
OpenOK ==
  \A r \in Requests :
    /\ tx[r].op # "none" => tx[r].user \in Users
    /\ tx[r].op \in {"refresh", "logout"} => tx[r].session \in Sessions

\* Sessions descend from sessions that are there.
RootsOK == \A s \in Sessions : sessions[s].root <= Len(sessions)

\* A request that will create a session, and a session a disabling has not found, are not
\* clean, nor is what a disabling missed.
CleanOK ==
  /\ \A r, d \in Requests :
       /\ tx[r].op \in Creating /\ Runs(d, "disable") /\ tx[r].user = tx[d].user => ~tx[r].clean
       /\ tx[r].op \in Creating /\ tx[r].late => ~tx[r].clean
  /\ \A d \in Requests, s \in Sessions :
       /\ Runs(d, "disable") /\ tx[d].phase = "listed"
       /\ Live(s) /\ sessions[s].user = tx[d].user /\ sessions[s].clean
       => s \in tx[d].found
  /\ \A s \in Sessions : Live(s) /\ sessions[s].late => ~sessions[s].clean

\* A login that was never forked has one live session, or a refresh of the only one.
LoginOK ==
  /\ \A s, t \in Sessions :
       Live(s) /\ Live(t) /\ sessions[s].root = sessions[t].root /\ s # t =>
         sessions[s].root \in forked
  /\ \A r \in Requests, s \in Sessions :
       Runs(r, "refresh") /\ Live(s) /\ sessions[s].root = Root(r) /\ s # tx[r].session =>
         Root(r) \in forked
  /\ \A r, q \in Requests :
       Runs(r, "refresh") /\ Runs(q, "refresh") /\ Root(r) = Root(q) /\ r # q =>
         Root(r) \in forked

\* Nothing is left of a login that has ended, and nobody refreshes one while a logout
\* counts as alone.
EndOK ==
  /\ \A r, q \in Requests :
       Runs(r, "logout") /\ tx[r].alone /\ Runs(q, "refresh") => Root(q) # Root(r)
  /\ \A s \in Sessions : Live(s) /\ sessions[s].root \in ended => sessions[s].root \in forked
  /\ \A r \in Requests : Runs(r, "refresh") /\ Root(r) \in ended => Root(r) \in forked
  /\ \A n \in ended : n <= Len(sessions)

Inv == TypeOK /\ OpenOK /\ RootsOK /\ CleanOK /\ LoginOK /\ EndOK

-----------------------------------------------------------------------------
(* Sessions *)

\* A function on 1..n is a sequence.
LEMMA FunctionSeq ==
  ASSUME NEW S, NEW n \in Nat, NEW f \in [1..n -> S]
  PROVE  f \in Seq(S) /\ Len(f) = n
OBVIOUS


\* Sessions are numbered one after the other.
LEMMA SessionTypes ==
  ASSUME TypeOK
  PROVE  /\ Sessions = 1..Len(sessions) /\ Len(sessions) \in Nat
         /\ \A s \in Sessions : sessions[s] \in SessionRows /\ s \in Ids
BY LenProperties, ElementOfSeq DEF TypeOK, Sessions, Ids

\* A session that is over keeps user and root.
LEMMA OverRow ==
  ASSUME NEW x \in SessionRows, NEW state \in {"revoked", "expired"}
  PROVE  /\ Over(x, state) \in SessionRows
         /\ Over(x, state).user = x.user /\ Over(x, state).root = x.root
         /\ Over(x, state).state # "live" /\ Over(x, state).state = state
BY DEF Over, SessionRows

\* Revoking ends the sessions given and leaves the others alone.
LEMMA RevokeRows ==
  ASSUME TypeOK, NEW rows
  PROVE  /\ Revoke(rows) \in Seq(SessionRows)
         /\ Len(Revoke(rows)) = Len(sessions) /\ DOMAIN Revoke(rows) = Sessions
         /\ \A s \in Sessions :
              Revoke(rows)[s] = IF s \in rows THEN Over(sessions[s], "revoked") ELSE sessions[s]
<1>1. Revoke(rows) \in [1..Len(sessions) -> SessionRows] /\ Len(sessions) \in Nat
  BY SessionTypes, OverRow DEF Revoke
<1>2. Revoke(rows) \in Seq(SessionRows) /\ Len(Revoke(rows)) = Len(sessions)
  BY <1>1, FunctionSeq
<1> QED
  BY <1>1, <1>2, SessionTypes DEF Revoke

\* The session a request creates.
LEMMA CreateRow ==
  ASSUME TypeOK, NEW r \in Requests, NEW root \in Ids, tx[r].user \in Users
  PROVE  /\ Create(root, r) \in SessionRows
         /\ Create(root, r).user = tx[r].user /\ Create(root, r).root = root
         /\ Create(root, r).state = "live" /\ Create(root, r).clean = tx[r].clean
         /\ Create(root, r).late = tx[r].late
BY DEF TypeOK, Transactions, SessionRows, Create

\* A session appended to others.
LEMMA AppendRow ==
  ASSUME NEW rows \in Seq(SessionRows), NEW new \in SessionRows
  PROVE  /\ Append(rows, new) \in Seq(SessionRows)
         /\ Len(Append(rows, new)) = Len(rows) + 1
         /\ DOMAIN Append(rows, new) = 1..(Len(rows) + 1)
         /\ Append(rows, new)[Len(rows) + 1] = new
         /\ \A s \in 1..Len(rows) : Append(rows, new)[s] = rows[s]
BY AppendProperties, LenProperties

\* What is open has the shape of a request.
LEMMA TxTypes ==
  ASSUME TypeOK, NEW r \in Requests
  PROVE  tx[r] \in Transactions
BY DEF TypeOK

\* So has what is closed.
LEMMA IdleType ==
  /\ Idle \in Transactions /\ Idle.op = "none" /\ Idle.phase = "idle" /\ Idle.found = {}
  /\ Idle.clean = TRUE /\ Idle.late = FALSE /\ Idle.alone = TRUE /\ Idle.holds = FALSE
BY DEF Idle, Transactions, Operations

\* The initial state has the shape TypeOK describes.
LEMMA TypeInit == Init => TypeOK
<1> SUFFICES ASSUME Init PROVE TypeOK
  OBVIOUS
<1>1. sessions \in Seq(SessionRows)
  BY EmptySeq DEF Init
<1>2. tx \in [Requests -> Transactions]
  BY IdleType DEF Init
<1> QED
  BY <1>1, <1>2, BoundsAssumption DEF Init, TypeOK

\* Every step keeps the shape of the state.
LEMMA TypeNext == TypeOK /\ OpenOK /\ [Next]_vars => TypeOK'
<1> SUFFICES ASSUME TypeOK, OpenOK, [Next]_vars PROVE TypeOK'
  OBVIOUS
<1>t. \A r \in Requests : tx[r] \in Transactions
  BY TxTypes
<1>c. ASSUME NEW r \in Requests, Close(r) PROVE tx' \in [Requests -> Transactions]
  BY <1>c, IdleType DEF Close, TypeOK
<1>1. ASSUME NEW r \in Requests, NEW u \in Users, Login(r, u) PROVE TypeOK'
  <2>1. [Idle EXCEPT !.op = "login", !.phase = "loaded", !.user = u, !.clean = ~Disabling(u)]
           \in Transactions
    BY IdleType DEF Transactions, Operations, Disabling
  <2> QED
    BY <1>1, <2>1 DEF Login, TypeOK, historyVars
<1>2. ASSUME NEW r \in Requests, MarkLoggedIn(r) \/ Touch(r) \/ SetActive(r) PROVE TypeOK'
  <2> DEFINE t == [tx[r] EXCEPT !.phase = "locked", !.holds = TRUE]
  <2>1. t \in Transactions
    BY <1>t DEF Transactions
  <2>2. tx' = [tx EXCEPT ![r] = t]
    BY <1>2 DEF MarkLoggedIn, Touch, SetActive
  <2> HIDE DEF t
  <2> QED
    BY <1>2, <2>1, <2>2 DEF MarkLoggedIn, Touch, SetActive, TypeOK, historyVars
<1>3. ASSUME NEW r \in Requests, CommitLogin(r) PROVE TypeOK'
  <2>1. tx[r].user \in Users /\ NewId \in Ids
    BY <1>3, SessionTypes DEF CommitLogin, Runs, OpenOK, NewId, Ids
  <2>2. Create(NewId, r) \in SessionRows
    BY <2>1, CreateRow
  <2>3. sessions' \in Seq(SessionRows)
    BY <1>3, <2>2, AppendRow DEF CommitLogin, TypeOK
  <2> QED
    BY <1>3, <1>c, <2>3 DEF CommitLogin, TypeOK, historyVars
<1>4. ASSUME NEW r \in Requests, NEW s \in Sessions, Refresh(r, s) PROVE TypeOK'
  <2> DEFINE t == [Idle EXCEPT !.op = "refresh", !.phase = "loaded", !.user = sessions[s].user,
                     !.session = s, !.clean = sessions[s].clean /\ ~Disabling(sessions[s].user)]
             other(q) == IF Runs(q, "logout") /\ Root(q) = sessions[s].root
                         THEN [tx[q] EXCEPT !.alone = FALSE] ELSE tx[q]
  <2>1. sessions[s] \in SessionRows /\ s \in Ids
    BY SessionTypes
  <2>2. t \in Transactions
    BY <2>1, IdleType DEF Transactions, Operations, SessionRows, Disabling
  <2>3. ASSUME NEW q \in Requests PROVE other(q) \in Transactions
    BY <1>t DEF Transactions
  <2>4. tx' = [q \in Requests |-> IF q = r THEN t ELSE other(q)]
    BY <1>4 DEF Refresh
  <2>5. forked' \subseteq Ids
    <3>1. forked' = forked \/ forked' = forked \cup {sessions[s].root}
      BY <1>4 DEF Refresh
    <3> QED
      BY <2>1, <3>1 DEF TypeOK, SessionRows
  <2> HIDE DEF t, other
  <2>6. tx' \in [Requests -> Transactions]
    BY <2>2, <2>3, <2>4
  <2> QED
    BY <1>4, <2>5, <2>6 DEF Refresh, TypeOK
<1>5. ASSUME NEW r \in Requests, CommitRefresh(r) PROVE TypeOK'
  <2>1. tx[r].user \in Users /\ tx[r].session \in Sessions
    BY <1>5 DEF CommitRefresh, Runs, OpenOK
  <2>2. Root(r) \in Ids
    BY <2>1, SessionTypes DEF Root, SessionRows
  <2>3. Create(Root(r), r) \in SessionRows
    BY <2>1, <2>2, CreateRow
  <2>4. sessions' \in Seq(SessionRows)
    BY <1>5, <2>3, AppendRow, RevokeRows DEF CommitRefresh
  <2> QED
    BY <1>5, <1>c, <2>4 DEF CommitRefresh, TypeOK, historyVars
<1>6. ASSUME NEW r \in Requests, NEW s \in Sessions, Logout(r, s) PROVE TypeOK'
  <2> DEFINE free == \A q \in Open("refresh") : Root(q) # sessions[s].root
             t == [Idle EXCEPT !.op = "logout", !.phase = "admitted", !.user = sessions[s].user,
                     !.session = s, !.alone = free]
  <2>1. sessions[s].user \in Users /\ s \in Ids /\ free \in BOOLEAN
    BY SessionTypes DEF SessionRows
  <2>2. tx' = [tx EXCEPT ![r] = t]
    BY <1>6 DEF Logout
  <2> HIDE DEF free
  <2>3. t \in Transactions
    BY <2>1, IdleType DEF Transactions, Operations
  <2> HIDE DEF t
  <2> QED
    BY <1>6, <2>2, <2>3 DEF Logout, TypeOK, historyVars
<1>7. ASSUME NEW r \in Requests, FindSession(r) PROVE TypeOK'
  <2>1. [tx[r] EXCEPT !.phase = "loaded"] \in Transactions
    BY <1>t DEF Transactions
  <2>2. tx' = [tx EXCEPT ![r].phase = "loaded"] => tx' \in [Requests -> Transactions]
    BY <2>1 DEF TypeOK
  <2> QED
    BY <1>7, <1>c, <2>2 DEF FindSession, TypeOK, historyVars
<1>8. ASSUME NEW r \in Requests, CommitLogout(r) PROVE TypeOK'
  <2>1. sessions' \in Seq(SessionRows)
    BY <1>8, RevokeRows DEF CommitLogout
  <2>2. tx[r].session \in Sessions
    BY <1>8 DEF CommitLogout, Runs, OpenOK
  <2>3. Root(r) \in Ids
    BY <2>2, SessionTypes DEF Root, SessionRows
  <2>4. ended' \subseteq Ids
    BY <1>8, <2>3 DEF CommitLogout, TypeOK
  <2> QED
    BY <1>8, <1>c, <2>1, <2>4 DEF CommitLogout, TypeOK
<1>9. ASSUME NEW r \in Requests, NEW u \in Users, Disable(r, u) PROVE TypeOK'
  <2> DEFINE t == [Idle EXCEPT !.op = "disable", !.user = u,
                     !.phase = IF active[u] THEN "loaded" ELSE "locked"]
             other(q) == IF tx[q].user = u THEN [tx[q] EXCEPT !.clean = FALSE] ELSE tx[q]
  <2>1. t \in Transactions
    BY IdleType DEF Transactions, Operations
  <2>2. ASSUME NEW q \in Requests PROVE other(q) \in Transactions
    BY <1>t DEF Transactions
  <2>3. tx' = [q \in Requests |-> IF q = r THEN t ELSE other(q)]
    BY <1>9 DEF Disable
  <2>4. disables' \in 0..MaxDisables
    BY <1>9, BoundsAssumption DEF Disable, TypeOK
  <2> HIDE DEF t, other
  <2>5. tx' \in [Requests -> Transactions]
    BY <2>1, <2>2, <2>3
  <2> QED
    BY <1>9, <2>4, <2>5 DEF Disable, TypeOK, historyVars
<1>10. ASSUME NEW r \in Requests, ListSessions(r) PROVE TypeOK'
  <2> DEFINE all == {s \in Sessions : sessions[s].user = tx[r].user /\ ~Revoked(s)}
             t == [tx[r] EXCEPT !.phase = "listed", !.found = all]
  <2>1. all \subseteq Ids
    BY SessionTypes
  <2>2. tx' = [tx EXCEPT ![r] = t]
    BY <1>10 DEF ListSessions
  <2> HIDE DEF all
  <2>3. t \in Transactions
    BY <1>t, <2>1 DEF Transactions
  <2> HIDE DEF t
  <2> QED
    BY <1>10, <2>2, <2>3 DEF ListSessions, TypeOK, historyVars
<1>11. ASSUME NEW r \in Requests, CommitDisable(r) PROVE TypeOK'
  <2> DEFINE other(q) == IF q = r THEN Idle
                         ELSE IF tx[q].user = tx[r].user THEN [tx[q] EXCEPT !.late = TRUE]
                         ELSE tx[q]
             after(s) == IF s \in tx[r].found THEN Over(sessions[s], "revoked")
                         ELSE IF Live(s) /\ sessions[s].user = tx[r].user
                         THEN [sessions[s] EXCEPT !.late = TRUE]
                         ELSE sessions[s]
  <2>1. ASSUME NEW q \in Requests PROVE other(q) \in Transactions
    BY ZenonT(60), <1>t, IdleType DEF Transactions
  <2>2. ASSUME NEW s \in Sessions PROVE after(s) \in SessionRows
    <3>1. sessions[s] \in SessionRows
      BY SessionTypes
    <3>2. [sessions[s] EXCEPT !.late = TRUE] \in SessionRows
      BY <3>1 DEF SessionRows
    <3> QED
      BY <3>1, <3>2, OverRow
  <2>3. tx' = [q \in Requests |-> other(q)] /\ sessions' = [s \in Sessions |-> after(s)]
    BY <1>11 DEF CommitDisable
  <2>4. active' \in [Users -> BOOLEAN]
    BY <1>11, <1>t DEF CommitDisable, TypeOK, Transactions
  <2> HIDE DEF other, after
  <2>5. tx' \in [Requests -> Transactions]
    BY <2>1, <2>3
  <2>6. sessions' \in Seq(SessionRows)
    <3>1. sessions' \in [1..Len(sessions) -> SessionRows]
      BY <2>2, <2>3, SessionTypes
    <3> QED
      BY <3>1, SessionTypes, FunctionSeq
  <2> QED
    BY <1>11, <2>4, <2>5, <2>6 DEF CommitDisable, TypeOK, historyVars
<1>12. ASSUME NEW u \in Users, Enable(u) PROVE TypeOK'
  BY <1>12 DEF Enable, TypeOK, historyVars
<1>13. ASSUME NEW s \in Sessions, Expire(s) PROVE TypeOK'
  <2>1. sessions' = [sessions EXCEPT ![s] = Over(sessions[s], "expired")]
    BY <1>13 DEF Expire
  <2>2. Over(sessions[s], "expired") \in SessionRows
    BY SessionTypes, OverRow
  <2>3. sessions' \in Seq(SessionRows)
    BY <2>1, <2>2, SessionTypes, ExceptSeq DEF TypeOK
  <2> QED
    BY <1>13, <2>3 DEF Expire, TypeOK, historyVars
<1>14. ASSUME NEW r \in Requests, Fail(r) PROVE TypeOK'
  <2>1. failures' \in 0..MaxFailures
    BY <1>14, BoundsAssumption DEF Fail, TypeOK
  <2> QED
    BY <1>14, <1>c, <2>1 DEF Fail, TypeOK, historyVars
<1>15. CASE UNCHANGED vars
  BY <1>15 DEF vars, TypeOK, historyVars
<1> QED
  BY <1>1, <1>2, <1>3, <1>4, <1>5, <1>6, <1>7, <1>8, <1>9, <1>10, <1>11, <1>12, <1>13, <1>14, <1>15
  DEF Next, Begin, Proceed

-----------------------------------------------------------------------------
(* Steps that disturb little *)

\* Requests end, log in, disable, or stay with their session.
QuietRequests ==
  \A x \in Requests :
    \/ /\ tx'[x].op \in {"none", "login", "disable"}
       /\ tx'[x].op # "none" => tx'[x].user \in Users
    \/ /\ tx'[x].op = tx[x].op /\ tx'[x].user = tx[x].user /\ tx'[x].session = tx[x].session
       /\ tx'[x].alone => tx[x].alone

\* Sessions end or stay.
QuietSessions ==
  /\ DOMAIN sessions' = Sessions /\ Len(sessions') = Len(sessions)
  /\ \A s \in Sessions :
       /\ sessions'[s].root = sessions[s].root
       /\ sessions'[s].state = "live" => sessions[s].state = "live"

\* Such a step keeps what is said of logins.
LEMMA QuietStep ==
  ASSUME Inv, QuietRequests, QuietSessions, forked' = forked
  PROVE  OpenOK' /\ RootsOK' /\ LoginOK' /\ (ended' = ended => EndOK')
<1>1. OpenOK'
  BY DEF Inv, OpenOK, QuietRequests, QuietSessions, Sessions
<1>2. RootsOK'
  BY DEF Inv, RootsOK, QuietSessions, Sessions
<1>r. ASSUME NEW x \in Requests, tx'[x].op \in {"refresh", "logout"}
      PROVE  /\ tx'[x].op = tx[x].op /\ tx'[x].session = tx[x].session
             /\ tx'[x].alone => tx[x].alone
             /\ tx[x].session \in Sessions
             /\ Root(x)' = Root(x)
  <2>1. tx'[x].op = tx[x].op /\ tx'[x].session = tx[x].session /\ (tx'[x].alone => tx[x].alone)
    BY <1>r DEF QuietRequests
  <2>2. tx[x].session \in Sessions
    BY <1>r, <2>1 DEF Inv, OpenOK
  <2> QED
    BY <2>1, <2>2 DEF Root, QuietSessions
<1>3. LoginOK'
  <2>1. (\A s, t \in Sessions :
           Live(s) /\ Live(t) /\ sessions[s].root = sessions[t].root /\ s # t =>
             sessions[s].root \in forked)'
    BY DEF Inv, LoginOK, QuietSessions, Sessions, Live
  <2>2. (\A r \in Requests, s \in Sessions :
           Runs(r, "refresh") /\ Live(s) /\ sessions[s].root = Root(r) /\ s # tx[r].session =>
             Root(r) \in forked)'
    BY <1>r DEF Inv, LoginOK, QuietSessions, Sessions, Live, Runs
  <2>3. (\A r, q \in Requests :
           Runs(r, "refresh") /\ Runs(q, "refresh") /\ Root(r) = Root(q) /\ r # q =>
             Root(r) \in forked)'
    BY <1>r DEF Inv, LoginOK, Runs
  <2> QED
    BY <2>1, <2>2, <2>3 DEF LoginOK
<1>4. ASSUME ended' = ended PROVE EndOK'
  <2>1. (\A r, q \in Requests :
           Runs(r, "logout") /\ tx[r].alone /\ Runs(q, "refresh") => Root(q) # Root(r))'
    BY <1>r DEF Inv, EndOK, Runs
  <2>2. (\A s \in Sessions : Live(s) /\ sessions[s].root \in ended =>
           sessions[s].root \in forked)'
    BY <1>4 DEF Inv, EndOK, QuietSessions, Sessions, Live
  <2>3. (\A r \in Requests : Runs(r, "refresh") /\ Root(r) \in ended => Root(r) \in forked)'
    BY <1>4, <1>r DEF Inv, EndOK, Runs
  <2>4. (\A n \in ended : n <= Len(sessions))'
    BY <1>4 DEF Inv, EndOK, QuietSessions
  <2> QED
    BY <2>1, <2>2, <2>3, <2>4 DEF EndOK
<1> QED
  BY <1>1, <1>2, <1>3, <1>4

\* What creates a session was there before or has seen no disabling; a disabling was
\* there before or has marked the others; one that has listed the sessions was so before
\* or has found them all; a live session was there before, or is not clean.
CleanStep ==
  /\ \A x \in Requests : tx'[x].op \in Creating =>
       \/ /\ tx[x].op \in Creating /\ tx'[x].user = tx[x].user
          /\ tx'[x].clean => tx[x].clean
          /\ tx'[x].late => tx[x].late \/ ~tx'[x].clean
       \/ /\ ~tx'[x].late
          /\ tx'[x].clean => \A d \in Requests : tx[d].op = "disable" => tx[d].user # tx'[x].user
  /\ \A d \in Requests : tx'[d].op = "disable" =>
       \/ tx[d].op = "disable" /\ tx'[d].user = tx[d].user
       \/ \A x \in Requests :
            tx'[x].op \in Creating /\ tx'[x].user = tx'[d].user => ~tx'[x].clean
  /\ \A d \in Requests : tx'[d].op = "disable" /\ tx'[d].phase = "listed" =>
       \/ /\ tx[d].op = "disable" /\ tx[d].phase = "listed" /\ tx'[d].user = tx[d].user
          /\ tx'[d].found = tx[d].found
       \/ \A s \in DOMAIN sessions' :
            sessions'[s].state = "live" /\ sessions'[s].user = tx'[d].user => s \in tx'[d].found
  /\ \A s \in DOMAIN sessions' : sessions'[s].state = "live" =>
       \/ /\ s \in Sessions /\ sessions[s].state = "live"
          /\ sessions'[s].user = sessions[s].user
          /\ sessions'[s].clean = sessions[s].clean
          /\ sessions'[s].late => sessions[s].late \/ ~sessions[s].clean
       \/ /\ sessions'[s].late => ~sessions'[s].clean
          /\ \A d \in Requests :
               tx[d].op = "disable" /\ tx[d].user = sessions'[s].user => ~sessions'[s].clean

\* Such a step keeps what is said of disabling.
LEMMA CleanKept ==
  ASSUME CleanOK, CleanStep
  PROVE  CleanOK'
<1>1. ASSUME NEW x \in Requests, NEW d \in Requests,
             tx'[x].op \in Creating, tx'[d].op = "disable", tx'[x].user = tx'[d].user
      PROVE  ~tx'[x].clean
  BY <1>1 DEF CleanOK, CleanStep, Runs
<1>2. ASSUME NEW x \in Requests, tx'[x].op \in Creating, tx'[x].late PROVE ~tx'[x].clean
  BY <1>2 DEF CleanOK, CleanStep
<1>3. ASSUME NEW d \in Requests, NEW s \in DOMAIN sessions',
             tx'[d].op = "disable", tx'[d].phase = "listed", sessions'[s].state = "live",
             sessions'[s].user = tx'[d].user, sessions'[s].clean
      PROVE  s \in tx'[d].found
  BY <1>3 DEF CleanOK, CleanStep, Runs, Live
<1>4. ASSUME NEW s \in DOMAIN sessions', sessions'[s].state = "live", sessions'[s].late
      PROVE  ~sessions'[s].clean
  BY <1>4 DEF CleanOK, CleanStep, Live
<1> QED
  BY <1>1, <1>2, <1>3, <1>4 DEF CleanOK, Runs, Live, Sessions

-----------------------------------------------------------------------------
(* The steps *)

\* Nothing is open and nothing created in the beginning.
LEMMA InvInit == Init => Inv
<1> SUFFICES ASSUME Init PROVE Inv
  OBVIOUS
<1>1. \A r \in Requests : tx[r] = Idle
  BY DEF Init
<1>2. Sessions = {} /\ ended = {}
  BY DEF Init, Sessions
<1> QED
  BY <1>1, <1>2, IdleType, TypeInit
  DEF Inv, OpenOK, RootsOK, CleanOK, LoginOK, EndOK, Creating, Runs

\* A request that ends is quiet, and so are the others.
LEMMA CloseQuiet ==
  ASSUME TypeOK, NEW r \in Requests, Close(r)
  PROVE  /\ QuietRequests
         /\ tx'[r] = Idle /\ \A q \in Requests \ {r} : tx'[q] = tx[q]
BY IdleType DEF Close, QuietRequests, TypeOK

\* Locking a row changes nothing that is spoken of.
LEMMA LockKeeps ==
  ASSUME Inv, NEW r \in Requests, MarkLoggedIn(r) \/ Touch(r) \/ SetActive(r)
  PROVE  OpenOK' /\ RootsOK' /\ LoginOK' /\ EndOK' /\ CleanOK'
<1>1. /\ sessions' = sessions /\ forked' = forked /\ ended' = ended
      /\ tx' = [tx EXCEPT ![r].phase = "locked", ![r].holds = TRUE]
  BY DEF MarkLoggedIn, Touch, SetActive, historyVars
<1>2. \A x \in Requests :
        /\ tx'[x].op = tx[x].op /\ tx'[x].user = tx[x].user /\ tx'[x].session = tx[x].session
        /\ tx'[x].alone = tx[x].alone /\ tx'[x].clean = tx[x].clean /\ tx'[x].late = tx[x].late
        /\ tx'[x].found = tx[x].found
        /\ tx'[x].phase = "listed" => tx[x].phase = "listed"
  BY <1>1, TxTypes DEF Inv, TypeOK, Transactions
<1>3. QuietRequests /\ QuietSessions
  BY <1>1, <1>2 DEF QuietRequests, QuietSessions, Sessions
<1>4. CleanStep
  BY <1>1, <1>2 DEF CleanStep, Sessions
<1> QED
  BY <1>1, <1>3, <1>4, QuietStep, CleanKept DEF Inv

\* A request that fails, or a logout that finds its session revoked.
LEMMA CloseKeeps ==
  ASSUME Inv, NEW r \in Requests, Close(r),
         sessions' = sessions, forked' = forked, ended' = ended
  PROVE  OpenOK' /\ RootsOK' /\ LoginOK' /\ EndOK' /\ CleanOK'
<1>1. /\ QuietRequests
      /\ tx'[r] = Idle /\ \A q \in Requests \ {r} : tx'[q] = tx[q]
  BY CloseQuiet DEF Inv
<1>2. QuietSessions
  BY DEF QuietSessions, Sessions
<1>3. CleanStep
  BY <1>1, IdleType DEF CleanStep, Sessions, Creating
<1> QED
  BY <1>1, <1>2, <1>3, QuietStep, CleanKept DEF Inv

\* A logout that goes on.
LEMMA FindKeeps ==
  ASSUME Inv, NEW r \in Requests, FindSession(r)
  PROVE  OpenOK' /\ RootsOK' /\ LoginOK' /\ EndOK' /\ CleanOK'
<1>1. sessions' = sessions /\ forked' = forked /\ ended' = ended
  BY DEF FindSession, historyVars
<1>2. CASE Close(r)
  BY <1>1, <1>2, CloseKeeps
<1>3. CASE tx' = [tx EXCEPT ![r].phase = "loaded"]
  <2>2. \A x \in Requests :
          /\ tx'[x].op = tx[x].op /\ tx'[x].user = tx[x].user
          /\ tx'[x].session = tx[x].session
          /\ tx'[x].alone = tx[x].alone /\ tx'[x].clean = tx[x].clean
          /\ tx'[x].late = tx[x].late /\ tx'[x].found = tx[x].found
          /\ tx'[x].phase = "listed" => tx[x].phase = "listed"
    BY <1>3, TxTypes DEF Inv, TypeOK, Transactions
  <2>3. QuietRequests /\ QuietSessions
    BY <1>1, <2>2 DEF QuietRequests, QuietSessions, Sessions
  <2>4. CleanStep
    BY <1>1, <2>2 DEF CleanStep, Sessions
  <2> QED
    BY <1>1, <2>3, <2>4, QuietStep, CleanKept DEF Inv
<1> QED
  BY <1>2, <1>3 DEF FindSession

\* A login begins: it is clean if no disabling of the user is open.
LEMMA LoginKeeps ==
  ASSUME Inv, NEW r \in Requests, NEW u \in Users, Login(r, u)
  PROVE  OpenOK' /\ RootsOK' /\ LoginOK' /\ EndOK' /\ CleanOK'
<1>1. sessions' = sessions /\ forked' = forked /\ ended' = ended
  BY DEF Login, historyVars
<1>2. /\ tx'[r].op = "login" /\ tx'[r].user = u /\ tx'[r].late = FALSE
      /\ tx'[r].clean = ~Disabling(u)
  BY IdleType DEF Login, Inv, TypeOK, Idle
<1>3. \A q \in Requests \ {r} : tx'[q] = tx[q]
  BY DEF Login, Inv, TypeOK
<1>4. QuietRequests /\ QuietSessions
  BY <1>1, <1>2, <1>3 DEF QuietRequests, QuietSessions, Sessions
<1>5. CleanStep
  <2>1. \A d \in Requests : tx[d].op = "disable" /\ tx[d].user = u => ~tx'[r].clean
    BY <1>2 DEF Disabling, Open, Runs
  <2> QED
    BY <1>1, <1>2, <1>3, <2>1 DEF CleanStep, Sessions, Creating
<1> QED
  BY <1>1, <1>4, <1>5, QuietStep, CleanKept DEF Inv

\* A disabling begins and marks the requests of the user.
LEMMA DisableKeeps ==
  ASSUME Inv, NEW r \in Requests, NEW u \in Users, Disable(r, u)
  PROVE  OpenOK' /\ RootsOK' /\ LoginOK' /\ EndOK' /\ CleanOK'
<1>1. sessions' = sessions /\ forked' = forked /\ ended' = ended
  BY DEF Disable, historyVars
<1>2. tx'[r].op = "disable" /\ tx'[r].user = u /\ tx'[r].phase # "listed"
  BY DEF Disable, Idle
<1>3. \A q \in Requests \ {r} :
        /\ tx'[q].op = tx[q].op /\ tx'[q].user = tx[q].user /\ tx'[q].session = tx[q].session
        /\ tx'[q].alone = tx[q].alone /\ tx'[q].late = tx[q].late
        /\ tx'[q].found = tx[q].found /\ tx'[q].phase = tx[q].phase
        /\ tx'[q].clean => tx[q].clean
        /\ tx'[q].user = u => ~tx'[q].clean
  <2> SUFFICES ASSUME NEW q \in Requests \ {r}
               PROVE  /\ tx'[q].op = tx[q].op /\ tx'[q].user = tx[q].user
                      /\ tx'[q].session = tx[q].session
                      /\ tx'[q].alone = tx[q].alone /\ tx'[q].late = tx[q].late
                      /\ tx'[q].found = tx[q].found /\ tx'[q].phase = tx[q].phase
                      /\ tx'[q].clean => tx[q].clean
                      /\ tx'[q].user = u => ~tx'[q].clean
    OBVIOUS
  <2>1. tx[q] \in Transactions
    BY TxTypes DEF Inv
  <2>2. tx'[q] = IF tx[q].user = u THEN [tx[q] EXCEPT !.clean = FALSE] ELSE tx[q]
    BY DEF Disable
  <2> QED
    BY <2>1, <2>2 DEF Transactions
<1>4. QuietRequests /\ QuietSessions
  BY <1>1, <1>2, <1>3 DEF QuietRequests, QuietSessions, Sessions
<1>5. CleanStep
  BY <1>1, <1>2, <1>3 DEF CleanStep, Sessions, Creating
<1> QED
  BY <1>1, <1>4, <1>5, QuietStep, CleanKept DEF Inv

\* A disabling lists all the sessions of the user that are left.
LEMMA ListKeeps ==
  ASSUME Inv, NEW r \in Requests, ListSessions(r)
  PROVE  OpenOK' /\ RootsOK' /\ LoginOK' /\ EndOK' /\ CleanOK'
<1> DEFINE all == {s \in Sessions : sessions[s].user = tx[r].user /\ ~Revoked(s)}
<1>1. sessions' = sessions /\ forked' = forked /\ ended' = ended
  BY DEF ListSessions, historyVars
<1>2. /\ tx' = [tx EXCEPT ![r].phase = "listed", ![r].found = all]
      /\ \A s \in Sessions : Live(s) /\ sessions[s].user = tx[r].user => s \in all
  BY DEF ListSessions, Live, Revoked
<1> HIDE DEF all
<1>3. \A x \in Requests :
        /\ tx'[x].op = tx[x].op /\ tx'[x].user = tx[x].user
        /\ tx'[x].session = tx[x].session /\ tx'[x].alone = tx[x].alone
        /\ tx'[x].clean = tx[x].clean /\ tx'[x].late = tx[x].late
        /\ x # r => tx'[x] = tx[x]
  BY <1>2, TxTypes DEF Inv, TypeOK, Transactions
<1>4. tx'[r].found = all
  BY <1>2, TxTypes DEF Inv, TypeOK, Transactions
<1>5. QuietRequests /\ QuietSessions
  BY <1>1, <1>3 DEF QuietRequests, QuietSessions, Sessions
<1>6. CleanStep
  BY ZenonT(60), <1>1, <1>2, <1>3, <1>4 DEF CleanStep, Sessions, Live
<1> QED
  BY <1>1, <1>5, <1>6, QuietStep, CleanKept DEF Inv

\* A disabling commits: what is left of the user's sessions was not clean.
LEMMA CommitDisableKeeps ==
  ASSUME Inv, NEW r \in Requests, CommitDisable(r)
  PROVE  OpenOK' /\ RootsOK' /\ LoginOK' /\ EndOK' /\ CleanOK'
<1>1. forked' = forked /\ ended' = ended
  BY DEF CommitDisable, historyVars
<1>2. tx[r].op = "disable" /\ tx[r].phase = "listed"
  BY DEF CommitDisable, Runs
<1>3. tx'[r] = Idle
  BY DEF CommitDisable
<1>4. \A q \in Requests \ {r} :
        /\ tx'[q].op = tx[q].op /\ tx'[q].user = tx[q].user /\ tx'[q].session = tx[q].session
        /\ tx'[q].alone = tx[q].alone /\ tx'[q].clean = tx[q].clean
        /\ tx'[q].found = tx[q].found /\ tx'[q].phase = tx[q].phase
        /\ tx'[q].late => tx[q].late \/ tx[q].user = tx[r].user
  <2> SUFFICES ASSUME NEW q \in Requests \ {r}
               PROVE  /\ tx'[q].op = tx[q].op /\ tx'[q].user = tx[q].user
                      /\ tx'[q].session = tx[q].session
                      /\ tx'[q].alone = tx[q].alone /\ tx'[q].clean = tx[q].clean
                      /\ tx'[q].found = tx[q].found /\ tx'[q].phase = tx[q].phase
                      /\ tx'[q].late => tx[q].late \/ tx[q].user = tx[r].user
    OBVIOUS
  <2>1. tx[q] \in Transactions
    BY TxTypes DEF Inv
  <2>2. tx'[q] = IF tx[q].user = tx[r].user THEN [tx[q] EXCEPT !.late = TRUE] ELSE tx[q]
    BY DEF CommitDisable
  <2> QED
    BY <2>1, <2>2 DEF Transactions
<1>5. \A s \in Sessions :
        /\ sessions'[s].user = sessions[s].user /\ sessions'[s].root = sessions[s].root
        /\ sessions'[s].state = "live" =>
             /\ sessions[s].state = "live" /\ sessions'[s].clean = sessions[s].clean
             /\ sessions'[s].late => sessions[s].late \/ ~sessions[s].clean
  <2> SUFFICES ASSUME NEW s \in Sessions
               PROVE  /\ sessions'[s].user = sessions[s].user
                      /\ sessions'[s].root = sessions[s].root
                      /\ sessions'[s].state = "live" =>
                           /\ sessions[s].state = "live"
                           /\ sessions'[s].clean = sessions[s].clean
                           /\ sessions'[s].late => sessions[s].late \/ ~sessions[s].clean
    OBVIOUS
  <2>1. sessions[s] \in SessionRows
    BY SessionTypes DEF Inv
  <2>2. sessions'[s] = IF s \in tx[r].found THEN Over(sessions[s], "revoked")
                       ELSE IF Live(s) /\ sessions[s].user = tx[r].user
                       THEN [sessions[s] EXCEPT !.late = TRUE]
                       ELSE sessions[s]
    BY DEF CommitDisable
  <2>3. CASE s \in tx[r].found
    BY <2>1, <2>2, <2>3, OverRow
  <2>4. CASE s \notin tx[r].found /\ Live(s) /\ sessions[s].user = tx[r].user
    <3>1. ~sessions[s].clean
      BY <1>2, <2>4 DEF Inv, CleanOK, Runs
    <3>2. sessions'[s] = [sessions[s] EXCEPT !.late = TRUE]
      BY <2>2, <2>4
    <3> QED
      BY <2>1, <2>4, <3>1, <3>2 DEF SessionRows, Live
  <2>5. CASE s \notin tx[r].found /\ ~(Live(s) /\ sessions[s].user = tx[r].user)
    BY <2>2, <2>5
  <2> QED
    BY <2>3, <2>4, <2>5
<1>6. DOMAIN sessions' = Sessions /\ Len(sessions') = Len(sessions)
  <2>1. sessions' \in [1..Len(sessions) -> SessionRows] /\ Len(sessions) \in Nat
    <3>1. TypeOK' /\ TypeOK
      BY TypeNext DEF Inv, Next, Proceed
    <3>2. sessions' \in Seq(SessionRows) /\ DOMAIN sessions' = 1..Len(sessions)
      BY <3>1, SessionTypes DEF TypeOK, CommitDisable
    <3> QED
      BY <3>1, <3>2, SessionTypes, ElementOfSeq, LenProperties
  <2> QED
    BY <2>1, SessionTypes, FunctionSeq DEF Inv
<1>7. QuietRequests /\ QuietSessions
  BY <1>3, <1>4, <1>5, <1>6, IdleType DEF QuietRequests, QuietSessions
<1>8. CleanStep
  <2>1. \A q \in Requests : tx[q].op \in Creating /\ tx[q].user = tx[r].user => ~tx[q].clean
    BY <1>2 DEF Inv, CleanOK, Runs
  <2> QED
    BY <1>3, <1>4, <1>5, <1>6, <2>1, IdleType DEF CleanStep, Creating
<1> QED
  BY <1>1, <1>7, <1>8, QuietStep, CleanKept DEF Inv

\* A session passes its time.
LEMMA ExpireKeeps ==
  ASSUME Inv, NEW s \in Sessions, Expire(s)
  PROVE  OpenOK' /\ RootsOK' /\ LoginOK' /\ EndOK' /\ CleanOK'
<1>1. tx' = tx /\ forked' = forked /\ ended' = ended
  BY DEF Expire, historyVars
<1>2. sessions' = [sessions EXCEPT ![s] = Over(sessions[s], "expired")]
  BY DEF Expire
<1>3. /\ DOMAIN sessions' = Sessions /\ Len(sessions') = Len(sessions)
      /\ \A t \in Sessions \ {s} : sessions'[t] = sessions[t]
      /\ sessions'[s] = Over(sessions[s], "expired")
  <2>1. Over(sessions[s], "expired") \in SessionRows /\ s \in 1..Len(sessions)
    BY SessionTypes, OverRow DEF Inv
  <2> QED
    BY <1>2, <2>1, SessionTypes, ExceptSeq DEF Inv, TypeOK, Sessions
<1>4. sessions'[s].root = sessions[s].root /\ sessions'[s].state # "live"
  BY <1>3, OverRow, SessionTypes DEF Inv
<1>5. QuietRequests /\ QuietSessions
  BY <1>1, <1>3, <1>4 DEF QuietRequests, QuietSessions
<1>6. CleanStep
  BY <1>1, <1>3, <1>4 DEF CleanStep
<1> QED
  BY <1>1, <1>5, <1>6, QuietStep, CleanKept DEF Inv

\* A login commits a session that is its own root.
LEMMA CommitLoginKeeps ==
  ASSUME Inv, NEW r \in Requests, CommitLogin(r)
  PROVE  OpenOK' /\ RootsOK' /\ LoginOK' /\ EndOK' /\ CleanOK'
<1> DEFINE new == Create(NewId, r)
           n == Len(sessions) + 1
<1>1. forked' = forked /\ ended' = ended
  BY DEF CommitLogin, historyVars
<1>2. tx[r].op = "login" /\ tx[r].user \in Users
  BY DEF CommitLogin, Runs, Inv, OpenOK
<1>3. tx'[r] = Idle /\ \A q \in Requests \ {r} : tx'[q] = tx[q]
  BY CloseQuiet DEF CommitLogin, Inv
<1>4. /\ new \in SessionRows /\ new.user = tx[r].user /\ new.root = n
      /\ new.clean = tx[r].clean /\ new.late = tx[r].late
  BY <1>2, SessionTypes, CreateRow DEF Inv, NewId, Ids
<1>5. /\ DOMAIN sessions' = Sessions \cup {n} /\ n \notin Sessions /\ Len(sessions') = n
      /\ sessions'[n] = new /\ \A s \in Sessions : sessions'[s] = sessions[s]
  <2>1. sessions' = Append(sessions, new)
    BY DEF CommitLogin
  <2> HIDE DEF new
  <2> QED
    BY <1>4, <2>1, AppendRow, SessionTypes DEF Inv, TypeOK
<1> HIDE DEF new
<1>6. \A s \in Sessions : sessions[s].root < n /\ sessions[s].root \in Nat
  BY SessionTypes DEF Inv, RootsOK, SessionRows, Ids
<1>7. ASSUME NEW x \in Requests, tx'[x].op \in {"refresh", "logout"}
      PROVE  tx'[x] = tx[x] /\ tx[x].session \in Sessions /\ Root(x)' = Root(x) /\ Root(x) < n
  <2>1. tx'[x] = tx[x]
    BY <1>3, <1>7, IdleType
  <2>2. tx[x].session \in Sessions
    BY <1>7, <2>1 DEF Inv, OpenOK
  <2> QED
    BY <1>5, <1>6, <2>1, <2>2 DEF Root
<1>8. n \in Nat
  BY SessionTypes DEF Inv
<1>a. OpenOK'
  BY <1>3, <1>5, IdleType DEF Inv, OpenOK, Sessions
<1>b. RootsOK'
  BY <1>4, <1>5, <1>6, <1>8 DEF RootsOK, Sessions
<1>c. LoginOK'
  <2>1. (\A s, t \in Sessions :
           Live(s) /\ Live(t) /\ sessions[s].root = sessions[t].root /\ s # t =>
             sessions[s].root \in forked)'
    BY <1>1, <1>4, <1>5, <1>6, <1>8 DEF Inv, LoginOK, Sessions, Live
  <2>2. (\A q \in Requests, s \in Sessions :
           Runs(q, "refresh") /\ Live(s) /\ sessions[s].root = Root(q) /\ s # tx[q].session =>
             Root(q) \in forked)'
    BY <1>1, <1>4, <1>5, <1>7, <1>8 DEF Inv, LoginOK, Sessions, Live, Runs
  <2>3. (\A x, q \in Requests :
           Runs(x, "refresh") /\ Runs(q, "refresh") /\ Root(x) = Root(q) /\ x # q =>
             Root(x) \in forked)'
    BY <1>1, <1>7 DEF Inv, LoginOK, Runs
  <2> QED
    BY <2>1, <2>2, <2>3 DEF LoginOK
<1>d. EndOK'
  <2>1. (\A x, q \in Requests :
           Runs(x, "logout") /\ tx[x].alone /\ Runs(q, "refresh") => Root(q) # Root(x))'
    BY <1>7 DEF Inv, EndOK, Runs
  <2>2. (\A s \in Sessions : Live(s) /\ sessions[s].root \in ended =>
           sessions[s].root \in forked)'
    <3>1. n \notin ended
      BY <1>8, SessionTypes DEF Inv, EndOK
    <3> QED
      BY <1>1, <1>4, <1>5, <3>1 DEF Inv, EndOK, Sessions, Live
  <2>3. (\A x \in Requests : Runs(x, "refresh") /\ Root(x) \in ended => Root(x) \in forked)'
    BY <1>1, <1>7 DEF Inv, EndOK, Runs
  <2>4. (\A k \in ended : k <= Len(sessions))'
    <3>1. \A k \in ended : k \in Nat /\ k <= Len(sessions) /\ Len(sessions) \in Nat
      BY SessionTypes DEF Inv, EndOK, TypeOK, Ids
    <3> QED
      BY <1>1, <1>5, <3>1
  <2> QED
    BY <2>1, <2>2, <2>3, <2>4 DEF EndOK
<1>e. CleanStep
  <2>1. \A d \in Requests : tx[d].op = "disable" /\ tx[d].user = new.user => ~new.clean
    BY <1>2, <1>4 DEF Inv, CleanOK, Creating, Runs
  <2>2. new.late => ~new.clean
    BY <1>2, <1>4 DEF Inv, CleanOK, Creating
  <2> QED
    BY <1>3, <1>5, <2>1, <2>2, IdleType DEF CleanStep, Creating
<1> QED
  BY <1>a, <1>b, <1>c, <1>d, <1>e, CleanKept DEF Inv

\* A refresh begins: a rival makes its login forked, a logout is no longer alone.
LEMMA RefreshKeeps ==
  ASSUME Inv, NEW r \in Requests, NEW s0 \in Sessions, Refresh(r, s0)
  PROVE  OpenOK' /\ RootsOK' /\ LoginOK' /\ EndOK' /\ CleanOK'
<1> DEFINE u == sessions[s0].user
           k == sessions[s0].root
<1>1. /\ sessions' = sessions /\ ended' = ended /\ Live(s0)
      /\ forked \subseteq forked' /\ forked' \subseteq forked \cup {k}
      /\ \A q \in Requests : Runs(q, "refresh") /\ tx[q].session = s0 => k \in forked'
  BY DEF Refresh, Open
<1>2. /\ tx'[r].op = "refresh" /\ tx'[r].user = u /\ tx'[r].session = s0
      /\ tx'[r].late = FALSE /\ tx'[r].clean = (sessions[s0].clean /\ ~Disabling(u))
  BY DEF Refresh, Idle
<1>3. \A q \in Requests \ {r} :
        /\ tx'[q].op = tx[q].op /\ tx'[q].user = tx[q].user /\ tx'[q].session = tx[q].session
        /\ tx'[q].clean = tx[q].clean /\ tx'[q].late = tx[q].late
        /\ tx'[q].found = tx[q].found /\ tx'[q].phase = tx[q].phase
        /\ tx'[q].alone => tx[q].alone
        /\ Runs(q, "logout") /\ Root(q) = k => ~tx'[q].alone
  <2> SUFFICES ASSUME NEW q \in Requests \ {r}
               PROVE  /\ tx'[q].op = tx[q].op /\ tx'[q].user = tx[q].user
                      /\ tx'[q].session = tx[q].session
                      /\ tx'[q].clean = tx[q].clean /\ tx'[q].late = tx[q].late
                      /\ tx'[q].found = tx[q].found /\ tx'[q].phase = tx[q].phase
                      /\ tx'[q].alone => tx[q].alone
                      /\ Runs(q, "logout") /\ Root(q) = k => ~tx'[q].alone
    OBVIOUS
  <2>1. tx[q] \in Transactions
    BY TxTypes DEF Inv
  <2>2. tx'[q] = IF Runs(q, "logout") /\ Root(q) = k THEN [tx[q] EXCEPT !.alone = FALSE]
                 ELSE tx[q]
    BY DEF Refresh
  <2> QED
    BY <2>1, <2>2 DEF Transactions
<1>4. u \in Users
  BY SessionTypes DEF Inv, SessionRows
<1>5. ASSUME NEW x \in Requests, x # r, tx'[x].op \in {"refresh", "logout"}
      PROVE  /\ tx'[x].op = tx[x].op /\ tx'[x].session = tx[x].session
             /\ tx[x].session \in Sessions /\ Root(x)' = Root(x)
  BY <1>1, <1>3, <1>5 DEF Inv, OpenOK, Root
<1>6. Root(r)' = k
  BY <1>1, <1>2 DEF Root
<1>a. OpenOK'
  BY <1>1, <1>2, <1>3, <1>4 DEF Inv, OpenOK, Sessions
<1>b. RootsOK'
  BY <1>1 DEF Inv, RootsOK, Sessions
<1>7. ASSUME NEW q \in Requests, q # r, tx'[q].op = "refresh", Root(q) = k
      PROVE  k \in forked'
  <2>1. CASE tx[q].session = s0
    BY <1>1, <1>3, <1>7, <2>1 DEF Runs
  <2>2. CASE tx[q].session # s0
    BY <1>1, <1>5, <1>7, <2>2 DEF Inv, LoginOK, Runs
  <2> QED
    BY <2>1, <2>2
<1>c. LoginOK'
  <2>1. (\A s, t \in Sessions :
           Live(s) /\ Live(t) /\ sessions[s].root = sessions[t].root /\ s # t =>
             sessions[s].root \in forked)'
    BY <1>1 DEF Inv, LoginOK, Sessions, Live
  <2>2. (\A q \in Requests, s \in Sessions :
           Runs(q, "refresh") /\ Live(s) /\ sessions[s].root = Root(q) /\ s # tx[q].session =>
             Root(q) \in forked)'
    <3>1. ASSUME NEW s \in Sessions, Live(s), sessions[s].root = k, s # s0
          PROVE  k \in forked'
      BY <1>1, <3>1 DEF Inv, LoginOK
    <3>2. ASSUME NEW q \in Requests, q # r, NEW s \in Sessions, tx'[q].op = "refresh",
                 Live(s), sessions[s].root = Root(q), s # tx[q].session
          PROVE  Root(q) \in forked'
      BY <1>1, <1>5, <3>2 DEF Inv, LoginOK, Runs
    <3> QED
      BY <1>1, <1>2, <1>5, <1>6, <3>1, <3>2 DEF Sessions, Live, Runs
  <2>3. (\A x, q \in Requests :
           Runs(x, "refresh") /\ Runs(q, "refresh") /\ Root(x) = Root(q) /\ x # q =>
             Root(x) \in forked)'
    <3>1. ASSUME NEW x \in Requests, NEW q \in Requests, x # r, q # r, x # q,
                 tx'[x].op = "refresh", tx'[q].op = "refresh", Root(x) = Root(q)
          PROVE  Root(x) \in forked'
      BY <1>1, <1>5, <3>1 DEF Inv, LoginOK, Runs
    <3> QED
      BY <1>5, <1>6, <1>7, <3>1 DEF Runs
  <2> QED
    BY <2>1, <2>2, <2>3 DEF LoginOK
<1>d. EndOK'
  <2>1. (\A x, q \in Requests :
           Runs(x, "logout") /\ tx[x].alone /\ Runs(q, "refresh") => Root(q) # Root(x))'
    <3>1. ASSUME NEW x \in Requests, NEW q \in Requests, x # r, q # r,
                 tx'[x].op = "logout", tx'[x].alone, tx'[q].op = "refresh"
          PROVE  Root(q) # Root(x)
      BY <1>3, <1>5, <3>1 DEF Inv, EndOK, Runs
    <3>2. ASSUME NEW x \in Requests, x # r, tx'[x].op = "logout", tx'[x].alone
          PROVE  k # Root(x)
      BY <1>3, <1>5, <3>2 DEF Runs
    <3> QED
      BY <1>2, <1>5, <1>6, <3>1, <3>2 DEF Runs
  <2>2. (\A s \in Sessions : Live(s) /\ sessions[s].root \in ended =>
           sessions[s].root \in forked)'
    BY <1>1 DEF Inv, EndOK, Sessions, Live
  <2>3. (\A x \in Requests : Runs(x, "refresh") /\ Root(x) \in ended => Root(x) \in forked)'
    <3>1. k \in ended => k \in forked
      BY <1>1 DEF Inv, EndOK
    <3>2. ASSUME NEW x \in Requests, x # r, tx'[x].op = "refresh", Root(x) \in ended
          PROVE  Root(x) \in forked
      BY <1>5, <3>2 DEF Inv, EndOK, Runs
    <3> QED
      BY <1>1, <1>5, <1>6, <3>1, <3>2 DEF Runs
  <2>4. (\A m \in ended : m <= Len(sessions))'
    BY <1>1 DEF Inv, EndOK
  <2> QED
    BY <2>1, <2>2, <2>3, <2>4 DEF EndOK
<1>e. CleanStep
  <2>1. \A d \in Requests : tx[d].op = "disable" /\ tx[d].user = u => ~tx'[r].clean
    BY <1>2 DEF Disabling, Open, Runs
  <2> QED
    BY <1>1, <1>2, <1>3, <2>1 DEF CleanStep, Sessions, Creating
<1> QED
  BY <1>a, <1>b, <1>c, <1>d, <1>e, CleanKept DEF Inv

\* A refresh commits: its session is revoked and another of the same login created.
LEMMA RefreshCommitKeeps ==
  ASSUME Inv, NEW r \in Requests, CommitRefresh(r)
  PROVE  OpenOK' /\ RootsOK' /\ LoginOK' /\ EndOK' /\ CleanOK'
<1> DEFINE old == tx[r].session
           k == Root(r)
           new == Create(k, r)
           n == Len(sessions) + 1
<1>1. forked' = forked /\ ended' = ended
  BY DEF CommitRefresh, historyVars
<1>2. tx[r].op = "refresh" /\ tx[r].user \in Users /\ old \in Sessions
  BY DEF CommitRefresh, Runs, Inv, OpenOK
<1>3. tx'[r] = Idle /\ \A q \in Requests \ {r} : tx'[q] = tx[q]
  BY CloseQuiet DEF CommitRefresh, Inv
<1>n. n \in Nat /\ Len(sessions) \in Nat
  BY SessionTypes DEF Inv
<1>4. k \in Ids /\ k <= Len(sessions)
  BY <1>2, SessionTypes DEF Inv, RootsOK, Root, SessionRows
<1>5. /\ new \in SessionRows /\ new.user = tx[r].user /\ new.root = k
      /\ new.clean = tx[r].clean /\ new.late = tx[r].late
  BY <1>2, <1>4, CreateRow DEF Inv
<1>6. /\ DOMAIN sessions' = Sessions \cup {n} /\ n \notin Sessions /\ Len(sessions') = n
      /\ sessions'[n] = new
      /\ \A s \in Sessions \ {old} : sessions'[s] = sessions[s]
      /\ sessions'[old].root = sessions[old].root /\ sessions'[old].state # "live"
  <2> DEFINE rows == Revoke({old})
  <2>1. sessions' = Append(rows, new)
    BY DEF CommitRefresh
  <2>2. rows \in Seq(SessionRows) /\ Len(rows) = Len(sessions)
    BY RevokeRows DEF Inv
  <2>3. \A s \in Sessions : rows[s] = IF s = old THEN Over(sessions[s], "revoked") ELSE sessions[s]
    BY RevokeRows DEF Inv
  <2>4. /\ Over(sessions[old], "revoked").root = sessions[old].root
        /\ Over(sessions[old], "revoked").state # "live"
    BY <1>2, SessionTypes, OverRow DEF Inv
  <2>5. Sessions = 1..Len(sessions)
    BY SessionTypes DEF Inv
  <2> HIDE DEF rows, new, old
  <2>6. /\ DOMAIN sessions' = 1..(Len(rows) + 1) /\ Len(sessions') = Len(rows) + 1
        /\ sessions'[Len(rows) + 1] = new
        /\ \A s \in 1..Len(rows) : sessions'[s] = rows[s]
    BY <1>5, <2>1, <2>2, AppendRow
  <2>7. \A s \in Sessions : sessions'[s] = rows[s]
    BY <2>2, <2>5, <2>6
  <2>8. DOMAIN sessions' = Sessions \cup {n} /\ n \notin Sessions
    BY <1>n, <2>2, <2>5, <2>6
  <2> QED
    BY <1>2, <2>2, <2>3, <2>4, <2>6, <2>7, <2>8
<1>7. ASSUME NEW x \in Requests, tx'[x].op \in {"refresh", "logout"}
      PROVE  x # r /\ tx'[x] = tx[x] /\ tx[x].session \in Sessions /\ Root(x)' = Root(x)
  <2>1. x # r /\ tx'[x] = tx[x]
    BY <1>3, <1>7, IdleType
  <2>2. tx[x].session \in Sessions
    BY <1>7, <2>1 DEF Inv, OpenOK
  <2> QED
    BY <1>6, <2>1, <2>2 DEF Root
<1> HIDE DEF new, old, k, n
<1>a. OpenOK'
  BY <1>3, <1>6, IdleType DEF Inv, OpenOK, Sessions
<1>b. RootsOK'
  <2>1. \A s \in Sessions : sessions[s].root <= Len(sessions) /\ sessions[s].root \in Nat
    BY SessionTypes DEF Inv, RootsOK, SessionRows, Ids
  <2>2. Len(sessions) <= n /\ Len(sessions) \in Nat /\ n \in Nat /\ k \in Nat
    BY <1>n, <1>4 DEF n, Ids
  <2> QED
    BY <1>4, <1>5, <1>6, <2>1, <2>2 DEF RootsOK, Sessions
<1>8. ASSUME NEW s \in Sessions, s # old, Live(s), sessions[s].root = k PROVE k \in forked
  BY <1>2, <1>8 DEF Inv, LoginOK, Runs, k, old
<1>9. ASSUME NEW q \in Requests, q # r, Runs(q, "refresh"), Root(q) = k PROVE k \in forked
  BY <1>2, <1>9 DEF Inv, LoginOK, Runs, k
<1>c. LoginOK'
  <2>1. (\A s, t \in Sessions :
           Live(s) /\ Live(t) /\ sessions[s].root = sessions[t].root /\ s # t =>
             sessions[s].root \in forked)'
    BY <1>1, <1>5, <1>6, <1>8 DEF Inv, LoginOK, Sessions, Live
  <2>2. (\A q \in Requests, s \in Sessions :
           Runs(q, "refresh") /\ Live(s) /\ sessions[s].root = Root(q) /\ s # tx[q].session =>
             Root(q) \in forked)'
    BY <1>1, <1>5, <1>6, <1>7, <1>9 DEF Inv, LoginOK, Sessions, Live, Runs
  <2>3. (\A x, q \in Requests :
           Runs(x, "refresh") /\ Runs(q, "refresh") /\ Root(x) = Root(q) /\ x # q =>
             Root(x) \in forked)'
    BY <1>1, <1>7 DEF Inv, LoginOK, Runs
  <2> QED
    BY <2>1, <2>2, <2>3 DEF LoginOK
<1>d. EndOK'
  <2>1. (\A x, q \in Requests :
           Runs(x, "logout") /\ tx[x].alone /\ Runs(q, "refresh") => Root(q) # Root(x))'
    BY <1>7 DEF Inv, EndOK, Runs
  <2>2. (\A s \in Sessions : Live(s) /\ sessions[s].root \in ended =>
           sessions[s].root \in forked)'
    <3>1. k \in ended => k \in forked
      BY <1>2 DEF Inv, EndOK, Runs, k
    <3> QED
      BY <1>1, <1>5, <1>6, <3>1 DEF Inv, EndOK, Sessions, Live
  <2>3. (\A x \in Requests : Runs(x, "refresh") /\ Root(x) \in ended => Root(x) \in forked)'
    BY <1>1, <1>7 DEF Inv, EndOK, Runs
  <2>4. (\A m \in ended : m <= Len(sessions))'
    <3>1. \A m \in ended : m \in Nat /\ m <= Len(sessions)
      BY DEF Inv, EndOK, TypeOK, Ids
    <3> QED
      BY <1>1, <1>6, <1>n, <3>1 DEF n
  <2> QED
    BY <2>1, <2>2, <2>3, <2>4 DEF EndOK
<1>e. CleanStep
  <2>1. \A d \in Requests : tx[d].op = "disable" /\ tx[d].user = new.user => ~new.clean
    BY <1>2, <1>5 DEF Inv, CleanOK, Creating, Runs
  <2>2. new.late => ~new.clean
    BY <1>2, <1>5 DEF Inv, CleanOK, Creating
  <2> QED
    BY <1>3, <1>6, <2>1, <2>2, IdleType DEF CleanStep, Creating
<1> QED
  BY <1>a, <1>b, <1>c, <1>d, <1>e, CleanKept DEF Inv

\* A logout begins; it is alone if nobody refreshes the login.
LEMMA LogoutKeeps ==
  ASSUME Inv, NEW r \in Requests, NEW s0 \in Sessions, Logout(r, s0)
  PROVE  OpenOK' /\ RootsOK' /\ LoginOK' /\ EndOK' /\ CleanOK'
<1> DEFINE k == sessions[s0].root
           free == \A q \in Open("refresh") : Root(q) # k
<1>1. sessions' = sessions /\ forked' = forked /\ ended' = ended
  BY DEF Logout, historyVars
<1>2. /\ tx'[r].op = "logout" /\ tx'[r].user = sessions[s0].user /\ tx'[r].session = s0
      /\ tx'[r].alone = free
  <2>1. tx'[r] = [Idle EXCEPT !.op = "logout", !.phase = "admitted",
                                !.user = sessions[s0].user, !.session = s0, !.alone = free]
    BY DEF Logout, Inv, TypeOK
  <2> HIDE DEF free
  <2> QED
    BY <2>1 DEF Idle
<1>3. \A q \in Requests \ {r} : tx'[q] = tx[q]
  BY DEF Logout, Inv, TypeOK
<1>4. sessions[s0].user \in Users
  BY SessionTypes DEF Inv, SessionRows
<1>5. free => \A q \in Requests : tx[q].op = "refresh" => Root(q) # k
  BY DEF Open, Runs
<1> HIDE DEF free
<1>6. ASSUME NEW x \in Requests, x # r, tx'[x].op \in {"refresh", "logout"}
      PROVE  tx'[x] = tx[x] /\ Root(x)' = Root(x)
  BY <1>1, <1>3, <1>6 DEF Root
<1>7. Root(r)' = k
  BY <1>1, <1>2 DEF Root
<1>a. OpenOK'
  BY <1>1, <1>2, <1>3, <1>4 DEF Inv, OpenOK, Sessions
<1>b. RootsOK'
  BY <1>1 DEF Inv, RootsOK, Sessions
<1>8. ASSUME NEW x \in Requests, tx'[x].op = "refresh"
      PROVE  x # r /\ tx'[x] = tx[x] /\ Root(x)' = Root(x)
  BY <1>2, <1>6, <1>8
<1>c. LoginOK'
  <2>1. (\A s, t \in Sessions :
           Live(s) /\ Live(t) /\ sessions[s].root = sessions[t].root /\ s # t =>
             sessions[s].root \in forked)'
    BY <1>1 DEF Inv, LoginOK, Sessions, Live
  <2>2. (\A q \in Requests, s \in Sessions :
           Runs(q, "refresh") /\ Live(s) /\ sessions[s].root = Root(q) /\ s # tx[q].session =>
             Root(q) \in forked)'
    BY <1>1, <1>8 DEF Inv, LoginOK, Sessions, Live, Runs
  <2>3. (\A x, q \in Requests :
           Runs(x, "refresh") /\ Runs(q, "refresh") /\ Root(x) = Root(q) /\ x # q =>
             Root(x) \in forked)'
    BY <1>1, <1>8 DEF Inv, LoginOK, Runs
  <2> QED
    BY <2>1, <2>2, <2>3 DEF LoginOK
<1>d. EndOK'
  <2>1. (\A x, q \in Requests :
           Runs(x, "logout") /\ tx[x].alone /\ Runs(q, "refresh") => Root(q) # Root(x))'
    <3>1. ASSUME NEW x \in Requests, NEW q \in Requests, x # r, tx'[x].op = "logout",
                 tx'[x].alone, tx'[q].op = "refresh"
          PROVE  Root(q)' # Root(x)'
      BY <1>6, <1>8, <3>1 DEF Inv, EndOK, Runs
    <3>2. ASSUME NEW q \in Requests, tx'[r].alone, tx'[q].op = "refresh"
          PROVE  Root(q)' # Root(r)'
      BY <1>2, <1>5, <1>7, <1>8, <3>2
    <3> QED
      BY <3>1, <3>2 DEF Runs
  <2>2. (\A s \in Sessions : Live(s) /\ sessions[s].root \in ended =>
           sessions[s].root \in forked)'
    BY <1>1 DEF Inv, EndOK, Sessions, Live
  <2>3. (\A x \in Requests : Runs(x, "refresh") /\ Root(x) \in ended => Root(x) \in forked)'
    BY <1>1, <1>8 DEF Inv, EndOK, Runs
  <2>4. (\A m \in ended : m <= Len(sessions))'
    BY <1>1 DEF Inv, EndOK
  <2> QED
    BY <2>1, <2>2, <2>3, <2>4 DEF EndOK
<1>e. CleanStep
  BY <1>1, <1>2, <1>3 DEF CleanStep, Sessions, Creating
<1> QED
  BY <1>a, <1>b, <1>c, <1>d, <1>e, CleanKept DEF Inv

\* A logout commits: alone, it ends its login.
LEMMA CommitLogoutKeeps ==
  ASSUME Inv, NEW r \in Requests, CommitLogout(r)
  PROVE  OpenOK' /\ RootsOK' /\ LoginOK' /\ EndOK' /\ CleanOK'
<1> DEFINE old == tx[r].session
<1>1. /\ forked' = forked
      /\ ended' = IF tx[r].alone /\ Live(old) THEN ended \cup {Root(r)} ELSE ended
  BY DEF CommitLogout
<1>2. tx[r].op = "logout" /\ old \in Sessions
  BY DEF CommitLogout, Runs, Inv, OpenOK
<1>3. /\ QuietRequests
      /\ tx'[r] = Idle /\ \A q \in Requests \ {r} : tx'[q] = tx[q]
  BY CloseQuiet DEF CommitLogout, Inv
<1>4. /\ DOMAIN sessions' = Sessions /\ Len(sessions') = Len(sessions)
      /\ \A s \in Sessions \ {old} : sessions'[s] = sessions[s]
      /\ sessions'[old].root = sessions[old].root /\ sessions'[old].state # "live"
  <2>1. sessions' = Revoke({old})
    BY DEF CommitLogout
  <2> HIDE DEF old
  <2> QED
    BY <1>2, <2>1, RevokeRows, OverRow, SessionTypes DEF Inv
<1>5. QuietSessions
  BY <1>4 DEF QuietSessions
<1>6. OpenOK' /\ RootsOK' /\ LoginOK' /\ (ended' = ended => EndOK')
  BY <1>1, <1>3, <1>5, QuietStep
<1>7. CleanStep
  BY <1>3, <1>4, IdleType DEF CleanStep, Creating
<1>8. ASSUME tx[r].alone, Live(old) PROVE EndOK'
  <2> DEFINE k == Root(r)
  <2>1. ended' = ended \cup {k}
    BY <1>1, <1>8
  <2>2. ASSUME NEW x \in Requests, tx'[x].op \in {"refresh", "logout"}
        PROVE  tx'[x] = tx[x] /\ Root(x)' = Root(x)
    <3>1. tx'[x] = tx[x]
      BY <1>3, <2>2, IdleType
    <3>2. tx[x].session \in Sessions
      BY <2>2, <3>1 DEF Inv, OpenOK
    <3> QED
      BY <1>4, <3>1, <3>2 DEF Root
  <2>3. ASSUME NEW s \in Sessions, sessions'[s].state = "live", sessions'[s].root = k
        PROVE  k \in forked
    <3>1. s # old /\ Live(s) /\ sessions[s].root = sessions[old].root
      BY <1>4, <2>3 DEF Live, Root
    <3> QED
      BY <1>2, <1>8, <3>1 DEF Inv, LoginOK, Root
  <2>4. ASSUME NEW x \in Requests, tx'[x].op = "refresh" PROVE Root(x) # k
    BY <1>2, <1>8, <2>2, <2>4 DEF Inv, EndOK, Runs
  <2>5. k <= Len(sessions)
    BY <1>2 DEF Inv, RootsOK, Root
  <2> HIDE DEF k
  <2>6. (\A x, q \in Requests :
           Runs(x, "logout") /\ tx[x].alone /\ Runs(q, "refresh") => Root(q) # Root(x))'
    BY <2>2 DEF Inv, EndOK, Runs
  <2>7. (\A s \in Sessions : Live(s) /\ sessions[s].root \in ended =>
           sessions[s].root \in forked)'
    BY <1>1, <1>5, <2>1, <2>3 DEF Inv, EndOK, QuietSessions, Sessions, Live
  <2>8. (\A x \in Requests : Runs(x, "refresh") /\ Root(x) \in ended => Root(x) \in forked)'
    BY <1>1, <2>1, <2>2, <2>4 DEF Inv, EndOK, Runs
  <2>9. (\A m \in ended : m <= Len(sessions))'
    BY <1>4, <2>1, <2>5 DEF Inv, EndOK
  <2> QED
    BY <2>6, <2>7, <2>8, <2>9 DEF EndOK
<1> QED
  BY <1>1, <1>6, <1>7, <1>8, CleanKept DEF Inv

-----------------------------------------------------------------------------
(* The theorems *)

\* Every step keeps the invariant.
LEMMA InvNext == Inv /\ [Next]_vars => Inv'
<1> SUFFICES ASSUME Inv, [Next]_vars PROVE Inv'
  OBVIOUS
<1>t. TypeOK'
  BY TypeNext DEF Inv
<1> SUFFICES OpenOK' /\ RootsOK' /\ LoginOK' /\ EndOK' /\ CleanOK'
  BY <1>t DEF Inv
<1>1. ASSUME NEW r \in Requests, MarkLoggedIn(r) \/ Touch(r) \/ SetActive(r)
      PROVE  OpenOK' /\ RootsOK' /\ LoginOK' /\ EndOK' /\ CleanOK'
  BY <1>1, LockKeeps
<1>2. ASSUME NEW r \in Requests, NEW u \in Users, Login(r, u) \/ Disable(r, u)
      PROVE  OpenOK' /\ RootsOK' /\ LoginOK' /\ EndOK' /\ CleanOK'
  BY <1>2, LoginKeeps, DisableKeeps
<1>3. ASSUME NEW r \in Requests, NEW s \in Sessions, Refresh(r, s) \/ Logout(r, s)
      PROVE  OpenOK' /\ RootsOK' /\ LoginOK' /\ EndOK' /\ CleanOK'
  BY <1>3, RefreshKeeps, LogoutKeeps
<1>4. ASSUME NEW r \in Requests, CommitLogin(r) \/ CommitRefresh(r)
      PROVE  OpenOK' /\ RootsOK' /\ LoginOK' /\ EndOK' /\ CleanOK'
  BY <1>4, CommitLoginKeeps, RefreshCommitKeeps
<1>5. ASSUME NEW r \in Requests, FindSession(r) \/ CommitLogout(r)
      PROVE  OpenOK' /\ RootsOK' /\ LoginOK' /\ EndOK' /\ CleanOK'
  BY <1>5, FindKeeps, CommitLogoutKeeps
<1>6. ASSUME NEW r \in Requests, ListSessions(r) \/ CommitDisable(r)
      PROVE  OpenOK' /\ RootsOK' /\ LoginOK' /\ EndOK' /\ CleanOK'
  BY <1>6, ListKeeps, CommitDisableKeeps
<1>7. ASSUME NEW r \in Requests, Fail(r)
      PROVE  OpenOK' /\ RootsOK' /\ LoginOK' /\ EndOK' /\ CleanOK'
  BY <1>7, CloseKeeps DEF Fail, historyVars
<1>8. ASSUME sessions' = sessions, tx' = tx, forked' = forked, ended' = ended
      PROVE  OpenOK' /\ RootsOK' /\ LoginOK' /\ EndOK' /\ CleanOK'
  BY <1>8 DEF Inv, OpenOK, RootsOK, LoginOK, EndOK, CleanOK, Sessions, Live, Runs, Root
<1>9. ASSUME NEW u \in Users, Enable(u)
      PROVE  OpenOK' /\ RootsOK' /\ LoginOK' /\ EndOK' /\ CleanOK'
  BY <1>8, <1>9 DEF Enable, historyVars
<1>10. ASSUME NEW s \in Sessions, Expire(s)
       PROVE  OpenOK' /\ RootsOK' /\ LoginOK' /\ EndOK' /\ CleanOK'
  BY <1>10, ExpireKeeps
<1>11. CASE UNCHANGED vars
  BY <1>8, <1>11 DEF vars, historyVars
<1> QED
  BY <1>1, <1>2, <1>3, <1>4, <1>5, <1>6, <1>7, <1>9, <1>10, <1>11 DEF Next, Begin, Proceed

\* The inductive invariant holds for any number of users, requests and sessions.
THEOREM SessionInvCorrect == Spec => []Inv
<1>1. Init => Inv
  BY InvInit
<1>2. Inv /\ [Next]_vars => Inv'
  BY InvNext
<1> QED
  BY <1>1, <1>2, PTL DEF Spec

\* The rows and requests always have the shape the code gives them.
THEOREM SessionTypeCorrect == Spec => []TypeOK
<1>1. Inv => TypeOK
  BY DEF Inv
<1> QED
  BY <1>1, SessionInvCorrect, PTL

\* Disabling an account ends all its sessions (OperationsService.disable_user), but for
\* those that requests running at the same time create.
THEOREM DisablingEndsCorrect == Spec => []DisablingEndsSessions
<1>1. Inv => DisablingEndsSessions
  BY DEF Inv, CleanOK, DisablingEndsSessions
<1> QED
  BY <1>1, SessionInvCorrect, PTL

\* A login that two requests never refreshed at once has one live session
\* (AuthService.refresh).
THEOREM OneSessionCorrect == Spec => []OneSessionPerLogin
<1>1. Inv => OneSessionPerLogin
  BY DEF Inv, LoginOK, OneSessionPerLogin
<1> QED
  BY <1>1, SessionInvCorrect, PTL

\* A logout ends its login (AuthService.logout) unless the login was forked.
THEOREM LogoutEndsCorrect == Spec => []LogoutEndsLogin
<1>1. Inv => LogoutEndsLogin
  BY DEF Inv, EndOK, LogoutEndsLogin
<1> QED
  BY <1>1, SessionInvCorrect, PTL


=============================================================================
