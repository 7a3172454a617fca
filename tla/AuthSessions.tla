----------------------------- MODULE AuthSessions -----------------------------
(***************************************************************************)
(* Refresh sessions of users: login, refresh (a session is exchanged for a *)
(* new one), logout, disabling of an account and the script that enables   *)
(* it again.  Each request is a transaction at READ COMMITTED that decides *)
(* from rows loaded without a lock; a row is locked from the first UPDATE  *)
(* to the commit, and the rows loaded are not checked again.               *)
(***************************************************************************)
EXTENDS Integers, Sequences, FiniteSets

CONSTANTS Users,
          Requests,     \* requests that may run at the same time
          MaxSessions,  \* bound: sessions ever created
          MaxDisables,  \* bound: times accounts are disabled
          MaxFailures   \* bound: transactions that fail

ASSUME BoundsAssumption ==
  MaxSessions \in Nat /\ MaxDisables \in Nat /\ MaxFailures \in Nat

VARIABLES
  active,    \* active[u]: users.is_active
  sessions,  \* auth_sessions by number: the rows committed
  tx,        \* the requests
  failures,  \* failures so far
  disables,  \* how many accounts were disabled
  forked,    \* history: logins one of whose tokens two requests refreshed at once
  ended      \* history: logins that a logout ended with no refresh under way

historyVars == <<forked, ended>>
vars == <<active, sessions, tx, failures, disables, historyVars>>

\* Sessions are numbered as they are created.
Ids == Nat \ {0}
NoUser == "nobody"
Operations == {"none", "login", "refresh", "logout", "disable"}

\* A session row.  root: the session of the login it descends from.  History, as
\* long as it is live.  clean: no request in its line overlapped a disabling of
\* the user; late: the user was disabled since its request began.
SessionRows ==
  [user : Users, root : Ids, state : {"live", "revoked", "expired"}, clean : BOOLEAN,
   late : BOOLEAN]

\* A request: what it works on, how far it is, the row locks it holds, the
\* sessions it is going to revoke; clean and late as above; alone: no refresh of
\* the same login ran meanwhile.
Transactions ==
  [op : Operations, phase : {"idle", "admitted", "loaded", "locked", "listed"}, user : Users \cup {NoUser},
   session : Ids \cup {0}, holds : BOOLEAN, found : SUBSET Ids, clean : BOOLEAN,
   late : BOOLEAN, alone : BOOLEAN]
Idle ==
  [op |-> "none", phase |-> "idle", user |-> NoUser, session |-> 0, holds |-> FALSE,
   found |-> {}, clean |-> TRUE, late |-> FALSE, alone |-> TRUE]

Init ==
  /\ active = [u \in Users |-> TRUE]
  /\ sessions = <<>>
  /\ tx = [r \in Requests |-> Idle]
  /\ failures = 0
  /\ disables = 0
  /\ forked = {} /\ ended = {}

TypeOK ==
  /\ active \in [Users -> BOOLEAN]
  /\ sessions \in Seq(SessionRows)
  /\ tx \in [Requests -> Transactions]
  /\ failures \in 0..MaxFailures
  /\ disables \in 0..MaxDisables
  /\ forked \subseteq Ids /\ ended \subseteq Ids

-----------------------------------------------------------------------------
Sessions == DOMAIN sessions
Live(s) == sessions[s].state = "live"
Revoked(s) == sessions[s].state = "revoked"

\* A session that is over has no history.
Over(row, state) == [row EXCEPT !.state = state, !.clean = TRUE, !.late = FALSE]
Revoke(rows) == [s \in Sessions |-> IF s \in rows THEN Over(sessions[s], "revoked")
                                    ELSE sessions[s]]
Runs(r, op) == tx[r].op = op
Open(op) == {r \in Requests : Runs(r, op)}
Root(r) == sessions[tx[r].session].root

\* Row locks: users by mark_logged_in and set_active, auth_sessions by touch.
UserFree(r) ==
  \A q \in Requests \ {r} :
    tx[q].user = tx[r].user /\ tx[q].holds => Runs(q, "refresh")
SessionFree(r, s) ==
  \A q \in Requests \ {r} : Runs(q, "refresh") /\ tx[q].holds => tx[q].session # s

Disabling(u) == \E r \in Open("disable") : tx[r].user = u
Close(r) == tx' = [tx EXCEPT ![r] = Idle]

\* The session a request creates when it commits.
Create(root, r) ==
  [user |-> tx[r].user, root |-> root, state |-> "live", clean |-> tx[r].clean,
   late |-> tx[r].late]
NewId == Len(sessions) + 1

\* Bound: what open requests will create is counted, too.
MayCreate == Len(sessions) + Cardinality(Open("login") \cup Open("refresh")) < MaxSessions

-----------------------------------------------------------------------------
(* AuthService.login *)

\* The user is loaded and checked ...
Login(r, u) ==
  /\ Runs(r, "none") /\ MayCreate
  /\ active[u]
  /\ tx' = [tx EXCEPT ![r] = [Idle EXCEPT !.op = "login", !.phase = "loaded", !.user = u,
                                !.clean = ~Disabling(u)]]
  /\ UNCHANGED <<active, sessions, failures, disables, historyVars>>

\* ... mark_logged_in locks its row, ...
MarkLoggedIn(r) ==
  /\ Runs(r, "login") /\ tx[r].phase = "loaded"
  /\ UserFree(r)
  /\ tx' = [tx EXCEPT ![r].phase = "locked", ![r].holds = TRUE]
  /\ UNCHANGED <<active, sessions, failures, disables, historyVars>>

\* ... and a session of its own login is created.
CommitLogin(r) ==
  /\ Runs(r, "login") /\ tx[r].phase = "locked"
  /\ sessions' = Append(sessions, Create(NewId, r))
  /\ Close(r)
  /\ UNCHANGED <<active, failures, disables, historyVars>>

-----------------------------------------------------------------------------
(* AuthService.refresh *)

\* Mutant of Refresh: a revoked session is accepted.
RefreshRevoked(r, s) ==
  /\ Runs(r, "none") /\ MayCreate
  /\ s \in Sessions /\ sessions[s].state # "expired"
  /\ active[sessions[s].user]
  /\ LET u == sessions[s].user
         rivals == {q \in Open("refresh") : tx[q].session = s}
     IN /\ tx' = [q \in Requests |->
                    IF q = r
                    THEN [Idle EXCEPT !.op = "refresh", !.phase = "loaded", !.user = u,
                            !.session = s,
                            !.clean = sessions[s].clean /\ ~Disabling(u)]
                    ELSE IF Runs(q, "logout") /\ Root(q) = sessions[s].root
                    THEN [tx[q] EXCEPT !.alone = FALSE]
                    ELSE tx[q]]
        /\ forked' = IF rivals = {} THEN forked ELSE forked \cup {sessions[s].root}
  /\ UNCHANGED <<active, sessions, failures, disables, ended>>

\* The session and its user are loaded and checked, nothing is locked.
Refresh(r, s) ==
  /\ Runs(r, "none") /\ MayCreate
  /\ s \in Sessions /\ Live(s)
  /\ active[sessions[s].user]
  /\ LET u == sessions[s].user
         rivals == {q \in Open("refresh") : tx[q].session = s}
     IN /\ tx' = [q \in Requests |->
                    IF q = r
                    THEN [Idle EXCEPT !.op = "refresh", !.phase = "loaded", !.user = u,
                            !.session = s,
                            !.clean = sessions[s].clean /\ ~Disabling(u)]
                    ELSE IF Runs(q, "logout") /\ Root(q) = sessions[s].root
                    THEN [tx[q] EXCEPT !.alone = FALSE]
                    ELSE tx[q]]
        /\ forked' = IF rivals = {} THEN forked ELSE forked \cup {sessions[s].root}
  /\ UNCHANGED <<active, sessions, failures, disables, ended>>

\* touch locks the row of the session.
Touch(r) ==
  /\ Runs(r, "refresh") /\ tx[r].phase = "loaded"
  /\ SessionFree(r, tx[r].session)
  /\ tx' = [tx EXCEPT ![r].phase = "locked", ![r].holds = TRUE]
  /\ UNCHANGED <<active, sessions, failures, disables, historyVars>>

\* Mutant of CommitRefresh: the login time of the user is written, too.
CommitRefreshMarks(r) ==
  /\ Runs(r, "refresh") /\ tx[r].phase = "locked"
  /\ UserFree(r)
  /\ sessions' = Append(Revoke({tx[r].session}), Create(Root(r), r))
  /\ Close(r)
  /\ UNCHANGED <<active, failures, disables, historyVars>>

\* Mutant of CommitRefresh: the old session stays.
CommitRefreshKeeps(r) ==
  /\ Runs(r, "refresh") /\ tx[r].phase = "locked"
  /\ sessions' = Append(sessions, Create(Root(r), r))
  /\ Close(r)
  /\ UNCHANGED <<active, failures, disables, historyVars>>

\* revoke, then create.
CommitRefresh(r) ==
  /\ Runs(r, "refresh") /\ tx[r].phase = "locked"
  /\ sessions' = Append(Revoke({tx[r].session}), Create(Root(r), r))
  /\ Close(r)
  /\ UNCHANGED <<active, failures, disables, historyVars>>

-----------------------------------------------------------------------------
(* AuthService.logout *)

\* get_current_user lets the caller in, in a transaction of its own.
Logout(r, s) ==
  /\ Runs(r, "none")
  /\ s \in Sessions
  /\ active[sessions[s].user]
  /\ tx' = [tx EXCEPT ![r] = [Idle EXCEPT !.op = "logout", !.phase = "admitted",
                                !.user = sessions[s].user, !.session = s,
                                !.alone = \A q \in Open("refresh") : Root(q) # sessions[s].root]]
  /\ UNCHANGED <<active, sessions, failures, disables, historyVars>>

\* Nothing is done about a session that is revoked already.
FindSession(r) ==
  /\ tx[r].phase = "admitted"
  /\ IF Revoked(tx[r].session) THEN Close(r)
     ELSE tx' = [tx EXCEPT ![r].phase = "loaded"]
  /\ UNCHANGED <<active, sessions, failures, disables, historyVars>>

CommitLogout(r) ==
  /\ Runs(r, "logout") /\ tx[r].phase = "loaded"
  /\ SessionFree(r, tx[r].session)
  /\ sessions' = Revoke({tx[r].session})
  /\ ended' = IF tx[r].alone /\ Live(tx[r].session) THEN ended \cup {Root(r)} ELSE ended
  /\ Close(r)
  /\ UNCHANGED <<active, failures, disables, forked>>

-----------------------------------------------------------------------------
(* OperationsService.disable_user *)

\* set_active writes only what differs from the row it has loaded: for an
\* account loaded as disabled there is no UPDATE and no lock.
Disable(r, u) ==
  /\ Runs(r, "none")
  /\ disables < MaxDisables
  /\ disables' = disables + 1
  /\ tx' = [q \in Requests |->
              IF q = r
              THEN [Idle EXCEPT !.op = "disable", !.user = u,
                      !.phase = IF active[u] THEN "loaded" ELSE "locked"]
              ELSE IF tx[q].user = u THEN [tx[q] EXCEPT !.clean = FALSE]
              ELSE tx[q]]
  /\ UNCHANGED <<active, sessions, failures, historyVars>>

SetActive(r) ==
  /\ Runs(r, "disable") /\ tx[r].phase = "loaded"
  /\ UserFree(r)
  /\ tx' = [tx EXCEPT ![r].phase = "locked", ![r].holds = TRUE]
  /\ UNCHANGED <<active, sessions, failures, disables, historyVars>>

\* Mutant of ListSessions: only the newest session is found.
ListNewest(r) ==
  /\ Runs(r, "disable") /\ tx[r].phase = "locked"
  /\ tx' = [tx EXCEPT ![r].phase = "listed",
                      ![r].found = {s \in Sessions : s = Len(sessions)}]
  /\ UNCHANGED <<active, sessions, failures, disables, historyVars>>

\* revoke_all_for_user: the sessions committed so far ...
ListSessions(r) ==
  /\ Runs(r, "disable") /\ tx[r].phase = "locked"
  /\ tx' = [tx EXCEPT ![r].phase = "listed",
                      ![r].found = {s \in Sessions : sessions[s].user = tx[r].user
                                                     /\ ~Revoked(s)}]
  /\ UNCHANGED <<active, sessions, failures, disables, historyVars>>

\* ... are revoked.
CommitDisable(r) ==
  /\ Runs(r, "disable") /\ tx[r].phase = "listed"
  /\ \A s \in tx[r].found : SessionFree(r, s)
  /\ active' = [active EXCEPT ![tx[r].user] = IF tx[r].holds THEN FALSE ELSE @]
  /\ sessions' = [s \in Sessions |->
                    IF s \in tx[r].found THEN Over(sessions[s], "revoked")
                    ELSE IF Live(s) /\ sessions[s].user = tx[r].user
                    THEN [sessions[s] EXCEPT !.late = TRUE]
                    ELSE sessions[s]]
  /\ tx' = [q \in Requests |->
              IF q = r THEN Idle
              ELSE IF tx[q].user = tx[r].user THEN [tx[q] EXCEPT !.late = TRUE]
              ELSE tx[q]]
  /\ UNCHANGED <<failures, disables, historyVars>>

-----------------------------------------------------------------------------
(* The rest of the world *)

\* scripts/seed_stack_admin.py
Enable(u) ==
  /\ ~active[u]
  /\ \A r \in Requests : tx[r].user = u /\ tx[r].holds => Runs(r, "refresh")
  /\ active' = [active EXCEPT ![u] = TRUE]
  /\ UNCHANGED <<sessions, tx, failures, disables, historyVars>>

\* refresh_token_ttl_days pass.
Expire(s) ==
  /\ s \in Sessions /\ Live(s)
  /\ sessions' = [sessions EXCEPT ![s] = Over(@, "expired")]
  /\ UNCHANGED <<active, tx, failures, disables, historyVars>>

Fail(r) ==
  /\ ~Runs(r, "none")
  /\ failures < MaxFailures
  /\ failures' = failures + 1
  /\ Close(r)
  /\ UNCHANGED <<active, sessions, disables, historyVars>>

-----------------------------------------------------------------------------
Begin(r) ==
  \/ \E u \in Users : Login(r, u) \/ Disable(r, u)
  \/ \E s \in Sessions : Refresh(r, s) \/ Logout(r, s)

Proceed(r) ==
  \/ MarkLoggedIn(r) \/ CommitLogin(r)
  \/ Touch(r) \/ CommitRefresh(r)
  \/ FindSession(r) \/ CommitLogout(r)
  \/ SetActive(r) \/ ListSessions(r) \/ CommitDisable(r)

Next ==
  \/ \E r \in Requests : Begin(r) \/ Proceed(r) \/ Fail(r)
  \/ \E u \in Users : Enable(u)
  \/ \E s \in Sessions : Expire(s)

Spec == Init /\ [][Next]_vars

\* The database lets a waiting statement go on when the row is free.
FairSpec == Spec /\ \A r \in Requests : WF_vars(Proceed(r))

-----------------------------------------------------------------------------
(* Properties *)

\* Disabling an account ends every session of it for good, also after it is
\* enabled again: one that is left descends from a request that ran at the same
\* time as the disabling (set_active, revoke_all_for_user).
DisablingEndsSessions ==
  \A s \in Sessions : Live(s) /\ sessions[s].clean => ~sessions[s].late

\* A login has one live session at a time, however often it is refreshed, unless
\* two requests refreshed the same session at once (refresh).
OneSessionPerLogin ==
  \A s, t \in Sessions :
    Live(s) /\ Live(t) /\ sessions[s].root = sessions[t].root /\ s # t =>
      sessions[s].root \in forked

\* After a logout no session of that login is left, unless a refresh ran at the
\* same time or the login was forked (logout revokes one session only).
LogoutEndsLogin ==
  \A s \in Sessions : Live(s) /\ sessions[s].root \in ended => sessions[s].root \in forked

\* No request waits for ever: row locks are taken in an order without cycles.
EveryRequestEnds == \A r \in Requests : ~Runs(r, "none") ~> Runs(r, "none")
=============================================================================
