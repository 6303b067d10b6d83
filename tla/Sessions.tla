------------------------------ MODULE Sessions -------------------------------
(***************************************************************************)
(* The login sessions of one user: the refresh_tokens rows, that every     *)
(* refresh replaces by a new one, and all that revokes or removes them.    *)
(* Handlers: routes/auth.py (logout, refresh, step-up, session list),      *)
(* routes/users.py (lock, unlock, reset), routes/opaque_auth.py (recovery, *)
(* password change), auth/jwt.py (issue, activity, clean-up).              *)
(*                                                                         *)
(* PostgreSQL runs them READ COMMITTED.  An UPDATE of one row waits for    *)
(* the transaction that holds the row and then looks at the row again.  An *)
(* UPDATE of many rows sees those that were committed when it began: it    *)
(* waits for, and looks again at, each of them, and does not see a row     *)
(* committed meanwhile.  A row being replaced is held by its refresh.      *)
(***************************************************************************)
EXTENDS Naturals

CONSTANTS
  Tokens,      \* refresh_tokens ids; each issued once
  Requests,    \* handler tasks
  MaxFailures, \* step_up_max_failures
  FailureCap,  \* bound: failures recorded since the last grant or lockout
  None         \* no token

ASSUME MaxFailuresAssumption == MaxFailures \in Nat \ {0}
ASSUME FailureCapAssumption == FailureCap \in Nat
ASSUME NoneAssumption == None \notin Tokens

VARIABLES
  row,      \* refresh_tokens: "none", "live", "revoked" or "gone"
  age,      \* "fresh"; "idle", last active too long ago; "expired"
  active,   \* users.is_active
  failures, \* step_up_failed events since the last granted or lockout event
  task,     \* the handler tasks
  reaper,   \* the clean-up task: "revoke" idle rows or "delete" dead ones
  login,    \* history: the token the login of this token began with
  ended,    \* history: logins a token of which was revoked, not replaced
  cut       \* history: after a failure was recorded its request died, or could
            \* not record the lockout

sessions == <<row, age, login, ended>>
steps    == <<failures, cut>>
vars     == <<sessions, steps, active, task, reaper>>

Idle == [pc |-> "idle", tok |-> None, todo |-> {}]

Init ==
  /\ row = [t \in Tokens |-> "none"]
  /\ age = [t \in Tokens |-> "fresh"]
  /\ active = TRUE
  /\ failures = 0
  /\ task = [r \in Requests |-> Idle]
  /\ reaper = "revoke"
  /\ login = [t \in Tokens |-> None]
  /\ ended = {}
  /\ cut = FALSE

Goto(r, pc) == task' = [task EXCEPT ![r].pc = pc]
Reply(r)    == task' = [task EXCEPT ![r] = Idle]
Free(r)     == task[r] = Idle

Live   == {t \in Tokens : row[t] = "live"}
Issued == {t \in Tokens : row[t] # "none"}

(* The rows held by a refresh that has claimed them and not committed.     *)
Held == {task[r].tok : r \in {q \in Requests : task[q].pc \in {"lookup", "insert"}}}

Issue(n, first) ==
  /\ row[n] = "none"
  /\ age' = [age EXCEPT ![n] = "fresh"]
  /\ login' = [login EXCEPT ![n] = first]

(* Revoked by something other than a refresh.                              *)
Revoke(ts) ==
  /\ row' = [t \in Tokens |-> IF t \in ts \cap Live THEN "revoked" ELSE row[t]]
  /\ ended' = ended \cup {login[t] : t \in ts \cap Live}
  /\ UNCHANGED <<age, login>>

(***************************************************************************)
(* Every way to log in ends in store_refresh_token: the account was read   *)
(* as active, dead rows are pruned, the new one is inserted.               *)
(***************************************************************************)
Dead == {t \in Tokens : row[t] = "revoked"} \cup {t \in Live : age[t] = "expired"}

DeleteDead ==
  /\ Dead \cap Held = {}
  /\ row' = [t \in Tokens |-> IF t \in Dead THEN "gone" ELSE row[t]]
  /\ UNCHANGED <<age, login, ended>>

LoginRead(r) ==
  /\ Free(r)
  /\ active
  /\ Goto(r, "prune")
  /\ UNCHANGED <<sessions, steps, active, reaper>>

LoginPrune(r) ==
  /\ task[r].pc = "prune"
  /\ DeleteDead
  /\ Goto(r, "login")
  /\ UNCHANGED <<steps, active, reaper>>

LoginInsert(r, n) ==
  /\ task[r].pc = "login"
  /\ Issue(n, n)
  /\ row' = [row EXCEPT ![n] = "live"]
  /\ Reply(r)
  /\ UNCHANGED <<ended, steps, active, reaper>>

(***************************************************************************)
(* POST /auth/refresh: one transaction of four statements.                 *)
(***************************************************************************)
RefreshSelect(r, t) ==
  /\ Free(r)
  /\ t \in Live
  /\ age[t] # "expired"
  /\ task' = [task EXCEPT ![r] = [Idle EXCEPT !.pc = "claim", !.tok = t]]
  /\ UNCHANGED <<sessions, steps, active, reaper>>

Claimable_ById(t) == row[t] \in {"live", "revoked"}
Claimable(t)      == row[t] = "live"

(* UPDATE ... WHERE id = ? AND revoked = 0 RETURNING id.                   *)
RefreshClaim(r) ==
  LET t == task[r].tok IN
  /\ task[r].pc = "claim"
  /\ t \notin Held
  /\ Goto(r, IF Claimable(t) THEN "lookup" ELSE "theft")
  /\ UNCHANGED <<sessions, steps, active, reaper>>

(* An inactive user's refresh is rolled back (Fail).                       *)
RefreshLookup(r) ==
  /\ task[r].pc = "lookup"
  /\ active
  /\ Goto(r, "insert")
  /\ UNCHANGED <<sessions, steps, active, reaper>>

RefreshCommit(r, n) ==
  /\ task[r].pc = "insert"
  /\ Issue(n, login[task[r].tok])
  /\ row' = [row EXCEPT ![task[r].tok] = "revoked", ![n] = "live"]
  /\ Reply(r)
  /\ UNCHANGED <<ended, steps, active, reaper>>

(***************************************************************************)
(* Revoking all rows of the user, but for at most one: the session the     *)
(* access token of the request names, which need not be a live one.        *)
(***************************************************************************)
Revoking(r, ts, pc) ==
  task' = [task EXCEPT ![r] = [Idle EXCEPT !.pc = pc, !.todo = ts]]

RefreshTheft(r) ==
  /\ task[r].pc = "theft"
  /\ Revoking(r, Live, "revoke")
  /\ UNCHANGED <<sessions, steps, active, reaper>>

(* DELETE /me/sessions and the password change spare a session; recovery,  *)
(* reset and the administration of second factors spare none.              *)
RevokeAll(r, spare) ==
  /\ Free(r)
  /\ Revoking(r, Live \ {spare}, "revoke")
  /\ UNCHANGED <<sessions, steps, active, reaper>>

RevokeApply(r) ==
  /\ task[r].pc \in {"revoke", "lockout"}
  /\ task[r].todo \cap Held = {}
  /\ Revoke(task[r].todo)
  /\ IF task[r].pc = "lockout" THEN Goto(r, "log") ELSE Reply(r)
  /\ UNCHANGED <<steps, active, reaper>>

(* Logout, and DELETE /me/sessions/{id}.                                   *)
RevokeOne(t) ==
  /\ t \in Live \ Held
  /\ Revoke({t})
  /\ UNCHANGED <<steps, active, task, reaper>>

(* An administrator locks the account, then revokes its rows.              *)
Lock(r) ==
  /\ Free(r)
  /\ active' = FALSE
  /\ Goto(r, "locked")
  /\ UNCHANGED <<sessions, steps, reaper>>

LockRevoke(r) ==
  /\ task[r].pc = "locked"
  /\ Revoking(r, Live, "revoke")
  /\ UNCHANGED <<sessions, steps, active, reaper>>

Unlock ==
  /\ ~active
  /\ active' = TRUE
  /\ UNCHANGED <<sessions, steps, task, reaper>>

(***************************************************************************)
(* POST /auth/step-up: a failure is recorded, then counted; at the limit   *)
(* all sessions are revoked, and the lockout recorded.  log_security_event *)
(* never raises: an event may be missing.                                  *)
(***************************************************************************)
StepUpFail(r) ==
  /\ Free(r)
  /\ active
  /\ failures' \in {failures, failures + 1} \cap 0..FailureCap
  /\ Goto(r, "count")
  /\ UNCHANGED <<sessions, cut, active, reaper>>

TooMany_Over == failures > MaxFailures
TooMany      == failures >= MaxFailures

StepUpCount(r) ==
  /\ task[r].pc = "count"
  /\ IF TooMany THEN Revoking(r, Live, "lockout") ELSE Reply(r)
  /\ UNCHANGED <<sessions, steps, active, reaper>>

Forgiven == 0

StepUpLockout(r) ==
  /\ task[r].pc = "log"
  /\ \/ failures' = Forgiven /\ cut' = FALSE
     \/ failures' = failures /\ cut' = TRUE
  /\ Reply(r)
  /\ UNCHANGED <<sessions, active, reaper>>

StepUpGrant ==
  /\ active
  /\ failures' = 0
  /\ cut' = FALSE
  /\ UNCHANGED <<sessions, active, task, reaper>>

(***************************************************************************)
(* Time, activity and the clean-up that runs every minute.                 *)
(***************************************************************************)
Age(t, a) ==
  /\ t \in Live
  /\ <<age[t], a>> \in {<<"fresh", "idle">>, <<"fresh", "expired">>, <<"idle", "expired">>}
  /\ age' = [age EXCEPT ![t] = a]
  /\ UNCHANGED <<row, login, ended, steps, active, task, reaper>>

(* touch_session, in the background of a request.                          *)
Touch(t) ==
  /\ t \in Live \ Held
  /\ age[t] = "idle"
  /\ age' = [age EXCEPT ![t] = "fresh"]
  /\ UNCHANGED <<row, login, ended, steps, active, task, reaper>>

Unused == {t \in Live : age[t] = "idle"}

ReapIdle ==
  /\ reaper = "revoke"
  /\ Unused \cap Held = {}
  /\ Revoke(Unused)
  /\ reaper' = "delete"
  /\ UNCHANGED <<steps, active, task>>

ReapDead ==
  /\ reaper = "delete"
  /\ DeleteDead
  /\ reaper' = "revoke"
  /\ UNCHANGED <<steps, active, task>>

(* A pass fails between its statements and is begun again a minute later.  *)
ReapFails ==
  /\ reaper = "delete"
  /\ reaper' = "revoke"
  /\ UNCHANGED <<sessions, steps, active, task>>

(* A request is refused, a statement of it fails, or PostgreSQL ends a     *)
(* deadlock with it; its transaction is rolled back.                       *)
LockingOut(r) == task[r].pc \in {"count", "lockout", "log"}

Fail(r) ==
  /\ ~Free(r)
  /\ Reply(r)
  /\ cut' = (cut \/ LockingOut(r))
  /\ UNCHANGED <<sessions, failures, active, reaper>>

Crash ==
  /\ task' = [r \in Requests |-> Idle]
  /\ reaper' = "revoke"
  /\ cut' = (cut \/ \E r \in Requests : LockingOut(r))
  /\ UNCHANGED <<sessions, failures, active>>

Arrive(r) ==
  \/ LoginRead(r) \/ Lock(r) \/ StepUpFail(r)
  \/ \E t \in Tokens : RefreshSelect(r, t)
  \/ \E s \in Issued \cup {None} : RevokeAll(r, s)

Step(r) ==
  \/ LoginPrune(r) \/ RefreshClaim(r) \/ RefreshLookup(r) \/ RefreshTheft(r)
  \/ \E n \in Tokens : LoginInsert(r, n) \/ RefreshCommit(r, n)
  \/ LockRevoke(r) \/ RevokeApply(r) \/ StepUpCount(r) \/ StepUpLockout(r)

Reap == ReapIdle \/ ReapDead \/ ReapFails

Next ==
  \/ \E r \in Requests : Arrive(r) \/ Step(r) \/ Fail(r)
  \/ \E t \in Tokens :
       RevokeOne(t) \/ Touch(t) \/ \E a \in {"idle", "expired"} : Age(t, a)
  \/ Unlock \/ StepUpGrant
  \/ Reap
  \/ Crash

Spec == Init /\ [][Next]_vars

-----------------------------------------------------------------------------
Pc == {"idle", "prune", "login", "claim", "lookup", "insert", "theft", "revoke",
       "locked", "count", "lockout", "log"}

Task == [pc : Pc, tok : Tokens \cup {None}, todo : SUBSET Tokens]

(* The rows and tasks have the types of their columns and locals, and the  *)
(* count of failures since the last lockout is never negative.             *)
TypeOK ==
  /\ row \in [Tokens -> {"none", "live", "revoked", "gone"}]
  /\ age \in [Tokens -> {"fresh", "idle", "expired"}]
  /\ active \in BOOLEAN
  /\ failures \in 0..FailureCap
  /\ task \in [Requests -> Task]
  /\ reaper \in {"revoke", "delete"}
  /\ login \in [Tokens -> Tokens \cup {None}]
  /\ ended \in SUBSET Tokens
  /\ cut \in BOOLEAN

(* A login has at most one valid refresh token: of requests that present   *)
(* the same one together only one gets a successor.                        *)
OneLivePerLogin ==
  \A s, t \in Live : login[s] = login[t] => s = t

(* A login one of whose tokens was revoked by logout, revocation, idleness *)
(* or a theft alarm stays ended: no refresh that had read the token before *)
(* brings it back.                                                         *)
EndedStaysEnded == \A t \in Live : login[t] \notin ended

(* The failure that reaches the limit locks out: while the recorded        *)
(* failures are at the limit, a request that will count them or has        *)
(* counted them is on its way, unless one died or left no record.          *)
LockoutFollows ==
  failures >= MaxFailures /\ ~cut => \E r \in Requests : LockingOut(r)
=============================================================================
