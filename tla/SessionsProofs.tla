--------------------------- MODULE SessionsProofs ----------------------------
(***************************************************************************)
(* Safety of an account's way in, for every number of tokens and requests: *)
(* the sessions of a login, with every limit of step-up failures; then the *)
(* registration, and the login itself.                                     *)
(***************************************************************************)
EXTENDS MCAccounts, FiniteSetTheorems, TLAPS

Holding == {"lookup", "insert"}

(* Every login began with a token, and only logins that began have ended.  *)
LoginInv ==
  /\ \A t \in Issued : login[t] \in Issued
  /\ ended \subseteq Issued

(* A claimed row is live, and held by one refresh.                         *)
HeldInv ==
  \A r \in Requests :
    /\ task[r].pc = "claim" => task[r].tok \in Tokens
    /\ task[r].pc \in Holding =>
         /\ task[r].tok \in Live
         /\ \A q \in Requests : task[q].pc \in Holding /\ task[q].tok = task[r].tok => q = r

SessionInv == LoginInv /\ HeldInv /\ OneLivePerLogin /\ EndedStaysEnded

IInv == TypeOK /\ SessionInv /\ LockoutFollows

-----------------------------------------------------------------------------
LEMMA InitInv == Init => IInv
<1>. SUFFICES ASSUME Init PROVE IInv
  OBVIOUS
<1>1. TypeOK
  <2>1. task \in [Requests -> Task]
    BY DEF Init, Idle, Task, Pc
  <2>2. active \in BOOLEAN /\ cut \in BOOLEAN
    BY DEF Init
  <2>3. row \in [Tokens -> {"none", "live", "revoked", "gone"}]
        /\ age \in [Tokens -> {"fresh", "idle", "expired"}] /\ failures \in 0..FailureCap
        /\ login \in [Tokens -> Tokens \cup {None}] /\ ended \in SUBSET Tokens
        /\ reaper \in {"revoke", "delete"}
    BY FailureCapAssumption DEF Init
  <2>. QED
    BY <2>1, <2>2, <2>3 DEF TypeOK
<1>2. SessionInv
  BY DEF Init, Idle, SessionInv, LoginInv, HeldInv, Holding, OneLivePerLogin,
         EndedStaysEnded, Live, Issued
<1>3. LockoutFollows
  BY MaxFailuresAssumption DEF Init, LockoutFollows
<1>. QED
  BY <1>1, <1>2, <1>3 DEF IInv

(* A task record stays one when a field is replaced.                       *)
LEMMA TaskFields ==
  /\ Idle \in Task
  /\ \A x \in Task, pc \in Pc : [x EXCEPT !.pc = pc] \in Task
  /\ \A pc \in Pc, ts \in SUBSET Tokens : [Idle EXCEPT !.pc = pc, !.todo = ts] \in Task
  /\ \A pc \in Pc, t \in Tokens : [Idle EXCEPT !.pc = pc, !.tok = t] \in Task
BY DEF Task, Idle, Pc

LEMMA TaskUpdate ==
  ASSUME task \in [Requests -> Task], NEW r \in Requests
  PROVE  /\ \A pc \in Pc : Goto(r, pc) => task' \in [Requests -> Task]
         /\ \A pc \in Pc : \A ts \in SUBSET Tokens :
              Revoking(r, ts, pc) => task' \in [Requests -> Task]
         /\ Reply(r) => task' \in [Requests -> Task]
<1>1. ASSUME NEW pc \in Pc, Goto(r, pc) PROVE task' \in [Requests -> Task]
  <2>1. task[r] \in Task
    OBVIOUS
  <2>2. [task[r] EXCEPT !.pc = pc] \in Task
    BY <2>1, TaskFields
  <2>. QED
    BY <1>1, <2>2 DEF Goto
<1>2. ASSUME NEW pc \in Pc, NEW ts \in SUBSET Tokens, Revoking(r, ts, pc)
      PROVE  task' \in [Requests -> Task]
  BY <1>2, TaskFields DEF Revoking
<1>3. Reply(r) => task' \in [Requests -> Task]
  BY TaskFields DEF Reply
<1>. QED
  BY <1>1, <1>2, <1>3

LEMMA TaskTypeStep ==
  ASSUME TypeOK, [Next]_vars
  PROVE  task' \in [Requests -> Task]
<1>. USE DEF Pc
<1>0. task \in [Requests -> Task] /\ Live \in SUBSET Tokens
  BY DEF TypeOK, Live
<1>1. ASSUME NEW r \in Requests, Arrive(r) PROVE task' \in [Requests -> Task]
  <2>1. CASE LoginRead(r) \/ Lock(r) \/ StepUpFail(r)
    BY <1>0, <2>1, TaskUpdate DEF LoginRead, Lock, StepUpFail
  <2>2. ASSUME NEW t \in Tokens, RefreshSelect(r, t) PROVE task' \in [Requests -> Task]
    BY <1>0, <2>2, TaskFields DEF RefreshSelect, Free
  <2>3. ASSUME NEW s, RevokeAll(r, s) PROVE task' \in [Requests -> Task]
    <3>1. Live \ {s} \in SUBSET Tokens
      BY <1>0
    <3>. QED
      BY <1>0, <2>3, <3>1, TaskUpdate DEF RevokeAll
  <2>. QED
    BY <1>1, <2>1, <2>2, <2>3 DEF Arrive
<1>2. ASSUME NEW r \in Requests, Step(r) PROVE task' \in [Requests -> Task]
  <2>1. CASE LoginPrune(r) \/ RefreshClaim(r) \/ RefreshLookup(r)
    BY <1>0, <2>1, TaskUpdate DEF LoginPrune, RefreshClaim, RefreshLookup
  <2>2. CASE RefreshTheft(r) \/ LockRevoke(r) \/ StepUpCount(r)
    BY <1>0, <2>2, TaskUpdate DEF RefreshTheft, LockRevoke, StepUpCount
  <2>3. CASE \E n \in Tokens : LoginInsert(r, n) \/ RefreshCommit(r, n)
    BY <1>0, <2>3, TaskUpdate DEF LoginInsert, RefreshCommit
  <2>4. CASE RevokeApply(r) \/ StepUpLockout(r)
    BY <1>0, <2>4, TaskUpdate DEF RevokeApply, StepUpLockout
  <2>. QED
    BY <1>2, <2>1, <2>2, <2>3, <2>4 DEF Step
<1>3. ASSUME NEW r \in Requests, Fail(r) PROVE task' \in [Requests -> Task]
  BY <1>0, <1>3, TaskUpdate DEF Fail
<1>4. ASSUME NEW t \in Tokens, RevokeOne(t) \/ Touch(t) \/ \E a \in {"idle", "expired"} : Age(t, a)
      PROVE  task' \in [Requests -> Task]
  BY <1>0, <1>4 DEF RevokeOne, Touch, Age
<1>5. CASE Unlock \/ StepUpGrant \/ Reap
  BY <1>0, <1>5 DEF Unlock, StepUpGrant, Reap, ReapIdle, ReapDead, ReapFails
<1>6. CASE Crash
  BY <1>6, TaskFields DEF Crash
<1>7. CASE UNCHANGED vars
  BY <1>0, <1>7 DEF vars
<1>. QED
  BY <1>1, <1>2, <1>3, <1>4, <1>5, <1>6, <1>7 DEF Next

LEMMA FlagTypeStep ==
  ASSUME TypeOK, [Next]_vars
  PROVE  active' \in BOOLEAN /\ cut' \in BOOLEAN
<1>0. active \in BOOLEAN /\ cut \in BOOLEAN
  BY DEF TypeOK
<1>1. ASSUME NEW r \in Requests, Arrive(r) \/ Step(r) \/ Fail(r)
      PROVE  active' \in BOOLEAN /\ cut' \in BOOLEAN
  BY <1>0, <1>1 DEF Arrive, Step, Fail, LoginRead, Lock, StepUpFail, RefreshSelect,
       RevokeAll, LoginPrune, RefreshClaim, RefreshLookup, RefreshTheft, LoginInsert,
       RefreshCommit, LockRevoke, RevokeApply, StepUpCount, StepUpLockout, steps
<1>2. ASSUME NEW t \in Tokens, RevokeOne(t) \/ Touch(t) \/ \E a \in {"idle", "expired"} : Age(t, a)
      PROVE  active' \in BOOLEAN /\ cut' \in BOOLEAN
  BY <1>0, <1>2 DEF RevokeOne, Touch, Age, steps
<1>3. CASE Unlock \/ StepUpGrant \/ Reap \/ Crash
  BY <1>0, <1>3 DEF Unlock, StepUpGrant, Reap, ReapIdle, ReapDead, ReapFails, Crash, steps
<1>4. CASE UNCHANGED vars
  BY <1>0, <1>4 DEF vars, steps
<1>. QED
  BY <1>1, <1>2, <1>3, <1>4 DEF Next

RowType ==
  /\ row \in [Tokens -> {"none", "live", "revoked", "gone"}]
  /\ age \in [Tokens -> {"fresh", "idle", "expired"}]
  /\ failures \in 0..FailureCap
  /\ reaper \in {"revoke", "delete"}
  /\ login \in [Tokens -> Tokens \cup {None}]
  /\ ended \in SUBSET Tokens

LEMMA TypeSplit ==
  TypeOK <=> RowType /\ task \in [Requests -> Task] /\ active \in BOOLEAN /\ cut \in BOOLEAN
BY DEF TypeOK, RowType

LEMMA RevokeType ==
  ASSUME RowType, SessionInv, NEW ts, Revoke(ts)
  PROVE  /\ row' \in [Tokens -> {"none", "live", "revoked", "gone"}]
         /\ age' = age /\ login' = login /\ ended' \in SUBSET Tokens
<1>1. row' \in [Tokens -> {"none", "live", "revoked", "gone"}]
  BY DEF Revoke, RowType
<1>2. \A t \in Live : login[t] \in Tokens
  BY DEF SessionInv, LoginInv, Live, Issued
<1>. QED
  BY <1>1, <1>2 DEF Revoke, RowType

LEMMA RowTypeStep ==
  ASSUME TypeOK, SessionInv, [Next]_vars
  PROVE  RowType'
<1>0. RowType /\ task \in [Requests -> Task]
  BY TypeSplit
<1>1. ASSUME NEW r \in Requests, Arrive(r) \/ Fail(r) PROVE RowType'
  <2>1. failures' = failures \/ failures' \in 0..FailureCap
    <3>1. CASE StepUpFail(r)
      BY <3>1 DEF StepUpFail
    <3>2. ASSUME LoginRead(r) \/ Lock(r) \/ Fail(r) PROVE failures' = failures
      BY <3>2 DEF LoginRead, Lock, Fail, steps
    <3>3. ASSUME NEW t \in Tokens, RefreshSelect(r, t) PROVE failures' = failures
      BY <3>3 DEF RefreshSelect, steps
    <3>4. ASSUME NEW s \in Issued \cup {None}, RevokeAll(r, s) PROVE failures' = failures
      BY <3>4 DEF RevokeAll, steps
    <3>5. CASE Arrive(r)
      BY <3>1, <3>2, <3>3, <3>4, <3>5 DEF Arrive
    <3>. QED
      BY <1>1, <3>2, <3>5
  <2>2. UNCHANGED <<row, age, login, ended, reaper>>
    BY <1>1 DEF Arrive, Fail, LoginRead, Lock, StepUpFail, RefreshSelect, RevokeAll, sessions
  <2>3. failures' \in 0..FailureCap
    BY <1>0, <2>1, FailureCapAssumption DEF RowType
  <2>. QED
    BY <1>0, <2>2, <2>3 DEF RowType
<1>2. ASSUME NEW r \in Requests, Step(r) PROVE RowType'
  <2>1. CASE RefreshClaim(r) \/ RefreshLookup(r) \/ RefreshTheft(r) \/ LockRevoke(r)
             \/ StepUpCount(r)
    BY <1>0, <2>1 DEF RowType, RefreshClaim, RefreshLookup, RefreshTheft, LockRevoke,
         StepUpCount, sessions, steps
  <2>2. CASE LoginPrune(r)
    BY <1>0, <2>2 DEF RowType, LoginPrune, DeleteDead, steps
  <2>3. ASSUME NEW n \in Tokens, LoginInsert(r, n) PROVE RowType'
    BY <1>0, <2>3 DEF RowType, LoginInsert, Issue, steps
  <2>4. ASSUME NEW n \in Tokens, RefreshCommit(r, n) PROVE RowType'
    <3>1. task[r].tok \in Tokens
      BY <2>4 DEF RefreshCommit, SessionInv, HeldInv, Holding, Live
    <3>. QED
      BY <1>0, <2>4, <3>1 DEF RowType, RefreshCommit, Issue, steps
  <2>5. CASE RevokeApply(r)
    BY <1>0, <2>5, RevokeType DEF RowType, RevokeApply, steps
  <2>6. CASE StepUpLockout(r)
    BY <1>0, <2>6, FailureCapAssumption DEF RowType, StepUpLockout, Forgiven, sessions
  <2>. QED
    BY <1>2, <2>1, <2>2, <2>3, <2>4, <2>5, <2>6 DEF Step
<1>3. ASSUME NEW t \in Tokens, RevokeOne(t) PROVE RowType'
  BY <1>0, <1>3, RevokeType DEF RowType, RevokeOne, steps
<1>4. ASSUME NEW t \in Tokens, Touch(t) \/ \E a \in {"idle", "expired"} : Age(t, a)
      PROVE  RowType'
  BY <1>0, <1>4 DEF RowType, Touch, Age, steps
<1>5. CASE ReapIdle \/ ReapDead \/ ReapFails
  <2>1. CASE ReapIdle
    BY <1>0, <2>1, RevokeType DEF RowType, ReapIdle, steps
  <2>2. CASE ReapDead
    BY <1>0, <2>2 DEF RowType, ReapDead, DeleteDead, steps
  <2>3. CASE ReapFails
    BY <1>0, <2>3 DEF RowType, ReapFails, sessions, steps
  <2>. QED
    BY <1>5, <2>1, <2>2, <2>3
<1>6. CASE Unlock \/ StepUpGrant \/ Crash
  BY <1>0, <1>6, FailureCapAssumption DEF RowType, Unlock, StepUpGrant, Crash, sessions, steps
<1>7. CASE UNCHANGED vars
  BY <1>0, <1>7 DEF RowType, vars, sessions, steps
<1>. QED
  BY <1>1, <1>2, <1>3, <1>4, <1>5, <1>6, <1>7 DEF Next, Reap

-----------------------------------------------------------------------------
(* What a step does to the tasks: the others keep theirs, and this one     *)
(* claims nothing.                                                         *)
ClaimsNothing ==
  \A q \in Requests : task'[q] = task[q] \/ task'[q].pc \notin Holding \cup {"claim"}

LEMMA RowsUntouched ==
  ASSUME SessionInv, UNCHANGED <<row, login, ended>>, ClaimsNothing
  PROVE  SessionInv'
BY DEF SessionInv, LoginInv, HeldInv, OneLivePerLogin, EndedStaysEnded, ClaimsNothing,
       Live, Issued

LEMMA RevokeKeeps ==
  ASSUME SessionInv, RowType, NEW ts, Revoke(ts), ts \cap Live \cap Held = {}, ClaimsNothing
  PROVE  SessionInv'
<1>1. Live' = Live \ ts /\ Issued' = Issued
  BY DEF Revoke, Live, Issued, RowType
<1>2. LoginInv' /\ OneLivePerLogin'
  BY <1>1 DEF SessionInv, LoginInv, OneLivePerLogin, Revoke, Live, Issued
<1>3. EndedStaysEnded'
  BY <1>1 DEF SessionInv, OneLivePerLogin, EndedStaysEnded, Revoke
<1>4. HeldInv'
  BY <1>1 DEF SessionInv, HeldInv, Held, Holding, ClaimsNothing
<1>. QED
  BY <1>2, <1>3, <1>4 DEF SessionInv

LEMMA DeleteKeeps ==
  ASSUME SessionInv, RowType, DeleteDead, ClaimsNothing
  PROVE  SessionInv'
<1>1. Live' = Live \ Dead /\ Issued' = Issued
  BY DEF DeleteDead, Live, Issued, Dead, RowType
<1>2. LoginInv' /\ OneLivePerLogin' /\ EndedStaysEnded'
  BY <1>1 DEF SessionInv, LoginInv, OneLivePerLogin, EndedStaysEnded, DeleteDead
<1>3. HeldInv'
  BY <1>1 DEF SessionInv, HeldInv, Held, Holding, ClaimsNothing, DeleteDead
<1>. QED
  BY <1>2, <1>3 DEF SessionInv

(* A new login begins with its own first token.                            *)
LEMMA NewLogin ==
  ASSUME SessionInv, RowType, NEW n \in Tokens, Issue(n, n), UNCHANGED ended,
         row' = [row EXCEPT ![n] = "live"], ClaimsNothing
  PROVE  SessionInv'
<1>1. n \notin Issued /\ Issued' = Issued \cup {n} /\ Live' = Live \cup {n}
  BY DEF Issue, Issued, Live, RowType
<1>2. \A t \in Issued : login'[t] = login[t]
  BY <1>1 DEF Issue, RowType, Issued
<1>3. login'[n] = n
  BY DEF Issue, RowType
<1>4. Live \subseteq Issued
  BY DEF Live, Issued
<1>5. LoginInv' /\ OneLivePerLogin' /\ EndedStaysEnded'
  BY <1>1, <1>2, <1>3, <1>4 DEF SessionInv, LoginInv, OneLivePerLogin, EndedStaysEnded
<1>6. HeldInv'
  BY <1>1 DEF SessionInv, HeldInv, Holding, ClaimsNothing
<1>. QED
  BY <1>5, <1>6 DEF SessionInv

(* A refresh replaces the row it holds by one of the same login.           *)
LEMMA Replacement ==
  ASSUME SessionInv, TypeOK, NEW r \in Requests, NEW n \in Tokens, RefreshCommit(r, n)
  PROVE  SessionInv'
<1>. DEFINE t == task[r].tok
<1>0. RowType /\ task \in [Requests -> Task]
  BY TypeSplit
<1>1. t \in Live /\ t \in Issued /\ t # n
  BY DEF SessionInv, HeldInv, Holding, RefreshCommit, Issue, Live, Issued
<1>2. n \notin Issued /\ Issued' = Issued \cup {n} /\ Live' = (Live \ {t}) \cup {n}
  BY <1>0, <1>1 DEF RefreshCommit, Issue, Issued, Live, RowType
<1>3. \A s \in Issued : login'[s] = login[s]
  BY <1>0, <1>2 DEF RefreshCommit, Issue, RowType, Issued
<1>4. login'[n] = login[t]
  BY <1>0 DEF RefreshCommit, Issue, RowType
<1>5. Live \subseteq Issued
  BY DEF Live, Issued
<1>6. LoginInv'
  BY <1>1, <1>2, <1>3, <1>4 DEF SessionInv, LoginInv, RefreshCommit
<1>7. OneLivePerLogin'
  BY <1>1, <1>2, <1>3, <1>4, <1>5 DEF SessionInv, OneLivePerLogin
<1>8. EndedStaysEnded'
  BY <1>1, <1>2, <1>3, <1>4, <1>5 DEF SessionInv, EndedStaysEnded, RefreshCommit
<1>9. HeldInv'
  <2>1. task[r].pc = "insert" /\ task' = [task EXCEPT ![r] = Idle]
    BY DEF RefreshCommit, Reply
  <2>2. task'[r].pc = "idle" /\ \A q \in Requests \ {r} : task'[q] = task[q]
    BY <1>0, <2>1 DEF Idle
  <2>3. \A q \in Requests \ {r} : task[q].pc \in Holding => task[q].tok \in Live \ {t}
    BY <2>1 DEF SessionInv, HeldInv, Holding
  <2>. QED
    BY <1>2, <2>2, <2>3 DEF SessionInv, HeldInv, Holding
<1>. QED
  BY <1>6, <1>7, <1>8, <1>9 DEF SessionInv

LEMMA SessionStep ==
  ASSUME TypeOK, SessionInv, [Next]_vars
  PROVE  SessionInv'
<1>0. RowType /\ task \in [Requests -> Task]
  BY TypeSplit
<1>1. ASSUME NEW r \in Requests, Arrive(r) \/ Step(r) \/ Fail(r)
      PROVE  SessionInv'
  <2>2. CASE LoginRead(r) \/ Lock(r) \/ StepUpFail(r) \/ StepUpLockout(r) \/ Fail(r)
    <3>1. ClaimsNothing
      BY <1>0, <2>2 DEF LoginRead, Lock, StepUpFail, StepUpLockout, Fail, Goto, Reply, Idle,
           ClaimsNothing, Holding, Task
    <3>. QED
      BY <2>2, <3>1, RowsUntouched DEF LoginRead, Lock, StepUpFail, StepUpLockout, Fail,
           sessions
  <2>3. CASE RefreshTheft(r) \/ LockRevoke(r) \/ StepUpCount(r) \/ \E s : RevokeAll(r, s)
    <3>1. \A ts, pc : pc \in {"revoke", "lockout"} /\ Revoking(r, ts, pc) => ClaimsNothing
      BY <1>0 DEF Revoking, Idle, ClaimsNothing, Holding
    <3>2. Reply(r) => ClaimsNothing
      BY <1>0 DEF Reply, Idle, ClaimsNothing, Holding
    <3>3. ClaimsNothing
      BY <2>3, <3>1, <3>2 DEF RefreshTheft, LockRevoke, StepUpCount, RevokeAll
    <3>. QED
      BY <2>3, <3>3, RowsUntouched DEF RefreshTheft, LockRevoke, StepUpCount, RevokeAll,
           sessions
  <2>4. ASSUME NEW t \in Tokens, RefreshSelect(r, t) PROVE SessionInv'
    <3>1. /\ task'[r].pc = "claim" /\ task'[r].tok = t
          /\ \A q \in Requests \ {r} : task'[q] = task[q]
      BY <1>0, <2>4 DEF RefreshSelect, Idle
    <3>2. UNCHANGED <<row, login, ended>>
      BY <2>4 DEF RefreshSelect, sessions
    <3>. QED
      BY <3>1, <3>2 DEF SessionInv, LoginInv, HeldInv, Holding, OneLivePerLogin,
           EndedStaysEnded, Live, Issued
  <2>5. CASE RefreshClaim(r)
    <3>1. /\ task[r].pc = "claim" /\ task[r].tok \in Tokens \ Held
          /\ task'[r].tok = task[r].tok
          /\ (task'[r].pc = "lookup" /\ task[r].tok \in Live) \/ task'[r].pc = "theft"
          /\ \A q \in Requests \ {r} : task'[q] = task[q]
      BY <1>0, <2>5 DEF RefreshClaim, Claimable, Goto, SessionInv, HeldInv, Live, Task
    <3>2. UNCHANGED <<row, login, ended>>
      BY <2>5 DEF RefreshClaim, sessions
    <3>. QED
      BY <3>1, <3>2 DEF SessionInv, LoginInv, HeldInv, Held, Holding, OneLivePerLogin,
           EndedStaysEnded, Live, Issued
  <2>6. CASE RefreshLookup(r)
    <3>1. /\ task[r].pc = "lookup" /\ task'[r].pc = "insert" /\ task'[r].tok = task[r].tok
          /\ \A q \in Requests \ {r} : task'[q] = task[q]
      BY <1>0, <2>6 DEF RefreshLookup, Goto, Task
    <3>2. UNCHANGED <<row, login, ended>>
      BY <2>6 DEF RefreshLookup, sessions
    <3>. QED
      BY <3>1, <3>2 DEF SessionInv, LoginInv, HeldInv, Holding, OneLivePerLogin,
           EndedStaysEnded, Live, Issued
  <2>7. CASE LoginPrune(r)
    <3>1. ClaimsNothing
      BY <1>0, <2>7 DEF LoginPrune, Goto, Task, ClaimsNothing, Holding
    <3>. QED
      BY <1>0, <2>7, <3>1, DeleteKeeps DEF LoginPrune
  <2>8. ASSUME NEW n \in Tokens, LoginInsert(r, n) PROVE SessionInv'
    <3>1. ClaimsNothing
      BY <1>0, <2>8 DEF LoginInsert, Reply, Idle, ClaimsNothing, Holding
    <3>. QED
      BY <1>0, <2>8, <3>1, NewLogin DEF LoginInsert
  <2>9. ASSUME NEW n \in Tokens, RefreshCommit(r, n) PROVE SessionInv'
    BY <2>9, Replacement
  <2>10. CASE RevokeApply(r)
    <3>1. ClaimsNothing
      BY <1>0, <2>10 DEF RevokeApply, Goto, Reply, Idle, Task, ClaimsNothing, Holding
    <3>. QED
      BY <1>0, <2>10, <3>1, RevokeKeeps DEF RevokeApply
  <2>. QED
    BY <1>1, <2>2, <2>3, <2>4, <2>5, <2>6, <2>7, <2>8, <2>9, <2>10 DEF Arrive, Step
<1>2. ASSUME UNCHANGED task PROVE ClaimsNothing
  BY <1>2 DEF ClaimsNothing
<1>3. ASSUME NEW t \in Tokens, RevokeOne(t) PROVE SessionInv'
  BY <1>0, <1>2, <1>3, RevokeKeeps DEF RevokeOne
<1>4. ASSUME NEW t \in Tokens, Touch(t) \/ \E a \in {"idle", "expired"} : Age(t, a)
      PROVE  SessionInv'
  BY <1>2, <1>4, RowsUntouched DEF Touch, Age
<1>5. CASE ReapIdle
  BY <1>0, <1>2, <1>5, RevokeKeeps DEF ReapIdle
<1>6. CASE ReapDead
  BY <1>0, <1>2, <1>6, DeleteKeeps DEF ReapDead
<1>7. CASE ReapFails \/ Unlock \/ StepUpGrant \/ UNCHANGED vars
  BY <1>2, <1>7, RowsUntouched DEF ReapFails, Unlock, StepUpGrant, vars, sessions
<1>8. CASE Crash
  <2>1. ClaimsNothing
    BY <1>8 DEF Crash, Idle, ClaimsNothing, Holding
  <2>. QED
    BY <1>8, <2>1, RowsUntouched DEF Crash, sessions
<1>. QED
  BY <1>1, <1>3, <1>4, <1>5, <1>6, <1>7, <1>8 DEF Next, Reap

-----------------------------------------------------------------------------
(* A failure at the limit is one that some request will act on.            *)
LEMMA LockoutStep ==
  ASSUME TypeOK, LockoutFollows, [Next]_vars
  PROVE  LockoutFollows'
<1>0. task \in [Requests -> Task] /\ failures \in Nat
  BY TypeSplit, FailureCapAssumption DEF RowType
<1>1. ASSUME failures' = failures, cut' = cut,
             \A q \in Requests : LockingOut(q) => LockingOut(q)'
      PROVE  LockoutFollows'
  BY <1>1 DEF LockoutFollows
<1>2. ASSUME NEW r \in Requests, Arrive(r) \/ Step(r), ~StepUpFail(r),
             ~StepUpCount(r), ~StepUpLockout(r)
      PROVE  LockoutFollows'
  <2>1. failures' = failures /\ cut' = cut
    BY <1>2 DEF Arrive, Step, LoginRead, Lock, RefreshSelect, RevokeAll, LoginPrune,
         RefreshClaim, RefreshLookup, RefreshTheft, LoginInsert, RefreshCommit, LockRevoke,
         RevokeApply, steps
  <2>2. \A q \in Requests \ {r} : task'[q] = task[q]
    BY <1>0, <1>2 DEF Arrive, Step, LoginRead, Lock, RefreshSelect, RevokeAll, LoginPrune,
         RefreshClaim, RefreshLookup, RefreshTheft, LoginInsert, RefreshCommit, LockRevoke,
         RevokeApply, Goto, Reply, Revoking
  <2>3. LockingOut(r) => LockingOut(r)'
    <3>1. CASE Arrive(r)
      <4>1. task[r] = Idle
        BY <1>2, <3>1 DEF Arrive, LoginRead, Lock, RefreshSelect, RevokeAll, Free
      <4>. QED
        BY <4>1 DEF Idle, LockingOut
    <3>2. CASE RevokeApply(r)
      BY <1>0, <3>2 DEF RevokeApply, Goto, LockingOut, Task, Reply
    <3>3. CASE Step(r) /\ ~RevokeApply(r)
      BY <1>2, <3>3 DEF Step, LoginPrune, RefreshClaim, RefreshLookup, RefreshTheft,
           LoginInsert, RefreshCommit, LockRevoke, LockingOut
    <3>. QED
      BY <1>2, <3>1, <3>2, <3>3
  <2>. QED
    BY <1>1, <2>1, <2>2, <2>3 DEF LockingOut
<1>3. ASSUME NEW r \in Requests, StepUpFail(r) PROVE LockoutFollows'
  <2>1. task'[r].pc = "count"
    BY <1>0, <1>3 DEF StepUpFail, Goto, Task
  <2>. QED
    BY <2>1 DEF LockoutFollows, LockingOut
<1>4. ASSUME NEW r \in Requests, StepUpCount(r) PROVE LockoutFollows'
  <2>1. failures' = failures
    BY <1>4 DEF StepUpCount, steps
  <2>2. CASE TooMany
    <3>1. task'[r].pc = "lockout"
      BY <1>0, <1>4, <2>2 DEF StepUpCount, Revoking, Idle
    <3>. QED
      BY <3>1 DEF LockoutFollows, LockingOut
  <2>3. CASE ~TooMany
    BY <2>1, <2>3 DEF TooMany, LockoutFollows
  <2>. QED
    BY <2>2, <2>3
<1>5. ASSUME failures' = 0 \/ cut' = TRUE PROVE LockoutFollows'
  BY <1>5, MaxFailuresAssumption DEF LockoutFollows
<1>6. ASSUME NEW r \in Requests, StepUpLockout(r) \/ StepUpGrant PROVE LockoutFollows'
  BY <1>5, <1>6 DEF StepUpLockout, StepUpGrant, Forgiven
<1>7. ASSUME NEW r \in Requests, Fail(r) PROVE LockoutFollows'
  <2>1. \A q \in Requests \ {r} : task'[q] = task[q]
    BY <1>0, <1>7 DEF Fail, Reply
  <2>2. failures' = failures /\ (cut' <=> cut \/ LockingOut(r))
    BY <1>7 DEF Fail
  <2>. QED
    BY <2>1, <2>2 DEF LockoutFollows, LockingOut
<1>8. CASE Crash
  BY <1>8 DEF Crash, LockoutFollows
<1>9. ASSUME UNCHANGED <<task, steps>> PROVE LockoutFollows'
  BY <1>1, <1>9 DEF steps, LockingOut
<1>10. ASSUME NEW t \in Tokens, RevokeOne(t) \/ Touch(t) \/ \E a \in {"idle", "expired"} : Age(t, a)
       PROVE  LockoutFollows'
  BY <1>9, <1>10 DEF RevokeOne, Touch, Age
<1>11. CASE Unlock \/ Reap \/ UNCHANGED vars
  BY <1>9, <1>11 DEF Unlock, Reap, ReapIdle, ReapDead, ReapFails, vars
<1>12. CASE StepUpGrant
  BY <1>5, <1>12 DEF StepUpGrant
<1>. QED
  BY <1>2, <1>3, <1>4, <1>6, <1>7, <1>8, <1>10, <1>11, <1>12 DEF Next

-----------------------------------------------------------------------------
(* What the refresh handler's claim keeps, with the holds it relies on.    *)
THEOREM Invariance == Spec => []IInv
<1>1. IInv /\ [Next]_vars => IInv'
  <2>. SUFFICES ASSUME IInv, [Next]_vars PROVE IInv'
    OBVIOUS
  <2>1. TypeOK'
    <3>1. RowType'
      BY RowTypeStep DEF IInv
    <3>2. task' \in [Requests -> Task] /\ active' \in BOOLEAN /\ cut' \in BOOLEAN
      BY TaskTypeStep, FlagTypeStep DEF IInv
    <3>. QED
      BY <3>1, <3>2 DEF TypeOK, RowType
  <2>. QED
    BY <2>1, SessionStep, LockoutStep DEF IInv
<1>. QED
  BY InitInv, <1>1, PTL DEF Spec

(* Tables and tasks keep their types, and no count goes below zero.        *)
THEOREM TypeCorrect == Spec => []TypeOK
<1>1. IInv => TypeOK
  BY DEF IInv
<1>. QED
  BY Invariance, <1>1, PTL

(* Of any number of refreshes with one token, one gets a successor.        *)
THEOREM OneTokenPerLogin == Spec => []OneLivePerLogin
<1>1. IInv => OneLivePerLogin
  BY DEF IInv, SessionInv
<1>. QED
  BY Invariance, <1>1, PTL

(* A session that was revoked is not brought back by a refresh.            *)
THEOREM RevokedForGood == Spec => []EndedStaysEnded
<1>1. IInv => EndedStaysEnded
  BY DEF IInv, SessionInv
<1>. QED
  BY Invariance, <1>1, PTL

(* The failure that reaches the limit is acted on.                         *)
THEOREM LimitLocksOut == Spec => []LockoutFollows
<1>1. IInv => LockoutFollows
  BY DEF IInv
<1>. QED
  BY Invariance, <1>1, PTL

-----------------------------------------------------------------------------
(* Registration: the bootstrap token                                       *)

SignupTask ==
  [pc : {"idle", "counted", "bootstrap", "invite", "open"},
   name : Tokens \cup {None}, inv : Twos \cup {None}, key : Twos \cup {None}]

SignupTypes ==
  /\ signupUser \in [Tokens -> {"none", "user", "admin"}]
  /\ signupInvite \in [Twos -> {"none", "pending", "used", "gone"}]
  /\ signupToken \in Twos \cup {None} /\ signupOpen \in BOOLEAN
  /\ signupStart \in [Twos -> {"new", "counted", "looked", "logged", "over"}]
  /\ signupReg \in [Requests -> SignupTask]

(* Whoever invites or opens the registration is an account, and accounts   *)
(* stay: a second round that is not the bootstrap's meets a server that    *)
(* has one.                                                                *)
Opened ==
  \/ signupOpen
  \/ \E i \in Twos : signupInvite[i] # "none"
  \/ \E r \in Requests : signupReg[r].pc \in {"invite", "open"}

(* Tokens are known once they are stored and logged.  What a start stores  *)
(* is new, so nobody has the token that is written after the first         *)
(* account; and a request that had an earlier one has a token that was     *)
(* deleted, or replaced, when that account came.                           *)
SignupInv ==
  /\ SignupTypes
  /\ \A r \in Requests : signupReg[r].pc # "idle" => signupReg[r].name \in Tokens
  /\ \A m, n \in Signup!Admins : m = n
  /\ Opened => Signup!Accounts # {}
  /\ signupToken # None => signupStart[signupToken] = "logged"
  /\ \A r \in Requests : signupReg[r].key # None => signupStart[signupReg[r].key] = "logged"
  /\ \A r \in Requests : signupReg[r].pc \in {"counted", "bootstrap"} => signupReg[r].key # None
  /\ Signup!Accounts # {} /\ signupToken # None =>
       \A r \in Requests : signupReg[r].key # signupToken

LEMMA SignupInit == Signup!Init => SignupInv
<1>. SUFFICES ASSUME Signup!Init PROVE SignupInv
  OBVIOUS
<1>1. SignupTypes
  <2>1. signupReg \in [Requests -> SignupTask]
    BY DEF Signup!Init, Signup!Idle, SignupTask
  <2>2. signupToken \in Twos \cup {None} /\ signupOpen \in BOOLEAN
    BY DEF Signup!Init
  <2>. QED
    BY <2>1, <2>2 DEF Signup!Init, SignupTypes
<1>. QED
  BY <1>1 DEF Signup!Init, Signup!Idle, SignupInv, Opened, Signup!Accounts, Signup!Admins

(* The tasks after a request is answered.                                  *)
LEMMA SignupAnswered ==
  ASSUME signupReg \in [Requests -> SignupTask], NEW r \in Requests, Signup!Reply(r)
  PROVE  /\ signupReg' \in [Requests -> SignupTask]
         /\ \A q \in Requests : signupReg'[q] = IF q = r THEN Signup!Idle ELSE signupReg[q]
BY DEF Signup!Reply, Signup!Idle, SignupTask

LEMMA SignupStep == SignupInv /\ [Signup!Next]_(Signup!vars) => SignupInv'
<1>. SUFFICES ASSUME SignupInv, [Signup!Next]_(Signup!vars) PROVE SignupInv'
  OBVIOUS
<1>. USE SignupAssumption DEF Signup!ConstantsOK
<1>. USE DEF SignupInv, SignupTypes, Opened, Signup!Accounts, Signup!Admins
<1>0. signupReg \in [Requests -> SignupTask] /\ None \in Twos \cup {None}
  OBVIOUS
<1>1. ASSUME NEW s \in Twos, Signup!StartCounts(s) \/ Signup!StartLooks(s) PROVE SignupInv'
  <2>1. /\ signupStart' \in [Twos -> {"new", "counted", "looked", "logged", "over"}]
        /\ \A t \in Twos : signupStart[t] = "logged" => signupStart'[t] = "logged"
    BY <1>1 DEF Signup!StartCounts, Signup!StartLooks
  <2>2. UNCHANGED <<signupUser, signupInvite, signupToken, signupOpen, signupReg>>
    BY <1>1 DEF Signup!StartCounts, Signup!StartLooks
  <2>3. \A r \in Requests : signupReg[r].key \in Twos \cup {None}
    BY DEF SignupTask
  <2>. QED
    BY <2>1, <2>2, <2>3
<1>11. ASSUME NEW s \in Twos, Signup!StartWrites(s) PROVE SignupInv'
  <2>1. /\ signupStart' \in [Twos -> {"new", "counted", "looked", "logged", "over"}]
        /\ \A t \in Twos : signupStart'[t] = IF t = s THEN "logged" ELSE signupStart[t]
    BY <1>11 DEF Signup!StartWrites
  <2>2. \A r \in Requests : signupReg[r].key # s
    BY <1>11 DEF Signup!StartWrites
  <2>3. signupToken' = s /\ UNCHANGED <<signupUser, signupInvite, signupOpen, signupReg>>
    BY <1>11 DEF Signup!StartWrites
  <2>4. \A r \in Requests : signupReg[r].key \in Twos \cup {None}
    BY DEF SignupTask
  <2>. QED
    BY <2>1, <2>2, <2>3, <2>4
<1>2. CASE Signup!SetOpen
  BY <1>2 DEF Signup!SetOpen
<1>3. ASSUME NEW i \in Twos, Signup!Invite(i) \/ Signup!Withdraw(i) PROVE SignupInv'
  BY <1>3 DEF Signup!Invite, Signup!Withdraw
<1>4. ASSUME NEW r \in Requests, Signup!BootstrapCommit(r) PROVE SignupInv'
  <2>1. /\ signupReg' \in [Requests -> SignupTask]
        /\ \A q \in Requests : signupReg'[q] = IF q = r THEN Signup!Idle ELSE signupReg[q]
    BY <1>4, SignupAnswered DEF Signup!BootstrapCommit
  <2>2. CASE /\ signupToken = signupReg[r].key
             /\ signupUser' = [signupUser EXCEPT ![signupReg[r].name] = "admin"]
             /\ signupToken' = None
    <3>1. /\ signupReg[r].key # None /\ signupReg[r].name \in Tokens
          /\ Signup!Accounts = {}
      BY <1>4, <2>2 DEF Signup!BootstrapCommit, Signup!At
    <3>2. Signup!Accounts' = {signupReg[r].name} /\ Signup!Admins' = {signupReg[r].name}
      <4>1. \A m \in Tokens : signupUser'[m] = IF m = signupReg[r].name THEN "admin" ELSE "none"
        BY <2>2, <3>1
      <4>. QED
        BY <3>1, <4>1
    <3>3. signupUser' \in [Tokens -> {"none", "user", "admin"}]
      BY <2>2, <3>1
    <3>. QED
      BY <1>4, <2>1, <2>2, <3>2, <3>3 DEF Signup!BootstrapCommit, Signup!Idle
  <2>3. CASE UNCHANGED <<signupUser, signupToken>>
    BY <1>4, <2>1, <2>3 DEF Signup!BootstrapCommit, Signup!Idle
  <2>. QED
    BY <1>4, <2>2, <2>3 DEF Signup!BootstrapCommit, Signup!Consumed
<1>5. ASSUME NEW r \in Requests, Signup!InviteCommit(r) \/ Signup!OpenCommit(r) PROVE SignupInv'
  <2>1. /\ signupReg' \in [Requests -> SignupTask]
        /\ \A q \in Requests : signupReg'[q] = IF q = r THEN Signup!Idle ELSE signupReg[q]
    BY <1>5, SignupAnswered DEF Signup!InviteCommit, Signup!OpenCommit
  <2>2. /\ signupReg[r].name \in Tokens /\ signupToken' = signupToken
        /\ signupOpen' = signupOpen /\ signupStart' = signupStart
    BY <1>5 DEF Signup!InviteCommit, Signup!OpenCommit, Signup!At
  <2>3. /\ signupUser' \in [Tokens -> {"none", "user", "admin"}]
        /\ signupInvite' \in [Twos -> {"none", "pending", "used", "gone"}]
    BY <1>5, <2>2 DEF Signup!InviteCommit, Signup!OpenCommit, Signup!Free
  <2>4. \A n \in Tokens : /\ signupUser'[n] = "admin" <=> signupUser[n] = "admin"
                          /\ signupUser[n] # "none" => signupUser'[n] # "none"
    BY <1>5, <2>2 DEF Signup!InviteCommit, Signup!OpenCommit, Signup!Free
  <2>5. Signup!Accounts # {}
    BY <1>5 DEF Signup!InviteCommit, Signup!OpenCommit, Signup!At
  <2>6. Signup!Accounts' # {}
    BY <2>4, <2>5
  <2>. QED
    BY <2>1, <2>2, <2>3, <2>4, <2>5, <2>6 DEF Signup!Idle
<1>6. ASSUME NEW r \in Requests, Signup!Fail(r) PROVE SignupInv'
  <2>1. /\ signupReg' \in [Requests -> SignupTask]
        /\ \A q \in Requests : signupReg'[q] = IF q = r THEN Signup!Idle ELSE signupReg[q]
    BY <1>6, SignupAnswered DEF Signup!Fail
  <2>. QED
    BY <1>6, <2>1 DEF Signup!Fail, Signup!Idle
<1>7. ASSUME NEW r \in Requests, NEW n \in Tokens, NEW t \in Twos, Signup!BootstrapCount(r, n, t)
      PROVE SignupInv'
  <2>1. /\ signupReg' \in [Requests -> SignupTask]
        /\ \A q \in Requests : signupReg'[q] =
              IF q = r THEN [pc |-> "counted", name |-> n, inv |-> None, key |-> t]
              ELSE signupReg[q]
    BY <1>0, <1>7 DEF Signup!BootstrapCount, Signup!Take, SignupTask
  <2>. QED
    BY <1>7, <2>1 DEF Signup!BootstrapCount
<1>12. ASSUME NEW r \in Requests, Signup!BootstrapLook(r) PROVE SignupInv'
  <2>1. \A q \in Requests : /\ signupReg'[q].name = signupReg[q].name
                           /\ signupReg'[q].key = signupReg[q].key
                           /\ signupReg'[q].pc = IF q = r THEN "bootstrap" ELSE signupReg[q].pc
    BY <1>12 DEF Signup!BootstrapLook, SignupTask
  <2>2. signupReg' \in [Requests -> SignupTask]
    BY <1>12 DEF Signup!BootstrapLook, SignupTask
  <2>3. signupReg[r].pc = "counted" /\ signupReg'[r].pc = "bootstrap"
    BY <1>12 DEF Signup!BootstrapLook, Signup!At, SignupTask
  <2>4. UNCHANGED <<signupUser, signupInvite, signupToken, signupStart, signupOpen>>
    BY <1>12 DEF Signup!BootstrapLook
  <2>5. /\ Opened' => Opened
        /\ Signup!Accounts' = Signup!Accounts /\ Signup!Admins' = Signup!Admins
    <3>1. Signup!Accounts' = Signup!Accounts /\ Signup!Admins' = Signup!Admins
      BY <2>4
    <3>2. \A q \in Requests : signupReg'[q].pc \in {"invite", "open"} => signupReg[q].pc \in {"invite", "open"}
      BY <2>1
    <3>. QED
      BY <2>4, <3>1, <3>2
  <2>6. \A q \in Requests : signupReg'[q].pc # "idle" => signupReg'[q].name \in Tokens
    BY <2>1, <2>3
  <2>7. \A q \in Requests :
          /\ signupReg'[q].key # None => signupStart[signupReg'[q].key] = "logged"
          /\ signupReg'[q].pc \in {"counted", "bootstrap"} => signupReg'[q].key # None
          /\ Signup!Accounts # {} /\ signupToken # None => signupReg'[q].key # signupToken
    BY <2>1, <2>3
  <2>8. SignupTypes'
    BY <2>2, <2>4
  <2>. HIDE DEF Signup!Accounts, Signup!Admins, Opened, SignupTypes
  <2>. QED
    BY <2>4, <2>5, <2>6, <2>7, <2>8
<1>8. ASSUME NEW r \in Requests, NEW n \in Tokens, Signup!OpenLook(r, n) PROVE SignupInv'
  <2>1. /\ signupReg' \in [Requests -> SignupTask]
        /\ \A q \in Requests : signupReg'[q] =
              IF q = r THEN [pc |-> "open", name |-> n, inv |-> None, key |-> None]
              ELSE signupReg[q]
    BY <1>0, <1>8 DEF Signup!OpenLook, Signup!Take, SignupTask
  <2>. QED
    BY <1>8, <2>1 DEF Signup!OpenLook
<1>9. ASSUME NEW r \in Requests, NEW n \in Tokens, NEW i \in Twos, Signup!InviteLook(r, n, i)
      PROVE SignupInv'
  <2>1. /\ signupReg' \in [Requests -> SignupTask]
        /\ \A q \in Requests : signupReg'[q] =
              IF q = r THEN [pc |-> "invite", name |-> n, inv |-> i, key |-> None]
              ELSE signupReg[q]
    BY <1>0, <1>9 DEF Signup!InviteLook, Signup!Take, SignupTask
  <2>. QED
    BY <1>9, <2>1 DEF Signup!InviteLook
<1>10. CASE UNCHANGED Signup!vars
  BY <1>10 DEF Signup!vars
<1>. QED
  BY <1>1, <1>2, <1>3, <1>4, <1>5, <1>6, <1>7, <1>8, <1>9, <1>10, <1>11, <1>12 DEF Signup!Next

(* Registration takes Cardinality from its own copy of FiniteSets.         *)
LEMMA SignupCardinality == \A S : Signup!Cardinality(S) = Cardinality(S)
BY DEF Signup!Cardinality, Cardinality

LEMMA SignupOne == SignupInv => OneBootstrap
<1>. SUFFICES ASSUME SignupInv PROVE OneBootstrap
  OBVIOUS
<1>1. CASE Signup!Admins = {}
  BY <1>1, FS_EmptySet, SignupCardinality DEF SignupInv, OneBootstrap, Signup!OneBootstrap
<1>2. ASSUME NEW n \in Signup!Admins PROVE OneBootstrap
  <2>1. Signup!Admins = {n}
    BY <1>2 DEF SignupInv
  <2>2. Cardinality(Signup!Admins) = 1
    BY <2>1, FS_Singleton
  <2>. QED
    BY <2>2, SignupCardinality DEF SignupInv, OneBootstrap, Signup!OneBootstrap
<1>. QED
  BY <1>1, <1>2

(* _bootstrap_admin and opaque_bootstrap_finish: of any number of workers  *)
(* that start, and of registrations that hold a token of theirs, one       *)
(* account at most is made an administrator, and a token that is written   *)
(* after it is in nobody's hands.                                          *)
THEOREM BootstrapOnce == Signup!Spec => []OneBootstrap
BY SignupInit, SignupStep, SignupOne, PTL DEF Signup!Spec

-----------------------------------------------------------------------------
(* Login: the password and the second factor                               *)

LoginPc ==
  {"idle", "reset", "methods", "challenge", "plain", "totp", "code", "strike",
   "consume", "assert", "proven", "recover"}
LoginTask == [pc : LoginPc, p : Twos \cup {None}]

(* The steps in which a request alone holds a use of the password, taken   *)
(* from the row of its first round or from its pending token.              *)
Claiming == {"reset", "methods", "challenge", "plain", "assert", "proven"}
Claims(r, p) == loginTask[r].pc \in Claiming /\ loginTask[r].p = p

LoginTypes ==
  /\ loginTask \in [Requests -> LoginTask]
  /\ \A r \in Requests : loginTask[r].pc # "idle" => loginTask[r].p \in Twos
  /\ loginStart \in [Twos -> {"none", "login", "recover", "gone"}]
  /\ loginMinted \in [Twos -> Nat]

(* A use of the password is a row, the claim of one request, a pending     *)
(* token, or a session: one of them at a time.                             *)
Unspent(p) == loginMinted[p] = 0 /\ loginStart[p] = "gone"
LoginUse ==
  /\ \A r \in Requests, p \in Twos : Claims(r, p) =>
       /\ p \notin loginPending /\ Unspent(p)
       /\ \A q \in Requests : Claims(q, p) => q = r
  /\ \A p \in Twos : p \in loginPending => Unspent(p)
  /\ \A p \in Twos : loginStart[p] # "gone" => loginMinted[p] = 0

FactorsInv ==
  /\ LoginTypes
  /\ LoginUse
  /\ OneSessionEach
  /\ \A r \in Requests : loginTask[r].pc = "plain" => loginTask[r].p \in loginBare
  /\ FactorAsked

LEMMA LoginInit == Factors!Init => FactorsInv
<1>. SUFFICES ASSUME Factors!Init PROVE FactorsInv
  OBVIOUS
<1>1. loginTask \in [Requests -> LoginTask]
  BY DEF Factors!Init, Factors!Idle, LoginTask, LoginPc
<1>2. LoginTypes
  BY <1>1 DEF Factors!Init, Factors!Idle, LoginTypes
<1>. QED
  BY <1>2 DEF Factors!Init, Factors!Idle, FactorsInv, LoginUse, Claims, Claiming, Unspent,
              OneSessionEach, Factors!OneSessionEach, FactorAsked, Factors!FactorAsked

(* A step that changes neither tasks nor what is recorded of a use.        *)
LEMMA LoginBeside ==
  ASSUME FactorsInv, loginBare \subseteq loginBare',
         UNCHANGED <<loginTask, loginStart, loginMinted, loginPlain, loginPending>>
  PROVE  FactorsInv'
BY DEF FactorsInv, LoginTypes, LoginUse, Claims, Unspent, OneSessionEach,
       Factors!OneSessionEach, FactorAsked, Factors!FactorAsked

(* A step of one request, or of none, that issues no session: what it      *)
(* claims, and what it leaves pending, nobody else claims.                 *)
LEMMA LoginMoves ==
  ASSUME FactorsInv, NEW r \in Requests, NEW x \in LoginTask,
         x.pc # "idle" => x.p \in Twos,
         loginTask' = [loginTask EXCEPT ![r] = x],
         loginStart' \in [Twos -> {"none", "login", "recover", "gone"}],
         \A p \in Twos : loginStart[p] = "gone" => loginStart'[p] = "gone",
         UNCHANGED <<loginMinted, loginPlain>>,
         loginBare \subseteq loginBare',
         x.pc = "plain" => x.p \in loginBare',
         x.pc \in Claiming =>
           /\ x.p \notin loginPending' /\ Unspent(x.p)'
           /\ \A q \in Requests \ {r} : ~Claims(q, x.p),
         \A p \in loginPending' \cap Twos : p \notin loginPending =>
           /\ Unspent(p)'
           /\ \A q \in Requests \ {r} : ~Claims(q, p)
  PROVE  FactorsInv'
<1>1. \A q \in Requests : loginTask'[q] = IF q = r THEN x ELSE loginTask[q]
  BY DEF FactorsInv, LoginTypes
<1>2. LoginTypes'
  BY <1>1 DEF FactorsInv, LoginTypes
<1>3. LoginUse'
  <2>1. ASSUME NEW s \in Requests, NEW p \in Twos, Claims(s, p)'
        PROVE  /\ p \notin loginPending' /\ Unspent(p)'
               /\ \A q \in Requests : Claims(q, p)' => q = s
    <3>1. CASE s = r
      BY <1>1, <2>1, <3>1 DEF Claims
    <3>2. CASE s # r
      <4>1. Claims(s, p) /\ Unspent(p) /\ p \notin loginPending
        BY <1>1, <2>1, <3>2 DEF Claims, FactorsInv, LoginUse
      <4>2. p \notin loginPending' /\ Unspent(p)'
        BY <3>2, <4>1 DEF Unspent
      <4>3. ~Claims(r, p)'
        BY <1>1, <3>2, <4>1 DEF Claims
      <4>4. ASSUME NEW q \in Requests, Claims(q, p)' PROVE q = s
        <5>1. Claims(q, p)
          BY <1>1, <4>3, <4>4 DEF Claims
        <5>. QED
          BY <4>1, <5>1 DEF FactorsInv, LoginUse
      <4>. QED
        BY <4>2, <4>4
    <3>. QED
      BY <3>1, <3>2
  <2>2. ASSUME NEW p \in Twos, p \in loginPending' PROVE Unspent(p)'
    BY <2>2 DEF FactorsInv, LoginUse, Unspent
  <2>3. ASSUME NEW p \in Twos, loginStart'[p] # "gone" PROVE loginMinted'[p] = 0
    BY <2>3 DEF FactorsInv, LoginUse
  <2>. QED
    BY <2>1, <2>2, <2>3 DEF LoginUse
<1>4. OneSessionEach' /\ FactorAsked'
  BY DEF FactorsInv, OneSessionEach, Factors!OneSessionEach, FactorAsked, Factors!FactorAsked
<1>5. \A q \in Requests : loginTask'[q].pc = "plain" => loginTask'[q].p \in loginBare'
  BY <1>1 DEF FactorsInv
<1>. QED
  BY <1>2, <1>3, <1>4, <1>5 DEF FactorsInv

LEMMA LoginRecords ==
  ASSUME FactorsInv, NEW r \in Requests
  PROVE  /\ Factors!Reply(r) => /\ Factors!Idle \in LoginTask /\ Factors!Idle.pc = "idle"
                                /\ loginTask' = [loginTask EXCEPT ![r] = Factors!Idle]
         /\ \A pc \in LoginPc, p \in Twos : Factors!Take(r, pc, p) =>
              /\ [pc |-> pc, p |-> p] \in LoginTask
              /\ loginTask' = [loginTask EXCEPT ![r] = [pc |-> pc, p |-> p]]
         /\ \A pc \in LoginPc : Factors!Goto(r, pc) =>
              /\ [pc |-> pc, p |-> loginTask[r].p] \in LoginTask
              /\ loginTask' = [loginTask EXCEPT ![r] = [pc |-> pc, p |-> loginTask[r].p]]
<1>1. loginTask[r] \in LoginTask /\ loginTask \in [Requests -> LoginTask]
  BY DEF FactorsInv, LoginTypes
<1>2. \A pc \in LoginPc : [loginTask[r] EXCEPT !.pc = pc] = [pc |-> pc, p |-> loginTask[r].p]
  BY <1>1 DEF LoginTask
<1>3. Factors!Idle \in LoginTask /\ Factors!Idle.pc = "idle"
  BY DEF Factors!Idle, LoginTask, LoginPc
<1>. QED
  BY <1>1, <1>2, <1>3 DEF Factors!Reply, Factors!Take, Factors!Goto, LoginTask

(* Nothing else is claimed of a use that a request claims, that is pending *)
(* or whose row still stands.                                              *)
LEMMA LoginAlone ==
  ASSUME FactorsInv, NEW p \in Twos
  PROVE  /\ p \in loginPending => Unspent(p) /\ \A q \in Requests : ~Claims(q, p)
         /\ loginStart[p] # "gone" => /\ loginMinted[p] = 0 /\ p \notin loginPending
                                      /\ \A q \in Requests : ~Claims(q, p)
         /\ \A r \in Requests : Claims(r, p) =>
              /\ Unspent(p) /\ p \notin loginPending
              /\ \A q \in Requests \ {r} : ~Claims(q, p)
BY DEF FactorsInv, LoginUse, Unspent

(* A request that ends, or goes on without a claim.                        *)
LEMMA LoginLets ==
  ASSUME FactorsInv, NEW r \in Requests, NEW x \in LoginTask,
         x.pc # "idle" => x.p \in Twos, x.pc \notin Claiming,
         loginTask' = [loginTask EXCEPT ![r] = x],
         UNCHANGED <<loginStart, loginMinted, loginPlain>>,
         loginBare \subseteq loginBare', loginPending' \subseteq loginPending
  PROVE  FactorsInv'
<1>1. loginStart' \in [Twos -> {"none", "login", "recover", "gone"}]
  BY DEF FactorsInv, LoginTypes
<1>2. x.pc # "plain"
  BY DEF Claiming
<1>. QED
  BY <1>1, <1>2, LoginMoves

(* A request that goes on with its claim.                                  *)
LEMMA LoginGoesOn ==
  ASSUME FactorsInv, NEW r \in Requests, NEW x \in LoginTask,
         loginTask[r].pc \in Claiming, x.pc \in Claiming, x.p = loginTask[r].p,
         x.pc = "plain" => x.p \in loginBare',
         loginTask' = [loginTask EXCEPT ![r] = x],
         UNCHANGED <<loginStart, loginMinted, loginPlain, loginPending>>,
         loginBare \subseteq loginBare'
  PROVE  FactorsInv'
<1>1. loginStart' \in [Twos -> {"none", "login", "recover", "gone"}]
  BY DEF FactorsInv, LoginTypes
<1>2. x.p \in Twos
  BY DEF FactorsInv, LoginTypes, Claiming
<1>3. x.p \notin loginPending /\ Unspent(x.p) /\ \A q \in Requests \ {r} : ~Claims(q, x.p)
  BY <1>2, LoginAlone DEF Claims
<1>4. x.p \notin loginPending' /\ Unspent(x.p)'
  BY <1>3 DEF Unspent
<1>. QED
  BY <1>1, <1>2, <1>3, <1>4, LoginMoves

(* A request that takes a use nobody claims.                               *)
LEMMA LoginClaims ==
  ASSUME FactorsInv, NEW r \in Requests, NEW p \in Twos, NEW pc \in Claiming \ {"plain"},
         \/ Factors!Take(r, pc, p)
         \/ Factors!Goto(r, pc) /\ loginTask[r].p = p,
         \A q \in Requests : ~Claims(q, p),
         loginMinted[p] = 0,
         loginStart' = [loginStart EXCEPT ![p] = "gone"],
         UNCHANGED <<loginMinted, loginPlain>>,
         loginBare \subseteq loginBare', loginPending' = loginPending \ {p}
  PROVE  FactorsInv'
<1>. DEFINE x == [pc |-> pc, p |-> p]
<1>0. pc \in LoginPc /\ pc # "plain"
  BY DEF Claiming, LoginPc
<1>1. x \in LoginTask /\ loginTask' = [loginTask EXCEPT ![r] = x]
  BY <1>0, LoginRecords
<1>2. loginStart' \in [Twos -> {"none", "login", "recover", "gone"}]
  BY DEF FactorsInv, LoginTypes
<1>3. \A o \in Twos : loginStart[o] = "gone" => loginStart'[o] = "gone"
  BY DEF FactorsInv, LoginTypes
<1>4. x.p \notin loginPending' /\ Unspent(x.p)' /\ \A q \in Requests \ {r} : ~Claims(q, x.p)
  BY DEF Unspent, FactorsInv, LoginTypes
<1>. HIDE DEF x
<1>5. x.p \in Twos /\ x.pc # "plain"
  BY DEF x
<1>. QED
  BY <1>1, <1>2, <1>3, <1>4, <1>5, LoginMoves

LEMMA LoginStep == FactorsInv /\ [Factors!Next]_(Factors!vars) => FactorsInv'
<1>. SUFFICES ASSUME FactorsInv, [Factors!Next]_(Factors!vars) PROVE FactorsInv'
  OBVIOUS
<1>. USE DEF Factors!factors, Factors!password, Factors!bridge, Factors!history
<1>1. CASE UNCHANGED Factors!vars
  BY <1>1, LoginBeside DEF Factors!vars
<1>. SUFFICES ASSUME Factors!Step, Factors!Observe PROVE FactorsInv'
  BY <1>1 DEF Factors!Next
<1>2. loginBare \subseteq loginBare'
  BY DEF Factors!Observe
<1>3. ASSUME NEW c \in Factors!Creds,
             \/ Factors!EnrollStart(c) \/ Factors!EnrollFinish(c) \/ Factors!Register(c)
             \/ Factors!PrfEnroll(c) \/ Factors!RemoveCred(c) \/ Factors!AdminRemove(c)
      PROVE  FactorsInv'
  BY <1>2, <1>3, LoginBeside
  DEF Factors!EnrollStart, Factors!EnrollFinish, Factors!Register, Factors!PrfEnroll,
      Factors!RemoveCred, Factors!AdminRemove
<1>4. ASSUME \/ \E purpose \in {"authentication", "registration", "prf"} : Factors!Begin(purpose)
             \/ \E b \in BOOLEAN : Factors!AdminWipe(b)
             \/ Factors!PrfRemove
             \/ \E p \in Twos : Factors!ChangePassword(p)
      PROVE  FactorsInv'
  BY <1>2, <1>4, LoginBeside
  DEF Factors!Begin, Factors!AdminWipe, Factors!PrfRemove, Factors!ChangePassword
<1>5. ASSUME NEW p \in Twos, 
             \/ Factors!Expire(p) \/ Factors!RecoverStart(p)
             \/ \E r \in Requests : Factors!LoginStart(r, p)
      PROVE  FactorsInv'
  <2>1. /\ loginStart' \in [Twos -> {"none", "login", "recover", "gone"}]
        /\ \A o \in Twos : loginStart[o] = "gone" => loginStart'[o] = "gone"
    BY <1>5 DEF Factors!Expire, Factors!RecoverStart, Factors!LoginStart, FactorsInv, LoginTypes
  <2>2. UNCHANGED <<loginTask, loginMinted, loginPlain>> /\ loginPending' \subseteq loginPending
    BY <1>5 DEF Factors!Expire, Factors!RecoverStart, Factors!LoginStart
  <2>3. LoginUse'
    BY <2>1, <2>2 DEF FactorsInv, LoginUse, Claims, Unspent
  <2>. QED
    BY <1>2, <2>1, <2>2, <2>3
    DEF FactorsInv, LoginTypes, OneSessionEach, Factors!OneSessionEach, FactorAsked, Factors!FactorAsked
<1>6. ASSUME NEW r \in Requests, NEW p \in Twos, Factors!LoginFinish(r, p) PROVE FactorsInv'
  <2>1. loginMinted[p] = 0 /\ p \notin loginPending /\ \A q \in Requests : ~Claims(q, p)
    BY <1>6, LoginAlone DEF Factors!LoginFinish
  <2>2. /\ Factors!Take(r, "reset", p)
        /\ loginStart' = [loginStart EXCEPT ![p] = "gone"]
        /\ UNCHANGED <<loginMinted, loginPlain>> /\ loginPending' = loginPending \ {p}
    BY <1>6, <2>1 DEF Factors!LoginFinish
  <2>3. "reset" \in Claiming \ {"plain"}
    BY DEF Claiming
  <2>. QED
    BY <1>2, <2>1, <2>2, <2>3, LoginClaims
<1>7. ASSUME NEW r \in Requests, NEW p \in Twos, Factors!ConsumeFirst(r, p) PROVE FactorsInv'
  <2>1. Unspent(p) /\ \A q \in Requests : ~Claims(q, p)
    BY <1>7, LoginAlone DEF Factors!ConsumeFirst
  <2>2. loginStart' = [loginStart EXCEPT ![p] = "gone"]
    BY <1>7, <2>1 DEF Factors!ConsumeFirst, Unspent, FactorsInv, LoginTypes
  <2>3. /\ Factors!Take(r, "assert", p)
        /\ UNCHANGED <<loginMinted, loginPlain>> /\ loginPending' = loginPending \ {p}
    BY <1>7 DEF Factors!ConsumeFirst
  <2>4. "assert" \in Claiming \ {"plain"} /\ loginMinted[p] = 0
    BY <2>1 DEF Claiming, Unspent
  <2>. QED
    BY <1>2, <2>1, <2>2, <2>3, <2>4, LoginClaims
<1>8. ASSUME NEW r \in Requests, NEW p \in Twos, Factors!Peek(r, p) PROVE FactorsInv'
  <2>1. PICK pc \in {"totp", "code"} : Factors!Take(r, pc, p)
    BY <1>8 DEF Factors!Peek
  <2>2. pc \in LoginPc \ Claiming
    BY DEF LoginPc, Claiming
  <2>. DEFINE x == [pc |-> pc, p |-> p]
  <2>3. x \in LoginTask /\ loginTask' = [loginTask EXCEPT ![r] = x]
    BY <2>1, <2>2, LoginRecords
  <2>4. x.pc \notin Claiming /\ x.p \in Twos
    BY <2>2
  <2>5. UNCHANGED <<loginStart, loginMinted, loginPlain, loginPending>>
    BY <1>8 DEF Factors!Peek
  <2>. HIDE DEF x
  <2>. QED
    BY <1>2, <2>3, <2>4, <2>5, LoginLets
<1>9. ASSUME NEW r \in Requests, NEW p \in Twos, Factors!RecoverFinish(r, p) PROVE FactorsInv'
  <2>. DEFINE x == [pc |-> "recover", p |-> p]
  <2>1. x \in LoginTask /\ loginTask' = [loginTask EXCEPT ![r] = x]
    BY <1>9, LoginRecords DEF Factors!RecoverFinish, LoginPc
  <2>2. /\ loginStart' \in [Twos -> {"none", "login", "recover", "gone"}]
        /\ \A o \in Twos : loginStart[o] = "gone" => loginStart'[o] = "gone"
        /\ UNCHANGED <<loginMinted, loginPlain, loginPending>>
    BY <1>9 DEF Factors!RecoverFinish, FactorsInv, LoginTypes
  <2>3. x.pc \notin Claiming /\ x.pc # "plain" /\ x.p \in Twos
    BY DEF Claiming
  <2>. HIDE DEF x
  <2>. QED
    BY <1>2, <2>1, <2>2, <2>3, LoginMoves
<1>10. ASSUME NEW r \in Requests, Factors!ReadReset(r) PROVE FactorsInv'
  <2>1. loginTask[r].pc = "reset"
    BY <1>10 DEF Factors!ReadReset, Factors!At
  <2>2. PICK pc \in {"challenge", "methods"} : Factors!Goto(r, pc)
    BY <1>10 DEF Factors!ReadReset
  <2>3. pc \in LoginPc /\ pc \in Claiming /\ pc # "plain" /\ loginTask[r].pc \in Claiming
    BY <2>1 DEF LoginPc, Claiming
  <2>. DEFINE x == [pc |-> pc, p |-> loginTask[r].p]
  <2>4. x \in LoginTask /\ loginTask' = [loginTask EXCEPT ![r] = x]
    BY <2>2, <2>3, LoginRecords
  <2>5. x.pc \in Claiming /\ x.p = loginTask[r].p /\ x.pc # "plain"
    BY <2>3
  <2>6. UNCHANGED <<loginStart, loginMinted, loginPlain, loginPending>>
    BY <1>10 DEF Factors!ReadReset
  <2>. HIDE DEF x
  <2>. QED
    BY <1>2, <2>3, <2>4, <2>5, <2>6, LoginGoesOn
<1>11. ASSUME NEW r \in Requests, Factors!ReadMethods(r) PROVE FactorsInv'
  <2>1. loginTask[r].pc = "methods"
    BY <1>11 DEF Factors!ReadMethods, Factors!At
  <2>2. PICK pc \in {"challenge", "plain"} :
          Factors!Goto(r, pc) /\ (pc = "plain" => Factors!Active = {})
    BY <1>11 DEF Factors!ReadMethods, Factors!Asked
  <2>3. pc \in LoginPc /\ pc \in Claiming /\ loginTask[r].pc \in Claiming
    BY <2>1 DEF LoginPc, Claiming
  <2>4. loginTask' = [loginTask EXCEPT ![r] = [pc |-> pc, p |-> loginTask[r].p]]
    BY <2>2, <2>3, LoginRecords
  <2>5. ASSUME pc = "plain" PROVE loginTask[r].p \in loginBare'
    <3>1. \A c \in Factors!Creds : loginCred'[c] # "active"
      BY <1>11, <2>2, <2>5 DEF Factors!ReadMethods, Factors!Active
    <3>2. loginTask'[r].pc = "plain" /\ loginTask'[r].p = loginTask[r].p
      BY <2>4, <2>5 DEF FactorsInv, LoginTypes
    <3>3. loginTask[r].p \in Factors!UnderWay'
      BY <3>2 DEF Factors!UnderWay
    <3>. QED
      BY <3>1, <3>3 DEF Factors!Observe
  <2>. QED
    BY <1>2, <1>11, <2>2, <2>3, <2>5, LoginRecords, LoginGoesOn DEF Factors!ReadMethods
<1>12. ASSUME NEW r \in Requests, Factors!StorePending(r) PROVE FactorsInv'
  <2>. DEFINE x == Factors!Idle
  <2>1. x \in LoginTask /\ x.pc = "idle" /\ loginTask' = [loginTask EXCEPT ![r] = x]
    BY <1>12, LoginRecords DEF Factors!StorePending, Factors!Challenge
  <2>2. Claims(r, loginTask[r].p) /\ loginTask[r].p \in Twos
    BY <1>12 DEF Factors!StorePending, Factors!At, Claims, Claiming, FactorsInv, LoginTypes
  <2>3. /\ Unspent(loginTask[r].p)
        /\ \A q \in Requests \ {r} : ~Claims(q, loginTask[r].p)
    BY <2>2, LoginAlone
  <2>4. /\ loginPending' = loginPending \cup {loginTask[r].p}
        /\ UNCHANGED <<loginStart, loginMinted, loginPlain>>
    BY <1>12 DEF Factors!StorePending, Factors!Challenge
  <2>5. \A p \in loginPending' \cap Twos : p \notin loginPending =>
           Unspent(p)' /\ \A q \in Requests \ {r} : ~Claims(q, p)
    BY <2>3, <2>4 DEF Unspent
  <2>6. loginStart' \in [Twos -> {"none", "login", "recover", "gone"}]
    BY <2>4 DEF FactorsInv, LoginTypes
  <2>7. x.pc \notin Claiming /\ x.pc # "plain"
    BY <2>1 DEF Claiming
  <2>. HIDE DEF x
  <2>. QED
    BY <1>2, <2>1, <2>4, <2>5, <2>6, <2>7, LoginMoves
<1>13. ASSUME NEW r \in Requests, Factors!Issue(r) PROVE FactorsInv'
  <2>. DEFINE o == loginTask[r].p
  <2>1. o \in Twos /\ Claims(r, o)
    BY <1>13 DEF Factors!Issue, Factors!At, Claims, Claiming, FactorsInv, LoginTypes
  <2>2. Unspent(o) /\ o \notin loginPending /\ \A q \in Requests \ {r} : ~Claims(q, o)
    BY <2>1, LoginAlone
  <2>3. /\ loginMinted' = [loginMinted EXCEPT ![o] = @ + 1]
        /\ UNCHANGED <<loginStart, loginPending>>
        /\ \A q \in Requests : loginTask'[q] = IF q = r THEN Factors!Idle ELSE loginTask[q]
        /\ Factors!Idle \in LoginTask /\ Factors!Idle.pc = "idle"
        /\ loginTask' \in [Requests -> LoginTask]
    <3>1. Factors!Reply(r) /\ loginTask \in [Requests -> LoginTask]
      BY <1>13 DEF Factors!Issue, FactorsInv, LoginTypes
    <3>2. /\ Factors!Idle \in LoginTask /\ Factors!Idle.pc = "idle"
          /\ loginTask' = [loginTask EXCEPT ![r] = Factors!Idle]
      BY <3>1, LoginRecords
    <3>3. loginMinted' = [loginMinted EXCEPT ![o] = @ + 1] /\ UNCHANGED <<loginStart, loginPending>>
      BY <1>13 DEF Factors!Issue
    <3>. QED
      BY <3>1, <3>2, <3>3
  <2>4. LoginTypes' /\ \A p \in Twos : loginMinted'[p] = IF p = o THEN 1 ELSE loginMinted[p]
    <3>1. /\ loginMinted' \in [Twos -> Nat]
          /\ \A p \in Twos : loginMinted'[p] = IF p = o THEN 1 ELSE loginMinted[p]
      <4>1. loginMinted[o] = 0 /\ loginMinted \in [Twos -> Nat] /\ o \in Twos
        BY <2>1, <2>2 DEF FactorsInv, LoginTypes, Unspent
      <4>2. loginMinted' = [loginMinted EXCEPT ![o] = 1]
        BY <2>3, <4>1
      <4>. QED
        BY <4>1, <4>2
    <3>2. \A q \in Requests : loginTask'[q].pc # "idle" => loginTask'[q].p \in Twos
      BY <2>3 DEF FactorsInv, LoginTypes
    <3>. QED
      BY <2>3, <3>1, <3>2 DEF FactorsInv, LoginTypes
  <2>5. \A q \in Requests, p \in Twos : Claims(q, p)' => Claims(q, p) /\ p # o
    BY <2>2, <2>3 DEF Claims, Claiming
  <2>6. LoginUse'
    BY <2>2, <2>3, <2>4, <2>5 DEF FactorsInv, LoginUse, Unspent
  <2>7. OneSessionEach'
    BY <2>4 DEF FactorsInv, OneSessionEach, Factors!OneSessionEach
  <2>8. FactorAsked'
    BY <1>2, <1>13 DEF Factors!Issue, Factors!At, FactorsInv, FactorAsked, Factors!FactorAsked
  <2>. QED
    BY <1>2, <2>3, <2>4, <2>6, <2>7, <2>8 DEF FactorsInv
<1>14. ASSUME NEW r \in Requests,
              Factors!VerifyTotp(r) \/ Factors!ReadCodes(r) \/ Factors!StrikeCode(r)
       PROVE  FactorsInv'
  <2>1. PICK pc \in {"consume", "strike"} : Factors!Goto(r, pc)
    BY <1>14 DEF Factors!VerifyTotp, Factors!ReadCodes, Factors!StrikeCode
  <2>2. pc \in LoginPc \ Claiming /\ loginTask[r].p \in Twos
    BY <1>14 DEF Factors!VerifyTotp, Factors!ReadCodes, Factors!StrikeCode, Factors!At, LoginPc,
                 Claiming, FactorsInv, LoginTypes
  <2>3. UNCHANGED <<loginStart, loginMinted, loginPlain, loginPending>>
    BY <1>14 DEF Factors!VerifyTotp, Factors!ReadCodes, Factors!StrikeCode
  <2>. DEFINE x == [pc |-> pc, p |-> loginTask[r].p]
  <2>4. x \in LoginTask /\ loginTask' = [loginTask EXCEPT ![r] = x]
    BY <2>1, <2>2, LoginRecords
  <2>5. x.pc \notin Claiming /\ x.p \in Twos
    BY <2>2
  <2>. HIDE DEF x
  <2>. QED
    BY <1>2, <2>3, <2>4, <2>5, LoginLets
<1>15. ASSUME NEW r \in Requests, Factors!Consume(r) PROVE FactorsInv'
  <2>1. CASE loginTask[r].p \notin loginPending
    BY <1>2, <1>15, <2>1, LoginRecords, LoginLets DEF Factors!Consume, Claiming
  <2>2. CASE loginTask[r].p \in loginPending
    <3>. DEFINE p == loginTask[r].p
    <3>1. p \in Twos
      BY <1>15 DEF Factors!Consume, Factors!At, FactorsInv, LoginTypes
    <3>2. Unspent(p) /\ \A q \in Requests : ~Claims(q, p)
      BY <2>2, <3>1, LoginAlone
    <3>3. loginStart' = [loginStart EXCEPT ![p] = "gone"]
      BY <1>15, <3>2 DEF Factors!Consume, Unspent, FactorsInv, LoginTypes
    <3>4. /\ Factors!Goto(r, "proven") /\ loginPending' = loginPending \ {p}
          /\ UNCHANGED <<loginMinted, loginPlain>>
      BY <1>15, <2>2 DEF Factors!Consume
    <3>. QED
      BY <1>2, <3>1, <3>2, <3>3, <3>4, LoginClaims DEF Claiming, Unspent
  <2>. QED
    BY <2>1, <2>2
<1>16. ASSUME NEW r \in Requests, Factors!AssertKey(r) PROVE FactorsInv'
  <2>1. CASE Factors!Reply(r)
    BY <1>2, <1>16, <2>1, LoginRecords, LoginLets DEF Factors!AssertKey, Claiming
  <2>2. CASE Factors!Goto(r, "proven")
    <3>1. loginTask[r].pc \in Claiming /\ "proven" \in Claiming /\ "proven" \in LoginPc
      BY <1>16 DEF Factors!AssertKey, Factors!At, Claiming, LoginPc
    <3>. QED
      BY <1>2, <1>16, <2>2, <3>1, LoginRecords, LoginGoesOn DEF Factors!AssertKey
  <2>. QED
    BY <1>16, <2>1, <2>2 DEF Factors!AssertKey
<1>17. ASSUME NEW r \in Requests, Factors!Fail(r) \/ Factors!RecoverCommit(r) PROVE FactorsInv'
  BY <1>2, <1>17, LoginRecords, LoginLets DEF Factors!Fail, Factors!RecoverCommit, Claiming
<1>. QED
  BY <1>3, <1>4, <1>5, <1>6, <1>7, <1>8, <1>9, <1>10, <1>11, <1>12, <1>13, <1>14, <1>15, <1>16, <1>17
  DEF Factors!Step

(* The password rounds, the pending token of login_totp and the assertion  *)
(* of a passkey: however the requests of a login are repeated or overlap,  *)
(* one use of the password ends in one session at most.                    *)
THEOREM OneSessionForEach == Factors!Spec => []OneSessionEach
BY LoginInit, LoginStep, PTL DEF Factors!Spec, FactorsInv

(* login_finish: a session that the password alone was enough for belongs  *)
(* to an account that had no second factor at some time of that login.     *)
THEOREM FactorAlwaysAsked == Factors!Spec => []FactorAsked
BY LoginInit, LoginStep, PTL DEF Factors!Spec, FactorsInv
=============================================================================
