--------------------------- MODULE MembershipProofs ---------------------------
(***************************************************************************)
(* A lost slot is flagged and an owner remains: proofs about Membership,   *)
(* for every number of users and of requests under way at once.  Then the  *)
(* settings that workers cache, logins through an identity provider, the   *)
(* one-time link by which a team is joined, global roles, the rules on     *)
(* sharing, and the locks of settings, of roles' flags and of those rules. *)
(***************************************************************************)
EXTENDS MCAdministration, Sequences, FiniteSetTheorems, SequenceTheorems,
  WellFoundedInduction, TLAPS

Pcs ==
  {"idle", "update", "add", "remove", "invite", "slot", "adminadd", "own", "droproles",
   "dropslot", "flag", "list", "mark", "drop", "strip", "commit", "purge"}
Asked == Roles \cup {"none", "custom", "lock", "emergency", "soft", "hard"}

Task ==
  [pc : Pcs, user : Users \cup {None}, role : Asked, admin : BOOLEAN,
   seen : BOOLEAN, late : BOOLEAN, spare : BOOLEAN]

(* What a request has checked still counts for it: a member's own request  *)
(* saw another owner than its target.  And whose slot it is to delete was  *)
(* seen to have one, or was given one since; an emergency has flagged the  *)
(* rotation, unless a rotation that gave the slot has cleared it since.    *)
Checked(t, given, flagged) ==
  /\ t.pc # "idle" => t.user \in Users
  /\ t.pc \in {"update", "invite", "adminadd"} => t.role \in Roles
  /\ t.pc = "add" => t.role \in Roles \cup {"custom"}
  /\ t.pc \in {"update", "remove"} => t.spare
  /\ t.pc = "droproles" => t.admin \/ t.spare
  /\ t.pc = "mark" => t.role = "emergency"
  /\ t.user \in given /\ ~t.late =>
       /\ t.pc \in {"drop", "commit"} /\ t.role # "emergency" => t.seen
       /\ t.pc = "drop" /\ t.role = "emergency" => flagged

TaskInv ==
  /\ task \in [Requests -> Task]
  /\ \A r \in Requests : Checked(task[r], slots, pending)

IInv == TypeOK /\ TaskInv /\ SlotLossFlagged /\ OwnerRemains

LEMMA InitIInv == ASSUME ConstantsOK, Init PROVE IInv
<1>1. TypeOK
  <2>1. roles \in [Users -> SUBSET Roles]
    BY DEF Init, ConstantsOK
  <2>2. changes \in 0..Changes
    BY DEF Init, ConstantsOK
  <2>. QED
    BY <2>1, <2>2 DEF Init, TypeOK, ConstantsOK
<1>2. Idle \in Task /\ Idle.pc = "idle"
  BY DEF Idle, Task, Pcs, Asked
<1>3. TaskInv
  BY <1>2 DEF Init, TaskInv, Checked
<1>. QED
  BY <1>1, <1>3 DEF Init, IInv, SlotLossFlagged, OwnerRemains

(***************************************************************************)
(* What operators return.                                                  *)
(***************************************************************************)
LEMMA HighestOwner ==
  ASSUME NEW u
  PROVE  /\ Highest(u) = "owner" => "owner" \in roles[u]
         /\ Highest(u) \in {"supervisor", "member"} => "owner" \notin roles[u]
BY DEF Highest

(* A task that goes on, and one that is told of a slot.                    *)
LEMMA GoneOn ==
  ASSUME NEW t \in Task, NEW p \in Pcs
  PROVE  LET n == [t EXCEPT !.pc = p] IN
         /\ n \in Task /\ n.pc = p /\ n.user = t.user /\ n.role = t.role
         /\ n.late = t.late /\ n.seen = t.seen
BY DEF Task

LEMMA Told ==
  ASSUME NEW t \in Task
  PROVE  LET n == [t EXCEPT !.late = TRUE] IN
         /\ n \in Task /\ n.pc = t.pc /\ n.user = t.user /\ n.role = t.role
         /\ n.late = TRUE /\ n.seen = t.seen /\ n.spare = t.spare /\ n.admin = t.admin
BY DEF Task

LEMMA GivenTasks ==
  ASSUME NEW us, NEW after \in [Requests -> Task]
  PROVE  /\ Given(us, after) \in [Requests -> Task]
         /\ \A q \in Requests :
              LET t == after[q]
                  n == Given(us, after)[q] IN
              /\ n.pc = t.pc /\ n.user = t.user /\ n.role = t.role
              /\ n.seen = t.seen /\ n.spare = t.spare /\ n.admin = t.admin
              /\ t.late => n.late
              /\ t.user \in us /\ t.pc \in {"drop", "mark", "commit"} => n.late
<1>1. ASSUME NEW q \in Requests
      PROVE  LET t == after[q]
                 n == Given(us, after)[q] IN
             /\ n \in Task
             /\ n.pc = t.pc /\ n.user = t.user /\ n.role = t.role
             /\ n.seen = t.seen /\ n.spare = t.spare /\ n.admin = t.admin
             /\ t.late => n.late
             /\ t.user \in us /\ t.pc \in {"drop", "mark", "commit"} => n.late
  <2>. DEFINE t == after[q]
              o == [t EXCEPT !.late = TRUE]
  <2>1. t \in Task
    OBVIOUS
  <2>2. /\ o \in Task /\ o.pc = t.pc /\ o.user = t.user /\ o.role = t.role
        /\ o.late = TRUE /\ o.seen = t.seen /\ o.spare = t.spare /\ o.admin = t.admin
    BY <2>1, Told
  <2>3. Given(us, after)[q] = IF t.user \in us /\ t.pc \in {"drop", "mark", "commit"} THEN o ELSE t
    BY DEF Given
  <2>. HIDE DEF t, o
  <2>4. LET n == Given(us, after)[q] IN
             /\ n \in Task
             /\ n.pc = t.pc /\ n.user = t.user /\ n.role = t.role
             /\ n.seen = t.seen /\ n.spare = t.spare /\ n.admin = t.admin
             /\ t.late => n.late
             /\ t.user \in us /\ t.pc \in {"drop", "mark", "commit"} => n.late
    BY <2>1, <2>2, <2>3
  <2>. QED
    BY <2>4 DEF t
<1>2. Given(us, after) = [q \in Requests |-> Given(us, after)[q]]
  BY DEF Given
<1>. QED
  BY <1>1, <1>2

(***************************************************************************)
(* A request takes a step.                                                 *)
(***************************************************************************)
(* Its own task goes on, slots are only lost, and what it newly owes it is *)
(* about to flag, or misses.                                               *)
LEMMA OneMoves ==
  ASSUME IInv, TypeOK', OwnerRemains', NEW r \in Requests, NEW n \in Task,
         task' = [task EXCEPT ![r] = n], Checked(n, slots', pending'),
         slots' \subseteq slots, pending => pending', missed \subseteq missed',
         \A u \in owed' :
           \/ u \in missed'
           \/ n.pc = "flag" /\ n.user = u
           \/ u \in owed /\ (task[r].pc = "flag" => task[r].user # u)
  PROVE  IInv'
<1>1. TaskInv /\ SlotLossFlagged
  BY DEF IInv
<1>2. /\ task' \in [Requests -> Task] /\ task'[r] = n
      /\ \A q \in Requests : q # r => task'[q] = task[q]
  BY <1>1 DEF TaskInv
<1>3. TaskInv'
  <2>. SUFFICES ASSUME NEW q \in Requests PROVE Checked(task'[q], slots', pending')
    BY <1>2 DEF TaskInv
  <2>1. Checked(task[q], slots, pending)
    BY <1>1 DEF TaskInv
  <2>2. CASE q = r
    BY <1>2, <2>2
  <2>3. CASE q # r
    <3>1. Checked(task[q], slots', pending')
      BY <2>1 DEF Checked
    <3>. QED
      BY <1>2, <2>3, <3>1
  <2>. QED
    BY <2>2, <2>3
<1>4. SlotLossFlagged'
  <2>. SUFFICES ASSUME NEW u \in owed', u \notin missed'
                PROVE  \E q \in Requests : task'[q].user = u /\ task'[q].pc = "flag"
    BY DEF SlotLossFlagged
  <2>1. CASE n.pc = "flag" /\ n.user = u
    BY <1>2, <2>1
  <2>2. CASE u \in owed /\ (task[r].pc = "flag" => task[r].user # u)
    <3>1. PICK q \in Requests : task[q].user = u /\ task[q].pc = "flag"
      BY <1>1, <2>2 DEF SlotLossFlagged
    <3>. QED
      BY <1>2, <2>2, <3>1
  <2>. QED
    BY <2>1, <2>2
<1>. QED
  BY <1>3, <1>4 DEF IInv

(* Slots are given, and those who are at work on one are told.             *)
LEMMA SlotsGiven ==
  ASSUME IInv, TypeOK', OwnerRemains', NEW us, NEW after \in [Requests -> Task],
         \A q \in Requests :
           \/ after[q] = task[q]
           \/ task[q].pc # "flag" /\ after[q].pc = "idle",
         task' = Given(us, after), slots' \subseteq slots \cup us,
         pending' = pending \/ (slots' = us), missed \subseteq missed',
         owed' \subseteq owed
  PROVE  IInv'
<1>1. TaskInv /\ SlotLossFlagged
  BY DEF IInv
<1>2. /\ task' \in [Requests -> Task]
      /\ \A q \in Requests :
           /\ task'[q].pc = after[q].pc /\ task'[q].user = after[q].user
           /\ task'[q].role = after[q].role /\ task'[q].seen = after[q].seen
           /\ task'[q].spare = after[q].spare /\ task'[q].admin = after[q].admin
           /\ after[q].late => task'[q].late
           /\ after[q].user \in us /\ after[q].pc \in {"drop", "mark", "commit"} => task'[q].late
  BY GivenTasks
<1>3. ASSUME NEW q \in Requests PROVE Checked(task'[q], slots', pending')
  <2>1. CASE after[q].pc = "idle"
    BY <1>2, <2>1 DEF Checked
  <2>2. CASE after[q] = task[q]
    <3>1. Checked(task[q], slots, pending)
      BY <1>1 DEF TaskInv
    <3>. QED
      BY <1>2, <2>2, <3>1 DEF Checked
  <2>. QED
    BY <2>1, <2>2
<1>4. SlotLossFlagged'
  <2>. SUFFICES ASSUME NEW u \in owed', u \notin missed'
                PROVE  \E q \in Requests : task'[q].user = u /\ task'[q].pc = "flag"
    BY DEF SlotLossFlagged
  <2>1. PICK q \in Requests : task[q].user = u /\ task[q].pc = "flag"
    BY <1>1 DEF SlotLossFlagged
  <2>. QED
    BY <1>2, <2>1
<1>. QED
  BY <1>2, <1>3, <1>4 DEF IInv, TaskInv

LEMMA IdleTask == Idle \in Task /\ \A given, flagged : Checked(Idle, given, flagged)
BY DEF Idle, Task, Checked, Pcs, Asked

(***************************************************************************)
(* Requests arrive.                                                        *)
(***************************************************************************)
LEMMA BeginKeeps ==
  ASSUME ConstantsOK, IInv, NEW r \in Requests, NEW p \in Pcs, NEW u \in Users,
         NEW role \in Asked, Begin(r, p, u, role),
         p \notin {"flag", "drop", "commit", "mark"},
         p \in {"update", "invite", "adminadd"} => role \in Roles,
         p = "add" => role \in Roles \cup {"custom"},
         p \in {"update", "remove", "droproles"} => (u \in Owners => Owners # {u})
  PROVE  IInv'
<1>. DEFINE s == u \in Owners => Owners # {u}
            n == [Idle EXCEPT !.pc = p, !.user = u, !.role = role, !.spare = s]
<1>1. s \in BOOLEAN
  OBVIOUS
<1>2. /\ task' = [task EXCEPT ![r] = n] /\ changes' = changes + 1
      /\ task[r] = Idle /\ changes < Changes
      /\ UNCHANGED <<team, owner, pending, members, accounts, history>>
  BY DEF Begin, Arrive, Free
<1>3. p \in {"update", "remove", "droproles"} => s = TRUE
  OBVIOUS
<1>. HIDE DEF s
<1>4. n \in Task /\ n.pc = p /\ n.user = u /\ n.role = role /\ n.spare = s
  <2>1. Idle \in Task /\ Idle.late = FALSE
    BY DEF Idle, Task, Pcs, Asked
  <2>. QED
    BY <1>1, <2>1 DEF Task
<1>. HIDE DEF n
<1>5. Checked(n, slots', pending')
  BY <1>3, <1>4 DEF Checked
<1>6. TypeOK' /\ OwnerRemains'
  BY <1>2 DEF IInv, TypeOK, OwnerRemains, members, accounts, history, ConstantsOK
<1>7. task[r].pc = "idle"
  BY <1>2 DEF Idle
<1>. QED
  BY <1>2, <1>4, <1>5, <1>6, <1>7, OneMoves DEF members, history

LEMMA ArriveKeeps ==
  ASSUME ConstantsOK, IInv, NEW r \in Requests, NEW u \in Users,
         \/ \E c \in Users :
              \/ RemoveMember(r, c, u)
              \/ \E role \in Roles :
                   UpdateRole(r, c, u, role) \/ AddRole(r, c, u, role) \/ Invite(r, c, u, role)
              \/ \E role \in Roles \cup {"custom"} : RemoveRole(r, c, u, role)
         \/ AssignCustom(r, u) \/ PurgeUsers(r, u)
         \/ \E role \in Roles : AdminAdd(r, u, role)
         \/ \E how \in {"soft", "hard"} : DeleteUser(r, u, how)
  PROVE  IInv'
<1>. USE DEF Pcs, Asked
<1>1. ASSUME NEW c \in Users, RemoveMember(r, c, u) PROVE IInv'
  <2>1. u \notin Owners
    BY <1>1, HighestOwner DEF RemoveMember, Owners
  <2>. QED
    BY <1>1, <2>1, BeginKeeps DEF RemoveMember
<1>2. ASSUME NEW c \in Users, NEW role \in Roles, UpdateRole(r, c, u, role) PROVE IInv'
  <2>1. u # c /\ c \in Owners
    BY <1>2, HighestOwner DEF UpdateRole, Calls, Owners
  <2>2. u \in Owners => Owners # {u}
    BY <2>1
  <2>. QED
    BY <1>2, <2>2, BeginKeeps DEF UpdateRole
<1>3. ASSUME NEW c \in Users, NEW role \in Roles, AddRole(r, c, u, role) PROVE IInv'
  BY <1>3, BeginKeeps DEF AddRole
<1>4. ASSUME NEW c \in Users, NEW role \in Roles, Invite(r, c, u, role) PROVE IInv'
  BY <1>4, BeginKeeps DEF Invite
<1>5. ASSUME NEW c \in Users, NEW role \in Roles \cup {"custom"}, RemoveRole(r, c, u, role)
      PROVE  IInv'
  <2>1. u # c /\ c \in Owners
    BY <1>5, HighestOwner DEF RemoveRole, Calls, Owners
  <2>2. u \in Owners => Owners # {u}
    BY <2>1
  <2>. QED
    BY <1>5, <2>2, BeginKeeps DEF RemoveRole
<1>6. CASE AssignCustom(r, u)
  BY <1>6, BeginKeeps DEF AssignCustom
<1>7. CASE PurgeUsers(r, u)
  BY <1>7, BeginKeeps DEF PurgeUsers
<1>8. ASSUME NEW role \in Roles, AdminAdd(r, u, role) PROVE IInv'
  BY <1>8, BeginKeeps DEF AdminAdd
<1>9. ASSUME NEW how \in {"soft", "hard"}, DeleteUser(r, u, how) PROVE IInv'
  BY <1>9, BeginKeeps DEF DeleteUser
<1>. QED
  BY <1>1, <1>2, <1>3, <1>4, <1>5, <1>6, <1>7, <1>8, <1>9

(* An administrator's removal, and the deactivation of an account.         *)
LEMMA StartKeeps ==
  ASSUME ConstantsOK, IInv, NEW r \in Requests, NEW u \in Users,
         AdminRemove(r, u) \/ \E how \in {"lock", "emergency"} : Deactivate(r, u, how)
  PROVE  IInv'
<1>. USE DEF Pcs, Asked
<1>1. PICK n \in Task : /\ Arrive(r, n)
                        /\ n.pc \notin {"flag", "drop", "commit", "mark", "update", "add", "remove",
                                        "invite", "adminadd"}
                        /\ n.user = u /\ (n.pc = "droproles" => n.admin)
  <2>1. CASE AdminRemove(r, u)
    <3>. DEFINE n == [Idle EXCEPT !.pc = "droproles", !.user = u, !.admin = TRUE]
    <3>1. n \in Task /\ n.pc = "droproles" /\ n.user = u /\ n.admin
      BY DEF Idle, Task
    <3>2. Arrive(r, n)
      BY <2>1 DEF AdminRemove
    <3>. HIDE DEF n
    <3>. QED
      BY <3>1, <3>2
  <2>2. ASSUME NEW how \in {"lock", "emergency"}, Deactivate(r, u, how)
        PROVE  \E n \in Task : /\ Arrive(r, n)
                               /\ n.pc \notin {"flag", "drop", "commit", "mark", "update", "add",
                                               "remove", "invite", "adminadd"}
                               /\ n.user = u /\ (n.pc = "droproles" => n.admin)
    <3>. DEFINE n == [Idle EXCEPT !.pc = "list", !.user = u, !.role = how]
    <3>1. n \in Task /\ n.pc = "list" /\ n.user = u
      BY DEF Idle, Task
    <3>2. Arrive(r, n)
      BY <2>2 DEF Deactivate
    <3>. HIDE DEF n
    <3>. QED
      BY <3>1, <3>2
  <2>. QED
    BY <2>1, <2>2
<1>2. /\ task' = [task EXCEPT ![r] = n] /\ changes' = changes + 1
      /\ task[r] = Idle /\ changes < Changes
  BY <1>1 DEF Arrive, Free
<1>3. /\ UNCHANGED <<team, owner, pending, members, leaving, history>>
      /\ account' \in [Users -> {"active", "locked", "gone"}]
  BY DEF AdminRemove, Deactivate, accounts, IInv, TypeOK
<1>4. Checked(n, slots', pending')
  BY <1>1 DEF Checked
<1>5. TypeOK' /\ OwnerRemains'
  BY <1>2, <1>3 DEF IInv, TypeOK, OwnerRemains, members, history, ConstantsOK
<1>6. task[r].pc = "idle"
  BY <1>2 DEF Idle
<1>. QED
  BY <1>2, <1>3, <1>4, <1>5, <1>6, OneMoves DEF members, history

(***************************************************************************)
(* Requests go on, and end.                                                *)
(***************************************************************************)
(* What every step of a request rests on.                                  *)
LEMMA Working ==
  ASSUME IInv, NEW r \in Requests, task[r].pc # "idle"
  PROVE  /\ task[r] \in Task /\ task[r].user \in Users
         /\ Checked(task[r], slots, pending)
BY DEF IInv, TaskInv, Checked

(* A request ends, and what the team has changes but for its slots.        *)
LEMMA EndKeeps ==
  ASSUME IInv, TypeOK', OwnerRemains', NEW r \in Requests, Ends(r),
         slots' \subseteq slots, pending => pending', missed \subseteq missed',
         \A u \in owed' : \/ u \in missed'
                          \/ u \in owed /\ (task[r].pc = "flag" => task[r].user # u)
  PROVE  IInv'
BY IdleTask, OneMoves DEF Ends

(* A request goes on to its next statement.                                *)
LEMMA GoKeeps ==
  ASSUME IInv, TypeOK', OwnerRemains', NEW r \in Requests, NEW p \in Pcs, Goes(r, p),
         task[r].pc \notin {"idle", "flag"},
         p \notin {"update", "add", "remove", "invite", "adminadd", "droproles", "commit", "mark"},
         p = "drop" => task[r].role = "emergency" /\ pending',
         slots' \subseteq slots, pending => pending', missed \subseteq missed',
         \A u \in owed' : u \in missed' \cup owed \/ (p = "flag" /\ task[r].user = u)
  PROVE  IInv'
<1>. DEFINE t == task[r]
            n == [t EXCEPT !.pc = p]
<1>1. t \in Task /\ t.user \in Users
  BY Working
<1>2. n \in Task /\ n.pc = p /\ n.user = t.user /\ n.role = t.role
  BY <1>1, GoneOn
<1>3. task' = [task EXCEPT ![r] = n]
  BY DEF Goes
<1>. HIDE DEF n
<1>4. Checked(n, slots', pending')
  BY <1>1, <1>2 DEF Checked
<1>. QED
  BY <1>2, <1>3, <1>4, OneMoves

LEMMA LastOwner ==
  ASSUME OwnerRemains, NEW without, NEW byAdmin, NEW spare,
         Unowned(without, byAdmin, spare), byAdmin \/ spare
  PROVE  OwnerRemains'
BY DEF OwnerRemains, Unowned

LEMMA RoleSteps ==
  ASSUME IInv, NEW r \in Requests,
         UpdateWrite(r) \/ AddWrite(r) \/ RemoveRoleWrite(r) \/ Strip(r)
  PROVE  IInv'
<1>1. TypeOK /\ OwnerRemains
  BY DEF IInv
<1>2. /\ task[r].pc \in {"update", "add", "remove", "strip"}
      /\ Ends(r) /\ UNCHANGED <<team, owner, pending, slots, accounts, changes, owed, missed>>
  BY DEF UpdateWrite, AddWrite, RemoveRoleWrite, Strip, history
<1>3. /\ task[r] \in Task /\ task[r].user \in Users
      /\ Checked(task[r], slots, pending)
  BY <1>2, Working
<1>4. roles' \in [Users -> SUBSET Roles] /\ custom' \subseteq Users
  <2>1. CASE UpdateWrite(r)
    <3>1. task[r].role \in Roles
      BY <1>3, <2>1 DEF Checked, UpdateWrite
    <3>. QED
      BY <1>1, <1>3, <2>1, <3>1 DEF UpdateWrite, TypeOK
  <2>2. CASE AddWrite(r)
    <3>1. task[r].role \in Roles \cup {"custom"}
      BY <1>3, <2>2 DEF Checked, AddWrite
    <3>. QED
      BY <1>1, <1>3, <2>2, <3>1 DEF AddWrite, TypeOK
  <2>3. CASE RemoveRoleWrite(r)
    BY <1>1, <1>3, <2>3 DEF RemoveRoleWrite, TypeOK
  <2>4. CASE Strip(r)
    BY <1>1, <1>3, <2>4 DEF Strip, TypeOK
  <2>. QED
    BY <2>1, <2>2, <2>3, <2>4
<1>5. OwnerRemains'
  <2>1. CASE UpdateWrite(r)
    <3>1. task[r].spare
      BY <1>3, <2>1 DEF Checked, UpdateWrite
    <3>. QED
      BY <1>1, <2>1, <3>1, LastOwner DEF UpdateWrite
  <2>2. CASE AddWrite(r)
    BY <1>1, <2>2 DEF AddWrite, history, OwnerRemains
  <2>3. CASE RemoveRoleWrite(r)
    <3>1. task[r].spare
      BY <1>3, <2>3 DEF Checked, RemoveRoleWrite
    <3>. QED
      BY <1>1, <2>3, <3>1, LastOwner DEF RemoveRoleWrite
  <2>4. CASE Strip(r)
    BY <1>1, <2>4, LastOwner DEF Strip
  <2>. QED
    BY <2>1, <2>2, <2>3, <2>4
<1>6. TypeOK'
  BY <1>1, <1>2, <1>4 DEF TypeOK, accounts
<1>. QED
  BY <1>2, <1>5, <1>6, EndKeeps

LEMMA JoinSteps ==
  ASSUME IInv, NEW r \in Requests,
         InviteRole(r) \/ AdminAddRole(r) \/ AdminOwn(r)
  PROVE  IInv'
<1>1. TypeOK /\ OwnerRemains
  BY DEF IInv
<1>2. /\ task[r].pc \in {"invite", "adminadd", "own"}
      /\ UNCHANGED <<team, pending, custom, slots, accounts, changes, history>>
  BY DEF InviteRole, AdminAddRole, AdminOwn, members
<1>3. /\ task[r] \in Task /\ task[r].user \in Users
      /\ Checked(task[r], slots, pending)
  BY <1>2, Working
<1>4. roles' \in [Users -> SUBSET Roles] /\ owner' \in Users
  <2>1. task[r].pc # "own" => task[r].role \in Roles
    BY <1>2, <1>3 DEF Checked
  <2>. QED
    BY <1>1, <1>2, <1>3, <2>1 DEF InviteRole, AdminAddRole, AdminOwn, TypeOK, members
<1>5. TypeOK' /\ OwnerRemains'
  BY <1>1, <1>2, <1>4 DEF TypeOK, OwnerRemains, accounts, history
<1>6. Ends(r) \/ \E p \in {"slot", "own", "flag"} : Goes(r, p)
  BY DEF InviteRole, AdminAddRole, AdminOwn
<1>7. CASE Ends(r)
  BY <1>2, <1>5, <1>7, EndKeeps DEF history
<1>8. ASSUME NEW p \in {"slot", "own", "flag"}, Goes(r, p) PROVE IInv'
  BY <1>2, <1>5, <1>8, GoKeeps DEF history, Pcs
<1>. QED
  BY <1>6, <1>7, <1>8

(* A removal: the roles, then the slot, then the flag.                     *)
LEMMA RemovalSteps ==
  ASSUME IInv, NEW r \in Requests, DropRoles(r) \/ DropSlot(r) \/ Flag(r)
  PROVE  IInv'
<1>1. TypeOK /\ OwnerRemains
  BY DEF IInv
<1>2. task[r].pc \in {"droproles", "dropslot", "flag"}
  BY DEF DropRoles, DropSlot, Flag
<1>3. /\ task[r] \in Task /\ task[r].user \in Users
      /\ Checked(task[r], slots, pending)
  BY <1>2, Working
<1>4. CASE DropRoles(r)
  <2>1. task[r].admin \/ task[r].spare
    BY <1>3, <1>4 DEF Checked, DropRoles
  <2>2. OwnerRemains'
    BY <1>1, <1>4, <2>1, LastOwner DEF DropRoles
  <2>3. TypeOK'
    BY <1>1, <1>4 DEF DropRoles, TypeOK, accounts
  <2>. QED
    BY <1>2, <1>4, <2>2, <2>3, GoKeeps DEF DropRoles, Pcs
<1>5. CASE DropSlot(r)
  <2>1. TypeOK' /\ OwnerRemains'
    BY <1>1, <1>5 DEF DropSlot, TypeOK, accounts, OwnerRemains
  <2>2. \A u \in owed' : u \in owed \/ task[r].user = u
    BY <1>5 DEF DropSlot, Deleted
  <2>. QED
    BY <1>5, <2>1, <2>2, GoKeeps DEF DropSlot, Pcs
<1>6. CASE Flag(r)
  <2>1. TypeOK' /\ OwnerRemains'
    BY <1>1, <1>6 DEF Flag, TypeOK, accounts, members, OwnerRemains
  <2>. QED
    BY <1>6, <2>1, EndKeeps DEF Flag, members
<1>. QED
  BY <1>4, <1>5, <1>6

(***************************************************************************)
(* A lock, an emergency and a deletion: the teams are listed, then the     *)
(* slots go.                                                               *)
(***************************************************************************)
LEMMA ListKeeps == ASSUME IInv, NEW r \in Requests, List(r) PROVE IInv'
<1>. DEFINE t == task[r]
            p == IF t.role = "emergency" /\ Seen(t.user) THEN "mark"
                 ELSE IF t.role \in {"soft", "hard"} THEN "commit" ELSE "drop"
            n == [t EXCEPT !.seen = Seen(t.user), !.pc = p]
<1>1. /\ t.pc = "list" /\ task' = [task EXCEPT ![r].seen = Seen(t.user), ![r].pc = p]
      /\ UNCHANGED <<team, owner, pending, members, accounts, changes, history>>
  BY DEF List
<1>2. t \in Task /\ t.user \in Users
  BY <1>1, Working
<1>3. task' = [task EXCEPT ![r] = n]
  <2>1. task \in [Requests -> Task]
    BY DEF IInv, TaskInv
  <2>. QED
    BY <1>1, <2>1
<1>4. p \in Pcs /\ p \in {"mark", "commit", "drop"}
  BY DEF Pcs
<1>5. /\ p = "mark" => t.role = "emergency"
      /\ p = "drop" /\ t.role = "emergency" => t.user \notin slots
      /\ Seen(t.user) <=> t.user \in slots
      /\ Seen(t.user) \in BOOLEAN
  BY DEF Seen
<1>. HIDE DEF p
<1>6. /\ n \in Task /\ n.pc = p /\ n.user = t.user /\ n.role = t.role
      /\ n.seen = Seen(t.user)
  BY <1>2, <1>4, <1>5 DEF Task
<1>. HIDE DEF n
<1>7. TypeOK' /\ OwnerRemains' /\ UNCHANGED <<slots, pending, missed, owed>>
  BY <1>1 DEF IInv, TypeOK, OwnerRemains, members, accounts, history
<1>8. Checked(n, slots', pending')
  BY <1>2, <1>4, <1>5, <1>6, <1>7 DEF Checked
<1>9. \A u \in owed' : u \in owed /\ t.pc # "flag"
  BY <1>1, <1>7
<1>. HIDE DEF t
<1>. QED
  BY <1>3, <1>6, <1>7, <1>8, <1>9, OneMoves DEF t

LEMMA MarkKeeps == ASSUME IInv, NEW r \in Requests, Mark(r) PROVE IInv'
<1>1. /\ task[r].pc = "mark" /\ pending' = TRUE /\ owed' = {} /\ Goes(r, "drop")
      /\ UNCHANGED <<team, owner, members, accounts, changes, missed, lastly>>
  BY DEF Mark
<1>2. task[r].role = "emergency"
  BY <1>1, Working DEF Checked
<1>3. TypeOK' /\ OwnerRemains' /\ UNCHANGED <<slots>>
  BY <1>1 DEF IInv, TypeOK, OwnerRemains, members, accounts
<1>. QED
  BY <1>1, <1>2, <1>3, GoKeeps DEF Pcs

LEMMA DropKeeps == ASSUME IInv, NEW r \in Requests, Drop(r) PROVE IInv'
<1>. DEFINE t == task[r]
<1>1. /\ t.pc = "drop" /\ slots' = slots \ {t.user}
      /\ Deleted({t.user}) /\ Late(t)
      /\ IF t.role = "emergency" THEN Goes(r, "strip")
         ELSE IF t.seen THEN Goes(r, "flag") ELSE Ends(r)
      /\ UNCHANGED <<team, owner, pending, roles, custom, accounts, changes, lastly>>
  BY DEF Drop
<1>2. Checked(t, slots, pending) /\ t.user \in Users
  BY <1>1, Working
<1>3. TypeOK' /\ OwnerRemains' /\ missed \subseteq missed' /\ slots' \subseteq slots
  BY <1>1 DEF IInv, TypeOK, OwnerRemains, accounts, Late
<1>4. \A u \in owed' : u \in owed \/ (u = t.user /\ u \in slots /\ ~pending)
  BY <1>1 DEF Deleted
<1>5. t.late /\ t.user \in slots => t.user \in missed'
  BY <1>1 DEF Late
<1>6. CASE t.role = "emergency"
  <2>1. \A u \in owed' : u \in missed' \cup owed
    BY <1>1, <1>2, <1>4, <1>5, <1>6 DEF Checked
  <2>. QED
    BY <1>1, <1>3, <1>6, <2>1, GoKeeps DEF Pcs
<1>7. CASE t.role # "emergency" /\ t.seen
  BY <1>1, <1>3, <1>4, <1>7, GoKeeps DEF Pcs
<1>8. CASE t.role # "emergency" /\ ~t.seen
  <2>1. \A u \in owed' : u \in missed' \/ u \in owed
    BY <1>1, <1>2, <1>4, <1>5, <1>8 DEF Checked
  <2>. QED
    BY <1>1, <1>3, <1>8, <2>1, EndKeeps
<1>. QED
  BY <1>6, <1>7, <1>8

(* The transactions of the deletions.                                      *)
LEMMA ScheduleKeeps == ASSUME IInv, NEW r \in Requests, ScheduleUser(r) PROVE IInv'
<1>. DEFINE t == task[r]
<1>1. /\ t.pc = "commit" /\ t.role = "soft" /\ Ends(r)
      /\ UNCHANGED <<team, owner, roles, custom, changes, lastly>>
  BY DEF ScheduleUser
<1>2. Checked(t, slots, pending) /\ t.user \in Users
  BY <1>1, Working
<1>3. CASE UNCHANGED <<accounts, slots, pending, owed, missed>>
  <2>1. TypeOK' /\ OwnerRemains'
    BY <1>1, <1>3 DEF IInv, TypeOK, OwnerRemains, accounts
  <2>. QED
    BY <1>1, <1>3, <2>1, EndKeeps
<1>4. CASE /\ account' = [account EXCEPT ![t.user] = "locked"]
           /\ leaving' = leaving \cup {t.user}
           /\ slots' = slots \ {t.user}
           /\ pending' = (pending \/ t.seen)
           /\ IF t.seen THEN owed' = {} ELSE Deleted({t.user})
           /\ Late(t)
  <2>1. t.seen \in BOOLEAN
    BY <1>1, Working DEF Task
  <2>2. TypeOK' /\ OwnerRemains' /\ missed \subseteq missed'
    BY <1>1, <1>2, <1>4, <2>1 DEF IInv, TypeOK, OwnerRemains, Late
  <2>3. \A u \in owed' : u \in owed \/ (u = t.user /\ u \in slots /\ ~t.seen)
    BY <1>4 DEF Deleted
  <2>4. t.late /\ t.user \in slots => t.user \in missed'
    BY <1>4 DEF Late
  <2>5. \A u \in owed' : u \in missed' \/ u \in owed
    BY <1>1, <1>2, <2>3, <2>4 DEF Checked
  <2>6. pending => pending'
    BY <1>4
  <2>. QED
    BY <1>1, <1>4, <2>2, <2>5, <2>6, EndKeeps
<1>. QED
  BY <1>3, <1>4 DEF ScheduleUser

(* A deleted account: its roles and its slots go with it.                  *)
LEMMA ErasedState ==
  ASSUME IInv, NEW r \in Requests, NEW u \in Users, NEW flags \in BOOLEAN,
         Erase(r, u, flags)
  PROVE  /\ TypeOK' /\ OwnerRemains' /\ Ends(r)
         /\ slots' \subseteq slots /\ (pending => pending')
         /\ \A v \in owed' : v \in owed \/ (v = u /\ u \in slots /\ ~flags)
<1>1. /\ TypeOK /\ OwnerRemains /\ Ends(r)
      /\ UNCHANGED <<team, owner, changes>>
  BY DEF IInv, Erase
<1>2. CASE UNCHANGED <<accounts, members, pending, owed, lastly>>
  BY <1>1, <1>2 DEF TypeOK, OwnerRemains, accounts, members
<1>3. CASE /\ account' = [account EXCEPT ![u] = "gone"]
           /\ leaving' = leaving \ {u}
           /\ roles' = [roles EXCEPT ![u] = {}]
           /\ custom' = custom \ {u} /\ slots' = slots \ {u}
           /\ pending' = (pending \/ flags)
           /\ IF flags THEN owed' = {} ELSE Deleted({u})
           /\ Unowned(Owners \ {u}, TRUE, FALSE)
  <2>1. TypeOK'
    BY <1>1, <1>3 DEF TypeOK
  <2>2. OwnerRemains'
    BY <1>1, <1>3, LastOwner
  <2>3. \A v \in owed' : v \in owed \/ (v = u /\ u \in slots /\ ~flags)
    BY <1>3 DEF Deleted
  <2>. QED
    BY <1>1, <1>3, <2>1, <2>2, <2>3
<1>. QED
  BY <1>2, <1>3 DEF Erase

LEMMA EraseKeeps ==
  ASSUME IInv, NEW r \in Requests, EraseUser(r) \/ PurgeUser(r)
  PROVE  IInv'
<1>. DEFINE t == task[r]
            flags == IF t.pc = "commit" THEN t.seen ELSE FALSE
<1>1. /\ t.pc \in {"commit", "purge"} /\ Erase(r, t.user, flags)
      /\ t.pc = "commit" => t.role = "hard" /\ Late(t)
      /\ t.pc = "purge" => missed' = IF t.user \in slots THEN missed \cup {t.user} ELSE missed
  BY DEF EraseUser, PurgeUser
<1>2. Checked(t, slots, pending) /\ t.user \in Users /\ flags \in BOOLEAN
  BY <1>1, Working DEF Task
<1>3. missed \subseteq missed'
  BY <1>1 DEF Late
<1>4. t.user \in slots /\ ~flags => t.user \in missed'
  BY <1>1, <1>2 DEF Checked, Late
<1>. HIDE DEF flags
<1>5. /\ TypeOK' /\ OwnerRemains' /\ Ends(r)
      /\ slots' \subseteq slots /\ (pending => pending')
      /\ \A v \in owed' : v \in owed \/ (v = t.user /\ t.user \in slots /\ ~flags)
  BY <1>1, <1>2, ErasedState
<1>6. \A v \in owed' : v \in missed' \/ v \in owed
  BY <1>4, <1>5
<1>. QED
  BY <1>1, <1>3, <1>5, <1>6, EndKeeps

(* The process stops in the middle of a request.                           *)
LEMMA CrashKeeps == ASSUME IInv, NEW r \in Requests, Crash(r) PROVE IInv'
<1>1. /\ missed' = IF task[r].pc = "flag" THEN missed \cup (owed \cap {task[r].user}) ELSE missed
      /\ Ends(r)
      /\ UNCHANGED <<team, owner, pending, members, accounts, changes, owed, lastly>>
  BY DEF Crash
<1>2. TypeOK' /\ OwnerRemains' /\ UNCHANGED <<slots, owed>>
  BY <1>1 DEF IInv, TypeOK, OwnerRemains, members, accounts
<1>3. \A u \in owed' : \/ u \in missed'
                       \/ u \in owed /\ (task[r].pc = "flag" => task[r].user # u)
  BY <1>1, <1>2
<1>. QED
  BY <1>1, <1>2, <1>3, EndKeeps

(***************************************************************************)
(* Slots given, and steps beside the requests.                             *)
(***************************************************************************)
LEMMA InviteSlotKeeps == ASSUME IInv, NEW r \in Requests, InviteSlot(r) PROVE IInv'
<1>. DEFINE u == task[r].user
            fits == account[u] # "gone" /\ team # "gone" /\ u \notin slots
            us == IF fits THEN {u} ELSE {}
            after == [task EXCEPT ![r] = Idle]
<1>1. /\ task[r].pc = "slot" /\ slots' = IF fits THEN slots \cup {u} ELSE slots
      /\ task' = Given(us, after)
      /\ UNCHANGED <<team, owner, pending, roles, custom, accounts, changes, history>>
  BY DEF InviteSlot
<1>2. u \in Users
  BY <1>1, Working
<1>3. TypeOK' /\ OwnerRemains'
  BY <1>1, <1>2 DEF IInv, TypeOK, OwnerRemains, accounts, history
<1>4. task \in [Requests -> Task] /\ Idle \in Task /\ Idle.pc = "idle"
  BY IdleTask DEF IInv, TaskInv, Idle
<1>5. /\ after \in [Requests -> Task]
      /\ \A q \in Requests : after[q] = task[q] \/ (task[q].pc # "flag" /\ after[q].pc = "idle")
  BY <1>1, <1>4
<1>6. slots' \subseteq slots \cup us
  BY <1>1
<1>. HIDE DEF us, after
<1>. QED
  BY <1>1, <1>3, <1>5, <1>6, SlotsGiven DEF history

LEMMA RotateKeeps == ASSUME IInv, NEW c, Rotate(c) PROVE IInv'
<1>. DEFINE listed == {u \in Users : roles[u] # {} /\ account[u] = "active"}
<1>1. /\ slots' = listed /\ task' = Given(listed, task)
      /\ pending' = FALSE /\ owed' = {}
      /\ UNCHANGED <<team, owner, roles, custom, accounts, changes, missed, lastly>>
  BY DEF Rotate
<1>2. TypeOK' /\ OwnerRemains'
  BY <1>1 DEF IInv, TypeOK, OwnerRemains, accounts
<1>3. task \in [Requests -> Task]
  BY DEF IInv, TaskInv
<1>. HIDE DEF listed
<1>. QED
  BY <1>1, <1>2, <1>3, SlotsGiven

(* Slots are only lost, and no request takes a step.                       *)
LEMMA TasksStay ==
  ASSUME IInv, TypeOK', OwnerRemains', UNCHANGED <<task, pending, missed>>,
         slots' \subseteq slots, owed' \subseteq owed
  PROVE  IInv'
<1>1. TaskInv'
  BY DEF IInv, TaskInv, Checked
<1>2. SlotLossFlagged'
  BY DEF IInv, SlotLossFlagged
<1>. QED
  BY <1>1, <1>2 DEF IInv

LEMMA BesideKeeps ==
  ASSUME ConstantsOK, IInv,
         \/ \E u \in Users : Unlock(u) \/ Recover(u) \/ RevokeCustom({u}) \/ DeleteTeam(u)
         \/ RevokeCustom(custom)
         \/ AdminDeleteTeam \/ RecoverTeam \/ PurgeTeam
  PROVE  IInv'
<1>1. TypeOK /\ OwnerRemains
  BY DEF IInv
<1>2. ASSUME NEW u \in Users, Unlock(u) \/ Recover(u) PROVE IInv'
  <2>1. changes' \in 0..Changes
    BY <1>1, <1>2 DEF Unlock, Recover, TypeOK, ConstantsOK
  <2>2. TypeOK' /\ OwnerRemains' /\ UNCHANGED <<task, pending, slots, missed, owed>>
    BY <1>1, <1>2, <2>1 DEF Unlock, Recover, TypeOK, OwnerRemains, members, history
  <2>. QED
    BY <2>2, TasksStay
<1>3. ASSUME NEW us, RevokeCustom(us) PROVE IInv'
  <2>1. changes' \in 0..Changes
    BY <1>1, <1>3 DEF RevokeCustom, TypeOK, ConstantsOK
  <2>2. TypeOK' /\ OwnerRemains' /\ UNCHANGED <<task, pending, slots, missed, owed>>
    BY <1>1, <1>3, <2>1 DEF RevokeCustom, TypeOK, OwnerRemains, accounts, history
  <2>. QED
    BY <2>2, TasksStay
<1>4. ASSUME NEW state \in {"live", "leaving", "gone"}, NEW with \in BOOLEAN, TeamTo(state, with)
      PROVE  IInv'
  <2>1. changes' \in 0..Changes
    BY <1>1, <1>4 DEF TeamTo, TypeOK, ConstantsOK
  <2>2. /\ custom' \subseteq custom /\ slots' \subseteq slots /\ owed' \subseteq owed
        /\ roles' \in [Users -> SUBSET Roles]
    BY <1>1, <1>4 DEF TeamTo, members, TypeOK
  <2>3. TypeOK' /\ OwnerRemains'
    BY <1>1, <1>4, <2>1, <2>2 DEF TeamTo, TypeOK, OwnerRemains, accounts
  <2>. QED
    BY <1>4, <2>2, <2>3, TasksStay DEF TeamTo
<1>. QED
  BY <1>2, <1>3, <1>4 DEF AdminDeleteTeam, RecoverTeam, PurgeTeam, DeleteTeam

(***************************************************************************)
(* The theorems.                                                           *)
(***************************************************************************)
LEMMA NextIInv == ASSUME ConstantsOK, IInv, [Next]_vars PROVE IInv'
<1>1. CASE \E r \in Free, u \in Users :
             \/ \E c \in Users :
                  \/ RemoveMember(r, c, u)
                  \/ \E role \in Roles :
                       \/ UpdateRole(r, c, u, role) \/ AddRole(r, c, u, role)
                       \/ Invite(r, c, u, role)
                  \/ \E role \in Roles \cup {"custom"} : RemoveRole(r, c, u, role)
             \/ AssignCustom(r, u) \/ AdminRemove(r, u) \/ PurgeUsers(r, u)
             \/ \E role \in Roles : AdminAdd(r, u, role)
             \/ \E how \in {"lock", "emergency"} : Deactivate(r, u, how)
             \/ \E how \in {"soft", "hard"} : DeleteUser(r, u, how)
  <2>1. Free \subseteq Requests
    BY DEF Free
  <2>. QED
    BY <1>1, <2>1, ArriveKeeps, StartKeeps
<1>2. CASE \E r \in Requests \ Free :
             \/ UpdateWrite(r) \/ AddWrite(r) \/ RemoveRoleWrite(r)
             \/ InviteRole(r) \/ InviteSlot(r) \/ AdminAddRole(r) \/ AdminOwn(r)
             \/ DropRoles(r) \/ DropSlot(r) \/ Flag(r)
             \/ List(r) \/ Mark(r) \/ Drop(r) \/ Strip(r)
             \/ ScheduleUser(r) \/ EraseUser(r) \/ PurgeUser(r)
             \/ Crash(r)
  BY <1>2, RoleSteps, JoinSteps, RemovalSteps, InviteSlotKeeps, ListKeeps, MarkKeeps,
     DropKeeps, ScheduleKeeps, EraseKeeps, CrashKeeps
<1>3. CASE \/ \E u \in Users :
                Unlock(u) \/ Recover(u) \/ RevokeCustom({u}) \/ Rotate(u) \/ DeleteTeam(u)
           \/ RevokeCustom(custom)
           \/ AdminDeleteTeam \/ RecoverTeam \/ PurgeTeam
  BY <1>3, BesideKeeps, RotateKeeps
<1>4. CASE UNCHANGED vars
  <2>1. /\ UNCHANGED <<task, pending, missed, slots, owed, lastly>>
        /\ TypeOK'
    BY <1>4 DEF vars, members, accounts, history, IInv, TypeOK
  <2>2. OwnerRemains'
    BY <2>1 DEF IInv, OwnerRemains
  <2>. QED
    BY <2>1, <2>2, TasksStay
<1>. QED
  BY <1>1, <1>2, <1>3, <1>4 DEF Next

LEMMA Invariant == ASSUME ConstantsOK PROVE Spec => []IInv
<1>1. Init => IInv
  BY InitIInv
<1>2. IInv /\ [Next]_vars => IInv'
  BY NextIInv
<1>. QED
  BY <1>1, <1>2, PTL DEF Spec

(* Teams, roles, slots and accounts stay well formed, whatever requests of *)
(* owners, administrators and the daily job interleave.                    *)
THEOREM TypeCorrect == ASSUME ConstantsOK PROVE Spec => []TypeOK
<1>1. IInv => TypeOK
  BY DEF IInv
<1>. QED
  BY <1>1, Invariant, PTL

(* Whoever loses the slot of a team that goes on has its rotation flagged, *)
(* or a request about to flag it, but for the ways SlotLossFlagged names,  *)
(* for any number of users and of requests under way.                      *)
THEOREM LossesFlagged == ASSUME ConstantsOK PROVE Spec => []SlotLossFlagged
<1>1. IInv => SlotLossFlagged
  BY DEF IInv
<1>. QED
  BY <1>1, Invariant, PTL

(* No request of a team's own members takes the last owner's role unless   *)
(* it raced with another between its check and its write.                  *)
THEOREM OwnerKept == ASSUME ConstantsOK PROVE Spec => []OwnerRemains
<1>1. IInv => OwnerRemains
  BY DEF IInv
<1>. QED
  BY <1>1, Invariant, PTL

-----------------------------------------------------------------------------
(* Settings: what workers have of the table                                *)

(* What a request still does: an update is put, cached and announced; the  *)
(* other requests write rows one by one.                                   *)
SetRowLocks ==
  {<<>>} \cup {b.lock : b \in EscrowUpdates}
  \cup {Set!Over(b.lock, [on |-> TRUE]) : b \in EscrowUpdates}
SetRows == [key : SettingKeys, value : Set!Values, lock : SetRowLocks]
SetImported == UNION {{b[i] : i \in DOMAIN b} : b \in SettingImports}
SetPlain ==
  {Set!Do("lock", b) : b \in SettingLocks} \cup {Set!Do("row", r) : r \in SetRows}
  \cup {Set!Do("import", e) : e \in SetImported}
SetAnnounced ==
  {<<Set!Do("put", b), Set!Do("cache", b), Set!Do("publish", b)>> : b \in SettingUpdates}
  \cup {<<Set!Do("cache", b), Set!Do("publish", b)>> : b \in SettingUpdates}
  \cup {<<Set!Do("publish", b)>> : b \in SettingUpdates}
SetTask ==
  [at : Workers \cup {None}, todo : SetAnnounced \cup Seq(SetPlain),
   unchecked : SUBSET SettingKeys]
SetTable == [SettingKeys -> Set!Values]

SetTypes ==
  /\ setValue \in SetTable /\ setAudit \in Nat \cup {None}
  /\ setCache \in [Workers -> SetTable]
  /\ setSnap \in [Workers -> SetTable \cup {None}]
  /\ setInbox \in [Workers -> Nat]
  /\ setPhase \in [Workers ->
       {"down", "seeded", "loading", "loaded", "listening", "generated", "ready"}]
  /\ setMine \in [Workers -> Nat \cup {None}]
  /\ setStale \in [Workers -> SUBSET SettingKeys]
  /\ setTask \in [Officers -> SetTask]
  /\ setStops \in Nat /\ setSplit \in BOOLEAN

(* A worker that has read the table agrees with it on a key, in what it    *)
(* will have in its cache, unless the key is stale, a reload is due, or a  *)
(* request is about to announce the key.                                   *)
Announces(todo, k) ==
  todo # <<>> /\ Head(todo).op \in {"cache", "publish"} /\ k \in DOMAIN Head(todo).arg
SetPending(k) == \E a \in Officers : Announces(setTask[a].todo, k)
SetSees(w) == IF setSnap[w] = None THEN setCache[w] ELSE setSnap[w]
SetAgree(w, k) ==
  \/ Set!Reads(SetSees(w)[k], k) = Set!Reads(setValue[k], k)
  \/ k \in setStale[w] \/ setInbox[w] > 0 \/ SetPending(k)
SetSnaps ==
  \A w \in Workers :
    /\ setPhase[w] = "loading" => setSnap[w] # None
    /\ setPhase[w] \in {"down", "seeded"} => setSnap[w] = None
SetReads ==
  \A w \in Workers, k \in SettingKeys :
    setPhase[w] \in {"down", "seeded"} \/ SetAgree(w, k)

(* Unless two first starts overlapped or nothing was stored, whoever is    *)
(* ready has the stored key, and whoever has made one is alone.            *)
SetKeyKept ==
  ~setSplit =>
    \A w \in Workers :
      /\ setPhase[w] = "ready" => setMine[w] = setAudit /\ setAudit # None
      /\ setPhase[w] = "generated" =>
           /\ setAudit = None /\ setMine[w] # None
           /\ \A v \in Workers : setPhase[v] = "generated" => v = w

SetInv == SetTypes /\ SetSnaps /\ SetReads /\ SetKeyKept

-----------------------------------------------------------------------------
LEMMA SetCardinality == \A S : Set!Cardinality(S) = Cardinality(S)
BY DEF Set!Cardinality, Cardinality

LEMMA SetFinite == IsFiniteSet(Workers)
BY SettingsAssumption DEF Set!ConstantsOK, Set!IsFiniteSet, IsFiniteSet

LEMMA SetNewKey ==
  ASSUME setStops \in Nat PROVE Set!NewKey \in Nat
<1>. DEFINE n == Cardinality(Workers) m == Cardinality({w \in Workers : setMine[w] # None})
<1>1. n \in Nat /\ m \in Nat
  <2>1. IsFiniteSet({w \in Workers : setMine[w] # None})
    BY SetFinite, FS_Subset
  <2>. QED
    BY <2>1, SetFinite, FS_CardinalityType
<1>2. Set!NewKey = n * setStops + m + 1
  BY SetCardinality DEF Set!NewKey
<1>. HIDE DEF n, m
<1>. QED
  BY <1>1, <1>2

LEMMA SetValues ==
  /\ None \in Set!Values
  /\ \A k \in SettingKeys : DefaultOf[k] \in Set!Values
  /\ \A b \in SettingUpdates :
       DOMAIN b \subseteq SettingKeys /\ \A k \in DOMAIN b : b[k] \in Set!Values
  /\ \A r \in SetRows : r.key \in SettingKeys /\ r.value \in Set!Values
  /\ \A e \in SetImported : e.key \in SettingKeys /\ e.value \in Set!Values
  /\ \A b \in SettingLocks : DOMAIN b \subseteq SettingKeys
<1>1. None \in Set!Values /\ \A k \in SettingKeys : DefaultOf[k] \in Set!Values
  BY DEF Set!Values
<1>2. \A b \in SettingUpdates :
        DOMAIN b \subseteq SettingKeys /\ \A k \in DOMAIN b : b[k] \in Set!Values
  <2>1. \A b \in SettingUpdates : DOMAIN b \subseteq SettingKeys
    BY SettingsAssumption DEF Set!ConstantsOK
  <2>. QED
    BY <2>1 DEF Set!Values
<1>3. \A r \in SetRows : r.key \in SettingKeys /\ r.value \in Set!Values
  BY DEF SetRows
<1>4. ASSUME NEW e \in SetImported PROVE e.key \in SettingKeys /\ e.value \in Set!Values
  <2>1. PICK b \in SettingImports : \E i \in DOMAIN b : e = b[i]
    BY <1>4 DEF SetImported
  <2>2. e.key \in SettingKeys
    BY <2>1, SettingsAssumption DEF Set!ConstantsOK
  <2>. QED
    BY <2>1, <2>2 DEF Set!Values
<1>5. \A b \in SettingLocks : DOMAIN b \subseteq SettingKeys
  BY SettingsAssumption DEF Set!ConstantsOK
<1>. QED
  BY <1>1, <1>2, <1>3, <1>4, <1>5

LEMMA SetOver ==
  ASSUME NEW b \in SettingUpdates, NEW old \in SetTable
  PROVE  /\ Set!Over(b, old) \in SetTable
         /\ \A k \in SettingKeys \ DOMAIN b : Set!Over(b, old)[k] = old[k]
BY SetValues DEF Set!Over, SetTable

(* The table is no None, so a snapshot of it is one.                       *)
LEMMA SetNone == None \notin SetTable /\ None \notin Nat
BY SettingsAssumption DEF Set!ConstantsOK, SetTable

-----------------------------------------------------------------------------
(* The steps a request is at, and what is left of it after them.           *)
LEMMA SetSteps ==
  ASSUME NEW b
  PROVE  LET put == Set!Do("put", b) cache == Set!Do("cache", b)
             tell == Set!Do("publish", b) IN
         /\ <<put, cache, tell>> # <<>> /\ Head(<<put, cache, tell>>) = put
         /\ Len(<<put, cache, tell>>) # 1 /\ Tail(<<put, cache, tell>>) = <<cache, tell>>
         /\ <<cache, tell>> # <<>> /\ Head(<<cache, tell>>) = cache
         /\ Len(<<cache, tell>>) # 1 /\ Tail(<<cache, tell>>) = <<tell>>
         /\ <<tell>> # <<>> /\ Head(<<tell>>) = tell /\ Len(<<tell>>) = 1
OBVIOUS

LEMMA SetOps ==
  ASSUME NEW o, NEW b PROVE Set!Do(o, b).op = o /\ Set!Do(o, b).arg = b
BY DEF Set!Do

LEMMA SetPlainOps ==
  ASSUME NEW s \in Seq(SetPlain), s # <<>>
  PROVE  /\ Head(s).op \in {"lock", "row", "import"}
         /\ Head(s).op = "lock" => Head(s).arg \in SettingLocks
         /\ Head(s).op = "row" => Head(s).arg \in SetRows
         /\ Head(s).op = "import" => Head(s).arg \in SetImported
         /\ Tail(s) \in Seq(SetPlain)
<1>1. Head(s) \in SetPlain /\ Tail(s) \in Seq(SetPlain)
  OBVIOUS
<1>. QED
  BY <1>1 DEF SetPlain, Set!Do

LEMMA SetAnnouncedOps ==
  ASSUME NEW s \in SetAnnounced
  PROVE  /\ s # <<>> /\ Head(s).op \in {"put", "cache", "publish"}
         /\ Head(s).arg \in SettingUpdates
         /\ Head(s).op = "put" =>
              /\ Len(s) # 1
              /\ Tail(s) = <<Set!Do("cache", Head(s).arg), Set!Do("publish", Head(s).arg)>>
         /\ Head(s).op = "cache" => Len(s) # 1 /\ Tail(s) = <<Set!Do("publish", Head(s).arg)>>
         /\ Head(s).op = "publish" => Len(s) = 1
<1>1. CASE \E b \in SettingUpdates :
             s = <<Set!Do("put", b), Set!Do("cache", b), Set!Do("publish", b)>>
  BY <1>1, SetSteps, SetOps
<1>2. CASE \E b \in SettingUpdates : s = <<Set!Do("cache", b), Set!Do("publish", b)>>
  BY <1>2, SetSteps, SetOps
<1>3. CASE \E b \in SettingUpdates : s = <<Set!Do("publish", b)>>
  BY <1>3, SetSteps, SetOps
<1>. QED
  BY <1>1, <1>2, <1>3 DEF SetAnnounced

(* What a request goes on with after its first step.                       *)
LEMMA SetAdvance ==
  ASSUME SetTypes, NEW a \in Officers, setTask[a].todo # <<>>
  PROVE  LET op == Head(setTask[a].todo).op arg == Set!Arg(a)
             next == Set!Advance(a) IN
         /\ next \in SetTask
         /\ op \in {"put", "cache", "publish", "lock", "row", "import"}
         /\ op = "put" =>
              /\ arg \in SettingUpdates
              /\ next.todo = <<Set!Do("cache", arg), Set!Do("publish", arg)>>
         /\ op = "cache" => arg \in SettingUpdates /\ next.todo = <<Set!Do("publish", arg)>>
         /\ op = "publish" => arg \in SettingUpdates
         /\ op = "lock" => arg \in SettingLocks
         /\ op = "row" => arg \in SetRows
         /\ op = "import" => arg \in SetImported
<1>. DEFINE t == setTask[a]
<1>1. t \in SetTask
  BY DEF SetTypes
<1>2. t.todo \in SetAnnounced \cup Seq(SetPlain) /\ t.at \in Workers \cup {None}
      /\ t.unchecked \in SUBSET SettingKeys
  BY <1>1 DEF SetTask
<1>3. Set!NoTask \in SetTask
  BY DEF Set!NoTask, SetTask
<1>4. ASSUME NEW s \in SetAnnounced \cup Seq(SetPlain)
      PROVE [t EXCEPT !.todo = s] \in SetTask /\ [t EXCEPT !.todo = s].todo = s
  BY <1>1, <1>4 DEF SetTask
<1>5. CASE t.todo \in SetAnnounced
  <2>1. Set!Arg(a) = Head(t.todo).arg /\ Set!Arg(a) \in SettingUpdates
    BY <1>5, SetAnnouncedOps DEF Set!Arg
  <2>2. CASE Head(t.todo).op = "put"
    <3>1. Tail(t.todo) \in SetAnnounced
      BY <2>1, <2>2, <1>5, SetAnnouncedOps DEF SetAnnounced
    <3>2. Set!Advance(a) = [t EXCEPT !.todo = Tail(t.todo)]
      BY <1>5, <2>2, SetAnnouncedOps DEF Set!Advance
    <3>3. Set!Advance(a) \in SetTask /\ Set!Advance(a).todo = Tail(t.todo)
      BY <3>1, <3>2, <1>4
    <3>4. Tail(t.todo) = <<Set!Do("cache", Set!Arg(a)), Set!Do("publish", Set!Arg(a))>>
      BY <2>1, <2>2, <1>5, SetAnnouncedOps
    <3>. QED
      BY <2>1, <2>2, <3>3, <3>4
  <2>3. CASE Head(t.todo).op = "cache"
    <3>1. Tail(t.todo) \in SetAnnounced
      BY <2>1, <2>3, <1>5, SetAnnouncedOps DEF SetAnnounced
    <3>2. Set!Advance(a) = [t EXCEPT !.todo = Tail(t.todo)]
      BY <1>5, <2>3, SetAnnouncedOps DEF Set!Advance
    <3>3. Set!Advance(a) \in SetTask /\ Set!Advance(a).todo = Tail(t.todo)
      BY <3>1, <3>2, <1>4
    <3>4. Tail(t.todo) = <<Set!Do("publish", Set!Arg(a))>>
      BY <2>1, <2>3, <1>5, SetAnnouncedOps
    <3>. QED
      BY <2>1, <2>3, <3>3, <3>4
  <2>4. CASE Head(t.todo).op = "publish"
    BY <2>1, <2>4, <1>3, <1>5, SetAnnouncedOps DEF Set!Advance
  <2>. QED
    BY <2>2, <2>3, <2>4, <1>5, SetAnnouncedOps
<1>6. CASE t.todo \in Seq(SetPlain)
  <2>1. Tail(t.todo) \in SetAnnounced \cup Seq(SetPlain)
    BY <1>6, SetPlainOps
  <2>2. Set!Advance(a) \in SetTask
    BY <2>1, <1>3, <1>4 DEF Set!Advance
  <2>. QED
    BY <1>6, <2>2, SetPlainOps DEF Set!Arg
<1>. QED
  BY <1>2, <1>5, <1>6

(* Only the request that takes a step goes on.                             *)
LEMMA SetPassed ==
  ASSUME SetTypes, NEW a \in Officers, setTask[a].todo # <<>>,
         NEW K \in SUBSET SettingKeys, setTask' = Set!Passed(a, K)
  PROVE  /\ setTask' \in [Officers -> SetTask]
         /\ setTask'[a] = Set!Advance(a)
         /\ \A c \in Officers \ {a} : setTask'[c].todo = setTask[c].todo
<1>1. Set!Advance(a) \in SetTask
  BY SetAdvance
<1>2. Set!NoTask \in SetTask
  BY DEF Set!NoTask, SetTask
<1>3. ASSUME NEW c \in Officers
      PROVE /\ [setTask[c] EXCEPT !.unchecked = @ \cup K] \in SetTask
            /\ [setTask[c] EXCEPT !.unchecked = @ \cup K].todo = setTask[c].todo
  <2>1. setTask[c] \in SetTask
    BY DEF SetTypes
  <2>. QED
    BY <2>1 DEF SetTask
<1>. QED
  BY <1>1, <1>2, <1>3 DEF Set!Passed

(* So what the others are about to announce stays.                         *)
LEMMA SetPendingKept ==
  ASSUME SetTypes, NEW a \in Officers, setTask[a].todo # <<>>,
         NEW K \in SUBSET SettingKeys, setTask' = Set!Passed(a, K)
  PROVE  /\ \A k : SetPending(k) => SetPending(k)' \/ Announces(setTask[a].todo, k)
         /\ \A k : Announces(Set!Advance(a).todo, k) => SetPending(k)'
<1>1. \A c \in Officers \ {a} : setTask'[c].todo = setTask[c].todo
  BY SetPassed
<1>2. setTask'[a] = Set!Advance(a)
  BY SetPassed
<1>. QED
  BY <1>1, <1>2 DEF SetPending, Announces

-----------------------------------------------------------------------------
LEMMA SetInit == Set!Init => SetInv
<1>. SUFFICES ASSUME Set!Init PROVE SetInv
  OBVIOUS
<1>1. Set!Empty \in SetTable
  BY SetValues DEF Set!Empty, SetTable
<1>2. Set!NoTask \in SetTask
  BY DEF Set!NoTask, SetTask
<1>. QED
  BY <1>1, <1>2 DEF Set!Init, SetInv, SetTypes, SetSnaps, SetReads, SetKeyKept

(* A worker that starts, reloads, or ends its start.                       *)
LEMMA SetWorkerTypes ==
  ASSUME SetInv, NEW w \in Workers,
         \/ Set!Seed(w) \/ Set!LoadRead(w) \/ Set!Load(w) \/ Set!LoadFails(w)
         \/ Set!Subscribe(w) \/ Set!EnsureRead(w) \/ Set!EnsureStore(w)
  PROVE  SetTypes' /\ SetSnaps'
<1>. USE SetNone DEF SetInv, SetTypes, SetSnaps
<1>1. CASE Set!Seed(w)
  <2>1. setValue' \in SetTable
    BY <1>1, SetValues DEF Set!Seed, SetTable
  <2>. QED
    BY <1>1, <2>1 DEF Set!Seed
<1>2. CASE Set!LoadRead(w)
  BY <1>2 DEF Set!LoadRead, Set!tableVars, Set!Up
<1>3. CASE Set!Load(w)
  BY <1>3 DEF Set!Load, Set!tableVars
<1>4. CASE Set!LoadFails(w)
  BY <1>4 DEF Set!LoadFails, Set!tableVars, Set!Up
<1>5. CASE Set!Subscribe(w)
  BY <1>5 DEF Set!Subscribe, Set!tableVars
<1>6. CASE Set!EnsureRead(w)
  <2>1. Set!NewKey \in Nat
    BY SetNewKey
  <2>2. setMine' \in [Workers -> Nat \cup {None}]
    BY <1>6, <2>1 DEF Set!EnsureRead, Set!tableVars
  <2>. QED
    BY <1>6, <2>2 DEF Set!EnsureRead, Set!tableVars
<1>7. CASE Set!EnsureStore(w)
  <2>1. /\ setMine[w] \in Nat \cup {None}
        /\ setAudit' = setMine[w] \/ setAudit' = setAudit
        /\ setSplit' = setSplit \/ setSplit' = TRUE
        /\ setStops' = setStops \/ setStops' = setStops + 1
    <3>1. setMine[w] \in Nat \cup {None}
      OBVIOUS
    <3>2. CASE setAudit' = setMine[w] /\ UNCHANGED <<setSplit, setStops>>
      BY <3>1, <3>2
    <3>3. CASE setStops' = setStops + 1 /\ setSplit' = TRUE /\ UNCHANGED setAudit
      BY <3>1, <3>3
    <3>. QED
      BY <1>7, <3>2, <3>3 DEF Set!EnsureStore
  <2>2. setAudit' \in Nat \cup {None} /\ setSplit' \in BOOLEAN /\ setStops' \in Nat
    <3>1. setAudit' \in Nat \cup {None}
      BY <2>1
    <3>2. setSplit' \in BOOLEAN
      BY <2>1, Zenon
    <3>3. setStops' \in Nat
      BY <2>1
    <3>. QED
      BY <3>1, <3>2, <3>3
  <2>3. setPhase' = [setPhase EXCEPT ![w] = "ready"]
        /\ UNCHANGED <<setValue, setCache, setSnap, setInbox, setMine, setStale, setTask>>
    BY <1>7 DEF Set!EnsureStore, Set!tableVars
  <2>. QED
    BY <2>2, <2>3
<1>. QED
  BY <1>1, <1>2, <1>3, <1>4, <1>5, <1>6, <1>7

LEMMA SetWorkerReads ==
  ASSUME SetInv, NEW w \in Workers,
         \/ Set!Seed(w) \/ Set!LoadRead(w) \/ Set!Load(w) \/ Set!LoadFails(w)
         \/ Set!Subscribe(w) \/ Set!EnsureRead(w) \/ Set!EnsureStore(w)
  PROVE  SetReads'
<1>. USE SetNone DEF SetInv, SetTypes, SetSnaps, SetReads
<1>. SUFFICES ASSUME NEW v \in Workers, NEW k \in SettingKeys,
                     setPhase'[v] \notin {"down", "seeded"}
              PROVE  SetAgree(v, k)'
  OBVIOUS
<1>0. SetPending(k)' <=> SetPending(k)
  BY DEF Set!Seed, Set!LoadRead, Set!Load, Set!LoadFails, Set!Subscribe, Set!EnsureRead,
         Set!EnsureStore, SetPending
<1>1. CASE Set!Seed(w)
  <2>1. Set!Reads(setValue'[k], k) = Set!Reads(setValue[k], k)
    BY <1>1 DEF Set!Seed, Set!Reads, SetTable
  <2>2. SetAgree(v, k)
    BY <1>1 DEF Set!Seed
  <2>. QED
    BY <1>0, <1>1, <2>1, <2>2 DEF Set!Seed, SetAgree, SetSees
<1>2. CASE Set!LoadRead(w)
  <2>1. CASE v = w
    <3>1. SetSees(v)' = setValue /\ setValue' = setValue
      BY <1>2, <2>1 DEF Set!LoadRead, Set!tableVars, SetSees
    <3>. QED
      BY <3>1 DEF SetAgree
  <2>2. CASE v # w
    BY <1>0, <1>2, <2>2 DEF Set!LoadRead, Set!tableVars, SetAgree, SetSees
  <2>. QED
    BY <2>1, <2>2
<1>3. CASE Set!Load(w)
  <2>1. CASE v = w
    <3>1. SetSees(v)' = setSnap[v] /\ SetSees(v) = setSnap[v] /\ setValue' = setValue
          /\ setInbox' = setInbox
          /\ setStale'[v] = {j \in setStale[v] : setSnap[v][j] # setValue[j]}
      BY <1>3, <2>1 DEF Set!Load, Set!tableVars, SetSees
    <3>2. SetAgree(v, k)
      BY <1>3, <2>1 DEF Set!Load
    <3>. QED
      BY <1>0, <3>1, <3>2 DEF SetAgree
  <2>2. CASE v # w
    BY <1>0, <1>3, <2>2 DEF Set!Load, Set!tableVars, SetAgree, SetSees
  <2>. QED
    BY <2>1, <2>2
<1>4. CASE Set!LoadFails(w)
  <2>1. CASE v = w
    <3>1. SetSees(v)' = setCache[v] /\ setValue' = setValue
          /\ {j \in SettingKeys : setCache[v][j] # setValue[j]} \subseteq setStale'[v]
      BY <1>4, <2>1 DEF Set!LoadFails, Set!tableVars, SetSees
    <3>. QED
      BY <3>1 DEF SetAgree
  <2>2. CASE v # w
    BY <1>0, <1>4, <2>2 DEF Set!LoadFails, Set!tableVars, SetAgree, SetSees
  <2>. QED
    BY <2>1, <2>2
<1>5. CASE Set!Subscribe(w) \/ Set!EnsureRead(w) \/ Set!EnsureStore(w)
  <2>1. SetAgree(v, k)
    BY <1>5 DEF Set!Subscribe, Set!EnsureRead, Set!EnsureStore
  <2>. QED
    BY <1>0, <1>5, <2>1
    DEF Set!Subscribe, Set!EnsureRead, Set!EnsureStore, Set!tableVars, SetAgree, SetSees
<1>. QED
  BY <1>1, <1>2, <1>3, <1>4, <1>5

LEMMA SetWorkerKey ==
  ASSUME SetInv, NEW w \in Workers,
         \/ Set!Seed(w) \/ Set!LoadRead(w) \/ Set!Load(w) \/ Set!LoadFails(w)
         \/ Set!Subscribe(w) \/ Set!EnsureRead(w) \/ Set!EnsureStore(w)
  PROVE  SetKeyKept'
<1>. USE SetNone DEF SetInv, SetTypes, SetKeyKept
<1>1. CASE Set!Seed(w) \/ Set!LoadRead(w) \/ Set!Load(w) \/ Set!LoadFails(w) \/ Set!Subscribe(w)
  <2>1. setAudit' = setAudit /\ setMine' = setMine /\ setSplit' = setSplit
    BY <1>1 DEF Set!Seed, Set!LoadRead, Set!Load, Set!LoadFails, Set!Subscribe, Set!tableVars
  <2>2. \A v \in Workers : setPhase'[v] \in {"generated", "ready"} => setPhase'[v] = setPhase[v]
    BY <1>1 DEF Set!Seed, Set!LoadRead, Set!Load, Set!LoadFails, Set!Subscribe
  <2>. QED
    BY <2>1, <2>2
<1>2. CASE Set!EnsureRead(w)
  <2>1. CASE setAudit = None
    <3>1. /\ setAudit' = None /\ setPhase' = [setPhase EXCEPT ![w] = "generated"]
          /\ setMine' = [setMine EXCEPT ![w] = Set!NewKey]
          /\ setSplit' = (setSplit \/ \E v \in Workers : setPhase[v] = "generated")
      BY <1>2, <2>1 DEF Set!EnsureRead, Set!Absent
    <3>2. Set!NewKey \in Nat
      BY SetNewKey
    <3>3. ASSUME ~setSplit', NEW v \in Workers
          PROVE  /\ setPhase'[v] = "ready" => FALSE
                 /\ setPhase'[v] = "generated" => v = w
      BY <2>1, <3>1, <3>3
    <3>4. setMine'[w] # None
      BY <3>1, <3>2
    <3>. QED
      BY <3>1, <3>3, <3>4
  <2>2. CASE setAudit # None
    BY <1>2, <2>2 DEF Set!EnsureRead, Set!Absent
  <2>. QED
    BY <2>1, <2>2
<1>3. CASE Set!EnsureStore(w)
  BY <1>3 DEF Set!EnsureStore
<1>. QED
  BY <1>1, <1>2, <1>3

-----------------------------------------------------------------------------
(* A request that was checked.                                             *)
LEMMA SetBegun ==
  ASSUME SetInv, NEW a \in Officers, setTask[a] = Set!NoTask, NEW w \in Workers,
         NEW todo \in SetAnnounced \cup Seq(SetPlain), NEW U \in SUBSET SettingKeys,
         setTask' = [setTask EXCEPT ![a] = [at |-> w, todo |-> todo, unchecked |-> U]],
         UNCHANGED <<Set!tableVars, Set!workerVars, setStops, setStale>>
  PROVE  SetInv'
<1>. USE DEF SetInv, SetTypes
<1>1. UNCHANGED <<setValue, setCache, setSnap, setInbox, setPhase, setMine, setAudit, setStale,
                  setStops, setSplit>>
  BY DEF Set!tableVars, Set!workerVars
<1>2. setTask' \in [Officers -> SetTask]
  <2>1. [at |-> w, todo |-> todo, unchecked |-> U] \in SetTask
    BY DEF SetTask
  <2>. QED
    BY <2>1
<1>3. \A k : SetPending(k) => SetPending(k)'
  <2>1. setTask[a].todo = <<>>
    BY DEF Set!NoTask
  <2>2. \A c \in Officers \ {a} : setTask'[c] = setTask[c]
    OBVIOUS
  <2>. QED
    BY <2>1, <2>2 DEF SetPending, Announces
<1>4. SetTypes'
  BY <1>1, <1>2
<1>5. SetSnaps' /\ SetKeyKept'
  BY <1>1 DEF SetSnaps, SetKeyKept
<1>6. SetReads'
  <2>. SUFFICES ASSUME NEW v \in Workers, NEW k \in SettingKeys,
                       setPhase'[v] \notin {"down", "seeded"}
                PROVE  SetAgree(v, k)'
    BY DEF SetReads
  <2>1. SetAgree(v, k)
    BY <1>1 DEF SetReads
  <2>. QED
    BY <1>1, <1>3, <2>1 DEF SetAgree, SetSees
<1>. QED
  BY <1>4, <1>5, <1>6

LEMMA SetBegins ==
  ASSUME SetInv, NEW a \in Set!Free, NEW w \in Workers,
         \/ \E b \in SettingUpdates : Set!UpdateSettings(a, w, b)
         \/ \E b \in SettingLocks : Set!UpdateLocks(a, w, b)
         \/ \E b \in EscrowUpdates : Set!UpdateEscrow(a, w, b)
         \/ \E b \in SettingImports : Set!Import(a, w, b)
  PROVE  SetInv'
<1>1. a \in Officers /\ setTask[a] = Set!NoTask
  BY DEF Set!Free
<1>2. ASSUME NEW todo \in SetAnnounced \cup Seq(SetPlain), NEW U \in SUBSET SettingKeys,
             Set!Begin(a, w, todo, U)
      PROVE  SetInv'
  BY <1>1, <1>2, SetBegun DEF Set!Begin
<1>3. ASSUME NEW b \in SettingUpdates, Set!UpdateSettings(a, w, b) PROVE SetInv'
  <2>1. Set!Steps(b) \in SetAnnounced
    BY DEF Set!Steps, SetAnnounced
  <2>. QED
    BY <1>2, <1>3, <2>1 DEF Set!UpdateSettings
<1>4. ASSUME NEW b \in SettingLocks, Set!UpdateLocks(a, w, b) PROVE SetInv'
  <2>. DEFINE todo == <<Set!Do("lock", b)>>
  <2>1. todo \in Seq(SetPlain)
    <3>1. Set!Do("lock", b) \in SetPlain
      BY DEF SetPlain
    <3>. QED
      BY <3>1
  <2>2. Set!Begin(a, w, todo, {})
    BY <1>4 DEF Set!UpdateLocks
  <2>. HIDE DEF todo
  <2>. QED
    BY <1>2, <2>1, <2>2
<1>5. ASSUME NEW b \in EscrowUpdates, Set!UpdateEscrow(a, w, b) PROVE SetInv'
  <2>. DEFINE beside == IF DOMAIN b.lock = {"tier"} THEN <<>> ELSE b.lock
              alone == IF DOMAIN b.lock = {"tier"} THEN Set!Over(b.lock, [on |-> TRUE])
                       ELSE b.lock
              row(k, v, l) == Set!Do("row", [key |-> k, value |-> v, lock |-> l])
              todo == IF b.values # <<>>
                      THEN [i \in 1..Len(b.values) |->
                              row(b.values[i].key, b.values[i].value, beside)]
                      ELSE [i \in 1..Len(EscrowOrder) |-> row(EscrowOrder[i], None, alone)]
  <2>1. \A k \in SettingKeys, v \in Set!Values, l \in SetRowLocks : row(k, v, l) \in SetPlain
    BY DEF SetPlain, SetRows
  <2>2. beside \in SetRowLocks /\ alone \in SetRowLocks
    BY DEF SetRowLocks
  <2>3. todo \in Seq(SetPlain)
    <3>1. Set!Escrow \subseteq SettingKeys /\ Set!IsSeq(EscrowOrder) /\ Set!IsSeq(b.values)
          /\ \A i \in DOMAIN b.values : b.values[i].key \in Set!Escrow
      BY SettingsAssumption DEF Set!ConstantsOK
    <3>2. CASE b.values # <<>>
      <4>1. Len(b.values) \in Nat /\ DOMAIN b.values = 1..Len(b.values)
        BY <3>1 DEF Set!IsSeq
      <4>2. \A i \in 1..Len(b.values) :
              b.values[i].key \in SettingKeys /\ b.values[i].value \in Set!Values
        BY <3>1, <4>1 DEF Set!Values
      <4>3. \A i \in 1..Len(b.values) :
              row(b.values[i].key, b.values[i].value, beside) \in SetPlain
        BY <2>1, <2>2, <4>2
      <4>. HIDE DEF row, beside
      <4>. QED
        BY <3>2, <4>1, <4>3
    <3>3. CASE b.values = <<>>
      <4>1. Len(EscrowOrder) \in Nat
        BY <3>1 DEF Set!IsSeq
      <4>2. \A i \in 1..Len(EscrowOrder) : EscrowOrder[i] \in SettingKeys
        BY <3>1 DEF Set!Escrow
      <4>3. \A i \in 1..Len(EscrowOrder) : row(EscrowOrder[i], None, alone) \in SetPlain
        BY <2>1, <2>2, <4>2, SetValues
      <4>. HIDE DEF row, alone
      <4>. QED
        BY <3>3, <4>1, <4>3
    <3>. QED
      BY <3>2, <3>3
  <2>4. \A k : Set!Escrow \ {k} \subseteq SettingKeys
    BY SettingsAssumption DEF Set!ConstantsOK
  <2>5. \E k : Set!Begin(a, w, todo, Set!Escrow \ {k})
    BY <1>5 DEF Set!UpdateEscrow
  <2>. HIDE DEF todo
  <2>. QED
    BY <1>2, <2>3, <2>4, <2>5
<1>6. ASSUME NEW b \in SettingImports, Set!Import(a, w, b) PROVE SetInv'
  <2>. DEFINE todo == [i \in 1..Len(b) |-> Set!Do("import", b[i])]
  <2>1. Len(b) \in Nat /\ DOMAIN b = 1..Len(b)
    BY SettingsAssumption DEF Set!ConstantsOK, Set!IsSeq
  <2>2. \A i \in 1..Len(b) : Set!Do("import", b[i]) \in SetPlain
    BY <2>1 DEF SetPlain, SetImported
  <2>3. todo \in Seq(SetPlain)
    BY <2>1, <2>2
  <2>4. Set!Begin(a, w, todo, {})
    BY <1>6 DEF Set!Import
  <2>. HIDE DEF todo
  <2>. QED
    BY <1>2, <2>3, <2>4
<1>. QED
  BY <1>3, <1>4, <1>5, <1>6

(* A statement of a request, and what its worker and the others hear of it. *)
LEMMA SetStatement ==
  ASSUME SetInv, NEW a \in Officers, setTask[a].todo # <<>>,
         \/ Set!Put(a) \/ Set!PutLocks(a) \/ Set!PutRow(a) \/ Set!PutImport(a)
         \/ Set!Cache(a) \/ Set!Publish(a)
  PROVE  SetInv'
<1>. USE DEF SetInv, SetTypes
<1>. DEFINE op == Head(setTask[a].todo).op
            b == Set!Arg(a)
<1>0. \A k : Announces(setTask[a].todo, k) <=> op \in {"cache", "publish"} /\ k \in DOMAIN b
  BY DEF Announces, Set!Arg
<1>9. ASSUME setTask' = Set!Passed(a, {})
      PROVE  /\ \A k : SetPending(k) => SetPending(k)' \/ Announces(setTask[a].todo, k)
             /\ \A k : Announces(Set!Advance(a).todo, k) => SetPending(k)'
  <2>. DEFINE K == {}
  <2>1. K \in SUBSET SettingKeys /\ setTask' = Set!Passed(a, K)
    BY <1>9
  <2>. HIDE DEF K
  <2>. QED
    BY <2>1, SetPendingKept
<1>1. CASE Set!Put(a)
  <2>1. op = "put" /\ setValue' = Set!Over(b, setValue) /\ setTask' = Set!Passed(a, {})
        /\ UNCHANGED <<setCache, setSnap, setInbox, setPhase, setMine, setAudit, setStale,
                       setStops, setSplit>>
    BY <1>1 DEF Set!Put, Set!At, Set!workerVars
  <2>2. b \in SettingUpdates
        /\ Set!Advance(a).todo = <<Set!Do("cache", b), Set!Do("publish", b)>>
    BY <2>1, SetAdvance
  <2>3. setTask' \in [Officers -> SetTask]
    BY <2>1, SetPassed
  <2>4. setValue' \in SetTable /\ \A k \in SettingKeys \ DOMAIN b : setValue'[k] = setValue[k]
    BY <2>1, <2>2, SetOver
  <2>5. \A k \in DOMAIN b : SetPending(k)'
    <3>1. \A k \in DOMAIN b : Announces(Set!Advance(a).todo, k)
      BY <2>2, SetSteps, SetOps DEF Announces
    <3>. QED
      BY <1>9, <2>1, <3>1
  <2>6. \A k : SetPending(k) => SetPending(k)'
    BY <1>0, <1>9, <2>1
  <2>7. SetReads'
    BY <2>1, <2>4, <2>5, <2>6 DEF SetReads, SetAgree, SetSees
  <2>. QED
    BY <2>1, <2>3, <2>4, <2>7 DEF SetSnaps, SetKeyKept
<1>2. CASE Set!PutLocks(a)
  <2>1. op = "lock" /\ setTask' = Set!Passed(a, DOMAIN b)
        /\ UNCHANGED <<setValue, setCache, setSnap, setInbox, setPhase, setMine, setAudit,
                       setStale, setStops, setSplit>>
    BY <1>2 DEF Set!PutLocks, Set!At, Set!workerVars
  <2>2. DOMAIN b \in SUBSET SettingKeys
    BY <2>1, SetAdvance, SetValues
  <2>3. setTask' \in [Officers -> SetTask] /\ \A k : SetPending(k) => SetPending(k)'
    BY <1>0, <2>1, <2>2, SetPassed, SetPendingKept
  <2>4. SetReads'
    BY <2>1, <2>3 DEF SetReads, SetAgree, SetSees
  <2>. QED
    BY <2>1, <2>3, <2>4 DEF SetSnaps, SetKeyKept
<1>3. CASE Set!PutRow(a)
  <2>. DEFINE K == IF setLock' = setLock THEN {} ELSE {b.key}
              changed == IF b.value = None THEN {} ELSE {b.key}
  <2>1. op = "row" /\ setTask' = Set!Passed(a, K) /\ setStale' = Set!Unheard(changed)
        /\ setValue' = (IF changed = {} THEN setValue
                        ELSE [setValue EXCEPT ![b.key] = b.value])
        /\ UNCHANGED <<setCache, setSnap, setInbox, setPhase, setMine, setAudit, setStops,
                       setSplit>>
    BY <1>3 DEF Set!PutRow, Set!At, Set!workerVars
  <2>2. b.key \in SettingKeys /\ b.value \in Set!Values
    BY <2>1, SetAdvance, SetValues
  <2>3. K \in SUBSET SettingKeys
    BY <2>2
  <2>4. setTask' \in [Officers -> SetTask] /\ \A k : SetPending(k) => SetPending(k)'
    <3>. HIDE DEF K
    <3>. QED
      BY <1>0, <2>1, <2>3, SetPassed, SetPendingKept
  <2>5. /\ setValue' \in SetTable
        /\ \A k \in SettingKeys \ changed : setValue'[k] = setValue[k]
        /\ setStale' \in [Workers -> SUBSET SettingKeys]
        /\ \A w \in Workers : setStale'[w] = setStale[w] \cup changed
    BY <2>1, <2>2 DEF Set!Unheard, SetTable
  <2>6. SetReads'
    BY <2>1, <2>4, <2>5 DEF SetReads, SetAgree, SetSees
  <2>. QED
    BY <2>1, <2>4, <2>5, <2>6 DEF SetSnaps, SetKeyKept
<1>4. CASE Set!PutImport(a)
  <2>. DEFINE K == IF setLock' = setLock THEN {} ELSE {b.key}
  <2>1. op = "import" /\ setTask' = Set!Passed(a, K) /\ setStale' = Set!Unheard({b.key})
        /\ setValue' = [setValue EXCEPT ![b.key] = b.value]
        /\ UNCHANGED <<setCache, setSnap, setInbox, setPhase, setMine, setAudit, setStops,
                       setSplit>>
    BY <1>4 DEF Set!PutImport, Set!At, Set!workerVars
  <2>2. b.key \in SettingKeys /\ b.value \in Set!Values
    BY <2>1, SetAdvance, SetValues
  <2>3. K \in SUBSET SettingKeys
    BY <2>2
  <2>4. setTask' \in [Officers -> SetTask] /\ \A k : SetPending(k) => SetPending(k)'
    <3>. HIDE DEF K
    <3>. QED
      BY <1>0, <2>1, <2>3, SetPassed, SetPendingKept
  <2>5. /\ setValue' \in SetTable
        /\ \A k \in SettingKeys \ {b.key} : setValue'[k] = setValue[k]
        /\ setStale' \in [Workers -> SUBSET SettingKeys]
        /\ \A w \in Workers : setStale'[w] = setStale[w] \cup {b.key}
    BY <2>1, <2>2 DEF Set!Unheard, SetTable
  <2>6. SetReads'
    BY <2>1, <2>4, <2>5 DEF SetReads, SetAgree, SetSees
  <2>. QED
    BY <2>1, <2>4, <2>5, <2>6 DEF SetSnaps, SetKeyKept
<1>5. CASE Set!Cache(a)
  <2>. DEFINE w == setTask[a].at
  <2>1. op = "cache" /\ setTask' = Set!Passed(a, {})
        /\ setCache' = [setCache EXCEPT ![w] = Set!Over(b, setCache[w])]
        /\ UNCHANGED <<setValue, setSnap, setInbox, setPhase, setMine, setAudit, setStale,
                       setStops, setSplit>>
    BY <1>5 DEF Set!Cache, Set!At, Set!tableVars
  <2>2. b \in SettingUpdates /\ Set!Advance(a).todo = <<Set!Do("publish", b)>>
    BY <2>1, SetAdvance
  <2>3. setTask' \in [Officers -> SetTask]
    BY <2>1, SetPassed
  <2>4. \A v \in Workers :
          /\ setCache'[v] \in SetTable
          /\ \A k \in SettingKeys \ DOMAIN b : setCache'[v][k] = setCache[v][k]
    BY <2>1, <2>2, SetOver
  <2>5. \A k \in DOMAIN b : SetPending(k)'
    <3>1. \A k \in DOMAIN b : Announces(Set!Advance(a).todo, k)
      BY <2>2, SetSteps, SetOps DEF Announces
    <3>. QED
      BY <1>9, <2>1, <3>1
  <2>6. \A k : SetPending(k) => SetPending(k)'
    BY <1>0, <1>9, <2>1, <2>5
  <2>7. SetReads'
    BY <2>1, <2>4, <2>5, <2>6 DEF SetReads, SetAgree, SetSees
  <2>8. setCache' \in [Workers -> SetTable]
    BY <2>1, <2>4
  <2>. QED
    BY <2>1, <2>3, <2>7, <2>8 DEF SetSnaps, SetKeyKept
<1>6. CASE Set!Publish(a)
  <2>1. op = "publish" /\ setTask' = Set!Passed(a, {})
        /\ UNCHANGED <<setValue, setCache, setSnap, setPhase, setMine, setAudit, setSplit>>
    BY <1>6 DEF Set!Publish, Set!At, Set!tableVars
  <2>2. DOMAIN b \subseteq SettingKeys
    BY <2>1, SetAdvance, SetValues
  <2>3. setTask' \in [Officers -> SetTask]
    BY <2>1, SetPassed
  <2>4. \A k : SetPending(k) => SetPending(k)' \/ k \in DOMAIN b
    BY <1>0, <1>9, <2>1
  <2>5. /\ setStale' \in [Workers -> SUBSET SettingKeys] /\ setInbox' \in [Workers -> Nat]
        /\ setStops' \in Nat
        /\ \A w \in Workers : setStale[w] \subseteq setStale'[w] /\ setInbox'[w] >= setInbox[w]
        /\ \A w \in Workers : setPhase[w] \notin {"down", "seeded"} =>
             DOMAIN b \subseteq setStale'[w] \/ setInbox'[w] > 0
    <3>1. CASE /\ setInbox' = [w \in Workers |->
                                 IF w \in Set!Up THEN setInbox[w] + 1 ELSE setInbox[w]]
               /\ setStale' = [w \in Workers |->
                                 IF setPhase[w] \in {"loading", "loaded"}
                                 THEN setStale[w] \cup DOMAIN b ELSE setStale[w]]
               /\ UNCHANGED setStops
      BY <2>2, <3>1 DEF Set!Up
    <3>2. CASE /\ setStops' = setStops + 1 /\ UNCHANGED setInbox
               /\ setStale' = Set!Unheard(DOMAIN b)
      BY <2>2, <3>2 DEF Set!Unheard
    <3>. QED
      BY <1>6, <3>1, <3>2 DEF Set!Publish
  <2>6. SetReads'
    BY <2>1, <2>4, <2>5 DEF SetReads, SetAgree, SetSees
  <2>. QED
    BY <2>1, <2>3, <2>5, <2>6 DEF SetSnaps, SetKeyKept
<1>. QED
  BY <1>1, <1>2, <1>3, <1>4, <1>5, <1>6

(* A request or a worker that stops leaves what nobody will announce.      *)
LEMMA SetCutShort ==
  ASSUME SetInv, (\E a \in Officers : Set!Fail(a)) \/ (\E w \in Workers : Set!Stop(w))
  PROVE  SetInv'
<1>. USE DEF SetInv, SetTypes
<1>0. Set!NoTask \in SetTask /\ Set!NoTask.todo = <<>>
  BY DEF Set!NoTask, SetTask
<1>1. ASSUME NEW c \in Officers, Set!At(c, "cache") \/ Set!At(c, "publish")
      PROVE  DOMAIN Set!Arg(c) \subseteq SettingKeys
  BY <1>1, SetAdvance, SetValues DEF Set!At
<1>2. \A c \in Officers : \A k :
        Announces(setTask[c].todo, k) <=>
          (Set!At(c, "cache") \/ Set!At(c, "publish")) /\ k \in DOMAIN Set!Arg(c)
  BY DEF Announces, Set!At, Set!Arg
<1>3. ASSUME NEW a \in Officers, Set!Fail(a) PROVE SetInv'
  <2>1. UNCHANGED <<setValue, setCache, setSnap, setInbox, setPhase, setMine, setAudit, setSplit>>
        /\ setTask' = [setTask EXCEPT ![a] = Set!NoTask] /\ setStops' = setStops + 1
        /\ setStale' = IF Set!At(a, "cache") \/ Set!At(a, "publish")
                       THEN Set!Unheard(DOMAIN Set!Arg(a)) ELSE setStale
    BY <1>3 DEF Set!Fail, Set!tableVars, Set!workerVars
  <2>2. /\ setStale' \in [Workers -> SUBSET SettingKeys]
        /\ \A w \in Workers : setStale[w] \subseteq setStale'[w]
        /\ \A w \in Workers : \A k : Announces(setTask[a].todo, k) => k \in setStale'[w]
    BY <1>1, <1>2, <2>1 DEF Set!Unheard
  <2>3. \A k : SetPending(k) => SetPending(k)' \/ Announces(setTask[a].todo, k)
    BY <2>1 DEF SetPending
  <2>4. SetReads'
    BY <2>1, <2>2, <2>3 DEF SetReads, SetAgree, SetSees
  <2>. QED
    BY <1>0, <2>1, <2>2, <2>4 DEF SetSnaps, SetKeyKept
<1>4. ASSUME NEW w \in Workers, Set!Stop(w) PROVE SetInv'
  <2>. DEFINE cut == {a \in Officers : setTask[a].at = w}
              telling == {a \in cut : Set!At(a, "cache") \/ Set!At(a, "publish")}
              untold == UNION {DOMAIN Set!Arg(a) : a \in telling}
  <2>1. /\ UNCHANGED <<setValue, setAudit, setSplit>>
        /\ setPhase' = [setPhase EXCEPT ![w] = "down"]
        /\ setCache' = [setCache EXCEPT ![w] = Set!Empty]
        /\ setSnap' = [setSnap EXCEPT ![w] = None]
        /\ setInbox' = [setInbox EXCEPT ![w] = 0] /\ setMine' = [setMine EXCEPT ![w] = None]
        /\ setTask' = [a \in Officers |-> IF a \in cut THEN Set!NoTask ELSE setTask[a]]
        /\ setStale' = [Set!Unheard(untold) EXCEPT ![w] = {}]
        /\ setStops' = setStops + 1
    BY <1>4 DEF Set!Stop, Set!tableVars
  <2>2. untold \subseteq SettingKeys
    BY <1>1
  <2>3. /\ setStale' \in [Workers -> SUBSET SettingKeys]
        /\ \A v \in Workers \ {w} : setStale'[v] = setStale[v] \cup untold
    <3>. HIDE DEF untold
    <3>. QED
      BY <2>1, <2>2 DEF Set!Unheard
  <2>4. \A k : SetPending(k) => SetPending(k)' \/ k \in untold
    BY <1>2, <2>1 DEF SetPending
  <2>5. SetReads'
    <3>. HIDE DEF untold
    <3>. SUFFICES ASSUME NEW v \in Workers, NEW k \in SettingKeys,
                         setPhase'[v] \notin {"down", "seeded"}
                  PROVE  SetAgree(v, k)'
      BY DEF SetReads
    <3>1. v # w /\ SetAgree(v, k)
      BY <2>1 DEF SetReads
    <3>2. setPhase'[v] = setPhase[v] /\ setCache'[v] = setCache[v] /\ setSnap'[v] = setSnap[v]
          /\ setInbox'[v] = setInbox[v]
      BY <2>1, <3>1
    <3>. QED
      BY <2>1, <2>3, <2>4, <3>1, <3>2 DEF SetAgree, SetSees
  <2>6. Set!Empty \in SetTable
    BY SetValues DEF Set!Empty, SetTable
  <2>7. SetTypes'
    <3>. HIDE DEF untold, cut
    <3>. QED
      BY <1>0, <2>1, <2>3, <2>6
  <2>8. SetSnaps'
    BY <2>1 DEF SetSnaps
  <2>9. SetKeyKept'
    BY <2>1 DEF SetKeyKept
  <2>. QED
    BY <2>5, <2>7, <2>8, <2>9
<1>. QED
  BY <1>3, <1>4

LEMMA SetStep == SetInv /\ [Set!Next]_(Set!vars) => SetInv'
<1>. SUFFICES ASSUME SetInv, [Set!Next]_(Set!vars) PROVE SetInv'
  OBVIOUS
<1>1. ASSUME NEW w \in Workers,
             \/ Set!Seed(w) \/ Set!LoadRead(w) \/ Set!Load(w) \/ Set!LoadFails(w)
             \/ Set!Subscribe(w) \/ Set!EnsureRead(w) \/ Set!EnsureStore(w)
      PROVE  SetInv'
  BY <1>1, SetWorkerTypes, SetWorkerReads, SetWorkerKey DEF SetInv
<1>2. ASSUME NEW a \in Set!Free, NEW w \in Workers,
             \/ \E b \in SettingUpdates : Set!UpdateSettings(a, w, b)
             \/ \E b \in SettingLocks : Set!UpdateLocks(a, w, b)
             \/ \E b \in EscrowUpdates : Set!UpdateEscrow(a, w, b)
             \/ \E b \in SettingImports : Set!Import(a, w, b)
      PROVE  SetInv'
  BY <1>2, SetBegins
<1>3. ASSUME NEW a \in Officers,
             \/ Set!Put(a) \/ Set!PutLocks(a) \/ Set!PutRow(a) \/ Set!PutImport(a)
             \/ Set!Cache(a) \/ Set!Publish(a)
      PROVE  SetInv'
  <2>1. setTask[a].todo # <<>>
    BY <1>3 DEF Set!Put, Set!PutLocks, Set!PutRow, Set!PutImport, Set!Cache, Set!Publish, Set!At
  <2>. QED
    BY <1>3, <2>1, SetStatement
<1>4. CASE UNCHANGED Set!vars
  BY <1>4 DEF Set!vars, SetInv, SetTypes, SetSnaps, SetReads, SetKeyKept, SetAgree, SetSees,
              SetPending
<1>. QED
  BY <1>1, <1>2, <1>3, <1>4, SetCutShort DEF Set!Next

(* live_settings.py and audit_key.py: once what administrators do has      *)
(* reached it, a running worker reads every setting as the table has it,   *)
(* but for what it was never told of, however requests, reloads, starts,   *)
(* stops and lost messages of any number of workers interleave; and its    *)
(* audit key is the stored one, unless two first starts overlapped.        *)
THEOREM WorkersReadTheTable == Set!Spec => []WorkersAgree
<1>1. SetInv => WorkersAgree
  <2>. SUFFICES ASSUME SetInv, \A a \in Officers : setTask[a] = Set!NoTask,
                       NEW w \in Set!Up
                PROVE  /\ setInbox[w] = 0 /\ setSnap[w] = None =>
                            \A k \in SettingKeys \ setStale[w] :
                              Set!Reads(setCache[w][k], k) = Set!Reads(setValue[k], k)
                       /\ setPhase[w] = "ready" /\ ~setSplit => setMine[w] = setAudit
    BY DEF WorkersAgree, Set!WorkersAgree
  <2>1. \A k : ~SetPending(k)
    BY DEF SetPending, Announces, Set!NoTask
  <2>2. w \in Workers /\ setPhase[w] \notin {"down", "seeded"}
    BY DEF Set!Up
  <2>. QED
    BY <2>1, <2>2 DEF SetInv, SetReads, SetAgree, SetSees, SetKeyKept
<1>. QED
  BY <1>1, SetInit, SetStep, PTL DEF Set!Spec

-----------------------------------------------------------------------------
(* IdpLogin: accounts and flows                                            *)

IdpPcs == {"idle", "consume", "exchange", "bind", "find", "create", "retry", "issue"}
IdpTask ==
  [pc : IdpPcs, state : Flows \cup {None}, code : Flows \cup {None},
   sub : Subjects \cup {None}, user : Nat]
IdpAccount ==
  [name : {NameOf[s] : s \in Subjects} \cup {Idp!Fresh}, linked : BOOLEAN, of : Subjects]

IdpTypes ==
  /\ idpKind \in {"oidc", "ldap"} /\ idpProvider \in {"active", "inactive", "gone"}
  /\ idpCode \in [Flows -> Subjects \cup {None}]
  /\ idpStates \subseteq idpBegun /\ idpBegun \subseteq Flows
  /\ idpUsers \in Seq(IdpAccount) /\ idpLink \in [Subjects -> Nat]
  /\ idpTask \in [Requests -> IdpTask]

(* The mapping leads to the account of its external_id, and while the      *)
(* provider is there every account is mapped: so the account that a login  *)
(* found or made stays the only one, whatever removes the provider.        *)
IdpMapped ==
  /\ \A s \in Subjects :
       idpLink[s] = 0 \/ (idpLink[s] \in DOMAIN idpUsers /\ idpUsers[idpLink[s]].of = s)
  /\ \A u \in DOMAIN idpUsers : idpProvider # "gone" => idpLink[idpUsers[u].of] = u
  /\ \A u, v \in DOMAIN idpUsers : idpUsers[u].of = idpUsers[v].of => u = v
  /\ \A g \in idpGiven : g.user \in DOMAIN idpUsers /\ idpUsers[g.user].of = g.sub

IdpKnown == {"find", "create", "retry", "issue"}
IdpTasks ==
  \A r \in Requests :
    LET t == idpTask[r] IN
    /\ t.pc \in {"consume", "exchange"} =>
         t.state \in idpBegun /\ t.code \in Flows /\ idpCode[t.code] # None
    /\ t.pc \in IdpKnown \cup {"bind"} => t.sub \in Subjects
    /\ t.pc = "issue" => t.user \in DOMAIN idpUsers /\ idpUsers[t.user].of = t.sub
    /\ idpKind = "oidc" =>
         /\ t.pc # "bind"
         /\ t.pc \in IdpKnown =>
              t.state \in Flows /\ t.code = t.state /\ t.sub = idpCode[t.state]

(* The state row of a flow goes to one request, and what it issued is all  *)
(* that the flow ever yields.                                              *)
IdpOwns(r) == idpTask[r].pc \in IdpKnown \cup {"exchange"}
IdpOnce ==
  idpKind = "oidc" =>
    /\ \A r \in Requests : IdpOwns(r) =>
         /\ idpTask[r].state \in idpBegun \ idpStates
         /\ \A q \in Requests : IdpOwns(q) /\ idpTask[q].state = idpTask[r].state => q = r
         /\ \A g \in idpGiven : g.state # idpTask[r].state
    /\ \A g \in idpGiven :
         /\ g.state \in idpBegun \ idpStates /\ idpCode[g.state] # None
         /\ g.nth = 0 /\ g.code = g.state /\ g.sub = idpCode[g.state]

IdpInv == IdpTypes /\ IdpMapped /\ IdpTasks /\ IdpOnce

-----------------------------------------------------------------------------
LEMMA IdpNone == None \notin Subjects
BY IdpAssumption DEF Idp!ConstantsOK

LEMMA IdpUsersAre ==
  ASSUME IdpTypes
  PROVE  /\ Len(idpUsers) \in Nat /\ DOMAIN idpUsers = 1..Len(idpUsers)
         /\ \A u \in DOMAIN idpUsers : idpUsers[u] \in IdpAccount
BY DEF IdpTypes

LEMMA IdpCardinality == \A S : Idp!Cardinality(S) = Cardinality(S)
BY DEF Idp!Cardinality, Cardinality

LEMMA IdpInit == Idp!Init => IdpInv
<1>. SUFFICES ASSUME Idp!Init PROVE IdpInv
  OBVIOUS
<1>1. Idp!Idle \in IdpTask /\ Idp!Idle.pc = "idle"
  BY DEF Idp!Idle, IdpTask, IdpPcs
<1>2. idpUsers \in Seq(IdpAccount) /\ DOMAIN idpUsers = {}
  BY DEF Idp!Init
<1>. QED
  BY <1>1, <1>2
  DEF Idp!Init, IdpInv, IdpTypes, IdpMapped, IdpTasks, IdpOnce, IdpOwns, IdpKnown

(* A request goes on, or ends.                                             *)
LEMMA IdpMoved ==
  ASSUME IdpTypes, NEW r \in Requests, NEW n \in IdpTask,
         idpTask' = [idpTask EXCEPT ![r] = n]
  PROVE  /\ idpTask' \in [Requests -> IdpTask]
         /\ idpTask'[r] = n /\ \A q \in Requests \ {r} : idpTask'[q] = idpTask[q]
BY DEF IdpTypes

LEMMA IdpEnds ==
  ASSUME IdpTypes, NEW r \in Requests, Idp!Ends(r)
  PROVE  /\ idpTask' \in [Requests -> IdpTask]
         /\ idpTask'[r].pc = "idle" /\ \A q \in Requests \ {r} : idpTask'[q] = idpTask[q]
<1>1. Idp!Idle \in IdpTask /\ Idp!Idle.pc = "idle"
  BY DEF Idp!Idle, IdpTask, IdpPcs
<1>. QED
  BY <1>1, IdpMoved DEF Idp!Ends

LEMMA IdpGoes ==
  ASSUME IdpTypes, NEW r \in Requests, NEW pc \in IdpPcs, Idp!Goes(r, pc)
  PROVE  /\ idpTask' \in [Requests -> IdpTask]
         /\ idpTask'[r].pc = pc /\ idpTask'[r].state = idpTask[r].state
         /\ idpTask'[r].code = idpTask[r].code /\ idpTask'[r].sub = idpTask[r].sub
         /\ idpTask'[r].user = idpTask[r].user
         /\ \A q \in Requests \ {r} : idpTask'[q] = idpTask[q]
BY DEF Idp!Goes, IdpTypes, IdpTask

-----------------------------------------------------------------------------
(* The flows: states, codes and what the provider says of them.            *)
LEMMA IdpFlowStep ==
  ASSUME IdpInv, NEW f \in Flows,
         \/ Idp!OidcBegin(f) \/ Idp!SweepStates(f) \/ Idp!TakeChallenge(f)
         \/ \E s \in Subjects : Idp!Authenticate(f, s)
  PROVE  IdpInv'
<1>. USE DEF IdpInv, Idp!idp, Idp!mfa
<1>1. UNCHANGED <<idpKind, idpProvider, idpUsers, idpLink, idpTask, idpGiven>>
  BY DEF Idp!OidcBegin, Idp!SweepStates, Idp!TakeChallenge, Idp!Authenticate
<1>2. IdpMapped'
  BY <1>1 DEF IdpMapped
<1>3. CASE Idp!OidcBegin(f)
  <2>1. idpBegun' = idpBegun \cup {f} /\ idpStates' = idpStates \cup {f} /\ f \notin idpBegun
        /\ idpCode' = idpCode
    BY <1>3 DEF Idp!OidcBegin
  <2>2. IdpTypes'
    BY <1>1, <2>1 DEF IdpTypes
  <2>3. IdpTasks'
    BY <1>1, <2>1 DEF IdpTasks
  <2>4. IdpOnce'
    BY <1>1, <2>1 DEF IdpOnce, IdpOwns
  <2>. QED
    BY <1>2, <2>2, <2>3, <2>4
<1>4. CASE Idp!SweepStates(f) \/ Idp!TakeChallenge(f)
  <2>1. idpStates' \subseteq idpStates /\ idpBegun' = idpBegun /\ idpCode' = idpCode
    BY <1>4 DEF Idp!SweepStates, Idp!TakeChallenge, Idp!flow
  <2>2. IdpTypes'
    BY <1>1, <2>1 DEF IdpTypes
  <2>3. IdpTasks'
    BY <1>1, <2>1 DEF IdpTasks
  <2>4. IdpOnce'
    BY <1>1, <2>1 DEF IdpOnce, IdpOwns
  <2>. QED
    BY <1>2, <2>2, <2>3, <2>4
<1>5. ASSUME NEW s \in Subjects, Idp!Authenticate(f, s) PROVE IdpInv'
  <2>1. idpStates' = idpStates /\ idpBegun' = idpBegun /\ idpCode[f] = None
        /\ idpCode' = [idpCode EXCEPT ![f] = s]
    BY <1>5 DEF Idp!Authenticate
  <2>2. /\ idpCode' \in [Flows -> Subjects \cup {None}]
        /\ \A g \in Flows : idpCode[g] # None => idpCode'[g] = idpCode[g]
        /\ \A g \in Flows : idpCode[g] # None => idpCode'[g] # None
    BY <2>1, IdpNone DEF IdpTypes
  <2>3. IdpTypes'
    BY <1>1, <2>1, <2>2 DEF IdpTypes
  <2>4. IdpTasks'
    BY <1>1, <2>1, <2>2, IdpNone DEF IdpTasks, IdpTypes, IdpKnown
  <2>5. IdpOnce'
    BY <1>1, <2>1, <2>2 DEF IdpOnce, IdpOwns, IdpTypes
  <2>. QED
    BY <1>2, <2>3, <2>4, <2>5
<1>. QED
  BY <1>3, <1>4, <1>5

(* The requests, up to the account.                                        *)
LEMMA IdpCallback ==
  ASSUME IdpInv, NEW r \in Requests, NEW f \in Flows, NEW g \in Flows, Idp!OidcCallback(r, f, g)
  PROVE  IdpInv'
<1>. USE DEF IdpInv
<1>. DEFINE n == [Idp!Idle EXCEPT !.pc = "consume", !.state = f, !.code = g]
<1>1. /\ UNCHANGED <<idpKind, idpProvider, idpUsers, idpLink, idpGiven, idpStates,
                     idpBegun, idpCode>>
      /\ f \in idpStates /\ idpCode[g] # None /\ idpTask' = [idpTask EXCEPT ![r] = n]
  BY DEF Idp!OidcCallback, Idp!idp, Idp!flow
<1>2. n \in IdpTask /\ n.pc = "consume" /\ n.state = f /\ n.code = g
  BY DEF IdpTask, Idp!Idle, IdpPcs
<1>. HIDE DEF n
<1>3. /\ idpTask' \in [Requests -> IdpTask]
      /\ idpTask'[r] = n /\ \A q \in Requests \ {r} : idpTask'[q] = idpTask[q]
  BY <1>1, <1>2, IdpMoved
<1>4. IdpTypes' /\ IdpMapped'
  BY <1>1, <1>3 DEF IdpTypes, IdpMapped
<1>5. IdpTasks'
  BY <1>1, <1>2, <1>3 DEF IdpTasks, IdpTypes, IdpKnown
<1>6. IdpOnce'
  BY <1>1, <1>2, <1>3 DEF IdpOnce, IdpOwns, IdpKnown
<1>. QED
  BY <1>4, <1>5, <1>6

LEMMA IdpConsume ==
  ASSUME IdpInv, NEW r \in Requests, Idp!Consume(r)
  PROVE  IdpInv'
<1>. USE DEF IdpInv
<1>1. /\ UNCHANGED <<idpKind, idpProvider, idpUsers, idpLink, idpGiven, idpBegun, idpCode>>
      /\ idpTask[r].pc = "consume" /\ idpStates' = idpStates \ {idpTask[r].state}
  BY DEF Idp!Consume, Idp!idp, Idp!At
<1>2. CASE idpTask[r].state \in idpStates /\ Idp!Goes(r, "exchange")
  <2>1. /\ idpTask' \in [Requests -> IdpTask]
        /\ idpTask'[r].pc = "exchange" /\ idpTask'[r].state = idpTask[r].state
        /\ idpTask'[r].code = idpTask[r].code
        /\ \A q \in Requests \ {r} : idpTask'[q] = idpTask[q]
    BY <1>2, IdpGoes DEF IdpPcs
  <2>2. IdpTypes' /\ IdpMapped'
    BY <1>1, <2>1 DEF IdpTypes, IdpMapped
  <2>3. IdpTasks'
    BY <1>1, <2>1 DEF IdpTasks, IdpKnown
  <2>4. IdpOnce'
    <3>1. idpTask[r].state \in idpBegun
      BY <1>2 DEF IdpTypes
    <3>2. idpKind = "oidc" => \A q \in Requests \ {r} :
            IdpOwns(q) => idpTask[q].state # idpTask[r].state
      BY <1>2 DEF IdpOnce
    <3>3. idpKind = "oidc" => \A g \in idpGiven : g.state # idpTask[r].state
      BY <1>2 DEF IdpOnce
    <3>. QED
      BY <1>1, <2>1, <3>1, <3>2, <3>3 DEF IdpOnce, IdpOwns
  <2>. QED
    BY <2>2, <2>3, <2>4
<1>3. CASE Idp!Ends(r)
  <2>1. /\ idpTask' \in [Requests -> IdpTask]
        /\ idpTask'[r].pc = "idle" /\ \A q \in Requests \ {r} : idpTask'[q] = idpTask[q]
    BY <1>3, IdpEnds
  <2>2. IdpTypes' /\ IdpMapped'
    BY <1>1, <2>1 DEF IdpTypes, IdpMapped
  <2>3. IdpTasks'
    BY <1>1, <2>1 DEF IdpTasks, IdpKnown
  <2>4. IdpOnce'
    BY <1>1, <2>1 DEF IdpOnce, IdpOwns, IdpKnown
  <2>. QED
    BY <2>2, <2>3, <2>4
<1>. QED
  BY <1>2, <1>3 DEF Idp!Consume

(* A request ends, or takes a step that only its own record tells.         *)
LEMMA IdpEnded ==
  ASSUME IdpInv, NEW r \in Requests, Idp!Ends(r),
         UNCHANGED <<idpKind, idpProvider, idpUsers, idpLink, idpGiven, idpStates,
                     idpBegun, idpCode>>
  PROVE  IdpInv'
<1>. USE DEF IdpInv
<1>1. /\ idpTask' \in [Requests -> IdpTask]
      /\ idpTask'[r].pc = "idle" /\ \A q \in Requests \ {r} : idpTask'[q] = idpTask[q]
  BY IdpEnds
<1>2. IdpTypes' /\ IdpMapped'
  BY <1>1 DEF IdpTypes, IdpMapped
<1>3. IdpTasks'
  BY <1>1 DEF IdpTasks, IdpKnown
<1>4. IdpOnce'
  BY <1>1 DEF IdpOnce, IdpOwns, IdpKnown
<1>. QED
  BY <1>2, <1>3, <1>4

LEMMA IdpGone ==
  ASSUME IdpInv, NEW r \in Requests, NEW pc \in IdpKnown, Idp!Goes(r, pc),
         idpTask[r].pc \in IdpKnown \ {"issue"} \/ (idpTask[r].pc = "bind" /\ idpKind # "oidc"),
         pc # "issue",
         UNCHANGED <<idpKind, idpProvider, idpUsers, idpLink, idpGiven, idpStates,
                     idpBegun, idpCode>>
  PROVE  IdpInv'
<1>. USE DEF IdpInv
<1>1. /\ idpTask' \in [Requests -> IdpTask]
      /\ idpTask'[r].pc = pc /\ idpTask'[r].state = idpTask[r].state
      /\ idpTask'[r].code = idpTask[r].code /\ idpTask'[r].sub = idpTask[r].sub
      /\ \A q \in Requests \ {r} : idpTask'[q] = idpTask[q]
  BY IdpGoes DEF IdpPcs, IdpKnown
<1>2. IdpTypes' /\ IdpMapped'
  BY <1>1 DEF IdpTypes, IdpMapped
<1>3. IdpTasks'
  BY <1>1 DEF IdpTasks, IdpKnown
<1>4. IdpOnce'
  BY <1>1 DEF IdpOnce, IdpOwns, IdpKnown
<1>. QED
  BY <1>2, <1>3, <1>4

LEMMA IdpExchange ==
  ASSUME IdpInv, NEW r \in Requests, Idp!Exchange(r)
  PROVE  IdpInv'
<1>. USE DEF IdpInv
<1>. DEFINE t == idpTask[r]
<1>1. UNCHANGED <<idpKind, idpProvider, idpUsers, idpLink, idpGiven, idpStates, idpBegun, idpCode>>
  BY DEF Idp!Exchange, Idp!idp
<1>2. CASE Idp!Ends(r)
  BY <1>1, <1>2, IdpEnded
<1>3. CASE /\ t.code = t.state
           /\ idpTask' = [idpTask EXCEPT ![r].pc = "find", ![r].sub = idpCode[t.code]]
  <2>1. t.pc = "exchange" /\ t.code \in Flows /\ idpCode[t.code] \in Subjects
    BY DEF Idp!Exchange, Idp!At, IdpTasks, IdpTypes
  <2>2. /\ idpTask' \in [Requests -> IdpTask]
        /\ idpTask'[r].pc = "find" /\ idpTask'[r].state = t.state
        /\ idpTask'[r].code = t.code /\ idpTask'[r].sub = idpCode[t.code]
        /\ \A q \in Requests \ {r} : idpTask'[q] = idpTask[q]
    BY <1>3, <2>1 DEF IdpTypes, IdpTask, IdpPcs
  <2>3. IdpTypes' /\ IdpMapped'
    BY <1>1, <2>2 DEF IdpTypes, IdpMapped
  <2>4. IdpTasks'
    BY <1>1, <1>3, <2>1, <2>2 DEF IdpTasks, IdpKnown
  <2>5. IdpOnce'
    BY <1>1, <2>1, <2>2 DEF IdpOnce, IdpOwns, IdpKnown
  <2>. QED
    BY <2>3, <2>4, <2>5
<1>. QED
  BY <1>2, <1>3 DEF Idp!Exchange, Idp!Bound

LEMMA IdpLdapLogin ==
  ASSUME IdpInv, NEW r \in Requests, NEW s \in Subjects, Idp!LdapLogin(r, s)
  PROVE  IdpInv'
<1>. USE DEF IdpInv
<1>. DEFINE n == [Idp!Idle EXCEPT !.pc = "bind", !.sub = s]
<1>1. /\ UNCHANGED <<idpKind, idpProvider, idpUsers, idpLink, idpGiven, idpStates,
                     idpBegun, idpCode>>
      /\ idpKind = "ldap" /\ idpTask' = [idpTask EXCEPT ![r] = n]
  BY DEF Idp!LdapLogin, Idp!idp, Idp!flow
<1>2. n \in IdpTask /\ n.pc = "bind" /\ n.sub = s
  BY DEF IdpTask, Idp!Idle, IdpPcs
<1>. HIDE DEF n
<1>3. /\ idpTask' \in [Requests -> IdpTask]
      /\ idpTask'[r] = n /\ \A q \in Requests \ {r} : idpTask'[q] = idpTask[q]
  BY <1>1, <1>2, IdpMoved
<1>4. IdpTypes' /\ IdpMapped'
  BY <1>1, <1>3 DEF IdpTypes, IdpMapped
<1>5. IdpTasks'
  BY <1>1, <1>2, <1>3 DEF IdpTasks, IdpKnown
<1>6. IdpOnce'
  BY <1>1 DEF IdpOnce
<1>. QED
  BY <1>4, <1>5, <1>6

LEMMA IdpLdapAuthenticate ==
  ASSUME IdpInv, NEW r \in Requests, Idp!LdapAuthenticate(r)
  PROVE  IdpInv'
<1>1. UNCHANGED <<idpKind, idpProvider, idpUsers, idpLink, idpGiven, idpStates, idpBegun, idpCode>>
      /\ idpTask[r].pc = "bind"
  BY DEF Idp!LdapAuthenticate, Idp!idp, Idp!flow, Idp!At
<1>2. idpKind # "oidc"
  BY <1>1 DEF IdpInv, IdpTasks
<1>. QED
  BY <1>1, <1>2, IdpEnded, IdpGone DEF Idp!LdapAuthenticate, IdpKnown

-----------------------------------------------------------------------------
(* The account.                                                            *)
LEMMA IdpFindUser ==
  ASSUME IdpInv, NEW r \in Requests, Idp!FindUser(r)
  PROVE  IdpInv'
<1>. USE DEF IdpInv
<1>. DEFINE t == idpTask[r]
            u == idpLink[t.sub]
            pc == IF u = 0 THEN "create" ELSE "issue"
<1>1. /\ UNCHANGED <<idpKind, idpProvider, idpUsers, idpLink, idpGiven, idpStates,
                     idpBegun, idpCode>>
      /\ t.pc = "find" /\ idpTask' = [idpTask EXCEPT ![r].pc = pc, ![r].user = u]
  BY DEF Idp!FindUser, Idp!idp, Idp!flow, Idp!At
<1>2. t.sub \in Subjects /\ u \in Nat /\ pc \in IdpPcs
  BY <1>1 DEF IdpTasks, IdpTypes, IdpPcs, IdpKnown
<1>3. u = 0 \/ (u \in DOMAIN idpUsers /\ idpUsers[u].of = t.sub)
  BY <1>2 DEF IdpMapped
<1>4. /\ idpTask' \in [Requests -> IdpTask]
      /\ idpTask'[r].pc = pc /\ idpTask'[r].state = t.state
      /\ idpTask'[r].code = t.code /\ idpTask'[r].sub = t.sub /\ idpTask'[r].user = u
      /\ \A q \in Requests \ {r} : idpTask'[q] = idpTask[q]
  <2>. HIDE DEF u, pc
  <2>. QED
    BY <1>1, <1>2 DEF IdpTypes, IdpTask
<1>5. IdpTypes' /\ IdpMapped'
  BY <1>1, <1>4 DEF IdpTypes, IdpMapped
<1>6. IdpTasks'
  BY <1>1, <1>3, <1>4 DEF IdpTasks, IdpKnown
<1>7. IdpOnce'
  BY <1>1, <1>4 DEF IdpOnce, IdpOwns, IdpKnown
<1>. QED
  BY <1>5, <1>6, <1>7

(* A new account, of an external_id that has none, at the end of the list. *)
LEMMA IdpInsert ==
  ASSUME IdpInv, NEW r \in Requests, idpTask[r].pc \in {"create", "retry"},
         idpProvider # "gone", idpLink[idpTask[r].sub] = 0,
         NEW name \in {NameOf[s] : s \in Subjects} \cup {Idp!Fresh},
         Idp!Insert(r, name),
         UNCHANGED <<idpKind, idpProvider, idpGiven, idpStates, idpBegun, idpCode>>
  PROVE  IdpInv'
<1>. USE DEF IdpInv
<1>. DEFINE t == idpTask[r]
            s == t.sub
            a == [name |-> name, linked |-> TRUE, of |-> s]
            n == Len(idpUsers) + 1
<1>1. t.pc \in IdpKnown /\ s \in Subjects
  BY DEF IdpTasks, IdpKnown
<1>2. a \in IdpAccount /\ a.of = s
  BY <1>1 DEF IdpAccount
<1>3. n \in Nat /\ n # 0
  BY DEF IdpTypes
<1>4. /\ idpUsers' = Append(idpUsers, a) /\ idpLink' = [idpLink EXCEPT ![s] = Len(idpUsers')]
      /\ idpTask' = [idpTask EXCEPT ![r].pc = "issue", ![r].user = Len(idpUsers')]
  BY DEF Idp!Insert
<1>. HIDE DEF a
<1>5. /\ idpUsers' \in Seq(IdpAccount) /\ Len(idpUsers') = n
      /\ DOMAIN idpUsers' = DOMAIN idpUsers \cup {n} /\ n \notin DOMAIN idpUsers
      /\ idpUsers'[n] = a /\ \A u \in DOMAIN idpUsers : idpUsers'[u] = idpUsers[u]
  BY <1>2, <1>4 DEF IdpTypes
<1>6. idpLink' \in [Subjects -> Nat] /\ idpLink'[s] = n
      /\ \A x \in Subjects \ {s} : idpLink'[x] = idpLink[x]
  BY <1>1, <1>3, <1>4, <1>5 DEF IdpTypes
<1>7. /\ idpTask' \in [Requests -> IdpTask]
      /\ idpTask'[r].pc = "issue" /\ idpTask'[r].state = t.state
      /\ idpTask'[r].code = t.code /\ idpTask'[r].sub = s /\ idpTask'[r].user = n
      /\ \A q \in Requests \ {r} : idpTask'[q] = idpTask[q]
  <2>1. idpTask' = [idpTask EXCEPT ![r].pc = "issue", ![r].user = n]
    BY <1>4, <1>5
  <2>. HIDE DEF n
  <2>. QED
    BY <2>1, <1>3 DEF IdpTypes, IdpTask, IdpPcs
<1>. HIDE DEF n
<1>8. \A u \in DOMAIN idpUsers : idpUsers[u].of \in Subjects /\ idpUsers[u].of # s
  <2>1. \A u \in DOMAIN idpUsers : idpUsers[u].of \in Subjects
    BY IdpUsersAre DEF IdpAccount
  <2>2. \A u \in DOMAIN idpUsers : u # 0
    BY IdpUsersAre
  <2>. QED
    BY <2>1, <2>2 DEF IdpMapped
<1>9. IdpTypes'
  BY <1>5, <1>6, <1>7 DEF IdpTypes
<1>10. IdpMapped'
  <2>1. \A x \in Subjects :
          idpLink'[x] = 0 \/ (idpLink'[x] \in DOMAIN idpUsers' /\ idpUsers'[idpLink'[x]].of = x)
    BY <1>2, <1>5, <1>6 DEF IdpMapped
  <2>2. \A u \in DOMAIN idpUsers' : idpLink'[idpUsers'[u].of] = u
    BY <1>2, <1>5, <1>6, <1>8 DEF IdpMapped
  <2>3. \A u, v \in DOMAIN idpUsers' : idpUsers'[u].of = idpUsers'[v].of => u = v
    BY <2>2
  <2>4. \A g \in idpGiven' : g.user \in DOMAIN idpUsers' /\ idpUsers'[g.user].of = g.sub
    BY <1>5 DEF IdpMapped
  <2>. QED
    BY <2>1, <2>2, <2>3, <2>4 DEF IdpMapped
<1>11. IdpTasks'
  BY <1>1, <1>2, <1>5, <1>7 DEF IdpTasks, IdpKnown
<1>12. IdpOnce'
  BY <1>1, <1>7 DEF IdpOnce, IdpOwns, IdpKnown
<1>. QED
  BY <1>9, <1>10, <1>11, <1>12

LEMMA IdpCreateUser ==
  ASSUME IdpInv, NEW r \in Requests, Idp!CreateUser(r) \/ Idp!RetryUser(r)
  PROVE  IdpInv'
<1>1. /\ UNCHANGED <<idpKind, idpProvider, idpGiven, idpStates, idpBegun, idpCode>>
      /\ idpTask[r].pc \in {"create", "retry"}
  BY DEF Idp!CreateUser, Idp!RetryUser, Idp!idp, Idp!flow, Idp!At
<1>2. CASE Idp!Ends(r) /\ UNCHANGED <<idpUsers, idpLink>>
  BY <1>1, <1>2, IdpEnded
<1>3. CASE Idp!Goes(r, "retry") /\ UNCHANGED <<idpUsers, idpLink>>
  BY <1>1, <1>3, IdpGone DEF IdpKnown
<1>4. ASSUME idpProvider # "gone", Idp!Unmapped(idpTask[r].sub),
             Idp!Insert(r, NameOf[idpTask[r].sub]) \/ Idp!Insert(r, Idp!Fresh)
      PROVE  IdpInv'
  <2>1. idpTask[r].sub \in Subjects
    BY <1>1 DEF IdpInv, IdpTasks, IdpKnown
  <2>. QED
    BY <1>1, <1>4, <2>1, IdpInsert DEF Idp!Unmapped
<1>. QED
  BY <1>2, <1>3, <1>4 DEF Idp!CreateUser, Idp!RetryUser

(* What a login ends in.                                                   *)
LEMMA IdpIssue ==
  ASSUME IdpInv, NEW r \in Requests, Idp!Issue(r)
  PROVE  IdpInv'
<1>. USE DEF IdpInv
<1>. DEFINE t == idpTask[r]
<1>1. /\ UNCHANGED <<idpKind, idpProvider, idpUsers, idpLink, idpStates, idpBegun, idpCode>>
      /\ t.pc = "issue" /\ Idp!Ends(r)
  BY DEF Idp!Issue, Idp!idp, Idp!flow, Idp!At
<1>2. PICK what : idpGiven' = idpGiven \cup
        {[user |-> t.user, sub |-> t.sub, state |-> t.state, code |-> t.code,
          what |-> what, nth |-> Idp!Cardinality({g \in idpGiven : g.state = t.state})]}
  BY DEF Idp!Issue
<1>3. /\ idpTask' \in [Requests -> IdpTask]
      /\ idpTask'[r].pc = "idle" /\ \A q \in Requests \ {r} : idpTask'[q] = idpTask[q]
  BY <1>1, IdpEnds
<1>4. t.user \in DOMAIN idpUsers /\ idpUsers[t.user].of = t.sub
  BY <1>1 DEF IdpTasks
<1>5. IdpTypes'
  BY <1>1, <1>3 DEF IdpTypes
<1>6. IdpMapped'
  BY <1>1, <1>2, <1>4 DEF IdpMapped
<1>7. IdpTasks'
  BY <1>1, <1>3 DEF IdpTasks, IdpKnown
<1>8. IdpOnce'
  <2>. SUFFICES ASSUME idpKind = "oidc" PROVE IdpOnce'
    BY <1>1 DEF IdpOnce
  <2>1. IdpOwns(r) /\ t.state \in Flows /\ t.code = t.state /\ t.sub = idpCode[t.state]
        /\ t.sub \in Subjects
    BY <1>1 DEF IdpOwns, IdpTasks, IdpKnown
  <2>2. t.state \in idpBegun \ idpStates /\ \A g \in idpGiven : g.state # t.state
    BY <2>1 DEF IdpOnce
  <2>3. Idp!Cardinality({g \in idpGiven : g.state = t.state}) = 0
    <3>1. {g \in idpGiven : g.state = t.state} = {}
      BY <2>2
    <3>. QED
      BY <3>1, IdpCardinality, FS_EmptySet
  <2>4. \A q \in Requests : IdpOwns(q)' =>
          q # r /\ IdpOwns(q) /\ idpTask'[q] = idpTask[q] /\ idpTask[q].state # t.state
    BY <1>3, <2>1 DEF IdpOnce, IdpOwns, IdpKnown
  <2>5. \A g \in idpGiven' : g \in idpGiven \/ (/\ g.state = t.state /\ g.code = t.code
                                                /\ g.sub = t.sub /\ g.nth = 0)
    BY <1>2, <2>3
  <2>. QED
    BY <1>1, <2>1, <2>2, <2>4, <2>5, IdpNone DEF IdpOnce
<1>. QED
  BY <1>5, <1>6, <1>7, <1>8

-----------------------------------------------------------------------------
(* Administration.                                                         *)
LEMMA IdpAdministration ==
  ASSUME IdpInv,
         \/ \E u \in DOMAIN idpUsers : Idp!SetFactors(u)
         \/ \E s \in {"active", "inactive"} : Idp!SetActive(s)
         \/ Idp!Delink \/ Idp!DeleteProvider \/ Idp!Restart
  PROVE  IdpInv'
<1>. USE DEF IdpInv, Idp!idp, Idp!flow
<1>1. ASSUME NEW u \in DOMAIN idpUsers, Idp!SetFactors(u) PROVE IdpInv'
  BY <1>1 DEF Idp!SetFactors, IdpTypes, IdpMapped, IdpTasks, IdpOnce, IdpOwns
<1>2. ASSUME NEW s \in {"active", "inactive"}, Idp!SetActive(s) PROVE IdpInv'
  <2>1. UNCHANGED <<idpKind, idpUsers, idpLink, idpGiven, idpStates, idpBegun, idpCode, idpTask>>
        /\ idpProvider # "gone" /\ idpProvider' = s
    BY <1>2 DEF Idp!SetActive
  <2>2. IdpTypes' /\ IdpMapped'
    BY <2>1 DEF IdpTypes, IdpMapped
  <2>. QED
    BY <2>1, <2>2 DEF IdpTasks, IdpOnce, IdpOwns
<1>3. CASE Idp!Delink
  <2>1. /\ UNCHANGED <<idpKind, idpProvider, idpLink, idpGiven, idpStates, idpBegun,
                       idpCode, idpTask>>
        /\ idpUsers' = [u \in DOMAIN idpUsers |-> [idpUsers[u] EXCEPT !.linked = FALSE]]
    BY <1>3 DEF Idp!Delink
  <2>2. \A u \in DOMAIN idpUsers :
          /\ [idpUsers[u] EXCEPT !.linked = FALSE] \in IdpAccount
          /\ [idpUsers[u] EXCEPT !.linked = FALSE].of = idpUsers[u].of
    BY IdpUsersAre DEF IdpAccount
  <2>3. /\ idpUsers' \in Seq(IdpAccount) /\ DOMAIN idpUsers' = DOMAIN idpUsers
        /\ \A u \in DOMAIN idpUsers : idpUsers'[u].of = idpUsers[u].of
    <3>1. idpUsers' = [u \in 1..Len(idpUsers) |-> [idpUsers[u] EXCEPT !.linked = FALSE]]
      BY <2>1, IdpUsersAre
    <3>2. Len(idpUsers) \in Nat
          /\ \A u \in 1..Len(idpUsers) : [idpUsers[u] EXCEPT !.linked = FALSE] \in IdpAccount
      BY <2>2, IdpUsersAre
    <3>. QED
      BY <2>2, <3>1, <3>2, IdpUsersAre
  <2>4. IdpTypes'
    BY <2>1, <2>3 DEF IdpTypes
  <2>5. IdpMapped'
    <3>1. \A s \in Subjects :
            idpLink'[s] = 0 \/ (idpLink'[s] \in DOMAIN idpUsers' /\ idpUsers'[idpLink'[s]].of = s)
      BY <2>1, <2>3 DEF IdpMapped
    <3>2. \A u \in DOMAIN idpUsers' : idpProvider' # "gone" => idpLink'[idpUsers'[u].of] = u
      BY <2>1, <2>3 DEF IdpMapped
    <3>3. \A u, v \in DOMAIN idpUsers' : idpUsers'[u].of = idpUsers'[v].of => u = v
      BY <2>1, <2>3 DEF IdpMapped
    <3>4. \A g \in idpGiven' : g.user \in DOMAIN idpUsers' /\ idpUsers'[g.user].of = g.sub
      BY <2>1, <2>3 DEF IdpMapped
    <3>. QED
      BY <3>1, <3>2, <3>3, <3>4 DEF IdpMapped
  <2>6. IdpTasks' /\ IdpOnce'
    BY <2>1, <2>3 DEF IdpTasks, IdpOnce, IdpOwns
  <2>. QED
    BY <2>4, <2>5, <2>6
<1>4. CASE Idp!DeleteProvider
  <2>1. /\ UNCHANGED <<idpKind, idpUsers, idpGiven, idpBegun, idpCode, idpTask>>
        /\ \/ UNCHANGED <<idpProvider, idpStates, idpLink>>
           \/ /\ idpProvider' = "gone" /\ idpStates' = {}
              /\ idpLink' = [s \in Subjects |-> 0]
    BY <1>4 DEF Idp!DeleteProvider
  <2>2. IdpTypes' /\ IdpMapped'
    BY <2>1 DEF IdpTypes, IdpMapped
  <2>3. IdpTasks' /\ IdpOnce'
    BY <2>1 DEF IdpTasks, IdpOnce, IdpOwns
  <2>. QED
    BY <2>2, <2>3
<1>5. CASE Idp!Restart
  <2>1. /\ UNCHANGED <<idpKind, idpProvider, idpUsers, idpLink, idpGiven, idpStates,
                       idpBegun, idpCode>>
        /\ idpTask' = [r \in Requests |-> Idp!Idle]
    BY <1>5 DEF Idp!Restart
  <2>2. Idp!Idle \in IdpTask /\ Idp!Idle.pc = "idle"
    BY DEF Idp!Idle, IdpTask, IdpPcs
  <2>3. IdpTypes' /\ IdpMapped'
    BY <2>1, <2>2 DEF IdpTypes, IdpMapped
  <2>4. IdpTasks' /\ IdpOnce'
    BY <2>1, <2>2 DEF IdpTasks, IdpOnce, IdpOwns, IdpKnown
  <2>. QED
    BY <2>3, <2>4
<1>. QED
  BY <1>1, <1>2, <1>3, <1>4, <1>5

LEMMA IdpStep == IdpInv /\ [Idp!Next]_(Idp!vars) => IdpInv'
<1>. SUFFICES ASSUME IdpInv, [Idp!Next]_(Idp!vars) PROVE IdpInv'
  OBVIOUS
<1>1. CASE UNCHANGED Idp!vars
  BY <1>1 DEF Idp!vars, Idp!idp, Idp!flow, IdpInv, IdpTypes, IdpMapped, IdpTasks, IdpOnce, IdpOwns
<1>2. CASE Idp!Next
  BY <1>2, IdpFlowStep, IdpCallback, IdpConsume, IdpExchange, IdpLdapLogin, IdpLdapAuthenticate,
     IdpFindUser, IdpCreateUser, IdpIssue, IdpAdministration DEF Idp!Next
<1>. QED
  BY <1>1, <1>2

(* _ensure_idp_user and oidc_callback: however first logins, restarts and  *)
(* the provider's removal interleave, an external_id has one account, and  *)
(* every login ends in it; and a flow ends in one login at most, of        *)
(* whoever authenticated in it, for any number of flows and subjects.      *)
THEOREM LoginsApart == Idp!Spec => []LoginsKeptApart
<1>1. IdpInv => LoginsKeptApart
  BY DEF IdpInv, IdpMapped, IdpOnce, LoginsKeptApart, Idp!OneAccountEach, Idp!FlowsKeptApart
<1>. QED
  BY <1>1, IdpInit, IdpStep, PTL DEF Idp!Spec

-----------------------------------------------------------------------------
(* EphemeralJoin: the one-time link                                        *)

JoinPcs == {"idle", "list", "submit"} \cup Join!Writing
JoinTask ==
  [pc : JoinPcs, link : Links \cup {None}, sk : Nat, new : Nat,
   files : SUBSET (Files \X Nat), users : SUBSET Users]

JoinTypes ==
  /\ joinKey \in Nat /\ joinKeys \in Nat
  /\ joinMember \subseteq Users /\ joinLost \subseteq Join!Everyone
  /\ joinHeld \in [Users -> Nat] /\ joinFiles \in [Files -> Nat]
  /\ joinLink \in [Links -> {"none", "open", "used", "expired"}]
  /\ joinWraps \in [Links -> Nat] /\ joinPassed \in [Links -> Nat]
  /\ joinTask \in [Users -> JoinTask]
  /\ \A u \in Users : joinTask[u].pc # "idle" => joinTask[u].link \in Links

(* A link is let through once, and then it is used.                        *)
JoinLinks ==
  /\ \A l \in Links : joinPassed[l] <= 1
  /\ \A l \in Links : joinLink[l] # "used" => joinPassed[l] = 0

(* What a key is given to, of the users and files that are not lost.       *)
JoinHolds(k) == \A v \in joinMember \ joinLost : joinHeld[v] = k
JoinOpens(k) == \A f \in Join!Rows \ joinLost : joinFiles[f] = k
JoinNoOther(k) == \A v \in Users \ joinLost : joinHeld[v] \in {0, k}
JoinNamed(u) == {p[1] : p \in joinTask[u].files}

(* Between joins the team's key is everybody's and every file's.  A join   *)
(* that writes gives first the files, then the members its own.            *)
JoinBetween == JoinHolds(joinKey) /\ JoinOpens(joinKey) /\ JoinNoOther(joinKey)
JoinPhase(u) ==
  LET t == joinTask[u] IN
  /\ joinLink[t.link] \in {"open", "expired"}
  /\ t.pc = "role" => JoinBetween
  /\ t.pc \in {"role", "files"} =>
       JoinNamed(u) = {} \/ Join!Rows \ joinLost \subseteq JoinNamed(u)
  /\ t.pc \in {"delete", "insert", "key", "consume"} => JoinOpens(t.new)
  /\ t.pc = "insert" => JoinNoOther(0)
  /\ t.pc \in {"key", "consume"} => JoinHolds(t.new) /\ JoinNoOther(t.new)
  /\ t.pc = "consume" => joinKey = t.new

JoinInv ==
  /\ JoinTypes
  /\ joinLost = Join!Everyone
     \/ /\ \A u, v \in Join!Joining : u = v
        /\ JoinLinks
        /\ Join!Joining = {} => JoinBetween
        /\ \A u \in Join!Joining : JoinPhase(u)

-----------------------------------------------------------------------------
LEMMA JoinInit == Join!Init => JoinInv
<1>. SUFFICES ASSUME Join!Init PROVE JoinInv
  OBVIOUS
<1>1. Join!Idle \in JoinTask /\ Join!Idle.pc = "idle"
  BY DEF Join!Idle, JoinTask, JoinPcs
<1>2. JoinTypes
  <2>1. joinMember \subseteq Users
    BY JoinAssumption DEF Join!Init, Join!ConstantsOK
  <2>. QED
    BY <1>1, <2>1 DEF Join!Init, JoinTypes
<1>3. Join!Joining = {}
  BY <1>1 DEF Join!Init, Join!Joining, Join!Writing
<1>4. JoinLinks /\ JoinBetween
  BY JoinAssumption
  DEF Join!ConstantsOK, Join!Init, JoinLinks, JoinBetween, JoinHolds, JoinOpens, JoinNoOther,
      Join!Rows
<1>. QED
  BY <1>2, <1>3, <1>4 DEF JoinInv

(* A request goes on, or ends.                                             *)
LEMMA JoinGoes ==
  ASSUME JoinTypes, NEW u \in Users, NEW pc \in JoinPcs \ {"idle"}, Join!Goes(u, pc),
         joinTask[u].pc # "idle"
  PROVE  /\ joinTask' \in [Users -> JoinTask]
         /\ joinTask'[u].pc = pc /\ joinTask'[u].link = joinTask[u].link
         /\ joinTask'[u].link \in Links
         /\ joinTask'[u].new = joinTask[u].new /\ joinTask'[u].files = joinTask[u].files
         /\ joinTask'[u].users = joinTask[u].users
         /\ \A v \in Users \ {u} : joinTask'[v] = joinTask[v]
<1>. DEFINE n == [joinTask[u] EXCEPT !.pc = pc]
<1>1. joinTask[u] \in JoinTask /\ joinTask[u].link \in Links
  BY DEF JoinTypes
<1>2. /\ n \in JoinTask /\ n.pc = pc /\ n.link = joinTask[u].link /\ n.new = joinTask[u].new
      /\ n.files = joinTask[u].files /\ n.users = joinTask[u].users
  BY <1>1 DEF JoinTask
<1>3. joinTask' = [joinTask EXCEPT ![u] = n]
  BY DEF Join!Goes
<1>. HIDE DEF n
<1>. QED
  BY <1>1, <1>2, <1>3 DEF JoinTypes

LEMMA JoinEnds ==
  ASSUME JoinTypes, NEW u \in Users, Join!Ends(u)
  PROVE  /\ joinTask' \in [Users -> JoinTask]
         /\ joinTask'[u].pc = "idle"
         /\ \A v \in Users \ {u} : joinTask'[v] = joinTask[v]
         /\ Join!Joining' = Join!Joining \ {u}
<1>1. Join!Idle \in JoinTask /\ Join!Idle.pc = "idle"
  BY DEF Join!Idle, JoinTask, JoinPcs
<1>2. /\ joinTask' \in [Users -> JoinTask]
      /\ joinTask'[u].pc = "idle"
      /\ \A v \in Users \ {u} : joinTask'[v] = joinTask[v]
  BY <1>1 DEF JoinTypes, Join!Ends
<1>. QED
  BY <1>2 DEF Join!Joining, Join!Writing

(* A join that was writing goes on writing.                                *)
LEMMA JoinGoesOn ==
  ASSUME JoinTypes, NEW u \in Join!Joining, NEW pc \in Join!Writing, Join!Goes(u, pc)
  PROVE  Join!Joining' = Join!Joining
<1>1. u \in Users /\ joinTask[u].pc # "idle" /\ pc \in JoinPcs \ {"idle"}
  BY DEF Join!Joining, Join!Writing, JoinPcs
<1>. QED
  BY <1>1, JoinGoes DEF Join!Joining

-----------------------------------------------------------------------------
(* The link, and the requests up to their check.                           *)
LEMMA JoinApart ==
  ASSUME JoinInv, JoinTypes', Join!Joining' = Join!Joining,
         \A u \in Join!Joining : joinTask'[u] = joinTask[u],
         UNCHANGED <<joinKey, joinMember, joinHeld, joinFiles, joinLost, joinPassed>>,
         \A l \in Links : joinLink'[l] = "used" <=> joinLink[l] = "used",
         \A l \in Links : joinLink[l] = "open" => joinLink'[l] \in {"open", "expired"},
         \A l \in Links : joinLink[l] = "expired" => joinLink'[l] = "expired"
  PROVE  JoinInv'
<1>. SUFFICES ASSUME joinLost # Join!Everyone PROVE JoinInv'
  BY DEF JoinInv, Join!Everyone
<1>1. JoinLinks'
  BY DEF JoinInv, JoinLinks
<1>2. ASSUME NEW u \in Join!Joining PROVE JoinPhase(u)'
  <2>1. JoinPhase(u) /\ joinTask[u].link \in Links
    BY DEF JoinInv, JoinTypes, Join!Joining, Join!Writing
  <2>. QED
    BY <2>1 DEF JoinPhase, JoinBetween, JoinHolds, JoinOpens, JoinNoOther, JoinNamed, Join!Rows
<1>3. JoinBetween => JoinBetween'
  BY DEF JoinBetween, JoinHolds, JoinOpens, JoinNoOther, Join!Rows
<1>. QED
  BY <1>1, <1>2, <1>3 DEF JoinInv

LEMMA JoinLinkStep ==
  ASSUME JoinInv, NEW l \in Links,
         Join!CreateSlot(l) \/ Join!Expire(l) \/ \E u \in Users : Join!Open(u, l)
  PROVE  JoinInv'
<1>1. JoinTypes
  BY DEF JoinInv
<1>2. CASE Join!CreateSlot(l) \/ Join!Expire(l)
  <2>1. /\ UNCHANGED <<joinKey, joinKeys, joinMember, joinHeld, joinFiles, joinLost,
                       joinPassed, joinTask>>
        /\ \/ joinLink' = [joinLink EXCEPT ![l] = "open"]
           \/ joinLink' = [joinLink EXCEPT ![l] = "expired"]
        /\ joinWraps' = [joinWraps EXCEPT ![l] = joinHeld[Creator]] \/ UNCHANGED joinWraps
        /\ joinLink[l] = "none" \/ (joinLink[l] = "open" /\ joinLink'[l] = "expired")
    BY <1>1, <1>2 DEF Join!CreateSlot, Join!Expire, Join!team, JoinTypes
  <2>2. joinHeld[Creator] \in Nat
    BY <1>1, JoinAssumption DEF Join!ConstantsOK, JoinTypes
  <2>3. JoinTypes'
    BY <1>1, <2>1, <2>2 DEF JoinTypes, Join!Everyone
  <2>4. Join!Joining' = Join!Joining
    BY <2>1 DEF Join!Joining
  <2>. QED
    BY <1>1, <2>1, <2>3, <2>4, JoinApart DEF JoinTypes
<1>3. ASSUME NEW u \in Users, Join!Open(u, l) PROVE JoinInv'
  <2>. DEFINE n == [Join!Idle EXCEPT !.pc = "list", !.link = l, !.sk = joinWraps[l]]
  <2>1. /\ UNCHANGED <<joinKey, joinKeys, joinMember, joinHeld, joinFiles, joinLost,
                       joinPassed, joinLink, joinWraps>>
        /\ joinTask[u].pc = "idle" /\ joinTask' = [joinTask EXCEPT ![u] = n]
    BY <1>3 DEF Join!Open, Join!team, Join!links, Join!At
  <2>2. n \in JoinTask /\ n.pc = "list" /\ n.link = l
    BY <1>1 DEF JoinTypes, JoinTask, Join!Idle, JoinPcs
  <2>. HIDE DEF n
  <2>3. JoinTypes'
    BY <1>1, <2>1, <2>2 DEF JoinTypes, Join!Everyone
  <2>4. Join!Joining' = Join!Joining /\ u \notin Join!Joining
    BY <1>1, <2>1, <2>2 DEF Join!Joining, Join!Writing, JoinTypes
  <2>5. \A v \in Join!Joining : joinTask'[v] = joinTask[v]
    BY <1>1, <2>1, <2>4 DEF Join!Joining, JoinTypes
  <2>. QED
    BY <1>1, <2>1, <2>3, <2>4, <2>5, JoinApart DEF JoinTypes
<1>. QED
  BY <1>2, <1>3

(* A request that ends before it writes.                                   *)
LEMMA JoinGivesUp ==
  ASSUME JoinInv, NEW u \in Users, joinTask[u].pc \notin Join!Writing, Join!Ends(u),
         UNCHANGED <<joinKey, joinKeys, joinMember, joinHeld, joinFiles, joinLost, joinPassed,
                     joinLink, joinWraps>>
  PROVE  JoinInv'
<1>1. JoinTypes /\ u \notin Join!Joining
  BY DEF JoinInv, Join!Joining
<1>2. JoinTypes'
  BY <1>1, JoinEnds DEF JoinTypes, Join!Everyone
<1>3. Join!Joining' = Join!Joining
  BY <1>1, JoinEnds
<1>4. \A v \in Join!Joining : joinTask'[v] = joinTask[v]
  BY <1>1, JoinEnds DEF Join!Joining
<1>. QED
  BY <1>1, <1>2, <1>3, <1>4, JoinApart DEF JoinTypes

LEMMA JoinFetchLists ==
  ASSUME JoinInv, NEW u \in Users, Join!FetchLists(u)
  PROVE  JoinInv'
<1>1. JoinTypes /\ joinTask[u].pc = "list"
  BY DEF JoinInv, Join!FetchLists, Join!At
<1>2. UNCHANGED <<joinKey, joinMember, joinHeld, joinFiles, joinLost, joinPassed, joinLink,
                  joinWraps>>
  BY DEF Join!FetchLists, Join!team, Join!links
<1>3. CASE Join!Ends(u) /\ UNCHANGED joinKeys
  BY <1>1, <1>2, <1>3, JoinGivesUp DEF Join!Writing
<1>4. CASE Join!Lists(u)
  <2>. DEFINE F == {<<f, joinFiles[f]>> : f \in Join!Rows}
              n == [joinTask[u] EXCEPT !.pc = "submit", !.files = F,
                      !.users = joinMember \cup {u}, !.new = joinKeys + 1]
  <2>1. joinTask' = [joinTask EXCEPT ![u] = n] /\ joinKeys' = joinKeys + 1
    BY <1>4 DEF Join!FetchLists
  <2>2. F \in SUBSET (Files \X Nat) /\ joinMember \cup {u} \in SUBSET Users
    BY <1>1 DEF JoinTypes, Join!Rows
  <2>3. n \in JoinTask /\ n.pc = "submit" /\ n.link \in Links
    <3>1. joinTask[u] \in JoinTask /\ joinTask[u].link \in Links /\ joinKeys + 1 \in Nat
      BY <1>1 DEF JoinTypes
    <3>. HIDE DEF F
    <3>. QED
      BY <2>2, <3>1 DEF JoinTask, JoinPcs
  <2>. HIDE DEF n
  <2>4. JoinTypes'
    BY <1>1, <1>2, <2>1, <2>3 DEF JoinTypes, Join!Everyone
  <2>5. Join!Joining' = Join!Joining /\ u \notin Join!Joining
    BY <1>1, <2>1, <2>3 DEF Join!Joining, Join!Writing, JoinTypes
  <2>6. \A v \in Join!Joining : joinTask'[v] = joinTask[v]
    BY <1>1, <2>1, <2>5 DEF Join!Joining, JoinTypes
  <2>. QED
    BY <1>1, <1>2, <2>4, <2>5, <2>6, JoinApart DEF JoinTypes
<1>. QED
  BY <1>3, <1>4 DEF Join!FetchLists

(* Whoever is let in is the only one, or nothing is said any more.         *)
LEMMA JoinCheck ==
  ASSUME JoinInv, NEW u \in Users, Join!Check(u)
  PROVE  JoinInv'
<1>. DEFINE t == joinTask[u]
<1>1. JoinTypes /\ t.pc = "submit" /\ t.link \in Links
  BY DEF JoinInv, Join!Check, Join!At, JoinTypes
<1>2. UNCHANGED <<joinKey, joinKeys, joinMember, joinHeld, joinFiles, joinPassed, joinLink,
                  joinWraps>>
  BY DEF Join!Check, Join!team, Join!links
<1>3. CASE Join!Ends(u) /\ UNCHANGED joinLost
  BY <1>1, <1>2, <1>3, JoinGivesUp DEF Join!Writing
<1>4. CASE /\ joinLink[t.link] = "open" /\ Join!FilesMatch(t) /\ Join!Goes(u, "role")
           /\ joinLost' = IF Join!Joining = {} THEN joinLost ELSE Join!Everyone
  <2>1. /\ joinTask' \in [Users -> JoinTask] /\ joinTask'[u].pc = "role"
        /\ joinTask'[u].link = t.link /\ joinTask'[u].files = t.files
        /\ \A v \in Users \ {u} : joinTask'[v] = joinTask[v]
    BY <1>1, <1>4, JoinGoes DEF JoinPcs, Join!Writing
  <2>2. JoinTypes'
    BY <1>1, <1>2, <1>4, <2>1 DEF JoinTypes, Join!Everyone
  <2>3. CASE Join!Joining # {} \/ joinLost = Join!Everyone
    BY <1>4, <2>2, <2>3 DEF JoinInv, Join!Everyone
  <2>4. CASE Join!Joining = {} /\ joinLost # Join!Everyone
    <3>1. JoinLinks /\ JoinBetween
      BY <2>4 DEF JoinInv
    <3>2. JoinLinks' /\ JoinBetween'
      BY <1>2, <1>4, <2>4, <3>1
      DEF JoinLinks, JoinBetween, JoinHolds, JoinOpens, JoinNoOther, Join!Rows
    <3>3. Join!Joining' = {u}
      BY <2>1, <2>4 DEF Join!Joining, Join!Writing
    <3>4. JoinNamed(u)' = {} \/ (Join!Rows \ joinLost \subseteq JoinNamed(u))'
      <4>1. t.files = {} \/ t.files = {<<f, joinFiles[f]>> : f \in Join!Rows}
        BY <1>4 DEF Join!FilesMatch
      <4>2. CASE t.files = {}
        BY <2>1, <4>2 DEF JoinNamed
      <4>3. CASE t.files = {<<f, joinFiles[f]>> : f \in Join!Rows}
        <5>1. \A f \in Join!Rows : <<f, joinFiles[f]>> \in joinTask'[u].files
          BY <2>1, <4>3
        <5>2. ASSUME NEW f \in Join!Rows PROVE f \in {p[1] : p \in joinTask'[u].files}
          <6>. DEFINE pair == <<f, joinFiles[f]>>
          <6>1. pair \in joinTask'[u].files /\ pair[1] = f
            BY <5>1
          <6>. HIDE DEF pair
          <6>. QED
            BY <6>1
        <5>3. Join!Rows' = Join!Rows
          BY <1>2 DEF Join!Rows
        <5>. QED
          BY <5>2, <5>3 DEF JoinNamed
      <4>. QED
        BY <4>1, <4>2, <4>3
    <3>5. JoinPhase(u)'
      BY <1>2, <1>4, <2>1, <3>2, <3>4 DEF JoinPhase
    <3>. QED
      BY <2>2, <3>2, <3>3, <3>5 DEF JoinInv
  <2>. QED
    BY <2>3, <2>4
<1>. QED
  BY <1>3, <1>4 DEF Join!Check

-----------------------------------------------------------------------------
(* The statements of a join that writes.                                   *)
LEMMA JoinGrantRole ==
  ASSUME JoinInv, joinLost # Join!Everyone, NEW u \in Users, Join!GrantRole(u)
  PROVE  JoinInv'
<1>. DEFINE t == joinTask[u]
<1>1. JoinTypes /\ t.pc = "role" /\ t.link \in Links /\ u \in Join!Joining
  BY DEF JoinInv, Join!GrantRole, Join!At, JoinTypes, Join!Joining, Join!Writing
<1>2. UNCHANGED <<joinKey, joinKeys, joinHeld, joinFiles, joinLost, joinPassed, joinLink,
                  joinWraps>>
  BY DEF Join!GrantRole, Join!links
<1>3. JoinPhase(u) /\ JoinLinks /\ Join!Joining = {u}
  BY <1>1 DEF JoinInv
<1>4. JoinLinks'
  BY <1>2, <1>3 DEF JoinLinks
<1>5. CASE Join!Ends(u) /\ UNCHANGED joinMember
  <2>1. JoinTypes'
    BY <1>1, <1>2, <1>5, JoinEnds DEF JoinTypes, Join!Everyone
  <2>2. Join!Joining' = {}
    BY <1>1, <1>3, <1>5, JoinEnds
  <2>3. JoinBetween'
    BY <1>1, <1>2, <1>3, <1>5
    DEF JoinPhase, JoinBetween, JoinHolds, JoinOpens, JoinNoOther, Join!Rows
  <2>. QED
    BY <1>4, <2>1, <2>2, <2>3 DEF JoinInv
<1>6. CASE joinMember' = joinMember \cup {u} /\ Join!Goes(u, "files")
  <2>1. /\ joinTask' \in [Users -> JoinTask] /\ joinTask'[u].pc = "files"
        /\ joinTask'[u].link = t.link /\ joinTask'[u].files = t.files /\ t.link \in Links
        /\ \A v \in Users \ {u} : joinTask'[v] = joinTask[v]
    BY <1>1, <1>6, JoinGoes DEF JoinPcs, Join!Writing
  <2>2. JoinTypes'
    BY <1>1, <1>2, <1>6, <2>1 DEF JoinTypes, Join!Everyone
  <2>3. Join!Joining' = {u}
    BY <1>1, <1>3, <1>6, JoinGoesOn DEF Join!Writing
  <2>4. JoinPhase(u)'
    BY <1>1, <1>2, <1>3, <2>1 DEF JoinPhase, JoinNamed, Join!Rows
  <2>. QED
    BY <1>4, <2>2, <2>3, <2>4 DEF JoinInv
<1>. QED
  BY <1>5, <1>6 DEF Join!GrantRole

LEMMA JoinUpdateFiles ==
  ASSUME JoinInv, joinLost # Join!Everyone, NEW u \in Users, Join!UpdateFiles(u)
  PROVE  JoinInv'
<1>. DEFINE t == joinTask[u]
<1>1. JoinTypes /\ t.pc = "files" /\ t.link \in Links /\ u \in Join!Joining
  BY DEF JoinInv, Join!UpdateFiles, Join!At, JoinTypes, Join!Joining, Join!Writing
<1>2. /\ UNCHANGED <<joinKey, joinKeys, joinHeld, joinMember, joinPassed, joinLink, joinWraps>>
      /\ joinFiles' = [f \in Files |-> IF f \in JoinNamed(u) /\ joinFiles[f] # 0
                                       THEN t.new ELSE joinFiles[f]]
      /\ joinLost' = IF JoinNamed(u) = {} THEN joinLost \cup Join!Rows ELSE joinLost
      /\ Join!Goes(u, "delete")
  BY DEF Join!UpdateFiles, Join!links, JoinNamed
<1>3. JoinPhase(u) /\ JoinLinks /\ Join!Joining = {u}
  BY <1>1 DEF JoinInv
<1>4. JoinLinks'
  BY <1>2, <1>3 DEF JoinLinks
<1>5. /\ joinTask' \in [Users -> JoinTask] /\ joinTask'[u].pc = "delete"
      /\ joinTask'[u].link = t.link /\ joinTask'[u].new = t.new /\ t.link \in Links
      /\ \A v \in Users \ {u} : joinTask'[v] = joinTask[v]
  BY <1>1, <1>2, JoinGoes DEF JoinPcs, Join!Writing
<1>6. JoinTypes'
  <2>1. t.new \in Nat
    BY <1>1 DEF JoinTypes, JoinTask
  <2>2. joinFiles' \in [Files -> Nat]
    BY <1>1, <1>2, <2>1 DEF JoinTypes
  <2>3. joinLost' \subseteq Join!Everyone
    BY <1>1, <1>2 DEF JoinTypes, Join!Everyone, Join!Rows
  <2>. QED
    BY <1>1, <1>2, <1>5, <2>2, <2>3 DEF JoinTypes, Join!Everyone
<1>7. Join!Joining' = {u}
  BY <1>1, <1>2, <1>3, JoinGoesOn DEF Join!Writing
<1>8. Join!Rows' \subseteq Join!Rows
  BY <1>2 DEF Join!Rows
<1>9. \A f \in Join!Rows' \ joinLost' : joinFiles'[f] = t.new
  <2>1. CASE JoinNamed(u) = {}
    BY <1>2, <1>8, <2>1
  <2>2. CASE JoinNamed(u) # {}
    <3>1. Join!Rows \ joinLost \subseteq JoinNamed(u)
      BY <1>1, <1>3, <2>2 DEF JoinPhase
    <3>. QED
      BY <1>2, <1>8, <2>2, <3>1 DEF Join!Rows
  <2>. QED
    BY <2>1, <2>2
<1>10. JoinPhase(u)'
  BY <1>1, <1>2, <1>3, <1>5, <1>9 DEF JoinPhase, JoinOpens
<1>. QED
  BY <1>4, <1>6, <1>7, <1>10 DEF JoinInv

LEMMA JoinDeleteKeys ==
  ASSUME JoinInv, joinLost # Join!Everyone, NEW u \in Users, Join!DeleteKeys(u)
  PROVE  JoinInv'
<1>. DEFINE t == joinTask[u]
<1>1. JoinTypes /\ t.pc = "delete" /\ t.link \in Links /\ u \in Join!Joining
  BY DEF JoinInv, Join!DeleteKeys, Join!At, JoinTypes, Join!Joining, Join!Writing
<1>2. /\ UNCHANGED <<joinKey, joinKeys, joinFiles, joinMember, joinLost, joinPassed,
                     joinLink, joinWraps>>
      /\ joinHeld' = [v \in Users |-> 0] /\ Join!Goes(u, "insert")
  BY DEF Join!DeleteKeys, Join!links
<1>3. JoinPhase(u) /\ JoinLinks /\ Join!Joining = {u}
  BY <1>1 DEF JoinInv
<1>4. JoinLinks'
  BY <1>2, <1>3 DEF JoinLinks
<1>5. /\ joinTask' \in [Users -> JoinTask] /\ joinTask'[u].pc = "insert"
      /\ joinTask'[u].link = t.link /\ joinTask'[u].new = t.new /\ t.link \in Links
      /\ \A v \in Users \ {u} : joinTask'[v] = joinTask[v]
  BY <1>1, <1>2, JoinGoes DEF JoinPcs, Join!Writing
<1>6. JoinTypes'
  BY <1>1, <1>2, <1>5 DEF JoinTypes, Join!Everyone
<1>7. Join!Joining' = {u}
  BY <1>1, <1>2, <1>3, JoinGoesOn DEF Join!Writing
<1>8. JoinPhase(u)'
  BY <1>1, <1>2, <1>3, <1>5 DEF JoinPhase, JoinOpens, JoinNoOther, Join!Rows
<1>. QED
  BY <1>4, <1>6, <1>7, <1>8 DEF JoinInv

LEMMA JoinInsertKeys ==
  ASSUME JoinInv, joinLost # Join!Everyone, NEW u \in Users, Join!InsertKeys(u)
  PROVE  JoinInv'
<1>. DEFINE t == joinTask[u]
            new == {v \in t.users : joinHeld[v] = 0}
            fails == new # t.users \/ u \in Browsers
<1>1. JoinTypes /\ t.pc = "insert" /\ t.link \in Links /\ u \in Join!Joining
  BY DEF JoinInv, Join!InsertKeys, Join!At, JoinTypes, Join!Joining, Join!Writing
<1>2. UNCHANGED <<joinKey, joinKeys, joinFiles, joinMember, joinPassed, joinLink, joinWraps>>
  BY DEF Join!InsertKeys, Join!links
<1>3. PICK done \in SUBSET new :
        /\ new = t.users => done = new
        /\ joinHeld' = [v \in Users |-> IF v \in done THEN t.new ELSE joinHeld[v]]
  BY DEF Join!InsertKeys
<1>4. joinHeld' \in [Users -> Nat]
  <2>1. t.new \in Nat
    BY <1>1 DEF JoinTypes, JoinTask
  <2>. QED
    BY <1>1, <1>3, <2>1 DEF JoinTypes
<1>5. CASE joinLost' = Join!Everyone /\ Join!Ends(u)
  <2>1. JoinTypes'
    BY <1>1, <1>2, <1>4, <1>5, JoinEnds DEF JoinTypes, Join!Everyone
  <2>. QED
    BY <1>5, <2>1 DEF JoinInv, Join!Everyone
<1>6. CASE /\ new = t.users /\ joinLost' = joinLost \cup (joinMember \ t.users)
           /\ Join!Goes(u, "key")
  <2>1. JoinPhase(u) /\ JoinLinks /\ Join!Joining = {u}
    BY <1>1 DEF JoinInv
  <2>2. /\ joinTask' \in [Users -> JoinTask] /\ joinTask'[u].pc = "key"
        /\ joinTask'[u].link = t.link /\ joinTask'[u].new = t.new /\ t.link \in Links
        /\ \A v \in Users \ {u} : joinTask'[v] = joinTask[v]
    BY <1>1, <1>6, JoinGoes DEF JoinPcs, Join!Writing
  <2>3. JoinTypes'
    BY <1>1, <1>2, <1>4, <1>6, <2>2 DEF JoinTypes, Join!Everyone
  <2>4. Join!Joining' = {u}
    BY <1>1, <1>6, <2>1, JoinGoesOn DEF Join!Writing
  <2>5. \A v \in Users : v \in t.users => joinHeld'[v] = t.new
    BY <1>3, <1>6
  <2>6. \A v \in Users \ joinLost : joinHeld'[v] \in {0, t.new}
    BY <1>1, <1>3, <2>1 DEF JoinPhase, JoinNoOther
  <2>7. \A v \in joinMember \ joinLost' : joinHeld'[v] = t.new
    BY <1>1, <1>6, <2>5 DEF JoinTypes
  <2>8. JoinOpens(t.new)
    BY <1>1, <2>1 DEF JoinPhase
  <2>9. JoinPhase(u)'
    BY <1>1, <1>2, <1>6, <2>1, <2>2, <2>6, <2>7, <2>8
    DEF JoinPhase, JoinOpens, JoinNoOther, JoinHolds, Join!Rows
  <2>10. JoinLinks'
    BY <1>2, <2>1 DEF JoinLinks
  <2>. QED
    BY <2>3, <2>4, <2>9, <2>10 DEF JoinInv
<1>. QED
  BY <1>5, <1>6 DEF Join!InsertKeys

LEMMA JoinSetKey ==
  ASSUME JoinInv, joinLost # Join!Everyone, NEW u \in Users, Join!SetKey(u)
  PROVE  JoinInv'
<1>. DEFINE t == joinTask[u]
<1>1. JoinTypes /\ t.pc = "key" /\ t.link \in Links /\ u \in Join!Joining
  BY DEF JoinInv, Join!SetKey, Join!At, JoinTypes, Join!Joining, Join!Writing
<1>2. /\ UNCHANGED <<joinHeld, joinKeys, joinFiles, joinMember, joinLost, joinPassed,
                     joinLink, joinWraps>>
      /\ joinKey' = t.new /\ Join!Goes(u, "consume")
  BY DEF Join!SetKey, Join!links
<1>3. JoinPhase(u) /\ JoinLinks /\ Join!Joining = {u}
  BY <1>1 DEF JoinInv
<1>4. JoinLinks'
  BY <1>2, <1>3 DEF JoinLinks
<1>5. /\ joinTask' \in [Users -> JoinTask] /\ joinTask'[u].pc = "consume"
      /\ joinTask'[u].link = t.link /\ joinTask'[u].new = t.new /\ t.link \in Links
      /\ \A v \in Users \ {u} : joinTask'[v] = joinTask[v]
  BY <1>1, <1>2, JoinGoes DEF JoinPcs, Join!Writing
<1>6. JoinTypes'
  <2>1. t.new \in Nat
    BY <1>1 DEF JoinTypes, JoinTask
  <2>. QED
    BY <1>1, <1>2, <1>5, <2>1 DEF JoinTypes, Join!Everyone
<1>7. Join!Joining' = {u}
  BY <1>1, <1>2, <1>3, JoinGoesOn DEF Join!Writing
<1>8. JoinPhase(u)'
  BY <1>1, <1>2, <1>3, <1>5 DEF JoinPhase, JoinOpens, JoinHolds, JoinNoOther, Join!Rows
<1>. QED
  BY <1>4, <1>6, <1>7, <1>8 DEF JoinInv

LEMMA JoinConsumeSlot ==
  ASSUME JoinInv, joinLost # Join!Everyone, NEW u \in Users, Join!ConsumeSlot(u)
  PROVE  JoinInv'
<1>. DEFINE l == joinTask[u].link
<1>1. JoinTypes /\ joinTask[u].pc = "consume" /\ l \in Links /\ u \in Join!Joining
  BY DEF JoinInv, Join!ConsumeSlot, Join!At, JoinTypes, Join!Joining, Join!Writing
<1>2. /\ UNCHANGED <<joinKey, joinHeld, joinKeys, joinFiles, joinMember, joinLost, joinWraps>>
      /\ joinLink' = [joinLink EXCEPT ![l] = "used"]
      /\ joinPassed' = [joinPassed EXCEPT ![l] = @ + 1] /\ Join!Ends(u)
  BY DEF Join!ConsumeSlot, Join!team
<1>3. JoinPhase(u) /\ JoinLinks /\ Join!Joining = {u}
  BY <1>1 DEF JoinInv
<1>4. joinPassed[l] = 0
  BY <1>1, <1>3 DEF JoinPhase, JoinLinks
<1>5. JoinTypes' /\ JoinLinks'
  <2>1. /\ joinPassed' \in [Links -> Nat]
       /\ joinLink' \in [Links -> {"none", "open", "used", "expired"}]
    BY <1>1, <1>2 DEF JoinTypes
  <2>2. JoinTypes'
    BY <1>1, <1>2, <2>1, JoinEnds DEF JoinTypes, Join!Everyone
  <2>3. JoinLinks'
    BY <1>1, <1>2, <1>3, <1>4 DEF JoinLinks, JoinTypes
  <2>. QED
    BY <2>2, <2>3
<1>6. Join!Joining' = {}
  BY <1>1, <1>2, <1>3, JoinEnds
<1>7. JoinBetween'
  BY <1>1, <1>2, <1>3 DEF JoinPhase, JoinBetween, JoinHolds, JoinOpens, JoinNoOther, Join!Rows
<1>. QED
  BY <1>5, <1>6, <1>7 DEF JoinInv

(* Once every user and every file may be lost, they stay so.               *)
LEMMA JoinTaskTyped ==
  ASSUME JoinTypes, NEW u \in Users, joinTask[u].pc # "idle",
         Join!Ends(u) \/ \E pc \in Join!Writing : Join!Goes(u, pc)
  PROVE  /\ joinTask' \in [Users -> JoinTask]
         /\ \A v \in Users : joinTask'[v].pc # "idle" => joinTask'[v].link \in Links
<1>1. CASE Join!Ends(u)
  BY <1>1, JoinEnds DEF JoinTypes
<1>2. ASSUME NEW pc \in Join!Writing, Join!Goes(u, pc)
      PROVE  /\ joinTask' \in [Users -> JoinTask]
             /\ \A v \in Users : joinTask'[v].pc # "idle" => joinTask'[v].link \in Links
  <2>1. pc \in JoinPcs \ {"idle"}
    BY DEF JoinPcs, Join!Writing
  <2>. QED
    BY <1>2, <2>1, JoinGoes DEF JoinTypes
<1>. QED
  BY <1>1, <1>2

JoinStatement(u) ==
  Join!GrantRole(u) \/ Join!UpdateFiles(u) \/ Join!DeleteKeys(u) \/ Join!InsertKeys(u)
  \/ Join!SetKey(u) \/ Join!ConsumeSlot(u) \/ Join!Crash(u)

LEMMA JoinStatementTypes ==
  ASSUME JoinTypes, NEW u \in Users, JoinStatement(u)
  PROVE  JoinTypes' /\ (joinLost = Join!Everyone => joinLost' = Join!Everyone)
<1>. DEFINE t == joinTask[u]
<1>1. /\ t.pc # "idle"
      /\ Join!Ends(u) \/ \E pc \in Join!Writing : Join!Goes(u, pc)
      /\ UNCHANGED <<joinKeys, joinWraps>>
  BY DEF JoinStatement, Join!At, Join!Writing, Join!GrantRole, Join!UpdateFiles, Join!DeleteKeys,
         Join!InsertKeys, Join!SetKey, Join!ConsumeSlot, Join!Crash, Join!links, Join!team
<1>2. t \in JoinTask /\ t.new \in Nat /\ t.link \in Links
  BY <1>1 DEF JoinTypes, JoinTask
<1>3. CASE Join!GrantRole(u)
  <2>1. /\ joinMember' \subseteq joinMember \cup {u}
        /\ UNCHANGED <<joinKey, joinHeld, joinFiles, joinLost, joinPassed, joinLink>>
    BY <1>3 DEF Join!GrantRole, Join!links
  <2>. QED
    BY <1>1, <2>1, JoinTaskTyped DEF JoinTypes, Join!Everyone
<1>4. CASE Join!UpdateFiles(u)
  <2>1. UNCHANGED <<joinKey, joinHeld, joinMember, joinPassed, joinLink>>
    BY <1>4 DEF Join!UpdateFiles, Join!links
  <2>2. joinFiles' \in [Files -> Nat]
    BY <1>2, <1>4 DEF JoinTypes, Join!UpdateFiles
  <2>3. joinLost \subseteq joinLost' /\ joinLost' \subseteq Join!Everyone
    BY <1>4 DEF JoinTypes, Join!UpdateFiles, Join!Everyone, Join!Rows
  <2>. QED
    BY <1>1, <2>1, <2>2, <2>3, JoinTaskTyped DEF JoinTypes, Join!Everyone
<1>5. CASE Join!DeleteKeys(u)
  <2>1. /\ UNCHANGED <<joinKey, joinMember, joinFiles, joinLost, joinPassed, joinLink>>
        /\ joinHeld' = [v \in Users |-> 0]
    BY <1>5 DEF Join!DeleteKeys, Join!links
  <2>. QED
    BY <1>1, <2>1, JoinTaskTyped DEF JoinTypes, Join!Everyone
<1>6. CASE Join!InsertKeys(u)
  <2>1. UNCHANGED <<joinKey, joinMember, joinFiles, joinPassed, joinLink>>
    BY <1>6 DEF Join!InsertKeys, Join!links
  <2>2. PICK done : joinHeld' = [v \in Users |-> IF v \in done THEN t.new ELSE joinHeld[v]]
    BY <1>6 DEF Join!InsertKeys
  <2>3. joinHeld' \in [Users -> Nat]
    BY <1>2, <2>2 DEF JoinTypes
  <2>4. joinLost' = Join!Everyone \/ joinLost' = joinLost \cup (joinMember \ t.users)
    BY <1>6 DEF Join!InsertKeys
  <2>5. joinLost \subseteq joinLost' /\ joinLost' \subseteq Join!Everyone
    BY <2>4 DEF JoinTypes, Join!Everyone
  <2>. QED
    BY <1>1, <2>1, <2>3, <2>5, JoinTaskTyped DEF JoinTypes, Join!Everyone
<1>7. CASE Join!SetKey(u)
  <2>1. /\ UNCHANGED <<joinHeld, joinMember, joinFiles, joinLost, joinPassed, joinLink>>
        /\ joinKey' = t.new
    BY <1>7 DEF Join!SetKey, Join!links
  <2>. QED
    BY <1>1, <1>2, <2>1, JoinTaskTyped DEF JoinTypes, Join!Everyone
<1>8. CASE Join!ConsumeSlot(u)
  <2>1. /\ UNCHANGED <<joinKey, joinHeld, joinMember, joinFiles, joinLost>>
        /\ joinLink' = [joinLink EXCEPT ![t.link] = "used"]
        /\ joinPassed' = [joinPassed EXCEPT ![t.link] = @ + 1]
    BY <1>8 DEF Join!ConsumeSlot, Join!team
  <2>2. /\ joinPassed' \in [Links -> Nat]
       /\ joinLink' \in [Links -> {"none", "open", "used", "expired"}]
    BY <1>2, <2>1 DEF JoinTypes
  <2>. QED
    BY <1>1, <2>1, <2>2, JoinTaskTyped DEF JoinTypes, Join!Everyone
<1>9. CASE Join!Crash(u)
  <2>1. /\ UNCHANGED <<joinKey, joinHeld, joinMember, joinFiles, joinPassed, joinLink>>
        /\ joinLost' = Join!Everyone
    BY <1>9 DEF Join!Crash, Join!team, Join!links
  <2>. QED
    BY <1>1, <2>1, JoinTaskTyped DEF JoinTypes, Join!Everyone
<1>. QED
  BY <1>3, <1>4, <1>5, <1>6, <1>7, <1>8, <1>9 DEF JoinStatement

LEMMA JoinStatementStep ==
  ASSUME JoinInv, NEW u \in Users, JoinStatement(u)
  PROVE  JoinInv'
<1>1. JoinTypes /\ JoinTypes' /\ (joinLost = Join!Everyone => joinLost' = Join!Everyone)
  BY JoinStatementTypes DEF JoinInv
<1>2. CASE joinLost = Join!Everyone
  BY <1>1, <1>2 DEF JoinInv, Join!Everyone
<1>3. CASE Join!Crash(u)
  BY <1>1, <1>3 DEF JoinInv, Join!Everyone, Join!Crash
<1>. QED
  BY <1>2, <1>3, JoinGrantRole, JoinUpdateFiles, JoinDeleteKeys, JoinInsertKeys, JoinSetKey,
     JoinConsumeSlot DEF JoinStatement

-----------------------------------------------------------------------------
(* The others.  What they add while a join writes is lost to it.           *)
LEMMA JoinOthers ==
  ASSUME JoinInv, JoinTypes',
         UNCHANGED <<joinKey, joinTask, joinLink, joinPassed>>,
         joinLost \subseteq joinLost',
         Join!Joining = {} => joinLost' = joinLost,
         (* A user or a file that is not lost is as before, or without the  *)
         (* key, or, with no join writing, gets the team's.                 *)
         \A v \in Users \ joinLost' :
            \/ /\ joinHeld'[v] \in {0, joinHeld[v]}
               /\ v \in joinMember' => joinHeld'[v] = joinHeld[v]
            \/ Join!Joining = {} /\ joinHeld'[v] = joinKey,
         \A v \in joinMember' \ joinLost' :
            v \in joinMember \/ (Join!Joining = {} /\ joinHeld'[v] = joinKey),
         \A f \in Files \ joinLost' :
            joinFiles'[f] = joinFiles[f] \/ (Join!Joining = {} /\ joinFiles'[f] = joinKey)
  PROVE  JoinInv'
<1>. SUFFICES ASSUME joinLost # Join!Everyone PROVE JoinInv'
  <2>1. joinLost = Join!Everyone => joinLost' = Join!Everyone'
    BY DEF JoinTypes, Join!Everyone
  <2>. QED
    BY <2>1 DEF JoinInv
<1>1. JoinTypes /\ JoinLinks'
  BY DEF JoinInv, JoinLinks
<1>2. Join!Joining' = Join!Joining
  BY DEF Join!Joining
<1>3. CASE Join!Joining = {}
  <2>1. JoinBetween
    BY <1>3 DEF JoinInv
  <2>2. JoinHolds(joinKey)'
    BY <1>1, <1>3, <2>1 DEF JoinBetween, JoinHolds, JoinTypes
  <2>3. JoinOpens(joinKey)'
    BY <1>3, <2>1 DEF JoinBetween, JoinOpens, Join!Rows
  <2>4. JoinNoOther(joinKey)'
    BY <1>3, <2>1 DEF JoinBetween, JoinNoOther
  <2>. QED
    BY <1>1, <1>2, <1>3, <2>2, <2>3, <2>4 DEF JoinInv, JoinBetween
<1>4. CASE Join!Joining # {}
  <2>1. \A k : JoinHolds(k) => JoinHolds(k)'
    BY <1>1, <1>4 DEF JoinHolds, JoinTypes
  <2>2. Join!Rows' \ joinLost' \subseteq Join!Rows \ joinLost
    BY <1>4 DEF Join!Rows
  <2>3. \A k : JoinOpens(k) => JoinOpens(k)'
    BY <1>4, <2>2 DEF JoinOpens, Join!Rows
  <2>4. \A k : JoinNoOther(k) => JoinNoOther(k)'
    BY <1>4 DEF JoinNoOther
  <2>5. ASSUME NEW u \in Join!Joining PROVE JoinPhase(u)'
    <3>1. JoinPhase(u)
      BY DEF JoinInv
    <3>. QED
      BY <2>1, <2>2, <2>3, <2>4, <3>1 DEF JoinPhase, JoinBetween, JoinNamed
  <2>. QED
    BY <1>1, <1>2, <1>4, <2>5 DEF JoinInv
<1>. QED
  BY <1>3, <1>4

LEMMA JoinAddFile ==
  ASSUME JoinInv, NEW f \in Files, Join!AddFile(f)
  PROVE  JoinInv'
<1>1. JoinTypes
  BY DEF JoinInv
<1>2. /\ UNCHANGED <<joinKey, joinKeys, joinMember, joinHeld, joinTask, joinLink,
                     joinWraps, joinPassed>>
      /\ joinFiles' = [joinFiles EXCEPT ![f] = joinKey]
      /\ joinLost' = IF Join!Joining = {} THEN joinLost ELSE joinLost \cup {f}
  BY DEF Join!AddFile, Join!Disturbs, Join!links
<1>3. JoinTypes'
  BY <1>1, <1>2 DEF JoinTypes, Join!Everyone
<1>4. \A g \in Files \ joinLost' :
         joinFiles'[g] = joinFiles[g] \/ (Join!Joining = {} /\ joinFiles'[g] = joinKey)
  BY <1>1, <1>2 DEF JoinTypes
<1>. QED
  BY <1>2, <1>3, <1>4, JoinOthers

LEMMA JoinInvite ==
  ASSUME JoinInv, NEW u \in Users, Join!Invite(u)
  PROVE  JoinInv'
<1>1. JoinTypes
  BY DEF JoinInv
<1>2. /\ UNCHANGED <<joinKey, joinKeys, joinFiles, joinTask, joinLink, joinWraps, joinPassed>>
      /\ joinMember' = joinMember \cup {u}
      /\ joinHeld' = [joinHeld EXCEPT ![u] = IF @ = 0 THEN joinKey ELSE @]
      /\ joinLost' = IF Join!Joining = {} THEN joinLost ELSE joinLost \cup {u}
  BY DEF Join!Invite, Join!Disturbs, Join!links
<1>3. JoinTypes'
  BY <1>1, <1>2 DEF JoinTypes, Join!Everyone
<1>4. Join!Joining = {} /\ u \notin joinLost' => joinHeld'[u] = joinKey
  <2>1. Join!Joining = {} /\ u \notin joinLost' => joinHeld[u] \in {0, joinKey}
    BY <1>2 DEF JoinInv, JoinBetween, JoinNoOther, Join!Everyone
  <2>. QED
    BY <1>1, <1>2, <2>1 DEF JoinTypes
<1>5. \A v \in Users \ {u} : joinHeld'[v] = joinHeld[v]
  BY <1>1, <1>2 DEF JoinTypes
<1>6. \A v \in Users \ joinLost' :
         \/ joinHeld'[v] \in {0, joinHeld[v]} /\ (v \in joinMember' => joinHeld'[v] = joinHeld[v])
         \/ Join!Joining = {} /\ joinHeld'[v] = joinKey
  BY <1>2, <1>4, <1>5
<1>7. \A v \in joinMember' \ joinLost' :
         v \in joinMember \/ (Join!Joining = {} /\ joinHeld'[v] = joinKey)
  BY <1>2, <1>4
<1>. QED
  BY <1>2, <1>3, <1>6, <1>7, JoinOthers

LEMMA JoinRemove ==
  ASSUME JoinInv, NEW u \in Users, Join!Remove(u)
  PROVE  JoinInv'
<1>1. JoinTypes
  BY DEF JoinInv
<1>2. /\ UNCHANGED <<joinKey, joinKeys, joinFiles, joinTask, joinLink, joinWraps,
                     joinPassed, joinLost>>
      /\ joinMember' = joinMember \ {u}
      /\ joinHeld' = [joinHeld EXCEPT ![u] = 0]
  BY DEF Join!Remove, Join!links
<1>3. JoinTypes'
  BY <1>1, <1>2 DEF JoinTypes, Join!Everyone
<1>4. \A v \in Users \ joinLost' :
         \/ joinHeld'[v] \in {0, joinHeld[v]} /\ (v \in joinMember' => joinHeld'[v] = joinHeld[v])
         \/ Join!Joining = {} /\ joinHeld'[v] = joinKey
  BY <1>1, <1>2 DEF JoinTypes
<1>. QED
  BY <1>2, <1>3, <1>4, JoinOthers

LEMMA JoinConfirm ==
  ASSUME JoinInv, NEW u \in Users, Join!Confirm(u)
  PROVE  JoinInv'
<1>1. UNCHANGED <<joinKey, joinKeys, joinMember, joinHeld, joinFiles, joinTask, joinLink,
                  joinWraps, joinPassed, joinLost>>
  BY DEF Join!Confirm, Join!links
<1>2. JoinTypes'
  BY <1>1 DEF JoinInv, JoinTypes, Join!Everyone
<1>. QED
  BY <1>1, <1>2, JoinOthers

(* A rotation gives a new key to all, or leaves them to the join it meets. *)
LEMMA JoinRotate ==
  ASSUME JoinInv, Join!Rotate
  PROVE  JoinInv'
<1>. DEFINE k == joinKeys + 1
<1>1. JoinTypes /\ k \in Nat
  BY DEF JoinInv, JoinTypes
<1>2. /\ UNCHANGED <<joinMember, joinTask, joinLink, joinWraps, joinPassed>>
      /\ joinKeys' = k /\ joinKey' = k
      /\ joinFiles' = [f \in Files |-> IF joinFiles[f] = joinKey THEN k ELSE joinFiles[f]]
      /\ joinHeld' = [v \in Users |-> IF v \in joinMember THEN k ELSE 0]
      /\ joinLost' = IF Join!Joining = {} THEN joinLost ELSE joinLost \cup Join!Everyone
  BY DEF Join!Rotate, Join!Disturbs, Join!links
<1>3. JoinTypes'
  <2>1. joinFiles' \in [Files -> Nat] /\ joinHeld' \in [Users -> Nat]
    BY <1>1, <1>2 DEF JoinTypes
  <2>2. joinLost' \subseteq Join!Everyone
    BY <1>1, <1>2 DEF JoinTypes
  <2>. QED
    BY <1>1, <1>2, <2>1, <2>2 DEF JoinTypes, Join!Everyone
<1>4. CASE joinLost' = Join!Everyone
  BY <1>3, <1>4 DEF JoinInv, Join!Everyone
<1>5. CASE joinLost' # Join!Everyone
  <2>1. Join!Joining = {} /\ joinLost # Join!Everyone /\ joinLost' = joinLost
    BY <1>1, <1>2, <1>5 DEF JoinTypes
  <2>2. JoinLinks /\ JoinBetween
    BY <2>1 DEF JoinInv
  <2>3. Join!Joining' = {} /\ JoinLinks'
    BY <1>2, <2>1, <2>2 DEF Join!Joining, JoinLinks
  <2>4. JoinHolds(joinKey)'
    BY <1>1, <1>2 DEF JoinHolds, JoinTypes
  <2>5. JoinNoOther(joinKey)'
    BY <1>2 DEF JoinNoOther
  <2>6. JoinOpens(joinKey)'
    BY <1>1, <1>2, <2>1, <2>2 DEF JoinBetween, JoinOpens, Join!Rows
  <2>. QED
    BY <1>3, <2>3, <2>4, <2>5, <2>6 DEF JoinInv, JoinBetween
<1>. QED
  BY <1>4, <1>5

-----------------------------------------------------------------------------
LEMMA JoinStep ==
  ASSUME JoinInv, [Join!Next]_(Join!vars)
  PROVE  JoinInv'
<1>1. ASSUME NEW l \in Links,
             Join!CreateSlot(l) \/ Join!Expire(l) \/ \E u \in Users : Join!Open(u, l)
      PROVE JoinInv'
  BY <1>1, JoinLinkStep
<1>2. ASSUME NEW u \in Users, Join!FetchLists(u) \/ Join!Check(u) PROVE JoinInv'
  BY <1>2, JoinFetchLists, JoinCheck
<1>3. ASSUME NEW u \in Users, JoinStatement(u) PROVE JoinInv'
  BY <1>3, JoinStatementStep
<1>4. ASSUME NEW u \in Users, Join!Invite(u) \/ Join!Remove(u) \/ Join!Confirm(u) PROVE JoinInv'
  BY <1>4, JoinInvite, JoinRemove, JoinConfirm
<1>5. CASE (\E f \in Files : Join!AddFile(f)) \/ Join!Rotate
  BY <1>5, JoinAddFile, JoinRotate
<1>6. CASE UNCHANGED Join!vars
  <2>1. UNCHANGED <<joinKey, joinKeys, joinMember, joinHeld, joinFiles, joinTask, joinLink,
                    joinWraps, joinPassed, joinLost>>
    BY <1>6 DEF Join!vars, Join!team, Join!links
  <2>2. JoinTypes'
    BY <2>1 DEF JoinInv, JoinTypes, Join!Everyone
  <2>. QED
    BY <2>1, <2>2, JoinOthers
<1>. QED
  BY <1>1, <1>2, <1>3, <1>4, <1>5, <1>6 DEF Join!Next, JoinStatement

(* A join by a link that is done (ephemeral_join) leaves every member and  *)
(* every file with the team's new key and its link used up, whatever the   *)
(* others do between its statements: the users and files that a second     *)
(* writer or a failed statement may have left out are those in lost.       *)
THEOREM JoinWhole == Join!Spec => []JoinIsWhole
<1>1. JoinInv => JoinIsWhole
  <2>1. JoinInv /\ joinLost = Join!Everyone => JoinIsWhole
    BY DEF JoinInv, JoinIsWhole, Join!JoinIsWhole, JoinTypes, Join!Everyone, Join!Rows
  <2>2. JoinInv /\ joinLost # Join!Everyone => JoinIsWhole
    BY DEF JoinInv, JoinIsWhole, Join!JoinIsWhole, JoinBetween, JoinHolds, JoinOpens, JoinLinks
  <2>. QED
    BY <2>1, <2>2
<1>. QED
  BY <1>1, JoinInit, JoinStep, PTL DEF Join!Spec

-----------------------------------------------------------------------------
(* Roles: who is an administrator                                          *)

(* What a request that is about no user still does: it deletes no system   *)
(* role.                                                                   *)
RolePlainItem(x) ==
  /\ x.op \in {"role", "put", "flag", "upsert", "share", "delete"}
  /\ x.op = "delete" => x.arg \notin SystemRoles
  /\ x.op \in {"role", "put"} => DOMAIN x.arg.entries \subseteq RoleFlags
RoleItemsOf(s) == {s[i] : i \in DOMAIN s}
RolePlain(s) == s \in Seq(RoleItemsOf(s)) /\ \A i \in DOMAIN s : RolePlainItem(s[i])

(* A request about a user: his role, and is_admin if it is an admin role.  *)
RoleGrants(role) == <<Role!Do("grant", role)>>
RoleGrantsAdmin(role) == <<Role!Do("grant", role), Role!Do("admin", TRUE)>>
RoleRaises == <<Role!Do("admin", TRUE)>>
RoleRevokes(role) == <<Role!Do("revoke", role)>>
RoleRevokesAdmin(role) ==
  <<Role!Do("revoke", role), Role!Do("look", None), Role!Do("admin", FALSE)>>
RoleLooks == <<Role!Do("look", None), Role!Do("admin", FALSE)>>
RoleLowers == <<Role!Do("admin", FALSE)>>

(* is_admin is right until the role is written; nobody takes his own admin *)
(* role.                                                                   *)
RoleAbout(t) ==
  LET u == t.about
      right == roleIsAdmin[u] = Role!IsAdmin(u)
      still == u \notin roleBlurred IN
  /\ t.by \in Users /\ u \in Users
  /\ \/ /\ still => right
        /\ \/ \E role : role \notin AdminRoles
                        /\ t.todo \in {RoleGrants(role), RoleRevokes(role)}
           \/ \E role \in AdminRoles : t.todo = RoleGrantsAdmin(role)
           \/ \E role \in AdminRoles : t.todo = RoleRevokesAdmin(role) /\ t.by # u
     \/ t.todo = RoleRaises /\ (still => Role!IsAdmin(u))
     \/ t.todo = RoleLooks /\ (still => roleIsAdmin[u])
     \/ t.todo = RoleLowers /\ (still => ~Role!IsAdmin(u))

RoleRecord(t) == {"by", "about", "todo", "unchecked"} \subseteq DOMAIN t

RoleTypes ==
  /\ roleGranted = [u \in Users |-> roleGranted[u]]
  /\ roleIsAdmin \in [Users -> BOOLEAN]
  /\ roleReq = [r \in Requests |-> roleReq[r]]
  /\ \A r \in Requests : RoleRecord(roleReq[r])
  /\ IsFiniteSet(DOMAIN rolePerms)

RoleInv ==
  /\ RoleTypes
  /\ ~roleDeposed => \E u \in Users : RootRole \in roleGranted[u]
  /\ \A r \in Requests :
       \/ roleReq[r].about = None /\ RolePlain(roleReq[r].todo)
       \/ RoleAbout(roleReq[r])
  /\ \A r, q \in Requests :
       r # q /\ roleReq[r].about = roleReq[q].about /\ roleReq[r].about # None
       => roleReq[r].about \in roleBlurred
  /\ \A u \in Users \ roleBlurred :
       (\A r \in Requests : roleReq[r].about # u) => roleIsAdmin[u] = Role!IsAdmin(u)

-----------------------------------------------------------------------------
LEMMA RoleCardinality == \A S : Role!Cardinality(S) = Cardinality(S)
BY DEF Role!Cardinality, Cardinality

LEMMA RoleFinite == \A S : Role!IsFiniteSet(S) <=> IsFiniteSet(S)
BY DEF Role!IsFiniteSet, IsFiniteSet

LEMMA RoleEmpty == RolePlain(<<>>)
<1>. DEFINE s == <<>>
<1>1. s \in Seq(RoleItemsOf(s)) /\ DOMAIN s = {}
  OBVIOUS
<1>. QED
  BY <1>1 DEF RolePlain

(* Sequences of such statements.                                           *)
LEMMA RoleSeq ==
  ASSUME NEW T, NEW s \in Seq(T), \A i \in 1..Len(s) : RolePlainItem(s[i])
  PROVE  RolePlain(s)
<1>. DEFINE S == RoleItemsOf(s)
<1>1. DOMAIN s = 1..Len(s) /\ Len(s) \in Nat /\ s \in [1..Len(s) -> T]
  OBVIOUS
<1>2. \A i \in 1..Len(s) : s[i] \in S
  BY <1>1 DEF RoleItemsOf
<1>. HIDE DEF S
<1>3. s \in [1..Len(s) -> S]
  BY <1>1, <1>2
<1>4. s \in Seq(S)
  BY <1>1, <1>3
<1>. QED
  BY <1>1, <1>4 DEF RolePlain, S

LEMMA RoleMap ==
  ASSUME NEW n \in Nat, NEW s, s = [i \in 1..n |-> s[i]], \A i \in 1..n : RolePlainItem(s[i])
  PROVE  RolePlain(s)
<1>. DEFINE T == RoleItemsOf(s)
<1>1. \A i \in 1..n : s[i] \in T
  BY DEF RoleItemsOf
<1>. HIDE DEF T
<1>2. s \in [1..n -> T]
  BY <1>1
<1>3. s \in Seq(T) /\ Len(s) = n
  BY <1>2
<1>. QED
  BY <1>3, RoleSeq

LEMMA RoleTail ==
  ASSUME NEW s, RolePlain(s), s # <<>>
  PROVE  RolePlainItem(Head(s)) /\ RolePlain(Tail(s))
<1>. DEFINE S == RoleItemsOf(s) t == Tail(s)
<1>0. s \in Seq(S) /\ \A i \in DOMAIN s : RolePlainItem(s[i])
  BY DEF RolePlain
<1>. HIDE DEF S
<1>1. Len(s) \in Nat /\ Len(s) > 0 /\ DOMAIN s = 1..Len(s) /\ Head(s) = s[1]
  BY <1>0
<1>2. t \in Seq(S) /\ Len(t) = Len(s) - 1 /\ \A i \in 1..Len(t) : t[i] = s[i + 1]
  BY <1>0, <1>1
<1>3. \A i \in 1..Len(t) : i + 1 \in DOMAIN s
  BY <1>1, <1>2
<1>. HIDE DEF t
<1>4. RolePlain(t)
  BY <1>0, <1>2, <1>3, RoleSeq
<1>. QED
  BY <1>0, <1>1, <1>4 DEF t

LEMMA RoleConcat ==
  ASSUME NEW s, NEW t, RolePlain(s), RolePlain(t)
  PROVE  RolePlain(s \o t)
<1>. DEFINE S == RoleItemsOf(s) \cup RoleItemsOf(t) c == s \o t
<1>0. s \in Seq(S) /\ t \in Seq(S)
  <2>1. s \in Seq(RoleItemsOf(s)) /\ t \in Seq(RoleItemsOf(t))
    BY DEF RolePlain
  <2>. DEFINE A == RoleItemsOf(s) B == RoleItemsOf(t)
  <2>. HIDE DEF A, B
  <2>2. s \in Seq(A) /\ t \in Seq(B)
    BY <2>1 DEF A, B
  <2>3. s \in Seq(A \cup B) /\ t \in Seq(A \cup B)
    BY <2>2
  <2>. QED
    BY <2>3 DEF A, B
<1>1. (\A i \in DOMAIN s : RolePlainItem(s[i])) /\ (\A i \in DOMAIN t : RolePlainItem(t[i]))
  BY DEF RolePlain
<1>. HIDE DEF S
<1>2. /\ c \in Seq(S) /\ Len(c) = Len(s) + Len(t) /\ Len(s) \in Nat /\ Len(t) \in Nat
      /\ DOMAIN s = 1..Len(s) /\ DOMAIN t = 1..Len(t)
      /\ \A i \in 1..Len(c) : c[i] = IF i <= Len(s) THEN s[i] ELSE t[i - Len(s)]
  BY <1>0
<1>3. \A i \in 1..Len(c) : RolePlainItem(c[i])
  <2>1. ASSUME NEW i \in 1..Len(c), i <= Len(s) PROVE RolePlainItem(c[i])
    BY <1>1, <1>2, <2>1
  <2>2. ASSUME NEW i \in 1..Len(c), ~(i <= Len(s)) PROVE RolePlainItem(c[i])
    <3>1. i - Len(s) \in DOMAIN t
      BY <1>2, <2>2
    <3>. QED
      BY <1>1, <1>2, <2>2, <3>1
  <2>. QED
    BY <2>1, <2>2
<1>. HIDE DEF c
<1>4. RolePlain(c)
  BY <1>2, <1>3, RoleSeq
<1>. QED
  BY <1>4 DEF c

(* An order of a finite set has its elements.                              *)
LEMMA RoleOrder ==
  ASSUME NEW S, IsFiniteSet(S)
  PROVE  LET s == Role!SetSeq(S) IN
         /\ Len(s) \in Nat /\ DOMAIN s = 1..Len(s) /\ \A i \in 1..Len(s) : s[i] \in S
<1>. DEFINE n == Cardinality(S) s == Role!SetSeq(S)
<1>1. n \in Nat /\ ExistsBijection(1..n, S)
  BY FS_CardinalityType
<1>. HIDE DEF n
<1>2. PICK f \in [1..n -> S] : \A x \in S : \E i \in 1..n : f[i] = x
  BY <1>1 DEF ExistsBijection, Bijection, Surjection, Injection
<1>3. s = CHOOSE z \in [1..n -> S] : \A x \in S : \E i \in DOMAIN z : z[i] = x
  BY RoleCardinality DEF Role!SetSeq, n
<1>4. DOMAIN f = 1..n
  BY <1>2
<1>5. s \in [1..n -> S]
  BY <1>2, <1>3, <1>4
<1>. HIDE DEF s
<1>6. s \in Seq(S) /\ Len(s) = n
  BY <1>1, <1>5
<1>. QED
  BY <1>1, <1>5, <1>6 DEF s

LEMMA RoleEach ==
  ASSUME NEW op \in {"flag", "upsert", "share"}, NEW role, NEW entries,
         IsFiniteSet(DOMAIN entries)
  PROVE  RolePlain(Role!Each(op, role, entries))
<1>. DEFINE order == Role!SetSeq(DOMAIN entries)
            n == Len(order)
            s == [i \in 1..n |->
                    Role!Do(op, [role |-> role, flag |-> order[i], entry |-> entries[order[i]]])]
<1>1. n \in Nat
  BY RoleOrder
<1>2. Role!Each(op, role, entries) = s
  BY DEF Role!Each
<1>. HIDE DEF order, n
<1>3. \A i \in 1..n : RolePlainItem(s[i])
  BY DEF RolePlainItem, Role!Do
<1>4. s = [i \in 1..n |-> s[i]]
  OBVIOUS
<1>. HIDE DEF s
<1>. QED
  BY <1>1, <1>2, <1>3, <1>4, RoleMap

LEMMA RoleFlagsFinite == \A S : S \subseteq RoleFlags => IsFiniteSet(S)
BY RolesAssumption, FS_Subset, RoleFinite DEF Role!ConstantsOK

-----------------------------------------------------------------------------
(* The records of requests.                                                *)
LEMMA RoleIdle ==
  /\ RoleRecord(Role!Idle) /\ Role!Idle.about = None /\ Role!Idle.todo = <<>>
  /\ RolePlain(Role!Idle.todo)
<1>1. RoleRecord(Role!Idle) /\ Role!Idle.about = None /\ Role!Idle.todo = <<>>
  BY DEF Role!Idle, RoleRecord
<1>. QED
  BY <1>1, RoleEmpty

LEMMA RoleExcept ==
  ASSUME NEW t, RoleRecord(t), NEW x
  PROVE  LET m == [t EXCEPT !.unchecked = @ \cup x] n == [t EXCEPT !.todo = x] IN
         /\ RoleRecord(m) /\ m.by = t.by /\ m.about = t.about /\ m.todo = t.todo
         /\ RoleRecord(n) /\ n.by = t.by /\ n.about = t.about /\ n.todo = x
BY DEF RoleRecord

LEMMA RoleThen ==
  ASSUME RoleTypes, NEW r \in Requests, NEW mine, NEW touched, RoleRecord(mine),
         Role!Then(r, mine, touched)
  PROVE  /\ roleReq' = [q \in Requests |-> roleReq'[q]]
         /\ \A q \in Requests : RoleRecord(roleReq'[q])
         /\ roleReq'[r] = mine
         /\ \A q \in Requests \ {r} :
              /\ roleReq'[q].by = roleReq[q].by /\ roleReq'[q].about = roleReq[q].about
              /\ roleReq'[q].todo = roleReq[q].todo
<1>1. roleReq' = [q \in Requests |->
            IF q = r THEN mine
            ELSE IF roleReq[q] = Role!Idle THEN Role!Idle
            ELSE [roleReq[q] EXCEPT !.unchecked = @ \cup touched]]
  BY DEF Role!Then
<1>2. ASSUME NEW q \in Requests \ {r}
      PROVE  /\ RoleRecord(roleReq'[q])
             /\ roleReq'[q].by = roleReq[q].by /\ roleReq'[q].about = roleReq[q].about
             /\ roleReq'[q].todo = roleReq[q].todo
  <2>1. CASE roleReq[q] = Role!Idle
    BY <1>1, <2>1, RoleIdle
  <2>2. CASE roleReq[q] # Role!Idle
    <3>. DEFINE t == roleReq[q] n == [t EXCEPT !.unchecked = @ \cup touched]
    <3>1. RoleRecord(t)
      BY DEF RoleTypes
    <3>2. RoleRecord(n) /\ n.by = t.by /\ n.about = t.about /\ n.todo = t.todo
      BY <3>1, RoleExcept
    <3>3. roleReq'[q] = n
      BY <1>1, <2>2
    <3>. HIDE DEF n
    <3>. QED
      BY <3>2, <3>3
  <2>. QED
    BY <2>1, <2>2
<1>3. roleReq' = [q \in Requests |-> roleReq'[q]] /\ roleReq'[r] = mine
  BY <1>1
<1>. QED
  BY <1>2, <1>3

LEMMA RoleLeft ==
  ASSUME RoleTypes, NEW r \in Requests, NEW todo
  PROVE  LET n == Role!Left(r, todo) IN
         /\ RoleRecord(n)
         /\ todo = <<>> => n = Role!Idle
         /\ todo # <<>> => /\ n.by = roleReq[r].by /\ n.about = roleReq[r].about
                           /\ n.todo = todo
<1>. DEFINE n == [roleReq[r] EXCEPT !.todo = todo]
<1>1. RoleRecord(roleReq[r])
  BY DEF RoleTypes
<1>2. RoleRecord(n) /\ n.by = roleReq[r].by /\ n.about = roleReq[r].about /\ n.todo = todo
  BY <1>1, RoleExcept
<1>3. Role!Left(r, todo) = IF todo = <<>> THEN Role!Idle ELSE n
  BY DEF Role!Left
<1>. HIDE DEF n
<1>. QED
  BY <1>2, <1>3, RoleIdle

(* What a request is at says whether it is about a user.                   *)
LEMMA RoleDo ==
  ASSUME NEW op, NEW arg PROVE Role!Do(op, arg).op = op /\ Role!Do(op, arg).arg = arg
BY DEF Role!Do

LEMMA RoleEnds ==
  /\ RoleRaises # <<>> /\ Head(RoleRaises) = Role!Do("admin", TRUE) /\ Tail(RoleRaises) = <<>>
  /\ RoleLooks # <<>> /\ Head(RoleLooks) = Role!Do("look", None) /\ Tail(RoleLooks) = RoleLowers
  /\ RoleLowers # <<>> /\ Head(RoleLowers) = Role!Do("admin", FALSE) /\ Tail(RoleLowers) = <<>>
<1>. DEFINE a == Role!Do("admin", TRUE) k == Role!Do("look", None) z == Role!Do("admin", FALSE)
<1>. HIDE DEF a, k, z
<1>1. /\ <<a>> # <<>> /\ Head(<<a>>) = a /\ Tail(<<a>>) = <<>>
      /\ <<z>> # <<>> /\ Head(<<z>>) = z /\ Tail(<<z>>) = <<>>
      /\ <<k, z>> # <<>> /\ Head(<<k, z>>) = k /\ Tail(<<k, z>>) = <<z>>
  OBVIOUS
<1>. QED
  BY <1>1 DEF a, k, z, RoleRaises, RoleLooks, RoleLowers

LEMMA RoleEndOps ==
  ASSUME NEW todo \in {RoleRaises, RoleLooks, RoleLowers}
  PROVE  /\ Head(todo).op \in {"admin", "look"}
         /\ todo = RoleLooks <=> Head(todo).op = "look"
<1>1. /\ Head(RoleRaises) = Role!Do("admin", TRUE) /\ Head(RoleLooks) = Role!Do("look", None)
      /\ Head(RoleLowers) = Role!Do("admin", FALSE)
  BY RoleEnds
<1>2. /\ Role!Do("admin", TRUE).op = "admin" /\ Role!Do("look", None).op = "look"
      /\ Role!Do("admin", FALSE).op = "admin"
  BY DEF Role!Do
<1>. QED
  BY <1>1, <1>2

LEMMA RoleShapes ==
  ASSUME NEW role
  PROVE  /\ RoleGrants(role) # <<>> /\ Head(RoleGrants(role)) = Role!Do("grant", role)
         /\ Tail(RoleGrants(role)) = <<>>
         /\ RoleGrantsAdmin(role) # <<>> /\ Head(RoleGrantsAdmin(role)) = Role!Do("grant", role)
         /\ Tail(RoleGrantsAdmin(role)) = RoleRaises
         /\ RoleRevokes(role) # <<>> /\ Head(RoleRevokes(role)) = Role!Do("revoke", role)
         /\ Tail(RoleRevokes(role)) = <<>>
         /\ RoleRevokesAdmin(role) # <<>>
         /\ Head(RoleRevokesAdmin(role)) = Role!Do("revoke", role)
         /\ Tail(RoleRevokesAdmin(role)) = RoleLooks
<1>. DEFINE g == Role!Do("grant", role) v == Role!Do("revoke", role) a == Role!Do("admin", TRUE)
            k == Role!Do("look", None) z == Role!Do("admin", FALSE)
<1>. HIDE DEF g, v, a, k, z
<1>1. /\ <<g>> # <<>> /\ Head(<<g>>) = g /\ Tail(<<g>>) = <<>>
      /\ <<a>> # <<>> /\ Head(<<a>>) = a /\ Tail(<<a>>) = <<>>
      /\ <<v>> # <<>> /\ Head(<<v>>) = v /\ Tail(<<v>>) = <<>>
  OBVIOUS
<1>2. /\ <<g, a>> # <<>> /\ Head(<<g, a>>) = g /\ Tail(<<g, a>>) = <<a>>
      /\ <<k, z>> # <<>> /\ Head(<<k, z>>) = k /\ Tail(<<k, z>>) = <<z>>
      /\ <<v, k, z>> # <<>> /\ Head(<<v, k, z>>) = v /\ Tail(<<v, k, z>>) = <<k, z>>
  OBVIOUS
<1>. QED
  BY <1>1, <1>2 DEF g, v, a, k, z, RoleGrants, RoleGrantsAdmin, RoleRaises, RoleRevokes,
                    RoleRevokesAdmin, RoleLooks, RoleLowers

LEMMA RoleAtPlain ==
  ASSUME RoleInv, NEW r \in Requests,
         \E op \in {"role", "put", "flag", "upsert", "share", "delete"} : Role!At(r, op)
  PROVE  /\ roleReq[r].about = None
         /\ RolePlainItem(Head(roleReq[r].todo)) /\ RolePlain(Tail(roleReq[r].todo))
<1>. DEFINE todo == roleReq[r].todo
<1>1. todo # <<>> /\ Head(todo).op \in {"role", "put", "flag", "upsert", "share", "delete"}
  BY DEF Role!At
<1>2. ~RoleAbout(roleReq[r])
  <2>1. ASSUME RoleAbout(roleReq[r])
        PROVE  \/ \E role : todo \in {RoleGrants(role), RoleRevokes(role),
                                      RoleGrantsAdmin(role), RoleRevokesAdmin(role)}
               \/ todo \in {RoleRaises, RoleLooks, RoleLowers}
    BY <2>1 DEF RoleAbout
  <2>2. ASSUME NEW role, todo \in {RoleGrants(role), RoleRevokes(role),
                                   RoleGrantsAdmin(role), RoleRevokesAdmin(role)}
        PROVE  Head(todo).op \in {"grant", "revoke"}
    <3>1. Head(todo) \in {Role!Do("grant", role), Role!Do("revoke", role)}
      BY <2>2, RoleShapes
    <3>. QED
      BY <3>1 DEF Role!Do
  <2>3. ASSUME todo \in {RoleRaises, RoleLooks, RoleLowers}
        PROVE  Head(todo).op \in {"admin", "look"}
    BY <2>3, RoleEndOps
  <2>. QED
    BY <1>1, <2>1, <2>2, <2>3
<1>3. roleReq[r].about = None /\ RolePlain(todo)
  BY <1>2 DEF RoleInv
<1>. QED
  BY <1>1, <1>3, RoleTail

LEMMA RoleAtAbout ==
  ASSUME RoleInv, NEW r \in Requests,
         \E op \in {"grant", "revoke", "look", "admin"} : Role!At(r, op)
  PROVE  RoleAbout(roleReq[r])
<1>. DEFINE todo == roleReq[r].todo
<1>1. todo # <<>> /\ Head(todo).op \in {"grant", "revoke", "look", "admin"}
  BY DEF Role!At
<1>2. ~RolePlain(todo)
  BY <1>1, RoleTail DEF RolePlainItem
<1>. QED
  BY <1>2 DEF RoleInv

(* Who has admin roles depends on the system roles users have.             *)
LEMMA RoleSystem ==
  ASSUME NEW u \in Users,
         roleGranted'[u] \cap SystemRoles = roleGranted[u] \cap SystemRoles
  PROVE  /\ Role!IsAdmin(u)' = Role!IsAdmin(u)
         /\ RootRole \in roleGranted'[u] <=> RootRole \in roleGranted[u]
BY RolesAssumption DEF Role!ConstantsOK, Role!IsAdmin

LEMMA RoleAboutKept ==
  ASSUME NEW q \in Requests, RoleAbout(roleReq[q]), roleReq'[q].by = roleReq[q].by,
         roleReq'[q].about = roleReq[q].about, roleReq'[q].todo = roleReq[q].todo,
         \A u \in Users \ roleBlurred' :
           u = roleReq[q].about =>
             /\ u \notin roleBlurred /\ roleIsAdmin'[u] = roleIsAdmin[u]
             /\ Role!IsAdmin(u)' = Role!IsAdmin(u)
  PROVE  RoleAbout(roleReq[q])'
<1>. DEFINE u == roleReq[q].about
<1>1. u \in Users /\ u = roleReq'[q].about
  BY DEF RoleAbout
<1>2. CASE u \in roleBlurred'
  BY <1>1, <1>2 DEF RoleAbout
<1>3. CASE u \notin roleBlurred'
  <2>1. /\ u \notin roleBlurred /\ roleIsAdmin'[u] = roleIsAdmin[u]
        /\ Role!IsAdmin(u)' = Role!IsAdmin(u)
    BY <1>1, <1>3
  <2>2. Role!IsAdmin(roleReq[q].about)' = Role!IsAdmin(u)
    BY <1>1, <2>1 DEF Role!IsAdmin
  <2>. QED
    BY <1>1, <1>3, <2>1, <2>2 DEF RoleAbout
<1>. QED
  BY <1>2, <1>3

-----------------------------------------------------------------------------
(* A statement that is about no user.                                      *)
LEMMA RolePlainStep ==
  ASSUME RoleInv, NEW r \in Requests, NEW mine, NEW touched, Role!Then(r, mine, touched),
         roleReq[r].about = None, RoleRecord(mine), mine.about = None, RolePlain(mine.todo),
         UNCHANGED <<roleIsAdmin, roleBlurred, roleDeposed>>, IsFiniteSet(DOMAIN rolePerms'),
         roleGranted' = [u \in Users |-> roleGranted'[u]],
         \A u \in Users : roleGranted'[u] \cap SystemRoles = roleGranted[u] \cap SystemRoles
  PROVE  RoleInv'
<1>0. RoleTypes
  BY DEF RoleInv
<1>1. /\ roleReq' = [q \in Requests |-> roleReq'[q]]
      /\ \A q \in Requests : RoleRecord(roleReq'[q])
      /\ roleReq'[r] = mine
      /\ \A q \in Requests \ {r} :
           /\ roleReq'[q].by = roleReq[q].by /\ roleReq'[q].about = roleReq[q].about
           /\ roleReq'[q].todo = roleReq[q].todo
  BY <1>0, RoleThen
<1>2. RoleTypes'
  BY <1>0, <1>1 DEF RoleTypes
<1>3. /\ \A u \in Users : Role!IsAdmin(u)' = Role!IsAdmin(u)
      /\ \A u \in Users : RootRole \in roleGranted'[u] <=> RootRole \in roleGranted[u]
  BY RoleSystem
<1>4. \A q \in Requests : roleReq'[q].about = roleReq[q].about
  BY <1>1
<1>5. ASSUME NEW q \in Requests
      PROVE \/ roleReq'[q].about = None /\ RolePlain(roleReq'[q].todo)
            \/ RoleAbout(roleReq[q])'
  <2>1. CASE q = r
    BY <1>1, <2>1
  <2>2. CASE q # r /\ ~RoleAbout(roleReq[q])
    BY <1>1, <2>2 DEF RoleInv
  <2>3. CASE q # r /\ RoleAbout(roleReq[q])
    <3>1. roleReq[q].about \in Users
      BY <2>3 DEF RoleAbout
    <3>. QED
      BY <1>1, <1>3, <2>3, <3>1, RoleAboutKept
  <2>. QED
    BY <2>1, <2>2, <2>3
<1>6. (~roleDeposed => \E u \in Users : RootRole \in roleGranted[u])'
  BY <1>3 DEF RoleInv
<1>7. /\ \A q, p \in Requests :
           p # q /\ roleReq'[p].about = roleReq'[q].about /\ roleReq'[p].about # None
           => roleReq'[p].about \in roleBlurred'
      /\ \A u \in Users \ roleBlurred' :
           (\A q \in Requests : roleReq'[q].about # u) => roleIsAdmin'[u] = Role!IsAdmin(u)'
  BY <1>3, <1>4 DEF RoleInv
<1>. QED
  BY <1>2, <1>5, <1>6, <1>7 DEF RoleInv

(* A statement about a user.                                               *)
LEMMA RoleAboutStep ==
  ASSUME RoleInv, NEW r \in Requests, NEW mine, NEW touched, Role!Then(r, mine, touched),
         RoleAbout(roleReq[r]), RoleRecord(mine),
         UNCHANGED <<rolePerms, roleBlurred>>,
         roleGranted' = [u \in Users |-> roleGranted'[u]], roleIsAdmin' \in [Users -> BOOLEAN],
         \A u \in Users : u # roleReq[r].about =>
           roleGranted'[u] = roleGranted[u] /\ roleIsAdmin'[u] = roleIsAdmin[u],
         ~roleDeposed' => \E u \in Users : RootRole \in roleGranted'[u],
         mine.about = roleReq[r].about => RoleAbout(roleReq[r])',
         mine.about # roleReq[r].about =>
           /\ mine.about = None /\ RolePlain(mine.todo)
           /\ roleReq[r].about \notin roleBlurred =>
                roleIsAdmin'[roleReq[r].about]
                = (roleGranted'[roleReq[r].about] \cap AdminRoles # {})
  PROVE  RoleInv'
<1>. DEFINE v == roleReq[r].about
<1>0. RoleTypes /\ v \in Users
  BY DEF RoleInv, RoleAbout
<1>1. /\ roleReq' = [q \in Requests |-> roleReq'[q]]
      /\ \A q \in Requests : RoleRecord(roleReq'[q])
      /\ roleReq'[r] = mine
      /\ \A q \in Requests \ {r} :
           /\ roleReq'[q].by = roleReq[q].by /\ roleReq'[q].about = roleReq[q].about
           /\ roleReq'[q].todo = roleReq[q].todo
  BY <1>0, RoleThen
<1>2. RoleTypes'
  BY <1>0, <1>1 DEF RoleTypes
<1>3. \A u \in Users : u # v => Role!IsAdmin(u)' = Role!IsAdmin(u)
  BY DEF Role!IsAdmin
<1>4. None \notin Users
  BY RolesAssumption DEF Role!ConstantsOK
<1>5. ASSUME NEW q \in Requests
      PROVE \/ roleReq'[q].about = None /\ RolePlain(roleReq'[q].todo)
            \/ RoleAbout(roleReq[q])'
  <2>1. CASE q = r
    BY <1>1, <2>1
  <2>2. CASE q # r /\ ~RoleAbout(roleReq[q])
    BY <1>1, <2>2 DEF RoleInv
  <2>3. CASE q # r /\ RoleAbout(roleReq[q])
    <3>1. roleReq[q].about \in Users
      BY <2>3 DEF RoleAbout
    <3>2. roleReq[q].about = v => v \in roleBlurred
      BY <1>0, <1>4, <2>3 DEF RoleInv
    <3>. QED
      BY <1>1, <1>3, <2>3, <3>1, <3>2, RoleAboutKept
  <2>. QED
    BY <2>1, <2>2, <2>3
<1>6. ASSUME NEW q \in Requests, NEW p \in Requests,
             p # q, roleReq'[p].about = roleReq'[q].about, roleReq'[p].about # None
      PROVE  roleReq'[p].about \in roleBlurred'
  <2>1. roleReq'[p].about = roleReq[p].about /\ roleReq'[q].about = roleReq[q].about
    BY <1>1, <1>6
  <2>. QED
    BY <1>6, <2>1 DEF RoleInv
<1>7. ASSUME NEW u \in Users \ roleBlurred', \A q \in Requests : roleReq'[q].about # u
      PROVE  roleIsAdmin'[u] = Role!IsAdmin(u)'
  <2>1. CASE u = v
    <3>1. mine.about # v
      BY <1>1, <1>7, <2>1
    <3>. QED
      BY <1>7, <2>1, <3>1 DEF Role!IsAdmin
  <2>2. CASE u # v
    <3>1. \A q \in Requests : roleReq[q].about # u
      BY <1>1, <1>7, <2>2
    <3>. QED
      BY <1>3, <2>2, <3>1 DEF RoleInv
  <2>. QED
    BY <2>1, <2>2
<1>. QED
  BY <1>2, <1>5, <1>6, <1>7 DEF RoleInv

LEMMA RoleGrantWrite ==
  ASSUME RoleInv, NEW r \in Requests, Role!GrantWrite(r)
  PROVE  RoleInv'
<1>. DEFINE t == roleReq[r] u == t.about role == Head(t.todo).arg rest == Tail(t.todo)
            mine == IF role \in Role!Roles THEN Role!Left(r, rest) ELSE Role!Idle
<1>1. Role!At(r, "grant") /\ RoleAbout(t) /\ RoleTypes /\ u \in Users
  <2>1. Role!At(r, "grant")
    BY DEF Role!GrantWrite
  <2>. QED
    BY <2>1, RoleAtAbout DEF RoleInv, RoleAbout
<1>2. /\ roleGranted' = IF role \in Role!Roles
                        THEN [roleGranted EXCEPT ![u] = @ \cup {role}] ELSE roleGranted
      /\ Role!Then(r, mine, {})
      /\ UNCHANGED <<rolePerms, roleIsAdmin, roleBlurred, roleDeposed>>
  BY DEF Role!GrantWrite, Role!Arg, Role!Rest, Role!history
<1>3. /\ u \notin roleBlurred => roleIsAdmin[u] = Role!IsAdmin(u)
      /\ \/ role \notin AdminRoles /\ rest = <<>>
         \/ role \in AdminRoles /\ rest = RoleRaises
  <2>1. Head(t.todo).op = "grant"
    BY <1>1 DEF Role!At
  <2>2. t.todo \notin {RoleRaises, RoleLooks, RoleLowers}
    BY <2>1, RoleEndOps
  <2>3. PICK x : \/ x \notin AdminRoles /\ t.todo \in {RoleGrants(x), RoleRevokes(x)}
                 \/ x \in AdminRoles /\ t.todo \in {RoleGrantsAdmin(x), RoleRevokesAdmin(x)}
    BY <1>1, <2>2 DEF RoleAbout
  <2>4. t.todo \notin {RoleRevokes(x), RoleRevokesAdmin(x)}
    <3>1. Role!Do("revoke", x).op = "revoke"
      BY RoleDo
    <3>. QED
      BY <2>1, <3>1, RoleShapes
  <2>5. Role!Do("grant", x).arg = x
    BY RoleDo
  <2>6. \/ role \notin AdminRoles /\ rest = <<>>
        \/ role \in AdminRoles /\ rest = RoleRaises
    BY <2>3, <2>4, <2>5, RoleShapes
  <2>. QED
    BY <1>1, <2>2, <2>6 DEF RoleAbout
<1>4. /\ roleGranted' = [x \in Users |-> roleGranted'[x]]
      /\ \A x \in Users : x # u => roleGranted'[x] = roleGranted[x]
      /\ \A x \in Users : roleGranted[x] \subseteq roleGranted'[x]
      /\ role \in Role!Roles => roleGranted'[u] = roleGranted[u] \cup {role}
      /\ role \notin Role!Roles => roleGranted'[u] = roleGranted[u]
  BY <1>1, <1>2 DEF RoleTypes
<1>5. RoleRecord(mine) /\ (mine.about # u => mine = Role!Idle)
  BY <1>1, RoleLeft, RoleIdle
<1>6. ~roleDeposed' => \E x \in Users : RootRole \in roleGranted'[x]
  BY <1>2, <1>4 DEF RoleInv
<1>7. None \notin Users
  BY RolesAssumption DEF Role!ConstantsOK
<1>8. ASSUME mine.about = u PROVE RoleAbout(roleReq[r])'
  <2>1. mine # Role!Idle
    BY <1>1, <1>7, <1>8, RoleIdle
  <2>2. role \in Role!Roles /\ rest # <<>>
    BY <1>1, <2>1, RoleLeft
  <2>3. mine.by = t.by /\ mine.todo = RoleRaises /\ role \in AdminRoles
    BY <1>1, <1>3, <2>2, RoleLeft
  <2>4. roleReq'[r] = mine
    BY <1>1, <1>2, <1>5, RoleThen
  <2>5. roleGranted'[u] \cap AdminRoles # {}
    BY <1>4, <2>2, <2>3
  <2>. QED
    BY <1>1, <1>8, <2>3, <2>4, <2>5 DEF RoleAbout, Role!IsAdmin
<1>9. ASSUME mine.about # u, u \notin roleBlurred 
      PROVE  roleIsAdmin'[u] = (roleGranted'[u] \cap AdminRoles # {})
  <2>1. role \notin Role!Roles \/ role \notin AdminRoles
    <3>1. role \in Role!Roles /\ role \in AdminRoles => mine = Role!Left(r, rest) /\ rest # <<>>
      BY <1>3, RoleEnds
    <3>. QED
      BY <1>1, <1>9, <3>1, RoleLeft
  <2>2. roleGranted'[u] \cap AdminRoles = roleGranted[u] \cap AdminRoles
    BY <1>4, <2>1
  <2>. QED
    BY <1>2, <1>3, <1>9, <2>2 DEF Role!IsAdmin
<1>. HIDE DEF mine
<1>. QED
  BY <1>1, <1>2, <1>4, <1>5, <1>6, <1>8, <1>9, RoleAboutStep, RoleIdle DEF RoleTypes

LEMMA RoleRevokeWrite ==
  ASSUME RoleInv, NEW r \in Requests, Role!RevokeWrite(r)
  PROVE  RoleInv'
<1>. DEFINE t == roleReq[r] u == t.about role == Head(t.todo).arg rest == Tail(t.todo)
            mine == IF role \in roleGranted[u] THEN Role!Left(r, rest) ELSE Role!Idle
<1>1. Role!At(r, "revoke") /\ RoleAbout(t) /\ RoleTypes /\ u \in Users /\ t.by \in Users
  <2>1. Role!At(r, "revoke")
    BY DEF Role!RevokeWrite
  <2>. QED
    BY <2>1, RoleAtAbout DEF RoleInv, RoleAbout
<1>2. /\ roleGranted' = [roleGranted EXCEPT ![u] = @ \ {role}]
      /\ Role!Then(r, mine, {})
      /\ roleDeposed' = (roleDeposed \/ (role = RootRole /\ RootRole \notin roleGranted[t.by]))
      /\ UNCHANGED <<rolePerms, roleIsAdmin, roleBlurred>>
  BY DEF Role!RevokeWrite, Role!Arg, Role!Rest
<1>3. /\ u \notin roleBlurred => roleIsAdmin[u] = Role!IsAdmin(u)
      /\ \/ role \notin AdminRoles /\ rest = <<>>
         \/ role \in AdminRoles /\ rest = RoleLooks /\ t.by # u
  <2>1. Head(t.todo).op = "revoke"
    BY <1>1 DEF Role!At
  <2>2. t.todo \notin {RoleRaises, RoleLooks, RoleLowers}
    BY <2>1, RoleEndOps
  <2>3. PICK x : \/ x \notin AdminRoles /\ t.todo \in {RoleGrants(x), RoleRevokes(x)}
                 \/ x \in AdminRoles /\ t.todo = RoleGrantsAdmin(x)
                 \/ x \in AdminRoles /\ t.todo = RoleRevokesAdmin(x) /\ t.by # u
    BY <1>1, <2>2 DEF RoleAbout
  <2>4. t.todo \notin {RoleGrants(x), RoleGrantsAdmin(x)}
    <3>1. Role!Do("grant", x).op = "grant"
      BY RoleDo
    <3>. QED
      BY <2>1, <3>1, RoleShapes
  <2>5. Role!Do("revoke", x).arg = x
    BY RoleDo
  <2>6. \/ role \notin AdminRoles /\ rest = <<>>
        \/ role \in AdminRoles /\ rest = RoleLooks /\ t.by # u
    BY <2>3, <2>4, <2>5, RoleShapes
  <2>. QED
    BY <1>1, <2>2, <2>6 DEF RoleAbout
<1>4. /\ roleGranted' = [x \in Users |-> roleGranted'[x]]
      /\ \A x \in Users : x # u => roleGranted'[x] = roleGranted[x]
      /\ roleGranted'[u] = roleGranted[u] \ {role}
  BY <1>1, <1>2 DEF RoleTypes
<1>5. RoleRecord(mine) /\ (mine.about # u => mine = Role!Idle)
  BY <1>1, RoleLeft, RoleIdle
<1>6. ASSUME ~roleDeposed' PROVE \E x \in Users : RootRole \in roleGranted'[x]
  <2>1. PICK x \in Users : RootRole \in roleGranted[x]
    BY <1>2, <1>6 DEF RoleInv
  <2>2. CASE role # RootRole
    BY <1>4, <2>1, <2>2
  <2>3. CASE role = RootRole
    <3>1. RootRole \in roleGranted[t.by] /\ t.by # u
      BY <1>2, <1>3, <1>6, <2>3, RolesAssumption DEF Role!ConstantsOK
    <3>. QED
      BY <1>1, <1>4, <3>1
  <2>. QED
    BY <2>2, <2>3
<1>7. None \notin Users
  BY RolesAssumption DEF Role!ConstantsOK
<1>8. ASSUME mine.about = u PROVE RoleAbout(roleReq[r])'
  <2>1. mine # Role!Idle
    BY <1>1, <1>7, <1>8, RoleIdle
  <2>2. role \in roleGranted[u] /\ rest # <<>>
    BY <1>1, <2>1, RoleLeft
  <2>3. mine.by = t.by /\ mine.todo = RoleLooks /\ role \in AdminRoles
    BY <1>1, <1>3, <2>2, RoleLeft
  <2>4. roleReq'[r] = mine
    BY <1>1, <1>2, <1>5, RoleThen
  <2>5. u \notin roleBlurred => roleIsAdmin[u]
    BY <1>3, <2>2, <2>3 DEF Role!IsAdmin
  <2>. QED
    BY <1>1, <1>2, <1>8, <2>3, <2>4, <2>5 DEF RoleAbout
<1>9. ASSUME mine.about # u, u \notin roleBlurred
      PROVE  roleIsAdmin'[u] = (roleGranted'[u] \cap AdminRoles # {})
  <2>1. role \notin roleGranted[u] \/ role \notin AdminRoles
    <3>1. role \in roleGranted[u] /\ role \in AdminRoles
          => mine = Role!Left(r, rest) /\ rest # <<>>
      BY <1>3, RoleEnds
    <3>. QED
      BY <1>1, <1>9, <3>1, RoleLeft
  <2>2. roleGranted'[u] \cap AdminRoles = roleGranted[u] \cap AdminRoles
    BY <1>4, <2>1
  <2>. QED
    BY <1>2, <1>3, <1>9, <2>2 DEF Role!IsAdmin
<1>. HIDE DEF mine
<1>. QED
  BY <1>1, <1>2, <1>4, <1>5, <1>6, <1>8, <1>9, RoleAboutStep, RoleIdle DEF RoleTypes

LEMMA RoleLookAdmin ==
  ASSUME RoleInv, NEW r \in Requests, Role!LookAdmin(r)
  PROVE  RoleInv'
<1>. DEFINE t == roleReq[r] u == t.about rest == Tail(t.todo)
            mine == IF Role!IsAdmin(u) THEN Role!Idle ELSE Role!Left(r, rest)
<1>1. Role!At(r, "look") /\ RoleAbout(t) /\ RoleTypes /\ u \in Users
  <2>1. Role!At(r, "look")
    BY DEF Role!LookAdmin
  <2>. QED
    BY <2>1, RoleAtAbout DEF RoleInv, RoleAbout
<1>2. /\ Role!Then(r, mine, {})
      /\ UNCHANGED <<rolePerms, roleGranted, roleIsAdmin, roleBlurred, roleDeposed>>
  BY DEF Role!LookAdmin, Role!Another, Role!Rest, Role!history
<1>3. t.todo = RoleLooks /\ rest = RoleLowers /\ (u \notin roleBlurred => roleIsAdmin[u])
  <2>1. Head(t.todo).op = "look"
    BY <1>1 DEF Role!At
  <2>2. \A x : t.todo \notin {RoleGrants(x), RoleGrantsAdmin(x),
                              RoleRevokes(x), RoleRevokesAdmin(x)}
    <3>1. ASSUME NEW x
          PROVE  t.todo \notin {RoleGrants(x), RoleGrantsAdmin(x),
                                 RoleRevokes(x), RoleRevokesAdmin(x)}
      <4>1. Role!Do("revoke", x).op = "revoke" /\ Role!Do("grant", x).op = "grant"
        BY RoleDo
      <4>. QED
        BY <2>1, <4>1, RoleShapes
    <3>. QED
      BY <3>1
  <2>3. t.todo \in {RoleRaises, RoleLooks, RoleLowers}
    BY <1>1, <2>2 DEF RoleAbout
  <2>4. t.todo = RoleLooks
    BY <2>1, <2>3, RoleEndOps
  <2>5. RoleLooks # RoleRaises /\ RoleLooks # RoleLowers
    BY RoleEndOps, RoleEnds, RoleDo DEF Role!Do
  <2>. QED
    BY <1>1, <2>2, <2>4, <2>5, RoleEnds DEF RoleAbout
<1>4. RoleRecord(mine) /\ (mine.about # u => mine = Role!Idle)
  BY <1>1, RoleLeft, RoleIdle
<1>5. None \notin Users
  BY RolesAssumption DEF Role!ConstantsOK
<1>6. ASSUME mine.about = u PROVE RoleAbout(roleReq[r])'
  <2>1. ~Role!IsAdmin(u)
    BY <1>1, <1>5, <1>6, RoleIdle
  <2>2. mine.by = t.by /\ mine.todo = RoleLowers
    BY <1>1, <1>3, <2>1, RoleLeft, RoleEnds
  <2>3. roleReq'[r] = mine
    BY <1>1, <1>2, <1>4, RoleThen
  <2>. QED
    BY <1>1, <1>2, <1>6, <2>1, <2>2, <2>3 DEF RoleAbout, Role!IsAdmin
<1>7. ASSUME mine.about # u, u \notin roleBlurred
      PROVE  roleIsAdmin'[u] = (roleGranted'[u] \cap AdminRoles # {})
  <2>1. Role!IsAdmin(u)
    BY <1>1, <1>3, <1>7, RoleLeft, RoleEnds
  <2>. QED
    BY <1>2, <1>3, <1>7, <2>1 DEF Role!IsAdmin
<1>8. ~roleDeposed' => \E x \in Users : RootRole \in roleGranted'[x]
  BY <1>2 DEF RoleInv
<1>. HIDE DEF mine
<1>. QED
  BY <1>1, <1>2, <1>4, <1>6, <1>7, <1>8, RoleAboutStep, RoleIdle DEF RoleTypes

LEMMA RoleSetAdmin ==
  ASSUME RoleInv, NEW r \in Requests, Role!SetAdmin(r)
  PROVE  RoleInv'
<1>. DEFINE t == roleReq[r] u == t.about
<1>1. Role!At(r, "admin") /\ RoleAbout(t) /\ RoleTypes /\ u \in Users
  <2>1. Role!At(r, "admin")
    BY DEF Role!SetAdmin
  <2>. QED
    BY <2>1, RoleAtAbout DEF RoleInv, RoleAbout
<1>2. /\ Role!Then(r, Role!Left(r, Tail(t.todo)), {})
      /\ roleIsAdmin' = [roleIsAdmin EXCEPT ![u] = Head(t.todo).arg]
      /\ UNCHANGED <<rolePerms, roleGranted, roleBlurred, roleDeposed>>
  BY DEF Role!SetAdmin, Role!Arg, Role!Rest, Role!history
<1>3. /\ Tail(t.todo) = <<>> /\ Head(t.todo).arg \in BOOLEAN
      /\ u \notin roleBlurred => Head(t.todo).arg = Role!IsAdmin(u)
  <2>1. Head(t.todo).op = "admin"
    BY <1>1 DEF Role!At
  <2>2. \A x : t.todo \notin {RoleGrants(x), RoleGrantsAdmin(x),
                              RoleRevokes(x), RoleRevokesAdmin(x)}
    <3>1. ASSUME NEW x
          PROVE  t.todo \notin {RoleGrants(x), RoleGrantsAdmin(x),
                                 RoleRevokes(x), RoleRevokesAdmin(x)}
      <4>1. Role!Do("revoke", x).op = "revoke" /\ Role!Do("grant", x).op = "grant"
        BY RoleDo
      <4>. QED
        BY <2>1, <4>1, RoleShapes
    <3>. QED
      BY <3>1
  <2>3. t.todo # RoleLooks
    BY <2>1, RoleEndOps
  <2>4. CASE t.todo = RoleRaises /\ (u \notin roleBlurred => Role!IsAdmin(u))
    <3>1. Head(t.todo).arg = TRUE /\ Tail(t.todo) = <<>>
      BY <2>4, RoleEnds DEF Role!Do
    <3>. QED
      BY <2>4, <3>1 DEF Role!IsAdmin
  <2>5. CASE t.todo = RoleLowers /\ (u \notin roleBlurred => ~Role!IsAdmin(u))
    <3>1. Head(t.todo).arg = FALSE /\ Tail(t.todo) = <<>>
      BY <2>5, RoleEnds DEF Role!Do
    <3>. QED
      BY <2>5, <3>1 DEF Role!IsAdmin
  <2>. QED
    BY <1>1, <2>2, <2>3, <2>4, <2>5 DEF RoleAbout
<1>4. Role!Then(r, Role!Idle, {})
  BY <1>1, <1>2, <1>3, RoleLeft
<1>5. /\ roleIsAdmin' \in [Users -> BOOLEAN] /\ roleIsAdmin'[u] = Head(t.todo).arg
      /\ \A x \in Users : x # u => roleIsAdmin'[x] = roleIsAdmin[x]
  BY <1>1, <1>2, <1>3 DEF RoleTypes
<1>6. u \notin roleBlurred => roleIsAdmin'[u] = (roleGranted'[u] \cap AdminRoles # {})
  BY <1>2, <1>3, <1>5 DEF Role!IsAdmin
<1>7. u # None
  BY <1>1, RolesAssumption DEF Role!ConstantsOK
<1>8. ~roleDeposed' => \E x \in Users : RootRole \in roleGranted'[x]
  BY <1>2 DEF RoleInv
<1>. QED
  BY <1>1, <1>2, <1>4, <1>5, <1>6, <1>7, <1>8, RoleAboutStep, RoleIdle DEF RoleTypes

(* A request that stops leaves whom it was about to be looked at by hand.  *)
LEMMA RoleCut ==
  ASSUME RoleInv, NEW r \in Requests, Role!Cut(r)
  PROVE  RoleInv'
<1>. DEFINE v == roleReq[r].about
<1>0. RoleTypes
  BY DEF RoleInv
<1>1. /\ Role!Then(r, Role!Idle, {})
      /\ roleBlurred' = roleBlurred \cup ({v} \cap Users)
      /\ UNCHANGED <<rolePerms, roleGranted, roleIsAdmin, roleDeposed>>
  BY DEF Role!Cut
<1>2. /\ roleReq' = [q \in Requests |-> roleReq'[q]]
      /\ \A q \in Requests : RoleRecord(roleReq'[q])
      /\ roleReq'[r] = Role!Idle
      /\ \A q \in Requests \ {r} :
           /\ roleReq'[q].by = roleReq[q].by /\ roleReq'[q].about = roleReq[q].about
           /\ roleReq'[q].todo = roleReq[q].todo
  BY <1>0, <1>1, RoleThen, RoleIdle
<1>3. RoleTypes'
  BY <1>0, <1>1, <1>2 DEF RoleTypes
<1>4. \A u : Role!IsAdmin(u)' = Role!IsAdmin(u)
  BY <1>1 DEF Role!IsAdmin
<1>5. ASSUME NEW q \in Requests
      PROVE \/ roleReq'[q].about = None /\ RolePlain(roleReq'[q].todo)
            \/ RoleAbout(roleReq[q])'
  <2>1. CASE q = r
    BY <1>2, <2>1, RoleIdle
  <2>2. CASE q # r /\ ~RoleAbout(roleReq[q])
    BY <1>2, <2>2 DEF RoleInv
  <2>3. CASE q # r /\ RoleAbout(roleReq[q])
    BY <1>1, <1>2, <1>4, <2>3, RoleAboutKept
  <2>. QED
    BY <2>1, <2>2, <2>3
<1>6. ASSUME NEW q \in Requests, NEW p \in Requests,
             p # q, roleReq'[p].about = roleReq'[q].about, roleReq'[p].about # None
      PROVE  roleReq'[p].about \in roleBlurred'
  <2>1. roleReq'[p].about = roleReq[p].about /\ roleReq'[q].about = roleReq[q].about
    BY <1>2, <1>6, RoleIdle
  <2>. QED
    BY <1>1, <1>6, <2>1 DEF RoleInv
<1>7. ASSUME NEW u \in Users \ roleBlurred', \A q \in Requests : roleReq'[q].about # u
      PROVE  roleIsAdmin'[u] = Role!IsAdmin(u)'
  <2>1. \A q \in Requests : roleReq[q].about # u
    BY <1>1, <1>2, <1>7
  <2>. QED
    BY <1>1, <1>4, <2>1, <1>7 DEF RoleInv
<1>8. (~roleDeposed => \E u \in Users : RootRole \in roleGranted[u])'
  BY <1>1 DEF RoleInv
<1>. QED
  BY <1>3, <1>5, <1>6, <1>7, <1>8 DEF RoleInv

-----------------------------------------------------------------------------
(* Statements about no user.                                               *)
LEMMA RolePutRole ==
  ASSUME RoleInv, NEW r \in Requests, Role!PutRole(r)
  PROVE  RoleInv'
<1>. DEFINE todo == roleReq[r].todo arg == Head(todo).arg
            flags == Role!Each(IF Role!At(r, "role") THEN "flag" ELSE "upsert",
                               arg.role, arg.entries)
            mine == IF Role!At(r, "role") /\ arg.role \in Role!Roles
                    THEN Role!Idle ELSE Role!Left(r, flags \o Tail(todo))
<1>1. /\ Role!At(r, "role") \/ Role!At(r, "put")
      /\ rolePerms' = [s \in Role!Roles \cup {arg.role} |->
                         IF s \in Role!Roles THEN rolePerms[s] ELSE <<>>]
      /\ Role!Then(r, mine, {})
      /\ UNCHANGED <<roleGranted, roleIsAdmin, roleBlurred, roleDeposed>>
  BY DEF Role!PutRole, Role!Arg, Role!history
<1>2. RoleTypes /\ roleReq[r].about = None /\ RolePlainItem(Head(todo)) /\ RolePlain(Tail(todo))
  BY <1>1, RoleAtPlain DEF RoleInv
<1>3. RolePlain(flags \o Tail(todo))
  <2>1. IsFiniteSet(DOMAIN arg.entries)
    BY <1>1, <1>2, RoleFlagsFinite DEF RolePlainItem, Role!At
  <2>2. RolePlain(flags)
    BY <2>1, RoleEach
  <2>. QED
    BY <1>2, <2>2, RoleConcat
<1>4. RoleRecord(mine) /\ mine.about = None /\ RolePlain(mine.todo)
  <2>. DEFINE left == flags \o Tail(todo)
  <2>. HIDE DEF left
  <2>1. LET n == Role!Left(r, left) IN RoleRecord(n) /\ n.about = None /\ RolePlain(n.todo)
    BY <1>2, <1>3, RoleLeft, RoleIdle DEF left
  <2>. QED
    BY <2>1, RoleIdle DEF left
<1>5. IsFiniteSet(DOMAIN rolePerms')
  <2>1. DOMAIN rolePerms' = DOMAIN rolePerms \cup {arg.role}
    BY <1>1 DEF Role!Roles
  <2>. QED
    BY <1>2, <2>1, FS_AddElement DEF RoleTypes
<1>. HIDE DEF mine
<1>. QED
  BY <1>1, <1>2, <1>4, <1>5, RolePlainStep DEF RoleTypes

LEMMA RolePutFlag ==
  ASSUME RoleInv, NEW r \in Requests, Role!PutFlag(r)
  PROVE  RoleInv'
<1>. DEFINE todo == roleReq[r].todo
<1>1. /\ \E op \in {"flag", "upsert", "share"} : Role!At(r, op)
      /\ DOMAIN rolePerms' = DOMAIN rolePerms
      /\ UNCHANGED <<roleGranted, roleIsAdmin, roleBlurred, roleDeposed>>
  BY DEF Role!PutFlag, Role!history
<1>2. PICK mine, touched :
        mine \in {Role!Idle, Role!Left(r, Tail(todo))} /\ Role!Then(r, mine, touched)
  BY DEF Role!PutFlag, Role!Rest
<1>3. RoleTypes /\ roleReq[r].about = None /\ RolePlain(Tail(todo))
  BY <1>1, RoleAtPlain DEF RoleInv
<1>4. RoleRecord(mine) /\ mine.about = None /\ RolePlain(mine.todo)
  BY <1>2, <1>3, RoleLeft, RoleIdle
<1>. QED
  BY <1>1, <1>2, <1>3, <1>4, RolePlainStep DEF RoleTypes

LEMMA RoleDelete ==
  ASSUME RoleInv, NEW r \in Requests, Role!Delete(r)
  PROVE  RoleInv'
<1>. DEFINE todo == roleReq[r].todo role == Head(todo).arg mine == Role!Left(r, Tail(todo))
<1>1. /\ Role!At(r, "delete")
      /\ rolePerms' = [s \in Role!Roles \ {role} |-> rolePerms[s]]
      /\ roleGranted' = [u \in Users |-> roleGranted[u] \ {role}]
      /\ \E touched : Role!Then(r, mine, touched)
      /\ UNCHANGED <<roleIsAdmin, roleBlurred, roleDeposed>>
  BY DEF Role!Delete, Role!Arg, Role!history, Role!Rest
<1>2. RoleTypes /\ roleReq[r].about = None /\ role \notin SystemRoles /\ RolePlain(Tail(todo))
  <2>1. Head(todo).op = "delete" /\ RolePlainItem(Head(todo))
    BY <1>1, RoleAtPlain DEF Role!At
  <2>. QED
    BY <1>1, <2>1, RoleAtPlain DEF RoleInv, RolePlainItem
<1>3. RoleRecord(mine) /\ mine.about = None /\ RolePlain(mine.todo)
  BY <1>2, RoleLeft, RoleIdle
<1>4. IsFiniteSet(DOMAIN rolePerms')
  <2>1. DOMAIN rolePerms' \subseteq DOMAIN rolePerms
    BY <1>1 DEF Role!Roles
  <2>. QED
    BY <1>2, <2>1, FS_Subset DEF RoleTypes
<1>5. /\ roleGranted' = [u \in Users |-> roleGranted'[u]]
      /\ \A u \in Users : roleGranted'[u] \cap SystemRoles = roleGranted[u] \cap SystemRoles
  BY <1>1, <1>2
<1>. HIDE DEF mine
<1>. QED
  BY <1>1, <1>2, <1>3, <1>4, <1>5, RolePlainStep

-----------------------------------------------------------------------------
(* A request begins.                                                       *)
RoleAsks(u, v, todo) ==
  \/ \E role : role \notin AdminRoles /\ todo \in {RoleGrants(role), RoleRevokes(role)}
  \/ \E role \in AdminRoles : todo = RoleGrantsAdmin(role)
  \/ \E role \in AdminRoles : todo = RoleRevokesAdmin(role) /\ u # v

LEMMA RoleBegin ==
  ASSUME RoleInv, NEW r \in Requests, NEW u \in Users, NEW v, NEW todo,
         Role!Begin(r, u, v, todo),
         \/ v = None /\ RolePlain(todo)
         \/ v \in Users /\ RoleAsks(u, v, todo)
  PROVE  RoleInv'
<1>. DEFINE mine == [by |-> u, rank |-> Role!Rank(u), about |-> v, todo |-> todo, unchecked |-> {}]
<1>0. RoleTypes /\ None \notin Users
  BY RolesAssumption DEF RoleInv, Role!ConstantsOK
<1>1. /\ roleReq[r] = Role!Idle
      /\ roleReq' = [roleReq EXCEPT ![r] = mine]
      /\ roleBlurred \subseteq roleBlurred'
      /\ v # None /\ (\E q \in Requests : roleReq[q].about = v) => v \in roleBlurred'
      /\ \A x \in Users : x # v => (x \in roleBlurred' => x \in roleBlurred)
      /\ UNCHANGED <<rolePerms, roleGranted, roleIsAdmin, roleDeposed>>
  BY DEF Role!Begin, Role!Free
<1>2. RoleRecord(mine) /\ mine.by = u /\ mine.about = v /\ mine.todo = todo
  BY DEF RoleRecord
<1>. HIDE DEF mine
<1>3. /\ roleReq' = [q \in Requests |-> roleReq'[q]]
      /\ \A q \in Requests : RoleRecord(roleReq'[q])
      /\ roleReq'[r] = mine
      /\ \A q \in Requests \ {r} : roleReq'[q] = roleReq[q]
  BY <1>0, <1>1, <1>2 DEF RoleTypes
<1>4. RoleTypes'
  BY <1>0, <1>1, <1>3 DEF RoleTypes
<1>5. \A x : Role!IsAdmin(x)' = Role!IsAdmin(x)
  BY <1>1 DEF Role!IsAdmin
<1>6. ASSUME NEW q \in Requests
      PROVE \/ roleReq'[q].about = None /\ RolePlain(roleReq'[q].todo)
            \/ RoleAbout(roleReq[q])'
  <2>1. CASE q = r /\ v = None /\ RolePlain(todo)
    BY <1>2, <1>3, <2>1
  <2>2. CASE q = r /\ v \in Users /\ RoleAsks(u, v, todo)
    <3>1. v \notin roleBlurred' => roleIsAdmin[v] = Role!IsAdmin(v)
      BY <1>0, <1>1, <2>2 DEF RoleInv
    <3>2. roleReq'[q].by = u /\ roleReq'[q].about = v /\ roleReq'[q].todo = todo
      BY <1>2, <1>3, <2>2
    <3>. QED
      BY <1>1, <2>2, <3>1, <3>2 DEF RoleAbout, RoleAsks, Role!IsAdmin
  <2>3. CASE q # r /\ ~RoleAbout(roleReq[q])
    BY <1>3, <2>3 DEF RoleInv
  <2>4. CASE q # r /\ RoleAbout(roleReq[q])
    BY <1>1, <1>3, <1>5, <2>4, RoleAboutKept
  <2>. QED
    BY <2>1, <2>2, <2>3, <2>4
<1>7. ASSUME NEW q \in Requests, NEW p \in Requests,
             p # q, roleReq'[p].about = roleReq'[q].about, roleReq'[p].about # None
      PROVE  roleReq'[p].about \in roleBlurred'
  <2>1. CASE p # r /\ q # r
    BY <1>1, <1>3, <1>7, <2>1 DEF RoleInv
  <2>2. CASE p = r \/ q = r
    BY <1>1, <1>2, <1>3, <1>7, <2>2
  <2>. QED
    BY <2>1, <2>2
<1>8. ASSUME NEW x \in Users \ roleBlurred', \A q \in Requests : roleReq'[q].about # x
      PROVE  roleIsAdmin'[x] = Role!IsAdmin(x)'
  <2>1. \A q \in Requests : roleReq[q].about # x
    BY <1>0, <1>1, <1>3, <1>8, RoleIdle
  <2>. QED
    BY <1>1, <1>5, <2>1, <1>8 DEF RoleInv
<1>9. (~roleDeposed => \E x \in Users : RootRole \in roleGranted[x])'
  BY <1>1 DEF RoleInv
<1>. QED
  BY <1>4, <1>6, <1>7, <1>8, <1>9 DEF RoleInv

LEMMA RoleOne ==
  ASSUME NEW x, RolePlainItem(x) PROVE RolePlain(<<x>>)
<1>. DEFINE s == <<x>>
<1>1. s \in Seq({x}) /\ \A i \in 1..Len(s) : s[i] = x
  OBVIOUS
<1>. HIDE DEF s
<1>2. RolePlain(s)
  BY <1>1, RoleSeq
<1>. QED
  BY <1>2 DEF s

LEMMA RoleCreates ==
  ASSUME NEW u \in Users, NEW r \in Requests, RoleInv, NEW b \in RoleBodies,
         Role!CreateRole(r, u, b)
  PROVE  RoleInv'
<1>. DEFINE es == [f \in DOMAIN b.flags |-> Role!Entry(b.flags[f])]
            x == Role!Do("role", [role |-> b.id, entries |-> es])
<1>1. DOMAIN es \subseteq RoleFlags
  BY RolesAssumption DEF Role!ConstantsOK
<1>2. Role!Begin(r, u, None, <<x>>)
  BY DEF Role!CreateRole
<1>. HIDE DEF es
<1>3. RolePlainItem(x)
  <2>1. x.op = "role" /\ x.arg = [role |-> b.id, entries |-> es]
    BY RoleDo
  <2>. QED
    BY <1>1, <2>1 DEF RolePlainItem
<1>. HIDE DEF x
<1>. QED
  BY <1>2, <1>3, RoleOne, RoleBegin

LEMMA RoleDeletes ==
  ASSUME NEW u \in Users, NEW r \in Requests, RoleInv, NEW role \in Role!Roles,
         Role!DeleteRole(r, u, role)
  PROVE  RoleInv'
<1>. DEFINE x == Role!Do("delete", role)
<1>1. Role!Begin(r, u, None, <<x>>) /\ role \notin SystemRoles
  BY DEF Role!DeleteRole
<1>2. RolePlainItem(x)
  <2>1. x.op = "delete" /\ x.arg = role
    BY RoleDo
  <2>. QED
    BY <1>1, <2>1 DEF RolePlainItem
<1>. HIDE DEF x
<1>. QED
  BY <1>1, <1>2, RoleOne, RoleBegin

LEMMA RoleUpdates ==
  ASSUME NEW u \in Users, NEW r \in Requests, RoleInv, NEW role, NEW b \in FlagChanges,
         Role!UpdatePermissions(r, u, role, b)
  PROVE  RoleInv'
<1>1. Role!Begin(r, u, None, Role!Each("upsert", role, b))
  BY DEF Role!UpdatePermissions
<1>2. IsFiniteSet(DOMAIN b)
  BY RoleFlagsFinite, RolesAssumption DEF Role!ConstantsOK, Role!IsEntries
<1>. QED
  BY <1>1, <1>2, RoleEach, RoleBegin

LEMMA RoleShares ==
  ASSUME NEW u \in Users, NEW r \in Requests, RoleInv, NEW role, NEW v,
         Role!UpdateSharing(r, u, role, SharingFlag, v)
  PROVE  RoleInv'
<1>. DEFINE b == [x \in {SharingFlag} |-> Role!Entry(v)]
<1>1. Role!Begin(r, u, None, Role!Each("share", role, b))
  BY DEF Role!UpdateSharing
<1>2. IsFiniteSet(DOMAIN b)
  BY FS_Singleton
<1>. HIDE DEF b
<1>. QED
  BY <1>1, <1>2, RoleEach, RoleBegin

LEMMA RoleImports ==
  ASSUME NEW u \in Users, NEW r \in Requests, RoleInv, NEW b \in RoleExports,
         NEW replace \in BOOLEAN, Role!ImportRoles(r, u, b, replace)
  PROVE  RoleInv'
<1>. DEFINE old == IF replace /\ DOMAIN b # {} THEN (Role!Roles \ SystemRoles) \ DOMAIN b ELSE {}
            gone == Role!SetSeq(old) order == Role!SetSeq(DOMAIN b)
            n == Len(gone) m == Len(order)
            s == [i \in 1..n |-> Role!Do("delete", gone[i])]
            t == [i \in 1..m |-> Role!Do("put", [role |-> order[i], entries |-> b[order[i]]])]
<1>1. Role!Begin(r, u, None, s \o t)
  BY DEF Role!ImportRoles
<1>2. /\ IsFiniteSet(DOMAIN b) /\ \A x \in DOMAIN b : DOMAIN b[x] \subseteq RoleFlags
  BY RoleFinite, RolesAssumption DEF Role!ConstantsOK, Role!IsEntries
<1>3. old \cap SystemRoles = {} /\ IsFiniteSet(old)
  <2>1. old \subseteq DOMAIN rolePerms
    BY DEF Role!Roles
  <2>. QED
    BY <2>1, FS_Subset DEF RoleInv, RoleTypes
<1>. HIDE DEF old
<1>4. n \in Nat /\ \A i \in 1..n : gone[i] \in old
  BY <1>3, RoleOrder
<1>5. m \in Nat /\ \A i \in 1..m : order[i] \in DOMAIN b
  BY <1>2, RoleOrder
<1>. HIDE DEF gone, order, n, m
<1>6. RolePlain(s)
  <2>1. ASSUME NEW i \in 1..n PROVE RolePlainItem(s[i])
    <3>1. s[i].op = "delete" /\ s[i].arg = gone[i]
      BY RoleDo
    <3>. QED
      BY <1>3, <1>4, <3>1 DEF RolePlainItem
  <2>2. s = [i \in 1..n |-> s[i]]
    OBVIOUS
  <2>. HIDE DEF s
  <2>. QED
    BY <1>4, <2>1, <2>2, RoleMap
<1>7. RolePlain(t)
  <2>1. ASSUME NEW i \in 1..m PROVE RolePlainItem(t[i])
    <3>1. t[i].op = "put" /\ t[i].arg = [role |-> order[i], entries |-> b[order[i]]]
      BY RoleDo
    <3>. QED
      BY <1>2, <1>5, <3>1 DEF RolePlainItem
  <2>2. t = [i \in 1..m |-> t[i]]
    OBVIOUS
  <2>. HIDE DEF t
  <2>. QED
    BY <1>5, <2>1, <2>2, RoleMap
<1>. HIDE DEF s, t
<1>. QED
  BY <1>1, <1>6, <1>7, RoleConcat, RoleBegin

LEMMA RoleTwo ==
  ASSUME NEW x, NEW y
  PROVE  <<x>> \o <<y>> = <<x, y>>
<1>. DEFINE S == {x, y} a == <<x>> b == <<y>> c == a \o b d == <<x, y>>
<1>1. a \in Seq(S) /\ b \in Seq(S) /\ d \in Seq(S) /\ Len(a) = 1 /\ Len(b) = 1 /\ Len(d) = 2
      /\ a[1] = x /\ b[1] = y /\ d[1] = x /\ d[2] = y
  OBVIOUS
<1>. HIDE DEF S, a, b, d
<1>2. /\ c \in Seq(S) /\ Len(c) = Len(a) + Len(b)
      /\ \A i \in 1..Len(a) + Len(b) : c[i] = IF i <= Len(a) THEN a[i] ELSE b[i - Len(a)]
  BY <1>1, ConcatProperties
<1>. HIDE DEF c
<1>3. c = d
  BY <1>1, <1>2, SeqEqual
<1>. QED
  BY <1>3 DEF a, b, c, d

LEMMA RoleThree ==
  ASSUME NEW x, NEW y, NEW z
  PROVE  <<x>> \o <<y, z>> = <<x, y, z>>
<1>. DEFINE S == {x, y, z} a == <<x>> b == <<y, z>> c == a \o b d == <<x, y, z>>
<1>1. a \in Seq(S) /\ b \in Seq(S) /\ d \in Seq(S) /\ Len(a) = 1 /\ Len(b) = 2 /\ Len(d) = 3
      /\ a[1] = x /\ b[1] = y /\ b[2] = z /\ d[1] = x /\ d[2] = y /\ d[3] = z
  OBVIOUS
<1>. HIDE DEF S, a, b, d
<1>2. /\ c \in Seq(S) /\ Len(c) = Len(a) + Len(b)
      /\ \A i \in 1..Len(a) + Len(b) : c[i] = IF i <= Len(a) THEN a[i] ELSE b[i - Len(a)]
  BY <1>1, ConcatProperties
<1>. HIDE DEF c
<1>3. Len(c) = 3 /\ c[1] = a[1] /\ c[2] = b[1] /\ c[3] = b[2]
  BY <1>1, <1>2
<1>4. c = d
  BY <1>1, <1>2, <1>3, SeqEqual
<1>. QED
  BY <1>4 DEF a, b, c, d

LEMMA RoleJoined ==
  ASSUME NEW x, NEW y, NEW z
  PROVE  <<x>> \o <<>> = <<x>> /\ <<x>> \o <<y>> = <<x, y>> /\ <<x>> \o <<y, z>> = <<x, y, z>>
<1>1. <<x>> \o <<>> = <<x>>
  OBVIOUS
<1>. QED
  BY <1>1, RoleTwo, RoleThree

LEMMA RoleGrant ==
  ASSUME NEW u \in Users, NEW r \in Requests, RoleInv, NEW v \in Users, NEW role,
         Role!Grant(r, u, v, role)
  PROVE  RoleInv'
<1>. DEFINE todo == <<Role!Do("grant", role)>>
                    \o IF role \in AdminRoles THEN <<Role!Do("admin", TRUE)>> ELSE <<>>
<1>1. Role!Begin(r, u, v, todo)
  BY DEF Role!Grant
<1>2. todo = IF role \in AdminRoles THEN RoleGrantsAdmin(role) ELSE RoleGrants(role)
  BY RoleJoined DEF RoleGrants, RoleGrantsAdmin
<1>. HIDE DEF todo
<1>3. RoleAsks(u, v, todo)
  BY <1>2 DEF RoleAsks
<1>. QED
  BY <1>1, <1>3, RoleBegin

LEMMA RoleRevoke ==
  ASSUME NEW u \in Users, NEW r \in Requests, RoleInv, NEW v \in Users, NEW role,
         Role!Revoke(r, u, v, role)
  PROVE  RoleInv'
<1>. DEFINE todo == <<Role!Do("revoke", role)>>
                    \o IF role \in AdminRoles
                       THEN <<Role!Do("look", None), Role!Do("admin", FALSE)>> ELSE <<>>
<1>1. Role!Begin(r, u, v, todo) /\ ~(u = v /\ role \in AdminRoles)
  BY DEF Role!Revoke, Role!Own
<1>2. todo = IF role \in AdminRoles THEN RoleRevokesAdmin(role) ELSE RoleRevokes(role)
  BY RoleJoined DEF RoleRevokes, RoleRevokesAdmin
<1>. HIDE DEF todo
<1>3. RoleAsks(u, v, todo)
  BY <1>1, <1>2 DEF RoleAsks
<1>. QED
  BY <1>1, <1>3, RoleBegin

-----------------------------------------------------------------------------
LEMMA RoleInit == Role!Init => RoleInv
<1>. SUFFICES ASSUME Role!Init PROVE RoleInv
  OBVIOUS
<1>1. /\ rolePerms = [r \in SystemRoles |-> [f \in CarriedFlags[r] |-> Role!Entry("1")]]
      /\ roleGranted = StartOf
      /\ roleIsAdmin = [u \in Users |-> StartOf[u] \cap AdminRoles # {}]
      /\ roleReq = [r \in Requests |-> Role!Idle]
  BY DEF Role!Init
<1>2. /\ StartOf \in [Users -> SUBSET SystemRoles] /\ IsFiniteSet(SystemRoles)
      /\ \E u \in Users : RootRole \in StartOf[u]
      /\ None \notin Users
  BY RoleFinite, RolesAssumption DEF Role!ConstantsOK, Role!IsEntries
<1>3. \A r \in Requests : roleReq[r] = Role!Idle
  BY <1>1
<1>4. RoleTypes
  <2>1. DOMAIN rolePerms = SystemRoles
    BY <1>1
  <2>2. roleIsAdmin \in [Users -> BOOLEAN]
    BY <1>1
  <2>3. roleReq = [r \in Requests |-> roleReq[r]]
    BY <1>1
  <2>. QED
    BY <1>1, <1>2, <1>3, <2>1, <2>2, <2>3, RoleIdle DEF RoleTypes
<1>5. \A u \in Users : roleIsAdmin[u] = Role!IsAdmin(u)
  BY <1>1 DEF Role!IsAdmin
<1>. QED
  BY <1>1, <1>2, <1>3, <1>4, <1>5, RoleIdle DEF RoleInv

LEMMA RoleStutter ==
  ASSUME RoleInv, UNCHANGED Role!vars PROVE RoleInv'
<1>1. UNCHANGED <<rolePerms, roleGranted, roleIsAdmin, roleReq, roleBlurred, roleDeposed>>
  BY DEF Role!vars
<1>2. RoleTypes'
  BY <1>1 DEF RoleInv, RoleTypes
<1>3. \A q \in Requests : RoleAbout(roleReq[q]) => RoleAbout(roleReq[q])'
  BY <1>1 DEF RoleAbout, Role!IsAdmin
<1>4. \A u \in Users : Role!IsAdmin(u)' = Role!IsAdmin(u)
  BY <1>1 DEF Role!IsAdmin
<1>. QED
  BY <1>1, <1>2, <1>3, <1>4 DEF RoleInv

LEMMA RoleStep ==
  RoleInv /\ [Role!Next]_(Role!vars) => RoleInv'
<1>. SUFFICES ASSUME RoleInv, [Role!Next]_(Role!vars) PROVE RoleInv'
  OBVIOUS
<1>1. CASE UNCHANGED Role!vars
  BY <1>1, RoleStutter
<1>2. ASSUME NEW r \in Role!Free, NEW u \in Users,
             \/ \E b \in RoleBodies : Role!CreateRole(r, u, b)
             \/ \E b \in RoleExports, replace \in BOOLEAN : Role!ImportRoles(r, u, b, replace)
             \/ \E role \in Role!Roles :
                  \/ Role!DeleteRole(r, u, role)
                  \/ \E b \in FlagChanges : Role!UpdatePermissions(r, u, role, b)
                  \/ \E v \in {"0", "1"} : Role!UpdateSharing(r, u, role, SharingFlag, v)
                  \/ \E v \in Users : Role!Grant(r, u, v, role) \/ Role!Revoke(r, u, v, role)
      PROVE  RoleInv'
  <2>1. r \in Requests
    BY DEF Role!Free
  <2>. QED
    BY <1>2, <2>1, RoleCreates, RoleImports, RoleDeletes, RoleUpdates, RoleShares, RoleGrant,
       RoleRevoke
<1>3. ASSUME NEW r \in Requests,
             \/ Role!PutRole(r) \/ Role!PutFlag(r) \/ Role!Delete(r) \/ Role!GrantWrite(r)
             \/ Role!RevokeWrite(r) \/ Role!LookAdmin(r) \/ Role!SetAdmin(r) \/ Role!Cut(r)
      PROVE  RoleInv'
  BY <1>3, RolePutRole, RolePutFlag, RoleDelete, RoleGrantWrite, RoleRevokeWrite,
     RoleLookAdmin, RoleSetAdmin, RoleCut
<1>. QED
  BY <1>1, <1>2, <1>3 DEF Role!Next

(* Somebody keeps the role of tier 1, unless it was taken by one who had   *)
(* lost it meanwhile; and users.is_admin, which remove_role_from_user and  *)
(* add_role_to_user write in a statement of its own, says who has an admin *)
(* role, unless two requests about him overlapped or one was cut off.      *)
THEOREM AdminsStay == Role!Spec => []AdminsRemain
<1>1. RoleInv => AdminsRemain
  BY DEF RoleInv, AdminsRemain, Role!AdminsRemain
<1>. QED
  BY <1>1, RoleInit, RoleStep, PTL DEF Role!Spec

-----------------------------------------------------------------------------
(* SharingRules: what a share is decided by                                *)

(* Rows, and what is written in them.                                      *)
RulesTier == Int \cup {None}
RulesPermits(a, row) == RankOf[a] = 1 \/ Rules!Permits(a, row)
RulesMayLock(a, locked, tier) == RankOf[a] = 1 \/ Rules!MayLock(a, locked, tier)
RulesRow(row) ==
  /\ {"subject", "effect", "tier", "locked", "prio", "by"} \subseteq DOMAIN row
  /\ row.subject \in {"sender", "recipient", "cross"} /\ row.effect \in {"allow", "deny"}
  /\ row.tier \in RulesTier /\ row.by \in Nat \ {0}
RulesBody(b) == DOMAIN b = Rules!Fields \cup {"conds"} /\ Rules!Valid(b)

(* No rule of a more privileged administrator that is locked, and that the *)
(* check has seen as it is, comes after the place.                         *)
RulesPlace(a, prio, late, table) ==
  \A r \in DOMAIN table \ late :
    table[r].locked /\ table[r].by < RankOf[a] => prio > table[r].prio

(* What the statements of a request may do: the checks passed once still   *)
(* count for what nobody has written since.                                *)
RulesItem(a, x, late, table) ==
  /\ x.op \in {"insert", "amend", "remove", "wipe", "unname"}
  /\ x.op = "insert" =>
       /\ RulesBody(x.arg) /\ RulesMayLock(a, x.arg.locked, x.arg.tier)
       /\ RulesPlace(a, x.arg.prio, late, table)
  /\ x.op = "unname" => RulesBody(x.arg)
  /\ x.op = "amend" =>
       /\ DOMAIN x.arg \subseteq Rules!Fields \cup {"conds"} /\ Rules!Valid(x.arg)
       /\ {"locked", "tier"} \subseteq DOMAIN x.arg
       /\ RulesMayLock(a, x.arg.locked, x.arg.tier)
       /\ "prio" \in DOMAIN x.arg => RulesPlace(a, x.arg.prio, late, table)
  /\ x.op \in {"wipe", "unname"} => RankOf[a] = 1
RulesPlain(a, s, late, table) ==
  Rules!IsSeq(s) /\ \A i \in DOMAIN s : RulesItem(a, s[i], late, table)
RulesDrop(c) == <<Rules!Statement("drop", c)>>
RulesTodo(a) ==
  LET e == rulesEdit[a] IN
  /\ Rules!IsSeq(e.adds)
  /\ \/ RulesPlain(a, e.todo, e.late, rulesRows)
     \/ e.adds = <<>> /\ \E c : Rules!IsSeq(c) /\ e.todo = RulesDrop(c)

(* A request under way may write to its rule, unless another has written   *)
(* there since.                                                            *)
RulesPermitted(a) ==
  Rules!Busy(a) /\ rulesEdit[a].rule \in Rules!Present \ rulesEdit[a].late
  => RulesPermits(a, rulesRows[rulesEdit[a].rule])

(* The conditions of a rule that is not torn are as they were meant, but   *)
(* for those that the one request about it still writes.                   *)
RulesAdding(a, r) == rulesEdit[a].rule = r /\ rulesEdit[a].adds # <<>>
RulesDropping(a, r) == rulesEdit[a].rule = r /\ Rules!Runs(a, "drop")
RulesPending(a, r) == RulesAdding(a, r) \/ RulesDropping(a, r)
RulesWhole(r) ==
  /\ \A a \in Officers : RulesAdding(a, r) =>
       rulesMeant[r] = rulesConds[r] \cup Rules!Listed(rulesEdit[a].adds)
  /\ \A a \in Officers : RulesDropping(a, r) => rulesMeant[r] = Rules!Listed(Rules!Arg(a))
  /\ (\A a \in Officers : ~RulesPending(a, r)) => rulesConds[r] = rulesMeant[r]
  /\ \A a, b \in Officers : RulesPending(a, r) /\ RulesPending(b, r) => a = b

(* An evaluation that no edit overlaps still has every rule that fires, or *)
(* has seen the deny that comes first.                                     *)
RulesSeen(r) ==
  [id |-> r, prio |-> rulesRows[r].prio, subject |-> rulesRows[r].subject,
   effect |-> rulesRows[r].effect]
RulesAlone(q) ==
  LET e == rulesEval[q] IN
  /\ e.right = Rules!Verdicts(rulesConds, q)
  /\ \A x \in e.left : /\ x.id \in Rules!Present /\ x = RulesSeen(x.id)
                       /\ Rules!Selected(rulesRows[x.id], q)
  /\ ~e.denied => \A r \in Rules!Present : Rules!Fires(r, rulesConds, q) => RulesSeen(r) \in e.left
  /\ e.denied => "deny" \in e.right
RulesJudged(q) ==
  LET e == rulesEval[q] IN
  /\ {"pc", "left", "denied", "right"} \subseteq DOMAIN e
  /\ e.pc \in {"idle", "loop", "allow", "deny"}
  /\ e.pc \in {"allow", "deny"} => e.pc \in e.right
  /\ e.pc = "loop" =>
       /\ \A x \in e.left : x.effect \in {"allow", "deny"}
       /\ e.right = {"allow", "deny"} \/ RulesAlone(q)

RulesTypes ==
  /\ Rules!Present \subseteq RuleIds /\ \A r \in Rules!Present : RulesRow(rulesRows[r])
  /\ rulesConds = [r \in RuleIds |-> rulesConds[r]]
  /\ rulesMeant = [r \in RuleIds |-> rulesMeant[r]]
  /\ rulesEdit = [a \in Officers |-> rulesEdit[a]]
  /\ \A a \in Officers : {"todo", "adds", "rule", "late"} \subseteq DOMAIN rulesEdit[a]
  /\ rulesEval = [q \in RuleQueries |-> rulesEval[q]]
RulesEdits == \A a \in Officers : RulesTodo(a) /\ RulesPermitted(a)
RulesConsistent == \A r \in Rules!Present \ rulesTorn : RulesWhole(r)
RulesEvals == \A q \in RuleQueries : RulesJudged(q)
RulesInv == RulesTypes /\ RulesEdits /\ RulesConsistent /\ RulesEvals

-----------------------------------------------------------------------------
(* Evaluations                                                             *)

LEMMA RulesSame ==
  ASSUME NEW q, \A r \in Rules!Present : rulesConds[r] = rulesMeant[r]
  PROVE  Rules!Verdicts(rulesMeant, q) = Rules!Verdicts(rulesConds, q)
<1>1. \A r \in Rules!Present : Rules!Fires(r, rulesMeant, q) <=> Rules!Fires(r, rulesConds, q)
  BY DEF Rules!Fires
<1>2. {r \in Rules!Present : Rules!Fires(r, rulesMeant, q)}
      = {r \in Rules!Present : Rules!Fires(r, rulesConds, q)}
  BY <1>1
<1>. QED
  BY <1>2 DEF Rules!Verdicts

LEMMA RulesSelect ==
  ASSUME RulesInv, NEW q \in RuleQueries, Rules!Select(q)
  PROVE  RulesJudged(q)'
<1>. DEFINE right == IF Rules!Quiet THEN Rules!Verdicts(rulesMeant, q) ELSE {"allow", "deny"}
            left == {[id |-> r, prio |-> rulesRows[r].prio, subject |-> rulesRows[r].subject,
                      effect |-> rulesRows[r].effect] :
                     r \in {s \in Rules!Present : Rules!Selected(rulesRows[s], q)}}
            e == [pc |-> "loop", denied |-> FALSE, left |-> left, right |-> right]
<1>1. rulesEval' = [rulesEval EXCEPT ![q] = e] /\ UNCHANGED <<rulesRows, rulesConds>>
  BY DEF Rules!Select, Rules!Goes
<1>. HIDE DEF left, right
<1>2. rulesEval'[q] = e
  BY <1>1 DEF RulesInv, RulesTypes
<1>3. /\ e.pc = "loop" /\ e.denied = FALSE /\ e.left = left /\ e.right = right
      /\ {"pc", "left", "denied", "right"} \subseteq DOMAIN e
  OBVIOUS
<1>. HIDE DEF e
<1>4. \A x \in left : \E r \in Rules!Present : x = RulesSeen(r) /\ Rules!Selected(rulesRows[r], q)
  BY DEF left, RulesSeen
<1>5. \A r : RulesSeen(r).id = r /\ RulesSeen(r).effect = rulesRows[r].effect
  BY DEF RulesSeen
<1>6. \A x \in left : /\ x.id \in Rules!Present /\ x = RulesSeen(x.id)
                      /\ Rules!Selected(rulesRows[x.id], q) /\ x.effect \in {"allow", "deny"}
  BY <1>4, <1>5 DEF RulesInv, RulesTypes, RulesRow
<1>7. \A r \in Rules!Present : Rules!Fires(r, rulesConds, q) => RulesSeen(r) \in left
  BY DEF left, RulesSeen, Rules!Fires
<1>8. right = {"allow", "deny"} \/ right = Rules!Verdicts(rulesConds, q)
  <2>1. CASE ~Rules!Quiet
    BY <2>1 DEF right
  <2>2. CASE Rules!Quiet
    <3>1. \A a \in Officers, r \in RuleIds : ~RulesPending(a, r)
      BY <2>2 DEF Rules!Quiet, Rules!Busy, Rules!Runs, RulesPending, RulesAdding, RulesDropping
    <3>2. \A r \in Rules!Present : rulesConds[r] = rulesMeant[r]
      BY <2>2, <3>1 DEF Rules!Quiet, RulesInv, RulesTypes, RulesConsistent, RulesWhole
    <3>. QED
      BY <2>2, <3>2, RulesSame DEF right
  <2>. QED
    BY <2>1, <2>2
<1>9. /\ \A r : RulesSeen(r)' = RulesSeen(r)
      /\ \A r : Rules!Fires(r, rulesConds, q)' = Rules!Fires(r, rulesConds, q)
      /\ Rules!Verdicts(rulesConds, q)' = Rules!Verdicts(rulesConds, q)
      /\ Rules!Present' = Rules!Present
  BY <1>1 DEF RulesSeen, Rules!Fires, Rules!Verdicts, Rules!Present
<1>. QED
  BY <1>1, <1>2, <1>3, <1>6, <1>7, <1>8, <1>9 DEF RulesJudged, RulesAlone

(* The next row of an evaluation that no edit overlaps.                    *)
LEMMA RulesFirst ==
  ASSUME RulesInv, NEW q \in RuleQueries, rulesEval[q].pc = "loop", RulesAlone(q),
         ~rulesEval[q].denied, NEW x \in Rules!First(q),
         ~Rules!Skips(x.subject, q), \A c \in Rules!Conds(x.id) : Rules!Met(c, x.subject, q)
  PROVE  x.effect \in rulesEval[q].right
<1>. DEFINE r == x.id
<1>1. /\ x \in rulesEval[q].left /\ \A y \in rulesEval[q].left : x.prio <= y.prio
      /\ r \in Rules!Present /\ x = RulesSeen(r) /\ Rules!Selected(rulesRows[r], q)
  BY DEF Rules!First, RulesAlone
<1>2. /\ x.prio = rulesRows[r].prio /\ x.subject = rulesRows[r].subject
      /\ x.effect = rulesRows[r].effect
  BY <1>1 DEF RulesSeen
<1>3. rulesRows[r].subject \in {"sender", "recipient", "cross"}
  BY <1>1 DEF RulesInv, RulesTypes, RulesRow
<1>4. Rules!Fires(r, rulesConds, q)
  BY <1>1, <1>2, <1>3 DEF Rules!Fires, Rules!Skips, Rules!Conds
<1>5. \A s \in Rules!Present :
       Rules!Fires(s, rulesConds, q) => rulesRows[r].prio <= rulesRows[s].prio
  BY <1>1, <1>2 DEF RulesAlone, RulesSeen
<1>6. rulesRows[r].effect \in Rules!Verdicts(rulesConds, q)
  BY <1>1, <1>4, <1>5 DEF Rules!Verdicts
<1>. QED
  BY <1>2, <1>6 DEF RulesAlone

LEMMA RulesLast ==
  ASSUME RulesInv, NEW q \in RuleQueries, RulesAlone(q), ~rulesEval[q].denied,
         rulesEval[q].left = {}
  PROVE  "allow" \in rulesEval[q].right
BY DEF RulesAlone, Rules!Verdicts

(* An evaluation goes on, or ends.                                         *)
LEMMA RulesGoesOn ==
  ASSUME RulesInv, NEW q \in RuleQueries, NEW x \in rulesEval[q].left, rulesEval[q].pc = "loop",
         UNCHANGED <<rulesRows, rulesConds>>, NEW n, Rules!Goes(q, n),
         {"pc", "left", "denied", "right"} \subseteq DOMAIN n, n.pc = "loop",
         n.right = rulesEval[q].right, n.left = rulesEval[q].left \ {x},
         rulesEval[q].denied => n.denied,
         RulesAlone(q) =>
           IF n.denied THEN "deny" \in rulesEval[q].right ELSE ~Rules!Fires(x.id, rulesConds, q)
  PROVE  RulesJudged(q)'
<1>. DEFINE e == rulesEval[q]
<1>1. rulesEval'[q] = n
  BY DEF Rules!Goes, RulesInv, RulesTypes
<1>2. RulesJudged(q)
  BY DEF RulesInv, RulesEvals
<1>4. /\ \A r \in Rules!Present : RulesSeen(r)' = RulesSeen(r)
      /\ \A r \in Rules!Present : Rules!Fires(r, rulesConds, q)' = Rules!Fires(r, rulesConds, q)
      /\ Rules!Verdicts(rulesConds, q)' = Rules!Verdicts(rulesConds, q)
      /\ Rules!Present' = Rules!Present
  BY DEF RulesSeen, Rules!Fires, Rules!Verdicts, Rules!Present
<1>5. ASSUME RulesAlone(q) PROVE RulesAlone(q)'
  <2>1. ASSUME NEW r \in Rules!Present, ~n.denied, Rules!Fires(r, rulesConds, q)
        PROVE  RulesSeen(r) \in n.left
    <3>1. RulesSeen(r) \in e.left /\ RulesSeen(r).id = r
      BY <1>5, <2>1 DEF RulesAlone, RulesSeen
    <3>. QED
      BY <1>5, <2>1, <3>1
  <2>2. \A y \in n.left : /\ y.id \in Rules!Present /\ y = RulesSeen(y.id)
                          /\ Rules!Selected(rulesRows[y.id], q)
    BY <1>5 DEF RulesAlone
  <2>. QED
    BY <1>1, <1>4, <1>5, <2>1, <2>2 DEF RulesAlone
<1>. QED
  BY <1>1, <1>2, <1>5 DEF RulesJudged

LEMMA RulesEnds ==
  ASSUME RulesInv, NEW q \in RuleQueries, rulesEval[q].pc = "loop",
         NEW verdict \in {"allow", "deny"}, Rules!Ends(q, verdict),
         RulesAlone(q) => verdict \in rulesEval[q].right
  PROVE  RulesJudged(q)'
<1>. DEFINE e == rulesEval[q] n == [e EXCEPT !.pc = verdict, !.left = {}]
<1>1. rulesEval'[q] = n
  BY DEF Rules!Ends, Rules!Goes, RulesInv, RulesTypes
<1>2. RulesJudged(q)
  BY DEF RulesInv, RulesEvals
<1>3. /\ n.pc = verdict /\ n.right = e.right
      /\ {"pc", "left", "denied", "right"} \subseteq DOMAIN n
  BY <1>2 DEF RulesJudged
<1>. HIDE DEF n
<1>4. verdict \in e.right
  BY <1>2 DEF RulesJudged
<1>. QED
  BY <1>1, <1>3, <1>4 DEF RulesJudged

LEMMA RulesLoop ==
  ASSUME RulesInv, NEW q \in RuleQueries, Rules!Loop(q)
  PROVE  RulesJudged(q)' /\ \E n : Rules!Goes(q, n)
<1>. DEFINE e == rulesEval[q]
<1>1. PICK x \in Rules!First(q) :
        LET rest == [e EXCEPT !.left = @ \ {x}] IN
        /\ e.pc = "loop"
        /\ CASE Rules!Skips(x.subject, q)
                \/ ~(\A c \in Rules!Conds(x.id) : Rules!Met(c, x.subject, q)) -> Rules!Goes(q, rest)
             [] OTHER ->
                  CASE x.effect = "deny" /\ q.kind = "share" -> Rules!Ends(q, "deny")
                    [] x.effect = "deny" /\ q.kind = "test" ->
                         Rules!Goes(q, [rest EXCEPT !.denied = TRUE])
                    [] x.effect = "allow" ->
                         Rules!Ends(q, IF e.denied THEN "deny" ELSE "allow")
        /\ UNCHANGED <<rulesRows, rulesConds>>
  BY DEF Rules!Loop
<1>2. /\ RulesJudged(q) /\ x \in e.left /\ x.effect \in {"allow", "deny"}
      /\ q.kind \in {"share", "test"}
  BY <1>1, RulesAssumption DEF RulesInv, RulesEvals, RulesJudged, Rules!First, Rules!ConstantsOK
<1>. DEFINE m == [e EXCEPT !.left = @ \ {x}] d == [m EXCEPT !.denied = TRUE]
            skips == Rules!Skips(x.subject, q)
                     \/ ~(\A c \in Rules!Conds(x.id) : Rules!Met(c, x.subject, q))
<1>3. /\ {"pc", "left", "denied", "right"} \subseteq DOMAIN m /\ m.pc = "loop"
      /\ m.right = e.right /\ m.left = e.left \ {x} /\ m.denied = e.denied
  BY <1>1, <1>2 DEF RulesJudged
<1>4. /\ {"pc", "left", "denied", "right"} \subseteq DOMAIN d /\ d.pc = "loop"
      /\ d.right = e.right /\ d.left = e.left \ {x} /\ d.denied = TRUE
  BY <1>3
<1>5. \/ skips /\ Rules!Goes(q, m)
      \/ /\ ~skips
         /\ \/ x.effect = "deny" /\ q.kind = "share" /\ Rules!Ends(q, "deny")
            \/ x.effect = "deny" /\ q.kind = "test" /\ Rules!Goes(q, d)
            \/ x.effect = "allow" /\ Rules!Ends(q, IF e.denied THEN "deny" ELSE "allow")
  BY <1>1, <1>2
<1>. HIDE DEF m, d
<1>6. RulesAlone(q) /\ ~e.denied /\ ~skips => x.effect \in e.right
  BY <1>1, RulesFirst
<1>7. RulesAlone(q) /\ e.denied => "deny" \in e.right
  BY DEF RulesAlone
<1>8. ASSUME skips, Rules!Goes(q, m)
      PROVE  RulesJudged(q)'
  <2>1. RulesAlone(q) => ~Rules!Fires(x.id, rulesConds, q)
    <3>1. RulesAlone(q) => x.subject = rulesRows[x.id].subject
      BY <1>2 DEF RulesAlone, RulesSeen
    <3>. QED
      BY <1>8, <3>1 DEF Rules!Fires, Rules!Skips, Rules!Conds
  <2>. QED
    BY <1>1, <1>2, <1>3, <1>7, <1>8, <2>1, RulesGoesOn
<1>9. ASSUME ~skips, x.effect = "deny", Rules!Goes(q, d)
      PROVE  RulesJudged(q)'
  BY <1>1, <1>2, <1>4, <1>6, <1>7, <1>9, RulesGoesOn
<1>10. ASSUME ~skips, x.effect = "deny", Rules!Ends(q, "deny")
       PROVE  RulesJudged(q)'
  BY <1>1, <1>6, <1>7, <1>10, RulesEnds
<1>11. ASSUME ~skips, x.effect = "allow",
              Rules!Ends(q, IF e.denied THEN "deny" ELSE "allow")
       PROVE  RulesJudged(q)'
  BY <1>1, <1>6, <1>7, <1>11, RulesEnds
<1>12. \E n : Rules!Goes(q, n)
  <2>1. \A verdict : Rules!Ends(q, verdict) => \E n : Rules!Goes(q, n)
    BY DEF Rules!Ends
  <2>. QED
    BY <1>5, <2>1
<1>. QED
  BY <1>5, <1>8, <1>9, <1>10, <1>11, <1>12

LEMMA RulesFinish ==
  ASSUME RulesInv, NEW q \in RuleQueries, Rules!Finish(q)
  PROVE  RulesJudged(q)'
<1>. DEFINE e == rulesEval[q]
<1>1. e.pc = "loop" /\ e.left = {} /\ Rules!Ends(q, IF e.denied THEN "deny" ELSE "allow")
  BY DEF Rules!Finish
<1>2. RulesAlone(q) => (IF e.denied THEN "deny" ELSE "allow") \in e.right
  BY <1>1, RulesLast DEF RulesAlone
<1>. QED
  BY <1>1, <1>2, RulesEnds

LEMMA RulesOtherEvals ==
  ASSUME RulesInv, NEW q \in RuleQueries, NEW n, Rules!Goes(q, n), RulesJudged(q)',
         UNCHANGED <<rulesRows, rulesConds, rulesEdit, rulesMeant, rulesTorn>>
  PROVE  RulesInv'
<1>1. rulesEval' = [p \in RuleQueries |-> rulesEval'[p]]
      /\ \A p \in RuleQueries \ {q} : rulesEval'[p] = rulesEval[p]
  BY DEF Rules!Goes, RulesInv, RulesTypes
<1>2. ASSUME NEW p \in RuleQueries PROVE RulesJudged(p)'
  <2>1. CASE p # q
    <3>1. rulesEval'[p] = rulesEval[p] /\ RulesJudged(p)
      BY <1>1, <2>1 DEF RulesInv, RulesEvals
    <3>2. RulesAlone(p) => RulesAlone(p)'
      BY <3>1 DEF RulesAlone, RulesSeen, Rules!Fires, Rules!Verdicts, Rules!Present
    <3>. QED
      BY <3>1, <3>2 DEF RulesJudged
  <2>. QED
    BY <2>1
<1>3. RulesTypes'
  BY <1>1 DEF RulesInv, RulesTypes, Rules!Present
<1>4. RulesEdits' /\ RulesConsistent'
  BY DEF RulesInv, RulesEdits, RulesConsistent, RulesTodo, RulesPermitted, RulesWhole,
         RulesPending, RulesAdding, RulesDropping, Rules!Busy, Rules!Present, Rules!Runs,
         Rules!Arg
<1>. QED
  BY <1>2, <1>3, <1>4 DEF RulesInv, RulesEvals

(* What edits do to evaluations.                                           *)
LEMMA RulesDisturb ==
  ASSUME RulesInv, Rules!Disturb
  PROVE  RulesEvals' /\ rulesEval' = [q \in RuleQueries |-> rulesEval'[q]]
<1>1. rulesEval' = [q \in RuleQueries |->
        IF rulesEval[q].pc = "loop" THEN [rulesEval[q] EXCEPT !.right = {"allow", "deny"}]
        ELSE rulesEval[q]]
  BY DEF Rules!Disturb
<1>2. ASSUME NEW q \in RuleQueries PROVE RulesJudged(q)'
  <2>. DEFINE e == rulesEval[q] n == [e EXCEPT !.right = {"allow", "deny"}]
  <2>1. RulesJudged(q)
    BY DEF RulesInv, RulesEvals
  <2>2. CASE e.pc = "loop"
    <3>1. /\ n.pc = e.pc /\ n.left = e.left /\ n.right = {"allow", "deny"}
          /\ {"pc", "left", "denied", "right"} \subseteq DOMAIN n
      BY <2>1 DEF RulesJudged
    <3>2. rulesEval'[q] = n
      BY <1>1, <2>2
    <3>. HIDE DEF n
    <3>. QED
      BY <2>1, <2>2, <3>1, <3>2 DEF RulesJudged
  <2>3. CASE e.pc # "loop"
    <3>1. rulesEval'[q] = e
      BY <1>1, <2>3
    <3>. QED
      BY <2>1, <2>3, <3>1 DEF RulesJudged
  <2>. QED
    BY <2>2, <2>3
<1>. QED
  BY <1>1, <1>2 DEF RulesEvals

-----------------------------------------------------------------------------
(* Sequences of statements and of conditions                               *)

LEMMA RulesIsSeq ==
  ASSUME NEW T, NEW s \in Seq(T)
  PROVE  Rules!IsSeq(s) /\ DOMAIN s = 1..Len(s) /\ Len(s) \in Nat
<1>. DEFINE S == {s[i] : i \in DOMAIN s}
<1>1. DOMAIN s = 1..Len(s) /\ Len(s) \in Nat /\ s \in [1..Len(s) -> T]
  OBVIOUS
<1>2. \A i \in 1..Len(s) : s[i] \in S
  BY <1>1
<1>. HIDE DEF S
<1>3. s \in [1..Len(s) -> S]
  BY <1>1, <1>2
<1>4. s \in Seq(S)
  BY <1>1, <1>3
<1>. QED
  BY <1>1, <1>4 DEF Rules!IsSeq, S

LEMMA RulesTail ==
  ASSUME NEW s, Rules!IsSeq(s), s # <<>>
  PROVE  /\ Rules!IsSeq(Tail(s)) /\ 1 \in DOMAIN s /\ Head(s) = s[1]
         /\ \A i \in DOMAIN Tail(s) : i + 1 \in DOMAIN s /\ Tail(s)[i] = s[i + 1]
         /\ Rules!Listed(s) = {Head(s)} \cup Rules!Listed(Tail(s))
<1>. DEFINE S == {s[i] : i \in DOMAIN s} t == Tail(s)
<1>0. s \in Seq(S)
  BY DEF Rules!IsSeq
<1>. HIDE DEF S
<1>1. Len(s) \in Nat /\ Len(s) > 0 /\ DOMAIN s = 1..Len(s) /\ Head(s) = s[1]
  BY <1>0
<1>2. t \in Seq(S) /\ Len(t) = Len(s) - 1 /\ \A i \in 1..Len(t) : t[i] = s[i + 1]
  BY <1>0, <1>1
<1>. HIDE DEF t
<1>3. Rules!IsSeq(t) /\ DOMAIN t = 1..Len(t)
  BY <1>2, RulesIsSeq
<1>4. \A i \in DOMAIN t : i + 1 \in DOMAIN s
  BY <1>1, <1>2, <1>3
<1>5. Rules!Listed(s) = {Head(s)} \cup Rules!Listed(t)
  <2>1. ASSUME NEW x \in Rules!Listed(s) PROVE x = Head(s) \/ x \in Rules!Listed(t)
    <3>1. PICK i \in 1..Len(s) : x = s[i]
      BY DEF Rules!Listed
    <3>2. CASE i = 1
      BY <1>1, <3>1, <3>2
    <3>3. CASE i # 1
      <4>1. i - 1 \in 1..Len(t) /\ (i - 1) + 1 = i
        BY <1>1, <1>2, <3>3
      <4>2. t[i - 1] = x
        BY <1>2, <3>1, <4>1
      <4>. QED
        BY <4>1, <4>2 DEF Rules!Listed
    <3>. QED
      BY <3>2, <3>3
  <2>2. Head(s) \in Rules!Listed(s)
    BY <1>1 DEF Rules!Listed
  <2>3. ASSUME NEW x \in Rules!Listed(t) PROVE x \in Rules!Listed(s)
    <3>1. PICK i \in 1..Len(t) : x = t[i]
      BY DEF Rules!Listed
    <3>. QED
      BY <1>1, <1>2, <1>3, <1>4, <3>1 DEF Rules!Listed
  <2>. QED
    BY <2>1, <2>2, <2>3
<1>. QED
  BY <1>1, <1>2, <1>3, <1>4, <1>5 DEF t

LEMMA RulesNone == Rules!IsSeq(<<>>) /\ Rules!Listed(<<>>) = {}
<1>1. <<>> \in Seq(BOOLEAN) /\ Len(<<>>) = 0
  OBVIOUS
<1>2. 1..0 = {}
  OBVIOUS
<1>3. Rules!Listed(<<>>) = {}
  BY <1>1, <1>2 DEF Rules!Listed
<1>. QED
  BY <1>1, <1>3, RulesIsSeq

LEMMA RulesPlainTail ==
  ASSUME NEW a, NEW s, NEW late, NEW table, RulesPlain(a, s, late, table), s # <<>>
  PROVE  RulesItem(a, Head(s), late, table) /\ RulesPlain(a, Tail(s), late, table)
BY RulesTail DEF RulesPlain

LEMMA RulesPlainNone ==
  ASSUME NEW a, NEW late, NEW table PROVE RulesPlain(a, <<>>, late, table)
<1>1. DOMAIN <<>> = {}
  OBVIOUS
<1>. QED
  BY <1>1, RulesNone DEF RulesPlain

LEMMA RulesPlainOne ==
  ASSUME NEW a, NEW x, NEW late, NEW table, RulesItem(a, x, late, table)
  PROVE  RulesPlain(a, <<x>>, late, table)
<1>. DEFINE s == <<x>>
<1>1. s \in Seq({x}) /\ Len(s) = 1 /\ s[1] = x
  OBVIOUS
<1>. HIDE DEF s
<1>2. Rules!IsSeq(s) /\ DOMAIN s = 1..1
  BY <1>1, RulesIsSeq
<1>3. RulesPlain(a, s, late, table)
  BY <1>1, <1>2 DEF RulesPlain
<1>. QED
  BY <1>3 DEF s

LEMMA RulesPlainMap ==
  ASSUME NEW a, NEW n \in Nat, NEW s, NEW late, NEW table,
         s = [i \in 1..n |-> s[i]], \A i \in 1..n : RulesItem(a, s[i], late, table)
  PROVE  RulesPlain(a, s, late, table)
<1>. DEFINE T == {s[i] : i \in 1..n}
<1>1. \A i \in 1..n : s[i] \in T
  OBVIOUS
<1>. HIDE DEF T
<1>2. s \in [1..n -> T]
  BY <1>1
<1>3. s \in Seq(T) /\ Len(s) = n
  BY <1>2
<1>. QED
  BY <1>3, RulesIsSeq DEF RulesPlain

LEMMA RulesPlainCons ==
  ASSUME NEW a, NEW x, NEW s, NEW late, NEW table,
         RulesItem(a, x, late, table), RulesPlain(a, s, late, table)
  PROVE  RulesPlain(a, <<x>> \o s, late, table)
<1>. DEFINE T == {x} \cup {s[i] : i \in DOMAIN s} o == <<x>> c == o \o s
<1>1. s \in Seq(T)
  <2>. DEFINE S == {s[i] : i \in DOMAIN s}
  <2>1. s \in Seq(S)
    BY DEF RulesPlain, Rules!IsSeq
  <2>. HIDE DEF S
  <2>2. s \in Seq({x} \cup S)
    BY <2>1
  <2>. QED
    BY <2>2 DEF S
<1>2. \A i \in DOMAIN s : RulesItem(a, s[i], late, table)
  BY DEF RulesPlain
<1>. HIDE DEF T
<1>3. x \in T
  BY DEF T
<1>4. o \in Seq(T) /\ Len(o) = 1 /\ o[1] = x
  BY <1>3
<1>. HIDE DEF o
<1>0. Len(s) \in Nat /\ DOMAIN s = 1..Len(s)
  BY <1>1
<1>5. /\ c \in Seq(T) /\ Len(c) = 1 + Len(s) /\ Len(s) \in Nat /\ DOMAIN s = 1..Len(s)
      /\ \A i \in 1..Len(c) : c[i] = IF i <= 1 THEN o[i] ELSE s[i - 1]
  <2>1. /\ c \in Seq(T) /\ Len(c) = Len(o) + Len(s)
        /\ \A i \in 1..Len(o) + Len(s) : c[i] = IF i <= Len(o) THEN o[i] ELSE s[i - Len(o)]
    BY <1>1, <1>4, ConcatProperties
  <2>. HIDE DEF c
  <2>. QED
    BY <1>0, <1>4, <2>1
<1>. HIDE DEF c
<1>6. ASSUME NEW i \in 1..Len(c) PROVE RulesItem(a, c[i], late, table)
  <2>1. CASE i <= 1
    <3>1. i = 1
      BY <1>5, <2>1
    <3>. QED
      BY <1>4, <1>5, <3>1
  <2>2. CASE ~(i <= 1)
    <3>1. i - 1 \in DOMAIN s
      BY <1>5, <2>2
    <3>. QED
      BY <1>2, <1>5, <2>2, <3>1
  <2>. QED
    BY <2>1, <2>2
<1>7. RulesPlain(a, c, late, table)
  BY <1>5, <1>6, RulesIsSeq DEF RulesPlain
<1>. QED
  BY <1>7 DEF c, o

LEMMA RulesPlainKept ==
  ASSUME NEW a, NEW s, NEW late, NEW table, NEW late2, NEW table2,
         RulesPlain(a, s, late, table),
         \A r \in DOMAIN table2 \ late2 :
           \/ r \in DOMAIN table \ late /\ table2[r] = table[r]
           \/ ~(table2[r].by < RankOf[a])
  PROVE  RulesPlain(a, s, late2, table2)
<1>1. ASSUME NEW prio, RulesPlace(a, prio, late, table) PROVE RulesPlace(a, prio, late2, table2)
  BY <1>1 DEF RulesPlace
<1>. QED
  BY <1>1 DEF RulesPlain, RulesItem

LEMMA RulesDo ==
  ASSUME NEW op, NEW arg
  PROVE  Rules!Statement(op, arg).op = op /\ Rules!Statement(op, arg).arg = arg
BY DEF Rules!Statement

LEMMA RulesDropShape ==
  ASSUME NEW c
  PROVE  /\ RulesDrop(c) # <<>> /\ Head(RulesDrop(c)) = Rules!Statement("drop", c)
         /\ Tail(RulesDrop(c)) = <<>>
<1>. DEFINE x == Rules!Statement("drop", c)
<1>. HIDE DEF x
<1>1. <<x>> # <<>> /\ Head(<<x>>) = x /\ Tail(<<x>>) = <<>>
  OBVIOUS
<1>. QED
  BY <1>1 DEF RulesDrop, x

-----------------------------------------------------------------------------
(* Steps of requests                                                       *)

LEMMA RulesMoved ==
  ASSUME RulesInv, NEW a \in Officers, NEW todo, NEW adds, NEW rule, NEW touched,
         Rules!Moves(a, todo, adds, rule, touched)
  PROVE  /\ rulesEdit' = [b \in Officers |-> rulesEdit'[b]]
         /\ \A b \in Officers : {"todo", "adds", "rule", "late"} \subseteq DOMAIN rulesEdit'[b]
         /\ rulesEdit'[a].todo = todo /\ rulesEdit'[a].adds = adds
         /\ rulesEdit'[a].rule = rule /\ rulesEdit'[a].late = rulesEdit[a].late
         /\ \A b \in Officers \ {a} :
              /\ rulesEdit'[b].todo = rulesEdit[b].todo /\ rulesEdit'[b].adds = rulesEdit[b].adds
              /\ rulesEdit'[b].rule = rulesEdit[b].rule
              /\ rulesEdit'[b].late = rulesEdit[b].late \cup touched
         /\ Rules!Others(a, touched)
<1>. DEFINE n == [rulesEdit[a] EXCEPT !.todo = todo, !.adds = adds, !.rule = rule]
            m(b) == [rulesEdit[b] EXCEPT !.late = @ \cup touched]
<1>1. rulesEdit' = [b \in Officers |-> IF b = a THEN n ELSE m(b)]
  BY DEF Rules!Moves
<1>2. \A b \in Officers : {"todo", "adds", "rule", "late"} \subseteq DOMAIN rulesEdit[b]
  BY DEF RulesInv, RulesTypes
<1>3. /\ {"todo", "adds", "rule", "late"} \subseteq DOMAIN n
      /\ n.todo = todo /\ n.adds = adds /\ n.rule = rule /\ n.late = rulesEdit[a].late
  BY <1>2
<1>4. ASSUME NEW b \in Officers
      PROVE  /\ {"todo", "adds", "rule", "late"} \subseteq DOMAIN m(b)
             /\ m(b).todo = rulesEdit[b].todo /\ m(b).adds = rulesEdit[b].adds
             /\ m(b).rule = rulesEdit[b].rule /\ m(b).late = rulesEdit[b].late \cup touched
  BY <1>2
<1>. HIDE DEF n, m
<1>. QED
  BY <1>1, <1>3, <1>4 DEF Rules!Moves

(* Nobody else is about to write the conditions of a rule that a statement *)
(* touches, unless the rule is torn from then on.                          *)
LEMMA RulesOnly ==
  ASSUME RulesInv, NEW a \in Officers, NEW todo, NEW adds, NEW rule, NEW touched,
         Rules!Moves(a, todo, adds, rule, touched), NEW r \in Rules!Present', r \notin rulesTorn'
  PROVE  /\ r \notin rulesTorn
         /\ r \in touched => \A b \in Officers \ {a} : ~RulesPending(b, r)
<1>1. rulesTorn' = {t \in rulesTorn \cup {s \in touched : \E b \in Officers \ {a} :
                       Rules!Busy(b) /\ rulesEdit[b].rule = s} : t \in Rules!Present'}
  BY RulesMoved DEF Rules!Others, Rules!Present
<1>2. ASSUME NEW b \in Officers, RulesPending(b, r)
      PROVE  Rules!Busy(b) /\ rulesEdit[b].rule = r
  BY <1>2 DEF RulesPending, RulesAdding, RulesDropping, Rules!Busy, Rules!Runs
<1>. QED
  BY <1>1, <1>2

(* A statement: what it does to the rules that it touches is all there is  *)
(* to show.                                                                *)
LEMMA RulesMoveStep ==
  ASSUME RulesInv, NEW a \in Officers, NEW todo, NEW adds, NEW rule, NEW touched,
         Rules!Moves(a, todo, adds, rule, touched),
         Rules!Present' \subseteq RuleIds, \A r \in Rules!Present' : RulesRow(rulesRows'[r]),
         rulesConds' = [r \in RuleIds |-> rulesConds'[r]],
         rulesMeant' = [r \in RuleIds |-> rulesMeant'[r]],
         \A r \in Rules!Present' \ touched :
           /\ r \in Rules!Present /\ rulesRows'[r] = rulesRows[r]
           /\ rulesConds'[r] = rulesConds[r] /\ rulesMeant'[r] = rulesMeant[r]
           /\ ~RulesPending(a, r) /\ ~RulesPending(a, r)',
         \A r \in (Rules!Present' \cap touched) \ rulesTorn' :
           /\ RulesAdding(a, r)' =>
                rulesMeant'[r] = rulesConds'[r] \cup Rules!Listed(rulesEdit[a].adds)'
           /\ RulesDropping(a, r)' => rulesMeant'[r] = Rules!Listed(Rules!Arg(a))'
           /\ ~RulesPending(a, r)' => rulesConds'[r] = rulesMeant'[r],
         RulesTodo(a)', RulesPermitted(a)'
  PROVE  RulesInv'
<1>1. /\ rulesEdit' = [b \in Officers |-> rulesEdit'[b]]
      /\ \A b \in Officers : {"todo", "adds", "rule", "late"} \subseteq DOMAIN rulesEdit'[b]
      /\ \A b \in Officers \ {a} :
           /\ rulesEdit'[b].todo = rulesEdit[b].todo /\ rulesEdit'[b].adds = rulesEdit[b].adds
           /\ rulesEdit'[b].rule = rulesEdit[b].rule
           /\ rulesEdit'[b].late = rulesEdit[b].late \cup touched
      /\ Rules!Disturb
  BY RulesMoved DEF Rules!Others
<1>2. RulesEvals' /\ rulesEval' = [q \in RuleQueries |-> rulesEval'[q]]
  BY <1>1, RulesDisturb
<1>3. RulesTypes'
  BY <1>1, <1>2 DEF RulesTypes, Rules!Present
<1>4. ASSUME NEW b \in Officers, b # a PROVE RulesTodo(b)' /\ RulesPermitted(b)'
  <2>1. RulesTodo(b) /\ RulesPermitted(b)
    BY DEF RulesInv, RulesEdits
  <2>2. \A s : RulesPlain(b, s, rulesEdit[b].late, rulesRows)
               => RulesPlain(b, s, rulesEdit'[b].late, rulesRows')
    <3>1. \A r \in DOMAIN rulesRows' \ rulesEdit'[b].late :
            r \in DOMAIN rulesRows \ rulesEdit[b].late /\ rulesRows'[r] = rulesRows[r]
      BY <1>1, <1>4 DEF Rules!Present
    <3>. QED
      BY <3>1, RulesPlainKept
  <2>3. RulesTodo(b)'
    BY <1>1, <1>4, <2>1, <2>2 DEF RulesTodo
  <2>4. RulesPermitted(b)'
    BY <1>1, <1>4, <2>1 DEF RulesPermitted, Rules!Busy, Rules!Permits, RulesPermits
  <2>. QED
    BY <2>3, <2>4
<1>5. ASSUME NEW b \in Officers, b # a, NEW r
      PROVE  /\ RulesAdding(b, r)' <=> RulesAdding(b, r)
             /\ RulesDropping(b, r)' <=> RulesDropping(b, r)
             /\ RulesPending(b, r)' <=> RulesPending(b, r)
             /\ rulesEdit'[b].adds = rulesEdit[b].adds /\ Rules!Arg(b)' = Rules!Arg(b)
  BY <1>1, <1>5 DEF RulesPending, RulesAdding, RulesDropping, Rules!Runs, Rules!Arg
<1>6. ASSUME NEW r \in Rules!Present' \ rulesTorn' PROVE RulesWhole(r)'
  <2>1. r \notin rulesTorn /\ (r \in touched => \A b \in Officers \ {a} : ~RulesPending(b, r))
    BY <1>6, RulesOnly
  <2>2. CASE r \in touched
    <3>1. \A b \in Officers \ {a} : /\ ~RulesPending(b, r)' /\ ~RulesAdding(b, r)'
                                    /\ ~RulesDropping(b, r)'
      BY <1>5, <2>1, <2>2 DEF RulesPending
    <3>2. /\ RulesAdding(a, r)' =>
                rulesMeant'[r] = rulesConds'[r] \cup Rules!Listed(rulesEdit[a].adds)'
          /\ RulesDropping(a, r)' => rulesMeant'[r] = Rules!Listed(Rules!Arg(a))'
          /\ ~RulesPending(a, r)' => rulesConds'[r] = rulesMeant'[r]
      BY <1>6, <2>2
    <3>. QED
      BY <3>1, <3>2 DEF RulesWhole
  <2>3. CASE r \notin touched
    <3>1. /\ r \in Rules!Present
          /\ rulesConds'[r] = rulesConds[r] /\ rulesMeant'[r] = rulesMeant[r]
          /\ ~RulesPending(a, r) /\ ~RulesPending(a, r)'
      BY <1>6, <2>3
    <3>2. RulesWhole(r)
      BY <2>1, <3>1 DEF RulesInv, RulesConsistent
    <3>3. ~RulesAdding(a, r)' /\ ~RulesDropping(a, r)'
      BY <3>1 DEF RulesPending
    <3>4. /\ \A b \in Officers : RulesAdding(b, r)' =>
               rulesMeant'[r] = rulesConds'[r] \cup Rules!Listed(rulesEdit[b].adds)'
          /\ \A b \in Officers :
               RulesDropping(b, r)' => rulesMeant'[r] = Rules!Listed(Rules!Arg(b))'
      BY <1>5, <3>1, <3>2, <3>3 DEF RulesWhole, Rules!Listed
    <3>5. /\ (\A b \in Officers : ~RulesPending(b, r)') => rulesConds'[r] = rulesMeant'[r]
          /\ \A b, c \in Officers : RulesPending(b, r)' /\ RulesPending(c, r)' => b = c
      BY <1>5, <3>1, <3>2 DEF RulesWhole
    <3>. QED
      BY <3>4, <3>5 DEF RulesWhole
  <2>. QED
    BY <2>2, <2>3
<1>7. RulesEdits'
  BY <1>4 DEF RulesEdits
<1>8. RulesConsistent'
  BY <1>6 DEF RulesConsistent
<1>. QED
  BY <1>2, <1>3, <1>7, <1>8 DEF RulesInv

(* A request begins, or stops: its next statements write no conditions.    *)
LEMMA RulesReplaced ==
  ASSUME RulesInv, NEW a \in Officers, NEW n,
         rulesEdit' = [rulesEdit EXCEPT ![a] = n],
         {"todo", "adds", "rule", "late"} \subseteq DOMAIN n, n.adds = <<>>,
         RulesPlain(a, n.todo, n.late, rulesRows),
         n.todo # <<>> /\ n.rule \in Rules!Present \ n.late =>
           RulesPermits(a, rulesRows[n.rule]),
         UNCHANGED <<rulesRows, rulesConds, rulesMeant>>,
         \A r \in Rules!Present \ rulesTorn' : r \notin rulesTorn /\ ~RulesPending(a, r),
         RulesEvals', rulesEval' = [q \in RuleQueries |-> rulesEval'[q]]
  PROVE  RulesInv'
<1>1. /\ rulesEdit' = [b \in Officers |-> rulesEdit'[b]] /\ rulesEdit'[a] = n
      /\ \A b \in Officers \ {a} : rulesEdit'[b] = rulesEdit[b]
  BY DEF RulesInv, RulesTypes
<1>2. Rules!Present' = Rules!Present
  BY DEF Rules!Present
<1>3. RulesTypes'
  BY <1>1, <1>2 DEF RulesInv, RulesTypes
<1>4. ASSUME NEW r PROVE ~RulesPending(a, r)' /\ ~RulesAdding(a, r)' /\ ~RulesDropping(a, r)'
  <2>1. n.todo # <<>> => Head(n.todo).op # "drop"
    BY RulesPlainTail DEF RulesItem
  <2>. QED
    BY <1>1, <2>1 DEF RulesPending, RulesAdding, RulesDropping, Rules!Runs
<1>5. ASSUME NEW b \in Officers, b # a, NEW r
      PROVE  /\ RulesAdding(b, r)' <=> RulesAdding(b, r)
             /\ RulesDropping(b, r)' <=> RulesDropping(b, r)
             /\ RulesPending(b, r)' <=> RulesPending(b, r)
             /\ rulesEdit'[b].adds = rulesEdit[b].adds /\ Rules!Arg(b)' = Rules!Arg(b)
  BY <1>1, <1>5 DEF RulesPending, RulesAdding, RulesDropping, Rules!Runs, Rules!Arg
<1>6. ASSUME NEW r \in Rules!Present' \ rulesTorn' PROVE RulesWhole(r)'
  <2>1. RulesWhole(r) /\ ~RulesPending(a, r)
    BY <1>2, <1>6 DEF RulesInv, RulesConsistent
  <2>2. /\ \A b \in Officers : RulesAdding(b, r)' =>
             rulesMeant'[r] = rulesConds'[r] \cup Rules!Listed(rulesEdit[b].adds)'
        /\ \A b \in Officers : RulesDropping(b, r)' => rulesMeant'[r] = Rules!Listed(Rules!Arg(b))'
    BY <1>4, <1>5, <2>1 DEF RulesWhole, Rules!Listed
  <2>3. /\ (\A b \in Officers : ~RulesPending(b, r)') => rulesConds'[r] = rulesMeant'[r]
        /\ \A b, c \in Officers : RulesPending(b, r)' /\ RulesPending(c, r)' => b = c
    BY <1>4, <1>5, <2>1 DEF RulesWhole
  <2>. QED
    BY <2>2, <2>3 DEF RulesWhole
<1>7. ASSUME NEW b \in Officers PROVE RulesTodo(b)' /\ RulesPermitted(b)'
  <2>1. CASE b = a
    <3>1. RulesTodo(a)'
      BY <1>1, RulesNone DEF RulesTodo
    <3>2. RulesPermitted(a)'
      BY <1>1, <1>2 DEF RulesPermitted, Rules!Busy, Rules!Permits, RulesPermits
    <3>. QED
      BY <2>1, <3>1, <3>2
  <2>2. CASE b # a
    BY <1>1, <1>2, <2>2 DEF RulesInv, RulesEdits, RulesTodo, RulesPermitted, Rules!Busy
  <2>. QED
    BY <2>1, <2>2
<1>. QED
  BY <1>3, <1>6, <1>7 DEF RulesInv, RulesEdits, RulesConsistent

LEMMA RulesUndisturbed ==
  ASSUME RulesInv, UNCHANGED <<rulesRows, rulesConds, rulesEval>>
  PROVE  RulesEvals' /\ rulesEval' = [q \in RuleQueries |-> rulesEval'[q]]
<1>1. \A q \in RuleQueries : RulesJudged(q)'
  <2>1. ASSUME NEW q \in RuleQueries PROVE RulesJudged(q)'
    <3>1. RulesJudged(q)
      BY DEF RulesInv, RulesEvals
    <3>2. RulesAlone(q) => RulesAlone(q)'
      BY DEF RulesAlone, RulesSeen, Rules!Fires, Rules!Verdicts, Rules!Present
    <3>. QED
      BY <3>1, <3>2 DEF RulesJudged
  <2>. QED
    BY <2>1
<1>. QED
  BY <1>1 DEF RulesInv, RulesTypes, RulesEvals

LEMMA RulesCrash ==
  ASSUME RulesInv, NEW a \in Officers, Rules!Crash(a)
  PROVE  RulesInv'
<1>. DEFINE n == Rules!Resting
<1>1. /\ rulesEdit' = [rulesEdit EXCEPT ![a] = n]
      /\ rulesTorn' = IF rulesEdit[a].adds # <<>> \/ Rules!Runs(a, "drop")
                      THEN rulesTorn \cup ({rulesEdit[a].rule} \cap Rules!Present) ELSE rulesTorn
      /\ UNCHANGED <<rulesRows, rulesConds, rulesEval, rulesMeant>>
  BY DEF Rules!Crash
<1>2. /\ {"todo", "adds", "rule", "late"} \subseteq DOMAIN n
      /\ n.adds = <<>> /\ n.todo = <<>>
  BY DEF Rules!Resting
<1>3. \A r \in Rules!Present \ rulesTorn' : r \notin rulesTorn /\ ~RulesPending(a, r)
  BY <1>1 DEF RulesPending, RulesAdding, RulesDropping
<1>. HIDE DEF n
<1>4. RulesPlain(a, n.todo, n.late, rulesRows)
  BY <1>2, RulesPlainNone
<1>5. RulesEvals' /\ rulesEval' = [q \in RuleQueries |-> rulesEval'[q]]
  BY <1>1, RulesUndisturbed
<1>. QED
  BY <1>1, <1>2, <1>3, <1>4, <1>5, RulesReplaced

(* The rules as a request finds them when it is checked.                   *)
RulesUnwritten == {}

LEMMA RulesBegin ==
  ASSUME RulesInv, NEW a \in Officers, NEW r, NEW todo, Rules!Begin(a, r, todo),
         RulesPlain(a, todo, RulesUnwritten, rulesRows),
         r \in Rules!Present => RulesPermits(a, rulesRows[r])
  PROVE  RulesInv'
<1>. DEFINE n == [todo |-> todo, adds |-> <<>>, rule |-> r, late |-> RulesUnwritten]
<1>1. /\ rulesEdit' = [rulesEdit EXCEPT ![a] = n] /\ Rules!Disturb
      /\ UNCHANGED <<rulesRows, rulesConds, rulesMeant, rulesTorn>> /\ ~Rules!Busy(a)
  BY DEF Rules!Begin, Rules!Free, RulesUnwritten
<1>2. /\ {"todo", "adds", "rule", "late"} \subseteq DOMAIN n
      /\ n.adds = <<>> /\ n.todo = todo /\ n.rule = r /\ n.late = RulesUnwritten
  OBVIOUS
<1>. HIDE DEF n
<1>3. \A s \in Rules!Present \ rulesTorn' : s \notin rulesTorn /\ ~RulesPending(a, s)
  BY <1>1 DEF RulesPending, RulesAdding, RulesDropping, Rules!Busy, Rules!Runs
<1>4. RulesEvals' /\ rulesEval' = [q \in RuleQueries |-> rulesEval'[q]]
  BY <1>1, RulesDisturb
<1>. QED
  BY <1>1, <1>2, <1>3, <1>4, RulesReplaced

LEMMA RulesFloor ==
  ASSUME NEW a \in Officers, NEW prio, Rules!Floor(a, prio)
  PROVE  RulesPlace(a, prio, RulesUnwritten, rulesRows)
BY DEF Rules!Floor, RulesPlace, RulesUnwritten, Rules!Present

LEMMA RulesCreate ==
  ASSUME RulesInv, NEW a \in Officers, NEW b \in RuleBodies, Rules!Create(a, b)
  PROVE  RulesInv'
<1>. DEFINE x == Rules!Statement("insert", b)
<1>1. /\ RulesMayLock(a, b.locked, b.tier) /\ Rules!Floor(a, b.prio)
      /\ Rules!Begin(a, None, <<x>>) /\ RulesBody(b) /\ None \notin RuleIds
  BY RulesAssumption DEF Rules!Create, Rules!ConstantsOK, RulesBody, RulesMayLock
<1>2. x.op = "insert" /\ x.arg = b
  BY RulesDo
<1>. HIDE DEF x
<1>3. RulesItem(a, x, RulesUnwritten, rulesRows)
  BY <1>1, <1>2, RulesFloor DEF RulesItem
<1>4. None \notin Rules!Present
  BY <1>1 DEF RulesInv, RulesTypes
<1>. QED
  BY <1>1, <1>3, <1>4, RulesPlainOne, RulesBegin

LEMMA RulesDelete ==
  ASSUME RulesInv, NEW a \in Officers, NEW r \in Rules!Present, Rules!Delete(a, r)
  PROVE  RulesInv'
<1>. DEFINE x == Rules!Statement("remove", None)
<1>1. RulesPermits(a, rulesRows[r]) /\ Rules!Begin(a, r, <<x>>)
  BY DEF Rules!Delete, RulesPermits
<1>2. x.op = "remove"
  BY RulesDo
<1>. HIDE DEF x
<1>3. RulesItem(a, x, RulesUnwritten, rulesRows)
  BY <1>2 DEF RulesItem
<1>. QED
  BY <1>1, <1>3, RulesPlainOne, RulesBegin

LEMMA RulesUpdate ==
  ASSUME RulesInv, NEW a \in Officers, NEW r \in Rules!Present, NEW b \in RuleChanges,
         Rules!Update(a, r, b)
  PROVE  RulesInv'
<1>. DEFINE old == [locked |-> rulesRows[r].locked, tier |-> rulesRows[r].tier]
            new == Rules!Over(b, old)
            x == Rules!Statement("amend", new)
<1>1. /\ RulesPermits(a, rulesRows[r]) /\ RulesMayLock(a, new.locked, new.tier)
      /\ Rules!Begin(a, r, <<x>>)
      /\ "prio" \in DOMAIN b => Rules!Floor(a, b.prio)
      /\ DOMAIN b \subseteq Rules!Fields \cup {"conds"} /\ Rules!Valid(b)
  BY RulesAssumption DEF Rules!Update, Rules!ConstantsOK, RulesPermits, RulesMayLock
<1>2. x.op = "amend" /\ x.arg = new
  BY RulesDo
<1>3. DOMAIN old = {"locked", "tier"} /\ old.tier = rulesRows[r].tier
  OBVIOUS
<1>4. old.tier \in RulesTier
  BY <1>3 DEF RulesInv, RulesTypes, RulesRow
<1>. HIDE DEF x, old
<1>5. /\ DOMAIN new = DOMAIN b \cup {"locked", "tier"}
      /\ \A f \in DOMAIN b : new[f] = b[f]
      /\ \A f \in DOMAIN old \ DOMAIN b : new[f] = old[f]
  BY <1>3 DEF Rules!Over
<1>. HIDE DEF new
<1>6. DOMAIN new \subseteq Rules!Fields \cup {"conds"}
  BY <1>1, <1>5 DEF Rules!Fields
<1>7. new.tier \in RulesTier
  BY <1>1, <1>3, <1>4, <1>5 DEF Rules!Valid, RulesTier
<1>8. Rules!Valid(new)
  BY <1>1, <1>5, <1>7 DEF Rules!Valid, RulesTier
<1>9. "prio" \in DOMAIN new => RulesPlace(a, new.prio, RulesUnwritten, rulesRows)
  BY <1>1, <1>5, RulesFloor
<1>10. RulesItem(a, x, RulesUnwritten, rulesRows)
  BY <1>1, <1>2, <1>5, <1>6, <1>8, <1>9 DEF RulesItem
<1>. QED
  BY <1>1, <1>10, RulesPlainOne, RulesBegin

(* A server admin is above nobody.                                         *)
LEMMA RulesServer ==
  ASSUME RulesInv, NEW a \in Officers, RankOf[a] = 1, NEW b, RulesBody(b), NEW late
  PROVE  RulesMayLock(a, b.locked, b.tier) /\ RulesPlace(a, b.prio, late, rulesRows)
<1>1. b.tier \in Int \cup {None}
  BY DEF RulesBody, Rules!Valid, Rules!Fields
<1>2. \A r \in DOMAIN rulesRows : rulesRows[r].by \in Nat \ {0}
  BY DEF RulesInv, RulesTypes, RulesRow, Rules!Present
<1>. QED
  BY <1>1, <1>2 DEF Rules!MayLock, RulesMayLock, RulesPlace

LEMMA RulesProfile ==
  ASSUME NEW p \in RuleProfiles
  PROVE  Len(p) \in Nat /\ \A i \in 1..Len(p) : RulesBody(p[i])
<1>1. Rules!IsSeq(p) /\ \A i \in DOMAIN p : RulesBody(p[i])
  BY RulesAssumption DEF Rules!ConstantsOK, RulesBody
<1>. DEFINE T == {p[i] : i \in DOMAIN p}
<1>2. p \in Seq(T)
  BY <1>1 DEF Rules!IsSeq
<1>. HIDE DEF T
<1>. QED
  BY <1>1, <1>2

LEMMA RulesReplace ==
  ASSUME RulesInv, NEW a \in Officers, NEW p \in RuleProfiles, Rules!Replace(a, p)
  PROVE  RulesInv'
<1>. DEFINE w == Rules!Statement("wipe", None)
            s == [i \in 1..Len(p) |-> Rules!Statement("insert", p[i])]
<1>1. RankOf[a] = 1 /\ Rules!Begin(a, None, <<w>> \o s) /\ None \notin Rules!Present
  BY RulesAssumption DEF Rules!Replace, Rules!ConstantsOK, RulesInv, RulesTypes
<1>2. Len(p) \in Nat /\ \A i \in 1..Len(p) : RulesBody(p[i])
  BY RulesProfile
<1>3. w.op = "wipe" /\ \A i \in 1..Len(p) : s[i].op = "insert" /\ s[i].arg = p[i]
  BY RulesDo
<1>4. s = [i \in 1..Len(p) |-> s[i]]
  OBVIOUS
<1>. HIDE DEF w, s
<1>5. \A i \in 1..Len(p) : RulesItem(a, s[i], RulesUnwritten, rulesRows)
  BY <1>1, <1>2, <1>3, RulesServer DEF RulesItem
<1>6. RulesItem(a, w, RulesUnwritten, rulesRows)
  BY <1>1, <1>3 DEF RulesItem
<1>7. RulesPlain(a, s, RulesUnwritten, rulesRows)
  BY <1>2, <1>4, <1>5, RulesPlainMap
<1>8. RulesPlain(a, <<w>> \o s, RulesUnwritten, rulesRows)
  BY <1>6, <1>7, RulesPlainCons
<1>. QED
  BY <1>1, <1>8, RulesBegin

LEMMA RulesMerge ==
  ASSUME RulesInv, NEW a \in Officers, NEW p \in RuleProfiles, Rules!Merge(a, p)
  PROVE  RulesInv'
<1>. DEFINE s == [i \in 1..Len(p) |-> Rules!Statement("unname", p[i])]
<1>1. RankOf[a] = 1 /\ Rules!Begin(a, None, s) /\ None \notin Rules!Present
  BY RulesAssumption DEF Rules!Merge, Rules!ConstantsOK, RulesInv, RulesTypes
<1>2. Len(p) \in Nat /\ \A i \in 1..Len(p) : RulesBody(p[i])
  BY RulesProfile
<1>3. \A i \in 1..Len(p) : s[i].op = "unname" /\ s[i].arg = p[i]
  BY RulesDo
<1>4. s = [i \in 1..Len(p) |-> s[i]]
  OBVIOUS
<1>. HIDE DEF s
<1>5. \A i \in 1..Len(p) : RulesItem(a, s[i], RulesUnwritten, rulesRows)
  BY <1>1, <1>2, <1>3 DEF RulesItem
<1>6. RulesPlain(a, s, RulesUnwritten, rulesRows)
  BY <1>2, <1>4, <1>5, RulesPlainMap
<1>. QED
  BY <1>1, <1>6, RulesBegin

-----------------------------------------------------------------------------
(* Statements                                                              *)

LEMMA RulesNext ==
  ASSUME RulesInv, NEW a \in Officers, NEW op \in {"insert", "amend", "remove", "wipe", "unname"},
         Rules!Runs(a, op)
  PROVE  /\ rulesEdit[a].adds = <<>> /\ Rules!Busy(a) /\ Head(rulesEdit[a].todo).op = op
         /\ RulesItem(a, Head(rulesEdit[a].todo), rulesEdit[a].late, rulesRows)
         /\ RulesPlain(a, Rules!Rest(a), rulesEdit[a].late, rulesRows)
         /\ \A r : ~RulesPending(a, r)
<1>1. /\ rulesEdit[a].adds = <<>> /\ Head(rulesEdit[a].todo).op = op /\ rulesEdit[a].todo # <<>>
      /\ Rules!Busy(a) /\ \A r : ~RulesPending(a, r)
  BY DEF Rules!Runs, Rules!Busy, RulesPending, RulesAdding, RulesDropping
<1>2. \A c : rulesEdit[a].todo # RulesDrop(c)
  BY <1>1, RulesDropShape, RulesDo
<1>3. RulesPlain(a, rulesEdit[a].todo, rulesEdit[a].late, rulesRows)
  BY <1>2 DEF RulesInv, RulesEdits, RulesTodo
<1>. QED
  BY <1>1, <1>3, RulesPlainTail DEF Rules!Rest

(* Statements that write no conditions are none to wait for.               *)
LEMMA RulesNotDrop ==
  ASSUME NEW a, NEW s, NEW late, NEW table, RulesPlain(a, s, late, table)
  PROVE  s # <<>> => Head(s).op # "drop"
BY RulesPlainTail DEF RulesItem

LEMMA RulesInsert ==
  ASSUME RulesInv, NEW a \in Officers, Rules!Insert(a)
  PROVE  RulesInv'
<1>. DEFINE b == Rules!Arg(a)
            row == [f \in Rules!Fields \cup {"by"} |-> IF f = "by" THEN RankOf[a] ELSE b[f]]
<1>1. PICK r \in RuleIds \ Rules!Present :
        /\ rulesRows' = [s \in Rules!Present \cup {r} |-> IF s = r THEN row ELSE rulesRows[s]]
        /\ rulesConds' = [rulesConds EXCEPT ![r] = {}]
        /\ rulesMeant' = [rulesMeant EXCEPT ![r] = Rules!Listed(b.conds)]
        /\ Rules!Moves(a, Rules!Rest(a), b.conds, r, {r})
  BY DEF Rules!Insert
<1>2. /\ RulesItem(a, Head(rulesEdit[a].todo), rulesEdit[a].late, rulesRows)
      /\ Head(rulesEdit[a].todo).op = "insert"
      /\ RulesPlain(a, Rules!Rest(a), rulesEdit[a].late, rulesRows)
      /\ \A s : ~RulesPending(a, s)
  BY RulesNext DEF Rules!Insert
<1>3. RulesBody(b) /\ RulesMayLock(a, b.locked, b.tier)
  BY <1>2 DEF RulesItem, Rules!Arg
<1>4. /\ RulesRow(row) /\ row.by = RankOf[a] /\ row.locked = b.locked /\ row.tier = b.tier
  BY <1>3, RulesAssumption DEF RulesBody, Rules!Valid, Rules!Fields, RulesRow, RulesTier,
                               Rules!ConstantsOK
<1>5. Rules!IsSeq(b.conds)
  BY <1>3 DEF RulesBody, Rules!Valid
<1>6. RankOf[a] \in Nat
  BY RulesAssumption DEF Rules!ConstantsOK
<1>. HIDE DEF row, b
<1>7. /\ Rules!Present' = Rules!Present \cup {r} /\ rulesRows'[r] = row
      /\ \A s \in Rules!Present : rulesRows'[s] = rulesRows[s] /\ s # r
  BY <1>1 DEF Rules!Present
<1>8. /\ rulesConds' = [s \in RuleIds |-> rulesConds'[s]] /\ rulesConds'[r] = {}
      /\ rulesMeant' = [s \in RuleIds |-> rulesMeant'[s]] /\ rulesMeant'[r] = Rules!Listed(b.conds)
      /\ \A s \in RuleIds \ {r} :
           rulesConds'[s] = rulesConds[s] /\ rulesMeant'[s] = rulesMeant[s]
  BY <1>1 DEF RulesInv, RulesTypes
<1>9. /\ rulesEdit'[a].todo = Rules!Rest(a) /\ rulesEdit'[a].adds = b.conds
      /\ rulesEdit'[a].rule = r /\ rulesEdit'[a].late = rulesEdit[a].late
  BY <1>1, RulesMoved
<1>10. RulesPlain(a, Rules!Rest(a), rulesEdit[a].late, rulesRows')
  <2>1. \A s \in DOMAIN rulesRows' \ rulesEdit[a].late :
          \/ s \in DOMAIN rulesRows \ rulesEdit[a].late /\ rulesRows'[s] = rulesRows[s]
          \/ ~(rulesRows'[s].by < RankOf[a])
    BY <1>4, <1>6, <1>7 DEF Rules!Present
  <2>. QED
    BY <1>2, <2>1, RulesPlainKept
<1>11. RulesTodo(a)'
  BY <1>5, <1>9, <1>10 DEF RulesTodo
<1>12. RulesPermitted(a)'
  BY <1>3, <1>4, <1>7, <1>9, <1>6 DEF RulesPermitted, Rules!Permits, RulesPermits, Rules!MayLock,
              RulesMayLock
<1>13. Rules!Present' \subseteq RuleIds /\ \A s \in Rules!Present' : RulesRow(rulesRows'[s])
  BY <1>4, <1>7 DEF RulesInv, RulesTypes
<1>14. \A s : ~RulesDropping(a, s)'
  BY <1>9, <1>10, RulesNotDrop DEF RulesDropping, Rules!Runs
<1>15. \A s \in Rules!Present' \ {r} : ~RulesPending(a, s)'
  BY <1>9, <1>14 DEF RulesPending, RulesAdding
<1>16. Rules!Listed(rulesEdit[a].adds)' = Rules!Listed(b.conds)
  BY <1>9 DEF Rules!Listed
<1>17. ~RulesPending(a, r)' => rulesConds'[r] = rulesMeant'[r]
  BY <1>8, <1>9, <1>14, RulesNone DEF RulesPending, RulesAdding
<1>18. \A s \in Rules!Present' \ {r} :
         /\ s \in Rules!Present /\ rulesRows'[s] = rulesRows[s]
         /\ rulesConds'[s] = rulesConds[s] /\ rulesMeant'[s] = rulesMeant[s]
         /\ ~RulesPending(a, s) /\ ~RulesPending(a, s)'
  BY <1>2, <1>7, <1>8, <1>13, <1>15
<1>19. \A s \in (Rules!Present' \cap {r}) \ rulesTorn' :
         /\ RulesAdding(a, s)' =>
              rulesMeant'[s] = rulesConds'[s] \cup Rules!Listed(rulesEdit[a].adds)'
         /\ RulesDropping(a, s)' => rulesMeant'[s] = Rules!Listed(Rules!Arg(a))'
         /\ ~RulesPending(a, s)' => rulesConds'[s] = rulesMeant'[s]
  BY <1>8, <1>14, <1>16, <1>17
<1>. QED
  BY <1>1, <1>8, <1>11, <1>12, <1>13, <1>18, <1>19, RulesMoveStep

LEMMA RulesCondition ==
  ASSUME RulesInv, NEW a \in Officers, Rules!Condition(a)
  PROVE  RulesInv'
<1>. DEFINE e == rulesEdit[a] r == e.rule
<1>1. e.adds # <<>> /\ UNCHANGED <<rulesRows, rulesMeant>> /\ Rules!Present' = Rules!Present
  BY DEF Rules!Condition, Rules!Present
<1>2. CASE r \notin Rules!Present
  <2>. DEFINE n == Rules!Resting
  <2>1. /\ rulesEdit' = [rulesEdit EXCEPT ![a] = n] /\ UNCHANGED rulesConds /\ Rules!Disturb
        /\ rulesTorn' = {t \in rulesTorn \cup {s \in {} : \E b \in Officers \ {a} :
                           Rules!Busy(b) /\ rulesEdit[b].rule = s} : t \in DOMAIN rulesRows'}
    BY <1>2 DEF Rules!Condition, Rules!Others
  <2>2. /\ {"todo", "adds", "rule", "late"} \subseteq DOMAIN n
        /\ n.adds = <<>> /\ n.todo = <<>>
    BY DEF Rules!Resting
  <2>3. \A s \in Rules!Present \ rulesTorn' : s \notin rulesTorn /\ ~RulesPending(a, s)
    BY <1>1, <1>2, <2>1 DEF RulesPending, RulesAdding, RulesDropping, Rules!Present
  <2>. HIDE DEF n
  <2>4. RulesPlain(a, n.todo, n.late, rulesRows)
    BY <2>2, RulesPlainNone
  <2>5. RulesEvals' /\ rulesEval' = [q \in RuleQueries |-> rulesEval'[q]]
    BY <2>1, RulesDisturb
  <2>. QED
    BY <1>1, <2>1, <2>2, <2>3, <2>4, <2>5, RulesReplaced
<1>3. CASE r \in Rules!Present
  <2>1. /\ rulesConds' = [rulesConds EXCEPT ![r] = @ \cup {Head(e.adds)}]
        /\ Rules!Moves(a, e.todo, Tail(e.adds), r, {r})
    BY <1>3 DEF Rules!Condition
  <2>2. RulesTodo(a) /\ RulesPermitted(a) /\ Rules!Busy(a)
    BY <1>1 DEF RulesInv, RulesEdits, Rules!Busy
  <2>3. Rules!IsSeq(e.adds) /\ RulesPlain(a, e.todo, e.late, rulesRows)
    BY <1>1, <2>2 DEF RulesTodo
  <2>4. /\ Rules!IsSeq(Tail(e.adds))
        /\ Rules!Listed(e.adds) = {Head(e.adds)} \cup Rules!Listed(Tail(e.adds))
    BY <1>1, <2>3, RulesTail
  <2>5. /\ rulesEdit'[a].todo = e.todo /\ rulesEdit'[a].adds = Tail(e.adds)
        /\ rulesEdit'[a].rule = r /\ rulesEdit'[a].late = e.late
    BY <2>1, RulesMoved
  <2>6. /\ rulesConds' = [s \in RuleIds |-> rulesConds'[s]]
        /\ rulesConds'[r] = rulesConds[r] \cup {Head(e.adds)}
        /\ rulesMeant' = [s \in RuleIds |-> rulesMeant'[s]]
        /\ \A s \in RuleIds \ {r} : rulesConds'[s] = rulesConds[s]
    BY <1>1, <1>3, <2>1 DEF RulesInv, RulesTypes
  <2>7. RulesTodo(a)' /\ RulesPermitted(a)'
    BY <1>1, <2>2, <2>3, <2>4, <2>5 DEF RulesTodo, RulesPermitted, Rules!Permits, RulesPermits
  <2>8. \A s : ~RulesDropping(a, s)'
    BY <2>3, <2>5, RulesNotDrop DEF RulesDropping, Rules!Runs
  <2>9. \A s \in Rules!Present' \ {r} : ~RulesPending(a, s) /\ ~RulesPending(a, s)'
    BY <1>1, <2>5 DEF RulesPending, RulesAdding, RulesDropping
  <2>10. Rules!Listed(rulesEdit[a].adds)' = Rules!Listed(Tail(e.adds))
    BY <2>5 DEF Rules!Listed
  <2>11. ASSUME r \notin rulesTorn'
         PROVE  rulesMeant'[r] = rulesConds'[r] \cup Rules!Listed(Tail(e.adds))
    <3>1. RulesWhole(r)
      BY <1>1, <1>3, <2>1, <2>11, RulesOnly DEF RulesInv, RulesConsistent
    <3>2. rulesMeant[r] = rulesConds[r] \cup Rules!Listed(e.adds)
      BY <1>1, <3>1 DEF RulesWhole, RulesAdding
    <3>. QED
      BY <1>1, <2>4, <2>6, <3>2
  <2>12. \A s : s = r /\ s \notin rulesTorn' /\ ~RulesPending(a, s)'
                => rulesConds'[s] = rulesMeant'[s]
    BY <2>5, <2>11, RulesNone DEF RulesPending, RulesAdding
  <2>13. Rules!Present' \subseteq RuleIds /\ \A s \in Rules!Present' : RulesRow(rulesRows'[s])
    BY <1>1 DEF RulesInv, RulesTypes
  <2>14. \A s \in Rules!Present' \ {r} :
           /\ s \in Rules!Present /\ rulesRows'[s] = rulesRows[s]
           /\ rulesConds'[s] = rulesConds[s] /\ rulesMeant'[s] = rulesMeant[s]
           /\ ~RulesPending(a, s) /\ ~RulesPending(a, s)'
    BY <1>1, <2>6, <2>9, <2>13
  <2>15. \A s \in (Rules!Present' \cap {r}) \ rulesTorn' :
           /\ RulesAdding(a, s)' =>
                rulesMeant'[s] = rulesConds'[s] \cup Rules!Listed(rulesEdit[a].adds)'
           /\ RulesDropping(a, s)' => rulesMeant'[s] = Rules!Listed(Rules!Arg(a))'
           /\ ~RulesPending(a, s)' => rulesConds'[s] = rulesMeant'[s]
    <3>. SUFFICES ASSUME NEW s \in (Rules!Present' \cap {r}) \ rulesTorn'
         PROVE  /\ RulesAdding(a, s)' =>
                     rulesMeant'[s] = rulesConds'[s] \cup Rules!Listed(rulesEdit[a].adds)'
                /\ RulesDropping(a, s)' => rulesMeant'[s] = Rules!Listed(Rules!Arg(a))'
                /\ ~RulesPending(a, s)' => rulesConds'[s] = rulesMeant'[s]
      OBVIOUS
    <3>1. s = r /\ r \notin rulesTorn'
      OBVIOUS
    <3>2. rulesMeant'[s] = rulesConds'[s] \cup Rules!Listed(rulesEdit[a].adds)'
      BY <2>10, <2>11, <3>1
    <3>3. ~RulesDropping(a, s)'
      BY <2>8
    <3>4. ~RulesPending(a, s)' => rulesConds'[s] = rulesMeant'[s]
      BY <2>12, <3>1
    <3>. QED
      BY <3>2, <3>3, <3>4
  <2>. QED
    BY <2>1, <2>6, <2>7, <2>13, <2>14, <2>15, RulesMoveStep
<1>. QED
  BY <1>2, <1>3

LEMMA RulesAmend ==
  ASSUME RulesInv, NEW a \in Officers, Rules!Amend(a)
  PROVE  RulesInv'
<1>. DEFINE b == Rules!Arg(a)
            put(row) == [f \in DOMAIN row |-> IF f \in DOMAIN b THEN b[f] ELSE row[f]]
<1>1. PICK r : r = rulesEdit[a].rule
  OBVIOUS
<1>2. /\ rulesRows' = IF r \in Rules!Present THEN [rulesRows EXCEPT ![r] = put(@)] ELSE rulesRows
      /\ rulesMeant' = IF r \in Rules!Present /\ "conds" \in DOMAIN b
                       THEN [rulesMeant EXCEPT ![r] = Rules!Listed(b.conds)] ELSE rulesMeant
      /\ Rules!Moves(a, Rules!Replaces(b), <<>>, r, {r} \cap Rules!Present)
      /\ UNCHANGED rulesConds
  BY <1>1 DEF Rules!Amend
<1>3. /\ RulesItem(a, Head(rulesEdit[a].todo), rulesEdit[a].late, rulesRows)
      /\ Head(rulesEdit[a].todo).op = "amend" /\ \A s : ~RulesPending(a, s)
  BY RulesNext DEF Rules!Amend
<1>4. /\ DOMAIN b \subseteq Rules!Fields \cup {"conds"} /\ Rules!Valid(b)
      /\ {"locked", "tier"} \subseteq DOMAIN b /\ RulesMayLock(a, b.locked, b.tier)
  BY <1>3 DEF RulesItem, Rules!Arg
<1>5. ASSUME NEW row, RulesRow(row)
      PROVE  /\ RulesRow(put(row)) /\ put(row).locked = b.locked /\ put(row).tier = b.tier
  BY <1>4, <1>5 DEF RulesRow, RulesTier, Rules!Valid, Rules!Fields
<1>. HIDE DEF put, b
<1>6. /\ Rules!Present' = Rules!Present
      /\ r \in Rules!Present => rulesRows'[r] = put(rulesRows[r])
      /\ \A s \in Rules!Present \ {r} : rulesRows'[s] = rulesRows[s]
  BY <1>2 DEF Rules!Present
<1>7. /\ rulesConds' = [s \in RuleIds |-> rulesConds'[s]]
      /\ rulesMeant' = [s \in RuleIds |-> rulesMeant'[s]]
      /\ \A s \in RuleIds \ {r} : rulesMeant'[s] = rulesMeant[s]
      /\ r \in Rules!Present => rulesMeant'[r] = IF "conds" \in DOMAIN b
                                 THEN Rules!Listed(b.conds) ELSE rulesMeant[r]
  BY <1>2 DEF RulesInv, RulesTypes
<1>8. /\ rulesEdit'[a].todo = Rules!Replaces(b) /\ rulesEdit'[a].adds = <<>>
      /\ rulesEdit'[a].rule = r /\ rulesEdit'[a].late = rulesEdit[a].late
  BY <1>2, RulesMoved
<1>9. RulesTodo(a)'
  <2>1. CASE "conds" \in DOMAIN b
    <3>1. Rules!IsSeq(b.conds) /\ Rules!Replaces(b) = RulesDrop(b.conds)
      BY <1>4, <2>1 DEF Rules!Valid, Rules!Replaces, RulesDrop
    <3>. QED
      BY <1>8, <3>1, RulesNone DEF RulesTodo
  <2>2. CASE "conds" \notin DOMAIN b
    <3>1. Rules!Replaces(b) = <<>> /\ RulesPlain(a, <<>>, rulesEdit[a].late, rulesRows')
      BY <2>2, RulesPlainNone DEF Rules!Replaces
    <3>. QED
      BY <1>8, <3>1, RulesNone DEF RulesTodo
  <2>. QED
    BY <2>1, <2>2
<1>10. \A s \in Rules!Present : RulesRow(rulesRows[s])
  BY DEF RulesInv, RulesTypes
<1>11. RulesPermitted(a)'
  BY <1>4, <1>5, <1>6, <1>8, <1>10, RulesAssumption
     DEF RulesPermitted, Rules!Permits, RulesPermits, Rules!MayLock, RulesMayLock, RulesRow,
         RulesTier, Rules!ConstantsOK
<1>12. Rules!Present' \subseteq RuleIds /\ \A s \in Rules!Present' : RulesRow(rulesRows'[s])
  BY <1>5, <1>6, <1>10 DEF RulesInv, RulesTypes
<1>13. \A s : ~RulesAdding(a, s)'
  BY <1>8 DEF RulesAdding
<1>14. \A s : s # r => ~RulesPending(a, s)'
  BY <1>8 DEF RulesPending, RulesAdding, RulesDropping
<1>15. \A s \in Rules!Present' \ ({r} \cap Rules!Present) :
         /\ s \in Rules!Present /\ rulesRows'[s] = rulesRows[s]
         /\ rulesConds'[s] = rulesConds[s] /\ rulesMeant'[s] = rulesMeant[s]
         /\ ~RulesPending(a, s) /\ ~RulesPending(a, s)'
  BY <1>2, <1>3, <1>6, <1>7, <1>12, <1>14
<1>16. ASSUME NEW s \in (Rules!Present' \cap ({r} \cap Rules!Present)) \ rulesTorn'
       PROVE  /\ RulesAdding(a, s)' =>
                   rulesMeant'[s] = rulesConds'[s] \cup Rules!Listed(rulesEdit[a].adds)'
              /\ RulesDropping(a, s)' => rulesMeant'[s] = Rules!Listed(Rules!Arg(a))'
              /\ ~RulesPending(a, s)' => rulesConds'[s] = rulesMeant'[s]
  <2>1. s = r /\ r \in Rules!Present /\ r \in Rules!Present' /\ r \notin rulesTorn'
    OBVIOUS
  <2>2. CASE "conds" \in DOMAIN b
    <3>1. rulesEdit'[a].todo = RulesDrop(b.conds)
      BY <1>8, <2>2 DEF Rules!Replaces, RulesDrop
    <3>2. RulesDropping(a, r)'
      BY <1>8, <3>1, RulesDropShape, RulesDo DEF RulesDropping, Rules!Runs
    <3>3. Rules!Arg(a)' = b.conds
      BY <3>1, RulesDropShape, RulesDo DEF Rules!Arg
    <3>4. Rules!Listed(Rules!Arg(a))' = Rules!Listed(b.conds)
      BY <3>3 DEF Rules!Listed
    <3>5. RulesPending(a, r)'
      BY <3>2 DEF RulesPending
    <3>6. rulesMeant'[s] = Rules!Listed(Rules!Arg(a))'
      BY <1>7, <2>1, <2>2, <3>4
    <3>. QED
      BY <1>13, <2>1, <3>5, <3>6
  <2>3. CASE "conds" \notin DOMAIN b
    <3>1. rulesEdit'[a].todo = <<>>
      BY <1>8, <2>3 DEF Rules!Replaces
    <3>2. ~RulesDropping(a, s)'
      BY <3>1 DEF RulesDropping, Rules!Runs
    <3>3. RulesWhole(r) /\ \A c \in Officers : ~RulesPending(c, r)
      BY <1>2, <1>3, <2>1, RulesOnly DEF RulesInv, RulesConsistent
    <3>4. rulesConds[r] = rulesMeant[r]
      BY <3>3 DEF RulesWhole
    <3>5. rulesConds'[s] = rulesMeant'[s]
      BY <1>2, <1>7, <2>1, <2>3, <3>4
    <3>. QED
      BY <1>13, <3>2, <3>5
  <2>. QED
    BY <2>2, <2>3
<1>. QED
  BY <1>2, <1>7, <1>9, <1>11, <1>12, <1>15, <1>16, RulesMoveStep

LEMMA RulesDropped ==
  ASSUME RulesInv, NEW a \in Officers, Rules!Drop(a)
  PROVE  RulesInv'
<1>. DEFINE c == Rules!Arg(a)
<1>1. PICK r : r = rulesEdit[a].rule
  OBVIOUS
<1>2. /\ Rules!Runs(a, "drop") /\ UNCHANGED <<rulesRows, rulesMeant>>
      /\ rulesConds' = IF r \in Rules!Present THEN [rulesConds EXCEPT ![r] = {}] ELSE rulesConds
      /\ Rules!Moves(a, Rules!Rest(a), c, r, {r} \cap Rules!Present)
      /\ Rules!Present' = Rules!Present
  BY <1>1 DEF Rules!Drop, Rules!Present
<1>3. /\ rulesEdit[a].todo # <<>> /\ Head(rulesEdit[a].todo).op = "drop" /\ Rules!Busy(a)
      /\ RulesDropping(a, r) /\ rulesEdit[a].adds = <<>>
  BY <1>1, <1>2 DEF Rules!Runs, Rules!Busy, RulesDropping
<1>4. Rules!Rest(a) = <<>> /\ Rules!IsSeq(c)
  <2>1. ~RulesPlain(a, rulesEdit[a].todo, rulesEdit[a].late, rulesRows)
    BY <1>3, RulesNotDrop
  <2>2. PICK d : Rules!IsSeq(d) /\ rulesEdit[a].todo = RulesDrop(d)
    BY <2>1 DEF RulesInv, RulesEdits, RulesTodo
  <2>. QED
    BY <2>2, RulesDropShape, RulesDo DEF Rules!Rest, Rules!Arg
<1>. HIDE DEF c
<1>5. /\ rulesEdit'[a].todo = <<>> /\ rulesEdit'[a].adds = c
      /\ rulesEdit'[a].rule = r /\ rulesEdit'[a].late = rulesEdit[a].late
  BY <1>2, <1>4, RulesMoved
<1>6. /\ rulesConds' = [s \in RuleIds |-> rulesConds'[s]]
      /\ rulesMeant' = [s \in RuleIds |-> rulesMeant'[s]]
      /\ \A s \in RuleIds \ {r} : rulesConds'[s] = rulesConds[s]
      /\ r \in Rules!Present => rulesConds'[r] = {}
  BY <1>2 DEF RulesInv, RulesTypes
<1>7. RulesTodo(a)'
  <2>1. RulesPlain(a, <<>>, rulesEdit[a].late, rulesRows)
    BY RulesPlainNone
  <2>. QED
    BY <1>2, <1>4, <1>5, <2>1 DEF RulesTodo
<1>8. RulesPermitted(a)'
  BY <1>1, <1>2, <1>3, <1>5 DEF RulesInv, RulesEdits, RulesPermitted, Rules!Permits, RulesPermits
<1>9. Rules!Present' \subseteq RuleIds /\ \A s \in Rules!Present' : RulesRow(rulesRows'[s])
  BY <1>2 DEF RulesInv, RulesTypes
<1>10. \A s : ~RulesDropping(a, s)'
  BY <1>5 DEF RulesDropping, Rules!Runs
<1>11. \A s : s # r => ~RulesPending(a, s) /\ ~RulesPending(a, s)'
  BY <1>1, <1>5 DEF RulesPending, RulesAdding, RulesDropping
<1>12. \A s \in Rules!Present' \ ({r} \cap Rules!Present) :
         /\ s \in Rules!Present /\ rulesRows'[s] = rulesRows[s]
         /\ rulesConds'[s] = rulesConds[s] /\ rulesMeant'[s] = rulesMeant[s]
         /\ ~RulesPending(a, s) /\ ~RulesPending(a, s)'
  BY <1>2, <1>6, <1>9, <1>11
<1>13. Rules!Listed(rulesEdit[a].adds)' = Rules!Listed(c)
  BY <1>5 DEF Rules!Listed
<1>14. ASSUME NEW s \in (Rules!Present' \cap ({r} \cap Rules!Present)) \ rulesTorn'
       PROVE  /\ RulesAdding(a, s)' =>
                   rulesMeant'[s] = rulesConds'[s] \cup Rules!Listed(rulesEdit[a].adds)'
              /\ RulesDropping(a, s)' => rulesMeant'[s] = Rules!Listed(Rules!Arg(a))'
              /\ ~RulesPending(a, s)' => rulesConds'[s] = rulesMeant'[s]
  <2>1. s = r /\ r \in Rules!Present /\ r \in Rules!Present' /\ r \notin rulesTorn'
    OBVIOUS
  <2>2. RulesWhole(r)
    BY <1>2, <2>1, RulesOnly DEF RulesInv, RulesConsistent
  <2>3. rulesMeant[r] = Rules!Listed(c)
    BY <1>3, <2>2 DEF RulesWhole, c
  <2>4. rulesMeant'[s] = rulesConds'[s] \cup Rules!Listed(c)
    BY <1>2, <1>6, <2>1, <2>3
  <2>5. ~RulesPending(a, s)' => c = <<>>
    BY <1>5, <2>1 DEF RulesPending, RulesAdding
  <2>6. ~RulesPending(a, s)' => rulesConds'[s] = rulesMeant'[s]
    BY <2>4, <2>5, RulesNone
  <2>. QED
    BY <1>10, <1>13, <2>4, <2>6
<1>. QED
  BY <1>2, <1>6, <1>7, <1>8, <1>9, <1>12, <1>14, RulesMoveStep

LEMMA RulesRemove ==
  ASSUME RulesInv, NEW a \in Officers, Rules!Remove(a)
  PROVE  RulesInv'
<1>. DEFINE b == Rules!Arg(a)
            next == IF Rules!Runs(a, "unname") THEN <<Rules!Statement("insert", b)>> ELSE <<>>
<1>1. PICK gone \in SUBSET Rules!Present :
        /\ rulesRows' = [r \in Rules!Present \ gone |-> rulesRows[r]]
        /\ rulesConds' = [r \in RuleIds |-> IF r \in gone THEN {} ELSE rulesConds[r]]
        /\ rulesMeant' = [r \in RuleIds |-> IF r \in gone THEN {} ELSE rulesMeant[r]]
        /\ Rules!Moves(a, next \o Rules!Rest(a), <<>>, rulesEdit[a].rule, gone)
  <2>. DEFINE them == {r \in Rules!Present :
                         \/ Rules!Runs(a, "wipe")
                         \/ Rules!Runs(a, "unname") /\ rulesRows[r].name = b.name
                         \/ Rules!Runs(a, "remove") /\ r = rulesEdit[a].rule}
  <2>1. them \in SUBSET Rules!Present
    OBVIOUS
  <2>. QED
    BY <2>1 DEF Rules!Remove
<1>2. PICK op \in {"remove", "wipe", "unname"} : Rules!Runs(a, op)
  BY DEF Rules!Remove
<1>3. /\ RulesItem(a, Head(rulesEdit[a].todo), rulesEdit[a].late, rulesRows)
      /\ Head(rulesEdit[a].todo).op = op /\ Rules!Busy(a)
      /\ RulesPlain(a, Rules!Rest(a), rulesEdit[a].late, rulesRows)
      /\ \A s : ~RulesPending(a, s)
  BY <1>2, RulesNext
<1>4. /\ Rules!Present' = Rules!Present \ gone
      /\ \A s \in Rules!Present' : /\ s \in Rules!Present /\ rulesRows'[s] = rulesRows[s]
                                   /\ rulesConds'[s] = rulesConds[s]
                                   /\ rulesMeant'[s] = rulesMeant[s]
  BY <1>1 DEF Rules!Present, RulesInv, RulesTypes
<1>5. RulesPlain(a, Rules!Rest(a), rulesEdit[a].late, rulesRows')
  <2>1. \A s \in DOMAIN rulesRows' \ rulesEdit[a].late :
          s \in DOMAIN rulesRows \ rulesEdit[a].late /\ rulesRows'[s] = rulesRows[s]
    BY <1>4 DEF Rules!Present
  <2>. QED
    BY <1>3, <2>1, RulesPlainKept
<1>6. RulesPlain(a, next \o Rules!Rest(a), rulesEdit[a].late, rulesRows')
  <2>. DEFINE rest == Rules!Rest(a)
  <2>1. CASE Rules!Runs(a, "unname")
    <3>. DEFINE x == Rules!Statement("insert", b)
    <3>1. x.op = "insert" /\ x.arg = b
      BY RulesDo
    <3>2. RulesBody(b) /\ RankOf[a] = 1
      BY <1>3, <2>1 DEF RulesItem, Rules!Arg, Rules!Runs
    <3>3. RulesMayLock(a, b.locked, b.tier)
      BY <3>2, RulesServer
    <3>4. RulesPlace(a, b.prio, rulesEdit[a].late, rulesRows')
      <4>1. \A s \in DOMAIN rulesRows' : rulesRows'[s].by \in Nat \ {0}
        BY <1>4 DEF RulesInv, RulesTypes, RulesRow, Rules!Present
      <4>. QED
        BY <3>2, <4>1 DEF RulesPlace
    <3>. HIDE DEF x, b
    <3>5. RulesItem(a, x, rulesEdit[a].late, rulesRows')
      BY <3>1, <3>2, <3>3, <3>4 DEF RulesItem
    <3>6. RulesPlain(a, <<x>> \o rest, rulesEdit[a].late, rulesRows')
      BY <1>5, <3>5, RulesPlainCons
    <3>7. next = <<x>>
      BY <2>1 DEF x, b
    <3>. HIDE DEF next, rest
    <3>. QED
      BY <3>6, <3>7 DEF rest
  <2>2. CASE ~Rules!Runs(a, "unname")
    <3>1. next = <<>>
      BY <2>2
    <3>. DEFINE T == {rest[i] : i \in DOMAIN rest}
    <3>2. rest \in Seq(T)
      BY <1>5 DEF RulesPlain, Rules!IsSeq
    <3>. HIDE DEF T, next, rest
    <3>3. next \o rest = rest
      BY <3>1, <3>2, ConcatEmptySeq
    <3>. QED
      BY <1>5, <3>3 DEF rest
  <2>. QED
    BY <2>1, <2>2
<1>. DEFINE todo == next \o Rules!Rest(a)
<1>. HIDE DEF next
<1>14. Rules!Moves(a, todo, <<>>, rulesEdit[a].rule, gone)
  BY <1>1
<1>. HIDE DEF todo
<1>7. /\ rulesEdit'[a].todo = todo /\ rulesEdit'[a].adds = <<>>
      /\ rulesEdit'[a].rule = rulesEdit[a].rule /\ rulesEdit'[a].late = rulesEdit[a].late
  BY <1>14, RulesMoved
<1>8. RulesPlain(a, todo, rulesEdit[a].late, rulesRows')
  BY <1>6 DEF todo
<1>9. RulesTodo(a)'
  BY <1>7, <1>8, RulesNone DEF RulesTodo
<1>10. RulesPermitted(a)'
  BY <1>3, <1>4, <1>7 DEF RulesInv, RulesEdits, RulesPermitted, Rules!Permits, RulesPermits
<1>11. Rules!Present' \subseteq RuleIds /\ \A s \in Rules!Present' : RulesRow(rulesRows'[s])
  BY <1>4 DEF RulesInv, RulesTypes
<1>12. \A s : ~RulesPending(a, s)'
  BY <1>7, <1>8, RulesNotDrop DEF RulesPending, RulesAdding, RulesDropping, Rules!Runs
<1>13. /\ rulesConds' = [r \in RuleIds |-> rulesConds'[r]]
       /\ rulesMeant' = [r \in RuleIds |-> rulesMeant'[r]]
  BY <1>1
<1>15. \A s \in Rules!Present' \ gone :
         /\ s \in Rules!Present /\ rulesRows'[s] = rulesRows[s]
         /\ rulesConds'[s] = rulesConds[s] /\ rulesMeant'[s] = rulesMeant[s]
         /\ ~RulesPending(a, s) /\ ~RulesPending(a, s)'
  BY <1>3, <1>4, <1>12
<1>16. Rules!Present' \cap gone = {}
  BY <1>4
<1>. QED
  BY <1>9, <1>10, <1>11, <1>13, <1>14, <1>15, <1>16, RulesMoveStep

-----------------------------------------------------------------------------
LEMMA RulesInit == Rules!Init => RulesInv
<1>. SUFFICES ASSUME Rules!Init PROVE RulesInv
  OBVIOUS
<1>1. /\ Rules!Present = {} /\ rulesConds = [r \in RuleIds |-> {}] /\ rulesMeant = rulesConds
      /\ rulesEdit = [a \in Officers |-> Rules!Resting]
      /\ rulesEval = [q \in RuleQueries |-> Rules!Asleep]
  BY DEF Rules!Init, Rules!Present
<1>2. /\ {"todo", "adds", "rule", "late"} \subseteq DOMAIN Rules!Resting
      /\ Rules!Resting.todo = <<>> /\ Rules!Resting.adds = <<>>
  BY DEF Rules!Resting
<1>3. {"pc", "left", "denied", "right"} \subseteq DOMAIN Rules!Asleep /\ Rules!Asleep.pc = "idle"
  BY DEF Rules!Asleep
<1>4. RulesTypes
  BY <1>1, <1>2 DEF RulesTypes
<1>5. ASSUME NEW a \in Officers PROVE RulesTodo(a) /\ RulesPermitted(a)
  <2>1. RulesPlain(a, <<>>, rulesEdit[a].late, rulesRows)
    BY RulesPlainNone
  <2>. QED
    BY <1>1, <1>2, <2>1, RulesNone DEF RulesTodo, RulesPermitted
<1>6. RulesEvals
  BY <1>1, <1>3 DEF RulesEvals, RulesJudged
<1>. QED
  BY <1>1, <1>4, <1>5, <1>6 DEF RulesInv, RulesEdits, RulesConsistent

LEMMA RulesStep == RulesInv /\ [Rules!Next]_(Rules!vars) => RulesInv'
<1>. SUFFICES ASSUME RulesInv, [Rules!Next]_(Rules!vars) PROVE RulesInv'
  OBVIOUS
<1>1. CASE UNCHANGED Rules!vars
  <2>1. UNCHANGED <<rulesRows, rulesConds, rulesEdit, rulesEval, rulesMeant, rulesTorn>>
    BY <1>1 DEF Rules!vars
  <2>2. RulesEvals'
    BY <2>1, RulesUndisturbed
  <2>3. RulesTypes'
    BY <2>1 DEF RulesInv, RulesTypes, Rules!Present
  <2>4. RulesEdits' /\ RulesConsistent'
    BY <2>1 DEF RulesInv, RulesEdits, RulesConsistent, RulesTodo, RulesPermitted, RulesWhole,
       RulesPending, RulesAdding, RulesDropping, Rules!Busy, Rules!Present, Rules!Runs, Rules!Arg
  <2>. QED
    BY <2>2, <2>3, <2>4 DEF RulesInv
<1>2. ASSUME NEW a \in Rules!Free,
             \/ \E b \in RuleBodies : Rules!Create(a, b)
             \/ \E r \in Rules!Present :
                  Rules!Delete(a, r) \/ \E b \in RuleChanges : Rules!Update(a, r, b)
             \/ \E p \in RuleProfiles : Rules!Replace(a, p) \/ Rules!Merge(a, p)
      PROVE  RulesInv'
  <2>1. a \in Officers
    BY DEF Rules!Free
  <2>. QED
    BY <1>2, <2>1, RulesCreate, RulesDelete, RulesUpdate, RulesReplace, RulesMerge
<1>3. ASSUME NEW a \in Officers,
             \/ Rules!Insert(a) \/ Rules!Condition(a) \/ Rules!Amend(a) \/ Rules!Drop(a)
             \/ Rules!Remove(a) \/ Rules!Crash(a)
      PROVE  RulesInv'
  BY <1>3, RulesInsert, RulesCondition, RulesAmend, RulesDropped, RulesRemove, RulesCrash
<1>4. ASSUME NEW q \in RuleQueries, Rules!Select(q) \/ Rules!Loop(q) \/ Rules!Finish(q)
      PROVE  RulesInv'
  <2>1. RulesJudged(q)' /\ UNCHANGED <<rulesRows, rulesConds, rulesEdit, rulesMeant, rulesTorn>>
    BY <1>4, RulesSelect, RulesLoop, RulesFinish
       DEF Rules!Select, Rules!Loop, Rules!Finish
  <2>2. PICK n : Rules!Goes(q, n)
    BY <1>4, RulesLoop DEF Rules!Select, Rules!Finish, Rules!Ends
  <2>. QED
    BY <2>1, <2>2, RulesOtherEvals
<1>. QED
  BY <1>1, <1>2, <1>3, <1>4 DEF Rules!Next

(* A share creation, or a dry run, that no edit of the rules overlaps      *)
(* decides as the rules were last meant, whatever requests wrote them      *)
(* before: evaluate_sharing_rules reads the rules and the conditions of    *)
(* each in statements of their own, and the requests that write them have  *)
(* no transaction.                                                         *)
THEOREM RulesDecided == Rules!Spec => []RulesDecide
<1>1. RulesInv => RulesDecide
  BY DEF RulesInv, RulesEvals, RulesJudged, RulesDecide, Rules!RulesDecide
<1>. QED
  BY RulesInit, RulesStep, <1>1, PTL DEF Rules!Spec

-----------------------------------------------------------------------------
(* Who writes what                                                         *)

(* What AuthorityKept says of a statement of one administrator.            *)
RulesWritten ==
  {r \in Rules!Present :
     r \notin Rules!Present' \/ rulesRows'[r] # rulesRows[r] \/ rulesConds'[r] # rulesConds[r]}
RulesPlaces(a) ==
  Rules!Runs(a, "insert") \/ (Rules!Runs(a, "amend") /\ "prio" \in DOMAIN Rules!Arg(a))
RulesKept(a) ==
  LET old == Rules!Present \ rulesEdit[a].late
      it == rulesEdit'[a].rule IN
  /\ \A r \in old \cap RulesWritten : RulesPermits(a, rulesRows[r])
  /\ RulesPlaces(a) /\ rulesRows' # rulesRows => \A r \in old \ {it} :
       rulesRows[r].locked /\ rulesRows[r].by < RankOf[a] => rulesRows'[it].prio > rulesRows[r].prio

LEMMA RulesKeptWhen ==
  ASSUME NEW a, UNCHANGED <<rulesRows, rulesConds>>
  PROVE  RulesKept(a)
BY DEF RulesKept, RulesWritten, Rules!Present

LEMMA RulesInsertKept ==
  ASSUME RulesInv, NEW a \in Officers, Rules!Insert(a)
  PROVE  RulesKept(a)
<1>. DEFINE b == Rules!Arg(a)
            row == [f \in Rules!Fields \cup {"by"} |-> IF f = "by" THEN RankOf[a] ELSE b[f]]
<1>1. PICK r \in RuleIds \ Rules!Present :
        /\ rulesRows' = [s \in Rules!Present \cup {r} |-> IF s = r THEN row ELSE rulesRows[s]]
        /\ rulesConds' = [rulesConds EXCEPT ![r] = {}]
        /\ Rules!Moves(a, Rules!Rest(a), b.conds, r, {r})
  BY DEF Rules!Insert
<1>2. RulesItem(a, Head(rulesEdit[a].todo), rulesEdit[a].late, rulesRows)
      /\ Head(rulesEdit[a].todo).op = "insert"
  BY RulesNext DEF Rules!Insert
<1>3. RulesPlace(a, b.prio, rulesEdit[a].late, rulesRows)
  BY <1>2 DEF RulesItem, Rules!Arg
<1>4. row.prio = b.prio
  BY DEF Rules!Fields
<1>. HIDE DEF row
<1>5. rulesRows'[r] = row /\ \A s \in Rules!Present : rulesRows'[s] = rulesRows[s]
  BY <1>1
<1>6. RulesWritten = {}
  BY <1>1, <1>5 DEF RulesWritten, Rules!Present, RulesInv, RulesTypes
<1>7. rulesEdit'[a].rule = r
  BY <1>1, RulesMoved
<1>. QED
  BY <1>3, <1>4, <1>5, <1>6, <1>7 DEF RulesKept, RulesPlace, Rules!Present

LEMMA RulesConditionKept ==
  ASSUME RulesInv, NEW a \in Officers, Rules!Condition(a)
  PROVE  RulesKept(a)
<1>1. /\ UNCHANGED rulesRows /\ Rules!Busy(a)
      /\ \A s \in RuleIds \ {rulesEdit[a].rule} : rulesConds'[s] = rulesConds[s]
  BY DEF Rules!Condition, Rules!Busy, RulesInv, RulesTypes
<1>2. RulesWritten \subseteq {rulesEdit[a].rule} \cap Rules!Present
  BY <1>1 DEF RulesWritten, Rules!Present, RulesInv, RulesTypes
<1>. QED
  BY <1>1, <1>2 DEF RulesKept, RulesInv, RulesEdits, RulesPermitted

LEMMA RulesDropKept ==
  ASSUME RulesInv, NEW a \in Officers, Rules!Drop(a)
  PROVE  RulesKept(a)
<1>1. /\ UNCHANGED rulesRows /\ Rules!Busy(a)
      /\ \A s \in RuleIds \ {rulesEdit[a].rule} : rulesConds'[s] = rulesConds[s]
  BY DEF Rules!Drop, Rules!Runs, Rules!Busy, RulesInv, RulesTypes
<1>2. RulesWritten \subseteq {rulesEdit[a].rule} \cap Rules!Present
  BY <1>1 DEF RulesWritten, Rules!Present, RulesInv, RulesTypes
<1>. QED
  BY <1>1, <1>2 DEF RulesKept, RulesInv, RulesEdits, RulesPermitted

LEMMA RulesAmendKept ==
  ASSUME RulesInv, NEW a \in Officers, Rules!Amend(a)
  PROVE  RulesKept(a)
<1>. DEFINE b == Rules!Arg(a)
            put(row) == [f \in DOMAIN row |-> IF f \in DOMAIN b THEN b[f] ELSE row[f]]
<1>1. PICK r : r = rulesEdit[a].rule
  OBVIOUS
<1>2. /\ rulesRows' = IF r \in Rules!Present THEN [rulesRows EXCEPT ![r] = put(@)] ELSE rulesRows
      /\ Rules!Moves(a, Rules!Replaces(b), <<>>, r, {r} \cap Rules!Present)
      /\ UNCHANGED rulesConds
  BY <1>1 DEF Rules!Amend
<1>3. /\ RulesItem(a, Head(rulesEdit[a].todo), rulesEdit[a].late, rulesRows)
      /\ Head(rulesEdit[a].todo).op = "amend" /\ Rules!Busy(a)
  BY RulesNext DEF Rules!Amend
<1>4. "prio" \in DOMAIN b => RulesPlace(a, b.prio, rulesEdit[a].late, rulesRows)
  BY <1>3 DEF RulesItem, Rules!Arg
<1>5. \A row : "prio" \in DOMAIN b /\ RulesRow(row) => put(row).prio = b.prio
  BY DEF RulesRow
<1>6. RulesPlaces(a) => "prio" \in DOMAIN b
  BY <1>3 DEF RulesPlaces, Rules!Runs
<1>. HIDE DEF put, b
<1>7. /\ r \in Rules!Present => rulesRows'[r] = put(rulesRows[r])
      /\ \A s \in Rules!Present \ {r} : rulesRows'[s] = rulesRows[s]
      /\ Rules!Present' = Rules!Present
      /\ rulesRows' # rulesRows => r \in Rules!Present
  BY <1>2 DEF Rules!Present
<1>8. rulesEdit'[a].rule = r
  BY <1>2, RulesMoved
<1>9. RulesWritten \subseteq {r} \cap Rules!Present
  BY <1>2, <1>7 DEF RulesWritten
<1>10. \A s \in (Rules!Present \ rulesEdit[a].late) \cap RulesWritten :
         RulesPermits(a, rulesRows[s])
  BY <1>1, <1>3, <1>9 DEF RulesInv, RulesEdits, RulesPermitted
<1>11. ASSUME RulesPlaces(a), rulesRows' # rulesRows
       PROVE  \A s \in Rules!Present \ rulesEdit[a].late :
                rulesRows[s].locked /\ rulesRows[s].by < RankOf[a]
                => rulesRows'[r].prio > rulesRows[s].prio
  <2>1. rulesRows'[r].prio = b.prio
    BY <1>5, <1>6, <1>7, <1>11 DEF RulesInv, RulesTypes
  <2>. QED
    BY <1>4, <1>6, <1>11, <2>1 DEF RulesPlace, Rules!Present
<1>. QED
  BY <1>8, <1>10, <1>11 DEF RulesKept

LEMMA RulesRemoveKept ==
  ASSUME RulesInv, NEW a \in Officers, Rules!Remove(a)
  PROVE  RulesKept(a)
<1>1. PICK op \in {"remove", "wipe", "unname"} : Rules!Runs(a, op)
  BY DEF Rules!Remove
<1>2. /\ RulesItem(a, Head(rulesEdit[a].todo), rulesEdit[a].late, rulesRows)
      /\ Head(rulesEdit[a].todo).op = op /\ Rules!Busy(a)
  BY <1>1, RulesNext
<1>3. ~RulesPlaces(a)
  BY <1>2 DEF RulesPlaces, Rules!Runs
<1>4. CASE op # "remove"
  <2>1. RankOf[a] = 1
    BY <1>2, <1>4 DEF RulesItem
  <2>2. \A r \in Rules!Present : RulesPermits(a, rulesRows[r])
    BY <2>1 DEF RulesInv, RulesTypes, RulesRow, RulesTier, Rules!Permits, RulesPermits
  <2>. QED
    BY <1>3, <2>2 DEF RulesKept
<1>5. CASE op = "remove"
  <2>. DEFINE gone == {r \in Rules!Present :
                         \/ Rules!Runs(a, "wipe")
                         \/ Rules!Runs(a, "unname") /\ rulesRows[r].name = Rules!Arg(a).name
                         \/ Rules!Runs(a, "remove") /\ r = rulesEdit[a].rule}
  <2>1. /\ rulesRows' = [r \in Rules!Present \ gone |-> rulesRows[r]]
        /\ rulesConds' = [r \in RuleIds |-> IF r \in gone THEN {} ELSE rulesConds[r]]
    BY DEF Rules!Remove
  <2>2. \A r \in gone : r = rulesEdit[a].rule /\ r \in Rules!Present
    BY <1>2, <1>5 DEF Rules!Runs
  <2>. HIDE DEF gone
  <2>3. RulesWritten \subseteq gone
    BY <2>1 DEF RulesWritten, Rules!Present, RulesInv, RulesTypes
  <2>4. \A r \in (Rules!Present \ rulesEdit[a].late) \cap RulesWritten :
          RulesPermits(a, rulesRows[r])
    BY <1>2, <2>2, <2>3 DEF RulesInv, RulesEdits, RulesPermitted
  <2>. QED
    BY <1>3, <2>4 DEF RulesKept
<1>. QED
  BY <1>4, <1>5

(* Only its own statements change what a request still does.               *)
LEMMA RulesMoves ==
  ASSUME RulesInv, [Rules!Next]_(Rules!vars), NEW a \in Officers,
         rulesEdit'[a].todo # rulesEdit[a].todo \/ rulesEdit'[a].adds # rulesEdit[a].adds
  PROVE  RulesKept(a)
<1>1. rulesEdit' # rulesEdit
  OBVIOUS
<1>2. ~(UNCHANGED Rules!vars) /\ ~(\E q \in RuleQueries :
         Rules!Select(q) \/ Rules!Loop(q) \/ Rules!Finish(q))
  BY <1>1 DEF Rules!vars, Rules!Select, Rules!Loop, Rules!Finish
<1>3. ASSUME NEW c, NEW r, NEW todo, Rules!Begin(c, r, todo) PROVE RulesKept(a)
  BY <1>3, RulesKeptWhen DEF Rules!Begin
<1>4. ASSUME NEW c \in Officers, Rules!Crash(c) PROVE RulesKept(a)
  BY <1>4, RulesKeptWhen DEF Rules!Crash
<1>5. ASSUME NEW c \in Officers, c # a, NEW todo, NEW adds, NEW rule, NEW touched,
             Rules!Moves(c, todo, adds, rule, touched)
      PROVE  FALSE
  BY <1>5, RulesMoved
<1>6. ASSUME NEW c \in Officers, c # a,
             \/ Rules!Insert(c) \/ Rules!Condition(c) \/ Rules!Amend(c) \/ Rules!Drop(c)
             \/ Rules!Remove(c)
      PROVE  RulesKept(a)
  <2>1. CASE Rules!Condition(c) /\ rulesEdit[c].rule \notin Rules!Present
    BY <2>1, RulesKeptWhen DEF Rules!Condition
  <2>2. CASE Rules!Condition(c) /\ rulesEdit[c].rule \in Rules!Present
    BY <1>5, <1>6, <2>2 DEF Rules!Condition
  <2>3. CASE Rules!Insert(c)
    BY <1>5, <1>6, <2>3 DEF Rules!Insert
  <2>4. CASE Rules!Amend(c)
    BY <1>5, <1>6, <2>4 DEF Rules!Amend
  <2>5. CASE Rules!Drop(c)
    BY <1>5, <1>6, <2>5 DEF Rules!Drop
  <2>6. CASE Rules!Remove(c)
    BY <1>5, <1>6, <2>6 DEF Rules!Remove
  <2>. QED
    BY <1>6, <2>1, <2>2, <2>3, <2>4, <2>5, <2>6
<1>7. ASSUME NEW c \in Officers,
             \/ Rules!Insert(c) \/ Rules!Condition(c) \/ Rules!Amend(c) \/ Rules!Drop(c)
             \/ Rules!Remove(c)
      PROVE  RulesKept(a)
  BY <1>6, <1>7, RulesInsertKept, RulesConditionKept, RulesAmendKept, RulesDropKept,
     RulesRemoveKept
<1>8. ASSUME NEW c, NEW b, Rules!Create(c, b) PROVE RulesKept(a)
  BY <1>3, <1>8 DEF Rules!Create
<1>9. ASSUME NEW c, NEW r, Rules!Delete(c, r) PROVE RulesKept(a)
  BY <1>3, <1>9 DEF Rules!Delete
<1>10. ASSUME NEW c, NEW r, NEW b, Rules!Update(c, r, b) PROVE RulesKept(a)
  BY <1>3, <1>10 DEF Rules!Update
<1>11. ASSUME NEW c, NEW p, Rules!Replace(c, p) \/ Rules!Merge(c, p) PROVE RulesKept(a)
  BY <1>3, <1>11 DEF Rules!Replace, Rules!Merge
<1>. QED
  BY <1>2, <1>4, <1>7, <1>8, <1>9, <1>10, <1>11 DEF Rules!Next

LEMMA RulesAuthority == Rules!Spec => Rules!AuthorityKept
<1>1. ASSUME RulesInv, [Rules!Next]_(Rules!vars), NEW a \in Officers PROVE Rules!Obeys(a)
  BY <1>1, RulesMoves DEF Rules!Obeys, RulesPermits, RulesKept, RulesWritten, RulesPlaces,
                             Rules!Present
<1>2. RulesInv /\ [Rules!Next]_(Rules!vars) => [\A a \in Officers : Rules!Obeys(a)]_(Rules!vars)
  BY <1>1
<1>. QED
  BY RulesInit, RulesStep, <1>2, PTL DEF Rules!Spec, Rules!AuthorityKept

-----------------------------------------------------------------------------
(* Settings: the locks of settings                                         *)

(* The locks of settings, and what the requests under way may write: the   *)
(* settings whose locks they have been checked against, unless others have *)
(* changed those since.                                                    *)
SetTier == Int \cup {None}
SetBars(l, a) == RankOf[a] # 1 /\ Set!Bars(l, a)
SetChecked(a, s, late, locks) ==
  /\ \A i \in DOMAIN s :
       /\ s[i].op = "put" =>
            /\ i = 1 /\ DOMAIN s[i].arg \subseteq SettingKeys
            /\ \A k \in DOMAIN s[i].arg \ late : ~SetBars(locks[k], a)
       /\ s[i].op = "row" =>
            /\ s[i].arg.key \in SettingKeys
            /\ s[i].arg.key \in late \/ ~SetBars(locks[s[i].arg.key], a)
       /\ s[i].op = "import" => RankOf[a] = 1
       /\ s[i].op = "lock" => Len(s) = 1
  /\ \A i, j \in DOMAIN s :
       s[i].op = "row" /\ s[j].op = "row" /\ s[i].arg.key = s[j].arg.key => i = j
SetLocked ==
  /\ setLock = [k \in SettingKeys |-> setLock[k]]
  /\ \A k \in SettingKeys :
       {"on", "tier"} \subseteq DOMAIN setLock[k] /\ setLock[k].tier \in SetTier
SetLaw ==
  /\ SetInv /\ SetLocked
  /\ \A a \in Officers : SetChecked(a, setTask[a].todo, setTask[a].unchecked, setLock)

-----------------------------------------------------------------------------
LEMMA SetSeqs ==
  ASSUME NEW s \in SetAnnounced \cup Seq(SetPlain) PROVE Rules!IsSeq(s)
<1>1. CASE s \in Seq(SetPlain)
  BY <1>1, RulesIsSeq
<1>2. ASSUME NEW x, NEW y, NEW z
      PROVE  Rules!IsSeq(<<x, y, z>>) /\ Rules!IsSeq(<<y, z>>) /\ Rules!IsSeq(<<z>>)
  <2>1. /\ <<x, y, z>> \in Seq({x, y, z}) /\ <<y, z>> \in Seq({x, y, z})
        /\ <<z>> \in Seq({x, y, z})
    OBVIOUS
  <2>. QED
    BY <2>1, RulesIsSeq
<1>3. CASE s \in SetAnnounced
  BY <1>2, <1>3 DEF SetAnnounced
<1>. QED
  BY <1>1, <1>3

LEMMA SetCheckedNone ==
  ASSUME NEW a, NEW late, NEW locks PROVE SetChecked(a, <<>>, late, locks)
<1>1. DOMAIN <<>> = {}
  OBVIOUS
<1>. QED
  BY <1>1 DEF SetChecked

LEMMA SetCheckedLater ==
  ASSUME NEW a, NEW s, NEW late, NEW locks, NEW late2, NEW locks2,
         SetChecked(a, s, late, locks), late \subseteq late2,
         \A k \in SettingKeys \ late2 : locks2[k] = locks[k]
  PROVE  SetChecked(a, s, late2, locks2)
BY DEF SetChecked

(* The rest of a request, after its first statement.                       *)
LEMMA SetCheckedRest ==
  ASSUME NEW a, NEW s, NEW late, NEW locks, NEW locks2,
         SetChecked(a, s, late, locks), Rules!IsSeq(s), s # <<>>,
         \/ \A k \in SettingKeys : locks2[k] = locks[k]
         \/ /\ Head(s).op = "row"
            /\ \A k \in SettingKeys \ {Head(s).arg.key} : locks2[k] = locks[k]
         \/ \A k \in SettingKeys : ~SetBars(locks2[k], a)
         \/ Head(s).op = "lock"
  PROVE  SetChecked(a, Tail(s), late, locks2)
<1>. DEFINE t == Tail(s)
<1>1. /\ 1 \in DOMAIN s /\ Head(s) = s[1]
      /\ \A i \in DOMAIN t : i + 1 \in DOMAIN s /\ t[i] = s[i + 1]
  BY RulesTail
<1>2. /\ DOMAIN s = 1..Len(s) /\ Len(s) \in Nat /\ DOMAIN t = 1..Len(t) /\ Len(t) = Len(s) - 1
  BY RulesTail DEF Rules!IsSeq
<1>. HIDE DEF t
<1>3. ASSUME NEW i \in DOMAIN t
      PROVE  /\ t[i].op # "put"
             /\ t[i].op = "row" =>
                  /\ t[i].arg.key \in SettingKeys
                  /\ t[i].arg.key \in late \/ ~SetBars(locks2[t[i].arg.key], a)
             /\ t[i].op = "import" => RankOf[a] = 1
             /\ t[i].op # "lock"
  <2>1. i + 1 \in DOMAIN s /\ t[i] = s[i + 1] /\ i + 1 # 1 /\ i \in Nat
    BY <1>1, <1>2
  <2>2. s[i + 1].op = "row" /\ Head(s).op = "row" => s[i + 1].arg.key # Head(s).arg.key
    BY <1>1, <2>1 DEF SetChecked
  <2>. QED
    <3>1. t[i].op # "put" /\ (t[i].op = "import" => RankOf[a] = 1)
      BY <2>1 DEF SetChecked
    <3>2. t[i].op # "lock"
      BY <1>2, <2>1 DEF SetChecked
    <3>3. t[i].op = "row" => t[i].arg.key \in SettingKeys
      BY <2>1 DEF SetChecked
    <3>4. Head(s).op # "lock"
      BY <1>1, <1>2, <2>1 DEF SetChecked
    <3>5. ASSUME t[i].op = "row", t[i].arg.key \notin late
          PROVE  ~SetBars(locks2[t[i].arg.key], a)
      <4>1. ~SetBars(locks[t[i].arg.key], a)
        BY <2>1, <3>5 DEF SetChecked
      <4>. QED
        BY <2>1, <2>2, <3>3, <3>4, <3>5, <4>1
    <3>. QED
      BY <3>1, <3>2, <3>3, <3>5
<1>4. \A i, j \in DOMAIN t :
        t[i].op = "row" /\ t[j].op = "row" /\ t[i].arg.key = t[j].arg.key => i = j
  <2>1. ASSUME NEW i \in DOMAIN t, NEW j \in DOMAIN t,
               t[i].op = "row", t[j].op = "row", t[i].arg.key = t[j].arg.key
        PROVE  i = j
    <3>1. i + 1 = j + 1
      BY <1>1, <2>1 DEF SetChecked
    <3>. QED
      BY <1>2, <3>1
  <2>. QED
    BY <2>1
<1>5. SetChecked(a, t, late, locks2)
  BY <1>3, <1>4 DEF SetChecked
<1>. QED
  BY <1>5 DEF t

LEMMA SetNotBarred ==
  ASSUME NEW a \in Officers, RankOf[a] = 1, NEW l, l.tier \in SetTier
  PROVE  ~SetBars(l, a)
BY DEF SetBars

(* What the requests of others see of a statement, and it of itself.       *)
LEMMA SetLawNext ==
  ASSUME SetLaw, NEW a \in Officers, setTask[a].todo # <<>>, NEW K \in SUBSET SettingKeys,
         setTask' = Set!Passed(a, K), SetInv', SetLocked',
         \A k \in SettingKeys \ K : setLock'[k] = setLock[k],
         LET s == setTask[a].todo IN
           \/ \A k \in SettingKeys : setLock'[k] = setLock[k]
           \/ /\ Head(s).op = "row"
              /\ \A k \in SettingKeys \ {Head(s).arg.key} : setLock'[k] = setLock[k]
           \/ \A k \in SettingKeys : ~SetBars(setLock'[k], a)
           \/ Head(s).op = "lock"
  PROVE  SetLaw'
<1>. DEFINE t == setTask[a]
<1>1. SetTypes /\ SetChecked(a, t.todo, t.unchecked, setLock)
  BY DEF SetLaw, SetInv
<1>2. t \in SetTask /\ Rules!IsSeq(t.todo)
  BY <1>1, SetSeqs DEF SetTypes, SetTask
<1>3. SetChecked(a, Tail(t.todo), t.unchecked, setLock')
  BY <1>1, <1>2, SetCheckedRest
<1>4. SetChecked(a, setTask'[a].todo, setTask'[a].unchecked, setLock')
  <2>1. setTask'[a] = IF Len(t.todo) = 1 THEN Set!NoTask ELSE [t EXCEPT !.todo = Tail(@)]
    BY <1>1, SetPassed DEF Set!Advance
  <2>2. CASE Len(t.todo) = 1
    <3>1. setTask'[a].todo = <<>>
      BY <2>1, <2>2 DEF Set!NoTask
    <3>. QED
      BY <3>1, SetCheckedNone
  <2>3. CASE Len(t.todo) # 1
    <3>1. setTask'[a].todo = Tail(t.todo) /\ setTask'[a].unchecked = t.unchecked
      BY <1>2, <2>1, <2>3 DEF SetTask
    <3>. QED
      BY <1>3, <3>1
  <2>. QED
    BY <2>2, <2>3
<1>5. ASSUME NEW c \in Officers, c # a
      PROVE  SetChecked(c, setTask'[c].todo, setTask'[c].unchecked, setLock')
  <2>1. setTask'[c] = IF setTask[c] = Set!NoTask THEN Set!NoTask
                      ELSE [setTask[c] EXCEPT !.unchecked = @ \cup K]
    BY <1>5 DEF Set!Passed
  <2>2. CASE setTask[c] = Set!NoTask
    <3>1. setTask'[c].todo = <<>>
      BY <2>1, <2>2 DEF Set!NoTask
    <3>. QED
      BY <3>1, SetCheckedNone
  <2>3. CASE setTask[c] # Set!NoTask
    <3>1. setTask[c] \in SetTask /\ SetChecked(c, setTask[c].todo, setTask[c].unchecked, setLock)
      BY DEF SetLaw, SetInv, SetTypes
    <3>2. /\ setTask'[c].todo = setTask[c].todo
          /\ setTask'[c].unchecked = setTask[c].unchecked \cup K
      BY <2>1, <2>3, <3>1 DEF SetTask
    <3>. QED
      BY <3>1, <3>2, SetCheckedLater
  <2>. QED
    BY <2>2, <2>3
<1>. QED
  BY <1>4, <1>5 DEF SetLaw

(* The lock of one setting is written, in part.                            *)
LEMMA SetLockPart ==
  ASSUME SetLocked, NEW k \in SettingKeys, NEW l, Set!Tiered(l),
         setLock' = [setLock EXCEPT ![k] = Set!Over(l, @)]
  PROVE  SetLocked' /\ \A j \in SettingKeys \ {k} : setLock'[j] = setLock[j]
<1>. DEFINE new == Set!Over(l, setLock[k])
<1>1. {"on", "tier"} \subseteq DOMAIN new /\ new.tier \in SetTier
  BY DEF SetLocked, Set!Over, Set!Tiered, SetTier
<1>. HIDE DEF new
<1>2. setLock' = [setLock EXCEPT ![k] = new]
  BY DEF new
<1>. QED
  BY <1>1, <1>2 DEF SetLocked

LEMMA SetLockWhole ==
  ASSUME SetLocked, NEW b \in SettingLocks, setLock' = Set!Over(b, setLock)
  PROVE  SetLocked' /\ \A j \in SettingKeys \ DOMAIN b : setLock'[j] = setLock[j]
<1>1. DOMAIN b \subseteq SettingKeys
      /\ \A k \in DOMAIN b : DOMAIN b[k] = {"on", "tier"} /\ Set!Tiered(b[k])
  BY SettingsAssumption DEF Set!ConstantsOK
<1>2. DOMAIN setLock = SettingKeys
  BY DEF SetLocked
<1>3. setLock' = [k \in SettingKeys |-> IF k \in DOMAIN b THEN b[k] ELSE setLock[k]]
  BY <1>1, <1>2 DEF Set!Over
<1>. QED
  BY <1>1, <1>3 DEF SetLocked, Set!Tiered, SetTier

(* The locks that requests write.                                          *)
LEMMA SetParts ==
  /\ \A r \in SetRows : r.key \in SettingKeys /\ Set!Tiered(r.lock)
  /\ \A e \in SetImported : e.key \in SettingKeys /\ Set!Tiered(e.lock)
<1>1. ASSUME NEW l \in SetRowLocks PROVE Set!Tiered(l)
  <2>1. CASE l = <<>>
    BY <2>1 DEF Set!Tiered
  <2>2. ASSUME NEW b \in EscrowUpdates, l = b.lock PROVE Set!Tiered(l)
    BY <2>2, SettingsAssumption DEF Set!ConstantsOK
  <2>3. ASSUME NEW b \in EscrowUpdates, l = Set!Over(b.lock, [on |-> TRUE]) PROVE Set!Tiered(l)
    <3>1. Set!Tiered(b.lock)
      BY SettingsAssumption DEF Set!ConstantsOK
    <3>. QED
      BY <2>3, <3>1 DEF Set!Over, Set!Tiered
  <2>. QED
    BY <2>1, <2>2, <2>3 DEF SetRowLocks
<1>2. \A r \in SetRows : r.key \in SettingKeys /\ Set!Tiered(r.lock)
  BY <1>1 DEF SetRows
<1>3. \A e \in SetImported : e.key \in SettingKeys /\ Set!Tiered(e.lock)
  BY SettingsAssumption DEF SetImported, Set!ConstantsOK
<1>. QED
  BY <1>2, <1>3

(* One statement: who had to be checked for it was.                        *)
LEMMA SetLawStatement ==
  ASSUME SetLaw, NEW a \in Officers, setTask[a].todo # <<>>,
         \/ Set!Put(a) \/ Set!PutLocks(a) \/ Set!PutRow(a) \/ Set!PutImport(a)
         \/ Set!Cache(a) \/ Set!Publish(a)
  PROVE  SetLaw' /\ Set!Obeys(a)
<1>. DEFINE op == Head(setTask[a].todo).op
            b == Set!Arg(a)
            s == setTask[a].todo
            late == setTask[a].unchecked
            fits == \A k \in SettingKeys \ late :
                      SetBars(setLock[k], a) =>
                        /\ setValue'[k] = setValue[k]
                        /\ setLock'[k] = setLock[k] \/ Set!At(a, "lock")
<1>1. SetInv /\ SetTypes /\ SetLocked /\ SetChecked(a, s, late, setLock)
  BY DEF SetLaw, SetInv
<1>2. SetInv'
  BY <1>1, SetStatement
<1>3. s \in SetAnnounced \cup Seq(SetPlain)
  BY <1>1 DEF SetTypes, SetTask
<1>4. Rules!IsSeq(s)
  BY <1>3, SetSeqs
<1>5. 1 \in DOMAIN s /\ Head(s) = s[1]
  BY <1>4, RulesTail
<1>6. \A k \in SettingKeys : setLock[k].tier \in SetTier
  BY <1>1 DEF SetLocked
<1>7. ASSUME fits PROVE Set!Obeys(a)
  BY <1>7 DEF Set!Obeys, SetBars
<1>. DEFINE none == {}
<1>8. none \in SUBSET SettingKeys
  OBVIOUS
<1>9. ASSUME setTask' = Set!Passed(a, none), UNCHANGED setLock PROVE SetLaw'
  <2>1. SetLocked'
    BY <1>1, <1>9 DEF SetLocked
  <2>2. \A k \in SettingKeys : setLock'[k] = setLock[k]
    BY <1>9
  <2>. HIDE DEF none
  <2>. QED
    BY <1>2, <1>8, <1>9, <2>1, <2>2, SetLawNext
<1>10. CASE Set!Put(a)
  <2>1. op = "put" /\ setValue' = Set!Over(b, setValue) /\ setTask' = Set!Passed(a, none)
        /\ UNCHANGED setLock
    BY <1>10 DEF Set!Put, Set!At
  <2>2. b = s[1].arg /\ DOMAIN b \subseteq SettingKeys
        /\ \A k \in DOMAIN b \ late : ~SetBars(setLock[k], a)
    BY <1>1, <1>5, <2>1 DEF SetChecked, Set!Arg
  <2>3. \A k \in SettingKeys \ DOMAIN b : setValue'[k] = setValue[k]
    BY <1>1, <2>1 DEF Set!Over, SetTypes, SetTable
  <2>4. fits
    BY <2>1, <2>2, <2>3
  <2>. QED
    BY <1>7, <1>9, <2>1, <2>4
<1>11. CASE Set!Cache(a) \/ Set!Publish(a)
  <2>1. UNCHANGED <<setLock, setValue>> /\ setTask' = Set!Passed(a, none)
    BY <1>11 DEF Set!Cache, Set!Publish, Set!tableVars
  <2>. QED
    BY <1>7, <1>9, <2>1
<1>12. CASE Set!PutLocks(a)
  <2>. DEFINE K == DOMAIN b
  <2>1. op = "lock" /\ setLock' = Set!Over(b, setLock) /\ setTask' = Set!Passed(a, K)
        /\ UNCHANGED setValue
    BY <1>12 DEF Set!PutLocks, Set!At
  <2>2. b \in SettingLocks
    BY <1>1, <2>1, SetAdvance
  <2>3. K \in SUBSET SettingKeys
    BY <2>2, SetValues
  <2>4. SetLocked' /\ \A k \in SettingKeys \ K : setLock'[k] = setLock[k]
    BY <1>1, <2>1, <2>2, SetLockWhole
  <2>. HIDE DEF K
  <2>5. SetLaw'
    BY <1>2, <2>1, <2>3, <2>4, SetLawNext
  <2>6. fits
    BY <2>1, <1>12 DEF Set!PutLocks
  <2>. QED
    BY <1>7, <2>5, <2>6
<1>13. CASE Set!PutRow(a)
  <2>. DEFINE k == b.key
              K == IF setLock' = setLock THEN {} ELSE {k}
  <2>1. /\ op = "row" /\ setLock' = [setLock EXCEPT ![k] = Set!Over(b.lock, @)]
        /\ setTask' = Set!Passed(a, K)
        /\ setValue' = setValue \/ setValue' = [setValue EXCEPT ![k] = b.value]
    BY <1>13 DEF Set!PutRow, Set!At
  <2>2. b \in SetRows /\ b = Head(s).arg
    BY <1>1, <2>1, SetAdvance DEF Set!Arg
  <2>3. k \in SettingKeys /\ Set!Tiered(b.lock)
    BY <2>2, SetParts
  <2>4. SetLocked' /\ \A j \in SettingKeys \ {k} : setLock'[j] = setLock[j]
    BY <1>1, <2>1, <2>3, SetLockPart
  <2>5. K \in SUBSET SettingKeys /\ \A j \in SettingKeys \ K : setLock'[j] = setLock[j]
    BY <2>3, <2>4
  <2>6. k \in late \/ ~SetBars(setLock[k], a)
    BY <1>1, <1>5, <2>1, <2>2 DEF SetChecked
  <2>7. fits
    BY <1>1, <2>1, <2>3, <2>4, <2>6 DEF SetTypes, SetTable
  <2>. HIDE DEF K
  <2>8. SetLaw'
    BY <1>2, <2>1, <2>2, <2>4, <2>5, SetLawNext
  <2>. QED
    BY <1>7, <2>7, <2>8
<1>14. CASE Set!PutImport(a)
  <2>. DEFINE k == b.key
              K == IF setLock' = setLock THEN {} ELSE {k}
  <2>1. /\ op = "import" /\ setLock' = [setLock EXCEPT ![k] = Set!Over(b.lock, @)]
        /\ setTask' = Set!Passed(a, K)
    BY <1>14 DEF Set!PutImport, Set!At
  <2>2. b \in SetImported
    BY <1>1, <2>1, SetAdvance
  <2>3. k \in SettingKeys /\ Set!Tiered(b.lock)
    BY <2>2, SetParts
  <2>4. SetLocked' /\ \A j \in SettingKeys \ {k} : setLock'[j] = setLock[j]
    BY <1>1, <2>1, <2>3, SetLockPart
  <2>5. K \in SUBSET SettingKeys /\ \A j \in SettingKeys \ K : setLock'[j] = setLock[j]
    BY <2>3, <2>4
  <2>6. RankOf[a] = 1
    BY <1>1, <1>5, <2>1 DEF SetChecked
  <2>7. fits
    BY <1>6, <2>6, SetNotBarred
  <2>8. \A j \in SettingKeys : setLock'[j].tier \in SetTier
    BY <2>4 DEF SetLocked
  <2>9. \A j \in SettingKeys : ~SetBars(setLock'[j], a)
    BY <2>6, <2>8, SetNotBarred
  <2>. HIDE DEF K
  <2>10. SetLaw'
    BY <1>2, <2>1, <2>4, <2>5, <2>9, SetLawNext
  <2>. QED
    BY <1>7, <2>7, <2>10
<1>. QED
  BY <1>10, <1>11, <1>12, <1>13, <1>14

(* A statement of one administrator is none of the others'.                *)
LEMMA SetOthersObey ==
  ASSUME SetLaw, NEW a \in Officers, NEW c \in Officers, c # a,
         \/ Set!Put(a) \/ Set!PutLocks(a) \/ Set!PutRow(a) \/ Set!PutImport(a)
         \/ Set!Cache(a) \/ Set!Publish(a)
  PROVE  Set!Obeys(c)
<1>1. \E K : setTask' = Set!Passed(a, K)
  BY DEF Set!Put, Set!PutLocks, Set!PutRow, Set!PutImport, Set!Cache, Set!Publish
<1>2. PICK K : setTask' = Set!Passed(a, K)
  BY <1>1
<1>3. setTask[c] \in SetTask
  BY DEF SetLaw, SetInv, SetTypes
<1>4. setTask'[c] = IF setTask[c] = Set!NoTask THEN Set!NoTask
                    ELSE [setTask[c] EXCEPT !.unchecked = @ \cup K]
  BY <1>2 DEF Set!Passed
<1>5. setTask'[c].todo = setTask[c].todo
  BY <1>3, <1>4 DEF SetTask
<1>. QED
  BY <1>5 DEF Set!Obeys

(* A request begins once its locks have been checked.                      *)
LEMMA SetLawBegun ==
  ASSUME SetLaw, SetInv', NEW a \in Officers, NEW w, NEW todo, NEW U,
         Set!Begin(a, w, todo, U), SetChecked(a, todo, U, setLock)
  PROVE  SetLaw' /\ \A c \in Officers : Set!Obeys(c)
<1>1. UNCHANGED <<setLock, setValue>>
      /\ setTask' = [setTask EXCEPT ![a] = [at |-> w, todo |-> todo, unchecked |-> U]]
  BY DEF Set!Begin, Set!tableVars
<1>2. setTask \in [Officers -> SetTask]
  BY DEF SetLaw, SetInv, SetTypes
<1>3. setTask'[a].todo = todo /\ setTask'[a].unchecked = U
  BY <1>1, <1>2
<1>4. ASSUME NEW c \in Officers
      PROVE  SetChecked(c, setTask'[c].todo, setTask'[c].unchecked, setLock')
  <2>1. CASE c = a
    BY <1>1, <1>3, <2>1
  <2>2. CASE c # a
    <3>1. setTask'[c] = setTask[c]
      BY <1>1, <1>2, <2>2
    <3>. QED
      BY <1>1, <3>1 DEF SetLaw
  <2>. QED
    BY <2>1, <2>2
<1>5. SetLocked'
  BY <1>1 DEF SetLaw, SetLocked
<1>6. \A c \in Officers : Set!Obeys(c)
  BY <1>1 DEF Set!Obeys
<1>. QED
  BY <1>4, <1>5, <1>6 DEF SetLaw

LEMMA SetLawBegins ==
  ASSUME SetLaw, NEW a \in Set!Free, NEW w \in Workers,
         \/ \E b \in SettingUpdates : Set!UpdateSettings(a, w, b)
         \/ \E b \in SettingLocks : Set!UpdateLocks(a, w, b)
         \/ \E b \in EscrowUpdates : Set!UpdateEscrow(a, w, b)
         \/ \E b \in SettingImports : Set!Import(a, w, b)
  PROVE  SetLaw' /\ \A c \in Officers : Set!Obeys(c)
<1>1. a \in Officers
  BY DEF Set!Free
<1>2. SetInv'
  BY SetBegins DEF SetLaw
<1>3. ASSUME NEW b \in SettingUpdates, Set!UpdateSettings(a, w, b)
      PROVE  SetLaw' /\ \A c \in Officers : Set!Obeys(c)
  <2>. DEFINE todo == Set!Steps(b) none == {}
  <2>1. DOMAIN b \subseteq SettingKeys /\ \A k \in DOMAIN b : ~SetBars(setLock[k], a)
    BY <1>3, SetValues DEF Set!UpdateSettings, SetBars
  <2>2. /\ DOMAIN todo = {1, 2, 3} /\ todo[1] = Set!Do("put", b)
        /\ todo[2] = Set!Do("cache", b) /\ todo[3] = Set!Do("publish", b)
    BY DEF Set!Steps
  <2>3. /\ todo[1].op = "put" /\ todo[1].arg = b /\ todo[2].op = "cache"
        /\ todo[3].op = "publish"
    BY <2>2, SetOps
  <2>4. Set!Begin(a, w, todo, none)
    BY <1>3 DEF Set!UpdateSettings, SetBars
  <2>. HIDE DEF todo
  <2>5. SetChecked(a, todo, none, setLock)
    BY <2>1, <2>2, <2>3 DEF SetChecked
  <2>. HIDE DEF none
  <2>. QED
    BY <1>1, <1>2, <2>4, <2>5, SetLawBegun
<1>4. ASSUME NEW b \in SettingLocks, Set!UpdateLocks(a, w, b)
      PROVE  SetLaw' /\ \A c \in Officers : Set!Obeys(c)
  <2>. DEFINE todo == <<Set!Do("lock", b)>> none == {}
  <2>1. DOMAIN todo = {1} /\ todo[1].op = "lock" /\ Len(todo) = 1
    BY SetOps
  <2>2. Set!Begin(a, w, todo, none)
    BY <1>4 DEF Set!UpdateLocks
  <2>. HIDE DEF todo
  <2>3. SetChecked(a, todo, none, setLock)
    BY <2>1 DEF SetChecked
  <2>. HIDE DEF none
  <2>. QED
    BY <1>1, <1>2, <2>2, <2>3, SetLawBegun
<1>5. ASSUME NEW b \in EscrowUpdates, Set!UpdateEscrow(a, w, b)
      PROVE  SetLaw' /\ \A c \in Officers : Set!Obeys(c)
  <2>. DEFINE beside == IF DOMAIN b.lock = {"tier"} THEN <<>> ELSE b.lock
              alone == IF DOMAIN b.lock = {"tier"} THEN Set!Over(b.lock, [on |-> TRUE])
                       ELSE b.lock
              row(k, v, l) == Set!Do("row", [key |-> k, value |-> v, lock |-> l])
              todo == IF b.values # <<>>
                      THEN [i \in 1..Len(b.values) |->
                              row(b.values[i].key, b.values[i].value, beside)]
                      ELSE [i \in 1..Len(EscrowOrder) |-> row(EscrowOrder[i], None, alone)]
  <2>1. \A k, v, l : row(k, v, l).op = "row" /\ row(k, v, l).arg.key = k
    BY SetOps
  <2>2. PICK k \in Set!Escrow :
          ~SetBars(setLock[k], a) /\ Set!Begin(a, w, todo, Set!Escrow \ {k})
    BY <1>5 DEF Set!UpdateEscrow, SetBars
  <2>3. /\ Set!Escrow \subseteq SettingKeys /\ Set!IsSeq(EscrowOrder) /\ Set!IsSeq(b.values)
        /\ \A i \in DOMAIN b.values : b.values[i].key \in Set!Escrow
        /\ \A i, j \in DOMAIN EscrowOrder : EscrowOrder[i] = EscrowOrder[j] => i = j
        /\ \A i, j \in DOMAIN b.values : b.values[i].key = b.values[j].key => i = j
    BY SettingsAssumption DEF Set!ConstantsOK
  <2>4. /\ DOMAIN b.values = 1..Len(b.values) /\ DOMAIN EscrowOrder = 1..Len(EscrowOrder)
        /\ \A i \in DOMAIN EscrowOrder : EscrowOrder[i] \in Set!Escrow
    BY <2>3 DEF Set!IsSeq, Set!Escrow
  <2>. HIDE DEF row, beside, alone
  <2>5. /\ \A i \in DOMAIN todo : todo[i].op = "row" /\ todo[i].arg.key \in Set!Escrow
        /\ \A i, j \in DOMAIN todo : todo[i].arg.key = todo[j].arg.key => i = j
    <3>1. CASE b.values # <<>>
      <4>1. DOMAIN todo = 1..Len(b.values)
            /\ \A i \in DOMAIN todo : todo[i] = row(b.values[i].key, b.values[i].value, beside)
        BY <3>1
      <4>. HIDE DEF todo
      <4>. QED
        BY <2>1, <2>3, <2>4, <4>1
    <3>2. CASE b.values = <<>>
      <4>1. DOMAIN todo = 1..Len(EscrowOrder)
            /\ \A i \in DOMAIN todo : todo[i] = row(EscrowOrder[i], None, alone)
        BY <3>2
      <4>. HIDE DEF todo
      <4>. QED
        BY <2>1, <2>3, <2>4, <4>1
    <3>. QED
      BY <3>1, <3>2
  <2>. DEFINE U == Set!Escrow \ {k}
  <2>. HIDE DEF todo
  <2>6. SetChecked(a, todo, U, setLock)
    BY <2>2, <2>3, <2>5 DEF SetChecked
  <2>7. Set!Begin(a, w, todo, U)
    BY <2>2
  <2>. HIDE DEF U
  <2>. QED
    BY <1>1, <1>2, <2>6, <2>7, SetLawBegun
<1>6. ASSUME NEW b \in SettingImports, Set!Import(a, w, b)
      PROVE  SetLaw' /\ \A c \in Officers : Set!Obeys(c)
  <2>. DEFINE todo == [i \in 1..Len(b) |-> Set!Do("import", b[i])] none == {}
  <2>1. \A i \in DOMAIN todo : todo[i].op = "import"
    BY SetOps
  <2>2. RankOf[a] = 1 /\ Set!Begin(a, w, todo, none)
    BY <1>6 DEF Set!Import
  <2>. HIDE DEF todo
  <2>3. SetChecked(a, todo, none, setLock)
    BY <2>1, <2>2 DEF SetChecked
  <2>. HIDE DEF none
  <2>. QED
    BY <1>1, <1>2, <2>2, <2>3, SetLawBegun
<1>. QED
  BY <1>3, <1>4, <1>5, <1>6

LEMMA SetLawInit == Set!Init => SetLaw
<1>. SUFFICES ASSUME Set!Init PROVE SetLaw
  OBVIOUS
<1>1. SetInv
  BY SetInit
<1>2. SetLocked
  BY DEF Set!Init, Set!Unlocked, SetLocked, SetTier
<1>3. \A a \in Officers : setTask[a].todo = <<>>
  BY DEF Set!Init, Set!NoTask
<1>. QED
  BY <1>1, <1>2, <1>3, SetCheckedNone DEF SetLaw

(* What workers do, and requests that stop, leave the locks as they are.   *)
LEMMA SetLawElse ==
  ASSUME SetLaw, SetInv', UNCHANGED setLock,
         \A a \in Officers : setTask'[a] = setTask[a] \/ setTask'[a] = Set!NoTask,
         UNCHANGED setValue \/ UNCHANGED setTask
  PROVE  SetLaw' /\ \A c \in Officers : Set!Obeys(c)
<1>1. SetLocked'
  BY DEF SetLaw, SetLocked
<1>2. ASSUME NEW a \in Officers
      PROVE  SetChecked(a, setTask'[a].todo, setTask'[a].unchecked, setLock')
  <2>1. CASE setTask'[a] = setTask[a]
    BY <2>1 DEF SetLaw
  <2>2. CASE setTask'[a] = Set!NoTask
    <3>1. setTask'[a].todo = <<>>
      BY <2>2 DEF Set!NoTask
    <3>. QED
      BY <3>1, SetCheckedNone
  <2>. QED
    BY <2>1, <2>2
<1>3. \A c \in Officers : Set!Obeys(c)
  BY DEF Set!Obeys
<1>. QED
  BY <1>1, <1>2, <1>3 DEF SetLaw

LEMMA SetLawStep ==
  SetLaw /\ [Set!Next]_(Set!vars) => SetLaw' /\ \A a \in Officers : Set!Obeys(a)
<1>. SUFFICES ASSUME SetLaw, [Set!Next]_(Set!vars)
              PROVE  SetLaw' /\ \A a \in Officers : Set!Obeys(a)
  OBVIOUS
<1>0. SetInv'
  BY SetStep DEF SetLaw
<1>1. ASSUME NEW w \in Workers,
             \/ Set!Seed(w) \/ Set!LoadRead(w) \/ Set!Load(w) \/ Set!LoadFails(w)
             \/ Set!Subscribe(w) \/ Set!EnsureRead(w) \/ Set!EnsureStore(w)
      PROVE  SetLaw' /\ \A a \in Officers : Set!Obeys(a)
  <2>1. UNCHANGED <<setLock, setTask>>
    BY <1>1 DEF Set!Seed, Set!LoadRead, Set!Load, Set!LoadFails, Set!Subscribe, Set!EnsureRead,
                Set!EnsureStore, Set!tableVars
  <2>. QED
    BY <1>0, <2>1, SetLawElse
<1>2. ASSUME NEW a \in Officers, Set!Fail(a)
      PROVE  SetLaw' /\ \A c \in Officers : Set!Obeys(c)
  <2>1. UNCHANGED <<setLock, setValue>> /\ setTask' = [setTask EXCEPT ![a] = Set!NoTask]
    BY <1>2 DEF Set!Fail, Set!tableVars
  <2>2. setTask \in [Officers -> SetTask]
    BY DEF SetLaw, SetInv, SetTypes
  <2>3. \A c \in Officers : setTask'[c] = setTask[c] \/ setTask'[c] = Set!NoTask
    BY <2>1, <2>2
  <2>. QED
    BY <1>0, <2>1, <2>3, SetLawElse
<1>3. ASSUME NEW w \in Workers, Set!Stop(w)
      PROVE  SetLaw' /\ \A c \in Officers : Set!Obeys(c)
  <2>1. UNCHANGED <<setLock, setValue>>
        /\ \A c \in Officers : setTask'[c] = setTask[c] \/ setTask'[c] = Set!NoTask
    BY <1>3 DEF Set!Stop, Set!tableVars
  <2>. QED
    BY <1>0, <2>1, SetLawElse
<1>4. ASSUME NEW a \in Set!Free, NEW w \in Workers,
             \/ \E b \in SettingUpdates : Set!UpdateSettings(a, w, b)
             \/ \E b \in SettingLocks : Set!UpdateLocks(a, w, b)
             \/ \E b \in EscrowUpdates : Set!UpdateEscrow(a, w, b)
             \/ \E b \in SettingImports : Set!Import(a, w, b)
      PROVE  SetLaw' /\ \A c \in Officers : Set!Obeys(c)
  BY <1>4, SetLawBegins
<1>5. ASSUME NEW a \in Officers,
             \/ Set!Put(a) \/ Set!PutLocks(a) \/ Set!PutRow(a) \/ Set!PutImport(a)
             \/ Set!Cache(a) \/ Set!Publish(a)
      PROVE  SetLaw' /\ \A c \in Officers : Set!Obeys(c)
  <2>1. setTask[a].todo # <<>>
    BY <1>5 DEF Set!Put, Set!PutLocks, Set!PutRow, Set!PutImport, Set!Cache, Set!Publish, Set!At
  <2>2. SetLaw' /\ Set!Obeys(a)
    BY <1>5, <2>1, SetLawStatement
  <2>3. \A c \in Officers \ {a} : Set!Obeys(c)
    BY <1>5, SetOthersObey
  <2>. QED
    BY <2>2, <2>3
<1>6. CASE UNCHANGED Set!vars
  <2>1. UNCHANGED <<setLock, setTask>>
    BY <1>6 DEF Set!vars
  <2>. QED
    BY <1>0, <2>1, SetLawElse
<1>. QED
  BY <1>1, <1>2, <1>3, <1>4, <1>5, <1>6 DEF Set!Next

LEMMA SetAuthority == Set!Spec => Set!LocksHold
<1>1. SetLaw /\ [Set!Next]_(Set!vars) => SetLaw'
  BY SetLawStep
<1>2. SetLaw /\ [Set!Next]_(Set!vars) => [\A a \in Officers : Set!Obeys(a)]_(Set!vars)
  BY SetLawStep
<1>. QED
  BY <1>1, <1>2, SetLawInit, PTL DEF Set!Spec, Set!LocksHold

-----------------------------------------------------------------------------
(* Roles: the locks of flags                                               *)

(* The locks of roles' flags, and what the requests under way may write:   *)
(* the flags whose locks they have been checked against, unless somebody   *)
(* has written those since.                                                *)
RoleEntry(e) == {"value", "on", "tier"} \subseteq DOMAIN e /\ e.tier \in Int \cup {None}
RoleProper(x) ==
  /\ x.op \in {"flag", "upsert", "share"} => RoleEntry(x.arg.entry)
  /\ x.op \in {"role", "put"} =>
       /\ DOMAIN x.arg.entries \subseteq RoleFlags
       /\ \A f \in DOMAIN x.arg.entries : RoleEntry(x.arg.entries[f])
RoleUnbarred(x, rank, late, table) ==
  /\ ~Role!Bars(x.arg.entry, rank)
  /\ \A role \in DOMAIN table : \A f \in DOMAIN table[role] :
       x.arg.role = role /\ x.arg.flag = f /\ <<role, f>> \notin late
       => ~Role!Bars(table[role][f], rank)
RoleChecked(S, rank, late, table) ==
  /\ \A x \in S : RoleProper(x)
  /\ \/ rank = 1
     \/ \A x \in S : x.op \notin {"upsert", "put"}
     \/ \A x \in S : x.op = "upsert" /\ RoleUnbarred(x, rank, late, table)
RoleRequest(t) ==
  /\ {"by", "rank", "about", "todo", "unchecked"} \subseteq DOMAIN t
  /\ t.rank \in Int /\ Rules!IsSeq(t.todo)
RoleFair(t, table) == RoleChecked(RoleItemsOf(t.todo), t.rank, t.unchecked, table)
RoleLaw ==
  /\ roleReq = [r \in Requests |-> roleReq[r]]
  /\ \A role \in DOMAIN rolePerms : \A f \in DOMAIN rolePerms[role] : RoleEntry(rolePerms[role][f])
  /\ \A r \in Requests : RoleRequest(roleReq[r]) /\ RoleFair(roleReq[r], rolePerms)

-----------------------------------------------------------------------------
(* A set of natural numbers has a smallest, so admin_best_tier is one.     *)
LEMMA RoleSmallest ==
  ASSUME NEW S, S \subseteq Nat, S # {}
  PROVE  \E x \in S : \A y \in S : x <= y
<1>. DEFINE R == OpToRel(<, Nat)
<1>1. IsWellFoundedOn(R, Nat)
  BY NatLessThanWellFounded
<1>2. \A x, y \in Nat : <<y, x>> \in R <=> y < x
  BY DEF OpToRel
<1>. HIDE DEF R
<1>3. PICK x \in S : \A y \in S : ~ (<<y, x>> \in R)
  BY <1>1, WFMin
<1>4. ASSUME NEW y \in S PROVE x <= y
  <2>1. ~(<<y, x>> \in R) /\ x \in Nat /\ y \in Nat
    BY <1>3
  <2>2. ~(y < x)
    BY <1>2, <2>1
  <2>. QED
    BY <2>1, <2>2
<1>. QED
  BY <1>4

LEMMA RoleRank ==
  ASSUME NEW u
  PROVE  Role!Rank(u) \in Int /\ (RootRole \in roleGranted[u] => Role!Rank(u) = 1)
<1>. DEFINE S == {RoleTier[r] : r \in roleGranted[u] \cap DOMAIN RoleTier} \cup {99}
            least(t) == \A s \in S : t <= s
<1>1. /\ \A r \in DOMAIN RoleTier : RoleTier[r] \in Nat \ {0}
      /\ RootRole \in DOMAIN RoleTier /\ RoleTier[RootRole] = 1
  BY RolesAssumption DEF Role!ConstantsOK
<1>2. S \subseteq Nat \ {0} /\ S # {}
  BY <1>1
<1>3. Role!Rank(u) = CHOOSE t \in S : least(t)
  BY DEF Role!Rank
<1>4. RootRole \in roleGranted[u] => 1 \in S
  BY <1>1
<1>. HIDE DEF S
<1>5. \E t \in S : least(t)
  BY <1>2, RoleSmallest
<1>6. Role!Rank(u) \in S /\ least(Role!Rank(u))
  BY <1>3, <1>5
<1>7. ASSUME RootRole \in roleGranted[u] PROVE Role!Rank(u) = 1
  <2>1. Role!Rank(u) <= 1 /\ Role!Rank(u) \in Nat \ {0}
    BY <1>2, <1>4, <1>6, <1>7
  <2>. QED
    BY <2>1
<1>8. Role!Rank(u) \in Nat
  BY <1>2, <1>6
<1>. QED
  BY <1>7, <1>8

(* The statements of a sequence.                                           *)
LEMMA RoleItemsTail ==
  ASSUME NEW s, Rules!IsSeq(s), s # <<>>
  PROVE  /\ Rules!IsSeq(Tail(s)) /\ RoleItemsOf(Tail(s)) \subseteq RoleItemsOf(s)
         /\ Head(s) \in RoleItemsOf(s)
<1>. DEFINE t == Tail(s)
<1>1. /\ Rules!IsSeq(t) /\ 1 \in DOMAIN s /\ Head(s) = s[1]
      /\ \A i \in DOMAIN t : i + 1 \in DOMAIN s /\ t[i] = s[i + 1]
  BY RulesTail
<1>. HIDE DEF t
<1>2. RoleItemsOf(t) \subseteq RoleItemsOf(s) /\ Head(s) \in RoleItemsOf(s)
  BY <1>1 DEF RoleItemsOf
<1>. QED
  BY <1>1, <1>2 DEF t

LEMMA RoleItemsNone == Rules!IsSeq(<<>>) /\ RoleItemsOf(<<>>) = {}
<1>1. DOMAIN <<>> = {}
  OBVIOUS
<1>. QED
  BY <1>1, RulesNone DEF RoleItemsOf

LEMMA RoleItemsMap ==
  ASSUME NEW n \in Nat, NEW s, s = [i \in 1..n |-> s[i]]
  PROVE  Rules!IsSeq(s) /\ RoleItemsOf(s) = {s[i] : i \in 1..n}
<1>. DEFINE T == RoleItemsOf(s)
<1>1. DOMAIN s = 1..n
  OBVIOUS
<1>2. \A i \in 1..n : s[i] \in T
  BY <1>1 DEF RoleItemsOf
<1>. HIDE DEF T
<1>3. s \in [1..n -> T]
  BY <1>2
<1>4. s \in Seq(T)
  BY <1>3
<1>5. Rules!IsSeq(s)
  BY <1>4, RulesIsSeq
<1>. QED
  BY <1>1, <1>5 DEF RoleItemsOf

LEMMA RoleItemsConcat ==
  ASSUME NEW s, NEW t, Rules!IsSeq(s), Rules!IsSeq(t)
  PROVE  Rules!IsSeq(s \o t) /\ RoleItemsOf(s \o t) \subseteq RoleItemsOf(s) \cup RoleItemsOf(t)
<1>. DEFINE A == RoleItemsOf(s) B == RoleItemsOf(t) c == s \o t
<1>1. s \in Seq(A) /\ t \in Seq(B)
  BY DEF Rules!IsSeq, RoleItemsOf
<1>. HIDE DEF A, B
<1>2. s \in Seq(A \cup B) /\ t \in Seq(A \cup B)
  BY <1>1
<1>3. c \in Seq(A \cup B)
  BY <1>2
<1>. HIDE DEF c
<1>4. \A i \in DOMAIN c : c[i] \in A \cup B
  BY <1>3
<1>5. Rules!IsSeq(c) /\ RoleItemsOf(c) \subseteq A \cup B
  BY <1>3, <1>4, RulesIsSeq DEF RoleItemsOf
<1>. QED
  BY <1>5 DEF A, B, c

LEMMA RoleItemsEach ==
  ASSUME NEW op, NEW role, NEW entries, IsFiniteSet(DOMAIN entries)
  PROVE  LET s == Role!Each(op, role, entries) IN
         /\ Rules!IsSeq(s)
         /\ \A x \in RoleItemsOf(s) :
              /\ x.op = op /\ x.arg.role = role /\ x.arg.flag \in DOMAIN entries
              /\ x.arg.entry = entries[x.arg.flag]
<1>. DEFINE order == Role!SetSeq(DOMAIN entries)
            n == Len(order)
            s == [i \in 1..n |->
                    Role!Do(op, [role |-> role, flag |-> order[i], entry |-> entries[order[i]]])]
<1>1. n \in Nat /\ \A i \in 1..n : order[i] \in DOMAIN entries
  BY RoleOrder
<1>2. Role!Each(op, role, entries) = s
  BY DEF Role!Each
<1>. HIDE DEF order, n
<1>3. \A i \in 1..n :
        /\ s[i].op = op /\ s[i].arg.role = role /\ s[i].arg.flag = order[i]
        /\ s[i].arg.entry = entries[order[i]]
  BY DEF Role!Do
<1>4. s = [i \in 1..n |-> s[i]]
  OBVIOUS
<1>. HIDE DEF s
<1>5. Rules!IsSeq(s) /\ RoleItemsOf(s) = {s[i] : i \in 1..n}
  BY <1>1, <1>4, RoleItemsMap
<1>. QED
  BY <1>1, <1>2, <1>3, <1>5

LEMMA RoleItemsFew ==
  ASSUME NEW x, NEW y, NEW z
  PROVE  /\ Rules!IsSeq(<<x>>) /\ RoleItemsOf(<<x>>) \subseteq {x}
         /\ Rules!IsSeq(<<x, y>>) /\ RoleItemsOf(<<x, y>>) \subseteq {x, y}
         /\ Rules!IsSeq(<<x, y, z>>) /\ RoleItemsOf(<<x, y, z>>) \subseteq {x, y, z}
<1>1. <<x>> \in Seq({x}) /\ <<x, y>> \in Seq({x, y}) /\ <<x, y, z>> \in Seq({x, y, z})
  OBVIOUS
<1>2. ASSUME NEW S, NEW s \in Seq(S) PROVE Rules!IsSeq(s) /\ RoleItemsOf(s) \subseteq S
  <2>1. \A i \in DOMAIN s : s[i] \in S
    OBVIOUS
  <2>. QED
    BY <2>1, RulesIsSeq DEF RoleItemsOf
<1>. QED
  BY <1>1, <1>2

-----------------------------------------------------------------------------
(* What is checked stays checked: for fewer statements, with more written  *)
(* since, and in a table that differs only there.                          *)
LEMMA RoleFairer ==
  ASSUME NEW S, NEW T, T \subseteq S, NEW rank, NEW late, NEW more, late \subseteq more,
         NEW table, NEW next, RoleChecked(S, rank, late, table),
         \A role \in DOMAIN next : \A f \in DOMAIN next[role] :
           \/ <<role, f>> \in more
           \/ role \in DOMAIN table /\ f \in DOMAIN table[role] /\ next[role][f] = table[role][f]
  PROVE  RoleChecked(T, rank, more, next)
<1>1. ASSUME NEW x, RoleUnbarred(x, rank, late, table) PROVE RoleUnbarred(x, rank, more, next)
  BY <1>1 DEF RoleUnbarred
<1>. QED
  BY <1>1 DEF RoleChecked

LEMMA RoleFairIdle ==
  /\ RoleRequest(Role!Idle) /\ Role!Idle.todo = <<>>
  /\ \A table : RoleFair(Role!Idle, table)
<1>1. /\ {"by", "rank", "about", "todo", "unchecked"} \subseteq DOMAIN Role!Idle
      /\ Role!Idle.rank = 99 /\ Role!Idle.todo = <<>>
  BY DEF Role!Idle
<1>2. RoleItemsOf(Role!Idle.todo) = {} /\ Rules!IsSeq(Role!Idle.todo)
  BY <1>1, RoleItemsNone
<1>. QED
  BY <1>1, <1>2 DEF RoleRequest, RoleFair, RoleChecked

LEMMA RoleFairExcept ==
  ASSUME NEW t, RoleRequest(t), NEW x
  PROVE  LET m == [t EXCEPT !.unchecked = @ \cup x] n == [t EXCEPT !.todo = x] IN
         /\ {"by", "rank", "about", "todo", "unchecked"} \subseteq DOMAIN m
         /\ m.rank = t.rank /\ m.todo = t.todo /\ m.unchecked = t.unchecked \cup x
         /\ {"by", "rank", "about", "todo", "unchecked"} \subseteq DOMAIN n
         /\ n.rank = t.rank /\ n.todo = x /\ n.unchecked = t.unchecked
BY DEF RoleRequest

(* A statement leaves the others what they have been checked for, but for  *)
(* what it touches.                                                        *)
LEMMA RoleLawThen ==
  ASSUME RoleLaw, NEW r \in Requests, NEW mine, NEW touched, Role!Then(r, mine, touched),
         \A role \in DOMAIN rolePerms' : \A f \in DOMAIN rolePerms'[role] :
           /\ RoleEntry(rolePerms'[role][f])
           /\ \/ <<role, f>> \in touched
              \/ /\ role \in DOMAIN rolePerms /\ f \in DOMAIN rolePerms[role]
                 /\ rolePerms'[role][f] = rolePerms[role][f],
         RoleRequest(mine), RoleFair(mine, rolePerms')
  PROVE  RoleLaw' /\ \A q \in Requests \ {r} : roleReq'[q].todo = roleReq[q].todo
<1>1. roleReq' = [q \in Requests |->
            IF q = r THEN mine
            ELSE IF roleReq[q] = Role!Idle THEN Role!Idle
            ELSE [roleReq[q] EXCEPT !.unchecked = @ \cup touched]]
  BY DEF Role!Then
<1>2. ASSUME NEW q \in Requests \ {r}
      PROVE  /\ RoleRequest(roleReq'[q]) /\ RoleFair(roleReq'[q], rolePerms')
             /\ roleReq'[q].todo = roleReq[q].todo
  <2>1. CASE roleReq[q] = Role!Idle
    <3>1. roleReq'[q] = Role!Idle
      BY <1>1, <2>1
    <3>. QED
      BY <2>1, <3>1, RoleFairIdle
  <2>2. CASE roleReq[q] # Role!Idle
    <3>. DEFINE t == roleReq[q] n == [t EXCEPT !.unchecked = @ \cup touched]
    <3>1. RoleRequest(t) /\ RoleFair(t, rolePerms)
      BY DEF RoleLaw
    <3>2. /\ {"by", "rank", "about", "todo", "unchecked"} \subseteq DOMAIN n
          /\ n.rank = t.rank /\ n.todo = t.todo /\ n.unchecked = t.unchecked \cup touched
      BY <3>1, RoleFairExcept
    <3>3. roleReq'[q] = n
      BY <1>1, <2>2
    <3>. HIDE DEF n
    <3>4. RoleChecked(RoleItemsOf(t.todo), t.rank, t.unchecked, rolePerms)
      BY <3>1 DEF RoleFair
    <3>5. RoleChecked(RoleItemsOf(t.todo), t.rank, n.unchecked, rolePerms')
      BY <3>2, <3>4, RoleFairer
    <3>6. RoleFair(n, rolePerms') /\ RoleRequest(n)
      BY <3>1, <3>2, <3>5 DEF RoleFair, RoleRequest
    <3>. QED
      BY <3>2, <3>3, <3>6
  <2>. QED
    BY <2>1, <2>2
<1>3. roleReq' = [q \in Requests |-> roleReq'[q]] /\ roleReq'[r] = mine
  BY <1>1
<1>4. \A q \in Requests : RoleRequest(roleReq'[q]) /\ RoleFair(roleReq'[q], rolePerms')
  BY <1>2, <1>3
<1>5. RoleLaw'
  BY <1>3, <1>4 DEF RoleLaw
<1>. QED
  BY <1>2, <1>5

(* What is left of a request after a statement.                            *)
LEMMA RoleFairLeft ==
  ASSUME NEW r \in Requests, RoleRequest(roleReq[r]), NEW todo, Rules!IsSeq(todo), NEW table,
         RoleChecked(RoleItemsOf(todo), roleReq[r].rank, roleReq[r].unchecked, table)
  PROVE  RoleRequest(Role!Left(r, todo)) /\ RoleFair(Role!Left(r, todo), table)
<1>. DEFINE t == roleReq[r] n == [t EXCEPT !.todo = todo]
<1>1. /\ {"by", "rank", "about", "todo", "unchecked"} \subseteq DOMAIN n
      /\ n.rank = t.rank /\ n.todo = todo /\ n.unchecked = t.unchecked
  BY RoleFairExcept
<1>2. Role!Left(r, todo) = IF todo = <<>> THEN Role!Idle ELSE n
  BY DEF Role!Left
<1>. HIDE DEF n
<1>3. RoleRequest(n) /\ RoleFair(n, table)
  BY <1>1 DEF RoleRequest, RoleFair
<1>. QED
  BY <1>2, <1>3, RoleFairIdle

LEMMA RoleFairRest ==
  ASSUME RoleLaw, NEW r \in Requests, roleReq[r].todo # <<>>, NEW next,
         LET late == roleReq[r].unchecked item == Head(roleReq[r].todo) IN
           \A role \in DOMAIN next : \A f \in DOMAIN next[role] :
             \/ /\ role \in DOMAIN rolePerms /\ f \in DOMAIN rolePerms[role]
                /\ next[role][f] = rolePerms[role][f]
             \/ ~Role!Bars(next[role][f], roleReq[r].rank)
             \/ item.op \notin {"upsert", "put"}
  PROVE  RoleRequest(Role!Rest(r)) /\ RoleFair(Role!Rest(r), next)
<1>. DEFINE t == roleReq[r] S == RoleItemsOf(t.todo) T == RoleItemsOf(Tail(t.todo))
<1>1. RoleRequest(t) /\ RoleChecked(S, t.rank, t.unchecked, rolePerms)
  BY DEF RoleLaw, RoleFair
<1>2. Rules!IsSeq(Tail(t.todo)) /\ T \subseteq S /\ Head(t.todo) \in S
  BY <1>1, RoleItemsTail DEF RoleRequest
<1>. HIDE DEF S, T
<1>3. RoleChecked(T, t.rank, t.unchecked, next)
  <2>1. ASSUME NEW x, RoleUnbarred(x, t.rank, t.unchecked, rolePerms),
               Head(t.todo).op \in {"upsert", "put"}
        PROVE  RoleUnbarred(x, t.rank, t.unchecked, next)
    BY <2>1 DEF RoleUnbarred
  <2>2. CASE t.rank = 1 \/ \A x \in S : x.op \notin {"upsert", "put"}
    BY <1>1, <1>2, <2>2 DEF RoleChecked
  <2>3. CASE \A x \in S : x.op = "upsert" /\ RoleUnbarred(x, t.rank, t.unchecked, rolePerms)
    <3>1. \A x \in T : x.op = "upsert" /\ RoleUnbarred(x, t.rank, t.unchecked, next)
      BY <1>2, <2>1, <2>3
    <3>. QED
      BY <1>1, <1>2, <3>1 DEF RoleChecked
  <2>. QED
    BY <1>1, <2>2, <2>3 DEF RoleChecked
<1>4. RoleChecked(RoleItemsOf(Tail(t.todo)), t.rank, t.unchecked, next)
  BY <1>3 DEF T
<1>. QED
  BY <1>1, <1>2, <1>4, RoleFairLeft DEF Role!Rest

(* Statements that leave the table as it is.                               *)
LEMMA RoleLawSame ==
  ASSUME RoleLaw, NEW r \in Requests, UNCHANGED rolePerms, NEW mine, Role!Then(r, mine, {}),
         mine = Role!Idle \/ (roleReq[r].todo # <<>> /\ mine = Role!Rest(r))
  PROVE  RoleLaw' /\ \A q \in Requests : Role!Obeys(q)
<1>1. RoleRequest(mine) /\ RoleFair(mine, rolePerms')
  <2>1. CASE mine = Role!Idle
    BY <2>1, RoleFairIdle
  <2>2. CASE roleReq[r].todo # <<>> /\ mine = Role!Rest(r)
    <3>1. RoleRequest(mine) /\ RoleFair(mine, rolePerms)
      BY <2>2, RoleFairRest
    <3>. QED
      BY <3>1
  <2>. QED
    BY <2>1, <2>2
<1>. DEFINE none == {}
<1>2. Role!Then(r, mine, none)
  OBVIOUS
<1>. HIDE DEF none
<1>3. \A role \in DOMAIN rolePerms' : \A f \in DOMAIN rolePerms'[role] :
        /\ RoleEntry(rolePerms'[role][f])
        /\ role \in DOMAIN rolePerms /\ f \in DOMAIN rolePerms[role]
        /\ rolePerms'[role][f] = rolePerms[role][f]
  BY DEF RoleLaw
<1>4. RoleLaw'
  BY <1>1, <1>2, <1>3, RoleLawThen
<1>5. \A q \in Requests : Role!Obeys(q)
  BY DEF Role!Obeys, Role!Roles, Role!Kept
<1>. QED
  BY <1>4, <1>5

LEMMA RoleLawOthers ==
  ASSUME RoleLaw, NEW r \in Requests,
         \/ Role!GrantWrite(r) \/ Role!RevokeWrite(r) \/ Role!LookAdmin(r) \/ Role!SetAdmin(r)
         \/ Role!Cut(r)
  PROVE  RoleLaw' /\ \A q \in Requests : Role!Obeys(q)
<1>1. \E mine : /\ UNCHANGED rolePerms /\ Role!Then(r, mine, {})
                /\ mine = Role!Idle \/ (roleReq[r].todo # <<>> /\ mine = Role!Rest(r))
  <2>1. CASE Role!GrantWrite(r)
    BY <2>1 DEF Role!GrantWrite, Role!At
  <2>2. CASE Role!RevokeWrite(r)
    BY <2>2 DEF Role!RevokeWrite, Role!At
  <2>3. CASE Role!LookAdmin(r)
    BY <2>3 DEF Role!LookAdmin, Role!At
  <2>4. CASE Role!SetAdmin(r)
    BY <2>4 DEF Role!SetAdmin, Role!At
  <2>5. CASE Role!Cut(r)
    BY <2>5 DEF Role!Cut
  <2>. QED
    BY <2>1, <2>2, <2>3, <2>4, <2>5
<1>. QED
  BY <1>1, RoleLawSame

LEMMA RoleLawPutRole ==
  ASSUME RoleLaw, NEW r \in Requests, Role!PutRole(r)
  PROVE  RoleLaw' /\ \A q \in Requests : Role!Obeys(q)
<1>. DEFINE t == roleReq[r] s == t.todo x == Head(s) role == x.arg.role
            op == IF Role!At(r, "role") THEN "flag" ELSE "upsert"
            flags == Role!Each(op, role, x.arg.entries)
            fails == Role!At(r, "role") /\ role \in Role!Roles
            mine == IF fails THEN Role!Idle ELSE Role!Left(r, flags \o Tail(s))
            none == {}
            S == RoleItemsOf(s)
<1>1. /\ s # <<>> /\ x.op \in {"role", "put"} /\ op = IF x.op = "role" THEN "flag" ELSE "upsert"
      /\ rolePerms' = [z \in DOMAIN rolePerms \cup {role} |->
                         IF z \in DOMAIN rolePerms THEN rolePerms[z] ELSE <<>>]
      /\ Role!Then(r, mine, none)
  BY DEF Role!PutRole, Role!At, Role!Arg, Role!Roles
<1>2. RoleRequest(t) /\ RoleChecked(S, t.rank, t.unchecked, rolePerms)
  BY DEF RoleLaw, RoleFair
<1>3. /\ Rules!IsSeq(Tail(s)) /\ RoleItemsOf(Tail(s)) \subseteq S /\ x \in S
  BY <1>1, <1>2, RoleItemsTail DEF RoleRequest
<1>. HIDE DEF S
<1>4. /\ IsFiniteSet(DOMAIN x.arg.entries)
      /\ \A f \in DOMAIN x.arg.entries : RoleEntry(x.arg.entries[f])
  BY <1>1, <1>2, <1>3, RoleFlagsFinite DEF RoleChecked, RoleProper
<1>5. /\ Rules!IsSeq(flags)
      /\ \A y \in RoleItemsOf(flags) :
           y.op = op /\ y.arg.flag \in DOMAIN x.arg.entries
           /\ y.arg.entry = x.arg.entries[y.arg.flag]
  BY <1>4, RoleItemsEach
<1>. HIDE DEF flags
<1>6. \A y \in RoleItemsOf(flags) : RoleProper(y)
  <2>1. op \notin {"role", "put"}
    BY <1>1
  <2>. QED
    BY <1>4, <1>5, <2>1 DEF RoleProper
<1>7. t.rank = 1 \/ (x.op = "role" /\ \A y \in S : y.op \notin {"upsert", "put"})
  BY <1>1, <1>2, <1>3 DEF RoleChecked
<1>8. /\ Rules!IsSeq(flags \o Tail(s))
      /\ RoleItemsOf(flags \o Tail(s)) \subseteq RoleItemsOf(flags) \cup S
  BY <1>3, <1>5, RoleItemsConcat
<1>. DEFINE todo == flags \o Tail(s)
<1>. HIDE DEF todo
<1>9. RoleChecked(RoleItemsOf(todo), t.rank, t.unchecked, rolePerms')
  <2>1. \A y \in RoleItemsOf(todo) : RoleProper(y)
    BY <1>2, <1>6, <1>8 DEF RoleChecked, todo
  <2>2. t.rank # 1 => \A y \in RoleItemsOf(todo) : y.op \notin {"upsert", "put"}
    BY <1>1, <1>5, <1>7, <1>8 DEF todo
  <2>. QED
    BY <2>1, <2>2 DEF RoleChecked
<1>10. RoleRequest(Role!Left(r, todo)) /\ RoleFair(Role!Left(r, todo), rolePerms')
  BY <1>2, <1>8, <1>9, RoleFairLeft DEF todo
<1>11. RoleRequest(mine) /\ RoleFair(mine, rolePerms')
  BY <1>10, RoleFairIdle DEF todo
<1>12. \A z \in DOMAIN rolePerms' : \A f \in DOMAIN rolePerms'[z] :
         /\ RoleEntry(rolePerms'[z][f])
         /\ \/ <<z, f>> \in none
            \/ z \in DOMAIN rolePerms /\ f \in DOMAIN rolePerms[z]
               /\ rolePerms'[z][f] = rolePerms[z][f]
  <2>1. DOMAIN <<>> = {}
    OBVIOUS
  <2>. QED
    BY <1>1, <2>1 DEF RoleLaw
<1>. HIDE DEF mine, none
<1>13. RoleLaw'
  BY <1>1, <1>11, <1>12, RoleLawThen
<1>14. \A z \in DOMAIN rolePerms : z \in DOMAIN rolePerms' /\ rolePerms'[z] = rolePerms[z]
  BY <1>1
<1>15. \A q \in Requests : Role!Obeys(q)
  BY <1>14 DEF Role!Obeys, Role!Roles, Role!Kept
<1>. QED
  BY <1>13, <1>15

LEMMA RoleLawDelete ==
  ASSUME RoleLaw, NEW r \in Requests, Role!Delete(r)
  PROVE  RoleLaw' /\ \A q \in Requests : Role!Obeys(q)
<1>. DEFINE role == Role!Arg(r) K == {role} \X RoleFlags mine == Role!Rest(r)
<1>1. /\ roleReq[r].todo # <<>> /\ rolePerms' = [z \in DOMAIN rolePerms \ {role} |-> rolePerms[z]]
      /\ Role!Then(r, mine, K)
  BY DEF Role!Delete, Role!At, Role!Roles
<1>. HIDE DEF K, role
<1>2. \A z \in DOMAIN rolePerms' : z \in DOMAIN rolePerms /\ rolePerms'[z] = rolePerms[z]
  BY <1>1
<1>3. RoleRequest(mine) /\ RoleFair(mine, rolePerms')
  BY <1>1, <1>2, RoleFairRest
<1>4. \A z \in DOMAIN rolePerms' : \A f \in DOMAIN rolePerms'[z] :
         /\ RoleEntry(rolePerms'[z][f])
         /\ \/ <<z, f>> \in K
            \/ z \in DOMAIN rolePerms /\ f \in DOMAIN rolePerms[z]
               /\ rolePerms'[z][f] = rolePerms[z][f]
  BY <1>2 DEF RoleLaw
<1>. HIDE DEF mine
<1>5. RoleLaw'
  <2>1. Role!Then(r, mine, K)
    BY <1>1
  <2>. QED
    BY <1>3, <1>4, <2>1, RoleLawThen
<1>6. \A q \in Requests \ {r} : roleReq'[q].todo = roleReq[q].todo
  <2>1. Role!Then(r, mine, K)
    BY <1>1
  <2>. QED
    BY <1>3, <1>4, <2>1, RoleLawThen
<1>7. \A z \in DOMAIN rolePerms \ {role} : z \in DOMAIN rolePerms'
  BY <1>1
<1>8. Role!Obeys(r)
  <2>1. Role!At(r, "delete") /\ Role!Arg(r) = role
    BY DEF Role!Delete, role
  <2>. QED
    BY <1>2, <1>7, <2>1 DEF Role!Obeys, Role!Roles, Role!Kept
<1>9. \A q \in Requests \ {r} : Role!Obeys(q)
  BY <1>6 DEF Role!Obeys
<1>. QED
  BY <1>5, <1>8, <1>9

LEMMA RoleLawPutFlag ==
  ASSUME RoleLaw, NEW r \in Requests, Role!PutFlag(r)
  PROVE  RoleLaw' /\ \A q \in Requests : Role!Obeys(q)
<1>. DEFINE t == roleReq[r] s == t.todo x == Head(s) role == x.arg.role flag == x.arg.flag
            entry == IF Role!At(r, "share") /\ flag \in DOMAIN rolePerms[role]
                     THEN [rolePerms[role][flag] EXCEPT !.value = x.arg.entry.value]
                     ELSE x.arg.entry
            fails == \/ role \notin Role!Roles
                     \/ Role!At(r, "flag") /\ flag \in DOMAIN rolePerms[role]
            mine == IF fails THEN Role!Idle ELSE Role!Rest(r)
            K == IF fails THEN {} ELSE {<<role, flag>>}
            S == RoleItemsOf(s)
<1>1. /\ s # <<>> /\ x.op \in {"flag", "upsert", "share"} /\ Role!Then(r, mine, K)
      /\ rolePerms' = IF fails THEN rolePerms
                      ELSE [rolePerms EXCEPT ![role] = Role!With(@, flag, entry)]
  BY DEF Role!PutFlag, Role!At, Role!Arg
<1>2. RoleRequest(t) /\ RoleChecked(S, t.rank, t.unchecked, rolePerms)
  BY DEF RoleLaw, RoleFair
<1>3. x \in S
  BY <1>1, <1>2, RoleItemsTail DEF RoleRequest
<1>4. RoleProper(x)
  BY <1>2, <1>3 DEF RoleChecked
<1>. HIDE DEF S
<1>5. x.op = "upsert" => t.rank = 1 \/ RoleUnbarred(x, t.rank, t.unchecked, rolePerms)
  BY <1>2, <1>3 DEF RoleChecked
<1>6. CASE fails
  <2>1. UNCHANGED rolePerms /\ Role!Then(r, Role!Idle, {})
    BY <1>1, <1>6
  <2>. QED
    BY <2>1, RoleLawSame
<1>7. CASE ~fails
  <2>1. role \in DOMAIN rolePerms /\ mine = Role!Rest(r) /\ K = {<<role, flag>>}
        /\ rolePerms' = [rolePerms EXCEPT ![role] = Role!With(@, flag, entry)]
    BY <1>1, <1>7 DEF Role!Roles
  <2>2. RoleEntry(entry)
    <3>1. RoleEntry(x.arg.entry)
      BY <1>1, <1>4 DEF RoleProper
    <3>2. ASSUME flag \in DOMAIN rolePerms[role]
          PROVE  RoleEntry([rolePerms[role][flag] EXCEPT !.value = x.arg.entry.value])
      BY <2>1, <3>2 DEF RoleLaw, RoleEntry
    <3>. QED
      BY <3>1, <3>2
  <2>3. x.op = "upsert" => entry = x.arg.entry
    BY DEF Role!At
  <2>. HIDE DEF entry, K, mine, fails
  <2>4. \A z \in DOMAIN rolePerms' : \A f \in DOMAIN rolePerms'[z] :
          \/ z = role /\ f = flag /\ rolePerms'[z][f] = entry
          \/ z \in DOMAIN rolePerms /\ f \in DOMAIN rolePerms[z]
             /\ rolePerms'[z][f] = rolePerms[z][f]
    <3>. DEFINE flags == rolePerms[role]
    <3>1. DOMAIN rolePerms' = DOMAIN rolePerms /\ rolePerms'[role] = Role!With(flags, flag, entry)
      BY <2>1
    <3>2. \A z \in DOMAIN rolePerms : z # role => rolePerms'[z] = rolePerms[z]
      BY <2>1
    <3>3. \A f \in DOMAIN Role!With(flags, flag, entry) :
            \/ f = flag /\ Role!With(flags, flag, entry)[f] = entry
            \/ f \in DOMAIN flags /\ Role!With(flags, flag, entry)[f] = flags[f]
      BY DEF Role!With
    <3>. QED
      BY <2>1, <3>1, <3>2, <3>3
  <2>5. \A z \in DOMAIN rolePerms' : \A f \in DOMAIN rolePerms'[z] :
          /\ RoleEntry(rolePerms'[z][f])
          /\ \/ <<z, f>> \in K
             \/ z \in DOMAIN rolePerms /\ f \in DOMAIN rolePerms[z]
                /\ rolePerms'[z][f] = rolePerms[z][f]
    <3>1. <<role, flag>> \in K
      BY <2>1
    <3>2. \A z \in DOMAIN rolePerms : \A f \in DOMAIN rolePerms[z] : RoleEntry(rolePerms[z][f])
      BY DEF RoleLaw
    <3>3. ASSUME NEW z \in DOMAIN rolePerms', NEW f \in DOMAIN rolePerms'[z]
          PROVE  /\ RoleEntry(rolePerms'[z][f])
                 /\ \/ <<z, f>> \in K
                    \/ z \in DOMAIN rolePerms /\ f \in DOMAIN rolePerms[z]
                       /\ rolePerms'[z][f] = rolePerms[z][f]
      <4>1. CASE z = role /\ f = flag /\ rolePerms'[z][f] = entry
        BY <2>2, <3>1, <4>1
      <4>2. CASE /\ z \in DOMAIN rolePerms /\ f \in DOMAIN rolePerms[z]
                 /\ rolePerms'[z][f] = rolePerms[z][f]
        <5>1. RoleEntry(rolePerms[z][f])
          BY <3>2, <4>2
        <5>. QED
          BY <4>2, <5>1
      <4>. QED
        BY <2>4, <3>3, <4>1, <4>2
    <3>. QED
      BY <3>3
  <2>6. RoleRequest(mine) /\ RoleFair(mine, rolePerms')
    <3>1. CASE t.rank = 1
      <4>1. RoleRequest(Role!Rest(r)) /\ RoleFair(Role!Rest(r), rolePerms')
        <5>. DEFINE todo == Tail(s)
        <5>1. Rules!IsSeq(todo) /\ RoleItemsOf(todo) \subseteq S
          BY <1>1, <1>2, RoleItemsTail DEF RoleRequest, S
        <5>2. RoleChecked(RoleItemsOf(todo), t.rank, t.unchecked, rolePerms')
          BY <1>2, <3>1, <5>1 DEF RoleChecked
        <5>. QED
          BY <1>2, <5>1, <5>2, RoleFairLeft DEF Role!Rest
      <4>. QED
        BY <2>1, <4>1
    <3>2. CASE t.rank # 1
      <4>1. x.op = "upsert" => ~Role!Bars(entry, t.rank)
        BY <1>5, <2>3, <3>2 DEF RoleUnbarred
      <4>2. \A z \in DOMAIN rolePerms' : \A f \in DOMAIN rolePerms'[z] :
              \/ z \in DOMAIN rolePerms /\ f \in DOMAIN rolePerms[z]
                 /\ rolePerms'[z][f] = rolePerms[z][f]
              \/ ~Role!Bars(rolePerms'[z][f], t.rank)
              \/ x.op \notin {"upsert", "put"}
        BY <1>1, <2>4, <4>1
      <4>3. RoleRequest(Role!Rest(r)) /\ RoleFair(Role!Rest(r), rolePerms')
        BY <1>1, <4>2, RoleFairRest
      <4>. QED
        BY <2>1, <4>3
    <3>. QED
      BY <3>1, <3>2
  <2>7. RoleLaw' /\ \A q \in Requests \ {r} : roleReq'[q].todo = roleReq[q].todo
    BY <1>1, <2>5, <2>6, RoleLawThen
  <2>8. \A z \in DOMAIN rolePerms : \A f \in DOMAIN rolePerms[z] :
          /\ Role!Kept(z, f)
          /\ z # role \/ f # flag => rolePerms'[z][f] = rolePerms[z][f]
    <3>1. DOMAIN rolePerms' = DOMAIN rolePerms
          /\ rolePerms'[role] = Role!With(rolePerms[role], flag, entry)
          /\ \A z \in DOMAIN rolePerms : z # role => rolePerms'[z] = rolePerms[z]
      BY <2>1
    <3>. QED
      BY <3>1 DEF Role!With, Role!Kept
  <2>9. Role!Obeys(r)
    <3>1. ASSUME flag \in DOMAIN rolePerms[role], t.rank # 1, <<role, flag>> \notin t.unchecked,
                 Role!Bars(rolePerms[role][flag], t.rank)
          PROVE  /\ Role!At(r, "share")
                 /\ LET new == rolePerms'[role][flag] IN
                    new = [rolePerms[role][flag] EXCEPT !.value = new.value]
      <4>1. x.op # "upsert"
        BY <1>5, <2>1, <3>1 DEF RoleUnbarred
      <4>2. x.op # "flag"
        <5>1. ~(Role!At(r, "flag") /\ flag \in DOMAIN rolePerms[role])
          BY <1>7 DEF fails
        <5>. QED
          BY <1>1, <3>1, <5>1 DEF Role!At
      <4>3. Role!At(r, "share")
        BY <1>1, <4>1, <4>2 DEF Role!At
      <4>4. entry = [rolePerms[role][flag] EXCEPT !.value = x.arg.entry.value]
        BY <3>1, <4>3 DEF entry
      <4>5. "value" \in DOMAIN rolePerms[role][flag]
        BY <2>1, <3>1 DEF RoleLaw, RoleEntry
      <4>6. rolePerms'[role][flag] = entry
        BY <2>1 DEF Role!With
      <4>. QED
        BY <4>3, <4>4, <4>5, <4>6
    <3>. QED
      BY <2>8, <3>1 DEF Role!Obeys, Role!Roles
  <2>10. \A q \in Requests \ {r} : Role!Obeys(q)
    BY <2>7 DEF Role!Obeys
  <2>. QED
    BY <2>7, <2>9, <2>10
<1>. QED
  BY <1>6, <1>7

(* A request begins with what its user may do.                             *)
LEMMA RoleLawBegin ==
  ASSUME RoleLaw, NEW r, NEW u, NEW about, NEW todo, Role!Begin(r, u, about, todo),
         Rules!IsSeq(todo), NEW none, none = {},
         RoleChecked(RoleItemsOf(todo), Role!Rank(u), none, rolePerms)
  PROVE  RoleLaw' /\ \A q \in Requests : Role!Obeys(q)
<1>. DEFINE t == [by |-> u, rank |-> Role!Rank(u), about |-> about, todo |-> todo,
                  unchecked |-> none]
<1>1. /\ UNCHANGED rolePerms /\ roleReq' = [roleReq EXCEPT ![r] = t]
  BY DEF Role!Begin
<1>2. RoleRequest(t) /\ RoleFair(t, rolePerms)
  <2>1. /\ {"by", "rank", "about", "todo", "unchecked"} \subseteq DOMAIN t
        /\ t.rank = Role!Rank(u) /\ t.todo = todo /\ t.unchecked = none
    OBVIOUS
  <2>. HIDE DEF t
  <2>. QED
    BY <2>1, RoleRank DEF RoleRequest, RoleFair
<1>. HIDE DEF t
<1>3. ASSUME NEW q \in Requests PROVE RoleRequest(roleReq'[q]) /\ RoleFair(roleReq'[q], rolePerms)
  BY <1>1, <1>2 DEF RoleLaw
<1>4. RoleLaw'
  BY <1>1, <1>3 DEF RoleLaw
<1>. QED
  BY <1>1, <1>4 DEF Role!Obeys, Role!Roles, Role!Kept

(* Requests that set no flag whose lock counts.                            *)
LEMMA RoleLawPlain ==
  ASSUME RoleLaw, NEW r, NEW u, NEW about, NEW todo, Role!Begin(r, u, about, todo),
         Rules!IsSeq(todo),
         \A x \in RoleItemsOf(todo) : RoleProper(x) /\ x.op \notin {"upsert", "put"}
  PROVE  RoleLaw' /\ \A q \in Requests : Role!Obeys(q)
<1>1. PICK none : none = {}
  OBVIOUS
<1>2. RoleChecked(RoleItemsOf(todo), Role!Rank(u), none, rolePerms)
  BY DEF RoleChecked
<1>. QED
  BY <1>1, <1>2, RoleLawBegin

LEMMA RoleEntries ==
  ASSUME NEW v PROVE RoleEntry(Role!Entry(v))
BY DEF RoleEntry, Role!Entry

LEMMA RoleLawCreates ==
  ASSUME RoleLaw, NEW u, NEW r, NEW b \in RoleBodies, Role!CreateRole(r, u, b)
  PROVE  RoleLaw' /\ \A q \in Requests : Role!Obeys(q)
<1>. DEFINE es == [f \in DOMAIN b.flags |-> Role!Entry(b.flags[f])]
            x == Role!Do("role", [role |-> b.id, entries |-> es])
            todo == <<x>>
<1>1. DOMAIN es \subseteq RoleFlags /\ \A f \in DOMAIN es : RoleEntry(es[f])
  BY RolesAssumption, RoleEntries DEF Role!ConstantsOK
<1>2. Role!Begin(r, u, None, todo)
  BY DEF Role!CreateRole
<1>. HIDE DEF es
<1>3. x.op = "role" /\ x.arg.entries = es
  BY RoleDo
<1>4. RoleProper(x)
  BY <1>1, <1>3 DEF RoleProper
<1>. HIDE DEF x
<1>5. Rules!IsSeq(todo) /\ RoleItemsOf(todo) \subseteq {x}
  BY RoleItemsFew
<1>. HIDE DEF todo
<1>. QED
  BY <1>2, <1>3, <1>4, <1>5, RoleLawPlain

LEMMA RoleLawDeletes ==
  ASSUME RoleLaw, NEW u, NEW r, NEW role, Role!DeleteRole(r, u, role)
  PROVE  RoleLaw' /\ \A q \in Requests : Role!Obeys(q)
<1>. DEFINE x == Role!Do("delete", role) todo == <<x>>
<1>1. Role!Begin(r, u, None, todo) /\ x.op = "delete"
  BY RoleDo DEF Role!DeleteRole
<1>2. RoleProper(x)
  BY <1>1 DEF RoleProper
<1>. HIDE DEF x
<1>3. Rules!IsSeq(todo) /\ RoleItemsOf(todo) \subseteq {x}
  BY RoleItemsFew
<1>. HIDE DEF todo
<1>. QED
  BY <1>1, <1>2, <1>3, RoleLawPlain

LEMMA RoleLawShares ==
  ASSUME RoleLaw, NEW u, NEW r, NEW role, NEW v,
         Role!UpdateSharing(r, u, role, SharingFlag, v)
  PROVE  RoleLaw' /\ \A q \in Requests : Role!Obeys(q)
<1>. DEFINE b == [x \in {SharingFlag} |-> Role!Entry(v)] todo == Role!Each("share", role, b)
<1>1. Role!Begin(r, u, None, todo)
  BY DEF Role!UpdateSharing
<1>2. IsFiniteSet(DOMAIN b) /\ \A f \in DOMAIN b : RoleEntry(b[f])
  BY FS_Singleton, RoleEntries
<1>. HIDE DEF b
<1>3. Rules!IsSeq(todo) /\ \A x \in RoleItemsOf(todo) : x.op = "share" /\ RoleEntry(x.arg.entry)
  BY <1>2, RoleItemsEach
<1>. HIDE DEF todo
<1>4. \A x \in RoleItemsOf(todo) : RoleProper(x) /\ x.op \notin {"upsert", "put"}
  BY <1>3 DEF RoleProper
<1>. QED
  BY <1>1, <1>3, <1>4, RoleLawPlain

(* update_role_permissions: every flag it will set has been checked, and   *)
(* is set to nothing that would bar the request itself.                    *)
LEMMA RoleLawUpdates ==
  ASSUME RoleLaw, NEW u, NEW r, NEW role \in Role!Roles, NEW b \in FlagChanges,
         Role!UpdatePermissions(r, u, role, b)
  PROVE  RoleLaw' /\ \A q \in Requests : Role!Obeys(q)
<1>. DEFINE todo == Role!Each("upsert", role, b) rank == Role!Rank(u)
<1>1. /\ Role!Begin(r, u, None, todo)
      /\ \A f \in DOMAIN b :
           /\ f \in DOMAIN rolePerms[role] => ~Role!Bars(rolePerms[role][f], rank)
           /\ b[f].on /\ b[f].tier # None => b[f].tier >= rank
  BY DEF Role!UpdatePermissions
<1>2. /\ IsFiniteSet(DOMAIN b)
      /\ \A f \in DOMAIN b :
           {"value", "on", "tier"} \subseteq DOMAIN b[f] /\ b[f].tier \in Int \cup {None}
  BY RoleFlagsFinite, RolesAssumption DEF Role!ConstantsOK, Role!IsEntries
<1>. HIDE DEF rank
<1>3. rank \in Int
  BY RoleRank DEF rank
<1>4. ASSUME NEW f \in DOMAIN b PROVE ~Role!Bars(b[f], rank)
  <2>1. SUFFICES ASSUME b[f].on, b[f].tier # None PROVE ~(rank > b[f].tier)
    BY DEF Role!Bars
  <2>2. b[f].tier >= rank
    BY <1>1, <2>1
  <2>3. b[f].tier \in Int
    <3>1. b[f].tier # None
      BY <2>1
    <3>. QED
      BY <1>2, <3>1
  <2>. QED
    BY <1>3, <2>2, <2>3
<1>5. PICK none : none = {}
  OBVIOUS
<1>6. /\ Rules!IsSeq(todo)
      /\ \A x \in RoleItemsOf(todo) :
           /\ x.op = "upsert" /\ x.arg.role = role /\ x.arg.flag \in DOMAIN b
           /\ x.arg.entry = b[x.arg.flag]
  BY <1>2, RoleItemsEach
<1>. HIDE DEF todo
<1>7. ASSUME NEW x \in RoleItemsOf(todo)
      PROVE  RoleProper(x) /\ RoleUnbarred(x, rank, none, rolePerms)
  <2>1. RoleProper(x)
    BY <1>2, <1>6 DEF RoleProper, RoleEntry
  <2>2. RoleUnbarred(x, rank, none, rolePerms)
    BY <1>1, <1>4, <1>6 DEF RoleUnbarred
  <2>. QED
    BY <2>1, <2>2
<1>8. RoleChecked(RoleItemsOf(todo), rank, none, rolePerms)
  BY <1>6, <1>7 DEF RoleChecked
<1>. QED
  BY <1>1, <1>5, <1>6, <1>8, RoleLawBegin DEF rank

LEMMA RoleLawImports ==
  ASSUME RoleLaw, RoleInv, NEW u, NEW r, NEW b \in RoleExports, NEW replace,
         Role!ImportRoles(r, u, b, replace)
  PROVE  RoleLaw' /\ \A q \in Requests : Role!Obeys(q)
<1>. DEFINE old == IF replace /\ DOMAIN b # {} THEN (Role!Roles \ SystemRoles) \ DOMAIN b ELSE {}
            gone == Role!SetSeq(old) order == Role!SetSeq(DOMAIN b)
            n == Len(gone) m == Len(order)
            s == [i \in 1..n |-> Role!Do("delete", gone[i])]
            t == [i \in 1..m |-> Role!Do("put", [role |-> order[i], entries |-> b[order[i]]])]
            todo == s \o t
<1>1. Role!Begin(r, u, None, todo) /\ Role!Rank(u) = 1
  BY RoleRank DEF Role!ImportRoles
<1>2. /\ IsFiniteSet(DOMAIN b)
      /\ \A x \in DOMAIN b : DOMAIN b[x] \subseteq RoleFlags
                             /\ \A f \in DOMAIN b[x] : RoleEntry(b[x][f])
  BY RoleFinite, RolesAssumption DEF Role!ConstantsOK, Role!IsEntries, RoleEntry
<1>3. IsFiniteSet(old)
  <2>1. old \subseteq DOMAIN rolePerms
    BY DEF Role!Roles
  <2>. QED
    BY <2>1, FS_Subset DEF RoleInv, RoleTypes
<1>. HIDE DEF old
<1>4. n \in Nat /\ m \in Nat /\ \A i \in 1..m : order[i] \in DOMAIN b
  BY <1>2, <1>3, RoleOrder
<1>. HIDE DEF gone, order, n, m
<1>5. Rules!IsSeq(s) /\ \A x \in RoleItemsOf(s) : RoleProper(x)
  <2>1. \A i \in 1..n : s[i].op = "delete"
    BY RoleDo
  <2>2. s = [i \in 1..n |-> s[i]]
    OBVIOUS
  <2>. HIDE DEF s
  <2>3. Rules!IsSeq(s) /\ RoleItemsOf(s) = {s[i] : i \in 1..n}
    BY <1>4, <2>2, RoleItemsMap
  <2>4. \A x \in RoleItemsOf(s) : x.op = "delete"
    BY <2>1, <2>3
  <2>. QED
    BY <2>3, <2>4 DEF RoleProper
<1>6. Rules!IsSeq(t) /\ \A x \in RoleItemsOf(t) : RoleProper(x)
  <2>1. \A i \in 1..m : t[i].op = "put" /\ t[i].arg.entries = b[order[i]]
    BY RoleDo
  <2>2. t = [i \in 1..m |-> t[i]]
    OBVIOUS
  <2>. HIDE DEF t
  <2>3. Rules!IsSeq(t) /\ RoleItemsOf(t) = {t[i] : i \in 1..m}
    BY <1>4, <2>2, RoleItemsMap
  <2>4. \A x \in RoleItemsOf(t) : x.op = "put" /\ \E z \in DOMAIN b : x.arg.entries = b[z]
    BY <1>4, <2>1, <2>3
  <2>. QED
    BY <1>2, <2>3, <2>4 DEF RoleProper
<1>. HIDE DEF s, t
<1>7. Rules!IsSeq(todo) /\ \A x \in RoleItemsOf(todo) : RoleProper(x)
  BY <1>5, <1>6, RoleItemsConcat
<1>. HIDE DEF todo
<1>8. PICK none : none = {}
  OBVIOUS
<1>9. RoleChecked(RoleItemsOf(todo), Role!Rank(u), none, rolePerms)
  BY <1>1, <1>7 DEF RoleChecked
<1>. QED
  BY <1>1, <1>7, <1>8, <1>9, RoleLawBegin

LEMMA RoleLawAbout ==
  ASSUME RoleLaw, NEW u, NEW r, NEW v, NEW role,
         Role!Grant(r, u, v, role) \/ Role!Revoke(r, u, v, role)
  PROVE  RoleLaw' /\ \A q \in Requests : Role!Obeys(q)
<1>. DEFINE g == Role!Do("grant", role) w == Role!Do("revoke", role) k == Role!Do("look", None)
            y == Role!Do("admin", TRUE) z == Role!Do("admin", FALSE)
            all == {g, w, k, y, z}
<1>1. g.op = "grant" /\ w.op = "revoke" /\ k.op = "look" /\ y.op = "admin" /\ z.op = "admin"
  BY RoleDo
<1>2. ASSUME NEW x \in all PROVE RoleProper(x) /\ x.op \notin {"upsert", "put"}
  BY <1>1, <1>2 DEF RoleProper
<1>3. \E todo \in {<<g>>, <<g, y>>, <<w>>, <<w, k, z>>} : Role!Begin(r, u, v, todo)
  <2>1. ASSUME Role!Grant(r, u, v, role)
        PROVE  Role!Begin(r, u, v, <<g>>) \/ Role!Begin(r, u, v, <<g, y>>)
    <3>1. Role!Begin(r, u, v, <<g>> \o IF role \in AdminRoles THEN <<y>> ELSE <<>>)
      BY <2>1 DEF Role!Grant
    <3>. HIDE DEF g, y
    <3>. QED
      BY <3>1, RoleJoined
  <2>2. ASSUME Role!Revoke(r, u, v, role)
        PROVE  Role!Begin(r, u, v, <<w>>) \/ Role!Begin(r, u, v, <<w, k, z>>)
    <3>1. Role!Begin(r, u, v, <<w>> \o IF role \in AdminRoles THEN <<k, z>> ELSE <<>>)
      BY <2>2 DEF Role!Revoke
    <3>. HIDE DEF w, k, z
    <3>. QED
      BY <3>1, RoleJoined
  <2>. HIDE DEF g, w, k, y, z
  <2>. QED
    BY <2>1, <2>2
<1>. HIDE DEF g, w, k, y, z
<1>4. ASSUME NEW todo \in {<<g>>, <<g, y>>, <<w>>, <<w, k, z>>}
      PROVE  Rules!IsSeq(todo) /\ RoleItemsOf(todo) \subseteq all
  <2>1. CASE todo = <<g>>
    BY <2>1, RoleItemsFew
  <2>2. CASE todo = <<g, y>>
    <3>1. Rules!IsSeq(<<g, y>>) /\ RoleItemsOf(<<g, y>>) \subseteq {g, y}
      BY RoleItemsFew
    <3>. QED
      BY <2>2, <3>1
  <2>3. CASE todo = <<w>>
    BY <2>3, RoleItemsFew
  <2>4. CASE todo = <<w, k, z>>
    <3>1. Rules!IsSeq(<<w, k, z>>) /\ RoleItemsOf(<<w, k, z>>) \subseteq {w, k, z}
      BY RoleItemsFew
    <3>. QED
      BY <2>4, <3>1
  <2>. QED
    BY <1>4, <2>1, <2>2, <2>3, <2>4
<1>5. PICK todo \in {<<g>>, <<g, y>>, <<w>>, <<w, k, z>>} : Role!Begin(r, u, v, todo)
  BY <1>3
<1>6. Rules!IsSeq(todo)
      /\ \A x \in RoleItemsOf(todo) : RoleProper(x) /\ x.op \notin {"upsert", "put"}
  BY <1>2, <1>4
<1>. QED
  BY <1>5, <1>6, RoleLawPlain

LEMMA RoleLawInit == Role!Init => RoleLaw
<1>. SUFFICES ASSUME Role!Init PROVE RoleLaw
  OBVIOUS
<1>1. /\ rolePerms = [r \in SystemRoles |-> [f \in CarriedFlags[r] |-> Role!Entry("1")]]
      /\ roleReq = [r \in Requests |-> Role!Idle]
  BY DEF Role!Init
<1>2. roleReq = [r \in Requests |-> roleReq[r]] /\ \A r \in Requests : roleReq[r] = Role!Idle
  BY <1>1
<1>3. \A role \in DOMAIN rolePerms : \A f \in DOMAIN rolePerms[role] :
        RoleEntry(rolePerms[role][f])
  BY <1>1, RoleEntries
<1>. QED
  BY <1>2, <1>3, RoleFairIdle DEF RoleLaw

LEMMA RoleLawStep ==
  RoleInv /\ RoleLaw /\ [Role!Next]_(Role!vars) => RoleLaw' /\ \A r \in Requests : Role!Obeys(r)
<1>. SUFFICES ASSUME RoleInv, RoleLaw, [Role!Next]_(Role!vars)
              PROVE  RoleLaw' /\ \A r \in Requests : Role!Obeys(r)
  OBVIOUS
<1>1. CASE UNCHANGED Role!vars
  <2>1. UNCHANGED <<rolePerms, roleReq>>
    BY <1>1 DEF Role!vars
  <2>2. RoleLaw'
    BY <2>1 DEF RoleLaw
  <2>3. \A r \in Requests : Role!Obeys(r)
    BY <2>1 DEF Role!Obeys
  <2>. QED
    BY <2>2, <2>3
<1>2. ASSUME NEW r \in Role!Free, NEW u \in Users,
             \/ \E b \in RoleBodies : Role!CreateRole(r, u, b)
             \/ \E b \in RoleExports, replace \in BOOLEAN : Role!ImportRoles(r, u, b, replace)
             \/ \E role \in Role!Roles :
                  \/ Role!DeleteRole(r, u, role)
                  \/ \E b \in FlagChanges : Role!UpdatePermissions(r, u, role, b)
                  \/ \E v \in {"0", "1"} : Role!UpdateSharing(r, u, role, SharingFlag, v)
                  \/ \E v \in Users : Role!Grant(r, u, v, role) \/ Role!Revoke(r, u, v, role)
      PROVE  RoleLaw' /\ \A q \in Requests : Role!Obeys(q)
  BY <1>2, RoleLawCreates, RoleLawImports, RoleLawDeletes, RoleLawUpdates, RoleLawShares,
     RoleLawAbout
<1>3. ASSUME NEW r \in Requests,
             \/ Role!PutRole(r) \/ Role!PutFlag(r) \/ Role!Delete(r) \/ Role!GrantWrite(r)
             \/ Role!RevokeWrite(r) \/ Role!LookAdmin(r) \/ Role!SetAdmin(r) \/ Role!Cut(r)
      PROVE  RoleLaw' /\ \A q \in Requests : Role!Obeys(q)
  BY <1>3, RoleLawPutRole, RoleLawPutFlag, RoleLawDelete, RoleLawOthers
<1>. QED
  BY <1>1, <1>2, <1>3 DEF Role!Next

LEMMA RoleAuthority == Role!Spec => Role!FlagLocksHold
<1>1. RoleInv /\ RoleLaw /\ [Role!Next]_(Role!vars) => RoleInv' /\ RoleLaw'
  BY RoleStep, RoleLawStep
<1>2. RoleInv /\ RoleLaw /\ [Role!Next]_(Role!vars)
      => [\A r \in Requests : Role!Obeys(r)]_(Role!vars)
  BY RoleLawStep
<1>. QED
  BY <1>1, <1>2, RoleInit, RoleLawInit, PTL DEF Role!Spec, Role!FlagLocksHold

-----------------------------------------------------------------------------
(* The locks of all three                                                  *)

(* Locks bind, whichever requests of other administrators come between the *)
(* check of a request and its statements: no rule of admin_sharing.py, no  *)
(* row of admin_settings and no flag of a role is written to by one for    *)
(* whom _check_rule_lock, check_admin_setting_lock or                      *)
(* _check_flag_lock_tier says it is locked, and no rule is placed before a *)
(* locked one of a more privileged administrator, but for what was written *)
(* after the check, and for the pages that do not check:                   *)
(* update_setting_locks, the escrow rows that update_escrow_settings does  *)
(* not look at, the values that update_sharing_flags writes, and           *)
(* delete_role.                                                            *)
THEOREM AuthorityHolds == Rules!Spec /\ Set!Spec /\ Role!Spec => AuthorityKept
BY RulesAuthority, SetAuthority, RoleAuthority DEF AuthorityKept
=============================================================================
