----------------------------- MODULE Membership -----------------------------
(***************************************************************************)
(* Who belongs to a team, in which roles and with which key slot, while    *)
(* accounts are locked, deleted, recovered and purged (routes/teams.py,    *)
(* team_roles.py, admin_teams.py, users.py, admin_emergency.py and         *)
(* services/trash.py).  Requests check first and then write, one statement *)
(* at a time but for the transactions of the deletions.  One team, with    *)
(* multi-owner teams allowed; the rows policies write are in PolicyGrants, *)
(* the keys behind the slots in TeamKeys.                                  *)
(***************************************************************************)
EXTENDS Naturals, FiniteSets

CONSTANTS
  Users, Creator,   \* who may be in the team, and who created it
  Joined,           \* the roles they may start with: functions on Users
  Requests,         \* handlers under way at once
  None,             \* no user
  Changes           \* bound on requests

Roles == {"owner", "supervisor", "member"}   \* team_admin, _manager, _member

ConstantsOK ==
  /\ Creator \in Users /\ None \notin Users /\ Changes \in Nat
  /\ \A j \in Joined : /\ j \in [Users -> SUBSET Roles]
                       /\ j[Creator] = {"owner"}

VARIABLES
  team,     \* teams row: "live", "leaving" (scheduled_delete_at) or "gone"
  owner,    \* teams.owner_id
  pending,  \* teams.rotation_pending
  roles,    \* user_roles of the team: the roles each user holds
  custom,   \* team_role_assignments: who holds the team's custom role
  slots,    \* user_team_keys: who has a copy of the team key
  account,  \* users row: "active", "locked" (is_active = 0) or "gone"
  leaving,  \* accounts with scheduled_delete_at
  task,     \* requests under way
  changes,  \* bound counter
  owed,     \* history: slots deleted with no rotation flagged since
  missed,   \* history: who lost a slot in one of the ways no flag follows
  lastly    \* history: what took the last owner's role

members == <<roles, custom, slots>>
accounts == <<account, leaving>>
history == <<owed, missed, lastly>>
vars == <<team, owner, pending, members, accounts, task, changes, history>>

Idle == [pc |-> "idle", user |-> None, role |-> "none", admin |-> FALSE,
         seen |-> FALSE, late |-> FALSE, spare |-> TRUE]

Init ==
  /\ team = "live" /\ owner = Creator /\ pending = FALSE
  /\ roles \in Joined
  /\ slots = {u \in Users : roles[u] # {}}
  /\ custom = {} /\ leaving = {}
  /\ account = [u \in Users |-> "active"]
  /\ task = [r \in Requests |-> Idle] /\ changes = 0
  /\ owed = {} /\ missed = {} /\ lastly = "none"

Owners == {u \in Users : "owner" \in roles[u]}

\* get_team_member_role: the highest of the roles a user holds.
Highest_Lowest(u) ==
  IF "member" \in roles[u] THEN "member"
  ELSE IF "supervisor" \in roles[u] THEN "supervisor"
  ELSE IF "owner" \in roles[u] THEN "owner" ELSE "none"
Highest(u) ==
  IF "owner" \in roles[u] THEN "owner"
  ELSE IF "supervisor" \in roles[u] THEN "supervisor"
  ELSE IF "member" \in roles[u] THEN "member" ELSE "none"

\* _get_team_or_404 and _require_team_role, for a caller who may log in.
Calls(c, allowed) ==
  team = "live" /\ account[c] = "active" /\ Highest(c) \in allowed

Managers == {"owner", "supervisor"}

Free == {r \in Requests : task[r] = Idle /\ changes < Changes}
Arrive(r, t) ==
  /\ r \in Free
  /\ changes' = changes + 1
  /\ task' = [task EXCEPT ![r] = t]

Begin(r, pc, u, role) ==
  /\ Arrive(r, [Idle EXCEPT !.pc = pc, !.user = u, !.role = role,
                            !.spare = u \in Owners => Owners # {u}])
  /\ UNCHANGED <<team, owner, pending, members, accounts, history>>

Goes(r, pc) == task' = [task EXCEPT ![r].pc = pc]
Ends(r) == task' = [task EXCEPT ![r] = Idle]

\* What takes the last owner's role: an administrator, or a request whose
\* target was not the last owner when it checked.
Unowned(without, byAdmin, spare) ==
  lastly' = IF without = {} /\ Owners # {}
            THEN IF byAdmin THEN "admin"
                 ELSE IF spare THEN "raced" ELSE "checked"
            ELSE lastly

-----------------------------------------------------------------------------
(* Roles                                                                   *)

\* update_member_role: demoting an owner needs another one.
UpdateRole(r, c, u, role) ==
  /\ Calls(c, {"owner"}) /\ u # c
  /\ Highest(u) # "none"
  /\ Highest(u) = "owner" /\ role # "owner" => Cardinality(Owners) > 1
  /\ Begin(r, "update", u, role)

\* UPDATE user_roles of all rows of the member: two rows cannot both take the
\* same role, and the request fails.
UpdateWrite(r) ==
  LET t == task[r]
      new == IF Cardinality(roles[t.user]) = 1 THEN {t.role}
             ELSE roles[t.user] IN
  /\ t.pc = "update"
  /\ roles' = [roles EXCEPT ![t.user] = new]
  /\ Unowned(Owners \ {u \in {t.user} : "owner" \notin new}, FALSE, t.spare)
  /\ Ends(r)
  /\ UNCHANGED <<team, owner, pending, custom, slots, accounts, changes,
                 owed, missed>>

\* add_member_role, and the assignment of the custom role by an owner or an
\* administrator.
AddRole(r, c, u, role) ==
  /\ Calls(c, {"owner"}) /\ u # c
  /\ Highest(u) # "none"
  /\ role \notin roles[u]
  /\ Begin(r, "add", u, role)

AssignCustom(r, u) ==
  /\ team = "live"
  /\ Highest(u) # "none" /\ u \notin custom
  /\ Begin(r, "add", u, "custom")

AddWrite(r) ==
  LET t == task[r]
      exists == account[t.user] # "gone" IN
  /\ t.pc = "add"
  /\ IF t.role = "custom"
     THEN /\ custom' = IF exists /\ team # "gone" THEN custom \cup {t.user}
                       ELSE custom
          /\ UNCHANGED roles
     ELSE /\ roles' = [roles EXCEPT ![t.user] =
                         IF exists THEN @ \cup {t.role} ELSE @]
          /\ UNCHANGED custom
  /\ Ends(r)
  /\ UNCHANGED <<team, owner, pending, slots, accounts, changes, history>>

\* remove_member_role: neither the last owner's role nor a member's last one,
\* the custom role counted.
RemoveRole(r, c, u, role) ==
  /\ Calls(c, {"owner"}) /\ u # c
  /\ IF role = "custom" THEN u \in custom ELSE role \in roles[u]
  /\ role = "owner" => Cardinality(Owners) > 1
  /\ Cardinality(roles[u]) + Cardinality({u} \cap custom) > 1
  /\ Begin(r, "remove", u, role)

RemoveRoleWrite(r) ==
  LET t == task[r]
      left == roles[t.user] \ {t.role} IN
  /\ t.pc = "remove"
  /\ roles' = [roles EXCEPT ![t.user] = left]
  /\ custom' = IF t.role = "custom" THEN custom \ {t.user} ELSE custom
  /\ Unowned(Owners \ {u \in {t.user} : "owner" \notin left}, FALSE, t.spare)
  /\ Ends(r)
  /\ UNCHANGED <<team, owner, pending, slots, accounts, changes, owed, missed>>

\* revoke_team_role for one user; delete_team_role cascades to everyone's.
RevokeCustom(us) ==
  /\ team = "live" /\ changes < Changes
  /\ us # {} /\ us \subseteq custom
  /\ custom' = custom \ us
  /\ changes' = changes + 1
  /\ UNCHANGED <<team, owner, pending, roles, slots, accounts, task, history>>

-----------------------------------------------------------------------------
(* Coming and going                                                        *)

\* A slot given to users on whom a request is at work that has read, or
\* flagged, the teams of the slots it will delete.
Given(us, after) ==
  [q \in Requests |-> IF after[q].user \in us /\ after[q].pc \in {"drop", "mark", "commit"}
                      THEN [after[q] EXCEPT !.late = TRUE] ELSE after[q]]

\* invite_member: the role first, the slot after it.
Invite(r, c, u, role) ==
  /\ Calls(c, Managers)
  /\ account[u] = "active" /\ Highest(u) = "none"
  /\ role # "owner"
  /\ Begin(r, "invite", u, role)

InviteRole(r) ==
  LET t == task[r] IN
  /\ t.pc = "invite"
  /\ IF account[t.user] # "gone" /\ t.role \notin roles[t.user]
     THEN /\ roles' = [roles EXCEPT ![t.user] = @ \cup {t.role}]
          /\ Goes(r, "slot")
     ELSE /\ Ends(r) /\ UNCHANGED roles
  /\ UNCHANGED <<team, owner, pending, custom, slots, accounts, changes, history>>

InviteSlot(r) ==
  LET u == task[r].user
      fits == account[u] # "gone" /\ team # "gone" /\ u \notin slots IN
  /\ task[r].pc = "slot"
  /\ slots' = IF fits THEN slots \cup {u} ELSE slots
  /\ task' = Given(IF fits THEN {u} ELSE {}, [task EXCEPT ![r] = Idle])
  /\ UNCHANGED <<team, owner, pending, roles, custom, accounts, changes, history>>

\* admin_add_team_member: a role without a slot, and the rotation that is to
\* give one; a new owner becomes owner_id instead.
AdminAdd(r, u, role) ==
  /\ team # "gone"
  /\ account[u] = "active" /\ roles[u] = {}
  /\ Begin(r, "adminadd", u, role)

AdminAddRole(r) ==
  LET t == task[r] IN
  /\ t.pc = "adminadd"
  /\ IF account[t.user] # "gone" /\ t.role \notin roles[t.user]
     THEN /\ roles' = [roles EXCEPT ![t.user] = @ \cup {t.role}]
          /\ Goes(r, IF t.role = "owner" THEN "own" ELSE "flag")
     ELSE /\ Ends(r) /\ UNCHANGED roles
  /\ UNCHANGED <<team, owner, pending, custom, slots, accounts, changes, history>>

AdminOwn(r) ==
  /\ task[r].pc = "own"
  /\ owner' = IF account[task[r].user] # "gone" THEN task[r].user ELSE owner
  /\ Ends(r)
  /\ UNCHANGED <<team, pending, members, accounts, changes, history>>

\* remove_member: not an owner, and by a supervisor not another supervisor.
RemoveMember(r, c, u) ==
  /\ Calls(c, Managers)
  /\ Highest(u) \in {"supervisor", "member"}
  /\ ~(Highest(c) = "supervisor" /\ Highest(u) = "supervisor")
  /\ Begin(r, "droproles", u, "none")

\* admin_remove_team_member: anyone but owner_id.
AdminRemove(r, u) ==
  /\ team # "gone"
  /\ u # owner /\ roles[u] # {}
  /\ Arrive(r, [Idle EXCEPT !.pc = "droproles", !.user = u, !.admin = TRUE])
  /\ UNCHANGED <<team, owner, pending, members, accounts, history>>

DropRoles(r) ==
  LET t == task[r] IN
  /\ t.pc = "droproles"
  /\ roles' = [roles EXCEPT ![t.user] = {}]
  /\ Unowned(Owners \ {t.user}, t.admin, t.spare)
  /\ Goes(r, "dropslot")
  /\ UNCHANGED <<team, owner, pending, custom, slots, accounts, changes,
                 owed, missed>>

\* A deleted slot calls for a rotation.
Deleted(us) == owed' = IF pending THEN owed ELSE owed \cup (us \cap slots)

DropSlot(r) ==
  LET t == task[r] IN
  /\ t.pc = "dropslot"
  /\ slots' = slots \ {t.user}
  /\ Deleted({t.user})
  /\ Goes(r, "flag")
  /\ UNCHANGED <<team, owner, pending, roles, custom, accounts, changes,
                 missed, lastly>>

\* UPDATE teams SET rotation_pending = 1
Flag(r) ==
  /\ task[r].pc = "flag"
  /\ pending' = TRUE /\ owed' = {}
  /\ Ends(r)
  /\ UNCHANGED <<team, owner, members, accounts, changes, missed, lastly>>

\* rotate_team_keys, as far as the slots go.
Rotate(c) ==
  /\ Calls(c, Managers) /\ c \in slots /\ pending
  /\ LET listed == {u \in Users : roles[u] # {} /\ account[u] = "active"} IN
     slots' = listed /\ task' = Given(listed, task)
  /\ pending' = FALSE /\ owed' = {}
  /\ UNCHANGED <<team, owner, roles, custom, accounts, changes, missed, lastly>>

-----------------------------------------------------------------------------
(* Accounts                                                                *)

\* lock_user, update_user and emergency_revoke deactivate first.
Deactivate(r, u, how) ==
  /\ account[u] # "gone"
  /\ account' = [account EXCEPT ![u] = "locked"]
  /\ Arrive(r, [Idle EXCEPT !.pc = "list", !.user = u, !.role = how])
  /\ UNCHANGED <<team, owner, pending, members, leaving, history>>

\* SELECT DISTINCT team_id FROM user_team_keys
Seen_AfterDelete(u) == FALSE
Seen(u) == u \in slots

\* The lock deletes the slots and then flags the teams it has listed; the
\* emergency flags them, deletes the slots and strips the roles.
List(r) ==
  LET t == task[r] IN
  /\ t.pc = "list"
  /\ task' = [task EXCEPT ![r].seen = Seen(t.user),
       ![r].pc = IF t.role = "emergency" /\ Seen(t.user) THEN "mark"
                 ELSE IF t.role \in {"soft", "hard"} THEN "commit" ELSE "drop"]
  /\ UNCHANGED <<team, owner, pending, members, accounts, changes, history>>

Mark(r) ==
  /\ task[r].pc = "mark"
  /\ pending' = TRUE /\ owed' = {}
  /\ Goes(r, "drop")
  /\ UNCHANGED <<team, owner, members, accounts, changes, missed, lastly>>

\* A slot given after the list was read goes without a flag.
Late(t) == missed' = IF t.late /\ t.user \in slots THEN missed \cup {t.user}
                     ELSE missed

Drop(r) ==
  LET t == task[r] IN
  /\ t.pc = "drop"
  /\ slots' = slots \ {t.user}
  /\ Deleted({t.user}) /\ Late(t)
  /\ IF t.role = "emergency" THEN Goes(r, "strip")
     ELSE IF t.seen THEN Goes(r, "flag") ELSE Ends(r)
  /\ UNCHANGED <<team, owner, pending, roles, custom, accounts, changes, lastly>>

Strip(r) ==
  LET u == task[r].user IN
  /\ task[r].pc = "strip"
  /\ roles' = [roles EXCEPT ![u] = {}]
  /\ Unowned(Owners \ {u}, TRUE, FALSE)
  /\ Ends(r)
  /\ UNCHANGED <<team, owner, pending, custom, slots, accounts, changes,
                 owed, missed>>

\* unlock_user leaves a scheduled deletion as it is; recover_user cancels it.
Unlock(u) ==
  /\ account[u] = "locked" /\ changes < Changes
  /\ account' = [account EXCEPT ![u] = "active"]
  /\ changes' = changes + 1
  /\ UNCHANGED <<team, owner, pending, members, leaving, task, history>>

Recover(u) ==
  /\ u \in leaving /\ changes < Changes
  /\ account' = [account EXCEPT ![u] = "active"]
  /\ leaving' = leaving \ {u}
  /\ changes' = changes + 1
  /\ UNCHANGED <<team, owner, pending, members, task, history>>

\* delete_user, with and without the trash.
DeleteUser(r, u, how) ==
  /\ account[u] # "gone" /\ u \notin leaving
  /\ Begin(r, "list", u, how)

\* The transaction of the soft delete.
ScheduleUser(r) ==
  LET t == task[r] IN
  /\ t.pc = "commit" /\ t.role = "soft"
  /\ IF account[t.user] = "gone"
     THEN UNCHANGED <<accounts, slots, pending, owed, missed>>
     ELSE /\ account' = [account EXCEPT ![t.user] = "locked"]
          /\ leaving' = leaving \cup {t.user}
          /\ slots' = slots \ {t.user}
          /\ pending' = (pending \/ t.seen)
          /\ IF t.seen THEN owed' = {} ELSE Deleted({t.user})
          /\ Late(t)
  /\ Ends(r)
  /\ UNCHANGED <<team, owner, roles, custom, changes, lastly>>

\* DELETE FROM users, which cascades; teams.owner_id refuses it.
Erase(r, u, flags) ==
  /\ IF (u = owner /\ team # "gone") \/ account[u] = "gone"
     THEN UNCHANGED <<accounts, members, pending, owed, lastly>>
     ELSE /\ account' = [account EXCEPT ![u] = "gone"]
          /\ leaving' = leaving \ {u}
          /\ roles' = [roles EXCEPT ![u] = {}]
          /\ custom' = custom \ {u} /\ slots' = slots \ {u}
          /\ pending' = (pending \/ flags)
          /\ IF flags THEN owed' = {} ELSE Deleted({u})
          /\ Unowned(Owners \ {u}, TRUE, FALSE)
  /\ Ends(r)
  /\ UNCHANGED <<team, owner, changes>>

EraseUser(r) ==
  LET t == task[r] IN
  /\ t.pc = "commit" /\ t.role = "hard"
  /\ Erase(r, t.user, t.seen)
  /\ Late(t)

\* _purge_expired_users reads the accounts whose time has come, and deletes
\* them one by one without another look; nothing flags their teams, whose
\* slots the scheduling has deleted.
PurgeUsers(r, u) ==
  /\ u \in leaving
  /\ Begin(r, "purge", u, "none")

PurgeUser(r) ==
  LET u == task[r].user IN
  /\ task[r].pc = "purge"
  /\ Erase(r, u, FALSE)
  /\ missed' = IF u \in slots THEN missed \cup {u} ELSE missed

-----------------------------------------------------------------------------
(* The team                                                                *)

\* admin_delete_team, recover_team; delete_team and the purge of the team
\* take its roles with it, the administrator's delete leaves them.
TeamTo(state, with) ==
  /\ changes < Changes /\ changes' = changes + 1
  /\ team' = state
  /\ IF state = "gone"
     THEN /\ custom' = {} /\ slots' = {} /\ owed' = {}
          /\ roles' = IF with THEN [u \in Users |-> {}] ELSE roles
     ELSE UNCHANGED <<members, owed>>
  /\ UNCHANGED <<owner, pending, accounts, task, missed, lastly>>

AdminDeleteTeam == team = "live" /\ (TeamTo("leaving", FALSE) \/ TeamTo("gone", FALSE))
RecoverTeam == team = "leaving" /\ TeamTo("live", FALSE)
PurgeTeam == team = "leaving" /\ TeamTo("gone", TRUE)
DeleteTeam(c) == Calls(c, {"owner"}) /\ TeamTo("gone", TRUE)

\* The process stops: a transaction is rolled back, statements that are done
\* stay done.
Crash(r) ==
  LET t == task[r] IN
  /\ t # Idle
  /\ missed' = IF t.pc = "flag" THEN missed \cup (owed \cap {t.user}) ELSE missed
  /\ Ends(r)
  /\ UNCHANGED <<team, owner, pending, members, accounts, changes, owed, lastly>>

Next ==
  \/ \E r \in Free, u \in Users :
       \/ \E c \in Users :
            \/ RemoveMember(r, c, u)
            \/ \E role \in Roles :
                 \/ UpdateRole(r, c, u, role) \/ AddRole(r, c, u, role)
                 \/ Invite(r, c, u, role)
            \/ \E role \in Roles \cup {"custom"} : RemoveRole(r, c, u, role)
       \/ AssignCustom(r, u) \/ AdminRemove(r, u) \/ PurgeUsers(r, u)
       \/ \E role \in Roles : AdminAdd(r, u, role)
       \/ \E how \in {"lock", "emergency"} : Deactivate(r, u, how)
       \/ \E how \in {"soft", "hard"} : DeleteUser(r, u, how)
  \/ \E r \in Requests \ Free :
       \/ UpdateWrite(r) \/ AddWrite(r) \/ RemoveRoleWrite(r)
       \/ InviteRole(r) \/ InviteSlot(r) \/ AdminAddRole(r) \/ AdminOwn(r)
       \/ DropRoles(r) \/ DropSlot(r) \/ Flag(r)
       \/ List(r) \/ Mark(r) \/ Drop(r) \/ Strip(r)
       \/ ScheduleUser(r) \/ EraseUser(r) \/ PurgeUser(r)
       \/ Crash(r)
  \/ \E u \in Users :
       Unlock(u) \/ Recover(u) \/ RevokeCustom({u}) \/ Rotate(u) \/ DeleteTeam(u)
  \/ RevokeCustom(custom)
  \/ AdminDeleteTeam \/ RecoverTeam \/ PurgeTeam

Spec == Init /\ [][Next]_vars

-----------------------------------------------------------------------------
(* Properties                                                              *)

\* Whoever loses the slot of a team that goes on has its rotation flagged, or
\* a request about to flag it, whatever request took the slot and however it
\* interleaved with others; but for a slot given after the request had listed
\* the teams, a crash between the two statements, and the purge of an account
\* that was unlocked, not recovered, and invited again.
SlotLossFlagged ==
  \A u \in owed :
    \/ u \in missed
    \/ \E r \in Requests : task[r].user = u /\ task[r].pc = "flag"

\* The requests of a team's own members never take its last owner's role,
\* whichever of several roles their checks see: that takes an administrator,
\* or another request between the check and the write.
OwnerRemains == lastly # "checked"

TypeOK ==
  /\ team \in {"live", "leaving", "gone"} /\ owner \in Users
  /\ pending \in BOOLEAN
  /\ roles \in [Users -> SUBSET Roles]
  /\ custom \subseteq Users /\ slots \subseteq Users
  /\ account \in [Users -> {"active", "locked", "gone"}]
  /\ leaving \subseteq Users /\ changes \in 0..Changes
=============================================================================
