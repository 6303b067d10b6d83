---------------------------- MODULE PolicyGrants -----------------------------
(***************************************************************************)
(* Attribute policies of one team and one folder: what a policy that       *)
(* matches a user writes (a team role, a folder permission, the rows that  *)
(* track them), what is taken away when it no longer matches, and who else *)
(* works on the same rows.  models/policy.py, routes/policies.py, and the  *)
(* places of routes/teams.py and folders.py that touch policy rows.        *)
(*                                                                         *)
(* Nothing here runs in a transaction: every statement commits by itself,  *)
(* and any number of evaluations of one user may be under way.             *)
(***************************************************************************)
EXTENDS Naturals

CONSTANTS
  Users,    \* accounts that policies apply to (service accounts never are)
  Policies,
  Org,      \* policies with scope_type 'org'; the others are of this team
  Conds,    \* policy_conditions
  CondOf,   \* the policy of a condition
  Scoped,   \* conditions that were made from an admin scope condition
  Effects,  \* policy_effects ids; each created at most once
  Of,       \* the policy of an effect
  Known,    \* effects there are at the start
  TeamKind, \* effects of type team_member; the others are folder_acl
  Tasks,    \* request handlers and background tasks
  Changes,  \* bound: changes and failures in a run
  None

ConstantsOK ==
  /\ Org \subseteq Policies
  /\ CondOf \in [Conds -> Policies] /\ Scoped \subseteq Conds
  /\ Of \in [Effects -> Policies]
  /\ Known \subseteq Effects /\ TeamKind \subseteq Effects
  /\ Changes \in Nat
  /\ None \notin Users \cup Policies \cup Effects \cup {"manual"}

VARIABLES
  policy,  \* live policies
  effect,  \* effects: "new", "live" or "gone"
  conds,   \* live conditions
  sat,     \* for each condition, the users of whom it is true
  locked,  \* conditions whose inherited_scope_id is set
  exempt,  \* policy_exemptions
  role,    \* the user_roles row of a user in the team: None, "manual" or an effect
  slot,    \* users with a user_team_keys row
  acl,     \* the permissions row of a user on the folder
  tgrant,  \* policy_team_grants: "none", "unwrapped" or "wrapped"
  fgrant,  \* policy_folder_grants: "none", "unwritten" or "written"
  task,
  left     \* bound: changes and failures still to come

config == <<policy, effect, conds, sat, locked, exempt>>
grants == <<tgrant, fgrant>>
rows   == <<role, slot, acl, grants>>
vars   == <<config, rows, task, left>>

Idle == [pc |-> "idle", who |-> None, rest |-> {}, loaded |-> {}, match |-> {},
         todo |-> {}, eff |-> None, saw |-> FALSE]

Init ==
  /\ policy = Policies
  /\ effect = [e \in Effects |-> IF e \in Known THEN "live" ELSE "new"]
  /\ conds = Conds
  /\ sat \in [Conds -> SUBSET Users]
  /\ locked = Scoped
  /\ exempt = [p \in Policies |-> {}]
  /\ role = [u \in Users |-> None]
  /\ slot = {}
  /\ acl = [u \in Users |-> None]
  /\ tgrant = [u \in Users |-> [e \in Effects |-> "none"]]
  /\ fgrant = [u \in Users |-> [e \in Effects |-> "none"]]
  /\ task = [t \in Tasks |-> Idle]
  /\ left = Changes

(* After the last of them only logins, key deliveries and what was begun   *)
(* go on.                                                                  *)
Disturb == left > 0 /\ left' = left - 1

Free(t)     == task[t].pc = "idle"
Goto(t, pc) == task' = [task EXCEPT ![t].pc = pc]
LiveOf(ps)  == {e \in Effects : effect[e] = "live" /\ Of[e] \in ps}

(* A task that evaluates the users us one after the other.                 *)
Evaluating(us) ==
  IF us = {} THEN {Idle}
  ELSE {[Idle EXCEPT !.pc = "load", !.who = u, !.rest = us \ {u}] : u \in us}

Next1(t) == task' \in {[task EXCEPT ![t] = k] : k \in Evaluating(task[t].rest)}

(***************************************************************************)
(* evaluate_user_policies                                                  *)
(***************************************************************************)
Login(t, u) ==
  /\ Free(t)
  /\ task' \in {[task EXCEPT ![t] = k] : k \in Evaluating({u})}
  /\ UNCHANGED <<config, rows, left>>

(* A team's policy is looked at only while the user has a role there.      *)
Applicable(u) == {p \in policy : p \in Org \/ role[u] # None}

(* A policy without conditions matches nobody.                             *)
Matches(p, u) ==
  LET cs == {c \in conds : CondOf[c] = p} IN
  /\ p \in policy
  /\ u \notin exempt[p]
  /\ cs # {}
  /\ \A c \in cs : u \in sat[c]

Load(t) ==
  LET u  == task[t].who
      ps == Applicable(u)
      ms == {p \in ps : Matches(p, u)}
  IN
  /\ task[t].pc = "load"
  /\ task' = [task EXCEPT ![t].pc = "write", ![t].loaded = ps, ![t].match = ms,
                          ![t].todo = LiveOf(ms)]
  /\ UNCHANGED <<config, rows, left>>

(* The foreign key of every row a policy writes.                           *)
Exists(e) == effect[e] = "live"

(* INSERT ... ON CONFLICT DO NOTHING, and what the key slot said then.     *)
WriteRole(t, e) ==
  LET u == task[t].who IN
  /\ task[t].pc = "write"
  /\ e \in task[t].todo \cap TeamKind
  /\ Exists(e)
  /\ role' = [role EXCEPT ![u] = IF @ = None THEN e ELSE @]
  /\ task' = [task EXCEPT ![t].pc = "grant", ![t].eff = e, ![t].todo = @ \ {e},
                          ![t].saw = u \in slot]
  /\ UNCHANGED <<config, slot, acl, grants, left>>

Written(t) ==
  task' = [task EXCEPT ![t].pc = "write", ![t].eff = None, ![t].saw = FALSE]

(* ON CONFLICT DO UPDATE.                                                  *)
Upsert_Nothing(old, has) ==
  IF old # "none" THEN old ELSE IF has THEN "wrapped" ELSE "unwrapped"
Upsert(old, has) == IF has THEN "wrapped" ELSE "unwrapped"

WriteGrant(t) ==
  LET u == task[t].who
      e == task[t].eff
  IN
  /\ task[t].pc = "grant"
  /\ Exists(e)
  /\ tgrant' = [tgrant EXCEPT ![u][e] = Upsert(@, task[t].saw)]
  /\ Written(t)
  /\ UNCHANGED <<config, role, slot, acl, fgrant, left>>

WriteAcl(t, e) ==
  LET u == task[t].who IN
  /\ task[t].pc = "write"
  /\ e \in task[t].todo \ TeamKind
  /\ Exists(e)
  /\ acl' = [acl EXCEPT ![u] = IF @ = None THEN e ELSE @]
  /\ task' = [task EXCEPT ![t].pc = "folder", ![t].eff = e, ![t].todo = @ \ {e},
                          ![t].saw = acl[u] \in {None, e}]
  /\ UNCHANGED <<config, role, slot, grants, left>>

WriteFolderGrant(t) ==
  LET u == task[t].who
      e == task[t].eff
  IN
  /\ task[t].pc = "folder"
  /\ Exists(e)
  /\ fgrant' = [fgrant EXCEPT ![u][e] = IF task[t].saw THEN "written" ELSE "unwritten"]
  /\ Written(t)
  /\ UNCHANGED <<config, role, slot, acl, tgrant, left>>

(* All matching effects are written before the others are revoked.         *)
RevokeSelect(t) ==
  LET es == LiveOf(task[t].loaded \ task[t].match) IN
  /\ task[t].pc = "write"
  /\ task[t].todo = {}
  /\ IF es = {} THEN Next1(t)
     ELSE task' = [task EXCEPT ![t].pc = "revoke", ![t].todo = es,
                               ![t].loaded = {}, ![t].match = {}]
  /\ UNCHANGED <<config, rows, left>>

(* The DELETE of user_team_keys that follows finds no row with an effect.  *)
RevokeRows(t) ==
  LET Keep(row) == IF row \in task[t].todo THEN None ELSE row IN
  /\ task[t].pc = "revoke"
  /\ role' = [role EXCEPT ![task[t].who] = Keep(@)]
  /\ acl' = [acl EXCEPT ![task[t].who] = Keep(@)]
  /\ Goto(t, "ungrant")
  /\ UNCHANGED <<config, slot, grants, left>>

NoGrant(g, u, es) ==
  [g EXCEPT ![u] = [e \in Effects |-> IF e \in es THEN "none" ELSE g[u][e]]]

RevokeGrants(t) ==
  LET u == task[t].who IN
  /\ task[t].pc = "ungrant"
  /\ tgrant' = NoGrant(tgrant, u, task[t].todo)
  /\ fgrant' = NoGrant(fgrant, u, task[t].todo)
  /\ Next1(t)
  /\ UNCHANGED <<config, role, slot, acl, left>>

Evaluation == {"load", "write", "grant", "folder", "revoke", "ungrant"}

(* A statement fails: the effect has been deleted meanwhile, or the        *)
(* database does not answer.  A sweep goes on with the next user.          *)
Refused(t) ==
  \/ /\ task[t].pc = "write"
     /\ \E e \in task[t].todo : ~Exists(e)
  \/ /\ task[t].pc \in {"grant", "folder"}
     /\ ~Exists(task[t].eff)

EvaluationFails(t) ==
  /\ IF Refused(t) THEN UNCHANGED left ELSE task[t].pc \in Evaluation /\ Disturb
  /\ Next1(t)
  /\ UNCHANGED <<config, rows>>

(***************************************************************************)
(* The administrator's changes.  Conditions and effects start a sweep over *)
(* all users; an exemption evaluates its user; deletions cascade and start *)
(* nothing.                                                                *)
(***************************************************************************)
Sweep(t, p) == task' = [task EXCEPT ![t] = [Idle EXCEPT !.pc = "sweep", !.loaded = {p}]]

SweepSelect(t) ==
  LET swept == CHOOSE p \in task[t].loaded : TRUE
      us == IF swept \notin policy THEN {}
            ELSE IF swept \in Org THEN Users ELSE {u \in Users : role[u] # None}
  IN
  /\ task[t].pc = "sweep"
  /\ task' \in {[task EXCEPT ![t] = k] : k \in Evaluating(us)}
  /\ UNCHANGED <<config, rows, left>>

CreateCondition(t, c, us) ==
  /\ Disturb /\ Free(t)
  /\ c \notin conds
  /\ CondOf[c] \in policy
  /\ conds' = conds \cup {c}
  /\ sat' = [sat EXCEPT ![c] = us]
  /\ Sweep(t, CondOf[c])
  /\ UNCHANGED <<policy, effect, locked, exempt, rows>>

UpdateCondition(t, c, us) ==
  /\ Disturb /\ Free(t)
  /\ c \in conds \ locked
  /\ us # sat[c]
  /\ sat' = [sat EXCEPT ![c] = us]
  /\ Sweep(t, CondOf[c])
  /\ UNCHANGED <<policy, effect, conds, locked, exempt, rows>>

DeleteCondition(t, c) ==
  /\ Disturb /\ Free(t)
  /\ c \in conds \ locked
  /\ conds' = conds \ {c}
  /\ Sweep(t, CondOf[c])
  /\ UNCHANGED <<policy, effect, sat, locked, exempt, rows>>

(* Deleting an admin scope condition unlocks what was made from it;        *)
(* changing one changes no condition of a policy.                          *)
DeleteScope(c) ==
  /\ Disturb
  /\ c \in locked
  /\ locked' = locked \ {c}
  /\ UNCHANGED <<policy, effect, conds, sat, exempt, rows, task>>

(* What the user's row or the identity provider says of the user changes,  *)
(* or the provider does not answer, and then the condition is not met.     *)
AttributesChange(c, u) ==
  /\ Disturb
  /\ c \in conds
  /\ sat' = [sat EXCEPT ![c] = IF u \in @ THEN @ \ {u} ELSE @ \cup {u}]
  /\ UNCHANGED <<policy, effect, conds, locked, exempt, rows, task>>

CreateEffect(t, e) ==
  /\ Disturb /\ Free(t)
  /\ effect[e] = "new"
  /\ Of[e] \in policy
  /\ effect' = [effect EXCEPT ![e] = "live"]
  /\ Sweep(t, Of[e])
  /\ UNCHANGED <<policy, conds, sat, locked, exempt, rows>>

(* ON DELETE CASCADE: no row of a deleted effect is left, key slots are.   *)
Cascade(es) ==
  /\ effect' = [e \in Effects |-> IF e \in es THEN "gone" ELSE effect[e]]
  /\ role' = [u \in Users |-> IF role[u] \in es THEN None ELSE role[u]]
  /\ acl' = [u \in Users |-> IF acl[u] \in es THEN None ELSE acl[u]]
  /\ tgrant' = [u \in Users |-> NoGrant(tgrant, u, es)[u]]
  /\ fgrant' = [u \in Users |-> NoGrant(fgrant, u, es)[u]]

DeleteEffect(e) ==
  /\ Disturb
  /\ effect[e] = "live"
  /\ Cascade({e})
  /\ UNCHANGED <<policy, conds, sat, locked, exempt, slot, task>>

DeletePolicy(p) ==
  /\ Disturb
  /\ p \in policy
  /\ policy' = policy \ {p}
  /\ Cascade(LiveOf({p}))
  /\ conds' = {c \in conds : CondOf[c] # p}
  /\ locked' = {c \in locked : CondOf[c] # p}
  /\ UNCHANGED <<sat, exempt, slot, task>>

SetExemption(t, p, u) ==
  /\ Disturb /\ Free(t)
  /\ p \in policy
  /\ exempt' = [exempt EXCEPT ![p] = IF u \in @ THEN @ \ {u} ELSE @ \cup {u}]
  /\ task' \in {[task EXCEPT ![t] = k] : k \in Evaluating({u})}
  /\ UNCHANGED <<policy, effect, conds, sat, locked, rows>>

(***************************************************************************)
(* The rows of a member by hand: an invitation brings role and key; a      *)
(* removal is refused while a policy is the source of the row.             *)
(***************************************************************************)
Invite(u) ==
  /\ Disturb
  /\ role[u] = None
  /\ role' = [role EXCEPT ![u] = "manual"]
  /\ slot' = slot \cup {u}
  /\ UNCHANGED <<config, acl, grants, task>>

Blocked(u) == role[u] \in Effects

RemoveCheck(t, u) ==
  /\ Disturb /\ Free(t)
  /\ role[u] # None
  /\ ~Blocked(u)
  /\ task' = [task EXCEPT ![t] = [Idle EXCEPT !.pc = "remove", !.who = u]]
  /\ UNCHANGED <<config, rows>>

RemoveRole(t) ==
  /\ task[t].pc = "remove"
  /\ role' = [role EXCEPT ![task[t].who] = None]
  /\ Goto(t, "unslot")
  /\ UNCHANGED <<config, slot, acl, grants, left>>

RemoveSlot(t) ==
  /\ task[t].pc = "unslot"
  /\ slot' = slot \ {task[t].who}
  /\ task' = [task EXCEPT ![t] = Idle]
  /\ UNCHANGED <<config, role, acl, grants, left>>

(* A folder permission by hand; moving the folder strips recursive rows.   *)
AddFolderGrant(u) ==
  /\ Disturb
  /\ acl[u] = None
  /\ acl' = [acl EXCEPT ![u] = "manual"]
  /\ UNCHANGED <<config, role, slot, grants, task>>

RemoveFolderGrant(u) ==
  /\ Disturb
  /\ acl[u] = "manual"
  /\ acl' = [acl EXCEPT ![u] = None]
  /\ UNCHANGED <<config, role, slot, grants, task>>

MoveFolder ==
  /\ Disturb
  /\ acl' = [u \in Users |-> None]
  /\ fgrant' = [u \in Users |->
       [e \in Effects |-> IF fgrant[u][e] = "written" THEN "unwritten" ELSE fgrant[u][e]]]
  /\ UNCHANGED <<config, role, slot, tgrant, task>>

(***************************************************************************)
(* Keys: a rotation keeps slots for the members it was sent, then marks    *)
(* the grants of members it left out; a member's client delivers keys.     *)
(***************************************************************************)
Rotate(t, us) ==
  /\ Disturb /\ Free(t)
  /\ us \subseteq {u \in Users : role[u] # None}
  /\ slot' = us
  /\ task' = [task EXCEPT ![t] = [Idle EXCEPT !.pc = "omitted", !.rest = us]]
  /\ UNCHANGED <<config, role, acl, grants>>

MarkOmitted(t) ==
  /\ task[t].pc = "omitted"
  /\ tgrant' = [u \in Users |->
       IF Blocked(u) /\ u \notin task[t].rest
         THEN [e \in Effects |-> IF tgrant[u][e] = "wrapped" THEN "unwrapped" ELSE tgrant[u][e]]
         ELSE tgrant[u]]
  /\ task' = [task EXCEPT ![t] = Idle]
  /\ UNCHANGED <<config, role, slot, acl, fgrant, left>>

DeliverCheck(t, u, e) ==
  /\ Free(t)
  /\ tgrant[u][e] = "unwrapped"
  /\ task' = [task EXCEPT ![t] = [Idle EXCEPT !.pc = "deliver", !.who = u, !.eff = e]]
  /\ UNCHANGED <<config, rows, left>>

Deliver(t) ==
  LET u == task[t].who
      e == task[t].eff
  IN
  /\ task[t].pc = "deliver"
  /\ slot' = slot \cup {u}
  /\ tgrant' = [tgrant EXCEPT ![u][e] = IF @ = "none" THEN "none" ELSE "wrapped"]
  /\ task' = [task EXCEPT ![t] = Idle]
  /\ UNCHANGED <<config, role, acl, fgrant, left>>

Crash ==
  /\ Disturb
  /\ task' = [t \in Tasks |-> Idle]
  /\ UNCHANGED <<config, rows>>

Evaluate(t) ==
  \/ Load(t) \/ WriteGrant(t) \/ WriteFolderGrant(t)
  \/ \E e \in Effects : WriteRole(t, e) \/ WriteAcl(t, e)
  \/ RevokeSelect(t) \/ RevokeRows(t) \/ RevokeGrants(t)
  \/ EvaluationFails(t) \/ SweepSelect(t)

Continue(t) ==
  \/ Evaluate(t)
  \/ RemoveRole(t) \/ RemoveSlot(t) \/ MarkOmitted(t) \/ Deliver(t)

Administer ==
  \/ \E c \in Conds : DeleteScope(c) \/ \E u \in Users : AttributesChange(c, u)
  \/ \E e \in Effects : DeleteEffect(e)
  \/ \E p \in Policies : DeletePolicy(p)
  \/ \E u \in Users : Invite(u) \/ AddFolderGrant(u) \/ RemoveFolderGrant(u)
  \/ MoveFolder \/ Crash
  \/ \E t \in Tasks :
       \/ \E c \in Conds, us \in SUBSET Users :
            CreateCondition(t, c, us) \/ UpdateCondition(t, c, us)
       \/ \E c \in Conds : DeleteCondition(t, c)
       \/ \E e \in Effects : CreateEffect(t, e)
       \/ \E p \in Policies, u \in Users : SetExemption(t, p, u)
       \/ \E u \in Users : RemoveCheck(t, u)
       \/ \E us \in SUBSET Users : Rotate(t, us)

Next ==
  \/ Administer
  \/ \E t \in Tasks : Continue(t)
  \/ \E t \in Tasks, u \in Users : Login(t, u)
  \/ \E t \in Tasks, u \in Users, e \in Effects : DeliverCheck(t, u, e)

Spec == Init /\ [][Next]_vars

(* Users log in again and again, members' clients deliver keys, and what   *)
(* has begun goes on.                                                      *)
Fairness ==
  /\ \A t \in Tasks : WF_vars(Continue(t))
  /\ \A u \in Users :
       /\ SF_vars(\E t \in Tasks : Login(t, u))
       /\ SF_vars(\E t \in Tasks, e \in Effects : DeliverCheck(t, u, e))

FairSpec == Spec /\ Fairness

-----------------------------------------------------------------------------
(* Rows, grants and tasks have their types.                                *)
TypeOK ==
  /\ policy \subseteq Policies
  /\ effect \in [Effects -> {"new", "live", "gone"}]
  /\ locked \subseteq conds /\ conds \subseteq Conds
  /\ sat \in [Conds -> SUBSET Users]
  /\ exempt \in [Policies -> SUBSET Users]
  /\ slot \subseteq Users
  /\ role \in [Users -> Effects \cup {None, "manual"}]
  /\ acl \in [Users -> Effects \cup {None, "manual"}]
  /\ tgrant \in [Users -> [Effects -> {"none", "unwrapped", "wrapped"}]]
  /\ fgrant \in [Users -> [Effects -> {"none", "unwritten", "written"}]]
  /\ \A t \in Tasks :
       /\ task[t].who \in Users \cup {None}
       /\ task[t].rest \subseteq Users
       /\ task[t].loaded \subseteq Policies /\ task[t].match \subseteq task[t].loaded
       /\ task[t].todo \subseteq Effects

NoRow(u, e) ==
  /\ e \notin {role[u], acl[u]}
  /\ tgrant[u][e] = "none" /\ fgrant[u][e] = "none"

(* What the organisation's policies say of user u and effect e.            *)
InForce(u, e) ==
  IF Matches(Of[e], u)
    THEN IF e \in TeamKind
           THEN role[u] # None /\ tgrant[u][e] = "wrapped" /\ u \in slot
           ELSE acl[u] # None /\ fgrant[u][e] # "none"
    ELSE NoRow(u, e)

Settled ==
  \A u \in Users, e \in Effects :
    IF effect[e] = "live" THEN Of[e] \in Org => InForce(u, e) ELSE NoRow(u, e)

(* models/policy.py, evaluate_user_policies: once nothing changes any more,*)
(* every user the organisation's policies match has what they grant, key   *)
(* included, and nobody else has a row of theirs or of a deleted effect,   *)
(* whatever evaluations, sweeps, removals, rotations and moves overlapped  *)
(* or were cut short.                                                      *)
PoliciesTakeHold == <>[](left = 0 => Settled)
=============================================================================
