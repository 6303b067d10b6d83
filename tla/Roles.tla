------------------------------- MODULE Roles -------------------------------
(***************************************************************************)
(* Global roles, the permission flags they carry, and who holds them       *)
(* (routes/admin_roles.py, models/role.py, and the role endpoints of       *)
(* routes/users.py), with what other pages write of flags: sharing         *)
(* capabilities (routes/admin_sharing.py) and imports                      *)
(* (routes/admin_profiles.py).  A request acts with the roles its user had *)
(* when it began, and its statements each commit by themselves.  Roles in  *)
(* a team, and what policies grant, are in other modules.                  *)
(***************************************************************************)
EXTENDS Integers, Sequences, FiniteSets

CONSTANTS
  Users, Start,   \* Start[u]: the roles u has at first
  System, Tier,   \* system roles, and ROLE_TIER of those that have one
  AdminRoles,     \* ADMIN_ROLE_IDS
  Root,           \* the role of tier 1
  Custom,         \* ids for roles that are made
  Flags, Sensitive,
  Manage, Create, Sharing,  \* roles_manage, roles_create and sharing_manage
  Carries,        \* Carries[role]: the flags a system role has at first
  NewRoles,       \* bodies of POST /roles
  Permissions,    \* bodies of PUT /roles/{id}/permissions: [flag -> entry]
  Exports,        \* the roles of an import, with their permissions
  Requests,
  None,
  Edits           \* bound on requests

\* Flags, and what a request sets them to.
IsEntries(b) ==
  DOMAIN b \subseteq Flags /\ \A f \in DOMAIN b :
    {"value", "on", "tier"} \subseteq DOMAIN b[f] /\ b[f].tier \in Int \cup {None}

ConstantsOK ==
  /\ AdminRoles \subseteq System /\ Root \in AdminRoles \cap DOMAIN Tier
  /\ Tier[Root] = 1
  /\ DOMAIN Tier \subseteq System /\ \A r \in DOMAIN Tier : Tier[r] \in Nat \ {0}
  /\ Start \in [Users -> SUBSET System] /\ \E u \in Users : Root \in Start[u]
  /\ {Manage, Create, Sharing} \cup Sensitive \subseteq Flags
  /\ \A b \in NewRoles : b.id \in Custom /\ DOMAIN b.flags \subseteq Flags
  /\ \A b \in Permissions : IsEntries(b)
  /\ \A b \in Exports : IsFiniteSet(DOMAIN b) /\ \A r \in DOMAIN b : IsEntries(b[r])
  /\ IsFiniteSet(System) /\ IsFiniteSet(Flags)
  /\ None \notin Users /\ Edits \in Nat

VARIABLES
  perms,     \* role_permissions of the roles there are: perms[role][flag]
  granted,   \* user_roles without a scope
  isAdmin,   \* users.is_admin
  req,       \* requests: by whom, with which authority, and what is left
  edits,     \* bound counter
  blurred,   \* history: users two requests changed at once, or one in part
  deposed    \* history: a request took a role its user had lost meanwhile

vars == <<perms, granted, isAdmin, req, edits, blurred, deposed>>
history == <<blurred, deposed>>

Roles == DOMAIN perms
Entry(v) == [value |-> v, on |-> FALSE, tier |-> None]
Idle == [by |-> None, rank |-> 99, about |-> None, todo |-> <<>>, unchecked |-> {}]

Init ==
  /\ perms = [r \in System |-> [f \in Carries[r] |-> Entry("1")]]
  /\ granted = Start
  /\ isAdmin = [u \in Users |-> Start[u] \cap AdminRoles # {}]
  /\ req = [r \in Requests |-> Idle]
  /\ edits = 0 /\ blurred = {} /\ deposed = FALSE

-----------------------------------------------------------------------------
(* What a user may do                                                      *)

\* get_user_global_flags: any role that has the flag gives it.
Holds(u) == {f \in Flags : \E r \in granted[u] : f \in DOMAIN perms[r] /\ perms[r][f].value = "1"}
\* admin_best_tier.
Rank(u) ==
  LET tiers == {Tier[r] : r \in granted[u] \cap DOMAIN Tier} \cup {99}
  IN CHOOSE t \in tiers : \A s \in tiers : t <= s
IsAdmin(u) == granted[u] \cap AdminRoles # {}
Delicate(u) == \E r \in granted[u] \cap DOMAIN Tier : Tier[r] <= 2

-----------------------------------------------------------------------------
(* Requests: what they check, then their statements                        *)

Do(op, arg) == [op |-> op, arg |-> arg]
SetSeq(S) == CHOOSE s \in [1..Cardinality(S) -> S] : \A x \in S : \E i \in DOMAIN s : s[i] = x
Each(op, role, entries) ==
  LET order == SetSeq(DOMAIN entries)
  IN [i \in 1..Len(order) |-> Do(op, [role |-> role, flag |-> order[i], entry |-> entries[order[i]]])]

Free == {r \in Requests : req[r] = Idle /\ edits < Edits}
Begin(r, u, about, todo) ==
  /\ r \in Free
  /\ edits' = edits + 1
  /\ req' = [req EXCEPT ![r] = [by |-> u, rank |-> Rank(u), about |-> about,
                                todo |-> todo, unchecked |-> {}]]
  /\ blurred' = IF about # None /\ \E q \in Requests : req[q].about = about
                THEN blurred \cup {about} ELSE blurred
  /\ UNCHANGED <<perms, granted, isAdmin, deposed>>

\* create_role: nobody gives a new role what he does not hold himself.
CreateRole(r, u, b) ==
  /\ Create \in Holds(u)
  /\ \A f \in DOMAIN b.flags : b.flags[f] = "1" => f \in Holds(u) /\ (f \in Sensitive => Delicate(u))
  /\ Begin(r, u, None, <<Do("role", [role |-> b.id,
                            entries |-> [f \in DOMAIN b.flags |-> Entry(b.flags[f])]])>>)

DeleteRole(r, u, role) ==
  /\ Manage \in Holds(u)
  /\ role \in Roles \ System
  /\ Begin(r, u, None, <<Do("delete", role)>>)

\* update_role_permissions: a locked flag is left to those it is locked for,
\* and nobody locks a flag above himself.
Bars(entry, rank) == entry.on /\ entry.tier # None /\ rank > entry.tier
UpdatePermissions(r, u, role, b) ==
  /\ Manage \in Holds(u)
  /\ role \in Roles
  /\ \A f \in DOMAIN b :
       /\ f \in DOMAIN perms[role] => ~Bars(perms[role][f], Rank(u))
       /\ b[f].on /\ b[f].tier # None => b[f].tier >= Rank(u)
       /\ f \in Sensitive /\ b[f].value = "1" => Delicate(u)
  /\ Begin(r, u, None, Each("upsert", role, b))

\* update_sharing_flags: the value, whatever the lock.
UpdateSharing(r, u, role, f, v) ==
  /\ Sharing \in Holds(u) /\ IsAdmin(u)
  /\ role \in Roles
  /\ Begin(r, u, None, Each("share", role, [x \in {f} |-> Entry(v)]))

\* _import_roles: with replace, custom roles that the export has not are
\* deleted first, unless it has none at all.
ImportRoles(r, u, b, replace) ==
  LET gone == SetSeq(IF replace /\ DOMAIN b # {} THEN (Roles \ System) \ DOMAIN b ELSE {})
      order == SetSeq(DOMAIN b) IN
  /\ Root \in granted[u]
  /\ Begin(r, u, None,
       [i \in 1..Len(gone) |-> Do("delete", gone[i])]
       \o [i \in 1..Len(order) |-> Do("put", [role |-> order[i], entries |-> b[order[i]]])])

\* add_role_to_user and remove_role_from_user, without a scope.
Below(u, role) == role \in DOMAIN Tier => Tier[role] >= Rank(u)
Grant(r, u, v, role) ==
  /\ IsAdmin(u) /\ Manage \in Holds(u)
  /\ role \in Roles /\ Below(u, role)
  /\ Begin(r, u, v, <<Do("grant", role)>>
                    \o IF role \in AdminRoles THEN <<Do("admin", TRUE)>> ELSE <<>>)

Own_Any(u, v, role) == FALSE
Own(u, v, role) == u = v /\ role \in AdminRoles
Revoke(r, u, v, role) ==
  /\ IsAdmin(u) /\ Manage \in Holds(u)
  /\ ~Own(u, v, role) /\ Below(u, role)
  /\ Begin(r, u, v, <<Do("revoke", role)>>
                    \o IF role \in AdminRoles THEN <<Do("look", None), Do("admin", FALSE)>> ELSE <<>>)

-----------------------------------------------------------------------------
(* Statements                                                              *)

At(r, op) == req[r].todo # <<>> /\ Head(req[r].todo).op = op
Arg(r) == Head(req[r].todo).arg
Left(r, todo) == IF todo = <<>> THEN Idle ELSE [req[r] EXCEPT !.todo = todo]
Rest(r) == Left(r, Tail(req[r].todo))
\* Flags whose lock changes under requests that have been checked.
Then(r, mine, touched) ==
  req' = [q \in Requests |->
            IF q = r THEN mine
            ELSE IF req[q] = Idle THEN Idle
            ELSE [req[q] EXCEPT !.unchecked = @ \cup touched]]

\* A role that exists already makes POST /roles fail, and not an import.  Its
\* flags follow.
PutRole(r) ==
  LET role == Arg(r).role
      flags == Each(IF At(r, "role") THEN "flag" ELSE "upsert", role, Arg(r).entries)
      fails == At(r, "role") /\ role \in Roles IN
  /\ At(r, "role") \/ At(r, "put")
  /\ perms' = [s \in Roles \cup {role} |-> IF s \in Roles THEN perms[s] ELSE <<>>]
  /\ Then(r, IF fails THEN Idle ELSE Left(r, flags \o Tail(req[r].todo)), {})
  /\ UNCHANGED <<granted, isAdmin, edits, history>>

With(flags, flag, entry) ==
  [f \in DOMAIN flags \cup {flag} |-> IF f = flag THEN entry ELSE flags[f]]

\* The flag of a role that is gone, or an INSERT of one that is there, fails.
PutFlag(r) ==
  LET role == Arg(r).role
      flag == Arg(r).flag
      entry == IF At(r, "share") /\ flag \in DOMAIN perms[role]
               THEN [perms[role][flag] EXCEPT !.value = Arg(r).entry.value] ELSE Arg(r).entry
      fails == role \notin Roles \/ (At(r, "flag") /\ flag \in DOMAIN perms[role]) IN
  /\ At(r, "flag") \/ At(r, "upsert") \/ At(r, "share")
  /\ perms' = IF fails THEN perms ELSE [perms EXCEPT ![role] = With(@, flag, entry)]
  /\ Then(r, IF fails THEN Idle ELSE Rest(r), IF fails THEN {} ELSE {<<role, flag>>})
  /\ UNCHANGED <<granted, isAdmin, edits, history>>

\* The role's flags and grants go with it.
Delete(r) ==
  LET role == Arg(r) IN
  /\ At(r, "delete")
  /\ perms' = [s \in Roles \ {role} |-> perms[s]]
  /\ granted' = [u \in Users |-> granted[u] \ {role}]
  /\ Then(r, Rest(r), {role} \X Flags)
  /\ UNCHANGED <<isAdmin, edits, history>>

GrantWrite(r) ==
  LET u == req[r].about IN
  /\ At(r, "grant")
  /\ granted' = IF Arg(r) \in Roles THEN [granted EXCEPT ![u] = @ \cup {Arg(r)}] ELSE granted
  /\ Then(r, IF Arg(r) \in Roles THEN Rest(r) ELSE Idle, {})
  /\ UNCHANGED <<perms, isAdmin, edits, history>>

RevokeWrite(r) ==
  LET u == req[r].about IN
  /\ At(r, "revoke")
  /\ granted' = [granted EXCEPT ![u] = @ \ {Arg(r)}]
  /\ Then(r, IF Arg(r) \in granted[u] THEN Rest(r) ELSE Idle, {})
  /\ deposed' = (deposed \/ (Arg(r) = Root /\ Root \notin granted[req[r].by]))
  /\ UNCHANGED <<perms, isAdmin, edits, blurred>>

\* Whether the user has another admin role.
Another(u) == IsAdmin(u)
LookAdmin(r) ==
  /\ At(r, "look")
  /\ Then(r, IF Another(req[r].about) THEN Idle ELSE Rest(r), {})
  /\ UNCHANGED <<perms, granted, isAdmin, edits, history>>

SetAdmin(r) ==
  /\ At(r, "admin")
  /\ isAdmin' = [isAdmin EXCEPT ![req[r].about] = Arg(r)]
  /\ Then(r, Rest(r), {})
  /\ UNCHANGED <<perms, granted, edits, history>>

\* A request is cut off between two statements.
Cut(r) ==
  /\ req[r] # Idle
  /\ Then(r, Idle, {})
  /\ blurred' = blurred \cup ({req[r].about} \cap Users)
  /\ UNCHANGED <<perms, granted, isAdmin, edits, deposed>>

Next ==
  \/ \E r \in Free, u \in Users :
       \/ \E b \in NewRoles : CreateRole(r, u, b)
       \/ \E b \in Exports, replace \in BOOLEAN : ImportRoles(r, u, b, replace)
       \/ \E role \in Roles :
            \/ DeleteRole(r, u, role)
            \/ \E b \in Permissions : UpdatePermissions(r, u, role, b)
            \/ \E v \in {"0", "1"} : UpdateSharing(r, u, role, Sharing, v)
            \/ \E v \in Users : Grant(r, u, v, role) \/ Revoke(r, u, v, role)
  \/ \E r \in Requests \ Free :
       \/ PutRole(r) \/ PutFlag(r) \/ Delete(r) \/ GrantWrite(r) \/ RevokeWrite(r)
       \/ LookAdmin(r) \/ SetAdmin(r) \/ Cut(r)

Spec == Init /\ [][Next]_vars

-----------------------------------------------------------------------------
(* Properties                                                              *)

\* Somebody has the role of tier 1, unless one who had lost it meanwhile took
\* it from another; and users.is_admin says who has an admin role, once the
\* requests about him are over, unless two overlapped or one was cut off.
AdminsRemain ==
  /\ ~deposed => \E u \in Users : Root \in granted[u]
  /\ \A u \in Users \ blurred :
       (\A r \in Requests : req[r].about # u) => isAdmin[u] = IsAdmin(u)

\* A flag that is locked above the tier a request acts with keeps its value and
\* its lock in every statement of the request, of whatever page, unless the
\* flag was written after the request had been checked; "only admins with
\* role_tier <= locked_min_tier may modify that flag's value or lock state"
\* (routes/admin_roles.py:13-14).  Two pages look at no lock: that of the
\* sharing capabilities writes the value and must leave the lock, and a role
\* that is deleted takes its flags along.  No lock is above tier 1.
Kept(role, f) == role \in DOMAIN perms' /\ f \in DOMAIN perms'[role]
Obeys(r) ==
  req'[r].todo # req[r].todo =>
    \A role \in Roles : \A f \in DOMAIN perms[role] :
      LET old == perms[role][f] IN
      req[r].rank # 1 /\ Bars(old, req[r].rank) /\ <<role, f>> \notin req[r].unchecked =>
        \/ Kept(role, f) /\ perms'[role][f] = old
        \/ /\ At(r, "share") /\ Kept(role, f)
           /\ perms'[role][f] = [old EXCEPT !.value = perms'[role][f].value]
        \/ At(r, "delete") /\ Arg(r) = role
FlagLocksHold == [][\A r \in Requests : Obeys(r)]_vars

TypeOK ==
  /\ System \subseteq Roles /\ Roles \subseteq System \cup Custom
  /\ \A u \in Users : granted[u] \subseteq Roles
  /\ isAdmin \in [Users -> BOOLEAN] /\ blurred \subseteq Users
  /\ edits \in 0..Edits /\ deposed \in BOOLEAN
=============================================================================
