---------------------------- MODULE FolderAccess ----------------------------
(***************************************************************************)
(* The grants on the folder tree and the ways the server decides who reads *)
(* in a folder: the full permission chain, the team membership walk, the   *)
(* walk for explicit permissions, and the trees that the search and the    *)
(* manifest grow downwards (routes/_access.py, routes/folders.py,          *)
(* routes/files.py, routes/teams.py).  The grants are those of one user,   *)
(* who owns none of the folders and holds a key slot of one team.  Each    *)
(* request is one step here; FolderTree has their statements one by one.   *)
(***************************************************************************)
EXTENDS Naturals, FiniteSets

CONSTANTS
  Folders,    \* folder ids
  NoFolder,   \* parent_id NULL
  MaxChanges  \* bound on the changes to grants, boundaries and team folders

ConstantsOK ==
  /\ NoFolder \notin Folders
  /\ MaxChanges \in Nat

VARIABLES
  state,    \* folders row: "none", "live" or "trash"
  parent,   \* folders.parent_id
  closed,   \* folders with restrict_permissions
  grant,    \* the user's permissions row, recursive or not, that allows or denies
  role,     \* a resource_role_grants row for a role the user holds
  team,     \* team_folders: "none", the user's team "mine", or "other"
  mute,     \* his role in the team has level 'none', or he has a slot and no role
  keyed,    \* his slot of the team is confirmed
  changes   \* how many of MaxChanges were made

acl  == <<closed, grant, role, team>>
seat == <<mute, keyed>>
vars == <<state, parent, acl, seat, changes>>

Allows == {"once", "deep"}
Denies == {"denyOnce", "denyDeep"}
Deep   == {"deep", "denyDeep"}

Init ==
  /\ state = [f \in Folders |-> "none"]
  /\ parent = [f \in Folders |-> NoFolder]
  /\ closed = {}
  /\ grant = [f \in Folders |-> "none"]
  /\ role = [f \in Folders |-> "none"]
  /\ team = [f \in Folders |-> "none"]
  /\ mute = FALSE /\ keyed = TRUE
  /\ changes = 0

Rows  == {f \in Folders : state[f] # "none"}
Depth == Cardinality(Folders)

\* The folders a walk up from f visits, at most one for each there is.
Above(f) ==
  LET up[n \in 0..Depth] ==
        IF n = 0 THEN {f}
        ELSE LET below == up[n - 1] IN
             below \cup {parent[g] : g \in below \ {NoFolder}}
  IN  up[Depth] \ {NoFolder}

Subtree(f) == {g \in Rows : f \in Above(g)}

-----------------------------------------------------------------------------
(* Folders                                                                 *)

\* copy_folder_permissions: only recursive rows are copied, deny rows too.
Copied(p) == IF p # NoFolder /\ grant[p] \in Deep THEN grant[p] ELSE "none"

Create(f, p) ==
  /\ state[f] = "none"
  /\ p = NoFolder \/ p \in Rows
  /\ state' = [state EXCEPT ![f] = "live"]
  /\ parent' = [parent EXCEPT ![f] = p]
  /\ grant' = [grant EXCEPT ![f] = Copied(p)]
  /\ UNCHANGED <<closed, role, team, seat, changes>>

\* A recursive row of the moved folder goes and the new parent's is copied;
\* a row that is not recursive stays and wins over the copy.
Move(f, p) ==
  /\ f \in Rows
  /\ IF p = NoFolder THEN parent[f] # NoFolder
     ELSE p \in Rows /\ f \notin Above(p)
  /\ parent' = [parent EXCEPT ![f] = p]
  /\ grant' = [grant EXCEPT ![f] =
       IF @ \in {"once", "denyOnce"} THEN @ ELSE Copied(p)]
  /\ UNCHANGED <<state, closed, role, team, seat, changes>>

Trash(f) ==
  /\ state[f] = "live"
  /\ state' = [g \in Folders |-> IF g \in Subtree(f) THEN "trash" ELSE state[g]]
  /\ UNCHANGED <<parent, acl, seat, changes>>

\* Under a parent in the trash, to the root; rows are not copied again.
Restore(f) ==
  /\ state[f] = "trash"
  /\ state' = [g \in Folders |-> IF g \in Subtree(f) THEN "live" ELSE state[g]]
  /\ parent' = [parent EXCEPT ![f] =
       IF @ # NoFolder /\ state[@] = "trash" THEN NoFolder ELSE @]
  /\ UNCHANGED <<acl, seat, changes>>

\* hard_delete_folder_tree and its cascades.
HardDelete(f) ==
  /\ f \in Rows
  /\ LET gone == Subtree(f)
         Without(a) == [g \in Folders |-> IF g \in gone THEN "none" ELSE a[g]] IN
     /\ state' = Without(state)
     /\ parent' = [g \in Folders |-> IF g \in gone THEN NoFolder ELSE parent[g]]
     /\ closed' = closed \ gone
     /\ grant' = Without(grant)
     /\ role' = Without(role)
     /\ team' = Without(team)
  /\ UNCHANGED <<seat, changes>>

-----------------------------------------------------------------------------
(* Grants, boundaries and team folders                                     *)

Change ==
  /\ changes < MaxChanges
  /\ changes' = changes + 1
  /\ UNCHANGED <<state, parent>>

\* add_folder_grant: the unique index refuses a second row.  The schema and
\* the permission chain know rows that deny, though no route writes one: such
\* a row was put into the table from outside.
Grant(f, kind) ==
  /\ Change
  /\ state[f] = "live" /\ grant[f] = "none"
  /\ grant' = [grant EXCEPT ![f] = kind]
  /\ UNCHANGED <<closed, role, team, seat>>

Revoke(f) ==
  /\ Change
  /\ state[f] = "live" /\ grant[f] # "none"
  /\ grant' = [grant EXCEPT ![f] = "none"]
  /\ UNCHANGED <<closed, role, team, seat>>

GrantRole(f, kind) ==
  /\ Change
  /\ state[f] = "live" /\ role[f] = "none"
  /\ role' = [role EXCEPT ![f] = kind]
  /\ UNCHANGED <<closed, grant, team, seat>>

RevokeRole(f) ==
  /\ Change
  /\ state[f] = "live" /\ role[f] # "none"
  /\ role' = [role EXCEPT ![f] = "none"]
  /\ UNCHANGED <<closed, grant, team, seat>>

\* update_folder with restrict_permissions alone.
Restrict(f) ==
  /\ Change
  /\ f \in Rows
  /\ closed' = IF f \in closed THEN closed \ {f} ELSE closed \cup {f}
  /\ UNCHANGED <<grant, role, team, seat>>

\* add_team_folder takes any folder of the caller's, at the root or not.
AddTeamFolder(f, t) ==
  /\ Change
  /\ f \in Rows /\ team[f] = "none"
  /\ team' = [team EXCEPT ![f] = t]
  /\ UNCHANGED <<closed, grant, role, seat>>

RemoveTeamFolder(f) ==
  /\ Change
  /\ team[f] # "none"
  /\ team' = [team EXCEPT ![f] = "none"]
  /\ UNCHANGED <<closed, grant, role, seat>>

\* set_team_folder_role_levels, or a policy that takes the role and leaves the slot.
SetLevel ==
  /\ Change
  /\ mute' = ~mute
  /\ UNCHANGED <<acl, keyed>>

\* A rotation hands out slots to be confirmed, and their owner confirms them.
TurnKey ==
  /\ Change
  /\ keyed' = ~keyed
  /\ UNCHANGED <<acl, mute>>

Next ==
  \/ \E f \in Folders, p \in Folders \cup {NoFolder} : Create(f, p) \/ Move(f, p)
  \/ \E f \in Folders :
       \/ Trash(f) \/ Restore(f) \/ HardDelete(f)
       \/ Revoke(f) \/ RevokeRole(f) \/ Restrict(f) \/ RemoveTeamFolder(f)
  \/ \E f \in Folders, kind \in Allows \cup Denies : Grant(f, kind)
  \/ \E f \in Folders, kind \in Allows : GrantRole(f, kind)
  \/ \E f \in Folders, t \in {"mine", "other"} : AddTeamFolder(f, t)
  \/ SetLevel \/ TurnKey

Spec == Init /\ [][Next]_vars

-----------------------------------------------------------------------------
(* Who reads in a folder                                                   *)

\* A row counts in its own folder, and below it when it is recursive.
Applies(row, exact) == row \in Deep \/ (row # "none" /\ exact)

\* A walk goes on to the parent unless the folder is a boundary.
Climbs_Past(f) == TRUE
Climbs(f) == f \notin closed

\* A slot alone gives nothing: the role's level has to let him read.
Reads(f) == team[f] = "mine" /\ ~mute

Refuses(f, g) == grant[g] \in Denies /\ Applies(grant[g], g = f)

\* What the walk from f takes for a yes at g.
Grants(f, g) ==
  /\ ~Refuses(f, g)
  /\ \/ Applies(grant[g], g = f)
     \/ Applies(role[g], g = f)
     \/ Reads(g)

\* check_data_permission for a file in f: the row of the folder, which may
\* end the walk with a no, those of the user's roles and of the team, then
\* the next folder up.
MayRead(f) ==
  LET walk[n \in 0..Depth] ==
        [g \in Folders \cup {NoFolder} |->
          /\ n > 0 /\ g # NoFolder
          /\ \/ Grants(f, g)
             \/ ~Refuses(f, g) /\ Climbs(g) /\ walk[n - 1][parent[g]]]
  IN  walk[Depth][f]

\* is_team_folder_member: the nearest team folder decides.
TeamMember(f) ==
  LET walk[n \in 0..Depth] ==
        [g \in Folders \cup {NoFolder} |->
          /\ n > 0 /\ g # NoFolder
          /\ IF team[g] # "none" THEN Reads(g)
             ELSE Climbs(g) /\ walk[n - 1][parent[g]]]
  IN  walk[Depth][f]

\* has_folder_permission does not look at what the row says.
HasPermission(f) ==
  LET walk[n \in 0..Depth] ==
        [g \in Folders \cup {NoFolder} |->
          /\ n > 0 /\ g # NoFolder
          /\ \/ Applies(grant[g], g = f)
             \/ Climbs(g) /\ walk[n - 1][parent[g]]]
  IN  walk[Depth][f]

\* The folders team_tree and perm_tree step down into.
Opens(f) == f \notin closed /\ state[f] = "live"

Grow(S) ==
  LET down[n \in 0..Depth] ==
        IF n = 0 THEN S
        ELSE LET above == down[n - 1] IN
             above \cup {f \in Rows : parent[f] \in above /\ Opens(f)}
  IN  down[Depth]

\* search_files and the manifest list the files of these folders: perm_tree
\* takes any row, team_tree a confirmed slot whatever the role's level.
ListedByRow ==
  LET perm == {f \in Rows : grant[f] # "none"} IN
  perm \cup Grow({f \in perm : grant[f] \in Deep})

ListedByTeam == IF keyed THEN Grow({f \in Rows : team[f] = "mine"}) ELSE {}

-----------------------------------------------------------------------------
(* Properties                                                              *)

TypeOK ==
  /\ state \in [Folders -> {"none", "live", "trash"}]
  /\ parent \in [Folders -> Folders \cup {NoFolder}]
  /\ closed \subseteq Folders
  /\ grant \in [Folders -> {"none"} \cup Allows \cup Denies]
  /\ role \in [Folders -> {"none"} \cup Allows]
  /\ team \in [Folders -> {"none", "mine", "other"}]
  /\ {mute, keyed} \subseteq BOOLEAN
  /\ changes \in 0..MaxChanges

\* The deny rows that count for f, at it or above it.
DenyRows(f) == {g \in Above(f) : Refuses(f, g)}

\* Five pieces of code decide who reads in a folder, three walking up and two
\* growing down.  A folder that the team walk accepts or the explicit
\* permissions cover, or whose files the search and the manifest list, is one
\* that the full permission chain, which guards the file itself, lets the
\* user read, with these exceptions and no others: only the chain honours a
\* deny row, and the trees of the team take no notice of the level of his role.
ListedMayRead ==
  \A f \in Rows : DenyRows(f) = {} =>
    /\ TeamMember(f) \/ HasPermission(f) \/ f \in ListedByRow => MayRead(f)
    /\ f \in ListedByTeam => MayRead(f) \/ mute

\* The chain is what its rules promise: the user may read in a folder exactly
\* when the folder itself or one above it grants, every boundary on the way
\* is at or above the folder that grants, and every deny row that counts is
\* above it.
ReadIsGranted ==
  \A f \in Rows : MayRead(f) <=>
    \E g \in Above(f) :
      /\ Grants(f, g)
      /\ \A b \in closed \cap Above(f) : b \in Above(g)
      /\ \A d \in DenyRows(f) : d \in Above(g) \ {g}
=============================================================================
