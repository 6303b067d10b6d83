----------------------------- MODULE FolderTree -----------------------------
(***************************************************************************)
(* The folder tree and its denormalised root pointers (routes/folders.py,  *)
(* routes/trash.py, services/folder_cleanup.py).  Creating, moving and     *)
(* restoring a folder first read and then write in statements of their     *)
(* own, and nothing keeps two such requests apart: what one has read may   *)
(* be stale when it writes.  Deleting is one transaction.  FolderAccess    *)
(* has the grants.                                                         *)
(***************************************************************************)
EXTENDS Naturals, FiniteSets

CONSTANTS
  Folders,   \* folder ids
  Requests,  \* handlers of create, move and restore under way at once
  NoFolder,  \* parent_id NULL
  MaxChanges \* bound on the moves, restores, trashings and deletions

ConstantsOK == IsFiniteSet(Folders) /\ NoFolder \notin Folders

VARIABLES
  state,   \* folders row: "none", "live" or "trash" (deleted_at)
  parent,  \* folders.parent_id
  root,    \* folders.root_folder_id
  task,    \* requests under way; late (history): another has moved, since what this
           \* one goes by was read, its folder or one above its destination
  adrift,  \* history: folders restored to the root with their old root_folder_id
  torn,    \* history: folders whose move was cut short
  crossed, \* history: folders that a late request wrote
  changes  \* how many of MaxChanges there have been

tree == <<state, parent, root>>
history == <<adrift, torn, crossed>>
vars == <<tree, task, history, changes>>

Idle == [pc |-> "idle", folder |-> NoFolder, dest |-> NoFolder,
         root |-> NoFolder, late |-> FALSE]

Init ==
  /\ state = [f \in Folders |-> "none"]
  /\ parent = [f \in Folders |-> NoFolder]
  /\ root = [f \in Folders |-> NoFolder]
  /\ task = [r \in Requests |-> Idle]
  /\ adrift = {} /\ torn = {} /\ crossed = {} /\ changes = 0

Rows == {f \in Folders : state[f] # "none"}

\* f, its parent, the parent of that: the folders a walk up from f visits,
\* at most one for each folder there is.
Above(f) ==
  LET up[n \in 0..Cardinality(Folders)] ==
        IF n = 0 THEN {f}
        ELSE LET below == up[n - 1] IN
             below \cup {parent[g] : g \in below \ {NoFolder}}
  IN  up[Cardinality(Folders)] \ {NoFolder}

\* WITH RECURSIVE subtree
Subtree(f) == {g \in Rows : f \in Above(g)}

Top(f) == CHOOSE g \in Above(f) : parent[g] = NoFolder

\* WITH RECURSIVE ... UNION ALL from a folder on a cycle has no end.
OnCycle(f) == parent[f] # NoFolder /\ f \in Above(parent[f])

Change == changes < MaxChanges /\ changes' = changes + 1

\* Request r goes on as t.
Becomes(r, t) == task' = [task EXCEPT ![r] = t]

\* Request r goes on as t, and has given f another parent or root.
Crosses(r, t, f) ==
  task' = [q \in Requests |->
    IF q = r THEN t
    ELSE [task[q] EXCEPT !.late = @ \/ /\ task[q] # Idle
                                       /\ f = task[q].folder \/ f \in Above(task[q].dest)]]

-----------------------------------------------------------------------------
(* Create, move and restore                                                *)

\* create_folder reads the parent, in the trash or not; the id is new.
CreateRead(r, f, p) ==
  /\ task[r] = Idle
  /\ state[f] = "none"
  /\ \A q \in Requests : f \notin {task[q].folder, task[q].dest, task[q].root}
  /\ p = NoFolder \/ p \in Rows
  /\ Becomes(r, [Idle EXCEPT !.pc = "insert", !.folder = f, !.dest = p,
                             !.root = IF p = NoFolder THEN f ELSE root[p]])
  /\ UNCHANGED <<tree, history, changes>>

\* The foreign keys of parent_id and root_folder_id.
Insert(r) ==
  LET t == task[r] IN
  /\ t.pc = "insert"
  /\ IF {t.dest, t.root} \subseteq Rows \cup {NoFolder, t.folder}
     THEN /\ state' = [state EXCEPT ![t.folder] = "live"]
          /\ parent' = [parent EXCEPT ![t.folder] = t.dest]
          /\ root' = [root EXCEPT ![t.folder] = t.root]
          /\ crossed' = IF t.late THEN crossed \cup {t.folder} ELSE crossed
     ELSE UNCHANGED <<tree, crossed>>
  /\ Becomes(r, Idle)
  /\ UNCHANGED <<adrift, torn, changes>>

\* _check_no_ancestor_cycle
Descends_Self(dest, f) == dest = f
Descends(dest, f) == dest # NoFolder /\ f \in Above(dest)

\* update_folder reads the folder, looks through what is live below it for
\* restricted folders, and walks up from the destination.
MoveRead(r, f, dest) ==
  /\ Change
  /\ task[r] = Idle
  /\ f \in Rows
  /\ OnCycle(f) => \E g \in Above(f) : state[g] # "live"
  /\ IF dest = NoFolder THEN parent[f] # NoFolder ELSE dest \in Rows
  /\ ~Descends(dest, f)
  /\ Becomes(r, [Idle EXCEPT !.pc = "parent", !.folder = f, !.dest = dest])
  /\ UNCHANGED <<tree, history>>

\* UPDATE folders SET parent_id, which the foreign key may refuse.
MoveParent(r) ==
  LET t == task[r] IN
  /\ t.pc = "parent"
  /\ IF t.folder \in Rows /\ t.dest \in Rows \cup {NoFolder}
     THEN /\ parent' = [parent EXCEPT ![t.folder] = t.dest]
          /\ crossed' = IF t.late THEN crossed \cup {t.folder}
                                  ELSE crossed \ {t.folder}
          /\ Crosses(r, [t EXCEPT !.pc = "look", !.late = FALSE], t.folder)
     ELSE /\ Becomes(r, Idle)
          /\ UNCHANGED <<parent, crossed>>
  /\ UNCHANGED <<state, root, adrift, torn, changes>>

\* The root the destination has now.
MoveLook(r) ==
  LET t == task[r]
      new == IF t.dest = NoFolder THEN t.folder
             ELSE IF t.dest \in Rows THEN root[t.dest] ELSE t.dest IN
  /\ t.pc = "look"
  /\ Becomes(r, [t EXCEPT !.pc = "root", !.root = new])
  /\ UNCHANGED <<tree, history, changes>>

\* The folders of the root cascade.
Cascade(f) == Subtree(f)

\* The cascade, which the foreign key may refuse.
MoveRoot(r) ==
  LET t == task[r]
      moved == Subtree(t.folder) IN
  /\ t.pc = "root"
  /\ ~OnCycle(t.folder)
  /\ IF moved = {} \/ t.root \in Rows
     THEN /\ root' = [g \in Folders |-> IF g \in Cascade(t.folder)
                                        THEN t.root ELSE root[g]]
          /\ adrift' = IF t.late THEN adrift ELSE adrift \ moved
          /\ torn' = IF t.late THEN torn ELSE torn \ moved
          /\ crossed' = IF t.late THEN crossed \cup ({t.folder} \cap Rows)
                                  ELSE crossed \ moved
          /\ Crosses(r, Idle, t.folder)
     ELSE /\ torn' = torn \cup {t.folder}
          /\ Becomes(r, Idle)
          /\ UNCHANGED <<root, adrift, crossed>>
  /\ UNCHANGED <<state, parent, changes>>

\* A folder whose parent is gone or in the trash is restored to the root.
RestoreRead(r, f) ==
  /\ Change
  /\ task[r] = Idle
  /\ state[f] = "trash"
  /\ LET dest == IF parent[f] # NoFolder /\ state[parent[f]] = "live"
                 THEN parent[f] ELSE NoFolder IN
     Becomes(r, [Idle EXCEPT !.pc = "restore", !.folder = f, !.dest = dest,
                             !.root = parent[f]])
  /\ UNCHANGED <<tree, history>>

\* The whole subtree leaves the trash; root_folder_id stays what it was.
Restore(r) ==
  LET t == task[r]
      moves == t.dest # t.root /\ t.folder \in Rows IN
  /\ t.pc = "restore"
  /\ ~OnCycle(t.folder)
  /\ state' = [g \in Folders |-> IF g \in Subtree(t.folder)
                                 THEN "live" ELSE state[g]]
  /\ IF moves THEN /\ parent' = [parent EXCEPT ![t.folder] = t.dest]
                   /\ adrift' = adrift \cup {t.folder}
                   /\ Crosses(r, Idle, t.folder)
              ELSE /\ Becomes(r, Idle)
                   /\ UNCHANGED <<parent, adrift>>
  /\ UNCHANGED <<root, torn, crossed, changes>>

\* A move keeps the statements it has run: the server stops, ...
Cut(S) ==
  /\ task' = [r \in Requests |-> IF r \in S THEN Idle ELSE task[r]]
  /\ torn' = torn \cup {task[r].folder : r \in {q \in S :
                task[q].pc \in {"look", "root"} /\ task[q].folder \in Rows}}
  /\ UNCHANGED <<tree, adrift, crossed, changes>>
Crash ==
  /\ \E r \in Requests : task[r] # Idle
  /\ Cut(Requests)

\* ... or the query for its subtree runs until the database gives it up.
Endless(r) ==
  /\ task[r].pc \in {"root", "restore"}
  /\ OnCycle(task[r].folder)
  /\ Cut({r})

-----------------------------------------------------------------------------
(* Trash and deletion                                                      *)

\* delete_folder with the trash on: the whole subtree, whatever it was.
Trash(f) ==
  /\ Change
  /\ state[f] = "live" /\ ~OnCycle(f)
  /\ state' = [g \in Folders |-> IF g \in Subtree(f) THEN "trash" ELSE state[g]]
  /\ UNCHANGED <<parent, root, task, history>>

\* A folder outside the subtree may hold the root pointer of one inside,
\* and then the DELETE fails and the transaction rolls back.
Held(f) == \E g \in Rows \ Subtree(f) : root[g] \in Subtree(f)

\* hard_delete_folder_tree, from the trash or with the trash off.
HardDelete(f) ==
  /\ Change
  /\ f \in Rows /\ ~OnCycle(f) /\ ~Held(f)
  /\ LET gone == Subtree(f) IN
         /\ state' = [g \in Folders |-> IF g \in gone THEN "none" ELSE state[g]]
         /\ parent' = [g \in Folders |-> IF g \in gone THEN NoFolder ELSE parent[g]]
         /\ root' = [g \in Folders |-> IF g \in gone THEN NoFolder ELSE root[g]]
         /\ adrift' = adrift \ gone /\ torn' = torn \ gone
         /\ crossed' = crossed \ gone
  /\ UNCHANGED task

Next ==
  \/ \E r \in Requests, f \in Folders, p \in Folders \cup {NoFolder} :
       CreateRead(r, f, p) \/ MoveRead(r, f, p)
  \/ \E r \in Requests, f \in Folders : RestoreRead(r, f)
  \/ \E r \in Requests :
       \/ Insert(r) \/ Restore(r) \/ Endless(r)
       \/ MoveParent(r) \/ MoveLook(r) \/ MoveRoot(r)
  \/ Crash
  \/ \E f \in Folders : Trash(f) \/ HardDelete(f)

Spec == Init /\ [][Next]_vars

-----------------------------------------------------------------------------
(* Properties                                                              *)

TypeOK ==
  /\ state \in [Folders -> {"none", "live", "trash"}]
  /\ parent \in [Folders -> Folders \cup {NoFolder}]
  /\ root \in [Folders -> Folders \cup {NoFolder}]
  /\ task \in [Requests ->
       [pc : {"idle", "insert", "parent", "look", "root", "restore"},
        folder : Folders \cup {NoFolder}, dest : Folders \cup {NoFolder},
        root : Folders \cup {NoFolder}, late : BOOLEAN]]
  /\ adrift \subseteq Folders /\ torn \subseteq Folders
  /\ crossed \subseteq Folders /\ changes \in Nat

\* Every walk up ends at a root, or meets a folder whose own move was late:
\* two moves can make a cycle only where one moved a folder above the
\* other's destination between that one's check and its UPDATE.  Whatever
\* else is created, moved, restored or deleted, before or after, closes none,
\* and a folder that is moved again in time heals what it had done.
NoCycle ==
  \A f \in Rows : \E g \in Above(f) : parent[g] = NoFolder \/ g \in crossed

\* Every folder points to the top of its tree, which is what team lookup
\* and deletion rely on, except at and below a folder that was restored to
\* the root, whose move was cut short, or that a late request wrote, and
\* while a move is under way.
RootsKept ==
  \A f \in Rows :
    \/ Above(f) \cap (adrift \cup torn \cup crossed) # {}
    \/ \E r \in Requests :
         task[r].pc \in {"look", "root"} /\ task[r].folder \in Above(f)
    \/ root[f] = Top(f)

\* "root folders have root_folder_id = id; children inherit the parent's
\* value.  Maintained on INSERT and on parent_id changes" (schema.sql),
\* between requests, and but for what a crash cut short.
RootsAgree ==
  (\A r \in Requests : task[r] = Idle) =>
    \A f \in Rows : Above(f) \cap torn = {} => root[f] = Top(f)
=============================================================================
