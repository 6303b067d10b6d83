----------------------------- MODULE ShareKeying -----------------------------
(***************************************************************************)
(* What a link share of a folder offers, and which of its files still wait *)
(* for a key: share_items, share_exclusions and pending_share_keying, from *)
(* the creation of the share to its end, and the visitors who are shown    *)
(* its files and fetch them, statement by statement.  routes/shares.py,    *)
(* and the places of uploads.py, services/trash.py and maintenance.py that *)
(* touch these rows.  One share; its token, password, recipient, limits    *)
(* and settings are left out (ShareAccess has the limits).                 *)
(*                                                                         *)
(* Only the creation of a share, the end of an upload and the purge of a   *)
(* file are transactions.  Every other statement commits by itself.        *)
(***************************************************************************)
EXTENDS FiniteSets, Naturals

CONSTANTS
  Folders,  \* the shared folder and its subfolders
  Target,   \* shares.target_folder_id
  Files,
  Home,     \* the folder of a file
  V1,       \* files with key_version 'v1-master'; the others are 'v2-folder'
  Foreign,  \* files of others than the share's creator
  Clients,  \* sessions that post items
  Visitors, \* who open the link
  Changes   \* bound: changes by managers, owners and the daily sweep

ConstantsOK ==
  /\ Target \in Folders
  /\ Home \in [Files -> Folders]
  /\ V1 \subseteq Files /\ Foreign \subseteq Files
  /\ Folders \cap Files = {}
  /\ Changes \in Nat

VARIABLES
  share,    \* "none", "creating", "live", "off" (inactive or expired), "gone"
  plan,     \* what the creating transaction has written
  items,    \* share_items, of files and of folders
  excluded, \* share_exclusions
  pending,  \* pending_share_keying
  file,     \* "uploading", "complete", "trashed" or "gone"
  client,   \* a POST of items under way
  due,      \* ghost: files some request has flagged as waiting for a key
  dropped,  \* ghost: files a manager took out, or whose row was swept
  barred,   \* files of others that the share's creator may not read now
  reader,   \* a visitor: the files shown, and the request under way
  spoilt,   \* ghost: files a visitor may be refused since the link was opened
  left

rows == <<items, excluded, pending>>
visits == <<barred, reader, spoilt>>
vars == <<share, plan, rows, file, client, due, dropped, visits, left>>

NoPlan == [items |-> {}, pending |-> {}]
Resting == [pc |-> "idle", files |-> {}, todo |-> {}]
Away == [pc |-> "away", shown |-> {}, goal |-> {}, todo |-> {}]
Exists == share \in {"live", "off"}

Init ==
  /\ share = "none"
  /\ plan = NoPlan
  /\ items = {} /\ excluded = {} /\ pending = {}
  /\ file \in [Files -> {"uploading", "complete"}]
  /\ client = [c \in Clients |-> Resting]
  /\ due = {} /\ dropped = {}
  /\ barred \in SUBSET Foreign
  /\ reader = [v \in Visitors |-> Away]
  /\ spoilt = [v \in Visitors |-> {}]
  /\ left = Changes

Disturb == left > 0 /\ left' = left - 1

(* The creator's re-check passes over a file: its upload is complete, be   *)
(* it in the trash or not, and it is the creator's own or still readable.  *)
Readable(f) == file[f] \in {"complete", "trashed"} /\ f \notin barred

(* What no visitor who has opened the link can rely on any more.  A file   *)
(* some re-check has read among the items refuses the whole share when it  *)
(* goes before the re-check comes to it.                                   *)
Spoil(fs) == spoilt' = [v \in Visitors |-> spoilt[v] \cup fs]
SpoilAll == Spoil(Files)
SpoilWith(f, its) ==
  spoilt' = [v \in Visitors |->
               IF f \in its \cup reader[v].todo THEN Files ELSE spoilt[v] \cup {f}]

(***************************************************************************)
(* create_share: the transaction's INSERT ... SELECT flags what it sees.   *)
(***************************************************************************)
(* Files in the trash pass: upload_complete is all that is asked.          *)
Shareable(f) == file[f] \in {"complete", "trashed"}

Waiting(its) == {f \in V1 : Home[f] = Target /\ file[f] = "complete" /\ f \notin its}

BeginShare(its) ==
  /\ share = "none"
  /\ its # {} /\ \A f \in its \cap Files : Shareable(f)
  /\ share' = "creating"
  /\ plan' = [items |-> its, pending |-> Waiting(its)]
  /\ UNCHANGED <<rows, file, client, due, dropped, visits, left>>

CommitShare ==
  /\ share = "creating"
  /\ share' = "live"
  /\ items' = plan.items
  /\ pending' = plan.pending
  /\ due' = plan.pending
  /\ plan' = NoPlan
  /\ UNCHANGED <<excluded, file, client, dropped, visits, left>>

RollBackShare ==
  /\ share = "creating"
  /\ share' = "none"
  /\ plan' = NoPlan
  /\ Disturb
  /\ UNCHANGED <<rows, file, client, due, dropped, visits>>

(***************************************************************************)
(* The last chunk of a file: the transaction looks for shares it can see,  *)
(* whatever the file's key version.                                        *)
(***************************************************************************)
FinishUpload(f) ==
  LET flagged == IF share = "live" /\ Home[f] = Target THEN {f} ELSE {} IN
  /\ file[f] = "uploading"
  /\ file' = [file EXCEPT ![f] = "complete"]
  /\ pending' = pending \cup flagged
  /\ due' = due \cup flagged
  /\ UNCHANGED <<share, plan, items, excluded, client, dropped, visits, left>>

(***************************************************************************)
(* add_share_items: every file is checked before the first insert.         *)
(***************************************************************************)
PostItems(c, fs) ==
  /\ client[c].pc = "idle" /\ fs # {}
  /\ Exists
  /\ \A f \in fs : file[f] \in {"uploading", "complete"}
  /\ client' = [client EXCEPT ![c] = [pc |-> "insert", files |-> fs, todo |-> fs]]
  /\ UNCHANGED <<share, plan, rows, file, due, dropped, visits, left>>

(* ON CONFLICT DO NOTHING; the share's row is the item's foreign key.  An  *)
(* item of a file that is not complete, was purged since the checks, or is *)
(* closed to the share's creator makes the re-check refuse the whole share.*)
InsertItem(c, f) ==
  /\ client[c].pc = "insert" /\ f \in client[c].todo
  /\ Exists
  /\ items' = items \cup {f}
  /\ client' = [client EXCEPT ![c].todo = @ \ {f}]
  /\ Spoil(IF Readable(f) THEN {} ELSE Files)
  /\ UNCHANGED <<share, plan, excluded, pending, file, due, dropped, barred, reader, left>>

(* The mutant clears what was asked for before it is written.              *)
MayClear_Early(c) == client[c].pc = "insert"
MayClear(c) == client[c].pc = "insert" /\ client[c].todo = {}

ClearPending(c) ==
  /\ MayClear(c)
  /\ pending' = pending \ client[c].files
  /\ client' = [client EXCEPT ![c].pc = IF client[c].todo = {} THEN "idle" ELSE @]
  /\ UNCHANGED <<share, plan, items, excluded, file, due, dropped, visits, left>>

(* The process stops, or the statement fails.                              *)
AbandonPost(c) ==
  /\ client[c].pc # "idle"
  /\ Disturb
  /\ client' = [client EXCEPT ![c] = Resting]
  /\ UNCHANGED <<share, plan, rows, file, due, dropped, visits>>

(***************************************************************************)
(* What managers take out.                                                 *)
(***************************************************************************)
(* A file without an item is refused, and stays in the queue.              *)
RemoveItem(f) ==
  /\ Exists
  /\ f \in items
  /\ Disturb
  /\ items' = items \ {f}
  /\ pending' = pending \ {f}
  /\ dropped' = dropped \cup {f}
  /\ Spoil({f})
  /\ UNCHANGED <<share, plan, excluded, file, client, due, barred, reader>>

(* The subtree's files are listed first; the two deletes go by that list.  *)
RemoveFolderItems(d, below) ==
  LET fs == {f \in Files : Home[f] \in below /\ file[f] \in {"uploading", "complete"}} IN
  /\ Exists
  /\ d \in below /\ fs # {}
  /\ Disturb
  /\ items' = items \ fs
  /\ pending' = pending \ fs
  /\ dropped' = dropped \cup fs
  /\ Spoil(fs)
  /\ UNCHANGED <<share, plan, excluded, file, client, due, barred, reader>>

Exclude(d) ==
  /\ Exists
  /\ d \in items
  /\ Disturb
  /\ excluded' = excluded \cup {d}
  /\ Spoil({f \in Files : Home[f] = d})
  /\ UNCHANGED <<share, plan, items, pending, file, client, due, dropped, barred, reader>>

Include(d) ==
  /\ d \in excluded
  /\ Disturb
  /\ excluded' = excluded \ {d}
  /\ UNCHANGED <<share, plan, items, pending, file, client, due, dropped, visits>>

(* update_share: is_active and expires_at may be set and cleared again.    *)
Toggle ==
  /\ Exists
  /\ Disturb
  /\ share' = IF share = "live" THEN "off" ELSE "live"
  /\ SpoilAll
  /\ UNCHANGED <<plan, rows, file, client, due, dropped, barred, reader>>

(* Everything that refers to the share cascades.                           *)
EndShare ==
  /\ share' = "gone"
  /\ items' = {} /\ excluded' = {} /\ pending' = {}
  /\ SpoilAll

DeleteShare ==
  /\ Exists
  /\ Disturb
  /\ EndShare
  /\ UNCHANGED <<plan, file, client, due, dropped, barred, reader>>

(* The sweep takes rows of ninety days, keyed or not.                      *)
SweepPending(f) ==
  /\ f \in pending
  /\ Disturb
  /\ pending' = pending \ {f}
  /\ dropped' = dropped \cup {f}
  /\ UNCHANGED <<share, plan, items, excluded, file, client, due, visits>>

(***************************************************************************)
(* The files' own life.                                                    *)
(***************************************************************************)
TrashOrRestore(f) ==
  /\ file[f] \in {"complete", "trashed"}
  /\ Disturb
  /\ file' = [file EXCEPT ![f] = IF @ = "complete" THEN "trashed" ELSE "complete"]
  /\ Spoil({f})
  /\ UNCHANGED <<share, plan, rows, client, due, dropped, barred, reader>>

(* A share whose last item goes with the file goes as well.                *)
PurgeFile(f) ==
  /\ file[f] \in {"complete", "trashed"}
  /\ Disturb
  /\ file' = [file EXCEPT ![f] = "gone"]
  /\ IF f \in items /\ items = {f}
     THEN EndShare
     ELSE /\ items' = items \ {f}
          /\ pending' = pending \ {f}
          /\ SpoilWith(f, {})
          /\ UNCHANGED <<share, excluded>>
  /\ plan' = [plan EXCEPT !.pending = @ \ {f}]
  /\ UNCHANGED <<client, due, dropped, barred, reader>>

(* The creator leaves a team, an explicit deny is set, and so on, or back. *)
LoseOrRegain(f) ==
  /\ f \in Foreign
  /\ Disturb
  /\ IF f \in barred
     THEN barred' = barred \ {f} /\ UNCHANGED spoilt
     ELSE barred' = barred \cup {f} /\ SpoilWith(f, items)
  /\ UNCHANGED <<share, plan, rows, file, client, due, dropped, reader>>

(***************************************************************************)
(* Visitors.  resolve_share and the two download routes begin alike: the   *)
(* active share is read, then the files with an item of their own, then    *)
(* each of these by itself (_verify_creator_still_has_access).  "goal" is  *)
(* the file asked for, and empty while the link is being opened.           *)
(***************************************************************************)
Alive(f) == file[f] = "complete"
Covered(f) == f \notin V1 /\ Home[f] \in items /\ Home[f] \notin excluded

Turn(v, pc) == reader' = [reader EXCEPT ![v].pc = pc]
Show(v, pc, fs) == reader' = [reader EXCEPT ![v].pc = pc, ![v].shown = fs]
Refuse(v) ==
  reader' = [reader EXCEPT ![v].pc = IF reader[v].goal = {} THEN "away" ELSE "refused",
                           ![v].todo = {}]
Looking(v) == reader[v].pc = "check" /\ reader[v].todo = {}

OpenLink(v) ==
  /\ reader[v].pc \in {"away", "home", "refused"}
  /\ share = "live"
  /\ reader' = [reader EXCEPT ![v] = [Away EXCEPT !.pc = "items"]]
  /\ spoilt' = [spoilt EXCEPT ![v] = {}]
  /\ UNCHANGED <<share, plan, rows, file, client, due, dropped, barred, left>>

(* What is asked for is what the link's page has shown.                    *)
AskFor(v, f) ==
  /\ reader[v].pc \in {"home", "refused"} /\ f \in reader[v].shown
  /\ reader' = [reader EXCEPT ![v].pc = IF share = "live" THEN "items" ELSE "refused",
                              ![v].goal = {f}]
  /\ UNCHANGED <<share, plan, rows, file, client, due, dropped, barred, spoilt, left>>

ListItems(v) ==
  /\ reader[v].pc = "items"
  /\ reader' = [reader EXCEPT ![v].pc = "check", ![v].todo = items \cap Files]
  /\ UNCHANGED <<share, plan, rows, file, client, due, dropped, barred, spoilt, left>>

CheckItem(v, f) ==
  /\ reader[v].pc = "check" /\ f \in reader[v].todo
  /\ IF Readable(f)
     THEN reader' = [reader EXCEPT ![v].todo = @ \ {f}]
     ELSE Refuse(v)
  /\ UNCHANGED <<share, plan, rows, file, client, due, dropped, barred, spoilt, left>>

(* _get_items_with_files: the model by a count of the folders' keys, then  *)
(* a query for the legacy model, or two.  The files of excluded folders    *)
(* are left out where a folder has its key.                                *)
ListFiles(v) ==
  /\ reader[v].goal = {}
  /\ \/ Looking(v) /\ Turn(v, IF items \cap Folders = {} THEN "plain" ELSE "covered")
     \/ reader[v].pc = "plain" /\ Show(v, "home", {f \in items \cap Files : Alive(f)})
     \/ reader[v].pc = "covered" /\ Show(v, "own", {f \in Files : Alive(f) /\ Covered(f)})
     \/ /\ reader[v].pc = "own"
        /\ Show(v, "home", reader[v].shown \cup
                  {f \in items \cap Files : Alive(f) /\ Home[f] \notin excluded})
  /\ UNCHANGED <<share, plan, rows, file, client, due, dropped, barred, spoilt, left>>

(* _verify_file_in_share: an item of the file's own, in an excluded folder *)
(* or not, or else the folder's; then the file's row.                      *)
FindItem_OwnOnly(v, f) ==
  /\ reader[v].goal = {f} /\ Looking(v)
  /\ IF f \in items THEN Turn(v, "row") ELSE Refuse(v)
  /\ UNCHANGED <<share, plan, rows, file, client, due, dropped, barred, spoilt, left>>

FindItem(v, f) ==
  /\ reader[v].goal = {f} /\ Looking(v)
  /\ Turn(v, IF f \in items THEN "row" ELSE "cover")
  /\ UNCHANGED <<share, plan, rows, file, client, due, dropped, barred, spoilt, left>>

FindCover(v, f) ==
  /\ reader[v].goal = {f} /\ reader[v].pc = "cover"
  /\ IF Covered(f) THEN Turn(v, "row") ELSE Refuse(v)
  /\ UNCHANGED <<share, plan, rows, file, client, due, dropped, barred, spoilt, left>>

Serve(v, f) ==
  /\ reader[v].goal = {f} /\ reader[v].pc = "row"
  /\ IF Alive(f)
     THEN reader' = [reader EXCEPT ![v].pc = "home", ![v].goal = {}]
     ELSE Refuse(v)
  /\ UNCHANGED <<share, plan, rows, file, client, due, dropped, barred, spoilt, left>>

Next ==
  \/ \E its \in SUBSET (Files \cup Folders) : BeginShare(its)
  \/ CommitShare
  \/ RollBackShare
  \/ \E f \in Files : FinishUpload(f)
  \/ \E c \in Clients, fs \in SUBSET Files : PostItems(c, fs)
  \/ \E c \in Clients, f \in Files : InsertItem(c, f)
  \/ \E c \in Clients : ClearPending(c)
  \/ \E c \in Clients : AbandonPost(c)
  \/ \E f \in Files : RemoveItem(f)
  \/ \E d \in Folders : RemoveFolderItems(d, IF d = Target THEN Folders ELSE {d})
  \/ \E d \in Folders : Exclude(d)
  \/ \E d \in Folders : Include(d)
  \/ Toggle
  \/ DeleteShare
  \/ \E f \in Files : SweepPending(f)
  \/ \E f \in Files : TrashOrRestore(f)
  \/ \E f \in Files : PurgeFile(f)
  \/ \E f \in Files : LoseOrRegain(f)
  \/ \E v \in Visitors : OpenLink(v)
  \/ \E v \in Visitors, f \in Files : AskFor(v, f)
  \/ \E v \in Visitors : ListItems(v)
  \/ \E v \in Visitors, f \in Files : CheckItem(v, f)
  \/ \E v \in Visitors : ListFiles(v)
  \/ \E v \in Visitors, f \in Files : FindItem(v, f)
  \/ \E v \in Visitors, f \in Files : FindCover(v, f)
  \/ \E v \in Visitors, f \in Files : Serve(v, f)

Spec == Init /\ [][Next]_vars

RowsOK ==
  /\ share \in {"none", "creating", "live", "off", "gone"}
  /\ plan \in [items : SUBSET (Files \cup Folders), pending : SUBSET Files]
  /\ items \subseteq Files \cup Folders
  /\ excluded \subseteq Folders
  /\ pending \subseteq Files
  /\ file \in [Files -> {"uploading", "complete", "trashed", "gone"}]
  /\ client \in [Clients -> [pc : {"idle", "insert"}, files : SUBSET Files,
                             todo : SUBSET Files]]
  /\ due \subseteq Files /\ dropped \subseteq Files
  /\ left \in 0..Changes

VisitsOK ==
  /\ barred \subseteq Foreign
  /\ reader \in [Visitors ->
       [pc : {"away", "items", "check", "plain", "covered", "own", "home",
              "cover", "row", "refused"},
        shown : SUBSET Files, goal : SUBSET Files, todo : SUBSET Files]]
  /\ spoilt \in [Visitors -> SUBSET Files]

TypeOK == RowsOK /\ VisitsOK

(* A file that was flagged for a share has its item or is still flagged,   *)
(* whichever request stops half-way, until a manager or the sweep takes it *)
(* out, it is purged, or the share ends.  add_share_items writes the items *)
(* first and clears the queue last.                                        *)
ObligationKept ==
  Exists => \A f \in due \ dropped : f \in items \cup pending \/ file[f] = "gone"

(* A file that a visitor was shown is not refused when the visitor comes   *)
(* for it, although it is looked for by other queries than the listing's   *)
(* and the creator's access is checked anew, file by file, each time.  The *)
(* reasons there may be, since the link was opened, are those that spoil:  *)
(* the file was taken out, excluded with its folder, put into the trash or *)
(* purged; the share was switched off or ended; its creator may no longer  *)
(* read a file with an item; a file got an item whose upload was not       *)
(* complete, or which was purged; or a file was purged between the list of *)
(* the re-check and its turn.                                              *)
ShownIsServed ==
  \A v \in Visitors :
    reader[v].pc = "refused" => reader[v].goal \cap reader[v].shown \subseteq spoilt[v]
=============================================================================
