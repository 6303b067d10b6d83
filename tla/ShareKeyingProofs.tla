-------------------------- MODULE ShareKeyingProofs --------------------------
(***************************************************************************)
(* A file flagged as waiting for a share's key is never forgotten, and a   *)
(* file that a visitor was shown is not refused: proofs about ShareKeying. *)
(***************************************************************************)
EXTENDS ShareKeying, TLAPS

Client == [pc : {"idle", "insert"}, files : SUBSET Files, todo : SUBSET Files]

(* What a client has inserted may be cleared from the queue by its last    *)
(* statement: those files have their items, unless they were taken out or  *)
(* purged since.                                                           *)
InsertedStay ==
  Exists => \A c \in Clients : client[c].pc = "insert" =>
    \A f \in client[c].files \ client[c].todo : f \in items \cup dropped \/ file[f] = "gone"

(* Items are posted to a share that exists, and a share is made once.      *)
NobodyPosts ==
  share \in {"none", "creating"} =>
    pending = {} /\ \A c \in Clients : client[c].pc = "idle"

Kept == RowsOK /\ InsertedStay /\ NobodyPosts /\ ObligationKept

-----------------------------------------------------------------------------
LEMMA InitKept == ConstantsOK /\ Init => Kept
  BY DEF ConstantsOK, Init, Kept, RowsOK, InsertedStay, NobodyPosts, ObligationKept, Exists,
         NoPlan, Resting

(***************************************************************************)
(* Types.                                                                  *)
(***************************************************************************)
LEMMA ShareType ==
  ASSUME RowsOK, ConstantsOK,
         \/ \E its \in SUBSET (Files \cup Folders) : BeginShare(its)
         \/ CommitShare \/ RollBackShare \/ Toggle \/ DeleteShare
  PROVE  RowsOK'
<1>. USE DEF RowsOK, ConstantsOK, NoPlan, rows
<1>1. ASSUME NEW its \in SUBSET (Files \cup Folders), BeginShare(its) PROVE RowsOK'
  BY <1>1 DEF BeginShare, Waiting
<1>2. CASE CommitShare
  BY <1>2 DEF CommitShare
<1>3. CASE RollBackShare
  BY <1>3 DEF RollBackShare, Disturb
<1>4. CASE Toggle
  BY <1>4 DEF Toggle, Disturb, Exists
<1>5. CASE DeleteShare
  BY <1>5 DEF DeleteShare, Disturb, EndShare
<1>. QED
  BY <1>1, <1>2, <1>3, <1>4, <1>5

LEMMA PostType ==
  ASSUME RowsOK, ConstantsOK, NEW c \in Clients,
         \/ \E fs \in SUBSET Files : PostItems(c, fs)
         \/ \E f \in Files : InsertItem(c, f)
         \/ ClearPending(c) \/ AbandonPost(c)
  PROVE  RowsOK'
<1>. USE DEF RowsOK, ConstantsOK, rows
<1>1. ASSUME NEW fs \in SUBSET Files, PostItems(c, fs) PROVE RowsOK'
  BY <1>1 DEF PostItems
<1>2. ASSUME NEW f \in Files, InsertItem(c, f) PROVE RowsOK'
  BY <1>2 DEF InsertItem
<1>3. CASE ClearPending(c)
  BY <1>3 DEF ClearPending
<1>4. CASE AbandonPost(c)
  BY <1>4 DEF AbandonPost, Disturb, Resting
<1>. QED
  BY <1>1, <1>2, <1>3, <1>4

LEMMA FileType ==
  ASSUME RowsOK, ConstantsOK, NEW f \in Files,
         \/ FinishUpload(f) \/ RemoveItem(f) \/ SweepPending(f)
         \/ TrashOrRestore(f) \/ PurgeFile(f)
  PROVE  RowsOK'
<1>. USE DEF RowsOK, ConstantsOK, rows
<1>1. CASE FinishUpload(f)
  BY <1>1 DEF FinishUpload
<1>2. CASE RemoveItem(f)
  BY <1>2 DEF RemoveItem, Disturb
<1>3. CASE SweepPending(f)
  BY <1>3 DEF SweepPending, Disturb
<1>4. CASE TrashOrRestore(f)
  BY <1>4 DEF TrashOrRestore, Disturb
<1>5. CASE PurgeFile(f)
  <2>1. /\ share' \in {share, "gone"} /\ UNCHANGED <<client, due, dropped>>
        /\ items' \subseteq items /\ excluded' \subseteq excluded /\ pending' \subseteq pending
    <3>1. CASE f \in items /\ items = {f}
      BY <1>5, <3>1 DEF PurgeFile, EndShare
    <3>2. CASE ~(f \in items /\ items = {f})
      BY <1>5, <3>2 DEF PurgeFile
    <3>. QED
      BY <3>1, <3>2
  <2>3. left' \in 0..Changes
    BY <1>5 DEF PurgeFile, Disturb
  <2>2. file' \in [Files -> {"uploading", "complete", "trashed", "gone"}]
        /\ plan' \in [items : SUBSET (Files \cup Folders), pending : SUBSET Files]
    BY <1>5 DEF PurgeFile
  <2>. QED
    BY <2>1, <2>2, <2>3
<1>. QED
  BY <1>1, <1>2, <1>3, <1>4, <1>5

LEMMA FolderType ==
  ASSUME RowsOK, ConstantsOK, NEW d \in Folders,
         \/ RemoveFolderItems(d, IF d = Target THEN Folders ELSE {d})
         \/ Exclude(d) \/ Include(d)
  PROVE  RowsOK'
<1>. USE DEF RowsOK, ConstantsOK, rows
<1>1. CASE RemoveFolderItems(d, IF d = Target THEN Folders ELSE {d})
  BY <1>1 DEF RemoveFolderItems, Disturb
<1>2. CASE Exclude(d)
  BY <1>2 DEF Exclude, Disturb
<1>3. CASE Include(d)
  BY <1>3 DEF Include, Disturb
<1>. QED
  BY <1>1, <1>2, <1>3

(* A visitor's own steps change no row.                                    *)
Reads(v) ==
  \/ OpenLink(v) \/ ListItems(v) \/ ListFiles(v)
  \/ \E f \in Files : AskFor(v, f) \/ CheckItem(v, f) \/ FindItem(v, f)
                     \/ FindCover(v, f) \/ Serve(v, f)

(* What everybody else does.                                               *)
World ==
  \/ \E its \in SUBSET (Files \cup Folders) : BeginShare(its)
  \/ CommitShare \/ RollBackShare \/ Toggle \/ DeleteShare
  \/ \E c \in Clients, fs \in SUBSET Files : PostItems(c, fs)
  \/ \E c \in Clients, f \in Files : InsertItem(c, f)
  \/ \E c \in Clients : ClearPending(c) \/ AbandonPost(c)
  \/ \E f \in Files : FinishUpload(f) \/ RemoveItem(f) \/ SweepPending(f)
                      \/ TrashOrRestore(f) \/ PurgeFile(f) \/ LoseOrRegain(f)
  \/ \E d \in Folders : \/ RemoveFolderItems(d, IF d = Target THEN Folders ELSE {d})
                        \/ Exclude(d) \/ Include(d)

LEMMA Split == Next => World \/ \E v \in Visitors : Reads(v)
  BY DEF Next, World, Reads

LEMMA ReadsOnly ==
  ASSUME NEW v \in Visitors, Reads(v)
  PROVE  UNCHANGED <<share, plan, items, excluded, pending, file, client, due, dropped,
                     barred, left>>
  BY DEF Reads, OpenLink, AskFor, ListItems, CheckItem, ListFiles, FindItem, FindCover,
         Serve, rows

LEMMA NextType == RowsOK /\ ConstantsOK /\ [Next]_vars => RowsOK'
<1>1. RowsOK /\ UNCHANGED vars => RowsOK'
  BY DEF vars, rows, RowsOK
<1>2. RowsOK /\ (\E v \in Visitors : Reads(v)) => RowsOK'
  BY ReadsOnly DEF RowsOK
<1>3. ASSUME RowsOK, ConstantsOK, NEW f \in Files, LoseOrRegain(f) PROVE RowsOK'
  BY <1>3 DEF ConstantsOK, LoseOrRegain, Disturb, rows, RowsOK
<1>4. RowsOK /\ ConstantsOK /\ World => RowsOK'
  <2>. SUFFICES ASSUME RowsOK, ConstantsOK, World PROVE RowsOK'
    OBVIOUS
  <2>1. ASSUME NEW f \in Files,
               \/ FinishUpload(f) \/ RemoveItem(f) \/ SweepPending(f)
               \/ TrashOrRestore(f) \/ PurgeFile(f)
        PROVE  RowsOK'
    BY <2>1, FileType
  <2>. QED
    BY <1>3, <2>1, ShareType, PostType, FolderType DEF World
<1>. QED
  BY <1>1, <1>2, <1>4, Split

(***************************************************************************)
(* Obligations.  Four things can take a flag away: a post that has written *)
(* the item, a manager, the sweep, and the end of the file or share.       *)
(***************************************************************************)
LEMMA ShareKeeps ==
  ASSUME Kept, ConstantsOK,
         \/ \E its \in SUBSET (Files \cup Folders) : BeginShare(its)
         \/ CommitShare \/ RollBackShare \/ Toggle \/ DeleteShare
  PROVE  (InsertedStay /\ NobodyPosts /\ ObligationKept)'
<1>. USE DEF Kept, InsertedStay, NobodyPosts, ObligationKept, Exists, rows
<1>1. ASSUME NEW its \in SUBSET (Files \cup Folders), BeginShare(its)
      PROVE  (InsertedStay /\ NobodyPosts /\ ObligationKept)'
  BY <1>1 DEF BeginShare
<1>2. CASE CommitShare
  BY <1>2 DEF CommitShare
<1>3. CASE RollBackShare
  BY <1>3 DEF RollBackShare
<1>4. CASE Toggle
  BY <1>4 DEF Toggle
<1>5. CASE DeleteShare
  BY <1>5 DEF DeleteShare, EndShare
<1>. QED
  BY <1>1, <1>2, <1>3, <1>4, <1>5

LEMMA PostKeeps ==
  ASSUME Kept, ConstantsOK, NEW c \in Clients,
         \/ \E fs \in SUBSET Files : PostItems(c, fs)
         \/ \E f \in Files : InsertItem(c, f)
         \/ ClearPending(c) \/ AbandonPost(c)
  PROVE  (InsertedStay /\ NobodyPosts /\ ObligationKept)'
<1>. USE DEF Kept, RowsOK, InsertedStay, NobodyPosts, ObligationKept, Exists, rows
<1>1. ASSUME NEW fs \in SUBSET Files, PostItems(c, fs)
      PROVE  (InsertedStay /\ NobodyPosts /\ ObligationKept)'
  BY <1>1 DEF PostItems
<1>2. ASSUME NEW f \in Files, InsertItem(c, f)
      PROVE  (InsertedStay /\ NobodyPosts /\ ObligationKept)'
  <2>1. /\ client'[c].pc = client[c].pc
        /\ client'[c].files = client[c].files
        /\ client'[c].todo = client[c].todo \ {f}
        /\ \A d \in Clients \ {c} : client'[d] = client[d]
    BY <1>2 DEF InsertItem
  <2>. QED
    BY <1>2, <2>1 DEF InsertItem
<1>3. CASE ClearPending(c)
  <2>1. client[c].pc = "insert" /\ client[c].todo = {}
    BY <1>3 DEF ClearPending, MayClear
  <2>2. client'[c].pc = "idle" /\ \A d \in Clients \ {c} : client'[d] = client[d]
    BY <1>3, <2>1 DEF ClearPending
  <2>. QED
    BY <1>3, <2>1, <2>2 DEF ClearPending
<1>4. CASE AbandonPost(c)
  BY <1>4 DEF AbandonPost, Resting
<1>. QED
  BY <1>1, <1>2, <1>3, <1>4

LEMMA FileKeeps ==
  ASSUME Kept, ConstantsOK, NEW f \in Files,
         \/ FinishUpload(f) \/ RemoveItem(f) \/ SweepPending(f)
         \/ TrashOrRestore(f) \/ PurgeFile(f)
  PROVE  (InsertedStay /\ NobodyPosts /\ ObligationKept)'
<1>. USE DEF Kept, RowsOK, InsertedStay, NobodyPosts, ObligationKept, Exists, rows
<1>1. CASE FinishUpload(f)
  BY <1>1 DEF FinishUpload
<1>2. CASE RemoveItem(f)
  BY <1>2 DEF RemoveItem
<1>3. CASE SweepPending(f)
  BY <1>3 DEF SweepPending
<1>4. CASE TrashOrRestore(f)
  BY <1>4 DEF TrashOrRestore
<1>5. CASE PurgeFile(f)
  BY <1>5 DEF PurgeFile, EndShare
<1>. QED
  BY <1>1, <1>2, <1>3, <1>4, <1>5

LEMMA FolderKeeps ==
  ASSUME Kept, ConstantsOK, NEW d \in Folders,
         \/ RemoveFolderItems(d, IF d = Target THEN Folders ELSE {d})
         \/ Exclude(d) \/ Include(d)
  PROVE  (InsertedStay /\ NobodyPosts /\ ObligationKept)'
<1>. USE DEF Kept, RowsOK, InsertedStay, NobodyPosts, ObligationKept, Exists, rows
<1>1. CASE RemoveFolderItems(d, IF d = Target THEN Folders ELSE {d})
  BY <1>1 DEF RemoveFolderItems
<1>2. CASE Exclude(d)
  BY <1>2 DEF Exclude
<1>3. CASE Include(d)
  BY <1>3 DEF Include
<1>. QED
  BY <1>1, <1>2, <1>3

LEMMA NextKept == Kept /\ ConstantsOK /\ [Next]_vars => Kept'
<1>. SUFFICES ASSUME Kept, ConstantsOK, [Next]_vars PROVE Kept'
  OBVIOUS
<1>1. RowsOK'
  BY NextType DEF Kept
<1>2. (InsertedStay /\ NobodyPosts /\ ObligationKept)'
  <2>1. CASE UNCHANGED vars
    BY <2>1 DEF vars, rows, Kept, InsertedStay, NobodyPosts, ObligationKept, Exists
  <2>2. CASE \E v \in Visitors : Reads(v)
    BY <2>2, ReadsOnly DEF Kept, InsertedStay, NobodyPosts, ObligationKept, Exists
  <2>3. CASE \E f \in Files : LoseOrRegain(f)
    BY <2>3 DEF LoseOrRegain, rows, Kept, InsertedStay, NobodyPosts, ObligationKept, Exists
  <2>. QED
    BY <2>1, <2>2, <2>3, Split, ShareKeeps, PostKeeps, FileKeeps, FolderKeeps DEF World
<1>. QED
  BY <1>1, <1>2 DEF Kept

(* routes/shares.py, add_share_items: however posts, managers, the sweep,  *)
(* the end of uploads and purges interleave, and wherever a post stops, a  *)
(* file flagged for a share has its item or is still flagged.              *)
THEOREM ObligationsKept == ASSUME ConstantsOK PROVE Spec => []ObligationKept
<1>1. Kept => ObligationKept
  BY DEF Kept
<1>. QED
  BY <1>1, ConstantsOK, InitKept, NextKept, PTL DEF Spec

-----------------------------------------------------------------------------
(***************************************************************************)
(* Visitors.  While a file is not spoilt, whatever a check may still ask   *)
(* of the share or of that file stays so.                                  *)
(***************************************************************************)
Steady(v) ==
  /\ spoilt[v] \subseteq spoilt'[v]
  /\ \A f \in Files \ spoilt'[v] : share = "live" =>
       /\ share' = "live"
       /\ Alive(f) => Alive(f)'
       /\ f \in items => f \in items'
       /\ Covered(f) => Covered(f)'
       /\ \A g \in Files :
            /\ g \in items' => g \in items \/ Readable(g)'
            /\ (g \in items' \cup reader[v].todo) /\ Readable(g) => Readable(g)'

(* A download is asked for after the creator's access was checked.         *)
Opening(r) == r.goal = {}
Checked(r) == r.pc # "away" /\ ~(r.pc = "items" /\ Opening(r))

Visit(v) ==
  LET r == reader[v] IN
  /\ r.pc # "check" => r.todo = {}
  /\ r.pc \in {"away", "plain", "covered", "own", "home"} => Opening(r)
  /\ r.pc \in {"away", "items", "check"} /\ Opening(r) => r.shown = {}
  /\ \A f \in Files \ spoilt[v] :
       /\ r.pc # "away" => share = "live"
       /\ f \in r.shown => Alive(f) /\ (f \in items \/ Covered(f))
       /\ f \in r.shown /\ f \in r.goal /\ r.pc = "cover" => Covered(f)
       /\ f \in r.shown /\ f \in r.goal => r.pc # "refused"
       /\ Checked(r) => \A g \in items \cap Files : g \in r.todo \/ Readable(g)
       /\ ~Opening(r) => \A g \in r.todo : Readable(g)

Visits == VisitsOK /\ \A v \in Visitors : Visit(v)

LEMMA SteadyVisit ==
  ASSUME ConstantsOK, VisitsOK, NEW v \in Visitors, Visit(v), Steady(v), reader' = reader
  PROVE  Visit(v)'
<1>. DEFINE r == reader[v]
<1>. r.shown \subseteq Files /\ r.todo \subseteq Files
  BY DEF VisitsOK
<1>. SUFFICES ASSUME NEW f \in Files \ spoilt'[v], r.pc # "away"
     PROVE  /\ share' = "live"
            /\ f \in r.shown => Alive(f)' /\ (f \in items' \/ Covered(f)')
            /\ f \in r.shown /\ f \in r.goal /\ r.pc = "cover" => Covered(f)'
            /\ f \in r.shown /\ f \in r.goal => r.pc # "refused"
            /\ Checked(r) => \A g \in items' \cap Files : g \in r.todo \/ Readable(g)'
            /\ ~Opening(r) => \A g \in r.todo : Readable(g)'
  BY DEF Visit, Steady, Opening, Checked
<1>1. f \in Files \ spoilt[v] /\ share = "live"
  BY DEF Visit, Steady
<1>. HIDE DEF r
<1>. QED
  BY <1>1 DEF r, Visit, Steady

(* What others do spoils what it takes away.                               *)
LEMMA QuietSteady ==
  ASSUME RowsOK, VisitsOK, NEW v \in Visitors, spoilt' = spoilt, barred' = barred,
         share = "live" => /\ UNCHANGED <<share, items>>
                           /\ excluded' \subseteq excluded
                           /\ \A f \in Files : \/ file'[f] = file[f]
                                               \/ file[f] = "uploading" /\ file'[f] = "complete"
  PROVE  Steady(v)
  BY DEF RowsOK, VisitsOK, Steady, Alive, Covered, Readable

LEMMA SpoilSteady ==
  ASSUME RowsOK, VisitsOK, NEW v \in Visitors, NEW fs, Spoil(fs),
         \A f \in Files \ fs : share = "live" =>
           /\ share' = "live"
           /\ Alive(f) => Alive(f)'
           /\ f \in items => f \in items'
           /\ Covered(f) => Covered(f)'
           /\ \A g \in Files : /\ g \in items' => g \in items \/ Readable(g)'
                               /\ Readable(g) => Readable(g)'
  PROVE  Steady(v)
<1>1. spoilt'[v] = spoilt[v] \cup fs
  BY DEF Spoil
<1>. QED
  BY <1>1 DEF Steady

LEMMA ShareSteady ==
  ASSUME RowsOK, VisitsOK, ConstantsOK, NEW v \in Visitors,
         \/ \E its \in SUBSET (Files \cup Folders) : BeginShare(its)
         \/ CommitShare \/ RollBackShare \/ Toggle \/ DeleteShare
  PROVE  Steady(v)
<1>. USE DEF rows, visits
<1>1. ASSUME NEW its \in SUBSET (Files \cup Folders), BeginShare(its) PROVE Steady(v)
  BY <1>1, QuietSteady DEF BeginShare
<1>2. CASE CommitShare
  BY <1>2, QuietSteady DEF CommitShare
<1>3. CASE RollBackShare
  BY <1>3, QuietSteady DEF RollBackShare
<1>4. CASE Toggle
  BY <1>4, SpoilSteady DEF Toggle, SpoilAll
<1>5. CASE DeleteShare
  BY <1>5, SpoilSteady DEF DeleteShare, EndShare, SpoilAll
<1>. QED
  BY <1>1, <1>2, <1>3, <1>4, <1>5

LEMMA PostSteady ==
  ASSUME RowsOK, VisitsOK, ConstantsOK, NEW v \in Visitors, NEW c \in Clients,
         \/ \E fs \in SUBSET Files : PostItems(c, fs)
         \/ \E f \in Files : InsertItem(c, f)
         \/ ClearPending(c) \/ AbandonPost(c)
  PROVE  Steady(v)
<1>. USE DEF rows, visits
<1>1. ASSUME NEW fs \in SUBSET Files, PostItems(c, fs) PROVE Steady(v)
  BY <1>1, QuietSteady DEF PostItems
<1>2. ASSUME NEW f \in Files, InsertItem(c, f) PROVE Steady(v)
  <2>1. UNCHANGED <<share, excluded, file, barred>> /\ items' = items \cup {f}
    BY <1>2 DEF InsertItem
  <2>2. CASE Readable(f)
    BY <1>2, <2>1, <2>2, SpoilSteady DEF InsertItem, Alive, Covered, Readable
  <2>3. CASE ~Readable(f)
    BY <1>2, <2>1, <2>3, SpoilSteady DEF InsertItem
  <2>. QED
    BY <2>2, <2>3
<1>3. CASE ClearPending(c)
  BY <1>3, QuietSteady DEF ClearPending
<1>4. CASE AbandonPost(c)
  BY <1>4, QuietSteady DEF AbandonPost
<1>. QED
  BY <1>1, <1>2, <1>3, <1>4

LEMMA FolderSteady ==
  ASSUME RowsOK, VisitsOK, ConstantsOK, NEW v \in Visitors, NEW d \in Folders,
         \/ RemoveFolderItems(d, IF d = Target THEN Folders ELSE {d})
         \/ Exclude(d) \/ Include(d)
  PROVE  Steady(v)
<1>. USE DEF rows, visits
<1>1. CASE RemoveFolderItems(d, IF d = Target THEN Folders ELSE {d})
  <2>. DEFINE below == IF d = Target THEN Folders ELSE {d}
              fs == {f \in Files : Home[f] \in below /\ file[f] \in {"uploading", "complete"}}
  <2>1. /\ UNCHANGED <<share, excluded, file, barred>>
        /\ items' = items \ fs /\ Spoil(fs)
    BY <1>1 DEF RemoveFolderItems
  <2>2. fs \subseteq Files /\ Folders \cap fs = {}
    BY DEF ConstantsOK
  <2>. HIDE DEF fs
  <2>3. \A f \in Files : Home[f] \in Folders
    BY DEF ConstantsOK
  <2>. QED
    BY <2>1, <2>2, <2>3, SpoilSteady DEF Alive, Covered, Readable
<1>2. CASE Exclude(d)
  BY <1>2, SpoilSteady DEF Exclude, Alive, Covered, Readable
<1>3. CASE Include(d)
  BY <1>3, QuietSteady DEF Include
<1>. QED
  BY <1>1, <1>2, <1>3

LEMMA FileSteady ==
  ASSUME RowsOK, VisitsOK, ConstantsOK, NEW v \in Visitors, NEW f \in Files,
         \/ FinishUpload(f) \/ RemoveItem(f) \/ SweepPending(f)
         \/ TrashOrRestore(f) \/ PurgeFile(f) \/ LoseOrRegain(f)
  PROVE  Steady(v)
<1>. USE DEF rows, visits
<1>. /\ \A g \in Files : Home[g] \in Folders
     /\ f \notin Folders
  BY DEF ConstantsOK
<1>1. CASE FinishUpload(f)
  BY <1>1, QuietSteady DEF FinishUpload, RowsOK
<1>2. CASE RemoveItem(f)
  BY <1>2, SpoilSteady DEF RemoveItem, Alive, Covered, Readable
<1>3. CASE SweepPending(f)
  BY <1>3, QuietSteady DEF SweepPending
<1>4. CASE TrashOrRestore(f)
  <2>1. \A g \in Files : Readable(g) => Readable(g)'
    BY <1>4 DEF TrashOrRestore, Readable, RowsOK
  <2>. QED
    BY <1>4, <2>1, SpoilSteady DEF TrashOrRestore, Alive, Covered, RowsOK
<1>5. CASE PurgeFile(f)
  <2>1. \A g \in Files \ {f} : file'[g] = file[g]
    BY <1>5 DEF PurgeFile, RowsOK
  <2>2. CASE f \in items /\ items = {f}
    BY <1>5, <2>2, SpoilSteady DEF PurgeFile, EndShare, SpoilAll
  <2>3. CASE ~(f \in items /\ items = {f})
    <3>1. /\ UNCHANGED <<share, excluded, barred>> /\ items' = items \ {f}
          /\ SpoilWith(f, {})
      BY <1>5, <2>3 DEF PurgeFile
    <3>2. spoilt'[v] = IF f \in reader[v].todo THEN Files ELSE spoilt[v] \cup {f}
      BY <3>1 DEF SpoilWith
    <3>. QED
      BY <2>1, <3>1, <3>2 DEF Steady, Alive, Covered, Readable, VisitsOK
  <2>. QED
    BY <2>2, <2>3
<1>6. CASE LoseOrRegain(f)
  <2>1. UNCHANGED <<share, excluded, file, items>>
    BY <1>6 DEF LoseOrRegain
  <2>2. CASE f \in barred
    BY <1>6, <2>1, <2>2 DEF LoseOrRegain, Steady, Alive, Covered, Readable
  <2>3. CASE f \notin barred
    <3>1. /\ barred' = barred \cup {f}
          /\ spoilt'[v] = IF f \in items \/ f \in reader[v].todo THEN Files
                          ELSE spoilt[v] \cup {f}
      BY <1>6, <2>3 DEF LoseOrRegain, SpoilWith
    <3>. QED
      BY <2>1, <3>1 DEF Steady, Alive, Covered, Readable, VisitsOK
  <2>. QED
    BY <2>2, <2>3
<1>. QED
  BY <1>1, <1>2, <1>3, <1>4, <1>5, <1>6

LEMMA WorldSteady ==
  ASSUME RowsOK, VisitsOK, ConstantsOK, NEW v \in Visitors, World
  PROVE  Steady(v)
<1>1. ASSUME NEW f \in Files,
             \/ FinishUpload(f) \/ RemoveItem(f) \/ SweepPending(f)
             \/ TrashOrRestore(f) \/ PurgeFile(f) \/ LoseOrRegain(f)
      PROVE  Steady(v)
  BY <1>1, FileSteady
<1>. QED
  BY <1>1, ShareSteady, PostSteady, FolderSteady DEF World

LEMMA WorldVisitTypes ==
  ASSUME VisitsOK, ConstantsOK, World
  PROVE  reader' = reader /\ VisitsOK'
<1>. USE DEF visits
<1>1. reader' = reader
  BY DEF World, BeginShare, CommitShare, RollBackShare, Toggle, DeleteShare, PostItems,
         InsertItem, ClearPending, AbandonPost, FinishUpload, RemoveItem, SweepPending,
         TrashOrRestore, PurgeFile, LoseOrRegain, RemoveFolderItems, Exclude, Include
<1>2. barred' \subseteq Foreign
  BY DEF VisitsOK, World, BeginShare, CommitShare, RollBackShare, Toggle, DeleteShare, PostItems,
         InsertItem, ClearPending, AbandonPost, FinishUpload, RemoveItem, SweepPending,
         TrashOrRestore, PurgeFile, LoseOrRegain, RemoveFolderItems, Exclude, Include
<1>3. ASSUME NEW fs \in SUBSET Files, Spoil(fs) PROVE spoilt' \in [Visitors -> SUBSET Files]
  BY <1>3 DEF Spoil, VisitsOK
<1>4. ASSUME NEW f \in Files, NEW its, SpoilWith(f, its)
      PROVE  spoilt' \in [Visitors -> SUBSET Files]
  BY <1>4 DEF SpoilWith, VisitsOK
<1>5. spoilt' \in [Visitors -> SUBSET Files]
  <2>1. \/ UNCHANGED spoilt
        \/ \E fs \in SUBSET Files : Spoil(fs)
        \/ \E f \in Files : SpoilWith(f, {}) \/ SpoilWith(f, items)
    BY DEF World, BeginShare, CommitShare, RollBackShare, Toggle, DeleteShare, PostItems,
           InsertItem, ClearPending, AbandonPost, FinishUpload, RemoveItem, SweepPending,
           TrashOrRestore, PurgeFile, LoseOrRegain, RemoveFolderItems, Exclude, Include,
           EndShare, SpoilAll
  <2>. QED
    BY <2>1, <1>3, <1>4 DEF VisitsOK
<1>. QED
  BY <1>1, <1>2, <1>5 DEF VisitsOK

(* A visitor's step turns the visitor's own record only.                   *)
LEMMA ReadsOwn ==
  ASSUME VisitsOK, NEW v \in Visitors, Reads(v)
  PROVE  /\ VisitsOK'
         /\ \A w \in Visitors \ {v} : reader'[w] = reader[w] /\ spoilt'[w] = spoilt[w]
         /\ ~OpenLink(v) => spoilt' = spoilt
<1>. USE DEF VisitsOK
<1>1. CASE OpenLink(v)
  BY <1>1 DEF OpenLink, Away
<1>2. ASSUME NEW f \in Files, AskFor(v, f)
      PROVE  VisitsOK' /\ spoilt' = spoilt /\ \A w \in Visitors \ {v} : reader'[w] = reader[w]
  <2>1. /\ spoilt' = spoilt /\ barred' = barred
        /\ \E pc \in {"items", "refused"} :
             reader' = [reader EXCEPT ![v].pc = pc, ![v].goal = {f}]
    BY <1>2 DEF AskFor
  <2>2. PICK pc \in {"items", "refused"} :
             reader' = [reader EXCEPT ![v].pc = pc, ![v].goal = {f}]
    BY <2>1
  <2>3. {f} \in SUBSET Files
    OBVIOUS
  <2>4. reader' \in [Visitors ->
          [pc : {"away", "items", "check", "plain", "covered", "own", "home",
                 "cover", "row", "refused"},
           shown : SUBSET Files, goal : SUBSET Files, todo : SUBSET Files]]
    BY <2>2, <2>3
  <2>5. \A w \in Visitors \ {v} : reader'[w] = reader[w]
    BY <2>2
  <2>. QED
    BY <2>1, <2>4, <2>5
<1>3. CASE ListItems(v)
  BY <1>3 DEF ListItems
<1>4. ASSUME NEW f \in Files, CheckItem(v, f)
      PROVE  VisitsOK' /\ spoilt' = spoilt /\ \A w \in Visitors \ {v} : reader'[w] = reader[w]
  BY <1>4 DEF CheckItem, Refuse
<1>5. CASE ListFiles(v)
  BY <1>5 DEF ListFiles, Turn, Show
<1>6. ASSUME NEW f \in Files, FindItem(v, f) \/ FindCover(v, f) \/ Serve(v, f)
      PROVE  VisitsOK' /\ spoilt' = spoilt /\ \A w \in Visitors \ {v} : reader'[w] = reader[w]
  BY <1>6 DEF FindItem, FindCover, Serve, Turn, Refuse
<1>. QED
  BY <1>1, <1>2, <1>3, <1>4, <1>5, <1>6, ReadsOnly DEF Reads

LEMMA ReadsVisit ==
  ASSUME RowsOK, VisitsOK, ConstantsOK, NEW v \in Visitors, Visit(v), Reads(v)
  PROVE  Visit(v)'
<1>. USE DEF VisitsOK, Visit, Opening, Checked, Alive, Covered, Readable
<1>1. UNCHANGED <<share, items, excluded, file, barred>>
  BY ReadsOnly
<1>2. CASE OpenLink(v)
  <2>1. /\ reader'[v] = [pc |-> "items", shown |-> {}, goal |-> {}, todo |-> {}]
        /\ share = "live"
    BY <1>2 DEF OpenLink, Away
  <2>. QED
    BY <1>1, <2>1
<1>3. ASSUME NEW f \in Files, AskFor(v, f) PROVE Visit(v)'
  BY <1>1, <1>3 DEF AskFor
<1>4. CASE ListItems(v)
  BY <1>1, <1>4 DEF ListItems
<1>5. ASSUME NEW f \in Files, CheckItem(v, f) PROVE Visit(v)'
  BY <1>1, <1>5 DEF CheckItem, Refuse
<1>6. CASE ListFiles(v)
  BY <1>1, <1>6 DEF ListFiles, Turn, Show, Looking
<1>7. ASSUME NEW f \in Files, FindItem(v, f) PROVE Visit(v)'
  BY <1>1, <1>7 DEF FindItem, Turn, Looking
<1>8. ASSUME NEW f \in Files, FindCover(v, f) PROVE Visit(v)'
  BY <1>1, <1>8 DEF FindCover, Turn, Refuse
<1>9. ASSUME NEW f \in Files, Serve(v, f) PROVE Visit(v)'
  BY <1>1, <1>9 DEF Serve, Refuse
<1>. QED
  BY <1>2, <1>3, <1>4, <1>5, <1>6, <1>7, <1>8, <1>9 DEF Reads

LEMMA InitVisits == ConstantsOK /\ Init => Visits
  BY DEF Init, Visits, VisitsOK, Visit, Away, Opening, Checked

LEMMA NextVisits == RowsOK /\ Visits /\ ConstantsOK /\ [Next]_vars => Visits'
<1>. SUFFICES ASSUME RowsOK, Visits, ConstantsOK, [Next]_vars PROVE Visits'
  OBVIOUS
<1>1. CASE UNCHANGED vars
  BY <1>1 DEF vars, rows, visits, Visits, VisitsOK, Visit, Alive, Covered, Readable, Opening,
              Checked
<1>2. CASE World
  BY <1>2, WorldSteady, WorldVisitTypes, SteadyVisit DEF Visits
<1>3. ASSUME NEW v \in Visitors, Reads(v) PROVE Visits'
  <2>1. VisitsOK' /\ Visit(v)'
    BY <1>3, ReadsOwn, ReadsVisit DEF Visits
  <2>2. ASSUME NEW w \in Visitors \ {v} PROVE Visit(w)'
    <3>1. /\ UNCHANGED <<share, items, excluded, file, barred>>
          /\ reader'[w] = reader[w] /\ spoilt'[w] = spoilt[w]
      BY <1>3, ReadsOnly, ReadsOwn DEF Visits
    <3>. QED
      BY <3>1 DEF Visits, Visit, Alive, Covered, Readable, Opening, Checked
  <2>. QED
    BY <2>1, <2>2 DEF Visits
<1>. QED
  BY <1>1, <1>2, <1>3, Split

(* The variables keep their types, whatever files, folders, clients and    *)
(* visitors there are.                                                     *)
THEOREM TypeCorrect == ASSUME ConstantsOK PROVE Spec => []TypeOK
<1>1. Kept /\ Visits => TypeOK
  BY DEF Kept, Visits, TypeOK
<1>2. Kept => RowsOK
  BY DEF Kept
<1>. QED
  BY <1>1, <1>2, ConstantsOK, InitKept, NextKept, InitVisits, NextVisits, PTL DEF Spec

(* resolve_share, get_shared_file_chunks and download_shared_file: of any  *)
(* number of visitors, none is refused a file the link showed, unless a    *)
(* step since the link was opened took the file, the share or the access   *)
(* of its creator away.                                                    *)
THEOREM ShownServed == ASSUME ConstantsOK PROVE Spec => []ShownIsServed
<1>1. Visits => ShownIsServed
  BY DEF Visits, VisitsOK, Visit, ShownIsServed
<1>2. Kept => RowsOK
  BY DEF Kept
<1>. QED
  BY <1>1, <1>2, ConstantsOK, InitKept, NextKept, InitVisits, NextVisits, PTL DEF Spec
=============================================================================
