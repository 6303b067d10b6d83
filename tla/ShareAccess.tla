----------------------------- MODULE ShareAccess -----------------------------
(***************************************************************************)
(* One share as its visitors use it: resolving the link or its short link, *)
(* limited downloads, and uploads against the share's budget and the       *)
(* creator's quota, while the share is changed, closed or deleted.         *)
(* routes/shares.py.                                                       *)
(*                                                                         *)
(* A request reads the share's row once and works with what it read; the   *)
(* two counters are claimed by conditional UPDATEs at the end.             *)
(***************************************************************************)
EXTENDS FiniteSets, FiniteSetsExt, Integers

CONSTANTS
  Files,     \* what is shared at first; a visitor's upload goes by its name
  Foreign,   \* files of other owners, readable through a folder
  Visitors,  \* each makes at most one download or upload
  SignedIn,  \* visitors with a session of their own
  Owner,     \* the share's creator, as a visitor
  Recipient, \* shares.target_user_id, as a visitor
  Size,      \* bytes of a file and of what a visitor uploads
  Quota,     \* the creator's disk_quota
  Default,   \* _SHARE_UPLOAD_DEFAULT_BUDGET
  Asked,     \* values of upload_max_bytes that are tried
  Limits,    \* values of max_downloads that are tried
  Purges,    \* requests and tasks that purge a file, each one
  None,      \* no share, no limit, no file
  Changes    \* bound: changes, expiries, crashes and files that are purged

(* A row of shares: its limit on downloads and its budget for uploads.     *)
Shares ==
  [kind : {"user", "upload"}, open : BOOLEAN, limit : Limits \cup {None},
   count : Nat, budget : Nat, uploaded : Nat]

ConstantsOK ==
  /\ IsFiniteSet(Files) /\ IsFiniteSet(Visitors)
  /\ SignedIn \subseteq Visitors
  /\ {Owner, Recipient} \subseteq SignedIn
  /\ Foreign \subseteq Files
  /\ Files \cap Visitors = {}
  /\ Size \in [Files \cup Visitors -> Nat \ {0}]
  /\ Quota \in Nat
  /\ Default \in Nat \ {0}
  /\ Asked \subseteq Nat \ {0}
  /\ Limits \subseteq Nat \ {0}
  /\ None \notin Limits /\ None \notin Shares
  /\ Changes \in Nat
  /\ None \notin Files \cup Visitors

VARIABLES
  share,   \* the row, or None
  made,    \* whether it was created already
  top,     \* ghost: the largest limit it has had
  items,   \* files with a share_items row
  file,    \* "none", "live", "trashed" or "gone"
  access,  \* foreign files the creator may read now
  used,    \* the creator's disk_used
  blob,    \* visitors whose bytes are on the volume and not queued for removal
  slug,    \* the short link: "none", "live" or "expired"
  session, \* visitors with a share session token
  visit,
  purge,   \* purges: what each has read, and whether it is over
  again,   \* history: files whose bytes were given back more than once
  left

row   == <<share, made, top, slug>>
store == <<items, file, access, used, blob>>
purged == <<purge, again>>
vars  == <<row, store, session, visit, purged, left>>

Total(S) == MapThenSumSet(LAMBDA x : Size[x], S)
Arrived == [pc |-> "new", file |-> None, whole |-> TRUE, limit |-> None]

Init ==
  /\ share = None /\ made = FALSE /\ top = 0
  /\ items = {}
  /\ file = [x \in Files \cup Visitors |-> IF x \in Files THEN "live" ELSE "none"]
  /\ access = Foreign
  /\ used = Total(Files \ Foreign)
  /\ blob = {} /\ slug = "none" /\ session = {}
  /\ visit = [v \in Visitors |-> Arrived]
  /\ purge = [p \in Purges |-> [pc |-> "new", file |-> None]]
  /\ again = {}
  /\ left = Changes

Disturb == left > 0 /\ left' = left - 1
Goto(v, pc) == visit' = [visit EXCEPT ![v].pc = pc]
Least(a, b) == IF a < b THEN a ELSE b

(***************************************************************************)
(* The creator's side.                                                     *)
(***************************************************************************)
(* The budget is worked out once, from what is free now.                   *)
Budget(asked) == Least(asked, Least(Default, IF used < Quota THEN Quota - used ELSE 0))

Fresh(kind, lim, budget) ==
  [kind |-> kind, open |-> TRUE, limit |-> lim, count |-> 0,
   budget |-> budget, uploaded |-> 0]

Raise(lim) == top' = IF lim # None /\ lim > top THEN lim ELSE top

CreateShare(kind, lim, asked) ==
  /\ ~made
  /\ kind = "upload" => Budget(asked) > 0
  /\ share' = Fresh(kind, lim, IF kind = "upload" THEN Budget(asked) ELSE 0)
  /\ made' = TRUE
  /\ Raise(lim)
  /\ items' = {f \in Files : file[f] # "gone"}
  /\ UNCHANGED <<file, access, used, blob, slug, session, visit, purged, left>>

(* is_active or expires_at: closed and opened again, also by an expiry, an *)
(* administrator's emergency action or the end of the account.             *)
OpenOrClose ==
  /\ share # None
  /\ Disturb
  /\ share' = [share EXCEPT !.open = ~@]
  /\ UNCHANGED <<made, top, slug, store, session, visit, purged>>

(* Nothing compares the new limit with the downloads there were.           *)
ChangeLimit(lim) ==
  /\ share # None /\ lim # None
  /\ Disturb
  /\ share' = [share EXCEPT !.limit = lim]
  /\ Raise(lim)
  /\ UNCHANGED <<made, slug, store, session, visit, purged>>

(* The row is locked by an upload's transaction once its item is inserted. *)
Unlocked == \A v \in Visitors : visit[v].pc # "claim"

Drop == share' = None /\ slug' = "none"

DeleteShare ==
  /\ share # None /\ Unlocked
  /\ Disturb
  /\ Drop
  /\ items' = {}
  /\ UNCHANGED <<made, top, file, access, used, blob, session, visit, purged>>

CreateShortLink ==
  /\ share # None /\ share.open /\ slug = "none"
  /\ slug' = "live"
  /\ UNCHANGED <<share, made, top, store, session, visit, purged, left>>

ExpireShortLink ==
  /\ slug = "live"
  /\ Disturb
  /\ slug' = "expired"
  /\ UNCHANGED <<share, made, top, store, session, visit, purged>>

(* A foreign file is moved out of, or back into, what the creator may read.*)
MoveFile(f) ==
  /\ f \in Foreign
  /\ Disturb
  /\ access' = IF f \in access THEN access \ {f} ELSE access \cup {f}
  /\ UNCHANGED <<row, items, file, used, blob, session, visit, purged>>

TrashFile(x) ==
  /\ file[x] = "live"
  /\ Disturb
  /\ file' = [file EXCEPT ![x] = "trashed"]
  /\ UNCHANGED <<row, items, access, used, blob, session, visit, purged>>

(* A purge: the row is read, then it is deleted by id and its bytes given  *)
(* back, whether the DELETE finds it or not.  A share whose last item goes *)
(* is deleted with it, uploads allowed or not; the bytes are queued.       *)
PurgeRead(p, x) ==
  /\ purge[p].pc = "new"
  /\ file[x] \in {"live", "trashed"}
  /\ \/ Disturb
     \/ UNCHANGED left /\ \E q \in Purges : purge[q].file = x
  /\ purge' = [purge EXCEPT ![p] = [pc |-> "found", file |-> x]]
  /\ UNCHANGED <<row, store, session, visit, again>>

Refund(x) == IF x \in Foreign THEN 0 ELSE Size[x]

PurgeFile(p) ==
  LET x == purge[p].file IN
  /\ purge[p].pc = "found"
  /\ items = {x} => Unlocked
  /\ file' = [file EXCEPT ![x] = "gone"]
  /\ used' = IF Refund(x) > used THEN 0 ELSE used - Refund(x)
  /\ again' = IF file[x] = "gone" THEN again \cup {x} ELSE again
  /\ blob' = blob \ {x}
  /\ items' = items \ {x}
  /\ IF items = {x} THEN Drop ELSE UNCHANGED <<share, slug>>
  /\ purge' = [purge EXCEPT ![p] = [pc |-> "over", file |-> None]]
  /\ UNCHANGED <<made, top, access, session, visit, left>>

(***************************************************************************)
(* Resolving.                                                              *)
(***************************************************************************)
Open == share # None /\ share.open

(* Each file with an item must exist, and be the creator's or readable.    *)
CreatorHasAccess == \A x \in items : file[x] # "gone" /\ (x \in Foreign => x \in access)

Admitted(v) == v \in SignedIn \/ v \in session

Resolve(v) ==
  /\ Open
  /\ share.kind = "user" => v = Recipient
  /\ CreatorHasAccess
  /\ session' = IF share.kind = "user" THEN session ELSE session \cup {v}
  /\ UNCHANGED <<row, store, visit, purged, left>>

(* A short link asks neither who the visitor is nor what the creator may.  *)
ResolveShortLink(v) ==
  /\ slug = "live" /\ Open
  /\ session' = session \cup {v}
  /\ UNCHANGED <<row, store, visit, purged, left>>

(***************************************************************************)
(* download_shared_file and get_shared_file_chunks.                        *)
(***************************************************************************)
(* whole: no Range header, or a first range of more than 1024 bytes.       *)
OpenDownload(v, x, whole) ==
  /\ visit[v].pc = "new"
  /\ file[x] # "none"
  /\ Open /\ Admitted(v)
  /\ visit' = [visit EXCEPT ![v] = [pc |-> "verify", file |-> x, whole |-> whole,
                                    limit |-> share.limit]]
  /\ UNCHANGED <<row, store, session, purged, left>>

Verify(v) ==
  LET x == visit[v].file IN
  /\ visit[v].pc = "verify"
  /\ Goto(v, IF CreatorHasAccess /\ x \in items /\ file[x] = "live" THEN "count" ELSE "refused")
  /\ UNCHANGED <<row, store, session, purged, left>>

(* get_shared_file_chunks ends here.                                       *)
Manifest(v) ==
  /\ visit[v].pc = "count"
  /\ Goto(v, "listed")
  /\ UNCHANGED <<row, store, session, purged, left>>

(* The row was read with a limit, by somebody else than the creator.       *)
Counts(v) == v # Owner /\ visit[v].limit # None /\ visit[v].whole

(* The mutant lets one more through than the limit.                        *)
Claimable_Inclusive == share # None /\ share.limit # None /\ share.count <= share.limit
Claimable == share # None /\ share.limit # None /\ share.count < share.limit

Count(v) ==
  /\ visit[v].pc = "count" /\ Counts(v)
  /\ IF Claimable
     THEN share' = [share EXCEPT !.count = @ + 1] /\ Goto(v, "served")
     ELSE UNCHANGED share /\ Goto(v, "refused")
  /\ UNCHANGED <<made, top, slug, store, session, purged, left>>

ServeUncounted(v) ==
  /\ visit[v].pc = "count" /\ ~Counts(v)
  /\ Goto(v, "free")
  /\ UNCHANGED <<row, store, session, purged, left>>

(***************************************************************************)
(* upload_to_share.                                                        *)
(***************************************************************************)
OpenUpload(v) ==
  /\ visit[v].pc = "new"
  /\ Admitted(v)
  /\ Open /\ share.kind = "upload"
  /\ Goto(v, IF share.uploaded + Size[v] <= share.budget THEN "write" ELSE "refused")
  /\ UNCHANGED <<row, store, session, purged, left>>

(* Inside the transaction; the bytes are written outside of it.            *)
WriteUpload(v) ==
  /\ visit[v].pc = "write"
  /\ blob' = blob \cup {v}
  /\ Goto(v, IF share # None /\ used + Size[v] <= Quota THEN "claim" ELSE "cleanup")
  /\ UNCHANGED <<row, items, file, access, used, session, purged, left>>

Fits_Unchecked(v) == TRUE
Fits(v) == share.uploaded + Size[v] <= share.budget

ClaimUpload(v) ==
  /\ visit[v].pc = "claim"
  /\ IF Fits(v)
     THEN /\ share' = [share EXCEPT !.uploaded = @ + Size[v]]
          /\ used' = used + Size[v]
          /\ items' = items \cup {v}
          /\ file' = [file EXCEPT ![v] = "live"]
          /\ Goto(v, "stored")
     ELSE /\ Goto(v, "cleanup")
          /\ UNCHANGED <<share, used, items, file>>
  /\ UNCHANGED <<made, top, slug, access, blob, session, purged, left>>

(* _bg_delete_blob, a task of its own, and the provider's deletion in it,  *)
(* which swallows a failure: the bytes are left.                           *)
CleanBlob(v) ==
  /\ visit[v].pc = "cleanup"
  /\ \/ blob' = blob \ {v} /\ Goto(v, "refused")
     \/ UNCHANGED blob /\ Goto(v, "unclean")
  /\ UNCHANGED <<row, items, file, access, used, session, purged, left>>

(* Open transactions are rolled back, tasks are forgotten.                 *)
InFlight == {"verify", "count", "write", "claim", "cleanup"}

Crash ==
  /\ Disturb
  /\ visit' = [v \in Visitors |->
                 IF visit[v].pc \in InFlight THEN [visit[v] EXCEPT !.pc = "lost"] ELSE visit[v]]
  /\ purge' = [p \in Purges |-> [pc |-> "over", file |-> None]]
  /\ UNCHANGED <<row, store, session, again>>

Next ==
  \/ \E kind \in {"user", "upload"}, lim \in Limits \cup {None}, n \in Asked :
       CreateShare(kind, lim, n)
  \/ OpenOrClose
  \/ \E lim \in Limits : ChangeLimit(lim)
  \/ DeleteShare
  \/ CreateShortLink
  \/ ExpireShortLink
  \/ \E f \in Foreign : MoveFile(f)
  \/ \E x \in Files \cup Visitors : TrashFile(x)
  \/ \E p \in Purges, x \in Files \cup Visitors : PurgeRead(p, x)
  \/ \E p \in Purges : PurgeFile(p)
  \/ \E v \in Visitors : Resolve(v)
  \/ \E v \in Visitors : ResolveShortLink(v)
  \/ \E v \in Visitors, x \in Files \cup Visitors, w \in BOOLEAN : OpenDownload(v, x, w)
  \/ \E v \in Visitors : Verify(v)
  \/ \E v \in Visitors : Manifest(v)
  \/ \E v \in Visitors : Count(v)
  \/ \E v \in Visitors : ServeUncounted(v)
  \/ \E v \in Visitors : OpenUpload(v)
  \/ \E v \in Visitors : WriteUpload(v)
  \/ \E v \in Visitors : ClaimUpload(v)
  \/ \E v \in Visitors : CleanBlob(v)
  \/ Crash

Spec == Init /\ [][Next]_vars

Pcs == {"new", "refused", "unclean", "listed", "served", "free", "stored", "lost"} \cup InFlight

TypeOK ==
  /\ share \in Shares \cup {None}
  /\ share # None => share.count <= Cardinality(Visitors) /\ share.budget <= Default
  /\ made \in BOOLEAN /\ top \in {0} \cup Limits
  /\ items \subseteq Files \cup Visitors
  /\ file \in [Files \cup Visitors -> {"none", "live", "trashed", "gone"}]
  /\ access \subseteq Foreign
  /\ used \in Nat
  /\ blob \subseteq Visitors
  /\ slug \in {"none", "live", "expired"}
  /\ session \subseteq Visitors
  /\ visit \in [Visitors -> [pc : Pcs, file : Files \cup Visitors \cup {None},
                             whole : BOOLEAN, limit : Limits \cup {None}]]
  /\ purge \in [Purges -> [pc : {"new", "found", "over"}, file : Files \cup Visitors \cup {None}]]
  /\ again \subseteq Files \cup Visitors
  /\ left \in 0..Changes

(* However downloads overlap, and whatever becomes of the limit meanwhile, *)
(* those that count are counted, and never more than the largest limit     *)
(* there was.  _enforce_download_limit claims its turn with an UPDATE.     *)
LimitHolds ==
  share # None =>
    /\ Cardinality({v \in Visitors : visit[v].pc = "served"}) = share.count
    /\ share.count <= top

(* What visitors have stored is what the budget has lost and never exceeds *)
(* it; the creator is charged for the files there are, unless two purges   *)
(* gave one back, and never for more; bytes of an upload that failed stay  *)
(* only if the server stopped before it removed them, or their removal     *)
(* failed.                                                                 *)
Existing == {x \in (Files \ Foreign) \cup Visitors : file[x] \in {"live", "trashed"}}

UploadsAccounted ==
  /\ share # None =>
       /\ share.uploaded = Total({v \in Visitors : visit[v].pc = "stored"})
       /\ share.uploaded <= share.budget
  /\ used <= Total(Existing)
  /\ again \subseteq Foreign => used = Total(Existing)
  /\ \A v \in blob : file[v] \in {"live", "trashed"}
                    \/ visit[v].pc \in {"claim", "cleanup", "unclean", "lost"}
=============================================================================
