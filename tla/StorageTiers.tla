---------------------------- MODULE StorageTiers -----------------------------
(***************************************************************************)
(* Where the bytes of a file are: volumes, file_storage_locations, and the *)
(* tasks that move files between volumes.  storage/manager.py and          *)
(* routes/admin_storage.py.                                                *)
(*                                                                         *)
(* Any number of passes may run at once: the hourly one and the half-      *)
(* hourly reconciliation of every worker process.  Each statement commits  *)
(* by itself; only the promotion is a transaction.  The manager, which     *)
(* holds the providers of the volumes, is that of one process.             *)
(***************************************************************************)
EXTENDS FiniteSets, Naturals

CONSTANTS
  Volumes,
  Tier,     \* the tier a volume is made with: "hot", "warm" or "cold"
  Boot,     \* the default volume at first
  Extra,    \* volumes that do not exist at first
  Warm,     \* storage_warm_volume_id
  Cold,     \* storage_cold_volume_id
  Files,
  Copies,   \* files that may be made by copying another
  Movers,   \* passes
  None,
  Changes   \* bound: administrators' changes, purges, failures and crashes

ConstantsOK ==
  /\ Boot \in Volumes \ Extra
  /\ Tier \in [Volumes -> {"hot", "warm", "cold"}]
  /\ {Warm, Cold} \subseteq Volumes
  /\ Copies \subseteq Files
  /\ Changes \in Nat

VARIABLES
  volume,  \* rows of storage_volumes
  flagged, \* the one with is_default
  loaded,  \* volumes whose provider the manager holds
  default, \* the manager's default volume
  file,    \* "none", "live" or "gone"
  key,     \* storage_key, named for the file it was made for
  loc,     \* file_storage_locations: for a file and a volume
  at,      \* volumes that hold the bytes of a key
  queue,   \* blob_cleanup_queue
  mover,
  astray,  \* ghost: files a pass took from another volume than their primary
           \* one, or that two passes were at together
  left

volumes == <<volume, flagged, loaded, default>>
store   == <<file, key, loc, at, queue>>
vars    == <<volumes, store, mover, astray, left>>

NoRow == [primary |-> FALSE, state |-> "none"]
Row(p, s) == [primary |-> p, state |-> s]
States == {"idle", "migrating", "failed"}
Resting == [pc |-> "idle", file |-> None, src |-> None, dst |-> None, was |-> None]

Init ==
  /\ volume = Volumes \ Extra /\ loaded = volume
  /\ flagged = Boot /\ default = Boot
  /\ file = [f \in Files |-> IF f \in Copies THEN "none" ELSE "live"]
  /\ key = [f \in Files |-> IF f \in Copies THEN None ELSE f]
  /\ loc = [f \in Files |-> [v \in Volumes |->
              IF v = Boot /\ f \notin Copies THEN Row(TRUE, "idle") ELSE NoRow]]
  /\ at = [f \in Files |-> IF f \in Copies THEN {} ELSE {Boot}]
  /\ queue = {}
  /\ mover = [m \in Movers |-> Resting]
  /\ astray = {}
  /\ left = Changes

Disturb == left > 0 /\ left' = left - 1
Live(f) == file[f] = "live"
HasRow(f, v) == loc[f][v].state # "none"
Primary(f) == {v \in Volumes : HasRow(f, v) /\ loc[f][v].primary}

(* _get_primary_provider: the default volume's when there is no such row,  *)
(* or none whose provider is held.                                         *)
Provider(f) ==
  IF Primary(f) \cap loaded # {} THEN CHOOSE v \in Primary(f) \cap loaded : TRUE ELSE default

(***************************************************************************)
(* Choosing files.                                                         *)
(***************************************************************************)
Start(m, f, dst) ==
  /\ mover' = [mover EXCEPT ![m] = [Resting EXCEPT !.pc = "source", !.file = f, !.dst = dst]]
  /\ astray' = IF \E n \in Movers : mover[n].file = f THEN astray \cup {f} ELSE astray

(* _tier_aged_files; the ages of the files are left to chance.             *)
SelectAged(m, f, tier, dst) ==
  /\ mover[m].pc = "idle" /\ Live(f)
  /\ \E v \in Primary(f) : /\ loc[f][v].state = "idle"
                           /\ v \in volume /\ Tier[v] = tier /\ v # dst
  /\ Start(m, f, dst)
  /\ UNCHANGED <<volumes, store, left>>

(* _reconcile_failed_migrations.                                           *)
SelectFailed(m, f, dst) ==
  /\ mover[m].pc = "idle" /\ Live(f)
  /\ loc[f][dst].state = "failed"
  /\ Start(m, f, dst)
  /\ UNCHANGED <<volumes, store, left>>

(***************************************************************************)
(* migrate_tier                                                            *)
(***************************************************************************)
Move(m, pc) == mover' = [mover EXCEPT ![m].pc = pc]
Finish(m)   == mover' = [mover EXCEPT ![m] = Resting]

FindSource(m) ==
  LET f == mover[m].file IN
  /\ mover[m].pc = "source"
  /\ IF mover[m].dst \in loaded
     THEN /\ mover' = [mover EXCEPT ![m].pc = "mark", ![m].src = Provider(f)]
          /\ astray' = IF Primary(f) \subseteq {Provider(f)} THEN astray ELSE astray \cup {f}
     ELSE Finish(m) /\ UNCHANGED astray
  /\ UNCHANGED <<volumes, store, left>>

(* is_primary is 0 in a new row and stays what it was in an old one.       *)
Marked(old) == Row(old.primary, "migrating")

(* The file's and the volume's rows are foreign keys.                      *)
Mark(m) ==
  LET f == mover[m].file
      d == mover[m].dst
  IN
  /\ mover[m].pc = "mark"
  /\ IF d \in volume /\ Live(f)
     THEN /\ loc' = [loc EXCEPT ![f][d] = Marked(@)]
          /\ Move(m, "copy")
     ELSE Finish(m) /\ UNCHANGED loc
  /\ UNCHANGED <<volumes, file, key, at, queue, left, astray>>

CopyBlob(m) ==
  LET k == key[mover[m].file] IN
  /\ mover[m].pc = "copy"
  /\ IF mover[m].src \in at[k]
     THEN at' = [at EXCEPT ![k] = @ \cup {mover[m].dst}] /\ Move(m, "verify")
     ELSE Move(m, "fail") /\ UNCHANGED at
  /\ UNCHANGED <<volumes, file, key, loc, queue, left, astray>>

(* A volume cannot be reached, or has no room.                             *)
CopyFails(m) ==
  /\ mover[m].pc \in {"copy", "verify"}
  /\ Disturb
  /\ Move(m, "fail")
  /\ UNCHANGED <<volumes, store, astray>>

(* The sizes of both blobs; one that is missing raises.                    *)
Verified(m) == {mover[m].src, mover[m].dst} \subseteq at[key[mover[m].file]]

Verify(m) ==
  /\ mover[m].pc = "verify"
  /\ Move(m, IF Verified(m) THEN "promote" ELSE "fail")
  /\ UNCHANGED <<volumes, store, left, astray>>

(* The pass is over with this file; the mutant forgets the return.         *)
GiveUp_GoesOn(m) == Move(m, "promote")
GiveUp(m) == Finish(m)

MarkFailed(m) ==
  LET f == mover[m].file
      d == mover[m].dst
  IN
  /\ mover[m].pc = "fail"
  /\ loc' = [loc EXCEPT ![f][d] = IF HasRow(f, d) THEN Row(@.primary, "failed") ELSE @]
  /\ GiveUp(m)
  /\ UNCHANGED <<volumes, file, key, at, queue, left, astray>>

(* The row that is primary now need not be the one the copy was made from. *)
Leaves(m) == LET ps == Primary(mover[m].file) IN IF ps = {} THEN None ELSE CHOOSE v \in ps : TRUE

Promote(m) ==
  LET f == mover[m].file
      d == mover[m].dst
      s == Leaves(m)
  IN
  /\ mover[m].pc = "promote"
  /\ loc' = [loc EXCEPT ![f] = [v \in Volumes |->
       IF ~HasRow(f, v) THEN NoRow
       ELSE IF v = d THEN Row(TRUE, "idle")
       ELSE IF v = s THEN Row(FALSE, loc[f][v].state) ELSE loc[f][v]]]
  /\ IF s \in {None, d}
     THEN Finish(m)
     ELSE mover' = [mover EXCEPT ![m].pc = "erase", ![m].was = s]
  /\ UNCHANGED <<volumes, file, key, at, queue, left, astray>>

(* _soft_delete of the blob that was copied from.                          *)
EraseSource(m) ==
  LET k == key[mover[m].file] IN
  /\ mover[m].pc = "erase"
  /\ at' = [at EXCEPT ![k] = @ \ {mover[m].src}]
  /\ Move(m, "unlist")
  /\ UNCHANGED <<volumes, file, key, loc, queue, left, astray>>

(* A failure is logged; the blob stays, and no row names it any more.      *)
EraseFails(m) ==
  /\ mover[m].pc = "erase"
  /\ Disturb
  /\ Move(m, "unlist")
  /\ UNCHANGED <<volumes, store, astray>>

DropRow(m) ==
  /\ mover[m].pc = "unlist"
  /\ loc' = [loc EXCEPT ![mover[m].file][mover[m].was] = NoRow]
  /\ Finish(m)
  /\ UNCHANGED <<volumes, file, key, at, queue, left, astray>>

(* load_volumes, when every provider can be built.                         *)
Load(vs, v) == loaded' = vs /\ default' = v

(* All of a process's passes end; another starts with what the tables say. *)
Crash ==
  /\ Disturb
  /\ mover' = [m \in Movers |-> Resting]
  /\ Load(volume, flagged)
  /\ UNCHANGED <<volume, flagged, store, astray>>

(***************************************************************************)
(* Volumes.  Each handler ends with load_volumes.                          *)
(***************************************************************************)
CreateVolume(v) ==
  /\ v \in Extra \ volume
  /\ Disturb
  /\ volume' = volume \cup {v}
  /\ Load(volume', flagged)
  /\ UNCHANGED <<flagged, store, mover, astray>>

DeleteVolume(v) ==
  /\ v \in volume \ {flagged}
  /\ \A f \in Files : ~HasRow(f, v)
  /\ Disturb
  /\ volume' = volume \ {v}
  /\ Load(volume', flagged)
  /\ UNCHANGED <<flagged, store, mover, astray>>

SetDefault(v) ==
  /\ v \in volume
  /\ Disturb
  /\ flagged' = v
  /\ Load(volume, v)
  /\ UNCHANGED <<volume, store, mover, astray>>

(* A provider that cannot be built, or whose configuration does not        *)
(* decrypt, is left out until volumes are loaded again; without that of    *)
(* the flagged volume another is the default.                              *)
LoadSkips(v) ==
  /\ v \in loaded /\ loaded # {v}
  /\ Disturb
  /\ loaded' = loaded \ {v}
  /\ IF default = v THEN default' \in loaded' ELSE UNCHANGED default
  /\ UNCHANGED <<volume, flagged, store, mover, astray>>

(***************************************************************************)
(* Files.                                                                  *)
(***************************************************************************)
(* A copy shares the key and has no location of its own.                   *)
CopyFile(f, g) ==
  /\ Live(f) /\ g \in Copies /\ file[g] = "none"
  /\ Disturb
  /\ file' = [file EXCEPT ![g] = "live"]
  /\ key' = [key EXCEPT ![g] = key[f]]
  /\ UNCHANGED <<volumes, loc, at, queue, mover, astray>>

Held(f) ==
  LET vs == {v \in Volumes : HasRow(f, v)} IN IF vs = {} THEN {"__default__"} ELSE vs

PurgeFile(f) ==
  /\ Live(f)
  /\ Disturb
  /\ file' = [file EXCEPT ![f] = "gone"]
  /\ queue' = queue \cup {[key |-> key[f], volume |-> v] : v \in Held(f)}
  /\ loc' = [loc EXCEPT ![f] = [v \in Volumes |-> NoRow]]
  /\ UNCHANGED <<volumes, key, at, mover, astray>>

(* delete_blob_direct: a volume that is not loaded stands for the default. *)
CleanBlob(q) ==
  LET v == IF q.volume \in loaded THEN q.volume ELSE default IN
  /\ q \in queue
  /\ queue' = queue \ {q}
  /\ at' = IF \E f \in Files : Live(f) /\ key[f] = q.key
           THEN at ELSE [at EXCEPT ![q.key] = @ \ {v}]
  /\ UNCHANGED <<volumes, file, key, loc, mover, left, astray>>

(* _soft_delete logs a failure here too, and the row goes.                 *)
CleanFails(q) ==
  /\ q \in queue
  /\ Disturb
  /\ queue' = queue \ {q}
  /\ UNCHANGED <<volumes, file, key, loc, at, mover, astray>>

Next ==
  \/ \E m \in Movers, f \in Files : SelectAged(m, f, "hot", Warm)
  \/ \E m \in Movers, f \in Files : SelectAged(m, f, "warm", Cold)
  \/ \E m \in Movers, f \in Files, v \in Volumes : SelectFailed(m, f, v)
  \/ \E m \in Movers : FindSource(m)
  \/ \E m \in Movers : Mark(m)
  \/ \E m \in Movers : CopyBlob(m)
  \/ \E m \in Movers : CopyFails(m)
  \/ \E m \in Movers : Verify(m)
  \/ \E m \in Movers : MarkFailed(m)
  \/ \E m \in Movers : Promote(m)
  \/ \E m \in Movers : EraseSource(m)
  \/ \E m \in Movers : EraseFails(m)
  \/ \E m \in Movers : DropRow(m)
  \/ Crash
  \/ \E v \in Volumes : CreateVolume(v)
  \/ \E v \in Volumes : DeleteVolume(v)
  \/ \E v \in Volumes : SetDefault(v)
  \/ \E v \in Volumes : LoadSkips(v)
  \/ \E f, g \in Files : CopyFile(f, g)
  \/ \E f \in Files : PurgeFile(f)
  \/ \E q \in queue : CleanBlob(q)
  \/ \E q \in queue : CleanFails(q)

Spec == Init /\ [][Next]_vars

(***************************************************************************)
(* _get_read_provider: idle rows first, whose volume holds the blob; else  *)
(* the default volume.                                                     *)
(***************************************************************************)
Readable(f) ==
  \/ \E v \in loaded : loc[f][v].state = "idle" /\ v \in at[key[f]]
  \/ default \in at[key[f]]

TypeOK ==
  /\ loaded \subseteq volume /\ volume \subseteq Volumes
  /\ flagged \in volume /\ default \in loaded
  /\ file \in [Files -> {"none", "live", "gone"}]
  /\ key \in [Files -> Files \cup {None}]
  /\ loc \in [Files -> [Volumes -> [primary : BOOLEAN, state : States \cup {"none"}]]]
  /\ at \in [Files -> SUBSET Volumes]
  /\ queue \subseteq [key : Files, volume : Volumes \cup {"__default__"}]
  /\ mover \in [Movers -> [pc : {"idle", "source", "mark", "copy", "verify", "fail", "promote",
                                 "erase", "unlist"},
                           file : Files \cup {None}, src : Volumes \cup {None},
                           dst : Volumes \cup {None}, was : Volumes \cup {None}]]
  /\ astray \subseteq Files
  /\ left \in 0..Changes

(* A file that was uploaded, not copied from another, can be read while it *)
(* is moved, whenever the pass that moves it stops or fails, and whatever  *)
(* volume is the default: migrate_tier marks, copies, compares, promotes   *)
(* and only then deletes.  Astray are files two passes are at, and those   *)
(* whose primary volume could not be loaded when a pass looked for it: the *)
(* pass copies from the default volume instead, and erases the copy there  *)
(* when it removes the row of the primary one.                             *)
OriginalsRead ==
  \A f \in Files \ (Copies \cup astray) : Live(f) /\ loaded = volume => Readable(f)

(* "Move a blob from its current primary volume to target_volume_id": its  *)
(* bytes are on some volume.  Two passes that overlap break it.            *)
NeverLost == \A f \in Files \ Copies : Live(f) => at[key[f]] # {}
=============================================================================
