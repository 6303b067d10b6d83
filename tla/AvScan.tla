-------------------------------- MODULE AvScan --------------------------------
(***************************************************************************)
(* The antivirus queue, its worker loops and the verdict of a file:        *)
(* services/av_scanner.py, the bulk rescan of routes/admin.py and what     *)
(* files.py and admin_emergency.py do with verdicts and locks.             *)
(*                                                                         *)
(* Every process runs one worker; a bulk rescan starts a task for each     *)
(* file beside them.  A statement of scan_file commits by itself.          *)
(***************************************************************************)
EXTENDS FiniteSets, Naturals

CONSTANTS
  Files,
  Uploaded,  \* files that arrive by an upload; the others are made by copying
  Shared,    \* uploads made through a share, which nothing enqueues
  Unescrowed,\* uploads without escrow key material
  Infected,  \* what the service says of a file when it answers
  Workers,
  Attempts,  \* AV_SCAN_RETRY_ATTEMPTS
  None,
  Changes    \* bound: crashes, failures, slow scans, administrators' changes

ConstantsOK ==
  /\ Uploaded \subseteq Files
  /\ Infected \subseteq Files
  /\ Shared \subseteq Uploaded
  /\ Unescrowed \subseteq Uploaded
  /\ Workers \cap Files = {}
  /\ Attempts \in Nat \ {0}
  /\ Changes \in Nat

VARIABLES
  service,  \* "off" (no endpoint, or no escrow key), "bad" (not valid) or "on"
  status,   \* av_scan_status; "absent" before and after the file's life
  locked,   \* files with transfer_locked_at
  queue,    \* av_scan_queue
  scan,     \* a run of scan_file: one per worker, one per file for rescans
  contested, \* ghost: two runs at once, or an error from a run that did not look
  excused,  \* ghost: infected files whose lock was lifted, lost or never due
  left

vars == <<service, status, locked, queue, scan, contested, excused, left>>

NoRow == [state |-> "none", attempts |-> 0]
Resting == [pc |-> "idle", file |-> None, verdict |-> "error", tried |-> 0]
Verdicts == {"clean", "infected"}
Runs == Workers \cup Files

Init ==
  /\ service = "on"
  /\ status = [f \in Files |-> "absent"]
  /\ locked = {}
  /\ queue = [f \in Files |-> NoRow]
  /\ scan = [s \in Runs |-> Resting]
  /\ contested = {} /\ excused = {}
  /\ left = Changes

Disturb == left > 0 /\ left' = left - 1
Exists(f) == status[f] # "absent"
On(f) == {s \in Runs : scan[s].file = f /\ scan[s].pc # "close"}

(***************************************************************************)
(* Files.                                                                  *)
(***************************************************************************)
(* The queue's row is in the transaction that completes the upload.        *)
Upload(f) ==
  /\ f \in Uploaded /\ status[f] = "absent" /\ queue[f] = NoRow /\ On(f) = {}
  /\ f \notin excused
  /\ status' = [status EXCEPT ![f] = "null"]
  /\ queue' = IF f \in Shared THEN queue ELSE [queue EXCEPT ![f].state = "pending"]
  /\ UNCHANGED <<service, locked, scan, contested, excused, left>>

(* The status is copied, the lock and the queue's row are not.  The copy   *)
(* has a fresh id.                                                         *)
Copy(f, g) ==
  /\ Exists(f) /\ g \in Files \ Uploaded /\ ~Exists(g) /\ g \notin excused
  /\ Disturb
  /\ status' = [status EXCEPT ![g] = status[f]]
  /\ excused' = excused \cup {g}
  /\ UNCHANGED <<service, locked, queue, scan, contested>>

Purge(f) ==
  /\ Exists(f)
  /\ Disturb
  /\ status' = [status EXCEPT ![f] = "absent"]
  /\ locked' = locked \ {f}
  /\ queue' = [queue EXCEPT ![f] = NoRow]
  /\ excused' = excused \cup {f}
  /\ UNCHANGED <<service, scan, contested>>

EmergencyLock(f) ==
  /\ Exists(f) /\ f \notin locked
  /\ Disturb
  /\ locked' = locked \cup {f}
  /\ UNCHANGED <<service, status, queue, scan, contested, excused>>

Unlock(f) ==
  /\ f \in locked
  /\ Disturb
  /\ locked' = locked \ {f}
  /\ excused' = excused \cup {f}
  /\ UNCHANGED <<service, status, queue, scan, contested>>

Configure(s) ==
  /\ service # s
  /\ Disturb
  /\ service' = s
  /\ UNCHANGED <<status, locked, queue, scan, contested, excused>>

(***************************************************************************)
(* The worker loop.                                                        *)
(***************************************************************************)
(* Ten minutes after the claim, whoever holds it; the mutant never looks.  *)
Stale_Never(f) == FALSE
Stale(f) == queue[f].state = "scanning"

Recover(f) ==
  /\ Stale(f)
  /\ \E w \in Workers : scan[w].pc = "idle"
  /\ IF \E w \in Workers : scan[w].file = f THEN Disturb ELSE UNCHANGED left
  /\ queue' = [queue EXCEPT ![f].state = "pending"]
  /\ UNCHANGED <<service, status, locked, scan, contested, excused>>

(* FOR UPDATE SKIP LOCKED; the attempts are counted, never compared.       *)
Claim(w, f) ==
  /\ scan[w].pc = "idle" /\ queue[f].state = "pending"
  /\ queue' = [queue EXCEPT ![f] = [state |-> "scanning", attempts |-> @.attempts + 1]]
  /\ scan' = [scan EXCEPT ![w] = [Resting EXCEPT !.pc = "load", !.file = f,
                                                 !.tried = queue[f].attempts]]
  /\ contested' = contested \cup {g \in {f} : On(g) # {}}
  /\ UNCHANGED <<service, status, locked, excused, left>>

(* An exception that leaves scan_file, or the statement after it.          *)
Raise(w) ==
  LET f == scan[w].file
      n == scan[w].tried + 1
  IN
  /\ w \in Workers /\ scan[w].pc \notin {"idle", "lock"}
  /\ Disturb
  /\ queue' = IF queue[f] = NoRow THEN queue
              ELSE [queue EXCEPT ![f] = [state |-> IF n >= Attempts THEN "failed" ELSE "pending",
                                         attempts |-> n]]
  /\ scan' = [scan EXCEPT ![w] = Resting]
  /\ UNCHANGED <<service, status, locked, contested, excused>>

(* Also when scan_file has swallowed an error: nothing scans f again.      *)
Close(w) ==
  LET f == scan[w].file IN
  /\ w \in Workers /\ scan[w].pc = "close"
  /\ queue' = IF queue[f] = NoRow THEN queue ELSE [queue EXCEPT ![f].state = "completed"]
  /\ scan' = [scan EXCEPT ![w] = Resting]
  /\ UNCHANGED <<service, status, locked, contested, excused, left>>

(* bulk_av_rescan: 'pending' files are passed over.                        *)
BulkRescan ==
  LET due == {f \in Files : status[f] \in {"null", "error"}} IN
  /\ due # {} /\ \A f \in due : scan[f].pc = "idle"
  /\ Disturb
  /\ scan' = [s \in Runs |-> IF s \in due THEN [Resting EXCEPT !.pc = "load", !.file = s]
                             ELSE scan[s]]
  /\ contested' = contested \cup {f \in due : On(f) # {}}
  /\ UNCHANGED <<service, status, locked, queue, excused>>

(***************************************************************************)
(* scan_file                                                               *)
(***************************************************************************)
(* A worker goes on to close the row, a task is over.                      *)
Ended(s) == IF s \in Workers THEN [scan[s] EXCEPT !.pc = "close"] ELSE Resting
End(s) == scan' = [scan EXCEPT ![s] = Ended(s)]
Say(s, v) == scan' = [scan EXCEPT ![s].pc = "write", ![s].verdict = v]

Definitive_Clean(f) == status[f] = "clean"
Definitive(f) == status[f] \in Verdicts

Load(s) ==
  LET f == scan[s].file IN
  /\ scan[s].pc = "load"
  /\ CASE service = "off" -> End(s)
       [] service = "bad" -> Say(s, "error")
       [] service = "on" /\ (~Exists(f) \/ Definitive(f)) -> End(s)
       [] service = "on" /\ Exists(f) /\ ~Definitive(f) ->
            IF f \in Unescrowed THEN Say(s, "error")
            ELSE scan' = [scan EXCEPT ![s].pc = "begin"]
  /\ contested' = IF service = "bad" THEN contested \cup {f} ELSE contested
  /\ UNCHANGED <<service, status, locked, queue, excused, left>>

WriteStatus(f, v) == status' = IF Exists(f) THEN [status EXCEPT ![f] = v] ELSE status

Begin(s) ==
  /\ scan[s].pc = "begin"
  /\ WriteStatus(scan[s].file, "pending")
  /\ scan' = [scan EXCEPT ![s].pc = "ask"]
  /\ UNCHANGED <<service, locked, queue, contested, excused, left>>

(* The key, the chunks and the service: one of them may fail for good.     *)
Ask(s) ==
  LET answer == IF scan[s].file \in Infected THEN "infected" ELSE "clean" IN
  /\ scan[s].pc = "ask"
  /\ \E v \in {answer, "error"} : Say(s, v)
  /\ UNCHANGED <<service, status, locked, queue, contested, excused, left>>

Locks(v) == v = "infected"

Proceed(s) ==
  IF Locks(scan[s].verdict) THEN scan' = [scan EXCEPT ![s].pc = "lock"] ELSE End(s)

Write(s) ==
  /\ scan[s].pc = "write"
  /\ WriteStatus(scan[s].file, scan[s].verdict)
  /\ Proceed(s)
  /\ UNCHANGED <<service, locked, queue, contested, excused, left>>

(* _write_status logs a failure, and the scan goes on: the file may stay   *)
(* 'pending', and an infected one is locked all the same.                  *)
WriteFails(s) ==
  /\ Disturb
  /\ \/ scan[s].pc = "begin" /\ scan' = [scan EXCEPT ![s].pc = "ask"]
     \/ scan[s].pc = "write" /\ Proceed(s)
  /\ UNCHANGED <<service, status, locked, queue, contested, excused>>

Lock(s) ==
  LET f == scan[s].file IN
  /\ scan[s].pc = "lock"
  /\ locked' = IF Exists(f) THEN locked \cup {f} ELSE locked
  /\ End(s)
  /\ UNCHANGED <<service, status, queue, contested, excused, left>>

(* The statement fails; the scan goes on as if it had not.                 *)
LockFails(s) ==
  /\ scan[s].pc = "lock"
  /\ Disturb
  /\ excused' = excused \cup {scan[s].file}
  /\ End(s)
  /\ UNCHANGED <<service, status, locked, queue, contested>>

(* A worker's process stops; bulk tasks stop with the process they ran in. *)
Crash(s) ==
  /\ scan[s].pc # "idle"
  /\ Disturb
  /\ excused' = IF scan[s].pc = "lock" THEN excused \cup {scan[s].file} ELSE excused
  /\ scan' = [scan EXCEPT ![s] = Resting]
  /\ UNCHANGED <<service, status, locked, queue, contested>>

Next ==
  \/ \E f \in Files : Upload(f)
  \/ \E f, g \in Files : Copy(f, g)
  \/ \E f \in Files : Purge(f)
  \/ \E f \in Files : EmergencyLock(f)
  \/ \E f \in Files : Unlock(f)
  \/ \E s \in {"off", "bad", "on"} : Configure(s)
  \/ \E f \in Files : Recover(f)
  \/ \E w \in Workers, f \in Files : Claim(w, f)
  \/ \E w \in Workers : Raise(w)
  \/ \E w \in Workers : Close(w)
  \/ BulkRescan
  \/ \E s \in Runs : Load(s)
  \/ \E s \in Runs : Begin(s)
  \/ \E s \in Runs : Ask(s)
  \/ \E s \in Runs : Write(s)
  \/ \E s \in Runs : WriteFails(s)
  \/ \E s \in Runs : Lock(s)
  \/ \E s \in Runs : LockFails(s)
  \/ \E s \in Runs : Crash(s)

Spec == Init /\ [][Next]_vars

(* The workers' loops go on, and each pass looks for stale rows before it  *)
(* takes the oldest pending one.                                           *)
Step(s) == Load(s) \/ Begin(s) \/ Ask(s) \/ Write(s) \/ Lock(s) \/ Close(s)

Fairness ==
  /\ \A s \in Runs : WF_vars(Step(s))
  /\ \A f \in Files : WF_vars(Recover(f)) /\ SF_vars(\E w \in Workers : Claim(w, f))

FairSpec == Spec /\ Fairness

TypeOK ==
  /\ service \in {"off", "bad", "on"}
  /\ status \in [Files -> {"absent", "null", "pending", "error"} \cup Verdicts]
  /\ locked \subseteq {f \in Files : Exists(f)}
  /\ queue \in [Files -> [state : {"none", "pending", "scanning", "completed", "failed"},
                          attempts : 0..(Changes + Attempts + 1)]]
  /\ \A s \in Runs : /\ scan[s].pc \in {"idle", "load", "begin", "ask", "write", "lock", "close"}
                     /\ scan[s].file \in Files \cup {None}
                     /\ scan[s].pc = "idle" <=> scan[s].file = None
  /\ contested \subseteq Files /\ excused \subseteq Files
  /\ left \in 0..Changes

(* A verdict is final: a file that is found clean or infected keeps it     *)
(* however often its row is claimed again after a crash.  Except when two  *)
(* scans of it ran at once (one of more than ten minutes, or a bulk        *)
(* rescan), or the endpoint did not validate: that is written as an error  *)
(* before the file's status is read.                                       *)
VerdictStays ==
  [][\A f \in Files : /\ status[f] \in Verdicts /\ status'[f] \notin {status[f], "absent"}
                      => f \in contested']_vars

(* An infected file is locked, or the scan that found it is about to; only *)
(* a crash or a failed statement between the two, or an administrator who  *)
(* lifts the lock, leaves it open.  Copies keep the verdict, not the lock. *)
InfectedIsLocked ==
  \A f \in Files : status[f] = "infected" =>
    f \in locked \cup excused \/ \E s \in Runs : scan[s].file = f /\ scan[s].pc = "lock"

(* What the scanner promises of an infected file and of a verdict.         *)
VerdictsHold == []InfectedIsLocked /\ VerdictStays

(* Every queued file is taken up and its row settled, whatever crashes and *)
(* however often, as the loop takes stale rows back.                       *)
QueueSettles ==
  \A f \in Files : queue[f].state \in {"pending", "scanning"} ~>
                     queue[f].state \in {"none", "completed", "failed"}
===============================================================================
