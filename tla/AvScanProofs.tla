----------------------------- MODULE AvScanProofs -----------------------------
(***************************************************************************)
(* Verdicts stay, and what is found infected is locked: proofs about       *)
(* AvScan, for every number of files, workers, crashes and rescans; and    *)
(* what the operational events say of a resource's checks: proofs about    *)
(* OpEvents, for every number of resources, channels and changes.          *)
(***************************************************************************)
EXTENDS MCServices, Sequences, TLAPS

Statuses == {"absent", "null", "pending", "error"} \cup Verdicts
States   == {"none", "pending", "scanning", "completed", "failed"}
Pcs      == {"idle", "load", "begin", "ask", "write", "lock", "close"}
Run      == [pc : Pcs, file : Files \cup {None}, verdict : Verdicts \cup {"error"}, tried : Nat]

Typed ==
  /\ service \in {"off", "bad", "on"}
  /\ status \in [Files -> Statuses]
  /\ locked \subseteq Files
  /\ queue \in [Files -> [state : States, attempts : Nat]]
  /\ scan \in [Runs -> Run]
  /\ \A s \in Runs : scan[s].pc = "idle" \/ scan[s].file \in Files
  /\ contested \subseteq Files /\ excused \subseteq Files
  /\ left \in Nat

Working(s) == scan[s].pc \in {"load", "begin", "ask", "write", "lock"}

(* Whatever is queued or scanned exists or has been purged, so that no     *)
(* scan waits for an id that is new.                                       *)
NoneAhead ==
  /\ \A f \in Files : queue[f] # NoRow => Exists(f)
  /\ \A s \in Runs : Working(s) => Exists(scan[s].file) \/ scan[s].file \in excused

(* Two runs on one file make it contested.                                 *)
OneRun ==
  \A s, t \in Runs :
    s # t /\ Working(s) /\ Working(t) /\ scan[s].file = scan[t].file => scan[s].file \in contested

(* A run that has looked and goes on has found no verdict, and there is    *)
(* none until it writes its own.                                           *)
NoVerdictYet ==
  \A s \in Runs : scan[s].pc \in {"begin", "ask", "write"} =>
    status[scan[s].file] \notin Verdicts \/ scan[s].file \in contested

Scans == Typed /\ NoneAhead /\ OneRun /\ NoVerdictYet /\ InfectedIsLocked

LEMMA InitScans == ConstantsOK /\ Init => Scans
  BY DEF ConstantsOK, Init, Scans, Typed, NoneAhead, OneRun, NoVerdictYet, InfectedIsLocked,
         Working, Resting, NoRow, Runs, Run, Pcs, Statuses, States, Verdicts, Exists

(***************************************************************************)
(* Files, locks and the configuration.  A scan is not touched by these.    *)
(***************************************************************************)
LEMMA FileKeeps ==
  ASSUME ConstantsOK, Scans, NEW f \in Files,
         \/ Upload(f) \/ Purge(f) \/ EmergencyLock(f) \/ Unlock(f)
         \/ \E g \in Files : Copy(f, g)
  PROVE  Scans'
<1>. USE DEF ConstantsOK, Scans, Typed, NoneAhead, OneRun, NoVerdictYet, InfectedIsLocked,
             Working, Exists, Disturb, Statuses, Verdicts, NoRow, States
<1>1. CASE Upload(f)
  <2>1. \A s \in Runs : Working(s) => scan[s].file # f
    BY <1>1 DEF Upload, On
  <2>. QED
    BY <1>1, <2>1 DEF Upload
<1>2. CASE Purge(f)
  BY <1>2 DEF Purge
<1>3. CASE EmergencyLock(f)
  BY <1>3 DEF EmergencyLock
<1>4. CASE Unlock(f)
  BY <1>4 DEF Unlock
<1>5. ASSUME NEW g \in Files, Copy(f, g) PROVE Scans'
  <2>1. \A s \in Runs : Working(s) => scan[s].file # g
    BY <1>5 DEF Copy
  <2>. QED
    BY <1>5, <2>1 DEF Copy
<1>. QED
  BY <1>1, <1>2, <1>3, <1>4, <1>5

LEMMA ConfigureKeeps ==
  ASSUME Scans, NEW s \in {"off", "bad", "on"}, Configure(s)
  PROVE  Scans'
BY DEF Configure, Disturb, Scans, Typed, NoneAhead, OneRun, NoVerdictYet, InfectedIsLocked,
       Working, Exists

(***************************************************************************)
(* The queue.                                                              *)
(***************************************************************************)
LEMMA RecoverKeeps ==
  ASSUME ConstantsOK, Scans, NEW f \in Files, Recover(f)
  PROVE  Scans'
<1>1. left' \in Nat
  BY DEF Recover, Disturb, Scans, Typed
<1>2. /\ queue' = [queue EXCEPT ![f].state = "pending"]
      /\ queue[f] # NoRow
      /\ UNCHANGED <<service, status, locked, scan, contested, excused>>
  BY DEF Recover, Stale, NoRow
<1>. QED
  BY <1>1, <1>2 DEF Scans, Typed, NoneAhead, OneRun, NoVerdictYet, InfectedIsLocked, Working,
                    Exists, NoRow, States

(* The record a run starts with.                                           *)
LEMMA LoadRun ==
  ASSUME NEW f \in Files, NEW n \in Nat
  PROVE  /\ [Resting EXCEPT !.pc = "load", !.file = f] \in Run
         /\ [Resting EXCEPT !.pc = "load", !.file = f].pc = "load"
         /\ [Resting EXCEPT !.pc = "load", !.file = f].file = f
         /\ [Resting EXCEPT !.pc = "load", !.file = f, !.tried = n] \in Run
         /\ [Resting EXCEPT !.pc = "load", !.file = f, !.tried = n].pc = "load"
         /\ [Resting EXCEPT !.pc = "load", !.file = f, !.tried = n].file = f
<1>1. Resting \in Run
  BY DEF Resting, Run, Pcs, Verdicts
<1>. QED
  BY <1>1 DEF Run, Pcs

LEMMA ClaimKeeps ==
  ASSUME ConstantsOK, Scans, NEW w \in Workers, NEW f \in Files, Claim(w, f)
  PROVE  Scans'
<1>. USE DEF Scans, Typed
<1>. DEFINE t == [Resting EXCEPT !.pc = "load", !.file = f, !.tried = queue[f].attempts]
<1>1. w \in Runs /\ queue[f] # NoRow /\ Exists(f)
  BY DEF Claim, Runs, NoRow, NoneAhead
<1>2. t \in Run /\ t.pc = "load" /\ t.file = f
  <2>1. queue[f].attempts \in Nat
    OBVIOUS
  <2>. HIDE DEF Typed, Scans
  <2>. QED
    BY <2>1, LoadRun
<1>3. /\ scan' = [scan EXCEPT ![w] = t]
      /\ queue' = [queue EXCEPT ![f] = [state |-> "scanning", attempts |-> @.attempts + 1]]
      /\ scan[w].pc = "idle"
      /\ contested \subseteq contested' /\ contested' \subseteq Files
      /\ UNCHANGED <<service, status, locked, excused, left>>
  BY DEF Claim
<1>4. \A s \in Runs : Working(s) /\ scan[s].file = f => f \in contested'
  BY DEF Claim, On, Working
<1>. HIDE DEF t
<1>5. Typed'
  BY <1>1, <1>2, <1>3 DEF States
<1>6. NoneAhead' /\ NoVerdictYet' /\ InfectedIsLocked'
  BY <1>1, <1>2, <1>3 DEF NoneAhead, NoVerdictYet, InfectedIsLocked, Working, Exists, NoRow
<1>7. OneRun'
  BY <1>1, <1>2, <1>3, <1>4 DEF OneRun, Working
<1>. QED
  BY <1>5, <1>6, <1>7

(* A worker rests: nothing else of a run but its lock is still owed.       *)
LEMMA RestKeeps ==
  ASSUME ConstantsOK, Scans, NEW s \in Runs,
         scan' = [scan EXCEPT ![s] = Resting],
         queue' \in [Files -> [state : States, attempts : Nat]],
         \A f \in Files : queue'[f] # NoRow => queue[f] # NoRow,
         excused \subseteq excused' /\ excused' \subseteq Files,
         scan[s].pc = "lock" => scan[s].file \in excused',
         left' \in Nat,
         UNCHANGED <<service, status, locked, contested>>
  PROVE  Scans'
<1>. USE DEF Scans, Typed
<1>1. scan'[s].pc = "idle" /\ \A t \in Runs \ {s} : scan'[t] = scan[t]
  BY DEF Resting
<1>2. Typed'
  BY <1>1 DEF Resting, Run, Pcs, Verdicts
<1>3. NoneAhead' /\ NoVerdictYet' /\ OneRun'
  BY <1>1 DEF NoneAhead, NoVerdictYet, OneRun, Working, Exists
<1>4. InfectedIsLocked'
  BY <1>1 DEF InfectedIsLocked
<1>. QED
  BY <1>2, <1>3, <1>4

LEMMA RowTyped ==
  ASSUME ConstantsOK, Scans, NEW w \in Workers, Raise(w) \/ Close(w) \/ Crash(w)
  PROVE  /\ queue' \in [Files -> [state : States, attempts : Nat]]
         /\ \A f \in Files : queue'[f] # NoRow => queue[f] # NoRow
<1>. USE DEF Scans, Typed, States
<1>. w \in Runs
  BY DEF Runs
<1>1. CASE Raise(w)
  <2>1. scan[w].file \in Files /\ scan[w].tried + 1 \in Nat
    BY <1>1 DEF Raise, Run
  <2>. QED
    BY <1>1, <2>1 DEF Raise
<1>2. CASE Close(w)
  <2>1. scan[w].file \in Files
    BY <1>2 DEF Close
  <2>. QED
    BY <1>2, <2>1 DEF Close
<1>3. CASE Crash(w)
  BY <1>3 DEF Crash
<1>. QED
  BY <1>1, <1>2, <1>3

LEMMA EndKeeps ==
  ASSUME ConstantsOK, Scans,
         \/ \E w \in Workers : Raise(w) \/ Close(w)
         \/ \E s \in Runs : Crash(s)
  PROVE  Scans'
<1>0. /\ left \in Nat /\ excused \subseteq Files
      /\ \A s \in Runs : scan[s].pc = "idle" \/ scan[s].file \in Files
  BY DEF Scans, Typed
<1>1. ASSUME NEW w \in Workers, Raise(w) PROVE Scans'
  <2>1. /\ scan' = [scan EXCEPT ![w] = Resting] /\ scan[w].pc # "lock" /\ left' \in Nat
        /\ UNCHANGED <<service, status, locked, contested, excused>> /\ w \in Runs
    BY <1>0, <1>1 DEF Raise, Disturb, Runs
  <2>. QED
    BY <1>0, <1>1, <2>1, RowTyped, RestKeeps
<1>2. ASSUME NEW w \in Workers, Close(w) PROVE Scans'
  <2>1. /\ scan' = [scan EXCEPT ![w] = Resting] /\ scan[w].pc # "lock" /\ left' \in Nat
        /\ UNCHANGED <<service, status, locked, contested, excused>> /\ w \in Runs
    BY <1>0, <1>2 DEF Close, Runs
  <2>. QED
    BY <1>0, <1>2, <2>1, RowTyped, RestKeeps
<1>3. ASSUME NEW s \in Runs, Crash(s) PROVE Scans'
  <2>1. /\ scan' = [scan EXCEPT ![s] = Resting] /\ left' \in Nat
        /\ scan[s].pc = "lock" => scan[s].file \in excused'
        /\ excused \subseteq excused' /\ excused' \subseteq Files
        /\ UNCHANGED <<service, status, locked, contested, queue>>
    BY <1>0, <1>3 DEF Crash, Disturb
  <2>2. queue' \in [Files -> [state : States, attempts : Nat]]
    BY <2>1 DEF Scans, Typed
  <2>. QED
    BY <2>1, <2>2, RestKeeps
<1>. QED
  BY <1>1, <1>2, <1>3

(***************************************************************************)
(* A rescan of all that has no verdict.                                    *)
(***************************************************************************)
LEMMA RescanKeeps ==
  ASSUME ConstantsOK, Scans, BulkRescan
  PROVE  Scans'
<1>. USE DEF Scans, Typed
<1>. DEFINE due == {f \in Files : status[f] \in {"null", "error"}}
            t(f) == [Resting EXCEPT !.pc = "load", !.file = f]
<1>1. /\ scan' = [s \in Runs |-> IF s \in due THEN t(s) ELSE scan[s]]
      /\ \A f \in due : scan[f].pc = "idle"
      /\ left > 0 /\ left' = left - 1
      /\ contested' = contested \cup {f \in due : On(f) # {}}
      /\ UNCHANGED <<service, status, locked, queue, excused>>
  BY Zenon DEF BulkRescan, Disturb
<1>2. \A f \in due : f \in Runs /\ f \in Files /\ Exists(f)
  BY DEF Runs, Exists
<1>3. \A f \in due : t(f) \in Run /\ t(f).pc = "load" /\ t(f).file = f
  BY LoadRun
<1>. HIDE DEF due, t
<1>4. /\ \A s \in due : scan'[s] \in Run /\ scan'[s].pc = "load" /\ scan'[s].file = s
      /\ \A s \in Runs \ due : scan'[s] = scan[s]
      /\ scan' = [s \in Runs |-> scan'[s]]
  BY <1>1, <1>2, <1>3
<1>5. \A s \in Runs : Working(s) /\ scan[s].file \in due => scan[s].file \in contested'
  BY <1>1 DEF On, Working
<1>6. Typed'
  <2>1. scan' \in [Runs -> Run]
    BY <1>4
  <2>2. \A s \in Runs : scan'[s].pc = "idle" \/ scan'[s].file \in Files
    BY <1>2, <1>4
  <2>3. left' \in Nat /\ contested' \subseteq Files
    BY <1>1, <1>2
  <2>. QED
    BY <1>1, <2>1, <2>2, <2>3
<1>7. NoneAhead' /\ NoVerdictYet'
  <2>1. contested \subseteq contested' /\ UNCHANGED <<status, queue, excused>>
    BY <1>1
  <2>2. \A s \in Runs : scan'[s] = scan[s] \/ (scan'[s].pc = "load" /\ Exists(scan'[s].file))
    BY <1>2, <1>4
  <2>3. NoneAhead'
    BY <2>1, <2>2 DEF NoneAhead, Working, Exists
  <2>4. NoVerdictYet'
    BY <2>1, <2>2 DEF NoVerdictYet
  <2>. QED
    BY <2>3, <2>4
<1>8. \A s \in Runs : scan[s].pc = "lock" => scan'[s] = scan[s]
  BY <1>1, <1>4
<1>9. InfectedIsLocked'
  BY <1>1, <1>8 DEF InfectedIsLocked
<1>10. OneRun'
  <2>1. contested \subseteq contested'
    BY <1>1
  <2>. SUFFICES ASSUME NEW s \in Runs, NEW u \in Runs, s # u, Working(s)', Working(u)',
                       scan'[s].file = scan'[u].file
                PROVE  scan'[s].file \in contested'
    BY DEF OneRun
  <2>2. CASE s \in due /\ u \in due
    BY <1>4, <2>2
  <2>3. CASE s \notin due /\ u \notin due
    BY <1>4, <2>1, <2>3 DEF OneRun, Working
  <2>4. CASE s \in due /\ u \notin due
    BY <1>4, <1>5, <2>4 DEF Working
  <2>5. CASE s \notin due /\ u \in due
    BY <1>4, <1>5, <2>5 DEF Working
  <2>. QED
    BY <2>2, <2>3, <2>4, <2>5
<1>. QED
  BY <1>6, <1>7, <1>9, <1>10

(***************************************************************************)
(* The steps of a scan.                                                    *)
(***************************************************************************)
(* What a step of a run leaves alone.                                      *)
Others(s) == \A t \in Runs \ {s} : scan'[t] = scan[t]

(* A run goes on, or is over.                                              *)
LEMMA SayRun ==
  ASSUME Scans, NEW s \in Runs, NEW v \in Verdicts \cup {"error"}, Working(s), Say(s, v)
  PROVE  /\ scan' \in [Runs -> Run] /\ Others(s)
         /\ scan'[s].pc = "write" /\ scan'[s].file = scan[s].file
BY DEF Scans, Typed, Say, Others, Run, Pcs

LEMMA MoveRun ==
  ASSUME Scans, NEW s \in Runs, NEW pc \in Pcs, scan' = [scan EXCEPT ![s].pc = pc]
  PROVE  /\ scan' \in [Runs -> Run] /\ Others(s)
         /\ scan'[s].pc = pc /\ scan'[s].file = scan[s].file
BY DEF Scans, Typed, Others, Run

LEMMA EndRun ==
  ASSUME Scans, NEW s \in Runs, End(s)
  PROVE  /\ scan' \in [Runs -> Run] /\ Others(s)
         /\ \/ scan'[s].pc = "close" /\ scan'[s].file = scan[s].file
            \/ scan'[s].pc = "idle"
<1>1. Ended(s) \in Run
  BY DEF Ended, Resting, Scans, Typed, Run, Pcs, Verdicts
<1>2. \/ Ended(s).pc = "close" /\ Ended(s).file = scan[s].file
      \/ Ended(s).pc = "idle"
  BY DEF Ended, Resting, Scans, Typed, Run
<1>. QED
  BY <1>1, <1>2 DEF End, Scans, Typed, Others

LEMMA StepKeeps ==
  ASSUME Scans, NEW s \in Runs, Working(s),
         scan' \in [Runs -> Run], Others(s),
         scan'[s].pc = "idle" \/ scan'[s].file = scan[s].file,
         status' \in [Files -> Statuses],
         \A f \in Files : Exists(f) => Exists(f)',
         contested \subseteq contested' /\ contested' \subseteq Files,
         excused \subseteq excused' /\ excused' \subseteq Files,
         locked' \subseteq Files, left' \in Nat, UNCHANGED <<service, queue>>
  PROVE  Typed' /\ NoneAhead' /\ OneRun'
<1>1. scan[s].file \in Files
  BY DEF Scans, Typed, Working
<1>2. \A t \in Runs :
        Working(t)' => Working(t) /\ scan'[t].file = scan[t].file /\ scan[t].file \in Files
  BY <1>1 DEF Others, Working, Scans, Typed
<1>3. Typed'
  BY <1>1 DEF Others, Scans, Typed
<1>4. NoneAhead'
  BY <1>2 DEF Scans, NoneAhead
<1>5. OneRun'
  BY <1>2 DEF Scans, OneRun
<1>. QED
  BY <1>3, <1>4, <1>5

(* The status of the run's file.                                           *)
LEMMA StatusWritten ==
  ASSUME Scans, NEW f \in Files, NEW v \in {"pending", "error"} \cup Verdicts, WriteStatus(f, v)
  PROVE  /\ status' \in [Files -> Statuses]
         /\ \A g \in Files : Exists(g)' <=> Exists(g)
         /\ \A g \in Files \ {f} : status'[g] = status[g]
         /\ status'[f] = IF Exists(f) THEN v ELSE status[f]
BY DEF Scans, Typed, WriteStatus, Exists, Statuses, Verdicts

LEMMA LoadKeeps ==
  ASSUME Scans, NEW s \in Runs, Load(s)
  PROVE  Scans'
<1>. DEFINE f == scan[s].file
<1>1. /\ Working(s) /\ f \in Files /\ scan[s].pc = "load"
      /\ contested \subseteq contested' /\ contested' \subseteq Files
      /\ service = "bad" => f \in contested'
      /\ UNCHANGED <<service, status, locked, queue, excused, left>>
      /\ status \in [Files -> Statuses] /\ locked \subseteq Files /\ excused \subseteq Files
      /\ left \in Nat /\ service \in {"off", "bad", "on"}
  BY DEF Load, Working, Scans, Typed
<1>2. /\ scan' \in [Runs -> Run] /\ Others(s)
      /\ scan'[s].pc = "idle" \/ scan'[s].file = f
      /\ scan'[s].pc \in {"begin", "ask", "write"} => ~Definitive(f) \/ f \in contested'
  <2>1. CASE End(s)
    BY <2>1, EndRun
  <2>2. CASE Say(s, "error") /\ (service = "bad" \/ ~Definitive(f))
    BY <1>1, <2>2, SayRun
  <2>3. CASE scan' = [scan EXCEPT ![s].pc = "begin"] /\ ~Definitive(f)
    BY <2>3, MoveRun DEF Pcs
  <2>. QED
    BY <1>1, <2>1, <2>2, <2>3 DEF Load
<1>. HIDE DEF f
<1>3. Typed' /\ NoneAhead' /\ OneRun'
  BY <1>1, <1>2, StepKeeps DEF f, Exists
<1>4. NoVerdictYet'
  BY <1>1, <1>2 DEF f, Scans, NoVerdictYet, Others, Definitive
<1>5. InfectedIsLocked'
  <2>1. \A t \in Runs : scan[t].pc = "lock" => scan'[t] = scan[t]
    BY <1>1, <1>2 DEF Others
  <2>. QED
    BY <1>1, <2>1 DEF Scans, InfectedIsLocked
<1>. QED
  BY <1>3, <1>4, <1>5 DEF Scans

LEMMA BeginKeeps ==
  ASSUME Scans, NEW s \in Runs, Begin(s)
  PROVE  Scans'
<1>. DEFINE f == scan[s].file
<1>1. /\ Working(s) /\ f \in Files /\ scan[s].pc = "begin" /\ WriteStatus(f, "pending")
      /\ UNCHANGED <<service, locked, queue, contested, excused, left>>
      /\ locked \subseteq Files /\ excused \subseteq Files /\ contested \subseteq Files
      /\ left \in Nat
  BY DEF Begin, Working, Scans, Typed
<1>2. /\ scan' \in [Runs -> Run] /\ Others(s)
      /\ scan'[s].pc = "ask" /\ scan'[s].file = f
  BY MoveRun DEF Begin, Pcs
<1>. HIDE DEF f
<1>3. /\ status' \in [Files -> Statuses]
      /\ \A g \in Files : Exists(g)' <=> Exists(g)
      /\ \A g \in Files \ {f} : status'[g] = status[g]
      /\ status'[f] \in {"pending", "absent"}
  BY <1>1, StatusWritten DEF Exists
<1>4. Typed' /\ NoneAhead' /\ OneRun'
  BY <1>1, <1>2, <1>3, StepKeeps DEF f
<1>5. NoVerdictYet'
  <2>. SUFFICES ASSUME NEW t \in Runs, scan'[t].pc \in {"begin", "ask", "write"}
                PROVE  status'[scan'[t].file] \notin Verdicts \/ scan'[t].file \in contested'
    BY DEF NoVerdictYet
  <2>1. CASE scan'[t].file = f
    BY <1>3, <2>1 DEF Verdicts
  <2>2. CASE scan'[t].file # f
    <3>1. scan'[t] = scan[t] /\ scan[t].file \in Files
      BY <1>2, <2>2 DEF Others, Scans, Typed
    <3>. QED
      BY <1>1, <1>3, <2>2, <3>1 DEF Scans, NoVerdictYet
  <2>. QED
    BY <2>1, <2>2
<1>6. InfectedIsLocked'
  <2>1. \A t \in Runs : scan[t].pc = "lock" => scan'[t] = scan[t]
    BY <1>1, <1>2 DEF Others
  <2>2. \A g \in Files : status'[g] = "infected" => status[g] = "infected"
    BY <1>3
  <2>. QED
    BY <1>1, <2>1, <2>2 DEF Scans, InfectedIsLocked
<1>. QED
  BY <1>4, <1>5, <1>6 DEF Scans

LEMMA AskKeeps ==
  ASSUME Scans, NEW s \in Runs, Ask(s)
  PROVE  Scans'
<1>. DEFINE f == scan[s].file
<1>1. /\ Working(s) /\ f \in Files /\ scan[s].pc = "ask"
      /\ UNCHANGED <<service, status, locked, queue, contested, excused, left>>
      /\ status \in [Files -> Statuses]
      /\ locked \subseteq Files /\ excused \subseteq Files /\ contested \subseteq Files
      /\ left \in Nat
  BY DEF Ask, Working, Scans, Typed
<1>2. /\ scan' \in [Runs -> Run] /\ Others(s)
      /\ scan'[s].pc = "write" /\ scan'[s].file = f
  <2>1. PICK v \in Verdicts \cup {"error"} : Say(s, v)
    BY DEF Ask, Verdicts
  <2>. QED
    BY <1>1, <2>1, SayRun
<1>. HIDE DEF f
<1>3. Typed' /\ NoneAhead' /\ OneRun'
  BY <1>1, <1>2, StepKeeps DEF f, Exists
<1>4. NoVerdictYet'
  BY <1>1, <1>2 DEF f, Scans, NoVerdictYet, Others
<1>5. InfectedIsLocked'
  <2>1. \A t \in Runs : scan[t].pc = "lock" => scan'[t] = scan[t]
    BY <1>1, <1>2 DEF Others
  <2>. QED
    BY <1>1, <2>1 DEF Scans, InfectedIsLocked
<1>. QED
  BY <1>3, <1>4, <1>5 DEF Scans

LEMMA WriteKeeps ==
  ASSUME Scans, NEW s \in Runs, Write(s)
  PROVE  Scans'
<1>. DEFINE f == scan[s].file
            v == scan[s].verdict
<1>1. /\ Working(s) /\ f \in Files /\ scan[s].pc = "write" /\ WriteStatus(f, v)
      /\ v \in Verdicts \cup {"error"}
      /\ UNCHANGED <<service, locked, queue, contested, excused, left>>
      /\ locked \subseteq Files /\ excused \subseteq Files /\ contested \subseteq Files
      /\ left \in Nat
  BY DEF Write, Working, Scans, Typed, Run
<1>2. /\ scan' \in [Runs -> Run] /\ Others(s)
      /\ scan'[s].pc = "idle" \/ scan'[s].file = f
      /\ scan'[s].pc \notin {"begin", "ask", "write"}
      /\ v = "infected" => scan'[s].pc = "lock" /\ scan'[s].file = f
  <2>1. CASE End(s) /\ ~Locks(v)
    BY <2>1, EndRun DEF Locks
  <2>2. CASE scan' = [scan EXCEPT ![s].pc = "lock"]
    BY <2>2, MoveRun DEF Pcs
  <2>. QED
    BY <2>1, <2>2 DEF Write, Proceed
<1>. HIDE DEF f, v
<1>3. /\ status' \in [Files -> Statuses]
      /\ \A g \in Files : Exists(g)' <=> Exists(g)
      /\ \A g \in Files \ {f} : status'[g] = status[g]
      /\ status'[f] = IF Exists(f) THEN v ELSE status[f]
  BY <1>1, StatusWritten
<1>4. Typed' /\ NoneAhead' /\ OneRun'
  BY <1>1, <1>2, <1>3, StepKeeps DEF f
<1>5. NoVerdictYet'
  <2>. SUFFICES ASSUME NEW t \in Runs, scan'[t].pc \in {"begin", "ask", "write"}
                PROVE  status'[scan'[t].file] \notin Verdicts \/ scan'[t].file \in contested'
    BY DEF NoVerdictYet
  <2>1. t # s /\ scan'[t] = scan[t] /\ scan[t].file \in Files /\ Working(t)
    BY <1>2 DEF Others, Scans, Typed, Working
  <2>2. CASE scan[t].file = f
    BY <1>1, <2>1, <2>2 DEF f, Scans, OneRun
  <2>3. CASE scan[t].file # f
    BY <1>1, <1>3, <2>1, <2>3 DEF Scans, NoVerdictYet
  <2>. QED
    BY <2>2, <2>3
<1>6. InfectedIsLocked'
  <2>. SUFFICES ASSUME NEW g \in Files, status'[g] = "infected"
                PROVE  \/ g \in locked' \cup excused'
                       \/ \E t \in Runs : scan'[t].file = g /\ scan'[t].pc = "lock"
    BY DEF InfectedIsLocked
  <2>1. CASE status[g] = "infected"
    <3>1. \A t \in Runs : scan[t].pc = "lock" => scan'[t] = scan[t]
      BY <1>1, <1>2 DEF Others
    <3>. QED
      BY <1>1, <2>1, <3>1 DEF Scans, InfectedIsLocked
  <2>2. CASE status[g] # "infected"
    BY <1>2, <1>3, <2>2
  <2>. QED
    BY <2>1, <2>2
<1>. QED
  BY <1>4, <1>5, <1>6 DEF Scans

LEMMA WriteFailsKeeps ==
  ASSUME Scans, NEW s \in Runs, WriteFails(s)
  PROVE  Scans'
<1>. DEFINE f == scan[s].file
<1>1. /\ Working(s) /\ f \in Files /\ scan[s].pc \in {"begin", "write"}
      /\ UNCHANGED <<service, status, locked, queue, contested, excused>>
      /\ status \in [Files -> Statuses]
      /\ locked \subseteq Files /\ excused \subseteq Files /\ contested \subseteq Files
      /\ left' \in Nat
  BY DEF WriteFails, Disturb, Working, Scans, Typed
<1>2. /\ scan' \in [Runs -> Run] /\ Others(s)
      /\ scan'[s].pc = "idle" \/ scan'[s].file = f
      /\ scan'[s].pc \notin {"begin", "write"}
      /\ scan'[s].pc = "ask" => scan[s].pc = "begin"
  <2>1. CASE scan[s].pc = "begin" /\ scan' = [scan EXCEPT ![s].pc = "ask"]
    BY <2>1, MoveRun DEF Pcs
  <2>2. CASE scan[s].pc = "write" /\ End(s)
    BY <2>2, EndRun
  <2>3. CASE scan[s].pc = "write" /\ scan' = [scan EXCEPT ![s].pc = "lock"]
    BY <2>3, MoveRun DEF Pcs
  <2>. QED
    BY <2>1, <2>2, <2>3 DEF WriteFails, Proceed
<1>. HIDE DEF f
<1>3. Typed' /\ NoneAhead' /\ OneRun'
  BY <1>1, <1>2, StepKeeps DEF f, Exists
<1>4. NoVerdictYet'
  <2>. SUFFICES ASSUME NEW t \in Runs, scan'[t].pc \in {"begin", "ask", "write"}
                PROVE  status[scan'[t].file] \notin Verdicts \/ scan'[t].file \in contested
    BY <1>1 DEF NoVerdictYet
  <2>1. CASE t = s
    BY <1>2, <2>1 DEF f, Scans, NoVerdictYet
  <2>2. CASE t # s
    BY <1>2, <2>2 DEF Others, Scans, NoVerdictYet
  <2>. QED
    BY <2>1, <2>2
<1>5. InfectedIsLocked'
  <2>1. \A t \in Runs : scan[t].pc = "lock" => scan'[t] = scan[t]
    BY <1>1, <1>2 DEF Others
  <2>. QED
    BY <1>1, <2>1 DEF Scans, InfectedIsLocked
<1>. QED
  BY <1>3, <1>4, <1>5 DEF Scans

LEMMA LockKeeps ==
  ASSUME Scans, NEW s \in Runs, Lock(s) \/ LockFails(s)
  PROVE  Scans'
<1>. DEFINE f == scan[s].file
<1>1. /\ Working(s) /\ f \in Files /\ scan[s].pc = "lock"
      /\ UNCHANGED <<service, status, queue, contested>>
      /\ status \in [Files -> Statuses] /\ contested \subseteq Files
      /\ locked \subseteq locked' /\ locked' \subseteq Files
      /\ excused \subseteq excused' /\ excused' \subseteq Files
      /\ left' \in Nat
  BY DEF Lock, LockFails, Disturb, Working, Scans, Typed
<1>2. /\ scan' \in [Runs -> Run] /\ Others(s)
      /\ scan'[s].pc = "idle" \/ scan'[s].file = f
      /\ scan'[s].pc \in {"idle", "close"}
  BY EndRun DEF Lock, LockFails
<1>3. Exists(f) => f \in locked' \cup excused'
  BY DEF Lock, LockFails
<1>. HIDE DEF f
<1>4. Typed' /\ NoneAhead' /\ OneRun'
  BY <1>1, <1>2, StepKeeps DEF f, Exists
<1>5. NoVerdictYet'
  BY <1>1, <1>2 DEF Scans, NoVerdictYet, Others
<1>6. InfectedIsLocked'
  <2>. SUFFICES ASSUME NEW g \in Files, status[g] = "infected"
                PROVE  \/ g \in locked' \cup excused'
                       \/ \E t \in Runs : scan'[t].file = g /\ scan'[t].pc = "lock"
    BY <1>1 DEF InfectedIsLocked
  <2>1. CASE g = f
    BY <1>3, <2>1 DEF Exists
  <2>2. CASE g # f
    <3>1. \A t \in Runs : scan[t].pc = "lock" /\ scan[t].file = g => scan'[t] = scan[t]
      BY <1>2, <2>2 DEF Others, f
    <3>. QED
      BY <1>1, <3>1 DEF Scans, InfectedIsLocked
  <2>. QED
    BY <2>1, <2>2
<1>. QED
  BY <1>4, <1>5, <1>6 DEF Scans

-----------------------------------------------------------------------------
LEMMA NextScans == ConstantsOK /\ Scans /\ [Next]_vars => Scans'
<1>1. Scans /\ UNCHANGED vars => Scans'
  BY DEF vars, Scans, Typed, NoneAhead, OneRun, NoVerdictYet, InfectedIsLocked, Working, Exists
<1>2. Scans /\ ConstantsOK /\ Next => Scans'
  BY FileKeeps, ConfigureKeeps, RecoverKeeps, ClaimKeeps, EndKeeps, RescanKeeps, LoadKeeps,
     BeginKeeps, AskKeeps, WriteKeeps, WriteFailsKeeps, LockKeeps DEF Next
<1>. QED
  BY <1>1, <1>2

(* services/av_scanner.py: however many workers claim, retry and rescan,   *)
(* and wherever they stop, an infected file is locked or about to be, but  *)
(* for a lock that failed, was lifted, or never was a copy's.              *)
THEOREM InfectedLocked == ASSUME ConstantsOK PROVE Spec => []InfectedIsLocked
<1>1. Scans => InfectedIsLocked
  BY DEF Scans
<1>. QED
  BY <1>1, ConstantsOK, InitScans, NextScans, PTL DEF Spec

LEMMA Overwritten ==
  ASSUME ConstantsOK, Scans, Next, NEW f \in Files,
         status[f] \in Verdicts, status'[f] \notin {status[f], "absent"}
  PROVE  f \in contested'
<1>. status \in [Files -> Statuses]
  BY DEF Scans, Typed
<1>1. ASSUME NEW s \in Runs, Begin(s) \/ Write(s) PROVE f \in contested'
  <2>1. scan[s].file = f /\ scan[s].pc \in {"begin", "write"} /\ contested' = contested
    BY <1>1 DEF Begin, Write, WriteStatus
  <2>. QED
    BY <2>1 DEF Scans, NoVerdictYet
<1>2. ASSUME NEW g \in Files,
             Upload(g) \/ Purge(g) \/ \E h \in Files : Copy(h, g)
      PROVE  FALSE
  BY <1>2 DEF Upload, Purge, Copy, Exists, Verdicts
<1>3. ASSUME NEW g \in Files, EmergencyLock(g) \/ Unlock(g) \/ Recover(g)
      PROVE  FALSE
  BY <1>3 DEF EmergencyLock, Unlock, Recover
<1>4. ASSUME NEW s \in {"off", "bad", "on"}, Configure(s) PROVE FALSE
  BY <1>4 DEF Configure
<1>5. ASSUME NEW w \in Workers, Raise(w) \/ Close(w) \/ \E g \in Files : Claim(w, g)
      PROVE  FALSE
  BY <1>5 DEF Raise, Close, Claim
<1>6. ASSUME BulkRescan PROVE FALSE
  BY <1>6 DEF BulkRescan
<1>7. ASSUME NEW s \in Runs, \/ Load(s) \/ Ask(s) \/ WriteFails(s)
                             \/ Lock(s) \/ LockFails(s) \/ Crash(s)
      PROVE  FALSE
  BY <1>7 DEF Load, Ask, WriteFails, Lock, LockFails, Crash
<1>. QED
  BY <1>1, <1>2, <1>3, <1>4, <1>5, <1>6, <1>7 DEF Next

(* The same: a verdict is overwritten by another only for a file that two  *)
(* runs worked on, or that a run gave up before it looked.                 *)
THEOREM VerdictsKept == ASSUME ConstantsOK PROVE Spec => VerdictStays
<1>1. Scans /\ [Next]_vars
        => [\A f \in Files : /\ status[f] \in Verdicts /\ status'[f] \notin {status[f], "absent"}
                             => f \in contested']_vars
  BY Overwritten, ConstantsOK
<1>. QED
  BY <1>1, ConstantsOK, InitScans, NextScans, PTL DEF Spec, VerdictStays

(* av_scanner.py: both at once, for any files, workers and attempts.       *)
THEOREM VerdictsHeld == ASSUME ConstantsOK PROVE Spec => VerdictsHold
BY InfectedLocked, VerdictsKept DEF VerdictsHold

-----------------------------------------------------------------------------
-----------------------------------------------------------------------------
(***************************************************************************)
(* The operations bus (OpEvents), for every number of resources, channels  *)
(* and changes: the row of a resource says what its last check has found.  *)
(***************************************************************************)

OpsKinds == {"problem", "ok"}
OpsEvent == [of : Resources, kind : OpsKinds]

OpsTyped ==
  /\ opsQueue \in Seq(OpsEvent)
  /\ opsWriting \in OpsEvent \cup {None}
  /\ opsGate \in [Resources -> OpsKinds \cup {"unknown"}]
  /\ opsChecked \in [Resources -> OpsKinds \cup {"none"}]
  /\ opsRecord \in [Resources -> OpsKinds \cup {"none"}]

(* What is queued last of a resource is what its last check has found; if  *)
(* nothing is queued of it, the gate knows.                                *)
LastIsChecked(r) ==
  \A i \in 1..Len(opsQueue) :
    opsQueue[i].of = r /\ (\A j \in 1..Len(opsQueue) : j > i => opsQueue[j].of # r)
      => opsChecked[r] = opsQueue[i].kind
GateIsChecked(r) ==
  (\A i \in 1..Len(opsQueue) : opsQueue[i].of # r)
    => (opsChecked[r] = "problem" <=> opsGate[r] = "problem")

(* What the gate let pass is being written, or is in the row.              *)
RowFollowsGate(r) ==
  IF opsWriting # None /\ opsWriting.of = r THEN opsGate[r] = opsWriting.kind
  ELSE opsGate[r] = "problem" <=> opsRecord[r] = "problem"

OpsInv ==
  /\ OpsTyped
  /\ \A r \in Resources \ opsBlurred : LastIsChecked(r) /\ GateIsChecked(r) /\ RowFollowsGate(r)

LEMMA OpsInitially == Ops!Init => OpsInv
  BY DEF Ops!Init, OpsInv, OpsTyped, OpsEvent, OpsKinds, LastIsChecked, GateIsChecked,
         RowFollowsGate

(* A step that leaves the queue, the gate, the checks, the row and the     *)
(* event that is written alone, whatever else it does.                     *)
LEMMA OpsQuiet ==
  ASSUME OpsInv,
         UNCHANGED <<opsQueue, opsGate, opsChecked, opsWriting, opsRecord>>,
         opsBlurred \subseteq opsBlurred'
  PROVE  OpsInv'
  BY DEF OpsInv, OpsTyped, LastIsChecked, GateIsChecked, RowFollowsGate

LEMMA OpsCheck ==
  ASSUME OpsInv, NEW r \in Resources, Ops!Check(r)
  PROVE  OpsInv'
<1>. DEFINE kind == IF r \in opsTrouble THEN "problem" ELSE "ok"
            e == Ops!Event(r, kind)
<1>1. /\ opsQueue' = Append(opsQueue, e)
      /\ opsChecked' = [opsChecked EXCEPT ![r] = kind]
      /\ UNCHANGED <<opsGate, opsWriting, opsRecord, opsBlurred>>
  BY DEF Ops!Check, Ops!op
<1>2. e \in OpsEvent /\ e.of = r /\ e.kind = kind /\ kind \in OpsKinds
  BY DEF Ops!Event, OpsEvent, OpsKinds
<1>. HIDE DEF e, kind
<1>3. OpsTyped'
  BY <1>1, <1>2 DEF OpsInv, OpsTyped
<1>4. /\ Len(opsQueue') = Len(opsQueue) + 1 /\ Len(opsQueue) \in Nat
      /\ opsQueue'[Len(opsQueue) + 1] = e
      /\ \A i \in 1..Len(opsQueue) : opsQueue'[i] = opsQueue[i]
  BY <1>1, <1>2 DEF OpsInv, OpsTyped
<1>5. ASSUME NEW z \in Resources \ opsBlurred'
      PROVE  LastIsChecked(z)' /\ GateIsChecked(z)' /\ RowFollowsGate(z)'
  <2>1. LastIsChecked(z) /\ GateIsChecked(z) /\ RowFollowsGate(z)
    BY <1>1 DEF OpsInv
  <2>2. CASE z = r
    BY <1>1, <1>2, <1>4, <2>1, <2>2
       DEF OpsInv, OpsTyped, LastIsChecked, GateIsChecked, RowFollowsGate
  <2>3. CASE z # r
    <3>1. opsChecked'[z] = opsChecked[z]
      BY <1>1, <2>3 DEF OpsInv, OpsTyped
    <3>. QED
      BY <1>1, <1>2, <1>4, <2>1, <2>3, <3>1
         DEF LastIsChecked, GateIsChecked, RowFollowsGate
  <2>. QED
    BY <2>2, <2>3
<1>. QED
  BY <1>3, <1>5 DEF OpsInv

LEMMA OpsJudge ==
  ASSUME Ops!ConstantsOK, OpsInv, Ops!Judge
  PROVE  OpsInv'
<1>. DEFINE e == Head(opsQueue)
<1>1. /\ opsWriting = None /\ opsQueue # <<>>
      /\ opsQueue' = Tail(opsQueue)
      /\ UNCHANGED <<opsChecked, opsRecord, opsBlurred>>
      /\ IF IF e.kind = "problem" THEN opsGate[e.of] # "problem" ELSE opsGate[e.of] = "problem"
         THEN opsGate' = [opsGate EXCEPT ![e.of] = e.kind] /\ opsWriting' = e
         ELSE UNCHANGED <<opsGate, opsWriting>>
  BY DEF Ops!Judge, Ops!Passes
<1>2. e \in OpsEvent /\ e = opsQueue[1] /\ Len(opsQueue) \in Nat /\ Len(opsQueue) >= 1
  BY <1>1 DEF OpsInv, OpsTyped
<1>6. e # None
  BY <1>2 DEF Ops!ConstantsOK, Ops!Kinds, OpsEvent, OpsKinds
<1>3. /\ Len(opsQueue') = Len(opsQueue) - 1
      /\ \A i \in 1..Len(opsQueue') : opsQueue'[i] = opsQueue[i + 1]
  BY <1>1, <1>2 DEF OpsInv, OpsTyped
<1>. HIDE DEF e
<1>4. OpsTyped'
  BY <1>1, <1>2 DEF OpsInv, OpsTyped, OpsEvent
<1>5. ASSUME NEW z \in Resources \ opsBlurred'
      PROVE  LastIsChecked(z)' /\ GateIsChecked(z)' /\ RowFollowsGate(z)'
  <2>1. LastIsChecked(z) /\ GateIsChecked(z) /\ RowFollowsGate(z)
    BY <1>1 DEF OpsInv
  <2>2. LastIsChecked(z)'
    <3>1. SUFFICES ASSUME NEW i \in 1..Len(opsQueue'), opsQueue'[i].of = z,
                          \A j \in 1..Len(opsQueue') : j > i => opsQueue'[j].of # z
                   PROVE  opsChecked'[z] = opsQueue'[i].kind
      BY DEF LastIsChecked
    <3>2. i + 1 \in 1..Len(opsQueue) /\ opsQueue[i + 1] = opsQueue'[i]
      BY <1>2, <1>3
    <3>3. ASSUME NEW j \in 1..Len(opsQueue), j > i + 1 PROVE opsQueue[j].of # z
      <4>1. j - 1 \in 1..Len(opsQueue') /\ j - 1 > i /\ (j - 1) + 1 = j
        BY <1>2, <1>3, <3>3
      <4>. QED
        BY <1>3, <3>1, <4>1
    <3>. QED
      BY <1>1, <2>1, <3>1, <3>2, <3>3 DEF LastIsChecked
  <2>3. ASSUME \A i \in 1..Len(opsQueue') : opsQueue'[i].of # z
        PROVE  opsChecked[z] = "problem" <=> opsGate'[z] = "problem"
    <3>1. ASSUME NEW j \in 1..Len(opsQueue), j > 1 PROVE opsQueue[j].of # z
      <4>1. j - 1 \in 1..Len(opsQueue') /\ (j - 1) + 1 = j
        BY <1>2, <1>3, <3>1
      <4>. QED
        BY <1>3, <2>3, <4>1
    <3>2. CASE e.of = z
      <4>1. opsChecked[z] = e.kind
        BY <1>2, <2>1, <3>1, <3>2 DEF LastIsChecked
      <4>. QED
        BY <1>1, <1>2, <3>2, <4>1 DEF OpsInv, OpsTyped, OpsEvent, OpsKinds
    <3>3. CASE e.of # z
      <4>1. \A j \in 1..Len(opsQueue) : opsQueue[j].of # z
        BY <1>2, <3>1, <3>3
      <4>2. opsGate'[z] = opsGate[z]
        BY <1>1, <1>2, <3>3 DEF OpsInv, OpsTyped
      <4>. QED
        BY <2>1, <4>1, <4>2 DEF GateIsChecked
    <3>. QED
      BY <3>2, <3>3
  <2>4. RowFollowsGate(z)'
    BY <1>1, <1>2, <1>6, <2>1 DEF OpsInv, OpsTyped, OpsEvent, OpsKinds, RowFollowsGate
  <2>. QED
    BY <1>1, <2>2, <2>3, <2>4 DEF GateIsChecked
<1>. QED
  BY <1>4, <1>5 DEF OpsInv

(* The row is written, or the insert fails; the retention deletes it; a    *)
(* restart forgets the gate; a new channel catches up.                     *)
LEMMA OpsRows ==
  ASSUME Ops!ConstantsOK, OpsInv,
         \/ Ops!PersistAndFanout \/ Ops!PersistFails \/ Ops!Restart \/ Ops!CatchUp
         \/ \E r \in Resources : Ops!CleanUp(r)
  PROVE  OpsInv'
<1>1. CASE Ops!PersistAndFanout
  <2>1. /\ opsWriting # None
        /\ opsRecord' = [opsRecord EXCEPT ![opsWriting.of] = opsWriting.kind]
        /\ opsWriting' = None
        /\ UNCHANGED <<opsQueue, opsGate, opsChecked, opsBlurred>>
    BY <1>1 DEF Ops!PersistAndFanout
  <2>2. opsWriting \in OpsEvent
    BY <2>1 DEF OpsInv, OpsTyped
  <2>3. OpsTyped'
    BY <2>1, <2>2 DEF OpsInv, OpsTyped, OpsEvent
  <2>. QED
    BY <2>1, <2>2, <2>3
       DEF OpsInv, OpsTyped, OpsEvent, LastIsChecked, GateIsChecked, RowFollowsGate
<1>2. CASE Ops!PersistFails
  <2>1. /\ opsWriting # None
        /\ opsBlurred' = opsBlurred \cup {opsWriting.of}
        /\ opsWriting' = None
        /\ UNCHANGED <<opsQueue, opsGate, opsChecked, opsRecord>>
    BY <1>2 DEF Ops!PersistFails
  <2>. QED
    BY <2>1 DEF OpsInv, OpsTyped, LastIsChecked, GateIsChecked, RowFollowsGate
<1>3. CASE Ops!Restart
  <2>1. /\ opsQueue' = <<>> /\ opsWriting' = None
        /\ opsGate' = [r \in Resources |-> "unknown"]
        /\ opsChecked' = [r \in Resources |-> "none"]
        /\ opsBlurred' = Resources
        /\ UNCHANGED opsRecord
    BY <1>3 DEF Ops!Restart
  <2>. QED
    BY <2>1 DEF OpsInv, OpsTyped
<1>4. CASE Ops!CatchUp
  <2>1. /\ opsGate' = [r \in Resources |-> IF r \in opsTrouble THEN "problem" ELSE opsGate[r]]
        /\ opsBlurred' = opsBlurred \cup opsTrouble
        /\ UNCHANGED <<opsQueue, opsChecked, opsWriting, opsRecord>>
    BY <1>4 DEF Ops!CatchUp
  <2>2. OpsTyped'
    BY <2>1 DEF OpsInv, OpsTyped, OpsKinds
  <2>3. \A z \in Resources \ opsBlurred' : z \notin opsBlurred /\ opsGate'[z] = opsGate[z]
    BY <2>1
  <2>. QED
    BY <2>1, <2>2, <2>3 DEF OpsInv, LastIsChecked, GateIsChecked, RowFollowsGate
<1>5. ASSUME NEW r \in Resources, Ops!CleanUp(r) PROVE OpsInv'
  <2>1. /\ opsRecord' = [opsRecord EXCEPT ![r] = "none"]
        /\ opsBlurred' = opsBlurred \cup {r}
        /\ UNCHANGED <<opsQueue, opsChecked, opsGate, opsWriting>>
    BY <1>5 DEF Ops!CleanUp
  <2>. QED
    BY <2>1 DEF OpsInv, OpsTyped, LastIsChecked, GateIsChecked, RowFollowsGate
<1>. QED
  BY <1>1, <1>2, <1>3, <1>4, <1>5

LEMMA OpsStep == Ops!ConstantsOK /\ OpsInv /\ [Ops!Next]_(Ops!vars) => OpsInv'
<1>. SUFFICES ASSUME Ops!ConstantsOK, OpsInv, [Ops!Next]_(Ops!vars) PROVE OpsInv'
  OBVIOUS
<1>1. CASE Ops!Judge
  BY <1>1, OpsJudge
<1>2. ASSUME NEW r \in Resources, Ops!Check(r) PROVE OpsInv'
  BY <1>2, OpsCheck
<1>3. CASE \/ Ops!PersistAndFanout \/ Ops!PersistFails \/ Ops!Restart \/ Ops!CatchUp
           \/ \E r \in Resources : Ops!CleanUp(r)
  BY <1>3, OpsRows
<1>4. CASE \/ \E r \in Resources : Ops!Change(r)
           \/ \E c \in Channels, on \in BOOLEAN : Ops!CreateChannel(c, on)
           \/ \E c \in Channels, on \in BOOLEAN : Ops!UpdateChannel(c, on)
           \/ \E c \in Channels : Ops!DeleteChannel(c)
           \/ Ops!Minute \/ Ops!Supervise \/ Ops!LoadFails
           \/ \E c \in Channels : Ops!Collect(c)
           \/ \E c \in Channels : Ops!Send(c)
           \/ \E b \in opsSends : Ops!SendEnds(b)
           \/ UNCHANGED Ops!vars
  <2>1. UNCHANGED <<opsQueue, opsGate, opsChecked, opsWriting, opsRecord, opsBlurred>>
    BY <1>4 DEF Ops!Change, Ops!CreateChannel, Ops!UpdateChannel, Ops!DeleteChannel, Ops!Minute,
                Ops!Supervise, Ops!LoadFails, Ops!Collect, Ops!Send, Ops!SendEnds, Ops!vars, Ops!op
  <2>. QED
    BY <2>1, OpsQuiet
<1>. QED
  BY <1>1, <1>2, <1>3, <1>4 DEF Ops!Next

LEMMA OpsRecords == Ops!ConstantsOK /\ OpsInv => RecordFollowsChecks
<1>. SUFFICES ASSUME OpsInv, opsQueue = <<>>, opsWriting = None, NEW r \in Resources \ opsBlurred
              PROVE  opsChecked[r] = "problem" <=> opsRecord[r] = "problem"
  BY DEF RecordFollowsChecks, Ops!RecordFollowsChecks
<1>1. GateIsChecked(r) /\ RowFollowsGate(r)
  BY DEF OpsInv
<1>. QED
  BY <1>1 DEF GateIsChecked, RowFollowsGate

(* The gate lets a warning pass once, and yet holds no change back: when   *)
(* the bus is idle the last row of a resource says what its last check has *)
(* found, however the checks, the drain loop, failures, restarts and the   *)
(* administrators' changes of the channels fall together.                  *)
THEOREM ChecksRecorded == Ops!Spec => []RecordFollowsChecks
<1>1. Ops!ConstantsOK
  BY OpsAssumption
<1>2. Ops!Init => OpsInv
  BY OpsInitially
<1>3. OpsInv /\ [Ops!Next]_(Ops!vars) => OpsInv'
  BY <1>1, OpsStep
<1>4. OpsInv => RecordFollowsChecks
  BY <1>1, OpsRecords
<1>. QED
  BY <1>2, <1>3, <1>4, PTL DEF Ops!Spec
===============================================================================
