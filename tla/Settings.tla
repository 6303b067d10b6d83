------------------------------ MODULE Settings ------------------------------
(***************************************************************************)
(* admin_settings and the copies of it that workers keep: the cache of     *)
(* services/live_settings.py, which every worker reads instead of the      *)
(* table, and the audit key of services/audit_key.py.  Only PUT            *)
(* /admin/settings tells the workers of what it writes, over Redis; the    *)
(* escrow settings (routes/admin_escrow.py), profiles and imports          *)
(* (routes/admin_profiles.py) write the table alone, one statement at a    *)
(* time.  A row with an empty value reads as none, which is its default.   *)
(***************************************************************************)
EXTENDS Integers, Sequences, FiniteSets

CONSTANTS
  Workers,
  Admins, Tier,   \* administrators; tier 1 is the most privileged
  Keys,           \* settings
  Seeded,         \* those seed_admin_settings inserts
  EscrowKeys,     \* those of the escrow routes, in the order they write them
  Default,        \* what a reader takes for a setting without a value
  Updates,        \* bodies of PUT /admin/settings: functions on some keys
  Locks,          \* bodies of PUT /admin/settings/locks
  EscrowBodies,   \* values, in the order of EscrowKeys, and a lock in part
  Imports,        \* values of a profile or a full import, in order
  None,
  Edits, Stops    \* bounds on requests, and on stops and failures

Values ==
  {None} \cup {Default[k] : k \in Keys}
  \cup (UNION {{b[k] : k \in DOMAIN b} : b \in Updates})
  \cup (UNION {{b.values[i].value : i \in DOMAIN b.values} : b \in EscrowBodies})
  \cup (UNION {{b[i].value : i \in DOMAIN b} : b \in Imports})
IsSeq(s) == s \in Seq({s[i] : i \in DOMAIN s})

Escrow == {EscrowKeys[i] : i \in 1..Len(EscrowKeys)}
Unlocked == [on |-> FALSE, tier |-> None]
Tiered(l) == "tier" \in DOMAIN l => l.tier \in Int \cup {None}

ConstantsOK ==
  /\ Tier \in [Admins -> Nat \ {0}]
  /\ Escrow \cup Seeded \subseteq Keys
  /\ \A b \in Updates : DOMAIN b \subseteq Keys /\ DOMAIN b # {}
  /\ \A b \in Locks : /\ DOMAIN b \subseteq Keys /\ DOMAIN b # {}
                       /\ \A k \in DOMAIN b : DOMAIN b[k] = {"on", "tier"} /\ Tiered(b[k])
  /\ IsSeq(EscrowKeys) /\ \A i, j \in DOMAIN EscrowKeys : EscrowKeys[i] = EscrowKeys[j] => i = j
  /\ \A b \in EscrowBodies :
       /\ IsSeq(b.values) /\ \A i \in DOMAIN b.values : b.values[i].key \in Escrow
       /\ \A i, j \in DOMAIN b.values : b.values[i].key = b.values[j].key => i = j
       /\ DOMAIN b.lock \subseteq {"on", "tier"} /\ Tiered(b.lock)
  /\ \A b \in Imports :
       IsSeq(b) /\ \A i \in DOMAIN b : b[i].key \in Keys /\ Tiered(b[i].lock)
  /\ IsFiniteSet(Workers) /\ None \notin Nat /\ None \notin [Keys -> Values]
  /\ Edits \in Nat /\ Stops \in Nat

VARIABLES
  value, lock,    \* admin_settings: value; is_locked and locked_min_tier
  audit,          \* audit_encryption_key: a number, or None
  cache,          \* _cache of each worker
  phase,          \* how far each worker has started
  snap,           \* what its load has read and not put in the cache yet
  inbox,          \* invalidations its listener has not received
  mine,           \* its _k_audit
  task,           \* each administrator's request
  edits, stops,   \* bound counters
  stale,          \* history: keys a worker has not been told of, per worker
  split           \* history: two first starts overlapped, or one stored nothing

vars == <<value, lock, audit, cache, phase, snap, inbox, mine, task, edits, stops, stale, split>>
tableVars == <<value, lock>>
workerVars == <<cache, phase, snap, inbox, mine, audit, split>>

Empty == [k \in Keys |-> None]
NoTask == [at |-> None, todo |-> <<>>, unchecked |-> {}]

Init ==
  /\ value = Empty /\ lock = [k \in Keys |-> Unlocked] /\ audit = None
  /\ cache = [w \in Workers |-> Empty] /\ phase = [w \in Workers |-> "down"]
  /\ snap = [w \in Workers |-> None] /\ inbox = [w \in Workers |-> 0]
  /\ mine = [w \in Workers |-> None]
  /\ task = [a \in Admins |-> NoTask]
  /\ edits = 0 /\ stops = 0
  /\ stale = [w \in Workers |-> {}] /\ split = FALSE

Up == {w \in Workers : phase[w] \in {"listening", "generated", "ready"}}
\* What is written with b: the rest stays.
Over(b, old) == [k \in DOMAIN b \cup DOMAIN old |-> IF k \in DOMAIN b THEN b[k] ELSE old[k]]
Reads(x, k) == IF x = None THEN Default[k] ELSE x

-----------------------------------------------------------------------------
(* Starting a worker: the table, the cache, the listener, the audit key    *)

Seed(w) ==
  /\ phase[w] = "down" /\ phase' = [phase EXCEPT ![w] = "seeded"]
  /\ value' = [k \in Keys |-> IF k \in Seeded /\ value[k] = None THEN Default[k] ELSE value[k]]
  /\ UNCHANGED <<lock, audit, cache, snap, inbox, mine, task, edits, stops, stale, split>>

\* load reads at start, and again for every message the listener receives.
LoadRead(w) ==
  /\ snap[w] = None
  /\ \/ phase[w] = "seeded" /\ phase' = [phase EXCEPT ![w] = "loading"] /\ UNCHANGED inbox
     \/ w \in Up /\ inbox[w] > 0 /\ inbox' = [inbox EXCEPT ![w] = @ - 1] /\ UNCHANGED phase
  /\ snap' = [snap EXCEPT ![w] = value]
  /\ UNCHANGED <<tableVars, audit, cache, mine, task, edits, stops, stale, split>>

Load(w) ==
  /\ snap[w] # None
  /\ cache' = [cache EXCEPT ![w] = snap[w]] /\ snap' = [snap EXCEPT ![w] = None]
  /\ stale' = [stale EXCEPT ![w] = {k \in @ : snap[w][k] # value[k]}]
  /\ phase' = IF phase[w] = "loading" THEN [phase EXCEPT ![w] = "loaded"] ELSE phase
  /\ UNCHANGED <<tableVars, audit, inbox, mine, task, edits, stops, split>>

\* An error is logged, and the message is gone.
LoadFails(w) ==
  /\ w \in Up /\ snap[w] # None /\ stops < Stops
  /\ stops' = stops + 1 /\ snap' = [snap EXCEPT ![w] = None]
  /\ stale' = [stale EXCEPT ![w] = @ \cup {k \in Keys : cache[w][k] # value[k]}]
  /\ UNCHANGED <<tableVars, audit, cache, phase, inbox, mine, task, edits, split>>

Subscribe(w) ==
  /\ phase[w] = "loaded" /\ phase' = [phase EXCEPT ![w] = "listening"]
  /\ UNCHANGED <<tableVars, audit, cache, snap, inbox, mine, task, edits, stops, stale, split>>

\* ensure_loaded: the stored key, or a new one that it then stores.
NewKey == Cardinality(Workers) * stops + Cardinality({w \in Workers : mine[w] # None}) + 1
Absent == audit = None
EnsureRead(w) ==
  /\ phase[w] = "listening"
  /\ phase' = [phase EXCEPT ![w] = IF Absent THEN "generated" ELSE "ready"]
  /\ mine' = [mine EXCEPT ![w] = IF Absent THEN NewKey ELSE audit]
  /\ split' = (split \/ (Absent /\ \E v \in Workers : phase[v] = "generated"))
  /\ UNCHANGED <<tableVars, audit, cache, snap, inbox, task, edits, stops, stale>>

EnsureStore(w) ==
  /\ phase[w] = "generated" /\ phase' = [phase EXCEPT ![w] = "ready"]
  /\ \/ audit' = mine[w] /\ UNCHANGED <<split, stops>>
     \/ stops < Stops /\ stops' = stops + 1 /\ split' = TRUE /\ UNCHANGED audit
  /\ UNCHANGED <<tableVars, cache, snap, inbox, mine, task, edits, stale>>

-----------------------------------------------------------------------------
(* Requests: what they check, then what they still do                      *)

Do(op, arg) == [op |-> op, arg |-> arg]

\* check_admin_setting_lock.
Bars(row, a) == row.on /\ row.tier # None /\ Tier[a] > row.tier
\* Nobody locks a setting above himself.
Outranks(a, l) ==
  "on" \in DOMAIN l /\ l.on /\ "tier" \in DOMAIN l /\ l.tier # None /\ l.tier < Tier[a]

Free == {a \in Admins : task[a] = NoTask /\ edits < Edits}
Begin(a, w, todo, unchecked) ==
  /\ a \in Free /\ phase[w] = "ready"
  /\ edits' = edits + 1
  /\ task' = [task EXCEPT ![a] = [at |-> w, todo |-> todo, unchecked |-> unchecked]]
  /\ UNCHANGED <<tableVars, workerVars, stops, stale>>

\* Workers hear of an update when it is committed.
Steps_TellFirst(b) == <<Do("cache", b), Do("publish", b), Do("put", b)>>
Steps(b) == <<Do("put", b), Do("cache", b), Do("publish", b)>>
UpdateSettings(a, w, b) ==
  /\ \A k \in DOMAIN b : ~Bars(lock[k], a)
  /\ Begin(a, w, Steps(b), {})

\* The lock a setting has is not looked at.
UpdateLocks(a, w, b) ==
  /\ \A k \in DOMAIN b : ~Outranks(a, b[k])
  /\ Begin(a, w, <<Do("lock", b)>>, {})

\* The lock of one of the escrow rows is checked, whichever comes first.
UpdateEscrow(a, w, b) ==
  LET written == b.values
      beside == IF DOMAIN b.lock = {"tier"} THEN <<>> ELSE b.lock
      alone == IF DOMAIN b.lock = {"tier"} THEN Over(b.lock, [on |-> TRUE]) ELSE b.lock
      row(k, v, l) == Do("row", [key |-> k, value |-> v, lock |-> l])
      todo == IF written # <<>>
              THEN [i \in 1..Len(written) |-> row(written[i].key, written[i].value, beside)]
              ELSE [i \in 1..Len(EscrowKeys) |-> row(EscrowKeys[i], None, alone)] IN
  /\ ~Outranks(a, b.lock)
  /\ \E k \in Escrow : ~Bars(lock[k], a) /\ Begin(a, w, todo, Escrow \ {k})

\* apply_profile, import_profile and full_import_settings, of a server admin:
\* no lock is above him.
Import(a, w, b) ==
  /\ Tier[a] = 1
  /\ Begin(a, w, [i \in 1..Len(b) |-> Do("import", b[i])], {})

\* What no worker is told of.
Unheard(keys) == [w \in Workers |-> stale[w] \cup keys]
At(a, op) == task[a].todo # <<>> /\ Head(task[a].todo).op = op
Arg(a) == Head(task[a].todo).arg
Advance(a) == IF Len(task[a].todo) = 1 THEN NoTask ELSE [task[a] EXCEPT !.todo = Tail(@)]
\* The locks that change under a request whose check is over.
Passed(a, keys) ==
  [c \in Admins |->
     IF c = a THEN Advance(a)
     ELSE IF task[c] = NoTask THEN NoTask
     ELSE [task[c] EXCEPT !.unchecked = @ \cup keys]]

Put(a) ==
  /\ At(a, "put")
  /\ value' = Over(Arg(a), value)
  /\ task' = Passed(a, {})
  /\ UNCHANGED <<lock, workerVars, edits, stops, stale>>

PutLocks(a) ==
  /\ At(a, "lock")
  /\ lock' = Over(Arg(a), lock)
  /\ task' = Passed(a, DOMAIN Arg(a))
  /\ UNCHANGED <<value, workerVars, edits, stops, stale>>

PutRow(a) ==
  LET k == Arg(a).key
      changed == IF Arg(a).value = None THEN {} ELSE {k} IN
  /\ At(a, "row")
  /\ value' = IF changed = {} THEN value ELSE [value EXCEPT ![k] = Arg(a).value]
  /\ lock' = [lock EXCEPT ![k] = Over(Arg(a).lock, @)]
  /\ stale' = Unheard(changed)
  /\ task' = Passed(a, IF lock' = lock THEN {} ELSE {k})
  /\ UNCHANGED <<workerVars, edits, stops>>

\* A profile writes the lock with the value, an import of settings does not.
PutImport(a) ==
  LET k == Arg(a).key IN
  /\ At(a, "import")
  /\ value' = [value EXCEPT ![k] = Arg(a).value]
  /\ lock' = [lock EXCEPT ![k] = Over(Arg(a).lock, @)]
  /\ stale' = Unheard({k})
  /\ task' = Passed(a, IF lock' = lock THEN {} ELSE {k})
  /\ UNCHANGED <<workerVars, edits, stops>>

\* update_many, in the worker that serves the request.
Cache(a) ==
  LET w == task[a].at IN
  /\ At(a, "cache")
  /\ cache' = [cache EXCEPT ![w] = Over(Arg(a), @)]
  /\ task' = Passed(a, {})
  /\ UNCHANGED <<tableVars, phase, snap, inbox, mine, audit, split, edits, stops, stale>>

\* Redis hands the message to whoever has subscribed.
Publish(a) ==
  /\ At(a, "publish")
  /\ \/ /\ inbox' = [w \in Workers |-> IF w \in Up THEN inbox[w] + 1 ELSE inbox[w]]
        /\ stale' = [w \in Workers |-> IF phase[w] \in {"loading", "loaded"}
                                       THEN stale[w] \cup DOMAIN Arg(a) ELSE stale[w]]
        /\ UNCHANGED stops
     \/ /\ stops < Stops /\ stops' = stops + 1
        /\ stale' = Unheard(DOMAIN Arg(a)) /\ UNCHANGED inbox
  /\ task' = Passed(a, {})
  /\ UNCHANGED <<tableVars, cache, phase, snap, mine, audit, split, edits>>

\* A request fails between two statements: a commit's answer is lost.
Fail(a) ==
  /\ task[a] # NoTask /\ stops < Stops /\ stops' = stops + 1
  /\ task' = [task EXCEPT ![a] = NoTask]
  /\ stale' = IF At(a, "cache") \/ At(a, "publish") THEN Unheard(DOMAIN Arg(a)) ELSE stale
  /\ UNCHANGED <<tableVars, workerVars, edits>>

\* A worker stops, with what it had in memory and the requests it served.
Stop(w) ==
  LET cut == {a \in Admins : task[a].at = w}
      untold == UNION {DOMAIN Arg(a) : a \in {b \in cut : At(b, "cache") \/ At(b, "publish")}} IN
  /\ phase[w] # "down" /\ stops < Stops /\ stops' = stops + 1
  /\ phase' = [phase EXCEPT ![w] = "down"]
  /\ cache' = [cache EXCEPT ![w] = Empty] /\ snap' = [snap EXCEPT ![w] = None]
  /\ inbox' = [inbox EXCEPT ![w] = 0] /\ mine' = [mine EXCEPT ![w] = None]
  /\ task' = [a \in Admins |-> IF a \in cut THEN NoTask ELSE task[a]]
  /\ stale' = [Unheard(untold) EXCEPT ![w] = {}]
  /\ UNCHANGED <<tableVars, audit, edits, split>>

Next ==
  \/ \E w \in Workers :
       \/ Seed(w) \/ LoadRead(w) \/ Load(w) \/ LoadFails(w) \/ Subscribe(w)
       \/ EnsureRead(w) \/ EnsureStore(w) \/ Stop(w)
  \/ \E a \in Free, w \in {x \in Workers : phase[x] = "ready"} :
       \/ \E b \in Updates : UpdateSettings(a, w, b)
       \/ \E b \in Locks : UpdateLocks(a, w, b)
       \/ \E b \in EscrowBodies : UpdateEscrow(a, w, b)
       \/ \E b \in Imports : Import(a, w, b)
  \/ \E a \in Admins \ Free :
       \/ Put(a) \/ PutLocks(a) \/ PutRow(a) \/ PutImport(a)
       \/ Cache(a) \/ Publish(a) \/ Fail(a)

Spec == Init /\ [][Next]_vars

-----------------------------------------------------------------------------
(* Properties                                                              *)

\* With no request, message or reload under way, a running worker reads every
\* setting as the table has it, but for what it was never told of: writes that
\* bypass the cache, answers, messages and reloads lost, and what is announced
\* while it starts.  And its audit key is the stored one, unless two first
\* starts overlapped or the key could not be stored.
WorkersAgree ==
  (\A a \in Admins : task[a] = NoTask) =>
    \A w \in Up :
      /\ inbox[w] = 0 /\ snap[w] = None =>
           \A k \in Keys \ stale[w] : Reads(cache[w][k], k) = Reads(value[k], k)
      /\ phase[w] = "ready" /\ ~split => mine[w] = audit

\* A setting that is locked above an administrator keeps its value and its lock
\* in every statement of his requests ("Raise 403 if *row* is locked and
\* caller's tier exceeds locked_min_tier", util/db.py:22), unless the lock was
\* changed after his request had been checked.  Two pages do not look at every
\* lock: PUT /settings/locks looks at none, but writes no value; and that of
\* escrow looks at one of its rows and writes them all, so the others are
\* unchecked from the beginning.  No lock is above tier 1.
Obeys(a) ==
  task'[a].todo # task[a].todo =>
    \A k \in Keys :
      Tier[a] # 1 /\ Bars(lock[k], a) /\ k \notin task[a].unchecked =>
        value'[k] = value[k] /\ (lock'[k] = lock[k] \/ At(a, "lock"))
LocksHold == [][\A a \in Admins : Obeys(a)]_vars

TypeOK ==
  /\ \A w \in Workers :
       /\ phase[w] \in {"down", "seeded", "loading", "loaded", "listening", "generated", "ready"}
       /\ inbox[w] \in 0..Edits /\ stale[w] \subseteq Keys
       /\ DOMAIN cache[w] = Keys
  /\ DOMAIN value = Keys /\ DOMAIN lock = Keys
  /\ edits \in 0..Edits /\ stops \in 0..Stops /\ split \in BOOLEAN
=============================================================================
