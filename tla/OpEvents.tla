------------------------------- MODULE OpEvents -------------------------------
(***************************************************************************)
(* Operational events: the gate that lets a warning pass once, its record, *)
(* and the notification channels.  services/op_bus.py,                     *)
(* services/notification_emitter.py, routes/admin_notifications.py.        *)
(*                                                                         *)
(* A resource is a volume, a user's quota or an API key; checks tell how   *)
(* it is, again and again.  One process, one event loop.                   *)
(***************************************************************************)
EXTENDS FiniteSets, Integers, SequencesExt

CONSTANTS
  Resources,
  Channels,
  Room,     \* _SUBSCRIBER_MAXSIZE
  None,
  Changes   \* bound: checks, failures, restarts and administrators' changes

Kinds == {"problem", "ok"}

ConstantsOK ==
  /\ Room \in Nat \ {0}
  /\ Changes \in Nat
  /\ None \notin Channels \cup [of : Resources, kind : Kinds]

VARIABLES
  trouble,  \* resources that are over their limit now
  queue,    \* _write_queue
  gate,     \* _state
  checked,  \* ghost: what the last check of a resource has emitted
  writing,  \* the event the drain loop has let pass, or None
  record,   \* operational_events, the last row of each resource
  blurred,  \* ghost: resources whose gate was set, or forgotten, without a row
  chan,     \* notification_channels: "none", "off", or the version that is on
  task,     \* _channel_loop tasks: the version they run with, and their queue
  awake,    \* _reload_event, or the minute is over
  created,  \* a create_channel that still has to catch up
  sends,    \* batches being sent: the channel's version and what they say
  left

op    == <<trouble, queue, checked, gate, writing, record, blurred>>
notif == <<chan, task, awake, created, sends>>
vars  == <<op, notif, left>>

Event(r, k) == [of |-> r, kind |-> k]
NoTask == [on |-> FALSE, listed |-> FALSE, version |-> 0, queue |-> <<>>, held |-> {}]

Init ==
  /\ trouble = {} /\ queue = <<>>
  /\ gate = [r \in Resources |-> "unknown"]
  /\ checked = [r \in Resources |-> "none"]
  /\ writing = None
  /\ record = [r \in Resources |-> "none"]
  /\ blurred = {}
  /\ chan = [c \in Channels |-> 0]
  /\ task = [c \in Channels |-> NoTask]
  /\ awake = FALSE /\ created = None /\ sends = {}
  /\ left = Changes

Disturb == left > 0 /\ left' = left - 1

(***************************************************************************)
(* Checks: an upload that begins, the tiering pass, the daily key check.   *)
(***************************************************************************)
Change(r) ==
  /\ Disturb
  /\ trouble' = IF r \in trouble THEN trouble \ {r} ELSE trouble \cup {r}
  /\ UNCHANGED <<queue, checked, gate, writing, record, blurred, notif>>

Check(r) ==
  LET kind == IF r \in trouble THEN "problem" ELSE "ok" IN
  /\ Len(queue) < 2
  /\ queue' = Append(queue, Event(r, kind))
  /\ checked' = [checked EXCEPT ![r] = kind]
  /\ UNCHANGED <<trouble, gate, writing, record, blurred, notif, left>>

(***************************************************************************)
(* The drain loop.                                                         *)
(***************************************************************************)
(* The mutant lets the first problem pass only.                            *)
Passes_Once(e) == IF e.kind = "problem" THEN gate[e.of] = "unknown" ELSE gate[e.of] = "problem"
Passes(e) == IF e.kind = "problem" THEN gate[e.of] # "problem" ELSE gate[e.of] = "problem"

Judge ==
  LET e == Head(queue) IN
  /\ writing = None /\ queue # <<>>
  /\ queue' = Tail(queue)
  /\ IF Passes(e)
     THEN gate' = [gate EXCEPT ![e.of] = e.kind] /\ writing' = e
     ELSE UNCHANGED <<gate, writing>>
  /\ UNCHANGED <<trouble, checked, record, blurred, notif, left>>

Put(t, e) ==
  IF ~t.listed THEN t
  ELSE IF Len(t.queue) = Room THEN [t EXCEPT !.listed = FALSE]
  ELSE [t EXCEPT !.queue = Append(@, e)]

Fanout(e) == task' = [c \in Channels |-> Put(task[c], e)]

PersistAndFanout ==
  /\ writing # None
  /\ record' = [record EXCEPT ![writing.of] = writing.kind]
  /\ Fanout(writing)
  /\ writing' = None
  /\ UNCHANGED <<trouble, queue, checked, gate, blurred, chan, awake, created, sends, left>>

(* The error is logged; subscribers hear of the event all the same.        *)
PersistFails ==
  /\ writing # None
  /\ Disturb
  /\ blurred' = blurred \cup {writing.of}
  /\ Fanout(writing)
  /\ writing' = None
  /\ UNCHANGED <<trouble, queue, checked, gate, record, chan, awake, created, sends>>

(* Retention: the rows go, the gate stays.                                 *)
CleanUp(r) ==
  /\ record[r] # "none"
  /\ Disturb
  /\ record' = [record EXCEPT ![r] = "none"]
  /\ blurred' = blurred \cup {r}
  /\ UNCHANGED <<trouble, queue, checked, gate, writing, notif>>

(* Queues, gate and tasks are memory.                                      *)
Restart ==
  /\ Disturb
  /\ queue' = <<>> /\ writing' = None
  /\ gate' = [r \in Resources |-> "unknown"]
  /\ checked' = [r \in Resources |-> "none"]
  /\ blurred' = Resources
  /\ task' = [c \in Channels |-> NoTask]
  /\ awake' = TRUE /\ created' = None /\ sends' = {}
  /\ UNCHANGED <<trouble, record, chan>>

(***************************************************************************)
(* Channels: a version number stands for the row's settings, 0 for none    *)
(* and a negative one for a channel that is disabled.                      *)
(***************************************************************************)
Enabled == {c \in Channels : chan[c] > 0}

CreateChannel(c, on) ==
  /\ chan[c] = 0 /\ created = None
  /\ Disturb
  /\ chan' = [chan EXCEPT ![c] = IF on THEN 1 ELSE -1]
  /\ awake' = TRUE /\ created' = c
  /\ UNCHANGED <<op, task, sends>>

UpdateChannel(c, on) ==
  /\ chan[c] # 0
  /\ Disturb
  /\ chan' = [chan EXCEPT ![c] = LET v == (IF @ < 0 THEN -@ ELSE @) + 1 IN IF on THEN v ELSE -v]
  /\ awake' = TRUE
  /\ UNCHANGED <<op, task, created, sends>>

DeleteChannel(c) ==
  /\ chan[c] # 0
  /\ Disturb
  /\ chan' = [chan EXCEPT ![c] = 0]
  /\ awake' = TRUE
  /\ UNCHANGED <<op, task, created, sends>>

(* A tenth of a second after the row is written.  The gate is set whether  *)
(* the channel's queue exists, and has room, or not.                       *)
CatchUp ==
  /\ created # None
  /\ gate' = [r \in Resources |-> IF r \in trouble THEN "problem" ELSE gate[r]]
  /\ blurred' = blurred \cup trouble
  /\ LET told == [i \in 1..Cardinality(trouble) |-> Event(SetToSeq(trouble)[i], "problem")]
         room == Room - Len(task[created].queue)
         n    == IF Len(told) < room THEN Len(told) ELSE room
     IN task' = IF task[created].on
                THEN [task EXCEPT ![created].queue = @ \o SubSeq(told, 1, n)] ELSE task
  /\ created' = None
  /\ UNCHANGED <<trouble, queue, checked, writing, record, chan, awake, sends, left>>

Minute ==
  /\ ~awake
  /\ awake' = TRUE
  /\ UNCHANGED <<op, chan, task, created, sends, left>>

(* A task that is cancelled sends what it holds, not what is in its queue. *)
Batch(c) == [of |-> c, version |-> task[c].version, events |-> task[c].held]
Ended(cs) == {Batch(c) : c \in {d \in cs : task[d].held # {}}}

(* Channels that are gone or off are stopped, those without a task are     *)
(* started; a task that runs keeps the settings it was started with.       *)
Stops(c) == task[c].on /\ c \notin Enabled
Supervise ==
  /\ awake
  /\ awake' = FALSE
  /\ sends' = sends \cup Ended({c \in Channels : Stops(c)})
  /\ task' = [c \in Channels |->
       IF Stops(c) THEN NoTask
       ELSE IF c \in Enabled /\ ~task[c].on
            THEN [NoTask EXCEPT !.on = TRUE, !.listed = TRUE, !.version = chan[c]]
            ELSE task[c]]
  /\ UNCHANGED <<op, chan, created, left>>

(* An error while the channels are read is taken for no channels.          *)
LoadFails ==
  /\ awake
  /\ Disturb
  /\ awake' = FALSE
  /\ sends' = sends \cup Ended({c \in Channels : task[c].on})
  /\ task' = [c \in Channels |-> NoTask]
  /\ UNCHANGED <<op, chan, created>>

Collect(c) ==
  /\ task[c].on /\ task[c].queue # <<>>
  /\ task' = [task EXCEPT ![c].queue = Tail(@), ![c].held = @ \cup {Head(task[c].queue)}]
  /\ UNCHANGED <<op, chan, awake, created, sends, left>>

(* The batch is full, or its interval over.                                *)
Send(c) ==
  /\ task[c].on /\ task[c].held # {}
  /\ sends' = sends \cup {Batch(c)}
  /\ task' = [task EXCEPT ![c].held = {}]
  /\ UNCHANGED <<op, chan, awake, created, left>>

(* Delivered, or given up after the last attempt.                          *)
SendEnds(b) ==
  /\ b \in sends
  /\ sends' = sends \ {b}
  /\ UNCHANGED <<op, chan, task, awake, created, left>>

Next ==
  \/ \E r \in Resources : Change(r)
  \/ \E r \in Resources : Check(r)
  \/ Judge
  \/ PersistAndFanout
  \/ PersistFails
  \/ \E r \in Resources : CleanUp(r)
  \/ Restart
  \/ \E c \in Channels, on \in BOOLEAN : CreateChannel(c, on)
  \/ \E c \in Channels, on \in BOOLEAN : UpdateChannel(c, on)
  \/ \E c \in Channels : DeleteChannel(c)
  \/ CatchUp
  \/ Minute
  \/ Supervise
  \/ LoadFails
  \/ \E c \in Channels : Collect(c)
  \/ \E c \in Channels : Send(c)
  \/ \E b \in sends : SendEnds(b)

Spec == Init /\ [][Next]_vars

TypeOK ==
  /\ trouble \subseteq Resources
  /\ queue \in BoundedSeq([of : Resources, kind : Kinds], 2)
  /\ checked \in [Resources -> Kinds \cup {"none"}]
  /\ gate \in [Resources -> Kinds \cup {"unknown"}]
  /\ writing \in [of : Resources, kind : Kinds] \cup {None}
  /\ record \in [Resources -> Kinds \cup {"none"}]
  /\ blurred \subseteq Resources
  /\ \A c \in Channels : /\ Len(task[c].queue) <= Room
                         /\ task[c].listed => task[c].on
                         /\ ~task[c].on => task[c] = NoTask
  /\ created \in Channels \cup {None}
  /\ left \in 0..Changes

(* Once the bus is idle, the last row of a resource says what its last     *)
(* check has found: a change is never held back by the gate, however often *)
(* the resource goes to and fro.  Not after a restart, a failed insert,    *)
(* the retention's delete or a catch-up, which set one of the two only.    *)
RecordFollowsChecks ==
  queue = <<>> /\ writing = None =>
    \A r \in Resources \ blurred : checked[r] = "problem" <=> record[r] = "problem"
===============================================================================
