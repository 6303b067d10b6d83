------------------------------- MODULE EventBus -------------------------------
(***************************************************************************)
(* The security event bus and those who read it: services/event_bus.py,    *)
(* the audit stream of routes/admin_audit.py and the webhook dispatcher,   *)
(* services/siem_webhook.py.  Events are numbered in the order of emit.    *)
(*                                                                         *)
(* Everything runs in one event loop: what a task does between two awaits  *)
(* is one step.                                                            *)
(***************************************************************************)
EXTENDS FiniteSets, Integers, SequencesExt

CONSTANTS
  Total,     \* bound: events emitted
  Kept,      \* events the bus writes to security_events itself
  Streams,   \* audit streams
  Siem,      \* the dispatcher, a subscriber for as long as the server runs
  Room,      \* _SUBSCRIBER_MAXSIZE
  PersistMax,\* _PERSIST_BATCH_MAX
  BatchSize, \* of the destination
  Tries,     \* attempts to send a batch
  Reload,    \* events between two readings of siem_destinations
  Changes    \* bound: failures, changes of the destination and a shutdown

ConstantsOK ==
  /\ {Total, Changes} \subseteq Nat
  /\ {Room, PersistMax, BatchSize, Tries, Reload} \subseteq Nat \ {0}
  /\ Kept \subseteq 1..Total
  /\ Siem \notin Streams

VARIABLES
  emitted,  \* how many events there have been
  queue,    \* _write_queue
  drainer,  \* _drain_loop: where it is, and the batch it is writing
  fanned,   \* ghost: how many events have been fanned out
  stored,   \* security_events
  lost,     \* ghost: events whose batch failed, or was being written at the end
  sub,      \* each subscriber: its queue, whether it is listed, what it has read
  active,   \* siem_destinations.is_active
  siem,     \* _dispatch_loop: its copy of the destinations and its overflow
  sends,    \* _send_with_retry tasks
  sent,     \* events the destination has received
  left

bus  == <<emitted, queue, drainer, fanned, stored, lost>>
disp == <<active, siem, sends, sent>>
vars == <<bus, sub, disp, left>>

Events == 1..Total
Readers == Streams \cup {Siem}
NoSub == [on |-> FALSE, open |-> FALSE, queue |-> <<>>, got |-> <<>>, from |-> 0]
NewSub(n) == [on |-> TRUE, open |-> TRUE, queue |-> <<>>, got |-> <<>>, from |-> n]

Init ==
  /\ emitted = 0 /\ queue = <<>> /\ fanned = 0
  /\ drainer = [pc |-> "get", batch |-> {}]
  /\ stored = {} /\ lost = {}
  /\ sub = [r \in Readers |-> IF r = Siem THEN NewSub(1) ELSE NoSub]
  /\ active = TRUE
  /\ siem = [loaded |-> FALSE, countdown |-> Reload, overflow |-> <<>>, handed |-> <<>>,
             taken |-> <<>>, over |-> FALSE]
  /\ sends = {} /\ sent = {}
  /\ left = Changes

Disturb == left > 0 /\ left' = left - 1

Emit ==
  /\ emitted < Total
  /\ emitted' = emitted + 1
  /\ queue' = Append(queue, emitted')
  /\ UNCHANGED <<drainer, fanned, stored, lost, sub, disp, left>>

(***************************************************************************)
(* The drain loop.                                                         *)
(***************************************************************************)
(* A full queue takes nothing and its owner is taken off the list, so that *)
(* what it misses is a tail.                                               *)
Offer(s, e) ==
  IF ~s.on THEN s
  ELSE IF Len(s.queue) = Room THEN [s EXCEPT !.on = FALSE]
  ELSE [s EXCEPT !.queue = Append(@, e)]

Fanout(es) ==
  /\ sub' = [r \in Readers |-> FoldLeft(Offer, sub[r], es)]
  /\ fanned' = fanned + Len(es)

(* The events one pass takes: all there are, until enough are to be kept.  *)
Taken ==
  LET full(n) == Cardinality({i \in 1..n : queue[i] \in Kept}) >= PersistMax
      stops == {n \in 1..Len(queue) : full(n)}
  IN IF stops = {} THEN Len(queue) ELSE CHOOSE n \in stops : \A k \in stops : n <= k

(* Those that are written; the mutant forgets all but the one it woke for. *)
Batched_First(es) == {es[1]} \cap Kept
Batched(es) == ToSet(es) \cap Kept

Drain ==
  LET es == SubSeq(queue, 1, Taken) IN
  /\ drainer.pc = "get" /\ queue # <<>>
  /\ Fanout(es)
  /\ queue' = SubSeq(queue, Taken + 1, Len(queue))
  /\ drainer' = LET b == Batched(es)
                IN [pc |-> IF b = {} THEN "get" ELSE "persist", batch |-> b]
  /\ UNCHANGED <<emitted, stored, lost, disp, left>>

(* One transaction for the batch.                                          *)
Persist ==
  /\ drainer.pc = "persist"
  /\ stored' = stored \cup drainer.batch
  /\ drainer' = [pc |-> "get", batch |-> {}]
  /\ UNCHANGED <<emitted, queue, fanned, lost, sub, disp, left>>

(* It is rolled back and logged; the events are not kept for another try.  *)
PersistFails ==
  /\ drainer.pc \in {"persist", "flushing"}
  /\ Disturb
  /\ lost' = lost \cup drainer.batch
  /\ IF drainer.pc = "flushing"
     THEN Fanout(SetToSeq(drainer.batch)) /\ drainer' = [pc |-> "flush", batch |-> {}]
     ELSE UNCHANGED <<sub, fanned>> /\ drainer' = [pc |-> "get", batch |-> {}]
  /\ UNCHANGED <<emitted, queue, stored, disp>>

(* The batch that is being written when the task is cancelled is dropped.  *)
Cancel ==
  /\ drainer.pc \in {"get", "persist"}
  /\ Disturb
  /\ lost' = lost \cup drainer.batch
  /\ drainer' = [pc |-> "flush", batch |-> {}]
  /\ UNCHANGED <<emitted, queue, fanned, stored, sub, disp>>

(* _flush_remaining_events takes one at a time, and fans it out when it is *)
(* written.                                                                *)
Flush ==
  /\ drainer.pc = "flush" /\ queue # <<>>
  /\ queue' = Tail(queue)
  /\ IF Head(queue) \in Kept
     THEN drainer' = [pc |-> "flushing", batch |-> {Head(queue)}] /\ UNCHANGED <<sub, fanned>>
     ELSE Fanout(<<Head(queue)>>) /\ UNCHANGED drainer
  /\ UNCHANGED <<emitted, stored, lost, disp, left>>

FlushKept ==
  /\ drainer.pc = "flushing"
  /\ stored' = stored \cup drainer.batch
  /\ Fanout(SetToSeq(drainer.batch))
  /\ drainer' = [pc |-> "flush", batch |-> {}]
  /\ UNCHANGED <<emitted, queue, lost, disp, left>>

Stop ==
  /\ drainer.pc = "flush" /\ queue = <<>>
  /\ drainer' = [pc |-> "over", batch |-> {}]
  /\ UNCHANGED <<emitted, queue, fanned, stored, lost, sub, disp, left>>

(***************************************************************************)
(* Audit streams.                                                          *)
(***************************************************************************)
OpenStream(r) ==
  /\ ~sub[r].open /\ sub[r].from = 0
  /\ sub' = [sub EXCEPT ![r] = NewSub(fanned + 1)]
  /\ UNCHANGED <<bus, disp, left>>

(* A stream that was taken off the list still reads what it has, and waits.*)
ReadStream(r) ==
  /\ sub[r].open /\ sub[r].queue # <<>>
  /\ sub' = [sub EXCEPT ![r].queue = Tail(@), ![r].got = Append(@, Head(sub[r].queue))]
  /\ UNCHANGED <<bus, disp, left>>

CloseStream(r) ==
  /\ sub[r].open
  /\ sub' = [sub EXCEPT ![r].open = FALSE, ![r].on = FALSE, ![r].queue = <<>>]
  /\ UNCHANGED <<bus, disp, left>>

(***************************************************************************)
(* The webhook dispatcher.                                                 *)
(***************************************************************************)
ToggleDestination ==
  /\ Disturb
  /\ active' = ~active
  /\ UNCHANGED <<bus, sub, siem, sends, sent>>

Batch(es, n) == [events |-> es, tries |-> 0, id |-> n]

\* The rest of a batch that was handed over.
Rest(es) == SubSeq(es, BatchSize + 1, Len(es))

(* Until the first reload there are no destinations, and nothing is kept   *)
(* for them.                                                               *)
Dispatch ==
  LET e    == Head(sub[Siem].queue)
      due  == siem.countdown = 1
      here == IF due THEN active ELSE siem.loaded
      held == IF here THEN Append(siem.overflow, e) ELSE siem.overflow
      full == here /\ Len(held) >= BatchSize
      es   == SubSeq(held, 1, BatchSize)
  IN
  /\ sub[Siem].queue # <<>> /\ ~siem.over
  /\ sub' = [sub EXCEPT ![Siem].queue = Tail(@), ![Siem].got = Append(@, e)]
  /\ siem' = [siem EXCEPT
       !.countdown = IF due THEN Reload ELSE @ - 1,
       !.loaded = here,
       !.taken = IF here THEN Append(@, e) ELSE @,
       !.handed = IF full THEN @ \o es ELSE @,
       !.overflow = IF full THEN Rest(held) ELSE held]
  /\ sends' = IF full THEN sends \cup {Batch(es, Len(siem'.handed))} ELSE sends
  /\ UNCHANGED <<bus, active, sent, left>>

(* Ten seconds without an event count for ten.                             *)
IdleReload ==
  /\ sub[Siem].queue = <<>> /\ ~siem.over
  /\ siem.loaded # active
  /\ siem' = [siem EXCEPT !.loaded = active, !.countdown = Reload]
  /\ UNCHANGED <<bus, sub, active, sends, sent, left>>

SendBatch(t) ==
  /\ t \in sends
  /\ sent' = sent \cup ToSet(t.events)
  /\ sends' = sends \ {t}
  /\ UNCHANGED <<bus, sub, active, siem, left>>

(* Also when the destination has them and the answer is lost.              *)
SendFails(t) ==
  /\ t \in sends
  /\ Disturb
  /\ \E got \in {{}, ToSet(t.events)} : sent' = sent \cup got
  /\ sends' = IF t.tries + 1 = Tries THEN sends \ {t}
              ELSE (sends \ {t}) \cup {[t EXCEPT !.tries = @ + 1]}
  /\ UNCHANGED <<bus, sub, active, siem>>

(* Shutdown comes here after the bus has been flushed; what still is in    *)
(* the queue is not looked at.                                             *)
StopDispatch ==
  /\ drainer.pc = "over" /\ ~siem.over
  /\ siem' = [siem EXCEPT !.over = TRUE, !.handed = IF siem.loaded THEN @ \o siem.overflow ELSE @,
                          !.overflow = IF siem.loaded THEN <<>> ELSE @]
  /\ sends' = IF siem.loaded /\ siem.overflow # <<>>
              THEN sends \cup {Batch(siem.overflow, Len(siem'.handed))} ELSE sends
  /\ sub' = [sub EXCEPT ![Siem].on = FALSE]
  /\ UNCHANGED <<bus, active, sent, left>>

Next ==
  \/ Emit
  \/ Drain
  \/ Persist
  \/ PersistFails
  \/ Cancel
  \/ Flush
  \/ FlushKept
  \/ Stop
  \/ \E r \in Streams : OpenStream(r)
  \/ \E r \in Streams : ReadStream(r)
  \/ \E r \in Streams : CloseStream(r)
  \/ ToggleDestination
  \/ Dispatch
  \/ IdleReload
  \/ \E t \in sends : SendBatch(t)
  \/ \E t \in sends : SendFails(t)
  \/ StopDispatch

Spec == Init /\ [][Next]_vars

(* The drainer is a task of the event loop and runs whenever it can.       *)
Fairness == WF_vars(Drain \/ Persist \/ Flush \/ FlushKept \/ Stop)
FairSpec == Spec /\ Fairness

TypeOK ==
  /\ emitted \in 0..Total /\ fanned \in 0..Total
  /\ queue \in BoundedSeq(Events, Total)
  /\ drainer.pc \in {"get", "persist", "flush", "flushing", "over"}
  /\ drainer.batch \subseteq Kept
  /\ stored \subseteq Kept /\ lost \subseteq Kept /\ sent \subseteq Events
  /\ \A r \in Readers : Len(sub[r].queue) <= Room /\ (sub[r].on => sub[r].open)
  /\ siem.countdown \in 1..Reload /\ Len(siem.overflow) <= BatchSize
  /\ \A t \in sends : t.tries \in 0..(Tries - 1)
  /\ left \in 0..Changes

(* What a subscriber has read and still has to read is every event since   *)
(* it subscribed, in order and without a gap; all of them while it is on   *)
(* the list, and a beginning of them once it was too slow.                 *)
InOrder ==
  \A r \in Readers :
    LET seen == sub[r].got \o sub[r].queue IN
    /\ \A i \in DOMAIN seen : seen[i] = sub[r].from + i - 1
    /\ sub[r].on => Len(seen) = fanned - sub[r].from + 1

(* Each event taken for the destination is in one batch, in order: slicing *)
(* the overflow neither repeats nor skips one.                             *)
BatchedOnce == siem.handed \o siem.overflow = siem.taken

(* Every event the bus has to write is written, those in the queue when    *)
(* the server is stopped included, unless its transaction fails, or is     *)
(* under way at that moment, or the event comes after the flush.           *)
EventsRecorded ==
  \A e \in Kept : emitted >= e ~>
    e \in stored \cup lost \/ (drainer.pc = "over" /\ e \in ToSet(queue))
===============================================================================
