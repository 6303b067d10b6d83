----------------------------- MODULE MCServices -----------------------------
(***************************************************************************)
(* The background services, one at a time: the AV workers of AvScan, the   *)
(* tier passes, the event bus with its SIEM dispatcher, and the operations *)
(* bus with its channels. They share no state that any of the properties   *)
(* reads; one run then stands for four.                                    *)
(***************************************************************************)
EXTENDS AvScan

CONSTANTS
  v0, v1, v2,                         \* storage volumes: hot, warm and cold
  t1, t2,                             \* a file on them, and a copy of it
  m1,                                 \* the tier pass
  TiersChanges,                       \* bound of StorageTiers
  stream, siem,                       \* an audit stream, and the dispatcher
  Resources, Channels,                \* what the operations bus watches, and where it tells of it
  ChannelRoom, OpsChanges             \* the room of a channel's queue; bound of OpEvents

VARIABLES
  focus,
  tiersVolume, tiersFlagged, tiersLoaded, tiersDefault, tiersFile, tiersKey,
  tiersLoc, tiersAt, tiersQueue, tiersMover, tiersAstray, tiersLeft,
  busEmitted, busQueue, busDrainer, busFanned, busStored, busLost, busSub,
  busActive, busSiem, busSends, busSent, busLeft,
  opsTrouble, opsQueue, opsGate, opsChecked, opsWriting, opsRecord,
  opsBlurred, opsChan, opsTask, opsAwake, opsCreated, opsSends, opsLeft

TierOf == [v \in {v0, v1, v2} |-> IF v = v0 THEN "hot" ELSE IF v = v1 THEN "warm" ELSE "cold"]

Tiers == INSTANCE StorageTiers WITH
  Volumes <- {v0, v1, v2}, Tier <- TierOf, Boot <- v0, Extra <- {v2},
  Warm <- v1, Cold <- v2, Files <- {t1, t2}, Copies <- {t2}, Movers <- {m1},
  None <- None, Changes <- TiersChanges, volume <- tiersVolume,
  flagged <- tiersFlagged, loaded <- tiersLoaded, astray <- tiersAstray,
  default <- tiersDefault, file <- tiersFile, key <- tiersKey,
  loc <- tiersLoc, at <- tiersAt, queue <- tiersQueue, mover <- tiersMover,
  left <- tiersLeft

Bus == INSTANCE EventBus WITH
  Total <- 4, Kept <- {1, 3, 4}, Streams <- {stream}, Siem <- siem,
  Room <- 2, PersistMax <- 2, BatchSize <- 2, Tries <- 2, Reload <- 2,
  Changes <- 1, emitted <- busEmitted, queue <- busQueue,
  drainer <- busDrainer, fanned <- busFanned, stored <- busStored,
  lost <- busLost, sub <- busSub, active <- busActive, siem <- busSiem,
  sends <- busSends, sent <- busSent, left <- busLeft

Ops == INSTANCE OpEvents WITH
  Resources <- Resources, Channels <- Channels, Room <- ChannelRoom,
  None <- None, Changes <- OpsChanges, trouble <- opsTrouble, queue <- opsQueue, gate <- opsGate,
  checked <- opsChecked, writing <- opsWriting, record <- opsRecord,
  blurred <- opsBlurred, chan <- opsChan, task <- opsTask,
  awake <- opsAwake, created <- opsCreated, sends <- opsSends,
  left <- opsLeft

ASSUME TiersAssumption == Tiers!ConstantsOK
ASSUME AvAssumption == ConstantsOK
ASSUME BusAssumption == Bus!ConstantsOK
ASSUME OpsAssumption == Ops!ConstantsOK

tiersVars ==
  <<tiersVolume, tiersFlagged, tiersLoaded, tiersDefault, tiersFile, tiersKey,
    tiersLoc, tiersAt, tiersQueue, tiersMover, tiersAstray, tiersLeft>>
busVars ==
  <<busEmitted, busQueue, busDrainer, busFanned, busStored, busLost, busSub,
    busActive, busSiem, busSends, busSent, busLeft>>
opsVars ==
  <<opsTrouble, opsQueue, opsGate, opsChecked, opsWriting, opsRecord,
    opsBlurred, opsChan, opsTask, opsAwake, opsCreated, opsSends, opsLeft>>

\* One component moves in a behaviour; the others stay as they start.
MCInit ==
  /\ Init
  /\ Tiers!Init
  /\ Bus!Init
  /\ Ops!Init
  /\ focus \in {"tiers", "av", "bus", "ops"}

MCNext ==
  \/ /\ focus = "tiers" /\ Tiers!Next
     /\ UNCHANGED <<focus, vars, busVars, opsVars>>
  \/ /\ focus = "av" /\ Next
     /\ UNCHANGED <<focus, tiersVars, busVars, opsVars>>
  \/ /\ focus = "bus" /\ Bus!Next
     /\ UNCHANGED <<focus, tiersVars, vars, opsVars>>
  \/ /\ focus = "ops" /\ Ops!Next
     /\ UNCHANGED <<focus, tiersVars, vars, busVars>>

mcVars == <<focus, tiersVars, vars, busVars, opsVars>>

MCSpec == MCInit /\ [][MCNext]_mcVars

\* The fairness of AvScan and EventBus, each for the behaviours
\* in which it moves.
WorkersRun ==
  /\ \A s \in Runs : WF_vars(focus = "av" /\ Step(s))
  /\ \A f \in Files :
       /\ WF_vars(focus = "av" /\ Recover(f))
       /\ SF_vars(focus = "av" /\ \E w \in Workers : Claim(w, f))

DrainerRuns ==
  WF_busVars(/\ focus = "bus"
             /\ Bus!Drain \/ Bus!Persist \/ Bus!Flush \/ Bus!FlushKept \/ Bus!Stop)

MCFairSpec == MCSpec /\ WorkersRun /\ DrainerRuns

-----------------------------------------------------------------------------
\* An uploaded file stays readable while it is moved between volumes,
\* wherever the pass that moves it stops (StorageTiers).
OriginalsRead == Tiers!OriginalsRead

\* A subscriber reads the events in order and without a gap for as long as
\* it is subscribed, and what the bus writes itself is in the end written or
\* recorded as lost (EventBus).
EventsArrive == []Bus!InOrder /\ Bus!EventsRecorded

\* The recorded state of a resource follows its last check, once the queue
\* is empty (OpEvents).
RecordFollowsChecks == Ops!RecordFollowsChecks
=============================================================================
