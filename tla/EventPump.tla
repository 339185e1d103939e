----------------------------- MODULE EventPump -----------------------------
(***************************************************************************)
(* How the UI learns that the fleet changed.  Sessions report hints on one *)
(* bounded channel and drop what does not fit (internal/ssh/session.go);   *)
(* the event pump, a goroutine that lives for one batch, drains the        *)
(* channel into one message; Update re-reads the fleet for it and arms the *)
(* pump again (internal/program/program.go, internal/ui/app.go).  Commands *)
(* of the user end with the same message, without having been a pump.      *)
(*                                                                         *)
(* The fleet's authoritative state is a version number here: the UI's      *)
(* snapshot is current when it shows that version.                         *)
(***************************************************************************)
EXTENDS Naturals, Sequences

CONSTANTS
  EventBuffer,   \* capacity of the manager's event channel
  MaxChanges,    \* bound of the model: changes of the fleet
  MaxCommands    \* bound of the model: commands of the user

ASSUME EventBufferAssumption == EventBuffer \in Nat \ {0}
ASSUME MaxChangesAssumption == MaxChanges \in Nat
ASSUME MaxCommandsAssumption == MaxCommands \in Nat

VARIABLES
  fleet,       \* version of the fleet the sessions hold
  shown,       \* version the UI's snapshot was taken from
  unreported,  \* transitions that were made and not yet emitted
  events,      \* the event channel: "state" and "output" hints
  missed,      \* history: a "state" hint was dropped since the last snapshot
  pump,        \* pump[p]: pump goroutine p: "off", "waiting", "draining", "sent"
  updated,     \* updated[p]: its batch says that the fleet changed
  issued,      \* commands the user gave so far
  running,     \* commands that run
  finished     \* commands whose message waits for Update

fleetVars == <<fleet, unreported>>
pumpVars  == <<pump, updated>>
cmdVars   == <<issued, running, finished>>
eventPumpVars == <<fleetVars, shown, events, missed, pumpVars, cmdVars>>

Pump == 1 .. 1 + MaxCommands

EventPumpTypeOK ==
  /\ fleet \in 0 .. MaxChanges
  /\ shown \in 0 .. fleet
  /\ unreported \in 0 .. MaxChanges
  /\ events \in Seq({"state", "output"}) /\ Len(events) <= EventBuffer
  /\ missed \in BOOLEAN
  /\ pump \in [Pump -> {"off", "waiting", "draining", "sent"}]
  /\ updated \in [Pump -> BOOLEAN]
  /\ issued \in 0 .. MaxCommands
  /\ running \in 0 .. issued /\ finished \in 0 .. issued

(* Init arms the first pump.                                               *)
EventPumpInit ==
  /\ fleet = 0 /\ shown = 0 /\ unreported = 0
  /\ events = <<>> /\ missed = FALSE
  /\ pump = [p \in Pump |-> IF p = 1 THEN "waiting" ELSE "off"]
  /\ updated = [p \in Pump |-> FALSE]
  /\ issued = 0 /\ running = 0 /\ finished = 0

-----------------------------------------------------------------------------
(* A session makes a transition under its lock ...                         *)
SessionMoves ==
  /\ fleet < MaxChanges
  /\ fleet' = fleet + 1
  /\ unreported' = unreported + 1
  /\ UNCHANGED <<shown, events, missed, pumpVars, cmdVars>>

(* ... and emits the hint after the unlock, unless the channel is full.    *)
SessionReports ==
  /\ unreported > 0
  /\ unreported' = unreported - 1
  /\ \/ /\ Len(events) < EventBuffer
        /\ events' = Append(events, "state")
        /\ UNCHANGED missed
     \/ /\ Len(events) = EventBuffer
        /\ missed' = TRUE
        /\ UNCHANGED events
  /\ UNCHANGED <<fleet, shown, pumpVars, cmdVars>>

(* Output of a host: a hint, dropped when the channel is full.             *)
SessionOutputs ==
  /\ Len(events) < EventBuffer
  /\ events' = Append(events, "output")
  /\ UNCHANGED <<fleetVars, shown, missed, pumpVars, cmdVars>>

(* The user reconnects or closes hosts: the command runs on a goroutine.   *)
CommandStarts ==
  /\ issued < MaxCommands
  /\ issued' = issued + 1
  /\ running' = running + 1
  /\ UNCHANGED <<fleetVars, shown, events, missed, pumpVars, finished>>

(* Reconnect puts a fresh session in the fleet, which reports nothing yet. *)
CommandSwaps ==
  /\ running > 0
  /\ fleet < MaxChanges
  /\ fleet' = fleet + 1
  /\ UNCHANGED <<unreported, shown, events, missed, pumpVars, cmdVars>>

CommandReturns ==
  /\ running > 0
  /\ running' = running - 1
  /\ finished' = finished + 1
  /\ UNCHANGED <<fleetVars, shown, events, missed, pumpVars, issued>>

-----------------------------------------------------------------------------
(* The pump takes one event off the channel into its batch.                *)
Take(p) ==
  /\ events # <<>>
  /\ events' = Tail(events)
  /\ updated' = [updated EXCEPT ![p] = @ \/ Head(events) = "state"]
  /\ UNCHANGED <<fleetVars, shown, missed, cmdVars>>

(* The first event, which the pump blocks for.                             *)
PumpReceives(p) ==
  /\ pump[p] = "waiting"
  /\ Take(p)
  /\ pump' = [pump EXCEPT ![p] = "draining"]

(* Defect: only the first event decides what the batch says.               *)
PumpDrains_FirstDecides(p) ==
  /\ pump[p] = "draining"
  /\ events # <<>>
  /\ events' = Tail(events)
  /\ UNCHANGED <<fleetVars, shown, missed, pumpVars, cmdVars>>

(* What else is queued, one event at a time.                               *)
PumpDrains(p) ==
  /\ pump[p] = "draining"
  /\ Take(p)
  /\ UNCHANGED pump

(* Defect: the pump goes on collecting until the channel was full.         *)
PumpDelivers_WhenFull(p) ==
  /\ pump[p] = "draining" /\ Len(events) = EventBuffer
  /\ pump' = [pump EXCEPT ![p] = "sent"]
  /\ UNCHANGED <<fleetVars, shown, events, missed, updated, cmdVars>>

(* The channel is empty: the batch becomes a message, the goroutine ends.  *)
PumpDelivers(p) ==
  /\ pump[p] = "draining" /\ events = <<>>
  /\ pump' = [pump EXCEPT ![p] = "sent"]
  /\ UNCHANGED <<fleetVars, shown, events, missed, updated, cmdVars>>

(* FleetUpdatedMsg: snapshotFleet re-reads every session.  The code reads  *)
(* them one after the other; a session that moves after its row was read   *)
(* reports it with a hint of its own, so one step stands for the loop.     *)
Snapshot == shown' = fleet /\ missed' = FALSE

(* Update, for the message of a pump: re-read the fleet if the batch says  *)
(* so, and arm the pump again.                                             *)
UpdateBatch(p) ==
  /\ pump[p] = "sent"
  /\ IF updated[p] THEN Snapshot ELSE UNCHANGED <<shown, missed>>
  /\ pump' = [pump EXCEPT ![p] = "waiting"]
  /\ updated' = [updated EXCEPT ![p] = FALSE]
  /\ UNCHANGED <<fleetVars, events, cmdVars>>

(* Update, for the message of a command: the same, so one pump more runs.  *)
UpdateCommand ==
  /\ finished > 0
  /\ finished' = finished - 1
  /\ Snapshot
  /\ \E p \in Pump : pump[p] = "off" /\ pump' = [pump EXCEPT ![p] = "waiting"]
  /\ UNCHANGED <<fleetVars, events, updated, issued, running>>

EventPumpNext ==
  \/ SessionMoves \/ SessionReports \/ SessionOutputs
  \/ CommandStarts \/ CommandSwaps \/ CommandReturns
  \/ \E p \in Pump : PumpReceives(p) \/ PumpDrains(p) \/ PumpDelivers(p) \/ UpdateBatch(p)
  \/ UpdateCommand

EventPumpSpec == EventPumpInit /\ [][EventPumpNext]_eventPumpVars

(* Goroutines and the event loop run.  A draining pump that finds the      *)
(* channel empty again and again does so at the moment it looks, once      *)
(* (strong fairness).  That the channel is ever empty is not assumed here: *)
(* hosts that never pause keep a batch open for ever.                      *)
Fairness ==
  /\ WF_eventPumpVars(SessionReports)
  /\ WF_eventPumpVars(CommandReturns)
  /\ WF_eventPumpVars(UpdateCommand)
  /\ WF_eventPumpVars(\E p \in Pump : PumpReceives(p))
  /\ WF_eventPumpVars(\E p \in Pump : PumpDrains(p))
  /\ \A p \in Pump : SF_eventPumpVars(PumpDelivers(p)) /\ WF_eventPumpVars(UpdateBatch(p))

FairSpec == EventPumpSpec /\ Fairness

-----------------------------------------------------------------------------
(* Somebody always listens: whatever the batches say and however commands  *)
(* and batches interleave, a pump goroutine is alive or about to be armed. *)
SomePumpLives == \E p \in Pump : pump[p] # "off"

(* The snapshot is only ever behind while a hint that will refresh it is   *)
(* on its way (with its session, in the channel, in a batch or with a      *)
(* command), or a hint was dropped.                                        *)
StaleHasHint ==
  shown # fleet =>
    \/ missed
    \/ unreported > 0 \/ running > 0 \/ finished > 0
    \/ \E k \in DOMAIN events : events[k] = "state"
    \/ \E p \in Pump : updated[p]

(* Together: somebody listens, and what is stale is hinted or was dropped  *)
(* (pump, Update, emit).                                                   *)
StalenessIsHinted == EventPumpTypeOK /\ SomePumpLives /\ StaleHasHint

(* The hosts pause: the channel is empty again and again.                  *)
HostsPause == []<>(events = <<>>)

(* ... and then it does refresh it, however many pumps compete and in      *)
(* whatever order their messages reach Update, unless a hint is dropped.   *)
KeptHintRefreshes == HostsPause => (shown # fleet ~> (shown = fleet \/ missed))

(* Claimed by snapshotFleet: "a host flipping state emits a fleet event,   *)
(* the event refreshes the snapshot ... no keypress involved"              *)
(* (fleet.go:157-159).                                                     *)
SnapshotCatchesUp == HostsPause => (shown # fleet ~> shown = fleet)

(* Claimed by fleetEventMsg: it is a batch, "so Update knows to re-arm the *)
(* pump after delivering it" (program.go:304-305): one pump is armed,      *)
(* delivered and armed again.                                              *)
OnePump == \A p, q \in Pump : pump[p] # "off" /\ pump[q] # "off" => p = q
=============================================================================
