-------------------------- MODULE UpdateLoopProofs --------------------------
(***************************************************************************)
(* Proofs about what the update loop keeps for itself: what it knows of    *)
(* the fleet (EventPump, for every channel size and any number of changes  *)
(* and commands), the working set (WorkingSet, for every list of hosts,    *)
(* every range and any number of names), and the keyboard (Keyboard, for   *)
(* every list of panes, any key, paste and click, and a log of any length).*)
(***************************************************************************)
EXTENDS EventPump, WorkingSet, Keyboard, FiniteSetTheorems, SequenceTheorems, TLAPS

-----------------------------------------------------------------------------
(* The event pump.                                                         *)

(* Every command that was given runs, has finished or is done; every       *)
(* unreported transition is one of the fleet's.                            *)
CountInv ==
  /\ running + finished <= issued
  /\ unreported <= fleet

PumpInv == EventPumpTypeOK /\ CountInv /\ SomePumpLives /\ StaleHasHint

-----------------------------------------------------------------------------
(* A state hint in the channel.                                            *)
Hinted == \E k \in DOMAIN events : events[k] = "state"

LEMMA InitPumpInv == EventPumpInit => PumpInv
<1> SUFFICES ASSUME EventPumpInit PROVE PumpInv
  OBVIOUS
<1>1. <<>> \in Seq({"state", "output"}) /\ Len(<<>>) <= EventBuffer
  BY EventBufferAssumption
<1>2. 1 \in Pump
  BY MaxCommandsAssumption DEF Pump
<1>3. EventPumpTypeOK /\ CountInv
  <2>1. pump \in [Pump -> {"off", "waiting", "draining", "sent"}] /\ updated \in [Pump -> BOOLEAN]
    BY DEF EventPumpInit
  <2>2. fleet \in 0 .. MaxChanges /\ unreported \in 0 .. MaxChanges /\ issued \in 0 .. MaxCommands
    BY MaxChangesAssumption, MaxCommandsAssumption DEF EventPumpInit
  <2>3. shown \in 0 .. fleet /\ running \in 0 .. issued /\ finished \in 0 .. issued
    BY 0 \in 0 .. 0 DEF EventPumpInit
  <2>4. events \in Seq({"state", "output"}) /\ Len(events) <= EventBuffer
    BY <1>1 DEF EventPumpInit
  <2>5. missed \in BOOLEAN
    BY DEF EventPumpInit
  <2>6. CountInv
    BY DEF EventPumpInit, CountInv
  <2> QED
    BY <2>1, <2>2, <2>3, <2>4, <2>5, <2>6 DEF EventPumpTypeOK
<1>4. SomePumpLives /\ StaleHasHint
  BY <1>2 DEF EventPumpInit, SomePumpLives, StaleHasHint
<1> QED
  BY <1>3, <1>4 DEF PumpInv

(* What a hint, once in the channel, needs to stay there: nothing but that *)
(* nobody takes it.                                                        *)
LEMMA AppendKeepsHints ==
  ASSUME EventPumpTypeOK, NEW e \in {"state", "output"}
  PROVE  /\ Append(events, e) \in Seq({"state", "output"})
         /\ Len(Append(events, e)) = Len(events) + 1
         /\ Hinted \/ e = "state" => \E k \in DOMAIN Append(events, e) : Append(events, e)[k] = "state"
<1>1. events \in Seq({"state", "output"})
  BY DEF EventPumpTypeOK
<1>2. /\ Append(events, e) \in Seq({"state", "output"})
      /\ Len(Append(events, e)) = Len(events) + 1
      /\ \A k \in 1 .. Len(events) : Append(events, e)[k] = events[k]
      /\ Append(events, e)[Len(events) + 1] = e
  BY <1>1
<1>3. DOMAIN events = 1 .. Len(events) /\ DOMAIN Append(events, e) = 1 .. Len(events) + 1
      /\ Len(events) \in Nat
  BY <1>1, <1>2
<1>4. ASSUME Hinted PROVE \E k \in DOMAIN Append(events, e) : Append(events, e)[k] = "state"
  <2>1. PICK k \in 1 .. Len(events) : events[k] = "state"
    BY <1>3, <1>4 DEF Hinted
  <2>2. k \in DOMAIN Append(events, e) /\ Append(events, e)[k] = "state"
    BY <1>2, <1>3, <2>1
  <2> QED
    BY <2>2
<1>5. ASSUME e = "state" PROVE \E k \in DOMAIN Append(events, e) : Append(events, e)[k] = "state"
  <2>1. Len(events) + 1 \in DOMAIN Append(events, e)
    BY <1>3
  <2> QED
    BY <1>2, <1>5, <2>1
<1> QED
  BY <1>2, <1>4, <1>5

(* The event taken first is the one at the head: any other hint stays.     *)
LEMMA TailKeepsHints ==
  ASSUME EventPumpTypeOK, events # <<>>
  PROVE  /\ Tail(events) \in Seq({"state", "output"})
         /\ Len(Tail(events)) = Len(events) - 1
         /\ Head(events) \in {"state", "output"}
         /\ Hinted => Head(events) = "state" \/ \E k \in DOMAIN Tail(events) : Tail(events)[k] = "state"
<1>1. events \in Seq({"state", "output"})
  BY DEF EventPumpTypeOK
<1>2. /\ Head(events) \in {"state", "output"} /\ Head(events) = events[1]
      /\ Tail(events) \in Seq({"state", "output"}) /\ Len(Tail(events)) = Len(events) - 1
      /\ \A k \in 1 .. Len(events) - 1 : Tail(events)[k] = events[k + 1]
  BY <1>1, HeadTailProperties
<1>3. DOMAIN events = 1 .. Len(events) /\ DOMAIN Tail(events) = 1 .. Len(events) - 1
      /\ Len(events) \in Nat
  BY <1>1, <1>2
<1>4. ASSUME Hinted, Head(events) # "state"
      PROVE  \E k \in DOMAIN Tail(events) : Tail(events)[k] = "state"
  <2>1. PICK k \in 1 .. Len(events) : events[k] = "state"
    BY <1>3, <1>4 DEF Hinted
  <2>2. k - 1 \in 1 .. Len(events) - 1
    BY <1>2, <1>3, <1>4, <2>1
  <2>3. k - 1 \in DOMAIN Tail(events) /\ Tail(events)[k - 1] = "state"
    BY <1>2, <1>3, <2>1, <2>2
  <2> QED
    BY <2>3
<1> QED
  BY <1>2, <1>4

-----------------------------------------------------------------------------
(* What sessions and commands do: the counters move, a hint is added.      *)
LEMMA SourcesKeepPumpInv ==
  ASSUME PumpInv,
         \/ SessionMoves \/ SessionReports \/ SessionOutputs
         \/ CommandStarts \/ CommandSwaps \/ CommandReturns
  PROVE  PumpInv'
<1> USE DEF PumpInv
<1> USE EventBufferAssumption, MaxChangesAssumption, MaxCommandsAssumption
<1>1. CASE SessionMoves \/ CommandStarts \/ CommandSwaps \/ CommandReturns
  <2>1. UNCHANGED <<events, missed, pump, updated, shown>>
    BY <1>1 DEF SessionMoves, CommandStarts, CommandSwaps, CommandReturns, pumpVars, fleetVars
  <2> DEFINE Counted == /\ fleet' \in 0 .. MaxChanges /\ fleet <= fleet'
                        /\ unreported' \in 0 .. MaxChanges /\ unreported' <= fleet'
                        /\ issued' \in 0 .. MaxCommands
                        /\ running' \in 0 .. issued' /\ finished' \in 0 .. issued'
                        /\ running' + finished' <= issued'
  <2>2. Counted
    <3>1. CASE SessionMoves
      BY <3>1 DEF SessionMoves, cmdVars, EventPumpTypeOK, CountInv
    <3>2. CASE CommandStarts
      BY <3>2 DEF CommandStarts, fleetVars, EventPumpTypeOK, CountInv
    <3>3. CASE CommandSwaps
      BY <3>3 DEF CommandSwaps, cmdVars, EventPumpTypeOK, CountInv
    <3>4. CASE CommandReturns
      BY <3>4 DEF CommandReturns, fleetVars, EventPumpTypeOK, CountInv
    <3> QED
      BY <1>1, <3>1, <3>2, <3>3, <3>4
  <2>3. shown' \in 0 .. fleet'
    BY <2>1, <2>2 DEF EventPumpTypeOK
  <2>4. EventPumpTypeOK' /\ CountInv' /\ SomePumpLives'
    BY <2>1, <2>2, <2>3 DEF EventPumpTypeOK, CountInv, SomePumpLives
  <2>5. unreported' > 0 \/ running' > 0 \/ finished' > 0 \/ (UNCHANGED <<fleet, unreported, running, finished>>)
        \/ (UNCHANGED fleet /\ unreported' >= unreported /\ running' >= running /\ finished' >= finished)
    BY <1>1 DEF SessionMoves, CommandStarts, CommandSwaps, CommandReturns, cmdVars, EventPumpTypeOK
  <2>6. StaleHasHint'
    BY <2>1, <2>2, <2>5 DEF StaleHasHint, EventPumpTypeOK
  <2> QED
    BY <2>4, <2>6
<1>2. CASE SessionReports \/ SessionOutputs
  <2>1. UNCHANGED <<fleet, shown, pump, updated, issued, running, finished>>
    BY <1>2 DEF SessionReports, SessionOutputs, pumpVars, cmdVars, fleetVars
  <2>2. unreported' \in 0 .. MaxChanges /\ unreported' <= fleet'
    BY <1>2, <2>1 DEF SessionReports, SessionOutputs, fleetVars, EventPumpTypeOK, CountInv
  <2>3. ASSUME NEW e \in {"state", "output"}, events' = Append(events, e), Len(events) < EventBuffer,
               missed' = missed, unreported' = unreported \/ e = "state"
        PROVE  PumpInv'
    <3>1. Len(events) \in Nat /\ missed \in BOOLEAN
      BY DEF EventPumpTypeOK
    <3>2. events' \in Seq({"state", "output"}) /\ Len(events') <= EventBuffer
      BY <2>3, <3>1, AppendKeepsHints
    <3>3. EventPumpTypeOK' /\ CountInv' /\ SomePumpLives'
      BY <2>1, <2>2, <2>3, <3>1, <3>2 DEF EventPumpTypeOK, CountInv, SomePumpLives
    <3>4. Hinted \/ e = "state" => Hinted'
      BY <2>3, AppendKeepsHints DEF Hinted
    <3>5. CASE Hinted'
      BY <3>3, <3>5 DEF StaleHasHint, Hinted
    <3>6. CASE ~Hinted /\ unreported' = unreported
      BY <2>1, <2>3, <3>3, <3>6 DEF StaleHasHint, Hinted
    <3> QED
      BY <2>3, <3>3, <3>4, <3>5, <3>6
  <2>4. ASSUME events' = events, missed' = TRUE PROVE PumpInv'
    <3>1. EventPumpTypeOK' /\ CountInv' /\ SomePumpLives'
      BY <2>1, <2>2, <2>4 DEF EventPumpTypeOK, CountInv, SomePumpLives
    <3> QED
      BY <2>4, <3>1 DEF StaleHasHint
  <2>5. CASE SessionReports
    BY <2>3, <2>4, <2>5 DEF SessionReports
  <2>6. CASE SessionOutputs
    BY <2>3, <2>6 DEF SessionOutputs, fleetVars
  <2> QED
    BY <1>2, <2>5, <2>6
<1> QED
  BY <1>1, <1>2

(* A pump takes a hint off the channel and remembers it in its batch.      *)
LEMMA PumpKeepsPumpInv ==
  ASSUME PumpInv, NEW p \in Pump, PumpReceives(p) \/ PumpDrains(p) \/ PumpDelivers(p)
  PROVE  PumpInv'
<1> USE DEF PumpInv
<1>1. UNCHANGED <<fleet, unreported, shown, missed, issued, running, finished>>
  BY DEF PumpReceives, PumpDrains, PumpDelivers, Take, fleetVars, cmdVars
<1>2. pump[p] # "off" /\ \E q \in {"waiting", "draining", "sent"} : pump' = [pump EXCEPT ![p] = q]
  <2>1. pump = [pump EXCEPT ![p] = pump[p]]
    BY DEF EventPumpTypeOK
  <2> QED
    BY <2>1 DEF PumpReceives, PumpDrains, PumpDelivers
<1>3. pump' \in [Pump -> {"off", "waiting", "draining", "sent"}] /\ SomePumpLives'
  BY <1>2 DEF EventPumpTypeOK, SomePumpLives
<1>4. CASE PumpDelivers(p)
  <2>1. UNCHANGED <<events, updated>>
    BY <1>4 DEF PumpDelivers
  <2> QED
    BY <1>1, <1>3, <2>1 DEF EventPumpTypeOK, CountInv, StaleHasHint
<1>5. CASE Take(p)
  <2>1. events # <<>> /\ events' = Tail(events)
        /\ updated' = [updated EXCEPT ![p] = @ \/ Head(events) = "state"]
    BY <1>5 DEF Take
  <2>2. events' \in Seq({"state", "output"}) /\ Len(events') <= EventBuffer
    BY <2>1, TailKeepsHints, EventBufferAssumption DEF EventPumpTypeOK
  <2>3. updated' \in [Pump -> BOOLEAN]
    BY <2>1 DEF EventPumpTypeOK
  <2>4. EventPumpTypeOK' /\ CountInv'
    BY <1>1, <1>3, <2>2, <2>3 DEF EventPumpTypeOK, CountInv
  <2>5. \A q \in Pump : updated[q] => updated'[q]
    BY <2>1 DEF EventPumpTypeOK
  <2>6. Head(events) = "state" => updated'[p]
    BY <2>1 DEF EventPumpTypeOK
  <2>7. StaleHasHint'
    BY <1>1, <2>1, <2>5, <2>6, TailKeepsHints DEF StaleHasHint, Hinted
  <2> QED
    BY <1>3, <2>4, <2>7
<1> QED
  BY <1>4, <1>5 DEF PumpReceives, PumpDrains

(* Update re-reads the fleet for a batch that holds a state hint, and for  *)
(* the message of a command.                                               *)
LEMMA UpdateKeepsPumpInv ==
  ASSUME PumpInv, (\E p \in Pump : UpdateBatch(p)) \/ UpdateCommand
  PROVE  PumpInv'
<1> USE DEF PumpInv
<1>1. UNCHANGED <<fleet, unreported, events, issued, running>>
  BY DEF UpdateBatch, UpdateCommand, fleetVars, cmdVars
<1>2. fleet \in 0 .. fleet
  BY DEF EventPumpTypeOK
<1>3. ASSUME NEW p \in Pump, UpdateBatch(p) PROVE PumpInv'
  <2>1. pump' = [pump EXCEPT ![p] = "waiting"] /\ updated' = [updated EXCEPT ![p] = FALSE]
        /\ UNCHANGED finished
    BY <1>3 DEF UpdateBatch, cmdVars
  <2>2. (shown' = fleet /\ missed' = FALSE) \/ (~updated[p] /\ UNCHANGED <<shown, missed>>)
    BY <1>3 DEF UpdateBatch, Snapshot
  <2>3. EventPumpTypeOK' /\ CountInv' /\ SomePumpLives'
    BY <1>1, <1>2, <2>1, <2>2 DEF EventPumpTypeOK, CountInv, SomePumpLives
  <2>4. \A q \in Pump : updated[q] => updated'[q] \/ q = p
    BY <2>1 DEF EventPumpTypeOK
  <2>5. StaleHasHint'
    BY <1>1, <2>1, <2>2, <2>4 DEF StaleHasHint
  <2> QED
    BY <2>3, <2>5
<1>4. CASE UpdateCommand
  <2>1. finished > 0 /\ finished' = finished - 1 /\ shown' = fleet /\ missed' = FALSE /\ UNCHANGED updated
    BY <1>4 DEF UpdateCommand, Snapshot
  <2>2. PICK p \in Pump : pump' = [pump EXCEPT ![p] = "waiting"]
    BY <1>4 DEF UpdateCommand
  <2>3. finished' \in 0 .. issued /\ running + finished' <= issued
    BY <2>1 DEF EventPumpTypeOK, CountInv
  <2>4. EventPumpTypeOK' /\ CountInv' /\ SomePumpLives'
    BY <1>1, <1>2, <2>1, <2>2, <2>3 DEF EventPumpTypeOK, CountInv, SomePumpLives
  <2> QED
    BY <1>1, <2>1, <2>4 DEF StaleHasHint
<1> QED
  BY <1>3, <1>4

LEMMA NextPumpInv == PumpInv /\ [EventPumpNext]_eventPumpVars => PumpInv'
<1>1. ASSUME PumpInv, UNCHANGED eventPumpVars PROVE PumpInv'
  BY <1>1 DEF PumpInv, EventPumpTypeOK, CountInv, SomePumpLives, StaleHasHint, eventPumpVars, fleetVars, pumpVars, cmdVars
<1> QED
  BY <1>1, SourcesKeepPumpInv, PumpKeepsPumpInv, UpdateKeepsPumpInv DEF EventPumpNext

-----------------------------------------------------------------------------
(* For any channel size and any number of changes and commands: somebody   *)
(* listens, and the status bar is behind only while a hint that will       *)
(* refresh it is under way, or after a hint was dropped.                   *)
THEOREM StaleIsHinted == EventPumpSpec => []StalenessIsHinted
<1>1. PumpInv => StalenessIsHinted
  BY DEF PumpInv, StalenessIsHinted
<1> QED
  BY InitPumpInv, NextPumpInv, <1>1, PTL DEF EventPumpSpec

-----------------------------------------------------------------------------
(* The working set.                                                        *)

(* A page is a range the user could have typed: its chunk starts at a      *)
(* position of the list and is as long as the one before.                  *)
LEMMA PageIsRange ==
  ASSUME NEW r \in Ranges, NEW direction \in {-1, 1}, NEW total \in Nat,
         PageFrom(r, direction, total) # 0
  PROVE  /\ PageOf(r, direction, total) \in Ranges
         /\ Size(PageOf(r, direction, total)) = Size(r)
<1> DEFINE from == PageFrom(r, direction, total)
<1>1. r.from \in Nat \ {0} /\ r.to \in Nat \ {0} /\ r.from <= r.to
  BY DEF Ranges
<1>2. Size(r) \in Nat \ {0}
  BY <1>1 DEF Size
<1>3. from \in Nat \ {0}
  <2>1. CASE direction = 1
    BY <2>1, <1>1, <1>2 DEF PageFrom
  <2>2. CASE direction = -1
    BY <2>2, <1>1, <1>2 DEF PageFrom
  <2> QED
    BY <2>1, <2>2
<1>4. PageOf(r, direction, total) = [kind |-> "range", from |-> from, to |-> from + Size(r) - 1]
  BY DEF PageOf, NewRange
<1>5. from + Size(r) - 1 \in Nat \ {0} /\ from <= from + Size(r) - 1
  BY <1>2, <1>3
<1>6. PageOf(r, direction, total) \in Ranges
  BY <1>3, <1>4, <1>5 DEF Ranges
<1>7. Size(PageOf(r, direction, total)) = Size(r)
  BY <1>2, <1>3, <1>4 DEF Size
<1> QED
  BY <1>6, <1>7

(* What NextSkipsNobody and PrevUndoesNext say, for one range and a list   *)
(* of any length.                                                          *)
LEMMA NextIsAdjacent ==
  ASSUME NEW r \in Ranges, NEW total \in Nat
  PROVE  LET from == PageFrom(r, 1, total)
         IN  IF from = 0 THEN r.to >= total
             ELSE from = r.to + 1 /\ from <= total
<1>1. r.from \in Nat \ {0} /\ r.to \in Nat \ {0} /\ r.from <= r.to
  BY DEF Ranges
<1> QED
  BY <1>1 DEF PageFrom, Size

LEMMA PrevIsInverse ==
  ASSUME NEW r \in Ranges, NEW total \in Nat
  PROVE  /\ LET from == PageFrom(r, -1, total)
            IN  IF from = 0 THEN r.from = 1 ELSE from + Size(r) >= r.from
         /\ PageFrom(r, 1, total) # 0 =>
              PageOf(PageOf(r, 1, total), -1, total) = r
<1>1. r.kind = "range" /\ r.from \in Nat \ {0} /\ r.to \in Nat \ {0} /\ r.from <= r.to
  BY DEF Ranges
<1>2. r = [kind |-> "range", from |-> r.from, to |-> r.to]
  BY DEF Ranges
<1>3. LET from == PageFrom(r, -1, total)
      IN  IF from = 0 THEN r.from = 1 ELSE from + Size(r) >= r.from
  BY <1>1 DEF PageFrom, Size
<1>4. ASSUME PageFrom(r, 1, total) # 0
      PROVE  PageOf(PageOf(r, 1, total), -1, total) = r
  <2> DEFINE next == PageOf(r, 1, total)
  <2>1. PageFrom(r, 1, total) = r.to + 1
    BY <1>4, NextIsAdjacent
  <2>2. next = [kind |-> "range", from |-> r.to + 1, to |-> r.to + 1 + Size(r) - 1]
    BY <2>1 DEF PageOf, NewRange
  <2>3. Size(next) = Size(r)
    BY <1>1, <2>2 DEF Size
  <2>4. PageFrom(next, -1, total) = r.from
    BY <1>1, <2>2, <2>3 DEF PageFrom, Size
  <2>5. PageOf(next, -1, total) = [kind |-> "range", from |-> r.from, to |-> r.from + Size(r) - 1]
    BY <2>3, <2>4 DEF PageOf, NewRange
  <2> QED
    BY <1>1, <1>2, <2>5 DEF Size
<1> QED
  BY <1>3, <1>4

-----------------------------------------------------------------------------
NameInv == WorkingSetTypeOK /\ NameMeansItsDefinition

LEMMA InitNameInv == WorkingSetInit => NameInv
<1> SUFFICES ASSUME WorkingSetInit PROVE NameInv
  OBVIOUS
<1>1. hosts \in HostList /\ All \in Selector
  BY DEF WorkingSetInit, Selector
<1>2. WorkingSetTypeOK
  BY <1>1 DEF WorkingSetInit, WorkingSetTypeOK
<1>3. NameMeansItsDefinition
  BY DEF WorkingSetInit, NameMeansItsDefinition
<1> QED
  BY <1>2, <1>3 DEF NameInv

(* The selectors a user types are selectors.                               *)
LEMMA TypedIsSelector == Typed \subseteq Selector
  BY DEF Typed, Selector, All, Some

LEMMA NextNameInv == NameInv /\ [WorkingSetNext]_workingSetVars => NameInv'
<1> SUFFICES ASSUME NameInv, [WorkingSetNext]_workingSetVars PROVE NameInv'
  OBVIOUS
<1> USE DEF NameInv, WorkingSetTypeOK, NameMeansItsDefinition
<1>1. ASSUME NEW list \in HostList, SetHosts(list) PROVE NameInv'
  BY <1>1 DEF SetHosts
<1>2. ASSUME NEW sel \in Typed, Apply(sel) PROVE NameInv'
  BY <1>2, TypedIsSelector DEF Apply
<1>3. ASSUME NEW sel \in Typed, NEW n \in Name, Define(n, sel) PROVE NameInv'
  <2>1. sel \in Selector
    BY TypedIsSelector
  <2>2. DOMAIN named' = DOMAIN named \cup {n}
    BY <1>3 DEF Define
  <2>3. \A m \in DOMAIN named' : named'[m] = IF m = n THEN sel ELSE named[m]
    BY <1>3 DEF Define
  <2>4. UNCHANGED <<hosts, activeName>> /\ active' = IF n \in DOMAIN named /\ activeName = n THEN sel ELSE active
    BY <1>3 DEF Define
  <2> QED
    BY <2>1, <2>2, <2>3, <2>4
<1>4. ASSUME NEW n \in Name, Save(n) PROVE NameInv'
  <2>1. DOMAIN named' = DOMAIN named \cup {n}
    BY <1>4 DEF Save
  <2>2. \A m \in DOMAIN named' : named'[m] = IF m = n THEN active ELSE named[m]
    BY <1>4 DEF Save
  <2>3. UNCHANGED <<hosts, active>> /\ activeName' = n
    BY <1>4 DEF Save
  <2> QED
    BY <2>1, <2>2, <2>3
<1>5. ASSUME NEW n \in Name, Activate(n) PROVE NameInv'
  BY <1>5 DEF Activate
<1>6. ASSUME NEW n \in Name, RemoveSet(n) PROVE NameInv'
  <2>1. DOMAIN named' = DOMAIN named \ {n}
    BY <1>6 DEF RemoveSet
  <2>2. \A m \in DOMAIN named' : named'[m] = named[m]
    BY <1>6 DEF RemoveSet
  <2>3. UNCHANGED <<hosts, active>> /\ activeName' = IF activeName = n THEN NoName ELSE activeName
    BY <1>6 DEF RemoveSet
  <2> QED
    BY <2>1, <2>2, <2>3
<1>7. ASSUME NEW direction \in {-1, 1}, Page(direction) PROVE NameInv'
  <2>1. active \in Ranges
    BY <1>7 DEF Page, Selector, All
  <2>2. Len(hosts) \in Nat
    BY DEF HostList
  <2>3. active' \in Selector
    BY <1>7, <2>1, <2>2, PageIsRange DEF Page, Selector
  <2> QED
    BY <1>7, <2>3 DEF Page
<1>8. CASE UNCHANGED workingSetVars
  BY <1>8 DEF workingSetVars
<1> QED
  BY <1>1, <1>2, <1>3, <1>4, <1>5, <1>6, <1>7, <1>8 DEF WorkingSetNext

(* Whatever is defined, redefined, removed, paged and applied in whatever  *)
(* order, the manager's state has its types and an active name is the name *)
(* of the selector in force.                                               *)
THEOREM NameIsCurrent == WorkingSetSpec => []NameInForce
<1>1. NameInv => NameInForce
  BY DEF NameInv, NameInForce
<1> QED
  BY InitNameInv, NextNameInv, <1>1, PTL DEF WorkingSetSpec

(* Paging works off any list in chunks of any size: Next skips nobody and  *)
(* opens no empty page, and Prev takes it back.                            *)
THEOREM PagingSkipsNobody == WorkingSetSpec => []PagingVisitsAll
<1>1. NameInv => PagingVisitsAll
  <2> SUFFICES ASSUME NameInv, active.kind = "range"
               PROVE  NextSkipsNobody /\ PrevUndoesNext
    BY DEF PagingVisitsAll, NextSkipsNobody, PrevUndoesNext
  <2>1. active \in Ranges
    BY DEF NameInv, WorkingSetTypeOK, Selector, All
  <2>2. Len(hosts) \in Nat
    BY DEF NameInv, WorkingSetTypeOK, HostList
  <2> QED
    BY <2>1, <2>2, NextIsAdjacent, PrevIsInverse DEF NextSkipsNobody, PrevUndoesNext
<1> QED
  BY InitNameInv, NextNameInv, <1>1, PTL DEF WorkingSetSpec

-----------------------------------------------------------------------------
(* The keyboard.  A handler maps a world to a world; each is put into one  *)
(* of three classes by what it may change (Steady, Answers and Area), and  *)
(* the classes are closed under chaining handlers, so that HandleKey needs *)
(* no case of its own for what it chains.                                  *)

UiFields == {"focus", "panel", "pane", "sel", "in", "confirm", "savePending", "saving", "delete",
             "ending", "help", "preview", "view", "armed", "term", "held", "line", "quit"}

(* A world a handler can be given.                                         *)
Shape(w) ==
  /\ DOMAIN w = {"host", "ui", "log", "ops", "out", "told"}
  /\ DOMAIN w.ui = UiFields
  /\ DOMAIN w.ui.in = Input
  /\ w.ui.focus \in {"sidebar", "grid", "bar"}

OwnerNames == {"command", "save", "dialog", "delete", "ending", "picker", "connect", "search",
               "split", "filter", "help", "preview"}
OpensNothing(u, v) == \A n \in OwnerNames : Open(v, n) => Open(u, n)
OpensOne(u, v) == \E x \in OwnerNames : \A n \in OwnerNames : Open(v, n) => Open(u, n) \/ n = x

(* A script is held although the bar does not take keys.                   *)
HeldInView(u) == u.held > 0 /\ u.view

(* v differs from w in what is shown, typed or sent only: nobody new       *)
(* listens, and no box lets go of a write in flight.                       *)
Steady(w, v) ==
  /\ Shape(v)
  /\ v.ops = w.ops
  /\ OpensNothing(w.ui, v.ui)
  /\ HeldInView(v.ui) => HeldInView(w.ui)
  /\ w.ui.savePending => v.ui.savePending
  /\ w.ui.saving => v.ui.saving
  /\ DialogOpen(w.ui) => DialogOpen(v.ui)

(* ... and nothing is sent.                                                *)
Calm(w, v) == Steady(w, v) /\ v.out = w.out

LEMMA CalmIsTransitive ==
  ASSUME NEW w, NEW v, NEW x, Calm(w, v), Calm(v, x)
  PROVE  Calm(w, x)
  BY DEF Calm, Steady, OpensNothing

LEMMA NothingChanges == ASSUME NEW w, Shape(w) PROVE Calm(w, w)
  BY DEF Calm, Steady, OpensNothing

LEMMA FieldsAreCalm ==
  ASSUME NEW w, Shape(w), NEW x
  PROVE  /\ Calm(w, [w EXCEPT !.ui.armed = x])
         /\ Calm(w, [w EXCEPT !.ui.sel = x])
         /\ Calm(w, [w EXCEPT !.ui.term = x])
         /\ Calm(w, [w EXCEPT !.ui.line = x])
         /\ Calm(w, [w EXCEPT !.ui.panel = x])
         /\ Calm(w, [w EXCEPT !.log = x])
         /\ Calm(w, [w EXCEPT !.ui.view = FALSE])
         /\ Calm(w, [w EXCEPT !.ui.held = 0])
         /\ Calm(w, Quits(w)) /\ Calm(w, Selects(w, x))
         /\ x \in {"sidebar", "grid", "bar"} => Calm(w, Focuses(w, x))
<1> USE DEF Shape, UiFields, Steady, Calm, OpensNothing, OwnerNames, Open, Saving, DialogOpen, Focused, Input, HeldInView
<1>1. Calm(w, [w EXCEPT !.ui.armed = x])
  OBVIOUS
<1>2. Calm(w, [w EXCEPT !.ui.sel = x])
  OBVIOUS
<1>3. Calm(w, [w EXCEPT !.ui.term = x])
  OBVIOUS
<1>4. Calm(w, [w EXCEPT !.ui.line = x])
  OBVIOUS
<1>5. Calm(w, [w EXCEPT !.ui.panel = x])
  OBVIOUS
<1>6. Calm(w, [w EXCEPT !.log = x])
  OBVIOUS
<1>7. Calm(w, [w EXCEPT !.ui.view = FALSE])
  OBVIOUS
<1>8. Calm(w, [w EXCEPT !.ui.held = 0])
  OBVIOUS
<1>9. x \in {"sidebar", "grid", "bar"} => Calm(w, Focuses(w, x))
  BY DEF Focuses
<1>10. Calm(w, Quits(w))
  BY DEF Quits
<1>11. Calm(w, Selects(w, x))
  BY DEF Selects
<1> QED
  BY <1>1, <1>2, <1>3, <1>4, <1>5, <1>6, <1>7, <1>8, <1>9, <1>10, <1>11 DEF Calm

LEMMA TypingIsCalm ==
  ASSUME NEW w, Shape(w), NEW i \in Input, Focused(w.ui, i), NEW x, x # "closed"
  PROVE  Calm(w, [w EXCEPT !.ui.in[i] = x])
  BY DEF Shape, UiFields, Steady, Calm, OpensNothing, OwnerNames, Open, Saving, DialogOpen, Focused, Input, HeldInView

LEMMA TypesIsCalm ==
  ASSUME NEW w, Shape(w), NEW i \in Input, Focused(w.ui, i), NEW k
  PROVE  Calm(w, Types(w, i, k))
<1>1. AfterKey(w.ui.in[i], k) # "closed"
  BY DEF AfterKey, Focused
<1> QED
  BY <1>1, TypingIsCalm DEF Types

LEMMA ClosingIsCalm ==
  ASSUME NEW w, Shape(w), NEW i \in Input, i \notin {"name", "hosts"}
  PROVE  Calm(w, Closes(w, i))
  BY DEF Shape, UiFields, Steady, Calm, OpensNothing, OwnerNames, Open, Saving, DialogOpen, Focused, Input, HeldInView, Closes

LEMMA SendingIsSteady ==
  ASSUME NEW w, Shape(w), NEW what, NEW to
  PROVE  /\ Steady(w, Sends(w, what, to)) /\ Sends(w, what, to).out = [what |-> what, to |-> to]
         /\ Sends(w, what, to).ui = w.ui
  BY DEF Shape, Steady, Sends, OpensNothing

LEMMA RecordingIsCalm ==
  ASSUME NEW w, Shape(w), NEW entry
  PROVE  Calm(w, Records(w, entry))
  BY FieldsAreCalm DEF Records

LEMMA SteadyIsTransitive ==
  ASSUME NEW w, NEW v, NEW x, Steady(w, v), Steady(v, x)
  PROVE  Steady(w, x)
  BY DEF Steady, OpensNothing

-----------------------------------------------------------------------------
(* What the boxes asked of the disk and have not heard of.                 *)
FlightInv(u, o) ==
  /\ \A op \in o :
       /\ op.op \in {"save", "overwrite", "create", "remove", "resend", "missing"}
       /\ op.op \in {"save", "overwrite", "create", "remove"} => op = Op(op.op)
       /\ op.op \in {"save", "overwrite"} => u.savePending
       /\ op.op = "create" => u.saving /\ DialogOpen(u)
  /\ \A a, b \in o :
       a.op \in {"save", "overwrite"} /\ b.op \in {"save", "overwrite"} => a = b

LEMMA SteadyKeepsFlights ==
  ASSUME NEW w, NEW v, Steady(w, v), FlightInv(w.ui, w.ops)
  PROVE  FlightInv(v.ui, v.ops)
  BY DEF Steady, FlightInv

(* What the handler of a box may do: answer, close it, ask the disk.       *)
Answers(w, v) ==
  /\ Shape(v)
  /\ OpensNothing(w.ui, v.ui)
  /\ HeldInView(v.ui) => HeldInView(w.ui)
  /\ FlightInv(v.ui, v.ops)

LEMMA SteadyAnswers ==
  ASSUME NEW w, NEW v, Steady(w, v), FlightInv(w.ui, w.ops)
  PROVE  Answers(w, v)
  BY SteadyKeepsFlights DEF Steady, Answers

LEMMA CancelSaveAnswers ==
  ASSUME NEW w, Shape(w), FlightInv(w.ui, w.ops), \A op \in w.ops : op.op \notin {"save", "overwrite"}
  PROVE  Answers(w, CancelSave(w)) /\ CancelSave(w).out = w.out /\ CancelSave(w).ops = w.ops
<1> DEFINE v == Closes(w, "save")
           x == [v EXCEPT !.ui.confirm = FALSE, !.ui.savePending = FALSE]
<1>1. Calm(w, v)
  BY ClosingIsCalm DEF Input
<1>2. /\ Shape(x) /\ x.ops = v.ops /\ x.out = v.out
      /\ OpensNothing(v.ui, x.ui)
      /\ x.ui.held = v.ui.held /\ x.ui.view = v.ui.view
      /\ x.ui.saving = v.ui.saving /\ x.ui.in = v.ui.in
  <2> HIDE DEF v
  <2>1. Shape(v)
    BY <1>1 DEF Calm, Steady
  <2> QED
    BY <2>1 DEF Shape, UiFields, OpensNothing, OwnerNames, Open, Saving, DialogOpen, Focused
<1>3. x = CancelSave(w)
  BY DEF CancelSave
<1> HIDE DEF v, x
<1>4. FlightInv(v.ui, v.ops) /\ v.ops = w.ops /\ v.out = w.out
  BY <1>1, SteadyKeepsFlights DEF Calm, Steady
<1>5. FlightInv(x.ui, x.ops)
  BY <1>2, <1>4 DEF FlightInv, DialogOpen, Focused
<1>6. OpensNothing(w.ui, x.ui) /\ (HeldInView(x.ui) => HeldInView(w.ui))
  BY <1>1, <1>2 DEF Calm, Steady, OpensNothing, HeldInView
<1> QED
  BY <1>2, <1>3, <1>4, <1>5, <1>6 DEF Answers

LEMMA CommitSaveAnswers ==
  ASSUME NEW w, Shape(w), FlightInv(w.ui, w.ops), ~w.ui.savePending,
         NEW name, NEW accepted \in BOOLEAN, NEW write \in {"save", "overwrite"}
  PROVE  LET v == CommitSave(w, name, accepted, write)
         IN  /\ Shape(v) /\ FlightInv(v.ui, v.ops) /\ v.out = w.out
             /\ HeldInView(v.ui) => HeldInView(w.ui)
             /\ \A n \in OwnerNames : Open(v.ui, n) => Open(w.ui, n) \/ n = "save"
<1>1. \A op \in w.ops : op.op \notin {"save", "overwrite"}
  BY DEF FlightInv
<1> DEFINE v == Closes(w, "save")
           x == [Posts(v, Op(write)) EXCEPT !.ui.savePending = TRUE]
<1>2. Calm(w, v)
  BY ClosingIsCalm DEF Input
<1>3. Shape(v) /\ v.ops = w.ops /\ v.out = w.out /\ FlightInv(v.ui, v.ops) /\ OpensNothing(w.ui, v.ui)
  BY <1>2, SteadyKeepsFlights DEF Calm, Steady
<1>4. /\ Shape(x) /\ x.ops = v.ops \cup {Op(write)} /\ x.out = v.out
      /\ x.ui.savePending = TRUE
      /\ x.ui.held = v.ui.held /\ x.ui.view = v.ui.view
      /\ x.ui.saving = v.ui.saving /\ x.ui.in = v.ui.in
      /\ \A n \in OwnerNames : Open(x.ui, n) => Open(v.ui, n) \/ n = "save"
  <2> HIDE DEF v
  <2> QED
    BY <1>3 DEF Shape, UiFields, OwnerNames, Open, Saving, DialogOpen, Focused, Posts
<1>5. Op(write).op = write
  BY DEF Op
<1> HIDE DEF v, x
<1>6. FlightInv(x.ui, x.ops)
  BY <1>1, <1>3, <1>4, <1>5 DEF FlightInv, DialogOpen, Focused
<1>7. \A n \in OwnerNames : Open(x.ui, n) => Open(w.ui, n) \/ n = "save"
  BY <1>3, <1>4 DEF OpensNothing
<1>8. HeldInView(x.ui) => HeldInView(w.ui)
  BY <1>2, <1>4 DEF Calm, Steady, HeldInView
<1>9. CommitSave(w, name, accepted, write) = x \/ CommitSave(w, name, accepted, write) = CancelSave(w)
  BY DEF CommitSave, x, v
<1> QED
  BY <1>1, <1>3, <1>4, <1>6, <1>7, <1>8, <1>9, CancelSaveAnswers DEF Answers, OpensNothing

LEMMA SaveKeyAnswers ==
  ASSUME NEW w, Shape(w), FlightInv(w.ui, w.ops), Saving(w.ui), NEW k, NEW accepted \in BOOLEAN
  PROVE  Answers(w, SaveKey(w, k, accepted)) /\ SaveKey(w, k, accepted).out = w.out
<1>1. Answers(w, w)
  BY NothingChanges, SteadyAnswers DEF Calm
<1>2. CASE w.ui.savePending
  BY <1>1, <1>2 DEF SaveKey
<1>3. CASE ~w.ui.savePending
  <2>1. \A op \in w.ops : op.op \notin {"save", "overwrite"}
    BY <1>3 DEF FlightInv
  <2>2. Answers(w, CancelSave(w)) /\ CancelSave(w).out = w.out
    BY <2>1, CancelSaveAnswers
  <2>3. CASE w.ui.confirm
    <3> DEFINE u == [w EXCEPT !.ui.confirm = FALSE]
               v == CommitSave(u, "text", accepted, "overwrite")
    <3>1. SaveKey(w, k, accepted) \in {v, CancelSave(w), w}
      BY <1>3, <2>3 DEF SaveKey, Confirm
    <3>2. Answers(w, v) /\ v.out = w.out
      <4>1. u.ops = w.ops /\ u.out = w.out
        BY DEF Shape
      <4>2. Shape(u) /\ OpensNothing(w.ui, u.ui) /\ u.ui.in = w.ui.in /\ u.ui.saving = w.ui.saving
            /\ u.ui.savePending = w.ui.savePending /\ u.ui.held = w.ui.held /\ u.ui.view = w.ui.view
        BY DEF Shape, UiFields, OpensNothing, OwnerNames, Open, Saving, DialogOpen, Focused
      <4> HIDE DEF u
      <4>3. FlightInv(u.ui, u.ops)
        BY <4>1, <4>2 DEF FlightInv, DialogOpen, Focused
      <4>4. Open(w.ui, "save")
        BY DEF Open
      <4> QED
        BY <1>3, <4>1, <4>2, <4>3, <4>4, CommitSaveAnswers DEF Answers, OpensNothing, HeldInView
    <3> QED
      BY <1>1, <2>2, <3>1, <3>2
  <2>4. CASE ~w.ui.confirm
    <3>1. Focused(w.ui, "save")
      BY <1>3, <2>4 DEF Saving
    <3>2. Answers(w, CommitSave(w, w.ui.in["save"], accepted, "save"))
          /\ CommitSave(w, w.ui.in["save"], accepted, "save").out = w.out
      BY <1>3, <3>1, CommitSaveAnswers DEF Answers, OpensNothing, Open, Saving
    <3>3. Answers(w, Types(w, "save", k)) /\ Types(w, "save", k).out = w.out
      BY <3>1, TypesIsCalm, SteadyAnswers DEF Calm, Input
    <3> QED
      BY <1>3, <2>2, <2>4, <3>2, <3>3 DEF SaveKey
  <2> QED
    BY <2>3, <2>4
<1> QED
  BY <1>2, <1>3

LEMMA CancelNewAnswers ==
  ASSUME NEW w, Shape(w), FlightInv(w.ui, w.ops), \A op \in w.ops : op.op # "create"
  PROVE  Answers(w, CancelNew(w)) /\ CancelNew(w).out = w.out /\ CancelNew(w).ops = w.ops
<1> DEFINE v == CancelNew(w)
<1>1. Shape(v) /\ v.ops = w.ops /\ v.out = w.out
  BY DEF Shape, UiFields, CancelNew, Closes, Input
<1>2. OpensNothing(w.ui, v.ui)
  <2>1. v.ui.in = [[w.ui.in EXCEPT !["name"] = "closed"] EXCEPT !["hosts"] = "closed"]
    BY DEF Shape, UiFields, CancelNew, Closes
  <2>2. \A j \in Input : Focused(v.ui, j) => Focused(w.ui, j)
    BY <2>1 DEF Shape, Focused
  <2>3. \A f \in {"confirm", "savePending", "delete", "ending", "help", "preview"} : v.ui[f] = w.ui[f]
    BY DEF Shape, UiFields, CancelNew, Closes
  <2> HIDE DEF v
  <2> QED
    BY <2>2, <2>3 DEF OpensNothing, OwnerNames, Open, Saving, DialogOpen, Input
<1>3. v.ui.savePending = w.ui.savePending /\ v.ui.held = w.ui.held /\ v.ui.view = w.ui.view
  BY DEF Shape, UiFields, CancelNew, Closes
<1> HIDE DEF v
<1>4. FlightInv(v.ui, v.ops)
  BY <1>1, <1>3 DEF FlightInv
<1>5. Answers(w, v) /\ v.out = w.out /\ v.ops = w.ops
  BY <1>1, <1>2, <1>3, <1>4 DEF Answers, HeldInView
<1> QED
  BY <1>5 DEF v

LEMMA DialogKeyAnswers ==
  ASSUME NEW w, Shape(w), FlightInv(w.ui, w.ops), DialogOpen(w.ui), NEW k, NEW accepted \in BOOLEAN
  PROVE  Answers(w, DialogKey(w, k, accepted)) /\ DialogKey(w, k, accepted).out = w.out
<1>1. Answers(w, w)
  BY NothingChanges, SteadyAnswers DEF Calm
<1>2. CASE w.ui.saving
  BY <1>1, <1>2 DEF DialogKey
<1>3. CASE ~w.ui.saving
  <2>1. \A op \in w.ops : op.op # "create"
    BY <1>3 DEF FlightInv
  <2>2. Answers(w, CancelNew(w)) /\ CancelNew(w).out = w.out
    BY <2>1, CancelNewAnswers
  <2>3. \A i \in {"name", "hosts"} : Focused(w.ui, i) => Answers(w, Types(w, i, k)) /\ Types(w, i, k).out = w.out
    BY TypesIsCalm, SteadyAnswers DEF Calm, Input
  <2>4. ASSUME Focused(w.ui, "name")
        PROVE  LET v == Opens(Closes(w, "name"), "hosts") IN Answers(w, v) /\ v.out = w.out
    <3> DEFINE v == Opens(Closes(w, "name"), "hosts")
    <3>1. Shape(v) /\ v.ops = w.ops /\ v.out = w.out
      BY DEF Shape, UiFields, Opens, Closes, Input
    <3>2. OpensNothing(w.ui, v.ui)
      <4>1. v.ui.in = [[w.ui.in EXCEPT !["name"] = "closed"] EXCEPT !["hosts"] = ""]
        BY DEF Shape, UiFields, Opens, Closes
      <4>2. \A j \in Input : Focused(v.ui, j) => Focused(w.ui, j) \/ j = "hosts"
        BY <4>1 DEF Shape, Focused
      <4>3. \A f \in {"confirm", "savePending", "delete", "ending", "help", "preview"} : v.ui[f] = w.ui[f]
        BY DEF Shape, UiFields, Opens, Closes
      <4> HIDE DEF v
      <4> QED
        BY <2>4, <4>2, <4>3 DEF OpensNothing, OwnerNames, Open, Saving, DialogOpen, Input
    <3>3. v.ui.savePending = w.ui.savePending /\ v.ui.held = w.ui.held /\ v.ui.view = w.ui.view
      BY DEF Shape, UiFields, Opens, Closes
    <3> HIDE DEF v
    <3>4. FlightInv(v.ui, v.ops)
      BY <2>1, <3>1, <3>3 DEF FlightInv
    <3>5. Answers(w, v) /\ v.out = w.out
      BY <3>1, <3>2, <3>3, <3>4 DEF Answers, HeldInView
    <3> QED
      BY <3>5 DEF v
  <2>5. LET v == [Posts(w, Op("create")) EXCEPT !.ui.saving = TRUE] IN Answers(w, v) /\ v.out = w.out
    <3> DEFINE v == [Posts(w, Op("create")) EXCEPT !.ui.saving = TRUE]
    <3>1. Shape(v) /\ v.ops = w.ops \cup {Op("create")} /\ v.out = w.out
      BY DEF Shape, UiFields, Posts
    <3>2. v.ui.savePending = w.ui.savePending /\ v.ui.held = w.ui.held /\ v.ui.view = w.ui.view
          /\ v.ui.in = w.ui.in /\ v.ui.saving = TRUE
      BY DEF Shape, UiFields, Posts
    <3>3. OpensNothing(w.ui, v.ui)
      BY DEF Shape, UiFields, OpensNothing, OwnerNames, Open, Saving, DialogOpen, Focused, Posts
    <3>4. Op("create").op = "create"
      BY DEF Op
    <3> HIDE DEF v
    <3>5. FlightInv(v.ui, v.ops)
      BY <2>1, <3>1, <3>2, <3>4 DEF FlightInv, DialogOpen, Focused
    <3>6. Answers(w, v) /\ v.out = w.out
      BY <3>1, <3>2, <3>3, <3>5 DEF Answers, HeldInView
    <3> QED
      BY <3>6 DEF v
  <2> QED
    BY <1>1, <1>3, <2>2, <2>3, <2>4, <2>5 DEF DialogKey, DialogOpen
<1> QED
  BY <1>2, <1>3

LEMMA DeleteKeyAnswers ==
  ASSUME NEW w, Shape(w), FlightInv(w.ui, w.ops), NEW k
  PROVE  Answers(w, DeleteKey(w, k)) /\ DeleteKey(w, k).out = w.out
<1> DEFINE asked == [w EXCEPT !.ui.delete = FALSE]
           v == Posts(asked, Op("remove"))
<1>1. Calm(w, asked)
  BY DEF Shape, UiFields, Steady, Calm, OpensNothing, OwnerNames, Open, Saving, DialogOpen, Focused, Input, HeldInView
<1>2. Answers(w, asked) /\ Shape(asked) /\ asked.out = w.out
  BY <1>1, SteadyAnswers DEF Calm, Steady
<1>3. DeleteKey(w, k) \in {v, asked, w}
  BY DEF DeleteKey, Confirm
<1> HIDE DEF asked
<1>4. Shape(v) /\ v.ui = asked.ui /\ v.ops = asked.ops \cup {Op("remove")} /\ v.out = asked.out
  BY <1>2 DEF Posts, Shape
<1>5. Op("remove").op = "remove"
  BY DEF Op
<1> HIDE DEF v
<1>6. FlightInv(v.ui, v.ops)
  BY <1>2, <1>4, <1>5 DEF Answers, FlightInv
<1>7. Answers(w, v) /\ v.out = w.out
  BY <1>2, <1>4, <1>6 DEF Answers
<1> QED
  BY <1>2, <1>3, <1>7, NothingChanges, SteadyAnswers DEF Calm

(* The boxes that ask nothing of the disk.                                 *)
LEMMA SessionEndKeyAnswers ==
  ASSUME NEW w, Shape(w), NEW k
  PROVE  LET v == SessionEndKey(w, k)
         IN  Steady(w, v) /\ (v.out = w.out \/ v.out.what = "end")
<1> DEFINE asked == [w EXCEPT !.ui.ending = FALSE]
           v == Sends(asked, "end", Live(w))
<1>1. Calm(w, asked)
  BY DEF Shape, UiFields, Steady, Calm, OpensNothing, OwnerNames, Open, Saving, DialogOpen, Focused, Input, HeldInView
<1>2. SessionEndKey(w, k) \in {v, asked, w}
  BY DEF SessionEndKey, Confirm
<1> HIDE DEF asked
<1>3. Steady(w, v) /\ v.out.what = "end"
  <2>1. Steady(w, asked) /\ Shape(asked)
    BY <1>1 DEF Calm, Steady
  <2>2. Steady(asked, v) /\ v.out = [what |-> "end", to |-> Live(w)]
    BY <2>1, SendingIsSteady
  <2> HIDE DEF v
  <2> QED
    BY <2>1, <2>2, SteadyIsTransitive
<1> QED
  BY <1>1, <1>2, <1>3, NothingChanges DEF Calm

LEMMA SendCommandIsSteady ==
  ASSUME NEW w, Shape(w), NEW cmd, NEW scope
  PROVE  Steady(w, SendCommand(w, cmd, scope)) /\ SendCommand(w, cmd, scope).out.what = "command"
<1> DEFINE reached == scope \cap Live(w)
           v == Sends(w, "command", reached)
           entry == [cmd |-> cmd, to |-> reached, heard |-> TRUE]
<1>1. SendCommand(w, cmd, scope) = Records(v, entry)
  BY DEF SendCommand
<1>2. Steady(w, v) /\ v.out.what = "command" /\ Shape(v)
  <2> HIDE DEF reached
  <2>1. Steady(w, v) /\ v.out = [what |-> "command", to |-> reached]
    BY SendingIsSteady
  <2> HIDE DEF v
  <2> QED
    BY <2>1 DEF Steady
<1> HIDE DEF v, entry
<1>3. Calm(v, Records(v, entry))
  BY <1>2, RecordingIsCalm
<1> QED
  BY <1>1, <1>2, <1>3, SteadyIsTransitive DEF Calm

LEMMA CommandLineKeyAnswers ==
  ASSUME NEW w, Shape(w), Focused(w.ui, "command"), NEW k
  PROVE  LET v == CommandLineKey(w, k)
         IN  Steady(w, v) /\ (v.out = w.out \/ v.out.what = "command")
<1>1. Calm(w, Closes(w, "command"))
  BY ClosingIsCalm DEF Input
<1>2. LET v == SendCommandLine(w) IN Steady(w, v) /\ (v.out = w.out \/ v.out.what = "command")
  <2> DEFINE u == Closes(w, "command")
             v == SendCommand(u, Len(w.log) + 1, PaneHosts)
  <2>1. Shape(u)
    BY <1>1 DEF Calm, Steady
  <2>2. SendCommandLine(w) \in {u, v}
    BY DEF SendCommandLine
  <2> HIDE DEF u
  <2>3. Steady(u, v) /\ v.out.what = "command"
    BY <2>1, SendCommandIsSteady
  <2> QED
    BY <1>1, <2>2, <2>3, SteadyIsTransitive DEF Calm, u
<1>3. /\ Calm(w, [w EXCEPT !.ui.in["command"] = "text"])
      /\ Calm(w, [w EXCEPT !.ui.in["command"] = ""])
      /\ Calm(w, Types(w, "command", k))
  BY TypingIsCalm, TypesIsCalm DEF Input
<1> QED
  BY <1>1, <1>2, <1>3 DEF CommandLineKey, Calm

LEMMA InputKeysAreCalm ==
  ASSUME NEW w, Shape(w), NEW k, NEW i \in {"picker", "connect", "search", "split", "filter"}, Focused(w.ui, i)
  PROVE  /\ i = "picker" => Calm(w, PickerKey(w, k))
         /\ i = "connect" => Calm(w, ConnectKey(w, k))
         /\ i = "search" => Calm(w, SearchKey(w, k))
         /\ Calm(w, NumberKey(w, i, k))
<1>1. i \in Input /\ i \notin {"name", "hosts"}
  BY DEF Input
<1>2. Calm(w, w) /\ Calm(w, Closes(w, i)) /\ Calm(w, Types(w, i, k)) /\ Calm(w, [w EXCEPT !.ui.in[i] = "text"])
  BY <1>1, NothingChanges, ClosingIsCalm, TypesIsCalm, TypingIsCalm
<1>3. ASSUME NEW x PROVE Calm(w, [Closes(w, i) EXCEPT !.ui.term = x])
  <2> DEFINE v == Closes(w, i)
  <2>1. Calm(w, v) /\ Shape(v)
    BY <1>2 DEF Calm, Steady
  <2> HIDE DEF v
  <2>2. Calm(v, [v EXCEPT !.ui.term = x])
    BY <2>1, FieldsAreCalm
  <2>3. Calm(w, [v EXCEPT !.ui.term = x])
    BY <2>1, <2>2, CalmIsTransitive
  <2> QED
    BY <2>3 DEF v
<1>4. i = "search" => Calm(w, SearchKey(w, k))
  BY <1>2, <1>3 DEF SearchKey
<1>5. i = "picker" => Calm(w, PickerKey(w, k))
  BY <1>2 DEF PickerKey
<1>6. i = "connect" => Calm(w, ConnectKey(w, k))
  BY <1>2 DEF ConnectKey
<1>7. Calm(w, NumberKey(w, i, k))
  BY <1>2 DEF NumberKey
<1> QED
  BY <1>4, <1>5, <1>6, <1>7

LEMMA OverlayKeyIsCalm ==
  ASSUME NEW w, Shape(w), NEW k, NEW overlay \in {"help", "preview"}
  PROVE  Calm(w, OverlayKey(w, overlay, k))
<1>1. Calm(w, [w EXCEPT !.ui[overlay] = FALSE])
  BY DEF Shape, UiFields, Steady, Calm, OpensNothing, OwnerNames, Open, Saving, DialogOpen, Focused, Input, HeldInView
<1> QED
  BY <1>1, FieldsAreCalm DEF OverlayKey

-----------------------------------------------------------------------------
(* Keys where no box listens: at most one opens, and nothing is asked of   *)
(* the disk but what the log panel sends again.                            *)
Area(w, v) ==
  /\ Shape(v)
  /\ OpensOne(w.ui, v.ui)
  /\ HeldInView(v.ui) => HeldInView(w.ui)
  /\ \A op \in v.ops : op \in w.ops \/ op.op \in {"resend", "missing"}

Command(w, v) == Area(w, v) /\ v.out = w.out

LEMMA SteadyIsArea ==
  ASSUME NEW w, NEW v
  PROVE  /\ Steady(w, v) => Area(w, v)
         /\ Calm(w, v) => Command(w, v)
  BY DEF Calm, Steady, Area, Command, OpensNothing, OpensOne, OwnerNames

LEMMA CalmThenCommand ==
  ASSUME NEW w, NEW v, NEW x, Calm(w, v), Command(v, x)
  PROVE  Command(w, x)
<1>1. PICK n \in OwnerNames \cup {"none"} : \A m \in OwnerNames : Open(x.ui, m) => Open(v.ui, m) \/ m = n
  <2>1. PICK n : \A m \in OwnerNames : Open(x.ui, m) => Open(v.ui, m) \/ m = n
    BY DEF Command, Area, OpensOne
  <2> QED
    BY <2>1
<1>2. OpensOne(w.ui, x.ui)
  BY <1>1 DEF Calm, Steady, OpensNothing, OpensOne, OwnerNames
<1> QED
  BY <1>2 DEF Calm, Steady, Command, Area

LEMMA AreaThenCalm ==
  ASSUME NEW w, NEW v, NEW x, Area(w, v), Calm(v, x)
  PROVE  Area(w, x)
<1>1. PICK n : \A m \in OwnerNames : Open(v.ui, m) => Open(w.ui, m) \/ m = n
  BY DEF Area, OpensOne
<1>2. PICK n2 \in OwnerNames : \A m \in OwnerNames : Open(x.ui, m) => Open(w.ui, m) \/ m = n2
  BY <1>1 DEF Area, Calm, Steady, OpensNothing, OpensOne, OwnerNames
<1> QED
  BY <1>2 DEF Area, Calm, Steady, OpensOne

LEMMA InputOpens ==
  ASSUME NEW w, Shape(w), NEW i \in Input, NEW text
  PROVE  Command(w, [w EXCEPT !.ui.in[i] = text])
<1> DEFINE v == [w EXCEPT !.ui.in[i] = text]
<1>1. Shape(v) /\ v.ops = w.ops /\ v.out = w.out /\ v.ui.held = w.ui.held /\ v.ui.view = w.ui.view
  BY DEF Shape, UiFields
<1>2. \A j \in Input : Focused(v.ui, j) => Focused(w.ui, j) \/ j = i
  BY DEF Shape, UiFields, Focused
<1>3. \A f \in {"confirm", "savePending", "delete", "ending", "help", "preview"} : v.ui[f] = w.ui[f]
  BY DEF Shape, UiFields
<1> HIDE DEF v
<1>4. \A n \in OwnerNames : Open(v.ui, n) => Open(w.ui, n) \/ n = IF i \in {"name", "hosts"} THEN "dialog" ELSE i
  BY <1>2, <1>3 DEF OwnerNames, Open, Saving, DialogOpen, Input
<1>5. OpensOne(w.ui, v.ui)
  BY <1>4 DEF OpensOne, OwnerNames, Input
<1>6. Command(w, v)
  BY <1>1, <1>5 DEF Command, Area, HeldInView
<1> QED
  BY <1>6 DEF v

LEMMA OpensIsCommand ==
  ASSUME NEW w, Shape(w), NEW i \in Input
  PROVE  Command(w, Opens(w, i))
  BY InputOpens DEF Opens

LEMMA FlagOpens ==
  ASSUME NEW w, Shape(w), NEW flag \in {"delete", "ending", "help", "preview"}
  PROVE  Command(w, [w EXCEPT !.ui[flag] = TRUE])
<1> DEFINE v == [w EXCEPT !.ui[flag] = TRUE]
<1>1. Shape(v) /\ v.ops = w.ops /\ v.out = w.out /\ v.ui.held = w.ui.held /\ v.ui.view = w.ui.view
      /\ v.ui.in = w.ui.in
  BY DEF Shape, UiFields
<1>2. \A f \in {"confirm", "savePending", "delete", "ending", "help", "preview"} : f # flag => v.ui[f] = w.ui[f]
  BY DEF Shape, UiFields
<1> HIDE DEF v
<1>3. \A n \in OwnerNames : Open(v.ui, n) => Open(w.ui, n) \/ n = flag
  BY <1>1, <1>2 DEF OwnerNames, Open, Saving, DialogOpen, Focused
<1>4. OpensOne(w.ui, v.ui)
  BY <1>3 DEF OpensOne, OwnerNames
<1>5. Command(w, v)
  BY <1>1, <1>4 DEF Command, Area, HeldInView
<1> QED
  BY <1>5 DEF v

LEMMA PostingIsCommand ==
  ASSUME NEW w, Shape(w), NEW op, op.op \in {"resend", "missing"}
  PROVE  Command(w, Posts(w, op))
<1>1. Shape(Posts(w, op)) /\ Posts(w, op).ui = w.ui /\ Posts(w, op).out = w.out
      /\ Posts(w, op).ops = w.ops \cup {op}
  BY DEF Shape, Posts
<1> QED
  BY <1>1 DEF Command, Area, OpensOne, OwnerNames

LEMMA MovesAreCalm ==
  ASSUME NEW w, Shape(w), NEW step
  PROVE  /\ Calm(w, EntersPane(w, step)) /\ Calm(w, JumpsToFailure(w))
         /\ Calm(w, MovePanel(w, step)) /\ Calm(w, CycleFocus(w, step)) /\ Calm(w, EntersBar(w))
<1>1. ASSUME NEW x PROVE Calm(w, [w EXCEPT !.ui.focus = "grid", !.ui.pane = x])
  BY DEF Shape, UiFields, Steady, Calm, OpensNothing, OwnerNames, Open, Saving, DialogOpen, Focused, Input, HeldInView
<1>2. Calm(w, EntersPane(w, step))
  <2>1. [w EXCEPT !.ui.focus = "grid"].ui.pane = w.ui.pane
    BY DEF Shape, UiFields
  <2>2. \E x : EntersPane(w, step) = [w EXCEPT !.ui.focus = "grid", !.ui.pane = x]
    BY DEF EntersPane
  <2> QED
    BY <1>1, <2>2
<1>3. Calm(w, JumpsToFailure(w))
  <2>1. JumpsToFailure(w) = w \/ \E x : JumpsToFailure(w) = [w EXCEPT !.ui.focus = "grid", !.ui.pane = x]
    BY DEF JumpsToFailure
  <2> QED
    BY <1>1, <2>1, NothingChanges
<1>4. Calm(w, MovePanel(w, step))
  <2> DEFINE panel == Sidebar[(CHOOSE j \in DOMAIN Sidebar : Sidebar[j] = w.ui.panel) + step]
  <2>1. MovePanel(w, step) \in {w, [w EXCEPT !.ui.panel = panel]}
    BY DEF MovePanel
  <2> HIDE DEF panel
  <2>2. Calm(w, [w EXCEPT !.ui.panel = panel])
    BY FieldsAreCalm
  <2> QED
    BY <2>1, <2>2, NothingChanges
<1>5. Calm(w, CycleFocus(w, step))
  <2> DEFINE stops == Append(Sidebar, "bar")
             at == IF w.ui.focus = "sidebar" THEN w.ui.panel ELSE "bar"
             i == CHOOSE j \in DOMAIN stops : stops[j] = at
             next == stops[((i - 1 + step + Len(stops)) % Len(stops)) + 1]
  <2>1. CycleFocus(w, step) = IF next = "bar" THEN Focuses(w, "bar") ELSE Selects(w, next)
    BY DEF CycleFocus
  <2> HIDE DEF next
  <2>2. Calm(w, Selects(w, next)) /\ Calm(w, Focuses(w, "bar"))
    BY FieldsAreCalm
  <2> QED
    BY <2>1, <2>2
<1>6. Calm(w, EntersBar(w))
  BY DEF Shape, UiFields, Steady, Calm, OpensNothing, OwnerNames, Open, Saving, DialogOpen, Focused, Input, HeldInView, EntersBar
<1> QED
  BY <1>2, <1>3, <1>4, <1>5, <1>6

LEMMA PaneKeyIsCommand ==
  ASSUME NEW w, Shape(w), NEW k, IsPaneKey(k)
  PROVE  Command(w, PaneKey(w, k))
<1>1. Command(w, OpensSearch(w))
  <2> DEFINE text == IF w.ui.term THEN "text" ELSE ""
  <2>1. OpensSearch(w) = [w EXCEPT !.ui.in["search"] = text]
    BY DEF OpensSearch
  <2> HIDE DEF text
  <2>2. Command(w, [w EXCEPT !.ui.in["search"] = text])
    BY InputOpens DEF Input
  <2> QED
    BY <2>1, <2>2
<1>2. Command(w, EntersPane(w, 1)) /\ Command(w, EntersPane(w, -1)) /\ Command(w, w)
      /\ Command(w, [w EXCEPT !.ui.term = FALSE])
  BY MovesAreCalm, NothingChanges, FieldsAreCalm, SteadyIsArea
<1>3. PaneKey(w, k) \in {EntersPane(w, 1), EntersPane(w, -1), OpensSearch(w), [w EXCEPT !.ui.term = FALSE], w}
  BY DEF PaneKey, IsPaneKey, PaneKeys
<1> QED
  BY <1>1, <1>2, <1>3

LEMMA AnswerKeyIsCalm ==
  ASSUME NEW w, Shape(w), NEW asked, NEW k, NEW accepted \in BOOLEAN
  PROVE  Calm(w, AnswerKey(w, asked, k, accepted)) /\ AnswerKey(w, asked, k, accepted).ui = w.ui
<1>1. ASSUME NEW x PROVE Calm(w, [w EXCEPT !.host = x]) /\ [w EXCEPT !.host = x].ui = w.ui
  BY DEF Shape, Steady, Calm, OpensNothing
<1> DEFINE x == [h \in PaneHosts |-> IF h \in asked THEN "dialling" ELSE w.host[h]]
<1>2. Answered(w, asked) = [w EXCEPT !.host = x]
  BY DEF Answered
<1> HIDE DEF x
<1> QED
  BY <1>1, <1>2, NothingChanges DEF AnswerKey

LEMMA SidebarKeyIsCommand ==
  ASSUME NEW w, Shape(w), NEW k
  PROVE  Command(w, SidebarKey(w, k))
<1> DEFINE entry == Last(w.log)
           resend == [op |-> "resend", cmd |-> entry.cmd, hosts |-> {}]
           missing == [op |-> "missing", cmd |-> entry.cmd, hosts |-> entry.to]
<1>1. Command(w, Posts(w, resend)) /\ Command(w, Posts(w, missing))
  <2>1. resend.op = "resend" /\ missing.op = "missing"
    OBVIOUS
  <2> HIDE DEF resend, missing
  <2> QED
    BY <2>1, PostingIsCommand
<1>2. /\ Command(w, [w EXCEPT !.ui.preview = TRUE]) /\ Command(w, [w EXCEPT !.ui.ending = TRUE])
      /\ Command(w, [w EXCEPT !.ui.in["save"] = "text"])
  BY InputOpens, FlagOpens DEF Input
<1>3. Command(w, w) /\ Command(w, MovePanel(w, -1)) /\ Command(w, MovePanel(w, 1)) /\ Command(w, Focuses(w, "grid"))
  BY MovesAreCalm, NothingChanges, FieldsAreCalm, SteadyIsArea
<1>4. SidebarKey(w, k) \in
        {MovePanel(w, -1), MovePanel(w, 1), [w EXCEPT !.ui.preview = TRUE], Focuses(w, "grid"),
         [w EXCEPT !.ui.in["save"] = "text"], [w EXCEPT !.ui.ending = TRUE],
         Posts(w, resend), Posts(w, missing), w}
  BY DEF SidebarKey
<1> QED
  BY <1>1, <1>2, <1>3, <1>4

LEMMA AppCommandIsCommand ==
  ASSUME NEW w, Shape(w), NEW k
  PROVE  Command(w, AppCommand(w, k))
<1>1. /\ Command(w, w) /\ Command(w, Quits(w)) /\ Command(w, [w EXCEPT !.ui.term = FALSE])
      /\ Command(w, CycleFocus(w, 1)) /\ Command(w, CycleFocus(w, -1))
      /\ Command(w, JumpsToFailure(w)) /\ Command(w, EntersBar(w)) /\ Command(w, Selects(w, PanelOf(k)))
  BY MovesAreCalm, NothingChanges, FieldsAreCalm, SteadyIsArea
<1>2. /\ \A i \in Input : Command(w, Opens(w, i))
      /\ Command(w, [w EXCEPT !.ui.delete = TRUE]) /\ Command(w, [w EXCEPT !.ui.help = TRUE])
  BY OpensIsCommand, FlagOpens
<1>3. Command(w, OpensSearch(w))
  <2> DEFINE text == IF w.ui.term THEN "text" ELSE ""
  <2>1. OpensSearch(w) = [w EXCEPT !.ui.in["search"] = text]
    BY DEF OpensSearch
  <2> HIDE DEF text
  <2>2. Command(w, [w EXCEPT !.ui.in["search"] = text])
    BY InputOpens DEF Input
  <2> QED
    BY <2>1, <2>2
<1>4. ASSUME NEW panel, NEW i \in Input, NEW text PROVE Command(w, [Selects(w, panel) EXCEPT !.ui.in[i] = text])
  <2> DEFINE v == Selects(w, panel)
  <2>1. Calm(w, v) /\ Shape(v)
    BY FieldsAreCalm DEF Calm, Steady
  <2> HIDE DEF v
  <2>2. Command(v, [v EXCEPT !.ui.in[i] = text])
    BY <2>1, InputOpens
  <2>3. Command(w, [v EXCEPT !.ui.in[i] = text])
    BY <2>1, <2>2, CalmThenCommand
  <2> QED
    BY <2>3 DEF v
<1>5. Command(w, [Selects(w, "groups") EXCEPT !.ui.in["save"] = "text"])
      /\ Command(w, Opens(Selects(w, "status"), "connect"))
  BY <1>4 DEF Opens, Input
<1>6. IsPaneKey(k) => Command(w, PaneKey(w, k))
  BY PaneKeyIsCommand
<1>7. Command(w, SidebarKey(w, k))
  BY SidebarKeyIsCommand
<1>8. \/ AppCommand(w, k) \in
           {w, Quits(w), [w EXCEPT !.ui.term = FALSE], CycleFocus(w, 1), CycleFocus(w, -1),
            JumpsToFailure(w), EntersBar(w), Selects(w, PanelOf(k)),
            [w EXCEPT !.ui.delete = TRUE], [w EXCEPT !.ui.help = TRUE], OpensSearch(w),
            [Selects(w, "groups") EXCEPT !.ui.in["save"] = "text"],
            Opens(Selects(w, "status"), "connect"), SidebarKey(w, k)}
      \/ AppCommand(w, k) \in {Opens(w, i) : i \in {"name", "command", "split", "filter", "picker"}}
      \/ IsPaneKey(k) /\ AppCommand(w, k) = PaneKey(w, k)
  BY DEF AppCommand
<1>9. {"name", "command", "split", "filter", "picker"} \subseteq Input
  BY DEF Input
<1> QED
  BY <1>1, <1>2, <1>3, <1>5, <1>6, <1>7, <1>8, <1>9

LEMMA AppKeyIsCommand ==
  ASSUME NEW w, Shape(w), NEW k
  PROVE  Command(w, AppKey(w, k))
<1> DEFINE resolved == [w EXCEPT !.ui.armed = FALSE]
<1>1. Calm(w, resolved) /\ Shape(resolved) /\ Command(w, [w EXCEPT !.ui.armed = TRUE])
  <2>1. Calm(w, resolved) /\ Calm(w, [w EXCEPT !.ui.armed = TRUE])
    BY FieldsAreCalm
  <2> QED
    BY <2>1, SteadyIsArea DEF Calm, Steady
<1>2. AppKey(w, k) \in {resolved, AppCommand(resolved, ChordCommand(k)), [w EXCEPT !.ui.armed = TRUE], AppCommand(w, k)}
  BY DEF AppKey
<1> HIDE DEF resolved
<1>3. Command(w, resolved) /\ Command(w, AppCommand(resolved, ChordCommand(k)))
  BY <1>1, AppCommandIsCommand, CalmThenCommand, SteadyIsArea
<1> QED
  BY <1>1, <1>2, <1>3, AppCommandIsCommand

(* A key of a focused pane goes to its host, if it goes anywhere.          *)
LEMMA TypingKeyStaysInPane ==
  ASSUME NEW w, Shape(w), NEW k, NEW accepted \in BOOLEAN
  PROVE  LET v == TypingKey(w, k, accepted)
         IN  Area(w, v) /\ (v.out = w.out \/ (v.out.what = "key" /\ v.out.to \subseteq {Panes[w.ui.pane]}))
<1> DEFINE resolved == [w EXCEPT !.ui.armed = FALSE]
           InPane(v) == Area(w, v) /\ (v.out = w.out \/ (v.out.what = "key" /\ v.out.to \subseteq {Panes[w.ui.pane]}))
<1>1. ASSUME NEW u, Calm(w, u), u.ui.pane = w.ui.pane
      PROVE  InPane(ToPane(u, "key"))
  <2> DEFINE to == {PaneHost(u)} \cap Live(u)
             v == Sends(u, "key", to)
  <2>1. v = ToPane(u, "key") /\ to \subseteq {Panes[w.ui.pane]}
    BY <1>1 DEF ToPane, PaneHost
  <2> HIDE DEF to
  <2>2. Steady(u, v) /\ v.out = [what |-> "key", to |-> to]
    BY <1>1, SendingIsSteady DEF Calm, Steady
  <2> HIDE DEF v
  <2>3. Area(w, v)
    BY <1>1, <2>2, SteadyIsTransitive, SteadyIsArea DEF Calm
  <2> QED
    BY <2>1, <2>2, <2>3
<1>2. ASSUME NEW u, Calm(w, u), u.ui.pane = w.ui.pane
      PROVE  InPane(PlainTypingKey(u, k, accepted))
  <2>1. Shape(u)
    BY <1>2 DEF Calm, Steady
  <2>2. ASSUME NEW v, Command(u, v) PROVE InPane(v)
    <3>1. Command(w, v)
      BY <1>2, <2>2, CalmThenCommand
    <3> QED
      BY <3>1 DEF Command
  <2>3. /\ Command(u, [u EXCEPT !.ui.armed = TRUE]) /\ Command(u, Selects(u, "status"))
        /\ Command(u, Quits(u)) /\ (IsPaneKey(k) => Command(u, PaneKey(u, k)))
    BY <2>1, FieldsAreCalm, SteadyIsArea, PaneKeyIsCommand
  <2>4. Command(u, AnswerKey(u, {PaneHost(u)}, k, accepted))
    BY <2>1, AnswerKeyIsCalm, SteadyIsArea
  <2>5. InPane(ToPane(u, "key"))
    BY <1>1, <1>2
  <2> HIDE DEF InPane
  <2> QED
    BY <2>2, <2>3, <2>4, <2>5 DEF PlainTypingKey
<1>3. Calm(w, w) /\ Calm(w, resolved) /\ resolved.ui.pane = w.ui.pane
  BY NothingChanges, FieldsAreCalm DEF Shape, UiFields
<1>4. TypingKey(w, k, accepted) \in
        {PlainTypingKey(w, k, accepted), resolved, ToPane(resolved, "key"), PlainTypingKey(resolved, k, accepted)}
  BY DEF TypingKey
<1> HIDE DEF resolved
<1>5. InPane(resolved)
  <2>1. Command(w, resolved)
    BY <1>3, SteadyIsArea
  <2> QED
    BY <2>1 DEF Command
<1>6. InPane(PlainTypingKey(w, k, accepted)) /\ InPane(PlainTypingKey(resolved, k, accepted))
      /\ InPane(ToPane(resolved, "key"))
  BY <1>1, <1>2, <1>3
<1> QED
  BY <1>4, <1>5, <1>6

(* A key of the bar goes to the hosts on screen, and not while the bar is  *)
(* a view; a script goes out only after it was held.                       *)
BarOut(w, out0) ==
  /\ out0.what \in {"key", "script"} /\ out0.to \subseteq PaneHosts
  /\ w.ui.held > 0 \/ ~w.ui.view
  /\ out0.what = "script" => w.ui.held > 0

LEMMA TargetsAreOnScreen ==
  ASSUME NEW w, Shape(w), NEW what
  PROVE  /\ Steady(w, ToTargets(w, what)) /\ ToTargets(w, what).ui = w.ui
         /\ ToTargets(w, what).out.what = what /\ ToTargets(w, what).out.to \subseteq PaneHosts
<1> DEFINE to == Live(w)
           v == Sends(w, what, to)
<1>1. to \subseteq PaneHosts
  BY DEF Live
<1>2. v = ToTargets(w, what)
  BY DEF ToTargets
<1> HIDE DEF to
<1>3. Steady(w, v) /\ v.out = [what |-> what, to |-> to] /\ v.ui = w.ui
  BY SendingIsSteady
<1> HIDE DEF v
<1> QED
  BY <1>1, <1>2, <1>3

LEMMA LinesAreCalm ==
  ASSUME NEW w, Shape(w), NEW k
  PROVE  /\ Calm(w, TrackLine(w, k))
         /\ Calm(w, RecordLine(w))
<1>1. ASSUME NEW x PROVE Calm(w, [w EXCEPT !.ui.line = x])
  BY FieldsAreCalm
<1>2. Calm(w, TrackLine(w, k))
  <2> DEFINE front == [w EXCEPT !.ui.line = Front(@)]
             longer == [w EXCEPT !.ui.line = Append(@, Live(w) # {})]
  <2>1. TrackLine(w, k) \in {front, longer, w}
    BY DEF TrackLine
  <2>2. Calm(w, front) /\ Calm(w, longer)
    BY <1>1
  <2> HIDE DEF front, longer
  <2> QED
    BY <2>1, <2>2, NothingChanges
<1>3. Calm(w, RecordLine(w))
  <2> DEFINE cleared == [w EXCEPT !.ui.line = <<>>]
             entry == [cmd |-> Len(w.log) + 1, to |-> Live(w),
                       heard |-> \A i \in DOMAIN w.ui.line : w.ui.line[i]]
  <2>1. RecordLine(w) \in {cleared, Records(cleared, entry)}
    BY DEF RecordLine
  <2>2. Calm(w, cleared) /\ Shape(cleared)
    BY <1>1 DEF Calm, Steady
  <2> HIDE DEF cleared, entry
  <2>3. Calm(cleared, Records(cleared, entry))
    BY <2>2, RecordingIsCalm
  <2> QED
    BY <2>1, <2>2, <2>3, CalmIsTransitive
<1> QED
  BY <1>2, <1>3

LEMMA BroadcastKeyStaysOnScreen ==
  ASSUME NEW w, Shape(w), NEW k, NEW accepted \in BOOLEAN
  PROVE  LET v == BroadcastKey(w, k, accepted)
         IN  Area(w, v) /\ (v.out = w.out \/ BarOut(w, v.out))
<1> DEFINE OnScreen(v) == Area(w, v) /\ (v.out = w.out \/ BarOut(w, v.out))
<1>1. ASSUME NEW v, Command(w, v) PROVE OnScreen(v)
  BY <1>1 DEF Command
<1>3. ASSUME NEW v, Calm(w, v), ~w.ui.view PROVE OnScreen(ToTargets(v, "key"))
  <2>1. /\ Steady(v, ToTargets(v, "key")) /\ ToTargets(v, "key").out.what = "key"
        /\ ToTargets(v, "key").out.to \subseteq PaneHosts
    BY <1>3, TargetsAreOnScreen DEF Calm, Steady
  <2>2. Area(w, ToTargets(v, "key"))
    BY <1>3, <2>1, SteadyIsTransitive, SteadyIsArea DEF Calm
  <2> QED
    BY <1>3, <2>1, <2>2 DEF BarOut
<1>4. CASE w.ui.held > 0
  <2> DEFINE answered == [w EXCEPT !.ui.held = 0]
  <2>1. Calm(w, answered) /\ Shape(answered)
    BY FieldsAreCalm DEF Calm, Steady
  <2>2. BroadcastKey(w, k, accepted) \in {ToTargets(answered, "script"), answered, w}
    BY <1>4 DEF BroadcastKey, PendingPasteKey
  <2> HIDE DEF answered
  <2>3. OnScreen(ToTargets(answered, "script"))
    <3>1. /\ Steady(answered, ToTargets(answered, "script")) /\ ToTargets(answered, "script").out.what = "script"
          /\ ToTargets(answered, "script").out.to \subseteq PaneHosts
      BY <2>1, TargetsAreOnScreen
    <3>2. Area(w, ToTargets(answered, "script"))
      BY <2>1, <3>1, SteadyIsTransitive, SteadyIsArea DEF Calm
    <3> QED
      BY <1>4, <3>1, <3>2 DEF BarOut
  <2>4. OnScreen(answered) /\ OnScreen(w)
    BY <1>1, <2>1, NothingChanges, SteadyIsArea
  <2> QED
    BY <2>2, <2>3, <2>4
<1>5. CASE ~(w.ui.held > 0) /\ Is(k, "LeaveTyping")
  <2> DEFINE v == Focuses(w, "sidebar")
             x == [v EXCEPT !.ui.view = FALSE, !.ui.armed = FALSE]
             u == [v EXCEPT !.ui.view = FALSE]
  <2>1. Calm(w, v)
    BY FieldsAreCalm
  <2> HIDE DEF v
  <2>2. Calm(v, u) /\ Calm(w, u) /\ Shape(u)
    <3>1. Calm(v, u)
      BY <2>1, FieldsAreCalm DEF Calm, Steady
    <3> QED
      BY <2>1, <3>1, CalmIsTransitive DEF Calm, Steady
  <2>3. x = BroadcastKey(w, k, accepted)
    BY <1>5 DEF BroadcastKey, v
  <2>4. x = [u EXCEPT !.ui.armed = FALSE]
    OBVIOUS
  <2> HIDE DEF u, x
  <2>5. Calm(u, [u EXCEPT !.ui.armed = FALSE])
    BY <2>2, FieldsAreCalm
  <2> QED
    BY <1>1, <2>2, <2>3, <2>4, <2>5, CalmIsTransitive, SteadyIsArea
<1>6. CASE ~(w.ui.held > 0) /\ ~Is(k, "LeaveTyping") /\ w.ui.view
  <2>1. BroadcastKey(w, k, accepted) \in {[w EXCEPT !.ui.view = FALSE], AppKey(w, k)}
    BY <1>6 DEF BroadcastKey
  <2>2. Command(w, [w EXCEPT !.ui.view = FALSE]) /\ Command(w, AppKey(w, k))
    BY FieldsAreCalm, SteadyIsArea, AppKeyIsCommand
  <2> QED
    BY <1>1, <2>1, <2>2
<1>7. CASE ~(w.ui.held > 0) /\ ~Is(k, "LeaveTyping") /\ ~w.ui.view /\ w.ui.armed
  <2> DEFINE resolved == [w EXCEPT !.ui.armed = FALSE]
             viewed == [resolved EXCEPT !.ui.view = TRUE]
  <2>1. Calm(w, resolved) /\ Shape(resolved) /\ resolved.ui.held = w.ui.held /\ resolved.ui.view = w.ui.view
    BY FieldsAreCalm DEF Calm, Steady, Shape, UiFields
  <2>2. BroadcastKey(w, k, accepted) \in {resolved, viewed, ToTargets(resolved, "key"), AppKey(resolved, ChordCommand(k))}
    BY <1>7 DEF BroadcastKey, BroadcastEscape
  <2> HIDE DEF resolved
  <2>3. OnScreen(viewed)
    <3>1. /\ Shape(viewed) /\ viewed.ops = resolved.ops /\ viewed.out = resolved.out
          /\ OpensNothing(resolved.ui, viewed.ui) /\ viewed.ui.held = resolved.ui.held
      BY <2>1 DEF Shape, UiFields, OpensNothing, OwnerNames, Open, Saving, DialogOpen, Focused, Input
    <3> HIDE DEF viewed
    <3>2. OpensOne(w.ui, viewed.ui)
      BY <2>1, <3>1 DEF Calm, Steady, OpensNothing, OpensOne, OwnerNames
    <3> QED
      BY <1>7, <2>1, <3>1, <3>2 DEF Area, HeldInView, Calm, Steady
  <2>4. OnScreen(ToTargets(resolved, "key"))
    BY <1>3, <1>7, <2>1
  <2>5. Command(w, AppKey(resolved, ChordCommand(k)))
    BY <2>1, AppKeyIsCommand, CalmThenCommand
  <2>6. Command(w, resolved)
    BY <2>1, SteadyIsArea
  <2> QED
    BY <1>1, <2>2, <2>3, <2>4, <2>5, <2>6
<1>8. CASE ~(w.ui.held > 0) /\ ~Is(k, "LeaveTyping") /\ ~w.ui.view /\ ~w.ui.armed
  <2>1. BroadcastKey(w, k, accepted) \in {[w EXCEPT !.ui.armed = TRUE], PlainBroadcastKey(w, k, accepted)}
        \/ (IsPaneKey(k) /\ BroadcastKey(w, k, accepted) = PaneKey(w, k))
    BY <1>8 DEF BroadcastKey
  <2>2. Command(w, [w EXCEPT !.ui.armed = TRUE]) /\ (IsPaneKey(k) => Command(w, PaneKey(w, k)))
    BY FieldsAreCalm, SteadyIsArea, PaneKeyIsCommand
  <2>3. OnScreen(PlainBroadcastKey(w, k, accepted))
    <3> DEFINE tracked == TrackLine(w, k)
               fed == AnswerKey(tracked, Asking(w), k, accepted)
               sent == ToTargets(fed, "key")
    <3>1. Calm(w, tracked) /\ Shape(tracked)
      BY LinesAreCalm DEF Calm, Steady
    <3>2. Calm(tracked, fed)
      BY <3>1, AnswerKeyIsCalm
    <3>3. Calm(w, fed)
      BY <3>1, <3>2, CalmIsTransitive
    <3>4. PlainBroadcastKey(w, k, accepted) \in {RecordLine(sent), sent}
      BY DEF PlainBroadcastKey
    <3> HIDE DEF fed
    <3>5. OnScreen(sent) /\ Shape(sent)
      BY <1>3, <1>8, <3>3 DEF Area
    <3> HIDE DEF sent
    <3>6. Calm(sent, RecordLine(sent))
      BY <3>5, LinesAreCalm
    <3>7. OnScreen(RecordLine(sent))
      BY <3>5, <3>6, AreaThenCalm DEF Calm
    <3> QED
      BY <3>4, <3>5, <3>7
  <2> QED
    BY <1>1, <2>1, <2>2, <2>3
<1> QED
  BY <1>4, <1>5, <1>6, <1>7, <1>8

-----------------------------------------------------------------------------
(* What the user can rely on between two steps: one listener, no write in  *)
(* flight without its box, no script held where enter does not release it. *)
OneOpen(u) == \A a, b \in OwnerNames : Open(u, a) /\ Open(u, b) => a = b
KeyInv(w) ==
  /\ Shape(w)
  /\ OneOpen(w.ui)
  /\ FlightInv(w.ui, w.ops)
  /\ ~HeldInView(w.ui)

LEMMA OwnersAreNames ==
  /\ DOMAIN Owners = 1 .. 12
  /\ \A i \in 1 .. 12 : Owners[i] \in OwnerNames
  /\ \A i, j \in 1 .. 12 : Owners[i] = Owners[j] => i = j
  /\ \A n \in OwnerNames : \E i \in 1 .. 12 : Owners[i] = n
<1>1. /\ DOMAIN Owners = 1 .. 12
      /\ Owners[1] = "command" /\ Owners[2] = "save" /\ Owners[3] = "dialog" /\ Owners[4] = "delete"
      /\ Owners[5] = "ending" /\ Owners[6] = "picker" /\ Owners[7] = "connect" /\ Owners[8] = "search"
      /\ Owners[9] = "split" /\ Owners[10] = "filter" /\ Owners[11] = "help" /\ Owners[12] = "preview"
  BY DEF Owners
<1>2. \A i \in 1 .. 12 : i \in {1, 2, 3, 4, 5, 6, 7, 8, 9, 10, 11, 12}
  OBVIOUS
<1>3. \A i \in 1 .. 12 : Owners[i] \in OwnerNames
  BY <1>1, <1>2 DEF OwnerNames
<1>4. \A i, j \in 1 .. 12 : Owners[i] = Owners[j] => i = j
  BY <1>1, <1>2
<1>5. \A n \in OwnerNames : \E i \in 1 .. 12 : Owners[i] = n
  BY <1>1 DEF OwnerNames
<1> QED
  BY <1>1, <1>3, <1>4, <1>5

LEMMA NobodyListens ==
  ASSUME NEW u
  PROVE  OpenOwners(u) = {} <=> \A n \in OwnerNames : ~Open(u, n)
  BY OwnersAreNames DEF OpenOwners

LEMMA OwnerListens ==
  ASSUME NEW u, OneOpen(u), OpenOwners(u) # {}
  PROVE  /\ Owner(u) \in OwnerNames /\ Open(u, Owner(u))
         /\ \A n \in OwnerNames : Open(u, n) => n = Owner(u)
         /\ \E i : OpenOwners(u) = {i}
<1>1. PICK i \in OpenOwners(u) : TRUE
  OBVIOUS
<1>2. i \in 1 .. 12 /\ Open(u, Owners[i]) /\ Owners[i] \in OwnerNames
  BY <1>1, OwnersAreNames DEF OpenOwners
<1>3. \A j \in OpenOwners(u) : j = i
  BY <1>2, OwnersAreNames DEF OpenOwners, OneOpen
<1>4. OpenOwners(u) = {i}
  BY <1>1, <1>3
<1>5. (CHOOSE k \in {i} : \A j \in {i} : k <= j) = i
  <2>1. \E k \in {i} : \A j \in {i} : k <= j
    BY <1>2
  <2>2. (CHOOSE k \in {i} : \A j \in {i} : k <= j) \in {i}
    BY <2>1
  <2> QED
    BY <2>2
<1>6. Owner(u) = Owners[i]
  BY <1>4, <1>5 DEF Owner
<1> QED
  BY <1>2, <1>4, <1>6 DEF OneOpen

LEMMA AnswersKeepKeyInv ==
  ASSUME NEW w, NEW v, KeyInv(w), Answers(w, v)
  PROVE  KeyInv(v)
  BY DEF KeyInv, Answers, OneOpen, OpensNothing

LEMMA SteadyKeepsKeyInv ==
  ASSUME NEW w, NEW v, KeyInv(w), Steady(w, v)
  PROVE  KeyInv(v)
  BY SteadyAnswers, AnswersKeepKeyInv DEF KeyInv

LEMMA AreaKeepsKeyInv ==
  ASSUME NEW w, NEW v, KeyInv(w), OpenOwners(w.ui) = {}, Area(w, v)
  PROVE  KeyInv(v)
<1>1. \A n \in OwnerNames : ~Open(w.ui, n)
  BY NobodyListens
<1>2. OneOpen(v.ui)
  BY <1>1 DEF Area, OpensOne, OneOpen
<1>3. ~w.ui.savePending /\ ~DialogOpen(w.ui)
  BY <1>1 DEF Open, OwnerNames, Saving
<1>4. \A op \in w.ops : op.op \notin {"save", "overwrite", "create"}
  BY <1>3 DEF KeyInv, FlightInv
<1>5. FlightInv(v.ui, v.ops)
  BY <1>4 DEF KeyInv, FlightInv, Area
<1> QED
  BY <1>2, <1>5 DEF KeyInv, Area

LEMMA OwnerKeyAnswers ==
  ASSUME NEW w, KeyInv(w), OpenOwners(w.ui) # {}, NEW k, NEW accepted \in BOOLEAN
  PROVE  LET v == OwnerKey(w, k, accepted)
         IN  /\ KeyInv(v)
             /\ \/ v.out = w.out
                \/ v.out.what = "command" /\ Focused(w.ui, "command")
                \/ v.out.what = "end" /\ w.ui.ending
<1> DEFINE v == OwnerKey(w, k, accepted)
           owner == Owner(w.ui)
<1>1. Shape(w) /\ FlightInv(w.ui, w.ops) /\ owner \in OwnerNames /\ Open(w.ui, owner)
  BY OwnerListens DEF KeyInv
<1>2. CASE owner = "command"
  <2>1. Focused(w.ui, "command") /\ v = CommandLineKey(w, k)
    BY <1>1, <1>2 DEF Open, OwnerKey
  <2> HIDE DEF v
  <2> QED
    BY <1>1, <2>1, CommandLineKeyAnswers, SteadyKeepsKeyInv DEF v
<1>3. CASE owner = "save"
  <2>1. Saving(w.ui) /\ v = SaveKey(w, k, accepted)
    BY <1>1, <1>3 DEF Open, OwnerKey
  <2> QED
    BY <1>1, <2>1, SaveKeyAnswers, AnswersKeepKeyInv
<1>4. CASE owner = "dialog"
  <2>1. DialogOpen(w.ui) /\ v = DialogKey(w, k, accepted)
    BY <1>1, <1>4 DEF Open, OwnerKey
  <2> QED
    BY <1>1, <2>1, DialogKeyAnswers, AnswersKeepKeyInv
<1>5. CASE owner = "delete"
  <2>1. v = DeleteKey(w, k)
    BY <1>5 DEF OwnerKey
  <2> QED
    BY <1>1, <2>1, DeleteKeyAnswers, AnswersKeepKeyInv
<1>6. CASE owner = "ending"
  <2>1. w.ui.ending /\ v = SessionEndKey(w, k)
    BY <1>1, <1>6 DEF Open, OwnerKey
  <2> QED
    BY <1>1, <2>1, SessionEndKeyAnswers, SteadyKeepsKeyInv
<1>7. CASE owner \in {"picker", "connect", "search", "split", "filter"}
  <2>1. Focused(w.ui, owner)
    BY <1>1, <1>7 DEF Open
  <2>2. \/ owner = "picker" /\ v = PickerKey(w, k)
        \/ owner = "connect" /\ v = ConnectKey(w, k)
        \/ owner = "search" /\ v = SearchKey(w, k)
        \/ v = NumberKey(w, owner, k)
    BY <1>7 DEF OwnerKey
  <2> HIDE DEF v, owner
  <2>3. Calm(w, v)
    BY <1>1, <1>7, <2>1, <2>2, InputKeysAreCalm
  <2> QED
    BY <2>3, SteadyKeepsKeyInv DEF Calm, v
<1>8. CASE owner \in {"help", "preview"}
  <2>1. v = OverlayKey(w, owner, k)
    BY <1>8 DEF OwnerKey
  <2> HIDE DEF v, owner
  <2>2. Calm(w, v)
    BY <1>1, <1>8, <2>1, OverlayKeyIsCalm
  <2> QED
    BY <2>2, SteadyKeepsKeyInv DEF Calm, v
<1> QED
  BY <1>1, <1>2, <1>3, <1>4, <1>5, <1>6, <1>7, <1>8 DEF OwnerNames

-----------------------------------------------------------------------------
(* Addressed, and what the properties ask of a message that goes out, of   *)
(* any world.                                                              *)
AddressedIn(u) ==
  IF OpenOwners(u) # {} \/ u.focus = "sidebar" THEN {}
  ELSE IF u.focus = "grid" THEN {Panes[u.pane]}
  ELSE IF u.view THEN {} ELSE PaneHosts

Faithful(u, sent) ==
  /\ sent.what \in {"key", "text", "script"} => sent.to \subseteq AddressedIn(u)
  /\ sent.what = "command" => Focused(u, "command")
  /\ sent.what = "end" => u.ending
  /\ sent.what = "script" /\ Cardinality(sent.to) > 1
       => u.held > 0 /\ u.focus = "bar" /\ OpenOwners(u) = {}

LEMMA SilenceIsFaithful == ASSUME NEW u PROVE Faithful(u, Silence)
  BY DEF Faithful, Silence

LEMMA OneHostIsFew ==
  ASSUME NEW S, NEW h, S \subseteq {h}
  PROVE  ~(Cardinality(S) > 1)
<1>1. S = {} \/ S = {h}
  OBVIOUS
<1>2. Cardinality({}) = 0 /\ Cardinality({h}) = 1
  BY FS_EmptySet, FS_Singleton
<1> QED
  BY <1>1, <1>2

LEMMA AreaKeyIsFaithful ==
  ASSUME NEW w, KeyInv(w), OpenOwners(w.ui) = {}, w.out = Silence, NEW k, NEW accepted \in BOOLEAN
  PROVE  LET v == AreaKey(w, k, accepted) IN KeyInv(v) /\ Faithful(w.ui, v.out)
<1> DEFINE v == AreaKey(w, k, accepted)
<1>1. Shape(w) /\ w.ui.focus \in {"grid", "bar", "sidebar"}
  BY DEF KeyInv, Shape
<1>2. CASE w.ui.focus = "grid"
  <2>1. v = TypingKey(w, k, accepted)
    BY <1>2 DEF AreaKey
  <2>2. Area(w, v) /\ (v.out = w.out \/ (v.out.what = "key" /\ v.out.to \subseteq {Panes[w.ui.pane]}))
    BY <1>1, <2>1, TypingKeyStaysInPane
  <2> HIDE DEF v
  <2>3. Faithful(w.ui, v.out)
    BY <1>2, <2>2, SilenceIsFaithful DEF Faithful, AddressedIn
  <2> QED
    BY <2>2, <2>3, AreaKeepsKeyInv DEF v
<1>3. CASE w.ui.focus = "bar"
  <2>1. v = BroadcastKey(w, k, accepted)
    BY <1>3 DEF AreaKey
  <2>2. Area(w, v) /\ (v.out = w.out \/ BarOut(w, v.out))
    BY <1>1, <2>1, BroadcastKeyStaysOnScreen
  <2> HIDE DEF v
  <2>3. Faithful(w.ui, v.out)
    BY <1>3, <2>2, SilenceIsFaithful DEF Faithful, AddressedIn, BarOut, KeyInv, HeldInView
  <2> QED
    BY <2>2, <2>3, AreaKeepsKeyInv DEF v
<1>4. CASE w.ui.focus = "sidebar"
  <2>1. v = AppKey(w, k)
    BY <1>4 DEF AreaKey
  <2>2. Area(w, v) /\ v.out = w.out
    BY <1>1, <2>1, AppKeyIsCommand DEF Command
  <2> HIDE DEF v
  <2> QED
    BY <2>2, SilenceIsFaithful, AreaKeepsKeyInv DEF v
<1> QED
  BY <1>1, <1>2, <1>3, <1>4

(* The reset of the view on the way in: nothing a question of this section *)
(* asks about is different afterwards.                                     *)
LEMMA UnviewedIsTheSame ==
  ASSUME NEW f, KeyInv(f), f.out = Silence, f.ui.focus # "bar"
  PROVE  LET w == [f EXCEPT !.ui.view = FALSE]
         IN  /\ KeyInv(w) /\ w.out = Silence
             /\ OpenOwners(w.ui) = OpenOwners(f.ui)
             /\ \A sent : Faithful(w.ui, sent) => Faithful(f.ui, sent)
<1> DEFINE w == [f EXCEPT !.ui.view = FALSE]
<1>1. Calm(f, w)
  BY FieldsAreCalm DEF KeyInv
<1>2. /\ w.ui.focus = f.ui.focus /\ w.ui.pane = f.ui.pane /\ w.ui.held = f.ui.held
      /\ w.ui.in = f.ui.in /\ w.ui.ending = f.ui.ending
  BY DEF KeyInv, Shape, UiFields
<1>3. \A n \in OwnerNames : Open(w.ui, n) <=> Open(f.ui, n)
  BY DEF KeyInv, Shape, UiFields, OwnerNames, Open, Saving, DialogOpen, Focused
<1> HIDE DEF w
<1>4. OpenOwners(w.ui) = OpenOwners(f.ui)
  BY <1>3, OwnersAreNames DEF OpenOwners
<1>5. AddressedIn(w.ui) = AddressedIn(f.ui)
  BY <1>2, <1>4 DEF AddressedIn, KeyInv, Shape
<1> QED
  BY <1>1, <1>2, <1>4, <1>5, SteadyKeepsKeyInv DEF Calm, Faithful, Focused, w

LEMMA UnselectedIsTheSame ==
  ASSUME NEW w, KeyInv(w), w.out = Silence
  PROVE  LET v == [w EXCEPT !.ui.sel = FALSE]
         IN  /\ KeyInv(v) /\ v.out = Silence
             /\ OpenOwners(v.ui) = OpenOwners(w.ui)
             /\ \A sent : Faithful(v.ui, sent) => Faithful(w.ui, sent)
<1> DEFINE v == [w EXCEPT !.ui.sel = FALSE]
<1>1. Calm(w, v)
  BY FieldsAreCalm DEF KeyInv
<1>2. /\ v.ui.focus = w.ui.focus /\ v.ui.pane = w.ui.pane /\ v.ui.held = w.ui.held
      /\ v.ui.in = w.ui.in /\ v.ui.ending = w.ui.ending /\ v.ui.view = w.ui.view
  BY DEF KeyInv, Shape, UiFields
<1>3. \A n \in OwnerNames : Open(v.ui, n) <=> Open(w.ui, n)
  BY DEF KeyInv, Shape, UiFields, OwnerNames, Open, Saving, DialogOpen, Focused
<1> HIDE DEF v
<1>4. OpenOwners(v.ui) = OpenOwners(w.ui)
  BY <1>3, OwnersAreNames DEF OpenOwners
<1>5. AddressedIn(v.ui) = AddressedIn(w.ui)
  BY <1>2, <1>4 DEF AddressedIn
<1> QED
  BY <1>1, <1>2, <1>4, <1>5, SteadyKeepsKeyInv DEF Calm, Faithful, Focused, v

LEMMA OwnerKeyIsFaithful ==
  ASSUME NEW w, KeyInv(w), OpenOwners(w.ui) # {}, w.out = Silence, NEW k, NEW accepted \in BOOLEAN
  PROVE  LET v == OwnerKey(w, k, accepted) IN KeyInv(v) /\ Faithful(w.ui, v.out)
<1> DEFINE v == OwnerKey(w, k, accepted)
<1>1. /\ KeyInv(v)
      /\ \/ v.out = w.out
         \/ v.out.what = "command" /\ Focused(w.ui, "command")
         \/ v.out.what = "end" /\ w.ui.ending
  BY OwnerKeyAnswers
<1> HIDE DEF v
<1>2. Faithful(w.ui, v.out)
  BY <1>1, SilenceIsFaithful DEF Faithful
<1> QED
  BY <1>1, <1>2 DEF v

LEMMA HandleKeyIsFaithful ==
  ASSUME NEW f, KeyInv(f), f.out = Silence, NEW k, NEW accepted \in BOOLEAN
  PROVE  LET v == HandleKey(f, k, accepted) IN KeyInv(v) /\ Faithful(f.ui, v.out)
<1> DEFINE w == IF f.ui.focus = "bar" THEN f ELSE [f EXCEPT !.ui.view = FALSE]
           unselected == [w EXCEPT !.ui.sel = FALSE]
           v == HandleKey(f, k, accepted)
<1>1. v \in {Quits(w), unselected} \/ (OpenOwners(w.ui) # {} /\ v = OwnerKey(w, k, accepted))
      \/ (OpenOwners(w.ui) = {} /\ v \in {AreaKey(unselected, k, accepted), AreaKey(w, k, accepted)})
  BY DEF HandleKey
<1>2. /\ KeyInv(w) /\ w.out = Silence
      /\ \A sent : Faithful(w.ui, sent) => Faithful(f.ui, sent)
  BY UnviewedIsTheSame
<1> HIDE DEF w, v
<1>3. /\ KeyInv(unselected) /\ unselected.out = Silence
      /\ OpenOwners(unselected.ui) = OpenOwners(w.ui)
      /\ \A sent : Faithful(unselected.ui, sent) => Faithful(w.ui, sent)
  BY <1>2, UnselectedIsTheSame
<1> HIDE DEF unselected
<1>4. CASE v = Quits(w)
  <2>1. Calm(w, v)
    BY <1>2, <1>4, FieldsAreCalm DEF KeyInv
  <2> QED
    BY <1>2, <2>1, SteadyKeepsKeyInv, SilenceIsFaithful DEF Calm, v
<1>5. CASE v = unselected
  BY <1>3, <1>5, SilenceIsFaithful DEF v
<1>6. CASE OpenOwners(w.ui) # {} /\ v = OwnerKey(w, k, accepted)
  BY <1>2, <1>6, OwnerKeyIsFaithful DEF v
<1>7. CASE OpenOwners(w.ui) = {} /\ v = AreaKey(unselected, k, accepted)
  BY <1>2, <1>3, <1>7, AreaKeyIsFaithful DEF v
<1>8. CASE OpenOwners(w.ui) = {} /\ v = AreaKey(w, k, accepted)
  BY <1>2, <1>8, AreaKeyIsFaithful DEF v
<1> QED
  BY <1>1, <1>4, <1>5, <1>6, <1>7, <1>8

-----------------------------------------------------------------------------
(* What else happens: a paste, a click, a result.                          *)

(* A paste into a pane is text for one host.                               *)
LEMMA PanePasteIsFaithful ==
  ASSUME NEW w, KeyInv(w), w.out = Silence, NEW n, OpenOwners(w.ui) = {}, w.ui.focus = "grid"
  PROVE  LET v == PasteToPane(w, n) IN KeyInv(v) /\ Faithful(w.ui, v.out)
<1> DEFINE v == PasteToPane(w, n)
           fresh == [w EXCEPT !.ui.armed = FALSE]
           what == IF n > 1 THEN "script" ELSE "text"
           sent == ToPane(fresh, what)
           to == {PaneHost(fresh)} \cap Live(fresh)
<1>1. Shape(w)
  BY DEF KeyInv
<1>2. Calm(w, fresh) /\ Shape(fresh)
  BY <1>1, FieldsAreCalm DEF Calm, Steady
<1>3. fresh.host = w.host /\ fresh.ui.pane = w.ui.pane /\ fresh.out = Silence
  BY <1>1 DEF Shape, UiFields
<1>4. v \in {fresh, sent}
  BY DEF PasteToPane
<1>5. sent = Sends(fresh, what, to) /\ to \subseteq {Panes[w.ui.pane]}
  BY <1>3 DEF ToPane, PaneHost
<1> HIDE DEF to, sent, fresh, what, v
<1>6. Steady(fresh, sent) /\ sent.out = [what |-> what, to |-> to]
  BY <1>2, <1>5, SendingIsSteady
<1>7. Steady(w, sent) /\ Steady(w, fresh)
  BY <1>2, <1>6, SteadyIsTransitive DEF Calm
<1>8. what \in {"script", "text"} /\ ~(Cardinality(to) > 1)
  BY <1>5, OneHostIsFew DEF what
<1>9. Faithful(w.ui, sent.out)
  BY <1>5, <1>6, <1>8 DEF Faithful, AddressedIn
<1> QED
  BY <1>3, <1>4, <1>7, <1>9, SteadyKeepsKeyInv, SilenceIsFaithful DEF v

(* A paste into the bar is held, or is only about to go out.               *)
LEMMA BarPasteIsSilent ==
  ASSUME NEW w, KeyInv(w), w.out = Silence, NEW count,
         OpenOwners(w.ui) = {}, w.ui.focus = "bar", ~w.ui.view
  PROVE  LET fresh == [w EXCEPT !.ui.armed = FALSE]
             held == [fresh EXCEPT !.ui.held = count]
         IN  /\ KeyInv(fresh) /\ fresh.out = Silence
             /\ OpenOwners(fresh.ui) = {} /\ fresh.ui.focus = "bar" /\ ~fresh.ui.view
             /\ KeyInv(held) /\ held.out = Silence
<1> DEFINE fresh == [w EXCEPT !.ui.armed = FALSE]
           held == [fresh EXCEPT !.ui.held = count]
<1>1. Calm(w, fresh) /\ Shape(fresh)
  BY FieldsAreCalm DEF KeyInv, Calm, Steady
<1>2. KeyInv(fresh) /\ fresh.out = Silence
  BY <1>1, SteadyKeepsKeyInv DEF Calm
<1>3. /\ \A f \in UiFields \ {"armed"} : fresh.ui[f] = w.ui[f]
      /\ \A m \in OwnerNames : Open(fresh.ui, m) <=> Open(w.ui, m)
  BY DEF KeyInv, Shape, UiFields, OwnerNames, Open, Saving, DialogOpen, Focused
<1>4. fresh.ui.focus = "bar" /\ ~fresh.ui.view
  BY <1>3 DEF UiFields
<1>5. OpenOwners(fresh.ui) = OpenOwners(w.ui)
  BY <1>3, OwnersAreNames DEF OpenOwners
<1> HIDE DEF fresh
<1>6. Shape(held) /\ held.ops = fresh.ops /\ held.out = fresh.out /\ ~held.ui.view
      /\ held.ui.savePending = fresh.ui.savePending /\ held.ui.saving = fresh.ui.saving
      /\ held.ui.in = fresh.ui.in
  BY <1>1, <1>4 DEF Shape, UiFields
<1>7. \A m \in OwnerNames : Open(held.ui, m) <=> Open(fresh.ui, m)
  BY <1>1 DEF Shape, UiFields, OwnerNames, Open, Saving, DialogOpen, Focused
<1> HIDE DEF held
<1>8. KeyInv(held) /\ held.out = Silence
  BY <1>2, <1>6, <1>7 DEF KeyInv, OneOpen, FlightInv, HeldInView, DialogOpen, Focused
<1> QED
  BY <1>2, <1>4, <1>5, <1>8 DEF fresh, held

LEMMA ClickIsFaithful ==
  ASSUME NEW w, KeyInv(w), w.out = Silence, NEW click \in Clicks
  PROVE  LET v == HandleClick(w, click.at, click.drag) IN KeyInv(v) /\ v.out = Silence
<1> DEFINE fresh == [w EXCEPT !.ui.sel = FALSE]
           pane == CHOOSE i \in DOMAIN Panes : Panes[i] = click.at
           v == HandleClick(w, click.at, click.drag)
           grid == [fresh EXCEPT !.ui.focus = "grid", !.ui.sel = click.drag, !.ui.pane = pane]
<1>1. Calm(w, fresh) /\ Shape(fresh)
  BY FieldsAreCalm DEF KeyInv, Calm, Steady
<1>2. v \in {grid, Selects(fresh, click.at), EntersBar(fresh)}
  BY ClicksAssumption DEF HandleClick, PaneHosts
<1> HIDE DEF fresh, pane, v
<1>3. Calm(fresh, grid)
  <2>1. Shape(grid) /\ grid.ops = fresh.ops /\ grid.out = fresh.out
    BY <1>1 DEF Shape, UiFields
  <2>2. \A f \in UiFields \ {"focus", "sel", "pane"} : grid.ui[f] = fresh.ui[f]
    BY <1>1 DEF Shape, UiFields
  <2> HIDE DEF grid
  <2>3. \A n \in OwnerNames : Open(grid.ui, n) <=> Open(fresh.ui, n)
    BY <2>2 DEF UiFields, OwnerNames, Open, Saving, DialogOpen, Focused
  <2> QED
    BY <2>1, <2>2, <2>3 DEF Calm, Steady, OpensNothing, HeldInView, DialogOpen, Focused, UiFields
<1>4. Calm(fresh, Selects(fresh, click.at)) /\ Calm(fresh, EntersBar(fresh))
  BY <1>1, FieldsAreCalm, MovesAreCalm
<1> HIDE DEF grid
<1>5. Calm(fresh, v)
  BY <1>2, <1>3, <1>4
<1> QED
  BY <1>1, <1>5, SteadyKeepsKeyInv, CalmIsTransitive DEF Calm, v

(* A result finds the box that asked for it: its message is the only one of *)
(* its kind on the way.                                                     *)
LEMMA ResultIsFaithful ==
  ASSUME NEW w, KeyInv(w), w.out = Silence, NEW op \in w.ops, NEW result \in Results(op)
  PROVE  LET v == HandleMsg([w EXCEPT !.ops = @ \ {op}], op, result)
         IN  KeyInv(v) /\ v.ops # w.ops /\ (v.out = Silence \/ v.out.what = "command")
<1> DEFINE x == [w EXCEPT !.ops = @ \ {op}]
           v == HandleMsg(x, op, result)
<1>1. Shape(x) /\ x.ui = w.ui /\ x.ops = w.ops \ {op} /\ x.out = Silence
  BY DEF KeyInv, Shape
<1> HIDE DEF x
<1>2. FlightInv(x.ui, x.ops) /\ KeyInv(x)
  BY <1>1 DEF KeyInv, FlightInv
<1>3. op.op \in {"save", "overwrite", "create", "remove", "resend", "missing"}
  BY DEF KeyInv, FlightInv
<1>4. CASE op.op \in {"save", "overwrite"}
  <2> DEFINE taken == [x EXCEPT !.ui.savePending = FALSE, !.ui.confirm = TRUE]
  <2>1. v \in {taken, CancelSave(x)}
    BY <1>4 DEF HandleMsg
  <2>2. \A o \in x.ops : o.op \notin {"save", "overwrite"}
    BY <1>1, <1>4 DEF KeyInv, FlightInv
  <2>3. x.ui.savePending
    BY <1>1, <1>4 DEF KeyInv, FlightInv
  <2>4. KeyInv(taken) /\ taken.ops = x.ops /\ taken.out = x.out
    <3>1. Shape(taken) /\ taken.ops = x.ops /\ taken.out = x.out
          /\ OpensNothing(x.ui, taken.ui)
          /\ taken.ui.held = x.ui.held /\ taken.ui.view = x.ui.view
          /\ taken.ui.saving = x.ui.saving /\ taken.ui.in = x.ui.in
      BY <1>1, <2>3 DEF Shape, UiFields, OpensNothing, OwnerNames, Open, Saving, DialogOpen, Focused
    <3> HIDE DEF taken
    <3>2. FlightInv(taken.ui, taken.ops)
      BY <1>2, <2>2, <3>1 DEF FlightInv, DialogOpen, Focused
    <3>3. Answers(x, taken)
      BY <3>1, <3>2 DEF Answers, HeldInView
    <3> QED
      BY <1>2, <3>1, <3>3, AnswersKeepKeyInv
  <2>5. KeyInv(CancelSave(x)) /\ CancelSave(x).ops = x.ops /\ CancelSave(x).out = x.out
    BY <1>1, <1>2, <2>2, CancelSaveAnswers, AnswersKeepKeyInv
  <2> HIDE DEF taken, v
  <2> QED
    BY <1>1, <2>1, <2>4, <2>5 DEF v, x
<1>5. CASE op.op = "create"
  <2> DEFINE kept == [x EXCEPT !.ui.saving = FALSE]
  <2>1. v \in {kept, CancelNew(x)}
    BY <1>5 DEF HandleMsg
  <2>2. \A o \in x.ops : o.op # "create"
    BY <1>1, <1>5 DEF KeyInv, FlightInv
  <2>3. KeyInv(kept) /\ kept.ops = x.ops /\ kept.out = x.out
    <3>1. Shape(kept) /\ kept.ops = x.ops /\ kept.out = x.out
          /\ OpensNothing(x.ui, kept.ui)
          /\ kept.ui.held = x.ui.held /\ kept.ui.view = x.ui.view
          /\ kept.ui.savePending = x.ui.savePending /\ kept.ui.in = x.ui.in
      BY <1>1 DEF Shape, UiFields, OpensNothing, OwnerNames, Open, Saving, DialogOpen, Focused
    <3> HIDE DEF kept
    <3>2. FlightInv(kept.ui, kept.ops)
      BY <1>2, <2>2, <3>1 DEF FlightInv, DialogOpen, Focused
    <3>3. Answers(x, kept)
      BY <3>1, <3>2 DEF Answers, HeldInView
    <3> QED
      BY <1>2, <3>1, <3>3, AnswersKeepKeyInv
  <2>4. KeyInv(CancelNew(x)) /\ CancelNew(x).ops = x.ops /\ CancelNew(x).out = x.out
    BY <1>1, <1>2, <2>2, CancelNewAnswers, AnswersKeepKeyInv
  <2> HIDE DEF kept, v
  <2> QED
    BY <1>1, <2>1, <2>3, <2>4 DEF v, x
<1>6. CASE op.op = "remove"
  <2>1. v = x
    BY <1>6 DEF HandleMsg
  <2> HIDE DEF v
  <2> QED
    BY <1>1, <1>2, <2>1 DEF v, x
<1>7. CASE op.op \in {"resend", "missing"}
  <2> DEFINE missing == x.told \ op.hosts
             again == SendCommand(x, op.cmd, PaneHosts)
             late == SendCommand(x, op.cmd, missing)
  <2>1. v \in {x, again, late}
    BY <1>7 DEF HandleMsg, ResendMissing
  <2> HIDE DEF missing, v
  <2>2. /\ Steady(x, again) /\ again.out.what = "command"
        /\ Steady(x, late) /\ late.out.what = "command"
    BY <1>1, SendCommandIsSteady
  <2> HIDE DEF again, late
  <2>3. KeyInv(again) /\ KeyInv(late) /\ again.ops = x.ops /\ late.ops = x.ops
    BY <1>2, <2>2, SteadyKeepsKeyInv DEF Steady
  <2> QED
    BY <1>1, <1>2, <2>1, <2>2, <2>3 DEF v, x
<1> QED
  BY <1>3, <1>4, <1>5, <1>6, <1>7

-----------------------------------------------------------------------------
(* A paste that is about to go out was counted from the bar, with nothing  *)
(* else open, and if it is a script, for one host at most.                 *)
CallInv ==
  call # NoCall =>
    /\ OpenOwners(ui) = {} /\ ui.focus = "bar" /\ ~ui.view
    /\ call.what \in {"text", "script"}
    /\ IsFiniteSet(call.counted)
    /\ call.what = "script" => Cardinality(call.counted) <= 1

KeyboardInv == KeyInv(World) /\ CallInv

LEMMA WorldsAreShaped ==
  /\ World.host = host /\ World.ui = ui /\ World.log = log /\ World.ops = ops
  /\ World.out = Silence /\ DOMAIN World = {"host", "ui", "log", "ops", "out", "told"}
  BY DEF World

LEMMA BecomesKeepsInv ==
  ASSUME NEW w, KeyInv(w), Becomes(w)
  PROVE  KeyInv(World)'
<1>1. /\ World'.ui = w.ui /\ World'.ops = w.ops
      /\ DOMAIN World' = {"host", "ui", "log", "ops", "out", "told"}
  BY DEF Becomes, World
<1> QED
  BY <1>1 DEF KeyInv, Shape, FlightInv

(* The snapshot of a step answers questions only.                          *)
LEMMA ToldIsAsked ==
  ASSUME NEW w, KeyInv(w), w.out = Silence, NEW told
  PROVE  LET x == [w EXCEPT !.told = told]
         IN  KeyInv(x) /\ x.out = Silence /\ x.ui = w.ui /\ x.ops = w.ops
<1> DEFINE x == [w EXCEPT !.told = told]
<1>1. x.out = Silence /\ x.ui = w.ui /\ x.ops = w.ops /\ DOMAIN x = DOMAIN w
  BY DEF KeyInv, Shape
<1> HIDE DEF x
<1> QED
  BY <1>1 DEF KeyInv, Shape, x

LEMMA InitKeyInv == Init => KeyboardInv
<1> SUFFICES ASSUME Init PROVE KeyboardInv
  OBVIOUS
<1>1. PICK prompt \in {"closed", ""} :
        ui = [focus |-> "sidebar", panel |-> "status", pane |-> 1, sel |-> FALSE,
              in |-> [i \in Input |-> IF i = "connect" THEN prompt ELSE "closed"],
              confirm |-> FALSE, savePending |-> FALSE, saving |-> FALSE, delete |-> FALSE,
              ending |-> FALSE, help |-> FALSE, preview |-> FALSE, view |-> FALSE,
              armed |-> FALSE, term |-> FALSE, held |-> 0, line |-> <<>>, quit |-> FALSE]
  BY DEF Init
<1>2. /\ DOMAIN ui = UiFields /\ DOMAIN ui.in = Input /\ ui.focus = "sidebar" /\ ~ui.view
      /\ ~ui.confirm /\ ~ui.savePending /\ ~ui.delete /\ ~ui.ending /\ ~ui.help /\ ~ui.preview
      /\ \A i \in Input : ui.in[i] # "closed" => i = "connect"
  BY <1>1 DEF UiFields
<1>3. \A n \in OwnerNames : Open(ui, n) => n = "connect"
  BY <1>2 DEF OwnerNames, Open, Saving, DialogOpen, Focused, Input
<1>4. ops = {} /\ CallInv
  BY DEF Init, CallInv
<1>5. KeyInv(World)
  BY <1>2, <1>3, <1>4, WorldsAreShaped DEF KeyInv, Shape, OneOpen, FlightInv, HeldInView
<1> QED
  BY <1>4, <1>5 DEF KeyboardInv

(* The hosts are finitely many.                                            *)
LEMMA LiveIsFinite == IsFiniteSet(Live(World))
<1>1. PaneHosts = {Panes[i] : i \in 1 .. Len(Panes)} /\ Len(Panes) \in Nat /\ Panes \in [1 .. Len(Panes) -> PaneHosts]
  BY PanesAssumption DEF PaneHosts, ToSet
<1>2. Panes \in Surjection(1 .. Len(Panes), PaneHosts)
  BY <1>1 DEF Surjection
<1>3. IsFiniteSet(1 .. Len(Panes))
  BY <1>1, FS_Interval
<1>4. IsFiniteSet(PaneHosts)
  BY <1>2, <1>3, FS_Surjection, Zenon
<1> QED
  BY <1>4, FS_Subset DEF Live

(* Every step that is no stutter is a handler's, or the second part of a   *)
(* paste: it keeps the invariant and sends what the frame named, and what  *)
(* was counted.                                                            *)
SentAsCounted ==
  /\ out'.what \in {"text", "script"} /\ out'.to \subseteq AddressedIn(ui)
  /\ out'.what = "script" => Cardinality(out'.to \cap call.counted) <= 1

StepIsFaithful ==
  \/ out' = Silence
  \/ call = NoCall /\ Faithful(ui, out')
  \/ out'.what = "command" /\ ops' # ops
  \/ call # NoCall /\ SentAsCounted

LEMMA PasteIsFaithful ==
  ASSUME KeyboardInv, NEW n \in Pasted, Paste(n)
  PROVE  KeyboardInv' /\ StepIsFaithful
<1> DEFINE w == World
           count == Cardinality(Live(w))
           fresh == [w EXCEPT !.ui.armed = FALSE]
           held == [fresh EXCEPT !.ui.held = count]
           what == IF n > 1 THEN "script" ELSE "text"
<1>1. KeyInv(w) /\ w.out = Silence /\ w.ui = ui /\ OpenOwners(ui) = {} /\ call = NoCall
  BY WorldsAreShaped DEF KeyboardInv, Paste, Running
<1>2. CASE ui.focus = "grid" /\ Becomes(PasteToPane(w, n)) /\ UNCHANGED call
  <2> DEFINE v == PasteToPane(w, n)
  <2>1. Becomes(v)
    BY <1>2
  <2> HIDE DEF w
  <2>2. KeyInv(v) /\ Faithful(w.ui, v.out)
    BY <1>1, <1>2, PanePasteIsFaithful
  <2> HIDE DEF v
  <2> QED
    BY <1>1, <1>2, <2>1, <2>2, BecomesKeepsInv DEF Becomes, StepIsFaithful, KeyboardInv, CallInv
<1>3. CASE ui.focus = "bar" /\ ~ui.view /\ PasteToBroadcast(n)
  <2>1. \/ n > 1 /\ count > 1 /\ Becomes(held) /\ UNCHANGED call
        \/ ~(n > 1 /\ count > 1) /\ Becomes(fresh) /\ call' = [what |-> what, counted |-> Live(w)]
    BY <1>3 DEF PasteToBroadcast
  <2>2. IsFiniteSet(Live(w)) /\ count \in Nat /\ n \in Nat
    BY LiveIsFinite, FS_CardinalityType, PastedAssumption
  <2>3. what \in {"text", "script"} /\ (what = "script" => n > 1)
    OBVIOUS
  <2> HIDE DEF w, what
  <2>4. /\ KeyInv(fresh) /\ fresh.out = Silence
        /\ OpenOwners(fresh.ui) = {} /\ fresh.ui.focus = "bar" /\ ~fresh.ui.view
        /\ KeyInv(held) /\ held.out = Silence
    BY <1>1, <1>3, BarPasteIsSilent
  <2> HIDE DEF fresh, held
  <2>5. CASE Becomes(held) /\ UNCHANGED call
    BY <1>1, <2>4, <2>5, BecomesKeepsInv DEF Becomes, StepIsFaithful, KeyboardInv, CallInv
  <2>6. CASE ~(n > 1 /\ count > 1) /\ Becomes(fresh) /\ call' = [what |-> what, counted |-> Live(w)]
    <3>1. call'.what = what /\ call'.counted = Live(w) /\ (what = "script" => count <= 1)
      BY <2>2, <2>3, <2>6
    <3>2. CallInv'
      BY <2>2, <2>3, <2>4, <2>6, <3>1 DEF CallInv, Becomes
    <3> QED
      BY <2>4, <2>6, <3>2, BecomesKeepsInv DEF Becomes, StepIsFaithful, KeyboardInv
  <2> QED
    BY <2>1, <2>5, <2>6
<1> QED
  BY <1>2, <1>3 DEF Paste

LEMMA SendIsCounted ==
  ASSUME KeyboardInv, SendBroadcastRaw
  PROVE  KeyboardInv' /\ StepIsFaithful
<1> DEFINE w == World
           v == ToTargets(w, call.what)
<1>1. KeyInv(w) /\ w.ui = ui /\ call # NoCall /\ Becomes(v) /\ call' = NoCall
  BY WorldsAreShaped DEF KeyboardInv, SendBroadcastRaw
<1> HIDE DEF w
<1>2. Steady(w, v) /\ v.ui = w.ui /\ v.out.what = call.what /\ v.out.to \subseteq PaneHosts
  BY <1>1, TargetsAreOnScreen DEF KeyInv
<1>3. KeyInv(v)
  BY <1>1, <1>2, SteadyKeepsKeyInv
<1> HIDE DEF v
<1>4. KeyboardInv'
  BY <1>1, <1>3, BecomesKeepsInv DEF KeyboardInv, CallInv
<1>5. out'.what = call.what /\ out'.to \subseteq PaneHosts
  BY <1>1, <1>2 DEF Becomes
<1>6. /\ AddressedIn(ui) = PaneHosts /\ call.what \in {"text", "script"} /\ IsFiniteSet(call.counted)
      /\ call.what = "script" => Cardinality(call.counted) <= 1
  BY <1>1 DEF KeyboardInv, CallInv, AddressedIn
<1>7. /\ Cardinality(out'.to \cap call.counted) \in Nat /\ Cardinality(call.counted) \in Nat
      /\ Cardinality(out'.to \cap call.counted) <= Cardinality(call.counted)
  BY <1>6, FS_Subset, FS_CardinalityType
<1>8. SentAsCounted
  BY <1>5, <1>6, <1>7 DEF SentAsCounted
<1> QED
  BY <1>1, <1>4, <1>8 DEF StepIsFaithful

LEMMA NextIsFaithful ==
  KeyboardInv /\ Next => KeyboardInv' /\ StepIsFaithful
<1> SUFFICES ASSUME KeyboardInv, Next PROVE KeyboardInv' /\ StepIsFaithful
  OBVIOUS
<1>1. KeyInv(World) /\ World.out = Silence /\ World.ui = ui /\ World.ops = ops
  BY WorldsAreShaped DEF KeyboardInv
<1>2. ASSUME NEW k \in Keys, Press(k) PROVE KeyboardInv' /\ StepIsFaithful
  <2>1. PICK accepted \in BOOLEAN, told \in Told(k) : Becomes(HandleKey([World EXCEPT !.told = told], k, accepted))
    BY <1>2 DEF Press
  <2> DEFINE w == [World EXCEPT !.told = told]
             v == HandleKey(w, k, accepted)
  <2>2. KeyInv(w) /\ w.out = Silence /\ w.ui = ui
    BY <1>1, ToldIsAsked
  <2> HIDE DEF w
  <2>3. KeyInv(v) /\ Faithful(w.ui, v.out)
    BY <2>2, HandleKeyIsFaithful
  <2>4. Becomes(v) /\ call = NoCall /\ UNCHANGED call
    BY <1>2, <2>1 DEF w, Press, Running
  <2> HIDE DEF v
  <2> QED
    BY <2>2, <2>3, <2>4, BecomesKeepsInv DEF Becomes, StepIsFaithful, KeyboardInv, CallInv
<1>3. ASSUME NEW click \in Clicks, Click(click.at, click.drag) PROVE KeyboardInv' /\ StepIsFaithful
  <2> DEFINE w == World
             v == HandleClick(w, click.at, click.drag)
  <2>1. KeyInv(w) /\ w.out = Silence /\ Becomes(v) /\ call = NoCall /\ UNCHANGED call
    BY <1>1, <1>3 DEF Click, Running
  <2> HIDE DEF w
  <2>2. KeyInv(v) /\ v.out = Silence
    BY <2>1, ClickIsFaithful
  <2> HIDE DEF v
  <2> QED
    BY <2>1, <2>2, BecomesKeepsInv DEF Becomes, StepIsFaithful, KeyboardInv, CallInv
<1>4. ASSUME NEW op \in ops, Land(op) PROVE KeyboardInv' /\ StepIsFaithful
  <2>1. PICK result \in Results(op), told \in SUBSET PaneHosts :
          Becomes(HandleMsg([World EXCEPT !.ops = @ \ {op}, !.told = told], op, result))
    BY <1>4 DEF Land
  <2> DEFINE w == [World EXCEPT !.told = told]
             v == HandleMsg([w EXCEPT !.ops = @ \ {op}], op, result)
  <2>2. [World EXCEPT !.ops = @ \ {op}, !.told = told] = [w EXCEPT !.ops = @ \ {op}]
    BY DEF World
  <2>3. KeyInv(w) /\ w.out = Silence /\ w.ui = ui /\ w.ops = ops
    BY <1>1, ToldIsAsked
  <2>4. Becomes(v) /\ call = NoCall /\ UNCHANGED call
    BY <1>4, <2>1, <2>2 DEF Land, Running
  <2> HIDE DEF w
  <2>5. KeyInv(v) /\ v.ops # w.ops /\ (v.out = Silence \/ v.out.what = "command")
    BY <2>3, ResultIsFaithful
  <2> HIDE DEF v
  <2> QED
    BY <2>3, <2>4, <2>5, BecomesKeepsInv DEF Becomes, StepIsFaithful, KeyboardInv, CallInv
<1>5. ASSUME NEW h \in PaneHosts, FleetMoves(h) PROVE KeyboardInv' /\ StepIsFaithful
  <2>1. ui' = ui /\ ops' = ops /\ out' = Silence /\ call' = call
    BY <1>5 DEF FleetMoves, Becomes, World
  <2>2. World'.ui = ui' /\ World'.ops = ops' /\ DOMAIN World' = {"host", "ui", "log", "ops", "out", "told"}
    BY DEF World
  <2>3. KeyInv(World)'
    BY <1>1, <2>1, <2>2 DEF KeyInv, Shape, FlightInv
  <2> QED
    BY <2>1, <2>3 DEF KeyboardInv, CallInv, StepIsFaithful
<1> QED
  BY <1>2, <1>3, <1>4, <1>5, PasteIsFaithful, SendIsCounted DEF Next

LEMMA KeyboardInvariant == Spec => []KeyboardInv
<1>1. KeyboardInv /\ [Next]_vars => KeyboardInv'
  <2>1. KeyboardInv /\ UNCHANGED vars => KeyboardInv'
    BY DEF KeyboardInv, CallInv, vars, World, KeyInv, Shape, FlightInv
  <2> QED
    BY <2>1, NextIsFaithful
<1> QED
  BY <1>1, InitKeyInv, PTL DEF Spec

(* Of all prompts, questions and overlays at most one listens and it is    *)
(* the one drawn; the box whose write is in flight keeps the keyboard      *)
(* (handleKey's guard chain, activeModal, handleSaveKey, handleDialogKey). *)
THEOREM BoxesTakeTurns == Spec => []OneListener
<1>1. KeyboardInv => OneListener
  <2> SUFFICES ASSUME KeyboardInv PROVE OneListener
    OBVIOUS
  <2>1. OneOpen(ui) /\ FlightInv(ui, ops)
    BY WorldsAreShaped DEF KeyboardInv, KeyInv
  <2>2. Cardinality(OpenOwners(ui)) <= 1
    <3>1. CASE OpenOwners(ui) = {}
      BY <3>1, FS_EmptySet
    <3>2. CASE OpenOwners(ui) # {}
      <4>1. PICK i : OpenOwners(ui) = {i}
        BY <2>1, <3>2, OwnerListens
      <4> QED
        BY <4>1, FS_Singleton
    <3> QED
      BY <3>1, <3>2
  <2>3. \A n \in OwnerNames : Open(ui, n) => Owner(ui) = n
    BY <2>1, OwnerListens, NobodyListens
  <2>4. Drawn(ui) # "none" => Drawn(ui) \in OwnerNames /\ Open(ui, Drawn(ui))
    BY DEF Drawn, OwnerNames, Open, Saving
  <2>5. InFlight("save") \/ InFlight("overwrite") => Open(ui, "save") /\ ui.savePending
    BY <2>1 DEF InFlight, FlightInv, Open, Saving
  <2>6. InFlight("create") => Open(ui, "dialog") /\ ui.saving
    BY <2>1 DEF InFlight, FlightInv, Open
  <2> QED
    BY <2>2, <2>3, <2>4, <2>5, <2>6 DEF OneListener, OwnerNames
<1> QED
  BY <1>1, KeyboardInvariant, PTL

(* Whatever is pressed, pasted or clicked, in whatever mode: a keystroke   *)
(* reaches only hosts the frame named, a command comes out of the command  *)
(* line or of a request of the log panel, a log-out out of its question    *)
(* (handleKey, handlePaste, promptOwnsKeyboard).                           *)
THEOREM KeysStayWithTheirHosts == Spec => KeysReachOnlyTheirHosts
<1> DEFINE A == /\ out'.what \in {"key", "text", "script"} => out'.to \subseteq Addressed
                /\ out'.what = "command" => Focused(ui, "command") \/ ops' # ops
                /\ out'.what = "end" => ui.ending
<1>1. KeyboardInv /\ Next => A
  BY NextIsFaithful DEF StepIsFaithful, SentAsCounted, Faithful, Silence, Addressed, AddressedIn
<1>2. KeyboardInv /\ [Next]_vars => [A]_vars
  BY <1>1
<1> QED
  BY <1>2, KeyboardInvariant, PTL DEF Spec, KeysReachOnlyTheirHosts

(* A script for several hosts has been held in the bar, and the bar has the*)
(* focus and the keyboard when it goes out; or it was counted for one host *)
(* at most, and what is more connected between the count and the send      *)
(* (pasteToBroadcast, resolvePendingPaste, Router.Send).                   *)
THEOREM PastesAreReviewed == Spec => PasteIsReviewed
<1> DEFINE A == ReleasesScript =>
                  IF call = NoCall THEN ui.held > 0 /\ ui.focus = "bar" /\ OpenOwners(ui) = {}
                  ELSE Cardinality(out'.to \cap call.counted) <= 1
<1>1. KeyboardInv /\ Next => A
  BY NextIsFaithful DEF StepIsFaithful, SentAsCounted, Faithful, Silence, ReleasesScript
<1>2. KeyboardInv /\ [Next]_vars => [A]_vars
  BY <1>1
<1> QED
  BY <1>2, KeyboardInvariant, PTL DEF Spec, PasteIsReviewed
=============================================================================
