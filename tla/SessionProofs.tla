--------------------------- MODULE SessionProofs ---------------------------
(***************************************************************************)
(* Proofs about one session, for every queue depth, every event buffer and *)
(* every set of writers, chunks and sizes: the session implements its      *)
(* stdin queue, a finished session stays finished, and a connected one is  *)
(* usable.                                                                 *)
(***************************************************************************)
EXTENDS Session, TLAPS

(* The shutdown signal is closed by Close's first step and by no other.    *)
SignalInv == closed = (close # "idle")

(* There is no shell before Start has asked for one.                       *)
ShellInv ==
  start \in {"idle", "dialing", "handshake", "opening", "shelling"} => shell = "none"

(* Start fails before there is anything to wait for, so nobody waits for   *)
(* the end of a session that failed already.                               *)
FailureInv ==
  /\ waiter # "off" => start = "returned"
  /\ state = "failed" => start = "returned" /\ waiter \in {"off", "done"}

(* What Start has set by the time it announces the session, unless Close   *)
(* has taken it back.                                                      *)
WiringInv ==
  close \in {"idle", "begun"} =>
    /\ start \in {"wiring", "piping", "registering", "announcing", "watching"} => input
    /\ start \in {"announcing", "watching"} => handle

IInv == SignalInv /\ ShellInv /\ FailureInv /\ WiringInv /\ ConnectedIsUsable

-----------------------------------------------------------------------------
(* The steps in groups: Start's, the remote end's, Close's, and the ones   *)
(* that touch neither the state nor what Start has set.                    *)
FailStep == \E from \in {"idle", "dialing", "handshake", "opening", "shelling"} : Fails(from)

EarlyStep == StartDials \/ DialSucceeds \/ HandshakeSucceeds \/ RequestsPty

LateStep == SpawnsPumps \/ Registers \/ Announces \/ SpawnsWaiter

CloseQuietly == CloseTakes \/ CloseJoins \/ CloseLooks \/ CloseReleases \/ CloseSettles

OtherStep ==
  \/ \E s \in Stream : PumpReads(s) \/ PumpEnds(s)
  \/ ReleaseTerminal
  \/ \E sz \in Size : Resizes(sz)
  \/ WindowChanges \/ UIDrains

TypingStep == QueueOnly /\ (Queue!RunTakes \/ Queue!RunStops \/ Queue!RunWrites \/ Queue!RunFails
                            \/ \E w \in Writer : \/ \E c \in Chunk : Queue!WriteChecks(w, c)
                                                 \/ Queue!WriteEnqueues(w)
                                                 \/ Queue!WriteRefused(w))

(* Every step belongs to a group.                                          *)
LEMMA StepGroups ==
  ASSUME Next
  PROVE  \/ FailStep \/ EarlyStep \/ ShellRuns \/ SpawnsDrain \/ LateStep
         \/ WaitReturns \/ ReportsExit
         \/ CloseBegins \/ CloseQuietly \/ CloseTearsDown
         \/ OtherStep \/ TypingStep
         \/ RemoteExits \/ TransportLost
<1>1. ASSUME NEW w \in Writer, Writes(w) PROVE TypingStep
  BY <1>1 DEF Writes, TypingStep
<1>2. Drains => TypingStep
  BY DEF Drains, TypingStep
<1>3. StartStep => FailStep \/ EarlyStep \/ ShellRuns \/ SpawnsDrain \/ LateStep
  BY DEF StartStep, FailStep, EarlyStep, LateStep, StartRefuses, DialFails, HandshakeFails, OpenFails
<1>4. CloseStep => CloseQuietly \/ CloseTearsDown
  BY DEF CloseStep, CloseQuietly
<1>5. (\E s \in Stream : PumpReads(s) \/ PumpEnds(s)) \/ ReleaseTerminal
        \/ (\E sz \in Size : Resizes(sz)) \/ WindowChanges \/ UIDrains
      => OtherStep
  BY DEF OtherStep
<1> QED
  BY <1>1, <1>2, <1>3, <1>4, <1>5 DEF Next

-----------------------------------------------------------------------------
(* A step of the queue's goroutines that concerns nothing else.            *)
LEMMA QueueStepImplements ==
  ASSUME QueueOnly, Queue!QueueStep
  PROVE  Queue!Next
BY DEF QueueOnly, Queue!Next, Over, fieldVars, netVars

(* Steps that leave the queue, its shutdown signal and its channel alone.  *)
LEMMA OthersKeepQueue ==
  ASSUME FailStep \/ EarlyStep \/ LateStep \/ WaitReturns \/ ReportsExit \/ CloseQuietly \/ OtherStep
  PROVE  UNCHANGED <<queueVars, closed, shell>>
<1>1. FailStep => UNCHANGED <<queueVars, closed, shell>>
  BY DEF FailStep, Fails, fieldVars
<1>2. EarlyStep => UNCHANGED <<queueVars, closed, shell>>
  BY DEF EarlyStep, StartDials, DialSucceeds, HandshakeSucceeds, RequestsPty, fieldVars, netVars
<1>3. LateStep => UNCHANGED <<queueVars, closed, shell>>
  BY DEF LateStep, SpawnsPumps, Registers, Announces, SpawnsWaiter, fieldVars, netVars
<1>4. WaitReturns \/ ReportsExit => UNCHANGED <<queueVars, closed, shell>>
  BY DEF WaitReturns, ReportsExit, fieldVars, netVars
<1>5. CloseQuietly => UNCHANGED <<queueVars, closed, shell>>
  BY DEF CloseQuietly, CloseTakes, CloseJoins, CloseLooks, CloseReleases, CloseSettles, fieldVars, netVars
<1>6. OtherStep => UNCHANGED <<queueVars, closed, shell>>
  BY DEF OtherStep, PumpReads, PumpEnds, ReleaseTerminal, Resizes, WindowChanges, UIDrains,
         fieldVars, netVars
<1> QED
  BY <1>1, <1>2, <1>3, <1>4, <1>5, <1>6

(* Every step is one of the queue, closes its shutdown signal, takes its   *)
(* channel away, or does not concern it.                                   *)
LEMMA StepImplements ==
  ASSUME SignalInv, ShellInv, Next
  PROVE  [Queue!Next]_(Queue!vars)
<1>1. UNCHANGED <<queueVars, closed, shell>> => UNCHANGED Queue!vars
  BY DEF Over, queueVars, Queue!vars, Queue!queueVars
<1>2. UNCHANGED <<queueVars, closed>> /\ ~Over /\ Over' => Queue!LinkFails
  BY DEF Queue!LinkFails, queueVars, Queue!queueVars
<1>3. UNCHANGED <<queueVars, closed>> /\ (Over' <=> Over) => UNCHANGED Queue!vars
  BY DEF queueVars, Queue!vars, Queue!queueVars
<1>4. CASE ShellRuns
  <2>1. ~Over /\ ~Over' /\ UNCHANGED <<queueVars, closed>>
    BY <1>4 DEF ShellRuns, ShellInv, Goto, Over
  <2> QED
    BY <1>3, <2>1
<1>5. CASE SpawnsDrain
  BY <1>5, QueueStepImplements DEF SpawnsDrain, Queue!QueueStep, Queue!Next, Over, fieldVars, netVars
<1>6. CASE CloseBegins
  BY <1>6 DEF CloseBegins, CloseGoto, SignalInv, Queue!Shutdown, Queue!Next, Over, netVars,
              queueVars, Queue!queueVars
<1>7. CASE CloseTearsDown \/ RemoteExits \/ TransportLost
  <2>1. UNCHANGED <<queueVars, closed>>
    BY <1>7 DEF CloseTearsDown, RemoteExits, TransportLost, fieldVars
  <2>2. shell' = shell \/ (~Over /\ Over')
    BY <1>7 DEF CloseTearsDown, RemoteExits, TransportLost, Over
  <2> QED
    BY <1>1, <1>2, <2>1, <2>2 DEF Queue!Next
<1>8. CASE TypingStep
  BY <1>8, QueueStepImplements DEF TypingStep, Queue!QueueStep
<1> QED
  BY <1>1, <1>4, <1>5, <1>6, <1>7, <1>8, OthersKeepQueue, StepGroups

-----------------------------------------------------------------------------
LEMMA InitIInv == Init => IInv
BY DEF Init, IInv, SignalInv, ShellInv, FailureInv, WiringInv, ConnectedIsUsable

(* The first steps of Start, and its failures: nothing is set yet, and no  *)
(* session is said to be connected.                                        *)
LEMMA StartKeepsIInv ==
  ASSUME IInv, FailStep \/ EarlyStep
  PROVE  IInv'
<1> USE DEF IInv
<1>1. UNCHANGED <<closed, close, input, handle, waiter>>
  BY DEF FailStep, Fails, EarlyStep, StartDials, DialSucceeds, HandshakeSucceeds, RequestsPty, fieldVars
<1>2. start \in {"idle", "dialing", "handshake", "opening", "shelling"} /\ UNCHANGED shell
  BY DEF FailStep, Fails, EarlyStep, StartDials, DialSucceeds, HandshakeSucceeds, RequestsPty,
         Goto, netVars
<1>3. start' \in {"dialing", "handshake", "opening", "shelling"} \/ start' = "returned"
  BY DEF FailStep, Fails, EarlyStep, StartDials, DialSucceeds, HandshakeSucceeds, RequestsPty, Goto
<1>4. state' = state \/ state' \in {"dialing", "authenticating"}
        \/ (start' = "returned" /\ state' = "failed")
  BY DEF FailStep, Fails, EarlyStep, StartDials, DialSucceeds, HandshakeSucceeds, RequestsPty,
         SetState, Goto
<1>5. waiter = "off" /\ state # "failed"
  BY <1>2 DEF FailureInv
<1>6. SignalInv' /\ ShellInv'
  BY <1>1, <1>2 DEF SignalInv, ShellInv
<1>7. FailureInv'
  BY <1>1, <1>3, <1>4, <1>5 DEF FailureInv
<1>8. WiringInv'
  BY <1>1, <1>3 DEF WiringInv
<1>9. ConnectedIsUsable'
  BY <1>1, <1>4 DEF ConnectedIsUsable
<1> QED
  BY <1>6, <1>7, <1>8, <1>9

(* The rest of Start.                                                      *)
LEMMA WiringKeepsIInv ==
  ASSUME IInv, ShellRuns \/ SpawnsDrain \/ LateStep
  PROVE  IInv'
<1> USE DEF IInv
<1>1. UNCHANGED <<closed, close>> /\ (UNCHANGED input \/ input')  /\ (UNCHANGED handle \/ handle')
  BY DEF ShellRuns, SpawnsDrain, LateStep, SpawnsPumps, Registers, Announces, SpawnsWaiter, fieldVars
<1>2. start \in {"shelling", "wiring", "piping", "registering", "announcing", "watching"}
      /\ start' \in {"wiring", "piping", "registering", "announcing", "watching", "returned"}
  BY DEF ShellRuns, SpawnsDrain, LateStep, SpawnsPumps, Registers, Announces, SpawnsWaiter, Goto
<1>3. state' = state \/ (start = "announcing" /\ start' = "watching" /\ state' = "connected")
  BY DEF ShellRuns, SpawnsDrain, LateStep, SpawnsPumps, Registers, Announces, SpawnsWaiter, SetState, Goto
<1>4. waiter' = waiter \/ (start' = "returned" /\ waiter' = "waiting")
  BY DEF ShellRuns, SpawnsDrain, LateStep, SpawnsPumps, Registers, Announces, SpawnsWaiter, Goto
<1>5. state # "failed" /\ waiter = "off"
  BY <1>2 DEF FailureInv
<1>6. SignalInv' /\ ShellInv'
  BY <1>1, <1>2 DEF SignalInv, ShellInv
<1>7. FailureInv'
  BY <1>3, <1>4, <1>5 DEF FailureInv
<1>8. WiringInv'
  <2>1. \/ start = "shelling" /\ start' = "wiring" /\ input'
        \/ start \in {"wiring", "piping"} /\ start' \in {"piping", "registering"} /\ UNCHANGED input
        \/ start = "registering" /\ start' = "announcing" /\ UNCHANGED input /\ handle'
        \/ start = "announcing" /\ start' = "watching" /\ UNCHANGED <<input, handle>>
        \/ start = "watching" /\ start' = "returned"
    BY DEF ShellRuns, SpawnsDrain, LateStep, SpawnsPumps, Registers, Announces, SpawnsWaiter, Goto, fieldVars
  <2> QED
    BY <1>1, <2>1 DEF WiringInv
<1>9. ConnectedIsUsable'
  BY <1>1, <1>3 DEF WiringInv, ConnectedIsUsable
<1> QED
  BY <1>6, <1>7, <1>8, <1>9

(* The end of the shell is reported once, by a waiter whose session did    *)
(* not fail before.                                                        *)
LEMMA WaiterKeepsIInv ==
  ASSUME IInv, WaitReturns \/ ReportsExit
  PROVE  IInv'
<1> USE DEF IInv
<1>1. UNCHANGED <<closed, close, input, handle, start, shell>>
  BY DEF WaitReturns, ReportsExit, fieldVars, netVars
<1>2. \/ waiter = "waiting" /\ waiter' \in {"done", "reporting"} /\ UNCHANGED state
      \/ waiter = "reporting" /\ waiter' = "done" /\ (state' = state \/ state' \in {"closed", "failed"})
  BY DEF WaitReturns, ReportsExit, SetState
<1>3. FailureInv'
  BY <1>1, <1>2 DEF FailureInv
<1>4. ConnectedIsUsable'
  BY <1>1, <1>2 DEF ConnectedIsUsable
<1> QED
  BY <1>1, <1>3, <1>4 DEF SignalInv, ShellInv, WiringInv

(* Close takes back what Start has set only when it is past its beginning. *)
LEMMA CloseKeepsIInv ==
  ASSUME IInv, CloseBegins \/ CloseQuietly \/ CloseTearsDown
  PROVE  IInv'
<1> USE DEF IInv
<1>1. UNCHANGED <<start, waiter>>
  BY DEF CloseBegins, CloseQuietly, CloseTakes, CloseJoins, CloseLooks, CloseReleases, CloseSettles, CloseTearsDown
<1>2. \/ close = "idle" /\ close' = "begun" /\ closed' /\ UNCHANGED <<input, handle, state>>
      \/ close # "idle" /\ close' \notin {"idle", "begun"} /\ UNCHANGED closed
  BY DEF CloseBegins, CloseQuietly, CloseTakes, CloseJoins, CloseLooks, CloseReleases, CloseSettles, CloseTearsDown,
         CloseGoto, fieldVars
<1>3. state' = state \/ state' = "closed"
  BY DEF CloseBegins, CloseQuietly, CloseTakes, CloseJoins, CloseLooks, CloseReleases, CloseSettles, CloseTearsDown
<1>4. shell' = shell \/ shell = "running"
  BY DEF CloseBegins, CloseQuietly, CloseTakes, CloseJoins, CloseLooks, CloseReleases, CloseSettles, CloseTearsDown,
         netVars
<1>5. SignalInv'
  <2>1. closed' = TRUE /\ close' # "idle"
    BY <1>2 DEF CloseBegins, SignalInv, CloseGoto
  <2> QED
    BY <2>1 DEF SignalInv
<1> QED
  BY <1>1, <1>2, <1>3, <1>4, <1>5 DEF ShellInv, FailureInv, WiringInv, ConnectedIsUsable

(* The remaining steps concern none of it.                                 *)
LEMMA OthersKeepIInv ==
  ASSUME IInv, OtherStep \/ TypingStep \/ RemoteExits \/ TransportLost \/ UNCHANGED vars
  PROVE  IInv'
<1> USE DEF IInv
<1>1. UNCHANGED <<closed, close, input, handle, start, state, waiter>>
  BY DEF OtherStep, PumpReads, PumpEnds, ReleaseTerminal, Resizes, WindowChanges, UIDrains,
         TypingStep, QueueOnly, RemoteExits, TransportLost, fieldVars, vars
<1>2. shell' = shell \/ shell = "running"
  BY DEF OtherStep, PumpReads, PumpEnds, ReleaseTerminal, Resizes, WindowChanges, UIDrains,
         TypingStep, QueueOnly, RemoteExits, TransportLost, netVars, vars
<1> QED
  BY <1>1, <1>2 DEF SignalInv, ShellInv, FailureInv, WiringInv, ConnectedIsUsable

LEMMA NextIInv == IInv /\ [Next]_vars => IInv'
BY StepGroups, StartKeepsIInv, WiringKeepsIInv, WaiterKeepsIInv, CloseKeepsIInv, OthersKeepIInv

-----------------------------------------------------------------------------
(* Every session that Start announces as connected, and that nobody is     *)
(* closing, has a stdin and a client, whatever the constants.              *)
LEMMA ConnectedSessionIsUsable == Spec => []ConnectedIsUsable
<1>1. IInv => ConnectedIsUsable
  BY DEF IInv
<1> QED
  BY InitIInv, NextIInv, <1>1, PTL DEF Spec

(* A session that failed or closed never changes its state again.          *)
THEOREM FinalState == Spec => FinalStateSticks
<1>1. ASSUME IInv, [Next]_vars PROVE [Done(state) => state' = state]_vars
  <2> SUFFICES ASSUME Next, Done(state) PROVE state' = state
    BY <1>1
  <2>1. CASE FailStep \/ EarlyStep
    BY <2>1 DEF FailStep, Fails, EarlyStep, StartDials, DialSucceeds, HandshakeSucceeds, RequestsPty,
                SetState, Done
  <2>2. CASE ShellRuns \/ SpawnsDrain \/ LateStep
    BY <2>2 DEF ShellRuns, SpawnsDrain, LateStep, SpawnsPumps, Registers, Announces, SpawnsWaiter,
                SetState, Done
  <2>3. CASE WaitReturns \/ ReportsExit
    BY <1>1, <2>3 DEF IInv, FailureInv, WaitReturns, ReportsExit, SetState, Done
  <2>4. CASE CloseBegins \/ CloseQuietly \/ CloseTearsDown
    BY <2>4 DEF CloseBegins, CloseQuietly, CloseTakes, CloseJoins, CloseLooks, CloseReleases, CloseSettles,
                CloseTearsDown, Done
  <2>5. CASE OtherStep \/ TypingStep \/ RemoteExits \/ TransportLost
    BY <2>5 DEF OtherStep, PumpReads, PumpEnds, ReleaseTerminal, Resizes, WindowChanges, UIDrains,
                TypingStep, QueueOnly, RemoteExits, TransportLost
  <2> QED
    BY <2>1, <2>2, <2>3, <2>4, <2>5, StepGroups
<1> QED
  BY InitIInv, NextIInv, <1>1, PTL DEF Spec, FinalStateSticks

(* The session implements its stdin queue: Start, Close and the remote end *)
(* do to it only what the queue's own specification allows, so everything  *)
(* proved of the queue holds inside every session.                         *)
THEOREM ImplementsQueue == Spec => QueueContract
<1>1. Init => Queue!Init
  BY DEF Init, Queue!Init, Over
<1>2. ASSUME IInv, [Next]_vars PROVE [Queue!Next]_(Queue!vars)
  <2>1. CASE Next
    BY <1>2, <2>1, StepImplements DEF IInv
  <2>2. CASE UNCHANGED vars
    BY <2>2 DEF vars, netVars, fieldVars, queueVars, Over, Queue!vars, Queue!queueVars
  <2> QED
    BY <1>2, <2>1, <2>2
<1> QED
  BY InitIInv, NextIInv, <1>1, <1>2, PTL DEF Spec, QueueContract, Queue!Spec

(* The theorems about the queue, read for the queue inside a session.      *)
QueueProofs == INSTANCE StdinQueueProofs WITH link <- IF Over THEN "down" ELSE "up"

LEMMA QueueProofsApply ==
  Spec => []QueueProofs!BytesInOrder
<1>1. QueueProofs!Spec => []QueueProofs!BytesInOrder
  BY QueueProofs!QueueOrder, QueueAssumption
<1>2. Queue!Init => QueueProofs!Init
  BY DEF Queue!Init, Queue!InitQueue, QueueProofs!Init, QueueProofs!InitQueue
<1>3. [Queue!Next]_(Queue!vars) => [QueueProofs!Next]_(QueueProofs!vars)
  <2>1. Queue!QueueStep => QueueProofs!QueueStep
    BY DEF Queue!QueueStep, QueueProofs!QueueStep,
           Queue!WriteChecks, Queue!WriteEnqueues, Queue!WriteRefused, Queue!RunStarts,
           Queue!RunTakes, Queue!RunStops, Queue!RunWrites, Queue!RunFails,
           QueueProofs!WriteChecks, QueueProofs!WriteEnqueues, QueueProofs!WriteRefused, QueueProofs!RunStarts,
           QueueProofs!RunTakes, QueueProofs!RunStops, QueueProofs!RunWrites, QueueProofs!RunFails
  <2> QED
    BY <2>1 DEF Queue!Next, Queue!Shutdown, Queue!LinkFails, Queue!vars, Queue!queueVars,
                QueueProofs!Next, QueueProofs!Shutdown, QueueProofs!LinkFails, QueueProofs!vars,
                QueueProofs!queueVars
<1> QED
  BY ImplementsQueue, <1>1, <1>2, <1>3, PTL DEF QueueContract, Queue!Spec, QueueProofs!Spec

(* So what is typed into a session reaches its host in order, without gaps *)
(* or repetitions, wherever Start and Close are.                           *)
THEOREM SessionKeepsOrder == Spec => [](Queue!NothingSkipped /\ Queue!WireIsPrefix)
<1>1. QueueProofs!BytesInOrder => Queue!NothingSkipped /\ Queue!WireIsPrefix
  BY DEF Queue!NothingSkipped, Queue!WireIsPrefix, Queue!InHand,
         QueueProofs!BytesInOrder, QueueProofs!NothingSkipped, QueueProofs!WireIsPrefix, QueueProofs!InHand
<1> QED
  BY QueueProofsApply, <1>1, PTL

-----------------------------------------------------------------------------
(* The types of what the session keeps outside its queue.                  *)
OwnTypes ==
  /\ state \in {"pending", "dialing", "authenticating", "connected", "failed", "closed"}
  /\ start \in StartPC
  /\ close \in {"idle", "begun", "tearing", "joining", "joined", "releasing", "settling", "returned"}
  /\ {closed, grabbed, handle, input, released, resizer} \subseteq BOOLEAN
  /\ conn \in {"none", "open", "closed"}
  /\ shell \in {"none", "running", "exited", "lost"}
  /\ pumps \subseteq Stream
  /\ waiter \in {"off", "waiting", "reporting", "done"}
  /\ emu \in {"open", "closed"}
  /\ size \in Size /\ pty \in Size

EventTypes == events \in Seq({"state", "output"}) /\ Len(events) \in 0 .. EventBuffer

LEMMA EmitKeepsEventTypes ==
  ASSUME EventTypes, NEW kind \in {"state", "output"}, Emit(kind)
  PROVE  EventTypes'
BY EventBufferAssumption DEF EventTypes, Emit

(* The event channel: one more hint if it fits, or the UI empties it.      *)
LEMMA StepKeepsEventTypes ==
  ASSUME EventTypes, [Next]_vars
  PROVE  EventTypes'
<1>1. UNCHANGED events \/ events' = <<>> \/ (\E kind \in {"state", "output"} : Emit(kind))
  <2>1. CASE FailStep \/ EarlyStep
    BY <2>1 DEF FailStep, Fails, EarlyStep, StartDials, DialSucceeds, HandshakeSucceeds, RequestsPty, SetState
  <2>2. CASE ShellRuns \/ SpawnsDrain \/ LateStep
    BY <2>2 DEF ShellRuns, SpawnsDrain, LateStep, SpawnsPumps, Registers, Announces, SpawnsWaiter, SetState
  <2>3. CASE WaitReturns \/ ReportsExit
    BY <2>3 DEF WaitReturns, ReportsExit, SetState
  <2>4. CASE CloseBegins \/ CloseQuietly \/ CloseTearsDown
    BY <2>4 DEF CloseBegins, CloseQuietly, CloseTakes, CloseJoins, CloseLooks, CloseReleases, CloseSettles, CloseTearsDown
  <2>5. CASE OtherStep
    BY <2>5 DEF OtherStep, PumpReads, PumpEnds, ReleaseTerminal, Resizes, WindowChanges, UIDrains
  <2>6. CASE TypingStep \/ RemoteExits \/ TransportLost \/ UNCHANGED vars
    BY <2>6 DEF TypingStep, QueueOnly, RemoteExits, TransportLost, vars
  <2> QED
    BY <2>1, <2>2, <2>3, <2>4, <2>5, <2>6, StepGroups
<1>2. CASE events' = <<>>
  BY <1>2, EventBufferAssumption DEF EventTypes
<1> QED
  BY <1>1, <1>2, EmitKeepsEventTypes DEF EventTypes

LEMMA StepKeepsOwnTypes ==
  ASSUME OwnTypes, [Next]_vars
  PROVE  OwnTypes'
<1> USE DEF OwnTypes, fieldVars, netVars, sizeVars, emuVars
<1>1. CASE FailStep \/ EarlyStep
  BY <1>1 DEF FailStep, Fails, EarlyStep, StartDials, DialSucceeds, HandshakeSucceeds, RequestsPty,
              SetState, Goto, StartPC
<1>2. CASE ShellRuns \/ SpawnsDrain \/ LateStep
  BY <1>2 DEF ShellRuns, SpawnsDrain, LateStep, SpawnsPumps, Registers, Announces, SpawnsWaiter,
              SetState, Goto, StartPC
<1>3. CASE WaitReturns \/ ReportsExit
  BY <1>3 DEF WaitReturns, ReportsExit, SetState
<1>4. CASE CloseBegins \/ CloseQuietly \/ CloseTearsDown
  BY <1>4 DEF CloseBegins, CloseQuietly, CloseTakes, CloseJoins, CloseLooks, CloseReleases, CloseSettles,
              CloseTearsDown, CloseGoto
<1>5. CASE OtherStep
  BY <1>5 DEF OtherStep, PumpReads, PumpEnds, ReleaseTerminal, Resizes, WindowChanges, UIDrains
<1>6. CASE TypingStep \/ RemoteExits \/ TransportLost \/ UNCHANGED vars
  BY <1>6 DEF TypingStep, QueueOnly, RemoteExits, TransportLost, vars
<1> QED
  BY <1>1, <1>2, <1>3, <1>4, <1>5, <1>6, StepGroups

(* A session keeps its types, those of its queue included, for any queue   *)
(* depth and any event buffer: neither channel ever holds more than fits.  *)
LEMMA SessionTypes == Spec => []TypeOK
<1>1. Init => OwnTypes /\ EventTypes
  <2>1. Init => OwnTypes
    BY DEF Init, OwnTypes, StartPC
  <2>2. <<>> \in Seq({"state", "output"}) /\ Len(<<>>) \in 0 .. EventBuffer
    BY EventBufferAssumption
  <2> QED
    BY <2>1, <2>2 DEF Init, EventTypes
<1>2. OwnTypes /\ EventTypes /\ [Next]_vars => (OwnTypes /\ EventTypes)'
  BY StepKeepsOwnTypes, StepKeepsEventTypes
<1>3. OwnTypes /\ EventTypes /\ Queue!TypeOK => TypeOK
  BY DEF OwnTypes, EventTypes, TypeOK
<1>4. QueueProofs!BytesInOrder => Queue!TypeOK
  BY DEF QueueProofs!BytesInOrder, QueueProofs!TypeOK, Queue!TypeOK
<1> QED
  BY QueueProofsApply, <1>1, <1>2, <1>3, <1>4, PTL DEF Spec

-----------------------------------------------------------------------------
(* What a Close that found the client can count on: Start has spawned what *)
(* it spawns and will not spawn it again, the connection once closed stays *)
(* closed, and goroutines that have ended do not come back.                *)
SpawnedInv ==
  /\ start \in StartPC \ {"idle", "dialing", "returned"} => conn # "none"
  /\ start \in {"piping", "registering", "announcing", "watching"} => drain # "off"
  /\ handle \/ grabbed => /\ start \in {"announcing", "watching", "returned"}
                         /\ drain # "off" /\ conn # "none"

TornDownInv ==
  /\ grabbed /\ close \in {"joining", "joined", "releasing", "settling", "returned"} => conn = "closed"
  /\ grabbed /\ close \in {"joined", "releasing", "settling", "returned"} => drain = "exited" /\ pumps = {}
  /\ close \in {"settling", "returned"} => emu = "closed" \/ released

ReleaseInv == SpawnedInv /\ TornDownInv

LEMMA InitReleaseInv == Init => ReleaseInv
BY DEF Init, ReleaseInv, SpawnedInv, TornDownInv

(* Start's steps up to the running shell, and its failures: no Close has   *)
(* found a client yet.                                                     *)
LEMMA StartKeepsReleaseInv ==
  ASSUME ReleaseInv, FailStep \/ EarlyStep \/ ShellRuns
  PROVE  ReleaseInv'
<1> USE DEF ReleaseInv
<1>1. UNCHANGED <<close, handle, grabbed, emu, released, drain, pumps>>
  BY DEF FailStep, Fails, EarlyStep, StartDials, DialSucceeds, HandshakeSucceeds, RequestsPty, ShellRuns,
         fieldVars, emuVars, queueVars
<1>2. start \notin {"announcing", "watching", "returned"}
      /\ start' \in {"dialing", "handshake", "opening", "shelling", "wiring", "returned"}
  BY DEF FailStep, Fails, EarlyStep, StartDials, DialSucceeds, HandshakeSucceeds, RequestsPty, ShellRuns, Goto
<1>3. ~handle /\ ~grabbed
  BY <1>2 DEF SpawnedInv
<1>4. start' \in {"handshake", "opening", "shelling", "wiring"} => conn' # "none"
  BY DEF FailStep, Fails, EarlyStep, StartDials, DialSucceeds, HandshakeSucceeds, RequestsPty, ShellRuns,
         Goto, netVars
<1>5. SpawnedInv'
  BY <1>1, <1>2, <1>3, <1>4 DEF SpawnedInv, StartPC
<1>6. TornDownInv'
  BY <1>1, <1>3 DEF TornDownInv
<1> QED
  BY <1>5, <1>6

(* The rest of Start.                                                      *)
LEMMA WiringKeepsReleaseInv ==
  ASSUME ReleaseInv, SpawnsDrain \/ LateStep
  PROVE  ReleaseInv'
<1> USE DEF ReleaseInv
<1>1. UNCHANGED <<close, grabbed, emu, released, conn>>
  BY DEF SpawnsDrain, LateStep, SpawnsPumps, Registers, Announces, SpawnsWaiter, fieldVars, emuVars, netVars
<1>2. \/ start = "wiring" /\ start' = "piping" /\ drain' = "select" /\ UNCHANGED <<handle, pumps>>
      \/ start = "piping" /\ start' = "registering" /\ UNCHANGED <<handle, drain>>
      \/ start = "registering" /\ start' = "announcing" /\ UNCHANGED <<pumps, drain>>
      \/ start = "announcing" /\ start' = "watching" /\ UNCHANGED <<handle, pumps, drain>>
      \/ start = "watching" /\ start' = "returned" /\ UNCHANGED <<handle, pumps, drain>>
  BY DEF SpawnsDrain, Queue!RunStarts, LateStep, SpawnsPumps, Registers, Announces, SpawnsWaiter, Goto,
         fieldVars, queueVars
<1>3. SpawnedInv'
  BY <1>1, <1>2 DEF SpawnedInv, StartPC
<1>4. TornDownInv'
  BY <1>1, <1>2 DEF TornDownInv, SpawnedInv
<1> QED
  BY <1>3, <1>4

(* Close, step by step.                                                    *)
LEMMA CloseKeepsReleaseInv ==
  ASSUME ReleaseInv, CloseBegins \/ CloseQuietly \/ CloseTearsDown
  PROVE  ReleaseInv'
<1> USE DEF ReleaseInv
<1>1. UNCHANGED <<start, drain, pumps>>
  BY DEF CloseBegins, CloseQuietly, CloseTakes, CloseJoins, CloseLooks, CloseReleases, CloseSettles, CloseTearsDown,
         queueVars
<1>2. CASE CloseBegins \/ CloseTakes
  BY <1>1, <1>2 DEF CloseBegins, CloseTakes, CloseGoto, SpawnedInv, TornDownInv, netVars, emuVars
<1>3. CASE CloseTearsDown
  BY <1>1, <1>3 DEF CloseTearsDown, CloseGoto, SpawnedInv, TornDownInv, fieldVars, emuVars
<1>4. CASE CloseJoins
  BY <1>1, <1>4 DEF CloseJoins, CloseGoto, WgZero, SpawnedInv, TornDownInv, fieldVars, netVars, emuVars
<1>5. CASE CloseLooks \/ CloseReleases \/ CloseSettles
  BY <1>1, <1>5 DEF CloseLooks, CloseReleases, CloseSettles, CloseGoto, SpawnedInv, TornDownInv, fieldVars, netVars, emuVars
<1> QED
  BY <1>2, <1>3, <1>4, <1>5 DEF CloseQuietly

(* A drain goroutine that has ended does not take, write or stop again.    *)
LEMMA TypingKeepsDrain ==
  ASSUME TypingStep
  PROVE  /\ drain # "off" => drain' # "off"
         /\ drain = "exited" => drain' = "exited"
BY DEF TypingStep, Queue!RunTakes, Queue!RunStops, Queue!RunWrites, Queue!RunFails,
       Queue!WriteChecks, Queue!WriteEnqueues, Queue!WriteRefused

(* The remaining steps: the connection can only close, readers only end.   *)
LEMMA OthersKeepReleaseInv ==
  ASSUME ReleaseInv,
         \/ WaitReturns \/ ReportsExit \/ OtherStep \/ TypingStep
         \/ RemoteExits \/ TransportLost \/ UNCHANGED vars
  PROVE  ReleaseInv'
<1> USE DEF ReleaseInv
<1>1. UNCHANGED <<start, close, handle, grabbed, emu>>
  BY DEF WaitReturns, ReportsExit, OtherStep, PumpReads, PumpEnds, ReleaseTerminal, Resizes, WindowChanges,
         UIDrains, TypingStep, QueueOnly, RemoteExits, TransportLost, fieldVars, emuVars, vars
<1>2. released => released'
  BY DEF WaitReturns, ReportsExit, OtherStep, PumpReads, PumpEnds, ReleaseTerminal, Resizes, WindowChanges,
         UIDrains, TypingStep, QueueOnly, RemoteExits, TransportLost, emuVars, vars
<1>3. conn' = conn \/ (conn # "none" /\ conn' = "closed")
  BY DEF WaitReturns, ReportsExit, OtherStep, PumpReads, PumpEnds, ReleaseTerminal, Resizes, WindowChanges,
         UIDrains, TypingStep, QueueOnly, RemoteExits, TransportLost, netVars, vars
<1>4. pumps' = pumps \/ \E s \in Stream : pumps' = pumps \ {s}
  BY DEF WaitReturns, ReportsExit, OtherStep, PumpReads, PumpEnds, ReleaseTerminal, Resizes, WindowChanges,
         UIDrains, TypingStep, QueueOnly, RemoteExits, TransportLost, vars
<1>5. /\ drain # "off" => drain' # "off"
      /\ drain = "exited" => drain' = "exited"
  <2>1. TypingStep \/ drain' = drain
    BY DEF WaitReturns, ReportsExit, OtherStep, PumpReads, PumpEnds, ReleaseTerminal, Resizes,
           WindowChanges, UIDrains, RemoteExits, TransportLost, queueVars, vars
  <2> QED
    BY <2>1, TypingKeepsDrain
<1>6. SpawnedInv'
  BY <1>1, <1>3, <1>5 DEF SpawnedInv
<1>7. TornDownInv'
  BY <1>1, <1>2, <1>3, <1>4, <1>5 DEF TornDownInv
<1> QED
  BY <1>6, <1>7

LEMMA NextReleaseInv == ReleaseInv /\ [Next]_vars => ReleaseInv'
BY StepGroups, StartKeepsReleaseInv, WiringKeepsReleaseInv, CloseKeepsReleaseInv, OthersKeepReleaseInv

(* A Close that found the connection has released everything when it       *)
(* returns, wherever Start was and whatever the remote end did meanwhile.  *)
LEMMA CloseReleasesAll == Spec => []ReleasedAfterClose
<1>1. ReleaseInv => ReleasedAfterClose
  BY DEF ReleaseInv, TornDownInv, ReleasedAfterClose
<1> QED
  BY InitReleaseInv, NextReleaseInv, <1>1, PTL DEF Spec

(* So a session is what its types say, and the router can use it when it   *)
(* says connected, or Close has released it.                               *)
THEOREM SessionIsUsableOrReleased == Spec => []UsableOrReleased
<1>1. TypeOK /\ ConnectedIsUsable /\ ReleasedAfterClose => UsableOrReleased
  BY DEF UsableOrReleased
<1> QED
  BY SessionTypes, ConnectedSessionIsUsable, CloseReleasesAll, <1>1, PTL
=============================================================================
