------------------------------ MODULE Session ------------------------------
(***************************************************************************)
(* One SSH session (internal/ssh/session.go): the goroutine that runs      *)
(* Start, the goroutines Start spawns (the stdin drain, one reader per     *)
(* stream, the one that waits for the remote shell to exit), a concurrent  *)
(* Close, the writers and the resizer, against a remote host that answers, *)
(* stalls, exits or disappears.  A step ends where the code releases s.mu  *)
(* or may be scheduled away with its work half done.                       *)
(*                                                                         *)
(* The stdin queue is StdinQueue, instantiated: its channel takes bytes    *)
(* while the remote shell is there.                                        *)
(***************************************************************************)
EXTENDS Naturals, Sequences, FiniteSets

CONSTANTS
  Writer, Chunk, Depth, MaxWrites, NoChunk,    \* see StdinQueue
  Size,          \* window sizes the UI asks for, smallest first
  EventBuffer    \* capacity of the manager's event channel

ASSUME QueueAssumption == Depth \in Nat \ {0} /\ MaxWrites \in Nat /\ NoChunk \notin Chunk
ASSUME EventBufferAssumption == EventBuffer \in Nat \ {0}
ASSUME SizeAssumption == Size # {} /\ Size \subseteq Nat

VARIABLES
  ch, qerr, drain, inflight, writing, accepted, wire,   \* the stdin queue
  closed,    \* s.closed is closed
  state,     \* s.state
  start,     \* where Start is
  close,     \* where Close is
  grabbed,   \* Close found a client to tear down
  handle,    \* s.client and s.session are set
  input,     \* s.stdin and s.input are set
  conn,      \* the TCP connection: "none", "open", "closed"
  shell,     \* the remote shell: "none", "running", "exited", "lost"
  pumps,     \* the streams whose reader goroutine runs
  waiter,    \* where waitForExit is
  emu,       \* the emulator: "open", "closed"
  released,  \* s.emuReleased
  size,      \* s.cfg.Width and s.cfg.Height
  pty,       \* the size the remote PTY has
  resizer,   \* Resize holds a session and is about to send the change
  events     \* the manager's event channel

queueVars == <<ch, qerr, drain, inflight, writing, accepted, wire>>
fieldVars == <<closed, handle, input, grabbed>>
netVars   == <<conn, shell>>
sizeVars  == <<size, pty, resizer>>
emuVars   == <<emu, released>>
vars == <<queueVars, fieldVars, netVars, sizeVars, emuVars,
          state, start, close, pumps, waiter, events>>

Stream == {"stdout", "stderr"}

(* The remote end of the shell is gone: its streams end, its stdin fails.  *)
Over == shell \in {"exited", "lost"}

Queue == INSTANCE StdinQueue WITH link <- IF Over THEN "down" ELSE "up"

Done(st) == st \in {"failed", "closed"}

StartPC == {"idle", "dialing", "handshake", "opening", "shelling", "wiring",
            "piping", "registering", "announcing", "watching", "returned"}

TypeOK ==
  /\ Queue!TypeOK
  /\ state \in {"pending", "dialing", "authenticating", "connected", "failed", "closed"}
  /\ start \in StartPC
  /\ close \in {"idle", "begun", "tearing", "joining", "joined", "releasing", "settling", "returned"}
  /\ {closed, grabbed, handle, input, released, resizer} \subseteq BOOLEAN
  /\ conn \in {"none", "open", "closed"}
  /\ shell \in {"none", "running", "exited", "lost"}
  /\ pumps \subseteq Stream
  /\ waiter \in {"off", "waiting", "reporting", "done"}
  /\ emu \in {"open", "closed"}
  /\ size \in Size /\ pty \in Size
  /\ events \in Seq({"state", "output"}) /\ Len(events) \in 0 .. EventBuffer

Init ==
  /\ Queue!InitQueue
  /\ closed = FALSE /\ grabbed = FALSE /\ handle = FALSE /\ input = FALSE
  /\ conn = "none" /\ shell = "none"
  /\ size \in Size /\ pty = size /\ resizer = FALSE
  /\ emu = "open" /\ released = FALSE
  /\ state = "pending" /\ start = "idle" /\ close = "idle"
  /\ pumps = {} /\ waiter = "off" /\ events = <<>>

-----------------------------------------------------------------------------
(* Defect: emit waits for room in the event channel.                       *)
Emit_Blocks(kind) ==
  Len(events) < EventBuffer /\ events' = Append(events, kind)

(* emit: an event is a hint; one that does not fit is dropped, so that the *)
(* transport never waits for the UI.                                       *)
Emit(kind) ==
  events' = IF Len(events) < EventBuffer THEN Append(events, kind) ELSE events

(* Defect: a finished session is moved on by whoever reports last.         *)
SetState_AlwaysMoves(new) ==
  state' = new /\ Emit("state")

(* setState: a session that is done does not move on.                      *)
SetState(new) ==
  \/ /\ Done(state) /\ new # "closed"
     /\ UNCHANGED <<state, events>>
  \/ /\ ~(Done(state) /\ new # "closed")
     /\ state' = new
     /\ Emit("state")

(* Start's program counter moves on.                                       *)
Goto(from, to) == start = from /\ start' = to

(* Start gives up at this point: the connection it has is closed and the   *)
(* session has failed.                                                     *)
Fails(from) ==
  /\ Goto(from, "returned")
  /\ SetState("failed")
  /\ conn' = IF conn = "none" THEN "none" ELSE "closed"
  /\ UNCHANGED <<queueVars, fieldVars, shell, sizeVars, emuVars, close, pumps, waiter>>

(* Without a host key callback Start does not dial at all.                 *)
StartRefuses == Fails("idle")

StartDials ==
  /\ Goto("idle", "dialing")
  /\ SetState("dialing")
  /\ UNCHANGED <<queueVars, fieldVars, netVars, sizeVars, emuVars, close, pumps, waiter>>

DialFails == Fails("dialing")

DialSucceeds ==
  /\ Goto("dialing", "handshake")
  /\ conn' = "open"
  /\ SetState("authenticating")
  /\ UNCHANGED <<queueVars, fieldVars, shell, sizeVars, emuVars, close, pumps, waiter>>

HandshakeFails == Fails("handshake")

HandshakeSucceeds ==
  /\ Goto("handshake", "opening")
  /\ conn = "open"
  /\ UNCHANGED <<queueVars, fieldVars, netVars, sizeVars, emuVars, state, close, pumps, waiter, events>>

(* NewSession, the PTY request, the pipes or the shell are refused.        *)
OpenFails == Fails("opening") \/ Fails("shelling")

(* RequestPty asks for the size the configuration has now.                 *)
RequestsPty ==
  /\ Goto("opening", "shelling")
  /\ conn = "open"
  /\ pty' = size
  /\ UNCHANGED <<queueVars, fieldVars, netVars, size, resizer, emuVars, state, close, pumps, waiter, events>>

(* The shell runs, the exit hook is armed, and s.stdin and s.input are set *)
(* under the lock.                                                         *)
ShellRuns ==
  /\ Goto("shelling", "wiring")
  /\ conn = "open"
  /\ shell' = "running"
  /\ input' = TRUE
  /\ UNCHANGED <<queueVars, closed, handle, grabbed, conn, sizeVars, emuVars, state, close, pumps, waiter, events>>

SpawnsDrain ==
  /\ Goto("wiring", "piping")
  /\ Queue!RunStarts
  /\ UNCHANGED <<fieldVars, netVars, sizeVars, emuVars, state, close, pumps, waiter, events>>

SpawnsPumps ==
  /\ Goto("piping", "registering")
  /\ pumps' = Stream
  /\ UNCHANGED <<queueVars, fieldVars, netVars, sizeVars, emuVars, state, close, waiter, events>>

(* Defect: Start keeps the client to itself.                               *)
Registers_Forgets ==
  /\ Goto("registering", "announcing")
  /\ UNCHANGED <<queueVars, fieldVars, netVars, sizeVars, emuVars, state, close, pumps, waiter, events>>

(* s.client and s.session are set under the lock: from here on Close has   *)
(* something to tear down.                                                 *)
Registers ==
  /\ Goto("registering", "announcing")
  /\ handle' = TRUE
  /\ UNCHANGED <<queueVars, closed, input, grabbed, netVars, sizeVars, emuVars, state, close, pumps, waiter, events>>

Announces ==
  /\ Goto("announcing", "watching")
  /\ SetState("connected")
  /\ UNCHANGED <<queueVars, fieldVars, netVars, sizeVars, emuVars, close, pumps, waiter>>

(* Defect: nobody waits for the shell to exit.                             *)
SpawnsWaiter_Forgotten ==
  /\ Goto("watching", "returned")
  /\ UNCHANGED <<queueVars, fieldVars, netVars, sizeVars, emuVars, state, close, pumps, waiter, events>>

SpawnsWaiter ==
  /\ Goto("watching", "returned")
  /\ waiter' = "waiting"
  /\ UNCHANGED <<queueVars, fieldVars, netVars, sizeVars, emuVars, state, close, pumps, events>>

-----------------------------------------------------------------------------
(* pump: output goes to the log and the emulator, and a hint to the UI.    *)
PumpReads(s) ==
  /\ s \in pumps /\ shell = "running"
  /\ Emit("output")
  /\ UNCHANGED <<queueVars, fieldVars, netVars, sizeVars, emuVars, state, start, close, pumps, waiter>>

(* The stream ends; what the echo filter held back is output after all.    *)
PumpEnds(s) ==
  /\ s \in pumps /\ Over
  /\ pumps' = pumps \ {s}
  /\ UNCHANGED events \/ (s = "stdout" /\ Emit("output"))
  /\ UNCHANGED <<queueVars, fieldVars, netVars, sizeVars, emuVars, state, start, close, waiter>>

(* waitForExit: session.Wait has returned; a running Close reports itself. *)
WaitReturns ==
  /\ waiter = "waiting" /\ Over
  /\ waiter' = IF closed THEN "done" ELSE "reporting"
  /\ UNCHANGED <<queueVars, fieldVars, netVars, sizeVars, emuVars, state, start, close, pumps, events>>

(* A shell that exited closes the session, a lost transport fails it.      *)
ReportsExit ==
  /\ waiter = "reporting"
  /\ waiter' = "done"
  /\ SetState(IF shell = "exited" THEN "closed" ELSE "failed")
  /\ UNCHANGED <<queueVars, fieldVars, netVars, sizeVars, emuVars, start, close, pumps>>

-----------------------------------------------------------------------------
(* s.wg is zero: every goroutine Start has added so far has ended.         *)
WgZero ==
  /\ drain \in {"off", "exited"}
  /\ pumps = {}
  /\ waiter \in {"off", "done"}

CloseGoto(from, to) == close = from /\ close' = to

CloseBegins ==
  /\ CloseGoto("idle", "begun")
  /\ closed' = TRUE
  /\ UNCHANGED <<queueVars, handle, input, grabbed, netVars, sizeVars, emuVars, state, start, pumps, waiter, events>>

(* Defect: closing empties the backlog of the stdin queue.                 *)
CloseTakes_DropsBacklog ==
  /\ CloseGoto("begun", "tearing")
  /\ grabbed' = handle
  /\ handle' = FALSE
  /\ input' = FALSE
  /\ ch' = <<>>
  /\ UNCHANGED <<qerr, drain, inflight, writing, accepted, wire, closed, netVars, sizeVars, emuVars, state, start, pumps, waiter, events>>

(* Under s.mu: take the session and the client, leave nothing behind.      *)
CloseTakes ==
  /\ CloseGoto("begun", "tearing")
  /\ grabbed' = handle
  /\ handle' = FALSE
  /\ input' = FALSE
  /\ UNCHANGED <<queueVars, closed, netVars, sizeVars, emuVars, state, start, pumps, waiter, events>>

(* Defect: the session is closed, the client under it is not.              *)
CloseTearsDown_KeepsClient ==
  /\ CloseGoto("tearing", "joining")
  /\ shell' = IF grabbed /\ shell = "running" THEN "lost" ELSE shell
  /\ UNCHANGED <<queueVars, fieldVars, conn, sizeVars, emuVars, state, start, pumps, waiter, events>>

(* Defect: nothing is closed before the goroutines are waited for.         *)
CloseTearsDown_Forgotten ==
  /\ CloseGoto("tearing", "joining")
  /\ UNCHANGED <<queueVars, fieldVars, netVars, sizeVars, emuVars, state, start, pumps, waiter, events>>

(* session.Close and client.Close, for the ones it found.                  *)
CloseTearsDown ==
  /\ CloseGoto("tearing", "joining")
  /\ conn' = IF grabbed THEN "closed" ELSE conn
  /\ shell' = IF grabbed /\ shell = "running" THEN "lost" ELSE shell
  /\ UNCHANGED <<queueVars, fieldVars, sizeVars, emuVars, state, start, pumps, waiter, events>>

CloseJoins ==
  /\ CloseGoto("joining", "joined")
  /\ WgZero
  /\ UNCHANGED <<queueVars, fieldVars, netVars, sizeVars, emuVars, state, start, pumps, waiter, events>>

(* Under s.mu: is the emulator still this session's?  A reconnect may take *)
(* it away right after.                                                    *)
CloseLooks ==
  /\ CloseGoto("joined", IF released THEN "settling" ELSE "releasing")
  /\ UNCHANGED <<queueVars, fieldVars, netVars, sizeVars, emuVars, state, start, pumps, waiter, events>>

CloseReleases ==
  /\ CloseGoto("releasing", "settling")
  /\ emu' = "closed"
  /\ UNCHANGED <<queueVars, fieldVars, netVars, sizeVars, released, state, start, pumps, waiter, events>>

(* The final state, reported whether or not it changed.                    *)
CloseSettles ==
  /\ CloseGoto("settling", "returned")
  /\ state' = IF Done(state) THEN state ELSE "closed"
  /\ Emit("state")
  /\ UNCHANGED <<queueVars, fieldVars, netVars, sizeVars, emuVars, start, pumps, waiter>>

(* Reconnect takes the emulator away for the next session.                 *)
ReleaseTerminal ==
  /\ ~released
  /\ released' = TRUE
  /\ UNCHANGED <<queueVars, fieldVars, netVars, sizeVars, emu, state, start, close, pumps, waiter, events>>

-----------------------------------------------------------------------------
(* Everything but the queue stands still.                                  *)
QueueOnly ==
  UNCHANGED <<fieldVars, netVars, sizeVars, emuVars, state, start, close, pumps, waiter, events>>

(* Write takes s.input under the lock and hands the chunk to the queue.    *)
Writes(w) ==
  \/ \E c \in Chunk : input /\ Queue!WriteChecks(w, c) /\ QueueOnly
  \/ (Queue!WriteEnqueues(w) \/ Queue!WriteRefused(w)) /\ QueueOnly

Drains == (Queue!RunTakes \/ Queue!RunStops \/ Queue!RunWrites \/ Queue!RunFails) /\ QueueOnly

(* Resize, up to the unlock: the size is remembered, the emulator resized. *)
(* Bound: the window only grows.  The properties tell the size asked for   *)
(* from the one in force, not a wider from a narrower one.                 *)
Resizes(sz) ==
  /\ ~resizer /\ sz > size
  /\ size' = sz
  /\ resizer' = handle
  /\ UNCHANGED <<queueVars, fieldVars, netVars, pty, emuVars, state, start, close, pumps, waiter, events>>

(* ... and after it: the remote PTY is told, if there was a session.       *)
WindowChanges ==
  /\ resizer
  /\ resizer' = FALSE
  /\ pty' = IF Over THEN pty ELSE size
  /\ UNCHANGED <<queueVars, fieldVars, netVars, size, emuVars, state, start, close, pumps, waiter, events>>

(* The remote shell ends; the connection stays.                            *)
RemoteExits ==
  /\ shell = "running"
  /\ shell' = "exited"
  /\ UNCHANGED <<queueVars, fieldVars, conn, sizeVars, emuVars, state, start, close, pumps, waiter, events>>

(* The connection dies under the session.                                  *)
TransportLost ==
  /\ conn = "open"
  /\ conn' = "closed"
  /\ shell' = IF shell = "running" THEN "lost" ELSE shell
  /\ UNCHANGED <<queueVars, fieldVars, sizeVars, emuVars, state, start, close, pumps, waiter, events>>

(* The UI drains the event channel.                                        *)
UIDrains ==
  /\ events # <<>>
  /\ events' = <<>>
  /\ UNCHANGED <<queueVars, fieldVars, netVars, sizeVars, emuVars, state, start, close, pumps, waiter>>

StartStep ==
  \/ StartRefuses \/ StartDials \/ DialFails \/ DialSucceeds \/ HandshakeFails \/ HandshakeSucceeds
  \/ OpenFails \/ RequestsPty \/ ShellRuns \/ SpawnsDrain \/ SpawnsPumps
  \/ Registers \/ Announces \/ SpawnsWaiter

CloseStep ==
  \/ CloseTakes \/ CloseTearsDown \/ CloseJoins \/ CloseLooks \/ CloseReleases \/ CloseSettles

Next ==
  \/ StartStep
  \/ \E s \in Stream : PumpReads(s) \/ PumpEnds(s)
  \/ WaitReturns \/ ReportsExit
  \/ CloseBegins \/ CloseStep
  \/ ReleaseTerminal
  \/ \E w \in Writer : Writes(w)
  \/ Drains
  \/ \E sz \in Size : Resizes(sz)
  \/ WindowChanges
  \/ RemoteExits \/ TransportLost
  \/ UIDrains

Spec == Init /\ [][Next]_vars

(* The goroutines of the session are scheduled.  Dialling and the          *)
(* handshake end by their timeout.  Nothing is assumed of the user, of the *)
(* remote host, of the UI, or of Start between the handshake and the       *)
(* running shell: there the deadline is lifted and the host may never      *)
(* answer.                                                                 *)
Fairness ==
  /\ WF_vars(DialFails \/ DialSucceeds)
  /\ WF_vars(HandshakeFails \/ HandshakeSucceeds)
  /\ WF_vars(SpawnsDrain \/ SpawnsPumps \/ Registers \/ Announces \/ SpawnsWaiter)
  /\ \A s \in Stream : WF_vars(PumpEnds(s))
  /\ WF_vars(WaitReturns \/ ReportsExit)
  /\ WF_vars(CloseStep)
  /\ WF_vars((Queue!RunTakes \/ Queue!RunStops \/ Queue!RunFails) /\ QueueOnly)

FairSpec == Spec /\ Fairness

-----------------------------------------------------------------------------
(* What the broadcast router relies on: a session that says connected, and *)
(* that nobody is closing, has a stdin to write to, and Close would find   *)
(* its client.  The two are set in different critical sections than the    *)
(* state (startShell, Start).                                              *)
ConnectedIsUsable ==
  state = "connected" /\ close \in {"idle", "begun"} => input /\ handle

(* A Close that found the connection releases it: no reader and no drain   *)
(* survives it, the connection is closed, and so is the emulator unless    *)
(* another session adopted it.  (waitForExit may still be spawned by a     *)
(* Start that is on its last step; it finds the shell gone and ends.)      *)
ReleasedAfterClose ==
  close = "returned" /\ grabbed =>
    /\ conn = "closed"
    /\ drain = "exited" /\ pumps = {}
    /\ emu = "closed" \/ released

(* Together: wherever Start and Close are, a session is one the router can *)
(* use, or one that leaves nothing behind (Start, Close).                  *)
UsableOrReleased == TypeOK /\ ConnectedIsUsable /\ ReleasedAfterClose

(* A session that failed or closed stays what it is, whoever reports last: *)
(* the dial goroutine, waitForExit or Close.                               *)
FinalStateSticks == [][Done(state) => state' = state]_vars

(* The session uses its stdin queue as the queue promises: the session's   *)
(* steps are steps of the queue, of its environment, or do not concern it. *)
QueueContract == Queue!Spec

(* Nothing in the transport waits for the UI: once the shell runs, Start   *)
(* returns although nobody drains the event channel                        *)
(* (TestSessionSurvivesAnUndrainedEventChannel).                           *)
StartNotHeldByUI ==
  start \in {"wiring", "piping", "registering", "announcing", "watching"}
    ~> start = "returned"

(* The end of the remote shell is always noticed: the session becomes      *)
(* closed or failed, by waitForExit or by Close.                           *)
EndIsReported == Over ~> Done(state)

(* A Close that found the connection returns, even with the host stalled   *)
(* inside a write: tearing the client down is what unblocks the drain.     *)
CloseReturnsWithClient == (close = "tearing" /\ grabbed) ~> close = "returned"

(* Claimed by New: "Before the shell starts or after the session dies,     *)
(* Write refuses" (session.go:250-251).                                    *)
DeadSessionRefuses ==
  [][Done(state) /\ close = "idle" => \A w \in Writer : writing[w] = NoChunk => writing'[w] = NoChunk]_vars

(* Claimed by Close: the readers end "when their streams close, which      *)
(* closing the client guarantees" (session.go:579-581), so Close returns.  *)
CloseAlwaysReturns == close = "begun" ~> close = "returned"

(* Claimed by Resize: a size set before the session connected "is          *)
(* remembered and requested at start" (session.go:546).                    *)
PtyHasTheSize ==
  state = "connected" /\ shell = "running" /\ ~resizer => pty = size
=============================================================================
