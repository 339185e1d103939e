----------------------------- MODULE StdinQueue -----------------------------
(***************************************************************************)
(* The bounded queue between everything that types to a host and the SSH   *)
(* channel behind it (internal/ssh/stdinqueue.go).  Writers never block:   *)
(* Write copies the chunk and either enqueues it or refuses it.  A single  *)
(* goroutine, run, drains the queue into the channel in order until the    *)
(* session shuts down or the channel refuses a write.                      *)
(*                                                                         *)
(* Write is two steps here because it is two critical sections in the      *)
(* code: the error is read under q.mu, and the enqueue happens after the   *)
(* unlock, so the drain goroutine can stop in between.                     *)
(***************************************************************************)
EXTENDS Naturals, Sequences

CONSTANTS
  Writer,     \* the goroutines that type: the UI loop, the emulator's reply drain
  Chunk,      \* the byte slices they write
  Depth,      \* DefaultStdinQueueDepth
  MaxWrites,  \* bound of the model: Write is called while fewer are accepted
  NoChunk     \* the drain goroutine holds nothing

ASSUME DepthAssumption == Depth \in Nat \ {0}
ASSUME MaxWritesAssumption == MaxWrites \in Nat
ASSUME NoChunkAssumption == NoChunk \notin Chunk

VARIABLES
  ch,         \* q.ch: the buffered channel, oldest first
  qerr,       \* q.err # nil
  drain,      \* where run is: "off" (not spawned), "select", "write", "exited"
  inflight,   \* the chunk run has taken and is writing
  writing,    \* writing[w]: the chunk w passed the error check with, or NoChunk
  closed,     \* the session's shutdown signal (q.done) is closed
  link,       \* the SSH channel accepts bytes: "up"; or fails every write: "down"
  accepted,   \* history: chunks Write reported as written, in order
  wire        \* history: chunks the SSH channel took, in order

queueVars == <<ch, qerr, drain, inflight, writing, accepted, wire>>
vars == <<queueVars, closed, link>>

TypeOK ==
  /\ ch \in Seq(Chunk)
  /\ Len(ch) \in 0 .. Depth
  /\ qerr \in BOOLEAN
  /\ drain \in {"off", "select", "write", "exited"}
  /\ inflight \in Chunk \cup {NoChunk}
  /\ writing \in [Writer -> Chunk \cup {NoChunk}]
  /\ closed \in BOOLEAN
  /\ link \in {"up", "down"}
  /\ accepted \in Seq(Chunk)
  /\ wire \in Seq(Chunk)

InitQueue ==
  /\ ch = <<>>
  /\ qerr = FALSE
  /\ drain = "off"
  /\ inflight = NoChunk
  /\ writing = [w \in Writer |-> NoChunk]
  /\ accepted = <<>>
  /\ wire = <<>>

Init == InitQueue /\ closed = FALSE /\ link = "up"

-----------------------------------------------------------------------------
(* Each action is preceded by the seeded defects of the mutation checks:    *)
(* variants of it with a plausible mistake, used by no other definition.   *)

(* Defect: the recorded error is not consulted.                            *)
WriteChecks_IgnoresError(w, c) ==
  /\ writing[w] = NoChunk
  /\ Len(accepted) < MaxWrites
  /\ writing' = [writing EXCEPT ![w] = c]
  /\ UNCHANGED <<ch, qerr, drain, inflight, accepted, wire>>

(* Write, first half: a queue whose channel has failed refuses at once.    *)
WriteChecks(w, c) ==
  /\ writing[w] = NoChunk
  /\ ~qerr
  /\ Len(accepted) < MaxWrites
  /\ writing' = [writing EXCEPT ![w] = c]
  /\ UNCHANGED <<ch, qerr, drain, inflight, accepted, wire>>

(* Write, second half: the non-blocking send.                              *)
WriteEnqueues(w) ==
  /\ writing[w] # NoChunk
  /\ Len(ch) < Depth
  /\ ch' = Append(ch, writing[w])
  /\ accepted' = Append(accepted, writing[w])
  /\ writing' = [writing EXCEPT ![w] = NoChunk]
  /\ UNCHANGED <<qerr, drain, inflight, wire>>

(* Defect: a full backlog drops the chunk and reports it written.          *)
WriteRefused_DropsSilently(w) ==
  /\ writing[w] # NoChunk
  /\ Len(ch) = Depth
  /\ accepted' = Append(accepted, writing[w])
  /\ writing' = [writing EXCEPT ![w] = NoChunk]
  /\ UNCHANGED <<ch, qerr, drain, inflight, wire>>

(* Defect: the send has no default case, so a full backlog blocks.         *)
WriteRefused_Blocks(w) ==
  /\ writing[w] # NoChunk
  /\ Len(ch) < 0
  /\ writing' = [writing EXCEPT ![w] = NoChunk]
  /\ UNCHANGED <<ch, qerr, drain, inflight, accepted, wire>>

(* Write, second half: the backlog is full, the chunk is refused.          *)
WriteRefused(w) ==
  /\ writing[w] # NoChunk
  /\ Len(ch) = Depth
  /\ writing' = [writing EXCEPT ![w] = NoChunk]
  /\ UNCHANGED <<ch, qerr, drain, inflight, accepted, wire>>

(* startShell spawns the drain goroutine.                                  *)
RunStarts ==
  /\ drain = "off"
  /\ drain' = "select"
  /\ UNCHANGED <<ch, qerr, inflight, writing, accepted, wire>>

(* run receives a chunk.                                                   *)
RunTakes ==
  /\ drain = "select"
  /\ ch # <<>>
  /\ inflight' = Head(ch)
  /\ ch' = Tail(ch)
  /\ drain' = "write"
  /\ UNCHANGED <<qerr, writing, accepted, wire>>

(* Defect: run does not select on the shutdown signal.                     *)
RunStops_Forgotten ==
  /\ drain = "select"
  /\ closed /\ qerr
  /\ drain' = "exited"
  /\ UNCHANGED <<ch, qerr, inflight, writing, accepted, wire>>

(* run sees the shutdown signal instead; select picks either when both are *)
(* ready.                                                                  *)
RunStops ==
  /\ drain = "select"
  /\ closed
  /\ drain' = "exited"
  /\ UNCHANGED <<ch, qerr, inflight, writing, accepted, wire>>

(* The SSH channel takes the chunk.  It need not: a remote window that is  *)
(* exhausted leaves run inside w.Write.                                    *)
RunWrites ==
  /\ drain = "write"
  /\ link = "up"
  /\ wire' = Append(wire, inflight)
  /\ inflight' = NoChunk
  /\ drain' = "select"
  /\ UNCHANGED <<ch, qerr, writing, accepted>>

(* The transport under the session is gone; the error is terminal.         *)
RunFails ==
  /\ drain = "write"
  /\ link = "down"
  /\ qerr' = TRUE
  /\ inflight' = NoChunk
  /\ drain' = "exited"
  /\ UNCHANGED <<ch, writing, accepted, wire>>

QueueStep ==
  \/ \E w \in Writer : \/ \E c \in Chunk : WriteChecks(w, c)
                       \/ WriteEnqueues(w)
                       \/ WriteRefused(w)
  \/ RunStarts \/ RunTakes \/ RunStops \/ RunWrites \/ RunFails

(* The session closes, and the transport dies: session.go decides when.    *)
Shutdown  == ~closed /\ closed' = TRUE /\ UNCHANGED <<queueVars, link>>
LinkFails == link = "up" /\ link' = "down" /\ UNCHANGED <<queueVars, closed>>

Next ==
  \/ QueueStep /\ UNCHANGED <<closed, link>>
  \/ Shutdown
  \/ LinkFails

Spec == Init /\ [][Next]_vars

(* Goroutines run: a writer inside Write and a drain goroutine with        *)
(* something to do take their next step.  RunWrites is not fair, because a *)
(* stalled host may never open its window.                                 *)
Fairness ==
  /\ \A w \in Writer : WF_vars((WriteEnqueues(w) \/ WriteRefused(w)) /\ UNCHANGED <<closed, link>>)
  /\ WF_vars((RunTakes \/ RunStops) /\ UNCHANGED <<closed, link>>)
  /\ WF_vars(RunFails /\ UNCHANGED <<closed, link>>)

FairSpec == Spec /\ Fairness

-----------------------------------------------------------------------------
(* The chunk run holds, as a sequence.                                     *)
InHand == IF inflight = NoChunk THEN <<>> ELSE <<inflight>>

(* Nothing the queue accepted is reordered, duplicated or skipped: until   *)
(* the drain goroutine stops, what the channel took, what is being written *)
(* and what waits make up exactly what Write said it took (run is the only *)
(* goroutine that touches the channel).                                    *)
NothingSkipped ==
  drain # "exited" => wire \o InHand \o ch = accepted

(* ... and after it stopped, what reached the host is still a beginning of *)
(* what was accepted: a failed write is never followed by a later chunk.   *)
WireIsPrefix ==
  /\ Len(wire) <= Len(accepted)
  /\ wire = SubSeq(accepted, 1, Len(wire))

(* Together: what Write accepted reaches the host in order, as far as it   *)
(* reaches it at all, through bounded buffers (stdinQueue.Write, run).     *)
BytesInOrder == TypeOK /\ NothingSkipped /\ WireIsPrefix

(* A write error is terminal: once it is recorded nothing more is sent     *)
(* ("every later Write reports it instead of queueing bytes nobody will    *)
(* send"), and only a writer that had already passed the check can still   *)
(* be told that its chunk was taken.                                       *)
ErrorIsTerminal ==
  [][qerr => /\ wire' = wire
             /\ qerr'
             /\ \A w \in Writer : writing[w] = NoChunk => writing'[w] = NoChunk]_vars

(* No writer is ever held by a stalled host: a Write that started returns  *)
(* although the SSH channel may never take another byte (issue #225).      *)
WritersNeverBlock ==
  \A w \in Writer : writing[w] # NoChunk ~> writing[w] = NoChunk

(* The shutdown signal releases the drain goroutine, unless the host has   *)
(* it stuck inside a write; then the transport's death does.               *)
ShutdownReleasesDrain ==
  (closed /\ link = "down" /\ drain # "off") ~> drain = "exited"
=============================================================================
