-------------------------- MODULE StdinQueueProofs --------------------------
(***************************************************************************)
(* Proofs about the stdin queue, for every depth, every set of writers and *)
(* every set of chunks: type correctness, and the two ordering invariants. *)
(*                                                                         *)
(* NothingSkipped is not inductive alone: it needs to know that the drain  *)
(* goroutine holds a chunk exactly while it is inside a write (Holding),   *)
(* and ErrorIsTerminal that an error has ended that goroutine              *)
(* (ErrorStopped).                                                         *)
(***************************************************************************)
EXTENDS StdinQueue, SequenceTheorems, TLAPS

(* The drain goroutine holds a chunk exactly while it writes.              *)
Holding == drain = "write" <=> inflight # NoChunk

(* The only write error there is has ended the drain goroutine.            *)
ErrorStopped == qerr => drain = "exited"

IInv == TypeOK /\ Holding /\ ErrorStopped /\ NothingSkipped /\ WireIsPrefix

-----------------------------------------------------------------------------
(* A sequence is a prefix of whatever starts with it.                      *)
LEMMA ConcatIsPrefix ==
  ASSUME NEW S, NEW s \in Seq(S), NEW t \in Seq(S)
  PROVE  /\ Len(s) <= Len(s \o t)
         /\ s = SubSeq(s \o t, 1, Len(s))
<1>1. s \o t \in Seq(S) /\ Len(s \o t) = Len(s) + Len(t)
  OBVIOUS
<1>2. Len(s) \in Nat /\ Len(t) \in Nat
  OBVIOUS
<1>3. \A i \in 1 .. Len(s) : (s \o t)[i] = s[i]
  OBVIOUS
<1>4. SubSeq(s \o t, 1, Len(s)) \in Seq(S) /\ Len(SubSeq(s \o t, 1, Len(s))) = Len(s)
  BY <1>1, <1>2, SubSeqProperties
<1>5. \A i \in 1 .. Len(s) : SubSeq(s \o t, 1, Len(s))[i] = s[i]
  BY <1>1, <1>2, <1>3, SubSeqProperties
<1>6. QED
  BY <1>1, <1>2, <1>4, <1>5, SeqEqual

(* Appending to a sequence keeps its prefixes.                             *)
LEMMA AppendKeepsPrefix ==
  ASSUME NEW S, NEW s \in Seq(S), NEW u \in Seq(S), NEW e \in S,
         Len(s) <= Len(u), s = SubSeq(u, 1, Len(s))
  PROVE  /\ Len(s) <= Len(Append(u, e))
         /\ s = SubSeq(Append(u, e), 1, Len(s))
<1>1. Len(s) \in Nat /\ Len(u) \in Nat /\ Append(u, e) \in Seq(S)
      /\ Len(Append(u, e)) = Len(u) + 1
  OBVIOUS
<1>2. \A i \in 1 .. Len(s) : s[i] = u[i]
  BY <1>1, SubSeqProperties
<1>3. \A i \in 1 .. Len(s) : Append(u, e)[i] = u[i]
  BY <1>1
<1>4. SubSeq(Append(u, e), 1, Len(s)) \in Seq(S)
      /\ Len(SubSeq(Append(u, e), 1, Len(s))) = Len(s)
  BY <1>1, SubSeqProperties
<1>5. \A i \in 1 .. Len(s) : SubSeq(Append(u, e), 1, Len(s))[i] = s[i]
  BY <1>1, <1>2, <1>3, SubSeqProperties
<1>6. QED
  BY <1>1, <1>4, <1>5, SeqEqual

(* Taking the head of the backlog in hand changes nothing about the whole. *)
LEMMA TakeKeepsOrder ==
  ASSUME NEW S, NEW w \in Seq(S), NEW q \in Seq(S), q # <<>>
  PROVE  w \o <<Head(q)>> \o Tail(q) = w \o <<>> \o q
<1>1. Head(q) \in S /\ Tail(q) \in Seq(S) /\ <<Head(q)>> \o Tail(q) = q
  BY HeadTailProperties, HeadTailAppend
<1>2. w \o <<>> = w
  OBVIOUS
<1>3. w \o <<Head(q)>> \o Tail(q) = w \o (<<Head(q)>> \o Tail(q))
  BY <1>1
<1>4. QED
  BY <1>1, <1>2, <1>3
(* Appending to the second of two sequences appends to the whole.          *)
LEMMA AppendConcat ==
  ASSUME NEW S, NEW s \in Seq(S), NEW t \in Seq(S), NEW e \in S
  PROVE  s \o Append(t, e) = Append(s \o t, e)
BY AppendIsConcat, ConcatAssociative, ConcatProperties

-----------------------------------------------------------------------------
LEMMA InitIInv == Init => IInv
<1> SUFFICES ASSUME Init PROVE IInv
  OBVIOUS
<1>1. TypeOK
  <2>1. <<>> \in Seq(Chunk) /\ Len(<<>>) \in 0 .. Depth
    BY DepthAssumption
  <2>2. writing \in [Writer -> Chunk \cup {NoChunk}]
    BY DEF Init, InitQueue
  <2>3. QED
    BY <2>1, <2>2 DEF Init, InitQueue, TypeOK
<1>2. Holding /\ ErrorStopped /\ NothingSkipped
  BY DEF Init, InitQueue, Holding, ErrorStopped, NothingSkipped, InHand
<1>3. WireIsPrefix
  BY DEF Init, InitQueue, WireIsPrefix
<1>4. QED
  BY <1>1, <1>2, <1>3 DEF IInv

(* The invariant is kept by every step; one step per action.               *)
LEMMA NextIInv == IInv /\ [Next]_vars => IInv'
<1> SUFFICES ASSUME IInv, [Next]_vars PROVE IInv'
  OBVIOUS
<1> USE DEF IInv, TypeOK
<1>1. ASSUME NEW w \in Writer, NEW c \in Chunk,
             WriteChecks(w, c), UNCHANGED <<closed, link>>
      PROVE  IInv'
  BY <1>1 DEF WriteChecks, Holding, ErrorStopped, NothingSkipped, WireIsPrefix, InHand
<1>2. ASSUME NEW w \in Writer, WriteEnqueues(w), UNCHANGED <<closed, link>>
      PROVE  IInv'
  <2> DEFINE c == writing[w]
  <2>1. c \in Chunk
    BY <1>2 DEF WriteEnqueues
  <2>2. TypeOK' /\ Holding' /\ ErrorStopped'
    BY <1>2, <2>1, DepthAssumption DEF WriteEnqueues, Holding, ErrorStopped
  <2>3. NothingSkipped'
    <3> SUFFICES ASSUME drain # "exited" PROVE wire \o InHand \o Append(ch, c) = Append(accepted, c)
      BY <1>2 DEF WriteEnqueues, NothingSkipped, InHand
    <3>1. wire \o InHand \in Seq(Chunk)
      BY DEF InHand
    <3>2. wire \o InHand \o Append(ch, c) = Append(wire \o InHand \o ch, c)
      BY <2>1, <3>1, AppendConcat
    <3>3. QED
      BY <3>2 DEF NothingSkipped
  <2>4. WireIsPrefix'
    BY <1>2, <2>1, AppendKeepsPrefix DEF WriteEnqueues, WireIsPrefix
  <2>5. QED
    BY <2>2, <2>3, <2>4
<1>3. ASSUME NEW w \in Writer, WriteRefused(w), UNCHANGED <<closed, link>>
      PROVE  IInv'
  BY <1>3 DEF WriteRefused, Holding, ErrorStopped, NothingSkipped, WireIsPrefix, InHand
<1>4. CASE RunStarts /\ UNCHANGED <<closed, link>>
  BY <1>4 DEF RunStarts, Holding, ErrorStopped, NothingSkipped, WireIsPrefix, InHand
<1>5. CASE RunTakes /\ UNCHANGED <<closed, link>>
  <2>1. Head(ch) \in Chunk /\ Tail(ch) \in Seq(Chunk) /\ Len(Tail(ch)) = Len(ch) - 1
    BY <1>5, HeadTailProperties DEF RunTakes
  <2>2. TypeOK' /\ Holding' /\ ErrorStopped'
    BY <1>5, <2>1, NoChunkAssumption, DepthAssumption DEF RunTakes, Holding, ErrorStopped
  <2>3. InHand = <<>> /\ InHand' = <<Head(ch)>>
    BY <1>5, <2>1, NoChunkAssumption DEF RunTakes, Holding, InHand
  <2>4. NothingSkipped'
    BY <1>5, <2>3, TakeKeepsOrder DEF RunTakes, NothingSkipped
  <2>5. WireIsPrefix'
    BY <1>5 DEF RunTakes, WireIsPrefix
  <2>6. QED
    BY <2>2, <2>4, <2>5
<1>6. CASE RunStops /\ UNCHANGED <<closed, link>>
  BY <1>6 DEF RunStops, Holding, ErrorStopped, NothingSkipped, WireIsPrefix, InHand
<1>7. CASE RunWrites /\ UNCHANGED <<closed, link>>
  <2>1. inflight \in Chunk
    BY <1>7 DEF RunWrites, Holding
  <2>2. TypeOK' /\ Holding' /\ ErrorStopped'
    BY <1>7, <2>1 DEF RunWrites, Holding, ErrorStopped
  <2>3. Append(wire, inflight) = wire \o InHand /\ InHand' = <<>>
    BY <1>7, <2>1, NoChunkAssumption DEF RunWrites, InHand
  <2>4. wire' \o ch = accepted /\ wire' \in Seq(Chunk)
    <3>1. wire' = Append(wire, inflight) /\ drain # "exited"
      BY <1>7 DEF RunWrites
    <3>2. wire' = wire \o InHand
      BY <2>3, <3>1
    <3>3. QED
      BY <2>2, <3>1, <3>2 DEF NothingSkipped
  <2>5. NothingSkipped'
    BY <1>7, <2>3, <2>4 DEF RunWrites, NothingSkipped
  <2>6. WireIsPrefix'
    BY <1>7, <2>4, ConcatIsPrefix DEF RunWrites, WireIsPrefix
  <2>7. QED
    BY <2>2, <2>5, <2>6
<1>8. CASE RunFails /\ UNCHANGED <<closed, link>>
  BY <1>8 DEF RunFails, Holding, ErrorStopped, NothingSkipped, WireIsPrefix, InHand
<1>9. CASE Shutdown \/ LinkFails \/ UNCHANGED vars
  <2>1. /\ ch' = ch /\ qerr' = qerr /\ drain' = drain /\ inflight' = inflight
        /\ writing' = writing /\ accepted' = accepted /\ wire' = wire
    BY <1>9 DEF Shutdown, LinkFails, vars, queueVars
  <2>2. closed' \in BOOLEAN /\ link' \in {"up", "down"}
    BY <1>9 DEF Shutdown, LinkFails, vars, queueVars
  <2>3. TypeOK'
    BY <2>1, <2>2
  <2>4. QED
    BY <2>1, <2>3 DEF Holding, ErrorStopped, NothingSkipped, WireIsPrefix, InHand
<1>10. QED
  BY <1>1, <1>2, <1>3, <1>4, <1>5, <1>6, <1>7, <1>8, <1>9 DEF Next, QueueStep

-----------------------------------------------------------------------------
(* For every depth, every set of writers and every set of chunks, what the *)
(* queue accepts reaches the host in order, without a gap or a repetition. *)
THEOREM QueueOrder == Spec => []BytesInOrder
<1>1. IInv => BytesInOrder
  BY DEF IInv, BytesInOrder
<1>2. QED
  BY InitIInv, NextIInv, <1>1, PTL DEF Spec

(* A recorded write error is terminal, for every value of the constants.   *)
THEOREM ErrorTerminal == Spec => ErrorIsTerminal
<1> DEFINE A == /\ wire' = wire
                /\ qerr'
                /\ \A w \in Writer : writing[w] = NoChunk => writing'[w] = NoChunk
<1>1. ASSUME IInv, [Next]_vars PROVE [qerr => A]_vars
  <2> SUFFICES ASSUME qerr, Next PROVE A
    BY <1>1
  <2>1. drain = "exited"
    BY <1>1 DEF IInv, ErrorStopped
  <2> QED
    BY <1>1, <2>1 DEF IInv, TypeOK, Next, QueueStep, Shutdown, LinkFails, queueVars,
        WriteChecks, WriteEnqueues, WriteRefused, RunStarts, RunTakes, RunStops, RunWrites, RunFails
<1>2. QED
  BY InitIInv, NextIInv, <1>1, PTL DEF Spec, ErrorIsTerminal
=============================================================================
