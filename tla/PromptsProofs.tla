--------------------------- MODULE PromptsProofs ---------------------------
(***************************************************************************)
(* Proofs about the prompts, for any panes, any number of dials and of     *)
(* slots: an answer releases only a dial of the pane it was typed in, the  *)
(* event loop never blocks on delivering one, and no question is lost      *)
(* between the dial and the screen.                                        *)
(***************************************************************************)
EXTENDS Prompts, FiniteSetTheorems, TLAPS

(* What the arguments need to know of the types.                           *)
TypeInv ==
  /\ count \in 0 .. MaxDials
  /\ DOMAIN pane = Dial
  /\ at \in [Dial -> Stage]
  /\ asking \in [Dial -> {"no", "sends", "waits"}]
  /\ answer \in [Dial -> Answer \cup {NoAnswer}]
  /\ pump \in [Class -> 0 .. MaxDials]
  /\ pending \in [Class -> [Pane -> 0 .. MaxDials]]
  /\ \A a \in answers : a.class \in Class /\ a.pane \in Pane /\ a.ok \in BOOLEAN
  /\ DOMAIN auth = Pane /\ \A p \in Pane : auth[p] # NoQuestion => auth[p].class \in Class

(* A session that was not created asks nothing and has no answer.          *)
FreshInv ==
  \A d \in Dial : d > count => at[d] = "none" /\ asking[d] = "no" /\ answer[d] = NoAnswer

(* Dial d is blocked on a question of class c that nobody has answered; at *)
(* the end of the run it may have withdrawn it.                            *)
Open(c, d) ==
  /\ answer[d] = NoAnswer
  /\ cancelled \/ (asking[d] = "waits" /\ ClassOf(d) = c)

(* The loop remembers open questions only, each as its own pane's; the one *)
(* a pump carries is open too, and not remembered yet.                     *)
PendingInv ==
  \A c \in Class, p \in Pane : pending[c][p] # 0 => pane[pending[c][p]] = p /\ Open(c, pending[c][p])

PumpInv ==
  \A c \in Class : pump[c] # 0 =>
    Open(c, pump[c]) /\ \A p \in Pane : cancelled \/ pending[c][p] # pump[c]

AnswerInv ==
  /\ AnswersStayHome
  /\ \A d \in Dial : answer[d] # NoAnswer => asking[d] = "waits"
  /\ \A d \in Dial : asking[d] # "no" => at[d] \in Handshake

IInv == TypeInv /\ FreshInv /\ PendingInv /\ PumpInv /\ AnswerInv
-----------------------------------------------------------------------------
LEMMA InitIInv == Init => IInv
<1> USE MaxDialsAssumption DEF Init
<1>1. Init => TypeInv /\ FreshInv
  BY DEF TypeInv, FreshInv, Dial, Stage, Class
<1>2. Init => PendingInv /\ PumpInv /\ AnswerInv
  BY DEF PendingInv, PumpInv, AnswerInv, AnswersStayHome
<1> QED
  BY <1>1, <1>2 DEF IInv

(* A new session: it asks nothing yet, so no question is its own.          *)
LEMMA NewDialKeepsIInv ==
  ASSUME IInv, ~cancelled, NEW p \in Pane, NewDial(p),
         UNCHANGED <<asking, answer, pump, pending, auth, answers, cancelled>>
  PROVE  IInv'
<1> DEFINE new == count + 1
<1> USE MaxDialsAssumption DEF IInv
<1>1. /\ count \in Nat /\ new \in Dial /\ count' = new
      /\ pane' = [pane EXCEPT ![new] = p]
      /\ at' = [at EXCEPT ![new] = "queued"]
  BY DEF NewDial, TypeInv, Dial
<1>2. asking[new] = "no" /\ answer[new] = NoAnswer
  BY <1>1 DEF FreshInv
<1>3. \A d \in Dial : d # new => pane'[d] = pane[d] /\ at'[d] = at[d]
  BY <1>1 DEF TypeInv
<1>4. TypeInv'
  BY <1>1 DEF TypeInv, Dial, Stage
<1>5. FreshInv'
  <2>1. \A d \in Dial : d > new => d > count /\ d # new
    BY <1>1 DEF Dial
  <2> QED
    BY <1>1, <1>3, <2>1 DEF FreshInv
<1>6. ASSUME NEW c \in Class, NEW d \in Dial, Open(c, d)
      PROVE  Open(c, d)' /\ pane'[d] = pane[d]
  BY <1>2, <1>3, <1>6 DEF Open, ClassOf
<1>7. PendingInv'
  BY <1>6 DEF PendingInv, TypeInv, Dial
<1>8. PumpInv'
  BY <1>6 DEF PumpInv, TypeInv, Dial
<1>9. AnswerInv'
  BY <1>2, <1>3 DEF AnswerInv, AnswersStayHome
<1> QED
  BY <1>4, <1>5, <1>7, <1>8, <1>9

(* A dial goes on without an open question: it asked none, had the answer, *)
(* or withdraws the question because the run is over.                      *)
LEMMA ReachesKeepsIInv ==
  ASSUME IInv, NEW d \in Dial, NEW s \in Stage, Reaches(d, s), at[d] # "none",
         cancelled \/ asking[d] = "no" \/ answer[d] # NoAnswer
  PROVE  IInv'
<1> USE DEF IInv
<1>1. /\ at' = [at EXCEPT ![d] = s]
      /\ asking' = [asking EXCEPT ![d] = "no"]
      /\ answer' = [answer EXCEPT ![d] = NoAnswer]
      /\ UNCHANGED <<count, pane, pump, pending, auth, answers, cancelled>>
  BY DEF Reaches, loopVars
<1>2. TypeInv'
  BY <1>1 DEF TypeInv
<1>3. FreshInv'
  BY <1>1 DEF FreshInv, TypeInv
<1>4. ASSUME NEW c \in Class, NEW e \in Dial, Open(c, e)
      PROVE  Open(c, e)'
  <2>1. CASE e = d
    BY <1>1, <1>4, <2>1 DEF Open, TypeInv
  <2>2. CASE e # d
    BY <1>1, <1>4, <2>2 DEF Open, ClassOf, TypeInv
  <2> QED
    BY <2>1, <2>2
<1>5. PendingInv'
  BY <1>1, <1>4 DEF PendingInv, TypeInv, Dial
<1>6. PumpInv'
  BY <1>1, <1>4 DEF PumpInv, TypeInv, Dial
<1>7. AnswerInv'
  BY <1>1 DEF AnswerInv, AnswersStayHome, TypeInv
<1> QED
  BY <1>2, <1>3, <1>5, <1>6, <1>7

(* A dial blocks on a question.                                            *)
LEMMA AsksKeepsIInv ==
  ASSUME IInv, NEW d \in Dial, Asks(d), asking[d] = "no", at[d] \in Handshake
  PROVE  IInv'
<1> USE DEF IInv
<1>1. /\ asking' = [asking EXCEPT ![d] = "sends"]
      /\ UNCHANGED <<count, pane, at, answer, pump, pending, auth, answers, cancelled>>
  BY DEF Asks, managerVars, loopVars
<1>2. TypeInv'
  BY <1>1 DEF TypeInv
<1>3. FreshInv'
  BY <1>1 DEF FreshInv, TypeInv, Handshake
<1>4. ASSUME NEW c \in Class, NEW e \in Dial, Open(c, e)
      PROVE  Open(c, e)'
  BY <1>1, <1>4 DEF Open, ClassOf, TypeInv
<1>5. PendingInv' /\ PumpInv'
  BY <1>1, <1>4 DEF PendingInv, PumpInv, TypeInv, Dial
<1>6. AnswerInv'
  BY <1>1 DEF AnswerInv, AnswersStayHome, TypeInv
<1> QED
  BY <1>2, <1>3, <1>5, <1>6

(* The pump receives a question: it is unanswered, and not remembered.     *)
LEMMA PumpTakesKeepsIInv ==
  ASSUME IInv, NEW c \in Class, NEW d \in Dial, PumpTakes(c, d)
  PROVE  IInv'
<1> USE DEF IInv
<1>1. /\ ~cancelled /\ asking[d] = "sends" /\ ClassOf(d) = c
      /\ pump' = [pump EXCEPT ![c] = d]
      /\ asking' = [asking EXCEPT ![d] = "waits"]
      /\ UNCHANGED <<count, pane, at, answer, pending, auth, answers, cancelled>>
  BY DEF PumpTakes, managerVars
<1>2. TypeInv'
  BY <1>1 DEF TypeInv, Dial
<1>3. FreshInv'
  BY <1>1 DEF FreshInv, TypeInv
<1>4. ASSUME NEW b \in Class, NEW e \in Dial, Open(b, e)
      PROVE  Open(b, e)' /\ e # d
  BY <1>1, <1>4 DEF Open, ClassOf, TypeInv
<1>5. Open(c, d)'
  BY <1>1 DEF Open, ClassOf, AnswerInv, TypeInv
<1>6. PendingInv' /\ \A b \in Class, p \in Pane : pending[b][p] # d
  <2>1. d # 0 /\ \A b \in Class, p \in Pane : pending[b][p] # 0 => pending[b][p] \in Dial
    BY DEF Dial, TypeInv
  <2>2. \A b \in Class, p \in Pane : pending[b][p] # d
    BY <1>4, <2>1 DEF PendingInv
  <2>3. PendingInv'
    BY <1>1, <1>4, <2>1 DEF PendingInv
  <2> QED
    BY <2>2, <2>3
<1>7. PumpInv'
  <2> SUFFICES ASSUME NEW b \in Class, pump'[b] # 0
               PROVE  Open(b, pump[b])' /\ \A p \in Pane : pending'[b][p] # pump'[b]
    BY DEF PumpInv
  <2>1. CASE b = c
    BY <1>1, <1>5, <1>6, <2>1 DEF TypeInv
  <2>2. CASE b # c
    <3>1. pump'[b] = pump[b] /\ pump[b] \in Dial
      BY <1>1, <2>2 DEF TypeInv, Dial
    <3> QED
      BY <1>1, <1>4, <3>1 DEF PumpInv
  <2> QED
    BY <2>1, <2>2
<1>8. AnswerInv'
  BY <1>1 DEF AnswerInv, AnswersStayHome, TypeInv
<1> QED
  BY <1>2, <1>3, <1>6, <1>7, <1>8

(* The loop remembers the question the pump carried.                       *)
LEMMA AskKeepsIInv ==
  ASSUME IInv, NEW c \in Class, Ask(c)
  PROVE  IInv'
<1> DEFINE d == pump[c]
<1> USE DEF IInv
<1>1. /\ ~cancelled /\ d # 0
      /\ pending' = [pending EXCEPT ![c][pane[d]] = d]
      /\ auth' = [auth EXCEPT ![pane[d]] = [class |-> c, dial |-> d]]
      /\ pump' = [pump EXCEPT ![c] = 0]
      /\ UNCHANGED <<count, pane, at, asking, answer, answers, cancelled>>
  BY DEF Ask, managerVars, dialVars
<1>2. d \in Dial /\ Open(c, d)
  BY <1>1 DEF PumpInv, TypeInv, Dial
<1> HIDE DEF d
<1>3. \A b \in Class, p \in Pane :
        pending'[b][p] = IF b = c /\ p = pane[d] THEN d ELSE pending[b][p]
  BY <1>1 DEF TypeInv
<1>4. pending' \in [Class -> [Pane -> 0 .. MaxDials]]
  <2>1. pending' = [pending EXCEPT ![c] = [pending[c] EXCEPT ![pane[d]] = d]]
    BY <1>1
  <2>2. [pending[c] EXCEPT ![pane[d]] = d] \in [Pane -> 0 .. MaxDials]
    <3>1. pending[c] \in [Pane -> 0 .. MaxDials] /\ d \in 0 .. MaxDials
      BY <1>2, MaxDialsAssumption DEF TypeInv, Dial
    <3> QED
      BY <3>1
  <2> QED
    BY <2>1, <2>2 DEF TypeInv
<1>5. TypeInv' /\ FreshInv' /\ AnswerInv'
  BY <1>1, <1>4, MaxDialsAssumption DEF TypeInv, FreshInv, AnswerInv, AnswersStayHome
<1>6. \A b \in Class, e \in Dial : Open(b, e)' = Open(b, e)
  BY <1>1 DEF Open, ClassOf
<1>7. PendingInv'
  BY <1>1, <1>2, <1>3, <1>6 DEF PendingInv, TypeInv, Dial
<1>8. PumpInv'
  <2> SUFFICES ASSUME NEW b \in Class, pump'[b] # 0
               PROVE  Open(b, pump[b])' /\ \A p \in Pane : pending'[b][p] # pump'[b]
    BY DEF PumpInv
  <2>1. b # c /\ pump'[b] = pump[b] /\ pump[b] \in Dial
    BY <1>1 DEF TypeInv, Dial
  <2> QED
    BY <1>1, <1>3, <1>6, <2>1 DEF PumpInv
<1> QED
  BY <1>5, <1>7, <1>8

(* The user's line settles some questions on the screen.                   *)
LEMMA SubmitKeepsIInv ==
  ASSUME IInv, NEW scope \in SUBSET Pane, NEW text, Submit(scope, text)
  PROVE  IInv'
<1> DEFINE S == {p \in scope : Settles(auth[p], text)}
<1> USE DEF IInv
<1>1. /\ auth' = [p \in Pane |-> IF p \in S THEN NoQuestion ELSE auth[p]]
      /\ answers' = answers \cup {[pane |-> p, class |-> auth[p].class, dial |-> auth[p].dial,
                                   ok |-> Accepts(auth[p], text)] : p \in S}
      /\ UNCHANGED <<count, pane, at, asking, answer, pump, pending, cancelled>>
  BY DEF Submit, managerVars, dialVars
<1>2. \A p \in S : p \in Pane /\ auth[p].class \in Class /\ Accepts(auth[p], text) \in BOOLEAN
  BY DEF TypeInv, Settles, Accepts
<1>3. TypeInv'
  <2>1. \A a \in answers' : a.class \in Class /\ a.pane \in Pane /\ a.ok \in BOOLEAN
    BY <1>1, <1>2 DEF TypeInv
  <2>2. DOMAIN auth' = Pane /\ \A p \in Pane : auth'[p] # NoQuestion => auth'[p].class \in Class
    BY <1>1 DEF TypeInv
  <2> QED
    BY <1>1, <2>1, <2>2 DEF TypeInv
<1>4. FreshInv' /\ PendingInv' /\ PumpInv' /\ AnswerInv'
  BY <1>1 DEF FreshInv, PendingInv, PumpInv, AnswerInv, AnswersStayHome, Open, ClassOf
<1> QED
  BY <1>3, <1>4

(* An answer reaches the question remembered for its pane: that dial is of *)
(* this pane, and no other entry remembers it.                             *)
LEMMA DeliverKeepsIInv ==
  ASSUME IInv, NEW a \in answers, Deliver(a)
  PROVE  IInv'
<1> DEFINE c == a.class
           p == a.pane
           d == pending[c][p]
<1> USE DEF IInv
<1>1. /\ ~cancelled
      /\ answers' = answers \ {a}
      /\ answer' = IF d = 0 THEN answer ELSE [answer EXCEPT ![d] = [from |-> p, ok |-> a.ok]]
      /\ pending' = [pending EXCEPT ![c][p] = 0]
      /\ UNCHANGED <<count, pane, at, asking, pump, auth, cancelled>>
  BY DEF Deliver, managerVars
<1>2. c \in Class /\ p \in Pane /\ a.ok \in BOOLEAN
  BY DEF TypeInv
<1>3. d # 0 => d \in Dial /\ pane[d] = p /\ Open(c, d) /\ asking[d] = "waits" /\ ClassOf(d) = c
  BY <1>1, <1>2 DEF PendingInv, Open, TypeInv, Dial
<1> HIDE DEF c, p, d
<1>4. \A b \in Class, q \in Pane : pending'[b][q] = IF b = c /\ q = p THEN 0 ELSE pending[b][q]
  BY <1>1 DEF TypeInv
<1>5. \A e \in Dial : e # d => answer'[e] = answer[e]
  BY <1>1, <1>3 DEF TypeInv
<1>6. TypeInv'
  <2>1. pending' \in [Class -> [Pane -> 0 .. MaxDials]]
    <3>1. pending' = [pending EXCEPT ![c] = [pending[c] EXCEPT ![p] = 0]]
      BY <1>1
    <3>2. [pending[c] EXCEPT ![p] = 0] \in [Pane -> 0 .. MaxDials]
      BY <1>2, MaxDialsAssumption DEF TypeInv
    <3> QED
      BY <3>1, <3>2 DEF TypeInv
  <2>2. answer' \in [Dial -> Answer \cup {NoAnswer}]
    BY <1>1, <1>2, <1>3 DEF TypeInv, Answer
  <2> QED
    BY <1>1, <2>1, <2>2 DEF TypeInv
<1>7. FreshInv'
  BY <1>1, <1>3, <1>5 DEF FreshInv
<1>8. ASSUME NEW b \in Class, NEW e \in Dial, Open(b, e), e # d
      PROVE  Open(b, e)'
  BY <1>1, <1>5, <1>8 DEF Open, ClassOf
<1>9. PendingInv'
  <2> SUFFICES ASSUME NEW b \in Class, NEW q \in Pane, pending'[b][q] # 0
               PROVE  (pane[pending[b][q]] = q /\ Open(b, pending[b][q]))'
    BY DEF PendingInv
  <2> DEFINE e == pending[b][q]
  <2>1. pending'[b][q] = e /\ e \in Dial /\ ~(b = c /\ q = p)
    BY <1>4 DEF TypeInv, Dial
  <2>2. pane[e] = q /\ Open(b, e) /\ ClassOf(e) = b
    BY <1>1, <2>1 DEF PendingInv, Open
  <2>3. e # d
    BY <1>3, <2>1, <2>2 DEF Dial
  <2> QED
    BY <1>1, <1>8, <2>1, <2>2, <2>3
<1>10. PumpInv'
  <2> SUFFICES ASSUME NEW b \in Class, pump'[b] # 0
               PROVE  Open(b, pump[b])' /\ \A q \in Pane : pending'[b][q] # pump'[b]
    BY DEF PumpInv
  <2> DEFINE e == pump[b]
  <2>1. pump'[b] = e /\ e \in Dial /\ e # 0
    BY <1>1 DEF TypeInv, Dial
  <2>2. Open(b, e) /\ ClassOf(e) = b /\ \A q \in Pane : pending[b][q] # e
    BY <1>1, <2>1 DEF PumpInv, Open
  <2>3. e # d
    BY <1>2, <1>3, <2>1, <2>2 DEF d
  <2> QED
    BY <1>4, <1>8, <2>1, <2>2, <2>3
<1>11. AnswerInv'
  <2>1. \A e \in Dial : answer'[e] # NoAnswer => answer'[e].from = pane[e] /\ asking[e] = "waits"
    <3> SUFFICES ASSUME NEW e \in Dial, answer'[e] # NoAnswer
                 PROVE  answer'[e].from = pane[e] /\ asking[e] = "waits"
      OBVIOUS
    <3>1. CASE e = d
      BY <1>1, <1>3, <3>1 DEF TypeInv, Dial
    <3>2. CASE e # d
      BY <1>5, <3>2 DEF AnswerInv, AnswersStayHome
    <3> QED
      BY <3>1, <3>2
  <2> QED
    BY <1>1, <2>1 DEF AnswerInv, AnswersStayHome
<1> QED
  BY <1>6, <1>7, <1>9, <1>10, <1>11

(* What a close, the shutdown, the end of a session and a snapshot change  *)
(* is not in the invariant, but for the questions that leave the screen.   *)
LEMMA OthersKeepIInv ==
  ASSUME IInv,
         UNCHANGED <<count, pane, dialVars, pump, pending, answers>>,
         cancelled' \/ cancelled' = cancelled,
         auth' = auth \/ Snapshot
  PROVE  IInv'
<1> USE DEF IInv
<1>1. DOMAIN auth' = Pane /\ \A p \in Pane : auth'[p] = auth[p] \/ auth'[p] = NoQuestion
  BY DEF TypeInv, Snapshot
<1>2. TypeInv' /\ FreshInv' /\ AnswerInv'
  BY <1>1 DEF TypeInv, FreshInv, AnswerInv, AnswersStayHome, dialVars
<1>3. \A c \in Class, d \in Dial : Open(c, d) => Open(c, d)'
  BY DEF Open, ClassOf, dialVars
<1>4. PendingInv' /\ PumpInv'
  BY <1>3 DEF PendingInv, PumpInv, TypeInv, Dial, dialVars
<1> QED
  BY <1>2, <1>4

LEMMA UserKeepsIInv == IInv /\ UserStep => IInv'
<1> SUFFICES ASSUME IInv, UserStep PROVE IInv'
  OBVIOUS
<1>1. ASSUME NEW p \in Pane, Add(p) \/ Reconnect(p)
      PROVE  IInv'
  BY <1>1, NewDialKeepsIInv DEF Add, Reconnect, loopVars
<1>2. ASSUME NEW p \in Pane, CloseOrRemove(p)
      PROVE  IInv'
  BY <1>2, OthersKeepIInv DEF CloseOrRemove, loopVars
<1>3. ASSUME NEW scope \in SUBSET Pane, NEW text, Submit(scope, text)
      PROVE  IInv'
  BY <1>3, SubmitKeepsIInv
<1>4. CASE Shutdown
  BY <1>4, OthersKeepIInv DEF Shutdown, loopVars
<1> QED
  BY <1>1, <1>2, <1>3, <1>4 DEF UserStep

LEMMA DialKeepsIInv == IInv /\ DialStep => IInv'
<1> SUFFICES ASSUME IInv, NEW d \in Dial, DialStarts(d) \/ DialGoesOn(d) \/ ShellRuns(d) \/ SessionEnds(d)
             PROVE  IInv'
  BY DEF DialStep
<1>1. /\ asking[d] # "no" => at[d] \in Handshake
      /\ answer[d] # NoAnswer => asking[d] = "waits"
  BY DEF IInv, AnswerInv
<1>2. {"hostkey", "auth", "shell", "up", "failed"} \subseteq Stage
  BY DEF Stage, Handshake
<1>3. CASE DialStarts(d) \/ DialFails(d) \/ ShellRuns(d)
  <2>1. at[d] # "none" /\ (cancelled \/ asking[d] = "no")
    BY <1>1, <1>3 DEF DialStarts, DialFails, ShellRuns, Handshake
  <2>2. \E s \in Stage : Reaches(d, s)
    BY <1>2, <1>3 DEF DialStarts, DialFails, ShellRuns
  <2> QED
    BY <2>1, <2>2, ReachesKeepsIInv
<1>4. CASE KeyKnown(d) \/ Authenticates(d)
  BY <1>2, <1>4, ReachesKeepsIInv DEF KeyKnown, Authenticates
<1>5. CASE KeyUnknown(d) \/ NeedsSecret(d)
  BY <1>5, AsksKeepsIInv DEF KeyUnknown, NeedsSecret, Handshake
<1>6. CASE KeyAnswered(d) \/ SecretAnswered(d)
  BY <1>2, <1>6, ReachesKeepsIInv DEF KeyAnswered, SecretAnswered, Answered
<1>7. CASE Withdrawn(d)
  BY <1>1, <1>2, <1>7, ReachesKeepsIInv DEF Withdrawn, Handshake
<1>8. CASE SessionEnds(d)
  BY <1>8, OthersKeepIInv DEF SessionEnds, loopVars
<1> QED
  BY <1>3, <1>4, <1>5, <1>6, <1>7, <1>8 DEF DialGoesOn

LEMMA LoopKeepsIInv == IInv /\ LoopStep => IInv'
<1> SUFFICES ASSUME IInv, LoopStep PROVE IInv'
  OBVIOUS
<1>1. CASE Snapshot
  BY <1>1, OthersKeepIInv DEF Snapshot, managerVars
<1> QED
  BY <1>1, PumpTakesKeepsIInv, AskKeepsIInv, DeliverKeepsIInv DEF LoopStep

THEOREM InvariantHolds == Spec => []IInv
<1>1. IInv /\ UNCHANGED vars => IInv'
  BY OthersKeepIInv DEF vars, managerVars, loopVars
<1>2. IInv /\ [Next]_vars => IInv'
  BY <1>1, UserKeepsIInv, DialKeepsIInv, LoopKeepsIInv DEF Next
<1> QED
  BY <1>2, InitIInv, PTL DEF Spec

(* What is typed in a pane answers a dial of that pane, or nobody, however *)
(* reconnects, questions and answers of the same pane overtake each other; *)
(* and the event loop, which every pane shares, never waits for a dial to  *)
(* take an earlier answer out of its channel.                              *)
THEOREM AnswersAreLocal == Spec => []AnswersFindTheirDial
<1>1. IInv => AnswersFindTheirDial
  BY DEF IInv, AnswerInv, PendingInv, Open, LoopNeverBlocks, AnswersFindTheirDial
<1> QED
  BY <1>1, InvariantHolds, PTL


-----------------------------------------------------------------------------
(* No question is lost, and none outlives its dial.  The argument counts:  *)
(* every question on the screen and every answer on its way has a dial     *)
(* that is blocked on it, so that with two of them for one pane two dials  *)
(* of that pane are asking, and are marked as crossed.                     *)

(* The types that the first invariant left out.                            *)
RestInv ==
  /\ pane \in [Dial -> Pane \cup {NoPane}]
  /\ \A d \in 1 .. count : pane[d] \in Pane
  /\ byID \in [Pane -> 0 .. MaxDials]
  /\ over \in [Dial -> BOOLEAN]
  /\ auth \in [Pane -> [class : Class, dial : Dial] \cup {NoQuestion}]
  /\ answers \subseteq [pane : Pane, class : Class, dial : Dial, ok : BOOLEAN]
  /\ crossed \subseteq Dial
  /\ cancelled \in BOOLEAN

(* Two dials of one pane that ask at the same time are marked.             *)
CrossInv ==
  \A d, e \in Dial :
    d # e /\ pane[d] = pane[e] /\ asking[d] # "no" /\ asking[e] # "no" => d \in crossed

(* Every question that is not marked is somewhere, although the screen     *)
(* drops it once its session is not listed, or done.                       *)
OnItsWay(d) ==
  Answerable(d) \/ (pending[ClassOf(d)][pane[d]] = d /\ (byID[pane[d]] # d \/ over[d]))

KeptInv ==
  \A d \in Dial : asking[d] = "waits" /\ d \notin crossed /\ ~cancelled => OnItsWay(d)

(* The dials of pane p that the loop has taken a question of class c from  *)
(* and that nobody has answered; the answers of this class on their way    *)
(* from this pane; and whether it shows such a question.                   *)
Blocked(c, p) ==
  {d \in Dial : /\ pane[d] = p /\ asking[d] = "waits" /\ ClassOf(d) = c
                /\ answer[d] = NoAnswer /\ pump[c] # d}
Owed(c, p) == {a \in answers : a.class = c /\ a.pane = p}
OnScreen(c, p) == IF auth[p].class = c THEN 1 ELSE 0

OwedInv ==
  ~cancelled =>
    \A c \in Class, p \in Pane :
      /\ IsFiniteSet(Owed(c, p))
      /\ Cardinality(Owed(c, p)) + OnScreen(c, p) <= Cardinality(Blocked(c, p))

QInv == RestInv /\ CrossInv /\ KeptInv /\ ScreenHasItsDial /\ OwedInv

LEMMA SomeDialsAreFinite ==
  ASSUME NEW S, S \subseteq Dial
  PROVE  IsFiniteSet(S) /\ Cardinality(S) \in Nat
<1>1. IsFiniteSet(Dial)
  BY MaxDialsAssumption, FS_Interval DEF Dial
<1>2. IsFiniteSet(S)
  BY <1>1, FS_Subset
<1> QED
  BY <1>2, FS_CardinalityType

(* Nothing moves but a question off the screen.                            *)
LEMMA OwedCarriesOver ==
  ASSUME OwedInv, cancelled' \/ cancelled' = cancelled, answers' = answers,
         \A p \in Pane : auth'[p] = auth[p] \/ auth'[p] = NoQuestion,
         \A c \in Class, p \in Pane : Blocked(c, p)' = Blocked(c, p)
  PROVE  OwedInv'
<1> SUFFICES ASSUME ~cancelled', NEW c \in Class, NEW p \in Pane
             PROVE  /\ IsFiniteSet(Owed(c, p)')
                    /\ Cardinality(Owed(c, p)') + OnScreen(c, p)' <= Cardinality(Blocked(c, p)')
  BY DEF OwedInv
<1>1. Owed(c, p)' = Owed(c, p) /\ Blocked(c, p)' = Blocked(c, p)
  BY DEF Owed
<1>2. /\ IsFiniteSet(Owed(c, p)) /\ Cardinality(Owed(c, p)) \in Nat
      /\ Cardinality(Owed(c, p)) + OnScreen(c, p) <= Cardinality(Blocked(c, p))
  BY FS_CardinalityType DEF OwedInv
<1>3. Cardinality(Blocked(c, p)) \in Nat
  BY SomeDialsAreFinite DEF Blocked
<1>4. OnScreen(c, p)' \in {0, 1} /\ OnScreen(c, p) \in {0, 1} /\ OnScreen(c, p)' <= OnScreen(c, p)
  BY DEF OnScreen, NoQuestion, Class
<1> QED
  BY <1>1, <1>2, <1>3, <1>4

(* A question on the screen and an answer on its way are not of one dial.  *)
LEMMA AnotherIsBlocked ==
  ASSUME OwedInv, ~cancelled, NEW c \in Class, NEW p \in Pane, auth[p].class = c,
         NEW a \in Owed(c, p), NEW e
  PROVE  \E f \in Blocked(c, p) : f # e
<1>1. Cardinality(Owed(c, p)) \in Nat \ {0}
  BY FS_CardinalityType, FS_EmptySet DEF OwedInv
<1>2. Cardinality(Owed(c, p)) + 1 <= Cardinality(Blocked(c, p))
  BY DEF OwedInv, OnScreen
<1>3. Cardinality({}) = 0 /\ Cardinality({e}) = 1
  BY FS_EmptySet, FS_Singleton
<1>4. ASSUME Blocked(c, p) = {} \/ Blocked(c, p) = {e} PROVE FALSE
  <2>1. Cardinality(Blocked(c, p)) \in {0, 1}
    BY <1>3, <1>4
  <2> QED
    BY <1>1, <1>2, <2>1
<1> QED
  BY <1>4

LEMMA InitQInv == Init => QInv
<1> SUFFICES ASSUME Init PROVE QInv
  OBVIOUS
<1> USE MaxDialsAssumption DEF Init
<1>1. RestInv
  <2>1. /\ pane \in [Dial -> Pane \cup {NoPane}]
        /\ auth \in [Pane -> [class : Class, dial : Dial] \cup {NoQuestion}]
    OBVIOUS
  <2>2. \A d \in 1 .. count : pane[d] \in Pane
    OBVIOUS
  <2>3. byID \in [Pane -> 0 .. MaxDials] /\ over \in [Dial -> BOOLEAN]
    OBVIOUS
  <2> QED
    BY <2>1, <2>2, <2>3 DEF RestInv
<1>3. CrossInv /\ KeptInv /\ ScreenHasItsDial
  BY DEF CrossInv, KeptInv, ScreenHasItsDial
<1>2. ASSUME NEW c \in Class, NEW p \in Pane
      PROVE  /\ IsFiniteSet(Owed(c, p))
             /\ Cardinality(Owed(c, p)) + OnScreen(c, p) <= Cardinality(Blocked(c, p))
  <2>1. Owed(c, p) = {} /\ Blocked(c, p) = {} /\ OnScreen(c, p) = 0
    BY DEF Owed, Blocked, OnScreen, Class, NoQuestion
  <2> QED
    BY <2>1, FS_EmptySet
<1> QED
  BY <1>1, <1>2, <1>3 DEF QInv, OwedInv

(* A new session: it is not asking, and the one before it is not listed.   *)
LEMMA NewDialKeepsQInv ==
  ASSUME IInv, QInv, ~cancelled, NEW p \in Pane, NewDial(p),
         UNCHANGED <<asking, answer, pump, pending, auth, answers, crossed, cancelled>>,
         over' = over \/ over' = [over EXCEPT ![byID[p]] = TRUE]
  PROVE  QInv'
<1> DEFINE new == count + 1
<1> USE MaxDialsAssumption DEF IInv, QInv
<1>1. /\ count \in Nat /\ new \in Dial /\ count' = new
      /\ pane' = [pane EXCEPT ![new] = p]
      /\ byID' = [byID EXCEPT ![p] = new]
      /\ at' = [at EXCEPT ![new] = "queued"]
  BY DEF NewDial, TypeInv, Dial
<1>2. asking[new] = "no"
  BY <1>1 DEF FreshInv
<1>3. \A d \in Dial : d # new => pane'[d] = pane[d] /\ ClassOf(d)' = ClassOf(d)
  BY <1>1 DEF TypeInv, ClassOf
<1>4. over' \in [Dial -> BOOLEAN] /\ \A d \in Dial : over[d] => over'[d]
  BY DEF RestInv
<1>5. RestInv'
  <2>1. pane' \in [Dial -> Pane \cup {NoPane}] /\ byID' \in [Pane -> 0 .. MaxDials]
    BY <1>1 DEF RestInv, Dial
  <2>2. ASSUME NEW d \in 1 .. new PROVE pane'[d] \in Pane
    BY <1>1, <2>2 DEF RestInv, Dial
  <2> QED
    BY <1>1, <1>4, <2>1, <2>2 DEF RestInv
<1>6. CrossInv'
  BY <1>2, <1>3 DEF CrossInv
<1>7. KeptInv'
  <2> SUFFICES ASSUME NEW d \in Dial, asking[d] = "waits", d \notin crossed
               PROVE  OnItsWay(d)'
    BY DEF KeptInv
  <2>1. d # new /\ OnItsWay(d)
    BY <1>2 DEF KeptInv
  <2>2. byID[pane[d]] # d => byID'[pane[d]] # d
    BY <1>1, <2>1 DEF RestInv
  <2> QED
    BY <1>3, <1>4, <2>1, <2>2 DEF OnItsWay, Answerable
<1>8. ScreenHasItsDial'
  BY <1>2, <1>3 DEF ScreenHasItsDial, RestInv
<1>9. \A b \in Class, q \in Pane : Blocked(b, q)' = Blocked(b, q)
  BY <1>2, <1>3 DEF Blocked
<1>10. OwedInv'
  BY <1>9, OwedCarriesOver
<1> QED
  BY <1>5, <1>6, <1>7, <1>8, <1>10

(* A dial goes on: it had no question, or the answer to it, or the run is  *)
(* over.                                                                   *)
LEMMA ReachesKeepsQInv ==
  ASSUME IInv, QInv, NEW d \in Dial, NEW s \in Stage, Reaches(d, s),
         cancelled \/ asking[d] = "no" \/ answer[d] # NoAnswer
  PROVE  QInv'
<1> USE DEF IInv, QInv
<1>1. /\ at' = [at EXCEPT ![d] = s]
      /\ over' = [over EXCEPT ![d] = @ \/ s = "failed"]
      /\ asking' = [asking EXCEPT ![d] = "no"]
      /\ answer' = [answer EXCEPT ![d] = NoAnswer]
      /\ UNCHANGED <<count, pane, byID, pump, pending, auth, answers, crossed, cancelled>>
  BY DEF Reaches, loopVars
<1>2. asking'[d] = "no"
  BY <1>1 DEF TypeInv
<1>3. \A e \in Dial : e # d => /\ asking'[e] = asking[e] /\ answer'[e] = answer[e]
                               /\ over'[e] = over[e] /\ ClassOf(e)' = ClassOf(e)
  BY <1>1 DEF TypeInv, RestInv, ClassOf
<1>4. RestInv'
  <2>1. over' \in [Dial -> BOOLEAN]
    BY <1>1 DEF RestInv
  <2> QED
    BY <1>1, <2>1 DEF RestInv
<1>5. CrossInv'
  BY <1>1, <1>2, <1>3 DEF CrossInv
<1>6. KeptInv'
  <2> SUFFICES ASSUME NEW e \in Dial, asking'[e] = "waits", e \notin crossed, ~cancelled
               PROVE  OnItsWay(e)'
    BY <1>1 DEF KeptInv
  <2>1. e # d /\ OnItsWay(e)
    BY <1>2, <1>3 DEF KeptInv
  <2> QED
    BY <1>1, <1>3, <2>1 DEF OnItsWay, Answerable
<1>7. ScreenHasItsDial'
  <2> SUFFICES ASSUME NEW p \in Pane, NEW c, NEW e, auth[p] # NoQuestion,
                      c = auth[p].class, e = auth[p].dial, e \notin crossed, ~cancelled
               PROVE  asking'[e] = "waits" /\ ClassOf(e)' = c /\ pending[c][p] = e
    BY <1>1 DEF ScreenHasItsDial, ClassOf
  <2>1. e \in Dial /\ c \in Class
    BY DEF RestInv
  <2>2. asking[e] = "waits" /\ ClassOf(e) = c /\ pending[c][p] = e
    BY DEF ScreenHasItsDial
  <2>3. answer[e] = NoAnswer
    BY <2>1, <2>2 DEF PendingInv, Open, Dial
  <2>4. e # d
    BY <2>2, <2>3
  <2> QED
    BY <1>3, <2>1, <2>2, <2>4
<1>8. CASE ~cancelled
  <2>1. d \notin Blocked(ClassOf(d), pane[d])
    BY <1>8 DEF Blocked
  <2>2. \A b \in Class, q \in Pane : Blocked(b, q)' = Blocked(b, q)
    BY <1>1, <1>2, <1>3, <1>8 DEF Blocked
  <2> QED
    BY <1>1, <1>4, <1>5, <1>6, <1>7, <2>2, OwedCarriesOver
<1>9. CASE cancelled
  BY <1>1, <1>4, <1>5, <1>6, <1>7, <1>9 DEF OwedInv
<1> QED
  BY <1>8, <1>9

(* A dial blocks on a question: with another one of its pane, both are     *)
(* marked.                                                                 *)
LEMMA AsksKeepsQInv ==
  ASSUME IInv, QInv, NEW d \in Dial, Asks(d), asking[d] = "no"
  PROVE  QInv'
<1> DEFINE others == {e \in Dial : e # d /\ pane[e] = pane[d] /\ asking[e] # "no"}
<1> USE DEF IInv, QInv
<1>1. /\ asking' = [asking EXCEPT ![d] = "sends"]
      /\ crossed' = IF others = {} THEN crossed ELSE crossed \cup others \cup {d}
      /\ UNCHANGED <<count, pane, byID, over, at, answer, pump, pending, auth, answers, cancelled>>
  BY DEF Asks, managerVars, loopVars
<1>2. /\ crossed \subseteq crossed' /\ crossed' \subseteq Dial
      /\ \A e \in others : e \in crossed' /\ d \in crossed'
  BY <1>1 DEF RestInv
<1>3. \A e \in Dial : /\ e # d => asking'[e] = asking[e]
                      /\ ClassOf(e)' = ClassOf(e)
                      /\ (asking'[e] = "waits") = (asking[e] = "waits")
  BY <1>1 DEF TypeInv, ClassOf
<1>4. RestInv'
  BY <1>1, <1>2 DEF RestInv
<1>5. CrossInv'
  BY <1>1, <1>2, <1>3 DEF CrossInv
<1>6. KeptInv'
  BY <1>1, <1>2, <1>3 DEF KeptInv, OnItsWay, Answerable
<1>7. ScreenHasItsDial'
  BY <1>1, <1>2, <1>3 DEF ScreenHasItsDial, RestInv
<1>8. \A b \in Class, q \in Pane : Blocked(b, q)' = Blocked(b, q)
  BY <1>1, <1>3 DEF Blocked
<1>9. OwedInv'
  BY <1>1, <1>8, OwedCarriesOver
<1> QED
  BY <1>4, <1>5, <1>6, <1>7, <1>9

(* The pump carries the question of dial d now.                            *)
LEMMA PumpTakesKeepsQInv ==
  ASSUME IInv, QInv, NEW c \in Class, NEW d \in Dial, PumpTakes(c, d)
  PROVE  QInv'
<1> USE DEF IInv, QInv
<1>1. /\ ~cancelled /\ pump[c] = 0 /\ asking[d] = "sends" /\ ClassOf(d) = c
      /\ pump' = [pump EXCEPT ![c] = d]
      /\ asking' = [asking EXCEPT ![d] = "waits"]
      /\ UNCHANGED <<count, pane, byID, over, at, answer, pending, auth, answers, crossed, cancelled>>
  BY DEF PumpTakes, managerVars
<1>2. \A e \in Dial : /\ e # d => asking'[e] = asking[e]
                      /\ ClassOf(e)' = ClassOf(e)
  BY <1>1 DEF TypeInv, ClassOf
<1>3. /\ asking'[d] = "waits"
      /\ \A b \in Class : pump'[b] = IF b = c THEN d ELSE pump[b]
  BY <1>1 DEF TypeInv
<1>4. RestInv'
  BY <1>1 DEF RestInv
<1>5. CrossInv'
  BY <1>1, <1>2 DEF CrossInv
<1>6. KeptInv'
  <2> SUFFICES ASSUME NEW e \in Dial, asking'[e] = "waits", e \notin crossed
               PROVE  OnItsWay(e)'
    BY <1>1 DEF KeptInv
  <2>1. CASE e = d
    BY <1>1, <1>2, <1>3, <2>1 DEF OnItsWay, Answerable
  <2>2. CASE e # d
    <3>1. OnItsWay(e) /\ ClassOf(e) \in Class
      BY <1>1, <1>2, <2>2 DEF KeptInv, ClassOf, Class
    <3>2. pump[ClassOf(e)] = e => ClassOf(e) # c
      BY <1>1 DEF Dial
    <3> QED
      BY <1>1, <1>2, <1>3, <3>1, <3>2 DEF OnItsWay, Answerable
  <2> QED
    BY <2>1, <2>2
<1>7. ScreenHasItsDial'
  BY <1>1, <1>2 DEF ScreenHasItsDial, RestInv
<1>8. ASSUME NEW b \in Class, NEW q \in Pane
      PROVE  Blocked(b, q)' = Blocked(b, q)
  <2>1. \A e \in Dial : e # d /\ ClassOf(e) = b => (pump'[b] # e) = (pump[b] # e)
    BY <1>1, <1>3 DEF Dial
  <2> QED
    BY <1>1, <1>2, <1>3, <2>1 DEF Blocked
<1>9. OwedInv'
  BY <1>1, <1>8, OwedCarriesOver
<1> QED
  BY <1>4, <1>5, <1>6, <1>7, <1>9

(* The question is the pane's now, and on its screen; a question that it   *)
(* displaces is of another dial of the pane, and both are marked.          *)
LEMMA AskKeepsQInv ==
  ASSUME IInv, QInv, NEW c \in Class, Ask(c)
  PROVE  QInv'
<1> DEFINE d == pump[c]
           p == pane[d]
<1> USE DEF IInv, QInv
<1>1. /\ ~cancelled /\ d # 0
      /\ pending' = [pending EXCEPT ![c][p] = d]
      /\ auth' = [auth EXCEPT ![p] = [class |-> c, dial |-> d]]
      /\ pump' = [pump EXCEPT ![c] = 0]
      /\ UNCHANGED <<count, pane, byID, over, at, asking, answer, answers, crossed, cancelled>>
  BY DEF Ask, managerVars, dialVars
<1>2. d \in Dial /\ asking[d] = "waits" /\ ClassOf(d) = c /\ answer[d] = NoAnswer
  BY <1>1 DEF PumpInv, Open, TypeInv, Dial
<1>3. p \in Pane
  <2>1. ~(d > count) /\ count \in Nat
    BY <1>2, MaxDialsAssumption DEF FreshInv, TypeInv
  <2>2. d \in 1 .. count
    BY <1>2, <2>1 DEF Dial
  <2> QED
    BY <2>2 DEF RestInv
<1>4. \A b \in Class : pump'[b] = (IF b = c THEN 0 ELSE pump[b]) /\ pump[c] = d
  BY <1>1 DEF TypeInv
<1> HIDE DEF d, p
<1>5. /\ \A b \in Class, q \in Pane : pending'[b][q] = IF b = c /\ q = p THEN d ELSE pending[b][q]
      /\ \A q \in Pane : auth'[q] = IF q = p THEN [class |-> c, dial |-> d] ELSE auth[q]
  BY <1>1 DEF TypeInv, RestInv
<1>6. \A e \in Dial : ClassOf(e)' = ClassOf(e) /\ ClassOf(e) \in Class
  BY <1>1 DEF ClassOf, Class
<1>7. RestInv'
  <2>1. auth' \in [Pane -> [class : Class, dial : Dial] \cup {NoQuestion}]
    BY <1>1, <1>2 DEF RestInv
  <2> QED
    BY <1>1, <2>1 DEF RestInv
<1>8. CrossInv'
  BY <1>1 DEF CrossInv
<1>9. KeptInv'
  <2> SUFFICES ASSUME NEW e \in Dial, asking[e] = "waits", e \notin crossed
               PROVE  OnItsWay(e)'
    BY <1>1 DEF KeptInv
  <2>1. CASE e = d
    BY <1>1, <1>2, <1>3, <1>5, <1>6, <2>1 DEF OnItsWay, Answerable, p
  <2>2. CASE e # d
    <3>1. OnItsWay(e) /\ pane[e] # p
      BY <1>1, <1>2, <2>2 DEF KeptInv, CrossInv, p
    <3>2. pane[e] \in Pane
      <4>1. ~(e > count) /\ count \in Nat
        BY MaxDialsAssumption DEF FreshInv, TypeInv
      <4>2. e \in 1 .. count
        BY <4>1 DEF Dial
      <4> QED
        BY <4>2 DEF RestInv
    <3>3. /\ pending'[ClassOf(e)][pane[e]] = pending[ClassOf(e)][pane[e]]
          /\ auth'[pane[e]] = auth[pane[e]]
          /\ pump[ClassOf(e)] = e => pump'[ClassOf(e)] = e
      BY <1>4, <1>5, <1>6, <2>2, <3>1, <3>2
    <3> QED
      BY <1>1, <1>6, <3>1, <3>3 DEF OnItsWay, Answerable
  <2> QED
    BY <2>1, <2>2
<1>10. ScreenHasItsDial'
  <2> SUFFICES ASSUME NEW q \in Pane, NEW b, NEW e, auth'[q] # NoQuestion,
                      b = auth'[q].class, e = auth'[q].dial, e \notin crossed
               PROVE  asking[e] = "waits" /\ ClassOf(e)' = b /\ pending'[b][q] = e
    BY <1>1 DEF ScreenHasItsDial, ClassOf
  <2>1. CASE q = p
    BY <1>2, <1>5, <1>6, <2>1
  <2>2. CASE q # p
    <3>1. auth'[q] = auth[q] /\ e \in Dial /\ b \in Class
      BY <1>5, <2>2 DEF RestInv
    <3>2. asking[e] = "waits" /\ ClassOf(e) = b /\ pending[b][q] = e
      BY <1>1, <3>1 DEF ScreenHasItsDial
    <3> QED
      BY <1>5, <1>6, <2>2, <3>1, <3>2
  <2> QED
    BY <2>1, <2>2
<1>11. OwedInv'
  <2> SUFFICES ASSUME NEW b \in Class, NEW q \in Pane
               PROVE  /\ IsFiniteSet(Owed(b, q)')
                      /\ Cardinality(Owed(b, q)') + OnScreen(b, q)' <= Cardinality(Blocked(b, q)')
    BY DEF OwedInv
  <2>1. /\ IsFiniteSet(Owed(b, q)) /\ Cardinality(Owed(b, q)) \in Nat
        /\ Cardinality(Owed(b, q)) + OnScreen(b, q) <= Cardinality(Blocked(b, q))
        /\ IsFiniteSet(Blocked(b, q)) /\ Cardinality(Blocked(b, q)) \in Nat
        /\ Owed(b, q)' = Owed(b, q)
    <3>1. Owed(b, q)' = Owed(b, q) /\ Blocked(b, q) \subseteq Dial
      BY <1>1 DEF Owed, Blocked
    <3> QED
      BY <1>1, <3>1, SomeDialsAreFinite, FS_CardinalityType DEF OwedInv
  <2>2. OnScreen(b, q)' \in {0, 1} /\ OnScreen(b, q) \in {0, 1}
    BY DEF OnScreen
  <2>3. CASE b = c /\ q = p
    <3>1. d \notin Blocked(b, q) /\ Blocked(b, q)' = Blocked(b, q) \cup {d}
      BY <1>1, <1>2, <1>4, <1>6, <2>3 DEF Blocked, Dial, p
    <3>2. Cardinality(Blocked(b, q)') = Cardinality(Blocked(b, q)) + 1
      BY <2>1, <3>1, FS_AddElement
    <3> QED
      BY <2>1, <2>2, <3>2
  <2>4. CASE ~(b = c /\ q = p)
    <3>1. Blocked(b, q)' = Blocked(b, q)
      BY <1>1, <1>4, <1>6, <2>4 DEF Blocked, Dial, p
    <3>2. OnScreen(b, q)' <= OnScreen(b, q)
      BY <1>5, <2>2, <2>4 DEF OnScreen
    <3> QED
      BY <2>1, <2>2, <3>1, <3>2
  <2> QED
    BY <2>3, <2>4
<1> QED
  BY <1>7, <1>8, <1>9, <1>10, <1>11

(* A question that leaves the screen for its answer is still owed to the   *)
(* same pane.                                                              *)
LEMMA SubmitKeepsQInv ==
  ASSUME IInv, QInv, NEW scope \in SUBSET Pane, NEW text, Submit(scope, text)
  PROVE  QInv'
<1> DEFINE S == {p \in scope : Settles(auth[p], text)}
           typed(p) == [pane |-> p, class |-> auth[p].class, dial |-> auth[p].dial,
                        ok |-> Accepts(auth[p], text)]
<1> USE DEF IInv, QInv
<1>1. /\ auth' = [p \in Pane |-> IF p \in S THEN NoQuestion ELSE auth[p]]
      /\ answers' = answers \cup {typed(p) : p \in S}
      /\ UNCHANGED <<count, pane, byID, over, at, asking, answer, pump, pending, crossed, cancelled>>
  BY DEF Submit, managerVars, dialVars
<1>2. \A p \in S : p \in Pane /\ auth[p] # NoQuestion
  BY DEF Settles
<1>3. \A p \in S : auth[p].class \in Class /\ auth[p].dial \in Dial /\ Accepts(auth[p], text) \in BOOLEAN
  BY <1>2 DEF RestInv, Accepts
<1> HIDE DEF S
<1>4. \A p \in S : typed(p) \in [pane : Pane, class : Class, dial : Dial, ok : BOOLEAN]
  BY <1>2, <1>3
<1>5. RestInv'
  <2>1. answers' \subseteq [pane : Pane, class : Class, dial : Dial, ok : BOOLEAN]
    BY <1>1, <1>4 DEF RestInv
  <2>2. auth' \in [Pane -> [class : Class, dial : Dial] \cup {NoQuestion}]
    BY <1>1 DEF RestInv
  <2> QED
    BY <1>1, <2>1, <2>2 DEF RestInv
<1>6. CrossInv'
  BY <1>1 DEF CrossInv
<1>7. \A d \in Dial : ClassOf(d)' = ClassOf(d) /\ ClassOf(d) \in Class
  BY <1>1 DEF ClassOf, Class
<1>8. KeptInv'
  <2> SUFFICES ASSUME NEW d \in Dial, asking[d] = "waits", d \notin crossed, ~cancelled
               PROVE  OnItsWay(d)'
    BY <1>1 DEF KeptInv
  <2> DEFINE p == pane[d]
             c == ClassOf(d)
  <2>1. OnItsWay(d)
    BY DEF KeptInv
  <2>2. CASE pending[c][p] = d /\ auth[p] = [class |-> c, dial |-> d]
    <3>1. CASE p \in S
      <4>1. typed(p) \in answers' /\ typed(p).class = c /\ typed(p).pane = p
        BY <1>1, <2>2, <3>1
      <4> HIDE DEF typed
      <4> QED
        BY <1>1, <1>7, <2>2, <4>1 DEF OnItsWay, Answerable
    <3>2. CASE p \notin S
      <4>1. d \in 1 .. count
        <5>1. ~(d > count) /\ count \in Nat
          BY MaxDialsAssumption DEF FreshInv, TypeInv
        <5> QED
          BY <5>1 DEF Dial
      <4>2. auth'[p] = auth[p]
        BY <1>1, <3>2, <4>1 DEF RestInv
      <4> QED
        BY <1>1, <1>7, <2>2, <4>2 DEF OnItsWay, Answerable
    <3> QED
      BY <3>1, <3>2
  <2>3. CASE ~(pending[c][p] = d /\ auth[p] = [class |-> c, dial |-> d])
    BY <1>1, <1>7, <2>1, <2>3 DEF OnItsWay, Answerable
  <2> QED
    BY <2>2, <2>3
<1>9. ScreenHasItsDial'
  BY <1>1, <1>7 DEF ScreenHasItsDial, RestInv, ClassOf
<1>10. OwedInv'
  <2> SUFFICES ASSUME ~cancelled, NEW c \in Class, NEW p \in Pane
               PROVE  /\ IsFiniteSet(Owed(c, p)')
                      /\ Cardinality(Owed(c, p)') + OnScreen(c, p)' <= Cardinality(Blocked(c, p)')
    BY <1>1 DEF OwedInv
  <2>1. Blocked(c, p)' = Blocked(c, p) /\ Cardinality(Blocked(c, p)) \in Nat
    <3>1. Blocked(c, p)' = Blocked(c, p) /\ Blocked(c, p) \subseteq Dial
      BY <1>1, <1>7 DEF Blocked
    <3> QED
      BY <3>1, SomeDialsAreFinite
  <2>2. /\ IsFiniteSet(Owed(c, p)) /\ Cardinality(Owed(c, p)) \in Nat
        /\ Cardinality(Owed(c, p)) + OnScreen(c, p) <= Cardinality(Blocked(c, p))
    BY FS_CardinalityType DEF OwedInv
  <2>3. CASE p \in S /\ auth[p].class = c
    <3>1. Owed(c, p)' = Owed(c, p) \cup {typed(p)}
      BY <1>1, <2>3 DEF Owed
    <3>2. /\ IsFiniteSet(Owed(c, p)') /\ Cardinality(Owed(c, p)') \in Nat
          /\ Cardinality(Owed(c, p)') <= Cardinality(Owed(c, p)) + 1
      <4> HIDE DEF typed
      <4>1. /\ IsFiniteSet(Owed(c, p) \cup {typed(p)})
            /\ \/ Cardinality(Owed(c, p) \cup {typed(p)}) = Cardinality(Owed(c, p))
               \/ Cardinality(Owed(c, p) \cup {typed(p)}) = Cardinality(Owed(c, p)) + 1
        BY <2>2, FS_AddElement
      <4> QED
        BY <2>2, <3>1, <4>1
    <3>3. OnScreen(c, p) = 1 /\ OnScreen(c, p)' = 0
      BY <1>1, <2>3 DEF OnScreen, NoQuestion, Class
    <3> QED
      BY <2>1, <2>2, <3>2, <3>3
  <2>4. CASE ~(p \in S /\ auth[p].class = c)
    <3>1. Owed(c, p)' = Owed(c, p)
      BY <1>1, <2>4 DEF Owed
    <3>2. OnScreen(c, p) \in {0, 1} /\ OnScreen(c, p)' \in {0, 1} /\ OnScreen(c, p)' <= OnScreen(c, p)
      BY <1>1, <2>4 DEF OnScreen, NoQuestion, Class
    <3> QED
      BY <2>1, <2>2, <3>1, <3>2
  <2> QED
    BY <2>3, <2>4
<1> QED
  BY <1>5, <1>6, <1>8, <1>9, <1>10

(* The answer reaches the dial that is remembered; if another question of  *)
(* this kind is on the pane's screen by now, two of its dials are asking.  *)
LEMMA DeliverKeepsQInv ==
  ASSUME IInv, QInv, NEW a \in answers, Deliver(a)
  PROVE  QInv'
<1> DEFINE c == a.class
           p == a.pane
           d == pending[c][p]
<1> USE DEF IInv, QInv
<1>1. /\ ~cancelled
      /\ answers' = answers \ {a}
      /\ answer' = IF d = 0 THEN answer ELSE [answer EXCEPT ![d] = [from |-> p, ok |-> a.ok]]
      /\ pending' = [pending EXCEPT ![c][p] = 0]
      /\ UNCHANGED <<count, pane, byID, over, at, asking, pump, auth, crossed, cancelled>>
  BY DEF Deliver, managerVars
<1>2. c \in Class /\ p \in Pane /\ a \in Owed(c, p)
  BY DEF TypeInv, Owed
<1>3. d # 0 => /\ d \in Dial /\ pane[d] = p /\ answer[d] = NoAnswer
               /\ asking[d] = "waits" /\ ClassOf(d) = c /\ pump[c] # d
  BY <1>1, <1>2 DEF PendingInv, PumpInv, Open, TypeInv, Dial
<1>4. d # 0 => answer'[d] # NoAnswer
  BY <1>1, <1>2, <1>3, PaneAssumption DEF TypeInv, NoAnswer
<1> HIDE DEF c, p, d
<1>5. \A b \in Class, q \in Pane : pending'[b][q] = IF b = c /\ q = p THEN 0 ELSE pending[b][q]
  BY <1>1 DEF TypeInv
<1>6. \A e \in Dial : e # d => answer'[e] = answer[e]
  BY <1>1, <1>3 DEF TypeInv
<1>7. \A e \in Dial : ClassOf(e)' = ClassOf(e) /\ ClassOf(e) \in Class
  BY <1>1 DEF ClassOf, Class
<1>8. RestInv' /\ CrossInv'
  BY <1>1 DEF RestInv, CrossInv
<1>9. KeptInv'
  <2> SUFFICES ASSUME NEW e \in Dial, asking[e] = "waits", e \notin crossed
               PROVE  OnItsWay(e)'
    BY <1>1 DEF KeptInv
  <2>1. OnItsWay(e) /\ pane[e] \in Pane
    <3>1. ~(e > count) /\ count \in Nat
      BY MaxDialsAssumption DEF FreshInv, TypeInv
    <3>2. e \in 1 .. count
      BY <3>1 DEF Dial
    <3> QED
      BY <1>1, <3>2 DEF KeptInv, RestInv
  <2>2. CASE e = d
    <3>1. answer'[e] # NoAnswer
      BY <1>4, <2>2 DEF Dial
    <3> QED
      BY <3>1 DEF OnItsWay, Answerable
  <2>3. CASE e # d
    <3>1. answer'[e] = answer[e] /\ pump' = pump
      BY <1>1, <1>6, <2>3
    <3>2. CASE pending[ClassOf(e)][pane[e]] = e
      <4>1. ~(ClassOf(e) = c /\ pane[e] = p) /\ pending'[ClassOf(e)][pane[e]] = e
        BY <1>5, <1>7, <2>1, <2>3, <3>2 DEF d
      <4>2. ASSUME NEW b \in answers, b.class = ClassOf(e), b.pane = pane[e]
            PROVE  b \in answers'
        BY <1>1, <4>1, <4>2 DEF c, p
      <4> QED
        BY <1>1, <1>7, <2>1, <3>1, <4>1, <4>2 DEF OnItsWay, Answerable
    <3>3. CASE pending[ClassOf(e)][pane[e]] # e
      BY <1>7, <2>1, <3>1, <3>3 DEF OnItsWay, Answerable
    <3> QED
      BY <3>2, <3>3
  <2> QED
    BY <2>2, <2>3
<1>10. ScreenHasItsDial'
  <2> SUFFICES ASSUME NEW q \in Pane, NEW b, NEW e, auth[q] # NoQuestion,
                      b = auth[q].class, e = auth[q].dial, e \notin crossed
               PROVE  asking[e] = "waits" /\ ClassOf(e)' = b /\ pending'[b][q] = e
    BY <1>1 DEF ScreenHasItsDial, ClassOf
  <2>1. e \in Dial /\ b \in Class
    BY DEF RestInv
  <2>2. asking[e] = "waits" /\ ClassOf(e) = b /\ pending[b][q] = e
    BY <1>1 DEF ScreenHasItsDial
  <2>3. ~(b = c /\ q = p)
    <3> SUFFICES ASSUME b = c, q = p PROVE FALSE
      OBVIOUS
    <3>1. e = d /\ pane[e] = p
      BY <1>3, <2>1, <2>2 DEF d, Dial
    <3>4. OwedInv /\ ~cancelled /\ auth[p].class = c
      BY <1>1
    <3>2. PICK f \in Blocked(c, p) : f # e
      <4>1. a \in Owed(c, p) /\ c \in Class /\ p \in Pane
        BY <1>2
      <4> HIDE DEF IInv, QInv
      <4> QED
        BY <3>4, <4>1, AnotherIsBlocked
    <3>3. e \in crossed
      BY <2>1, <2>2, <3>1, <3>2 DEF CrossInv, Blocked
    <3> QED
      BY <3>3
  <2> QED
    BY <1>5, <1>7, <2>1, <2>2, <2>3
<1>11. OwedInv'
  <2> SUFFICES ASSUME NEW b \in Class, NEW q \in Pane
               PROVE  /\ IsFiniteSet(Owed(b, q)')
                      /\ Cardinality(Owed(b, q)') + OnScreen(b, q)' <= Cardinality(Blocked(b, q)')
    BY DEF OwedInv
  <2>1. /\ IsFiniteSet(Owed(b, q)) /\ Cardinality(Owed(b, q)) \in Nat
        /\ Cardinality(Owed(b, q)) + OnScreen(b, q) <= Cardinality(Blocked(b, q))
        /\ IsFiniteSet(Blocked(b, q)) /\ Cardinality(Blocked(b, q)) \in Nat
        /\ OnScreen(b, q)' = OnScreen(b, q) /\ OnScreen(b, q) \in {0, 1}
    <3>1. Blocked(b, q) \subseteq Dial /\ OnScreen(b, q)' = OnScreen(b, q) /\ OnScreen(b, q) \in {0, 1}
      BY <1>1 DEF Blocked, OnScreen
    <3> QED
      BY <1>1, <3>1, SomeDialsAreFinite, FS_CardinalityType DEF OwedInv
  <2>2. CASE b = c /\ q = p
    <3>1. Owed(b, q)' = Owed(b, q) \ {a} /\ a \in Owed(b, q)
      BY <1>1, <1>2, <2>2 DEF Owed
    <3>2. IsFiniteSet(Owed(b, q)') /\ Cardinality(Owed(b, q)') = Cardinality(Owed(b, q)) - 1
      BY <2>1, <3>1, FS_RemoveElement
    <3>3. Blocked(b, q)' = Blocked(b, q) \/ Blocked(b, q)' = Blocked(b, q) \ {d}
      BY <1>1, <1>4, <1>6, <1>7 DEF Blocked, Dial
    <3>4. /\ Cardinality(Blocked(b, q)') \in Nat
          /\ Cardinality(Blocked(b, q)) - 1 <= Cardinality(Blocked(b, q)')
      <4>1. /\ Cardinality(Blocked(b, q) \ {d}) \in {Cardinality(Blocked(b, q)), Cardinality(Blocked(b, q)) - 1}
            /\ Cardinality(Blocked(b, q) \ {d}) \in Nat
        BY <2>1, FS_RemoveElement, FS_CardinalityType
      <4>2. CASE Blocked(b, q)' = Blocked(b, q)
        BY <2>1, <4>2
      <4>3. CASE Blocked(b, q)' = Blocked(b, q) \ {d}
        <5>1. Cardinality(Blocked(b, q)') = Cardinality(Blocked(b, q) \ {d})
          BY <4>3
        <5> QED
          BY <2>1, <4>1, <5>1
      <4> QED
        BY <3>3, <4>2, <4>3
    <3> QED
      BY <2>1, <3>2, <3>4
  <2>3. CASE ~(b = c /\ q = p)
    <3>1. Owed(b, q)' = Owed(b, q)
      BY <1>1, <2>3 DEF Owed, c, p
    <3>2. \A e \in Dial : pane[e] = q /\ ClassOf(e) = b => e # d
      BY <1>3, <2>3 DEF Dial
    <3>3. Blocked(b, q)' = Blocked(b, q)
      BY <1>1, <1>6, <1>7, <3>2 DEF Blocked
    <3> QED
      BY <2>1, <3>1, <3>3
  <2> QED
    BY <2>2, <2>3
<1> QED
  BY <1>8, <1>9, <1>10, <1>11

(* A close, a removal, the shutdown, the end of a session; and a question  *)
(* leaves the screen whose session is not listed, or done.                 *)
LEMMA OthersKeepQInv ==
  ASSUME IInv, QInv, UNCHANGED <<count, pane, dialVars, pump, pending, answers, crossed>>,
         cancelled' \in BOOLEAN, cancelled => cancelled',
         over' \in [Dial -> BOOLEAN], \A d \in Dial : over[d] => over'[d],
         byID' = byID \/ \E p \in Pane : byID' = [byID EXCEPT ![p] = 0],
         auth' = auth \/ (Snapshot /\ UNCHANGED <<byID, over>>)
  PROVE  QInv'
<1> USE MaxDialsAssumption DEF IInv, QInv
<1>1. UNCHANGED <<at, asking, answer>>
  BY DEF dialVars
<1>2. \A p \in Pane : auth'[p] = auth[p] \/ (auth'[p] = NoQuestion /\ (byID'[p] = 0 \/ over'[byID'[p]]))
  BY DEF Snapshot
<1>3. auth' \in [Pane -> [class : Class, dial : Dial] \cup {NoQuestion}]
  BY DEF Snapshot, RestInv
<1>4. byID' \in [Pane -> 0 .. MaxDials] /\ \A p \in Pane : byID'[p] = byID[p] \/ byID'[p] = 0
  BY DEF RestInv
<1>5. RestInv' /\ CrossInv'
  BY <1>1, <1>3, <1>4 DEF RestInv, CrossInv
<1>6. \A d \in Dial : ClassOf(d)' = ClassOf(d)
  BY <1>1 DEF ClassOf
<1>7. KeptInv'
  <2> SUFFICES ASSUME NEW d \in Dial, asking[d] = "waits", d \notin crossed, ~cancelled
               PROVE  OnItsWay(d)'
    BY <1>1 DEF KeptInv
  <2>1. OnItsWay(d) /\ pane[d] \in Pane /\ d # 0
    <3>1. ~(d > count) /\ count \in Nat
      BY DEF FreshInv, TypeInv
    <3>2. d \in 1 .. count
      BY <3>1 DEF Dial
    <3> QED
      BY <3>2 DEF KeptInv, RestInv
  <2>2. byID[pane[d]] # d => byID'[pane[d]] # d
    BY <1>4, <2>1
  <2>3. auth'[pane[d]] = auth[pane[d]] \/ byID'[pane[d]] # d \/ over'[d]
    BY <1>2, <2>1
  <2> QED
    BY <1>1, <1>6, <2>1, <2>2, <2>3 DEF OnItsWay, Answerable
<1>8. ScreenHasItsDial'
  BY <1>1, <1>2 DEF ScreenHasItsDial, ClassOf
<1>9. OwedInv'
  <2>1. \A c \in Class, p \in Pane : Blocked(c, p)' = Blocked(c, p)
    BY <1>1, <1>6 DEF Blocked
  <2> QED
    BY <1>2, <2>1, OwedCarriesOver DEF RestInv
<1> QED
  BY <1>5, <1>7, <1>8, <1>9

LEMMA UserKeepsQInv == IInv /\ QInv /\ UserStep => QInv'
<1> SUFFICES ASSUME IInv, QInv, UserStep PROVE QInv'
  OBVIOUS
<1>1. ASSUME NEW p \in Pane, Add(p) \/ Reconnect(p)
      PROVE  QInv'
  BY <1>1, NewDialKeepsQInv DEF Add, Reconnect, loopVars
<1>2. ASSUME NEW p \in Pane, CloseOrRemove(p)
      PROVE  QInv'
  <2>1. /\ over' \in [Dial -> BOOLEAN] /\ \A d \in Dial : over[d] => over'[d]
        /\ byID' = byID \/ byID' = [byID EXCEPT ![p] = 0]
        /\ cancelled' \in BOOLEAN
    BY <1>2 DEF CloseOrRemove, QInv, RestInv
  <2> QED
    BY <1>2, <2>1, OthersKeepQInv DEF CloseOrRemove, loopVars
<1>3. ASSUME NEW scope \in SUBSET Pane, NEW text, Submit(scope, text)
      PROVE  QInv'
  BY <1>3, SubmitKeepsQInv
<1>4. CASE Shutdown
  <2>1. over' \in [Dial -> BOOLEAN] /\ \A d \in Dial : over[d] => over'[d]
    BY <1>4 DEF Shutdown, QInv, RestInv
  <2> QED
    BY <1>4, <2>1, OthersKeepQInv DEF Shutdown, loopVars
<1> QED
  BY <1>1, <1>2, <1>3, <1>4 DEF UserStep

LEMMA DialKeepsQInv == IInv /\ QInv /\ DialStep => QInv'
<1> SUFFICES ASSUME IInv, QInv, NEW d \in Dial, DialStarts(d) \/ DialGoesOn(d) \/ ShellRuns(d) \/ SessionEnds(d)
             PROVE  QInv'
  BY DEF DialStep
<1>1. /\ asking[d] # "no" => at[d] \in Handshake
      /\ answer[d] # NoAnswer => asking[d] = "waits"
  BY DEF IInv, AnswerInv
<1>2. {"hostkey", "auth", "shell", "up", "failed"} \subseteq Stage
  BY DEF Stage, Handshake
<1>3. CASE DialStarts(d) \/ DialFails(d) \/ ShellRuns(d)
  <2>1. cancelled \/ asking[d] = "no"
    BY <1>1, <1>3 DEF DialStarts, DialFails, ShellRuns, Handshake
  <2>2. \E s \in Stage : Reaches(d, s)
    BY <1>2, <1>3 DEF DialStarts, DialFails, ShellRuns
  <2> QED
    BY <2>1, <2>2, ReachesKeepsQInv
<1>4. CASE KeyKnown(d) \/ Authenticates(d)
  BY <1>2, <1>4, ReachesKeepsQInv DEF KeyKnown, Authenticates
<1>5. CASE KeyUnknown(d) \/ NeedsSecret(d)
  BY <1>5, AsksKeepsQInv DEF KeyUnknown, NeedsSecret
<1>6. CASE KeyAnswered(d) \/ SecretAnswered(d)
  BY <1>2, <1>6, ReachesKeepsQInv DEF KeyAnswered, SecretAnswered, Answered
<1>7. CASE Withdrawn(d)
  BY <1>2, <1>7, ReachesKeepsQInv DEF Withdrawn
<1>8. CASE SessionEnds(d)
  <2>1. over' \in [Dial -> BOOLEAN] /\ \A e \in Dial : over[e] => over'[e]
    BY <1>8 DEF SessionEnds, QInv, RestInv
  <2> QED
    BY <1>8, <2>1, OthersKeepQInv DEF SessionEnds, loopVars, QInv, RestInv
<1> QED
  BY <1>3, <1>4, <1>5, <1>6, <1>7, <1>8 DEF DialGoesOn

LEMMA LoopKeepsQInv == IInv /\ QInv /\ LoopStep => QInv'
<1> SUFFICES ASSUME IInv, QInv, LoopStep PROVE QInv'
  OBVIOUS
<1>1. CASE Snapshot
  BY <1>1, OthersKeepQInv DEF Snapshot, managerVars, QInv, RestInv
<1> QED
  BY <1>1, PumpTakesKeepsQInv, AskKeepsQInv, DeliverKeepsQInv DEF LoopStep

(* A question of a session that is listed and being dialled is in the      *)
(* pump, on the screen of its pane, or its answer is on the way; and what  *)
(* a screen shows is asked by the dial the answer will go to, until two    *)
(* dials of one pane ask at once: however questions, answers, reconnects,  *)
(* removals and the reading of the fleet interleave.                       *)
THEOREM QuestionsAreNotLost == Spec => []QuestionsAreKept
<1>1. IInv /\ QInv /\ UNCHANGED vars => QInv'
  BY OthersKeepQInv DEF vars, managerVars, loopVars, QInv, RestInv
<1>2. IInv /\ QInv /\ [Next]_vars => QInv'
  BY <1>1, UserKeepsQInv, DialKeepsQInv, LoopKeepsQInv DEF Next
<1>3. ASSUME IInv, QInv PROVE QuestionsAreKept
  <2>1. TypeOK
    BY <1>3 DEF IInv, QInv, TypeInv, RestInv, TypeOK
  <2>2. NoLiveQuestionIsLost
    BY <1>3 DEF QInv, KeptInv, OnItsWay, NoLiveQuestionIsLost
  <2> QED
    BY <1>3, <2>1, <2>2 DEF QInv, QuestionsAreKept
<1> QED
  BY <1>2, <1>3, InitQInv, InvariantHolds, PTL DEF Spec

=============================================================================
