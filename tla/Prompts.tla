------------------------------ MODULE Prompts ------------------------------
(***************************************************************************)
(* The questions of a login: a dialling session that meets an unknown host *)
(* key, or needs a password, a passphrase or an answer, blocks until the   *)
(* user has typed it into its pane.  A question crosses an unbuffered      *)
(* channel and a pump into the event loop, which remembers it by pane and  *)
(* puts it on the screen; the answer comes back as a message that names    *)
(* the pane, and releases the dial through a buffered channel              *)
(* (internal/program/hostkey.go, secretprompt.go, internal/ui/authpane.go, *)
(* internal/ssh/auth.go, knownhosts.go).                                   *)
(*                                                                         *)
(* A dial is one session's Start; a pane has a new session, and a new      *)
(* dial, after each reconnect.  How a reconnect and a close interleave     *)
(* with a dial is module Fleet; here each is one step.                     *)
(***************************************************************************)
EXTENDS Integers, FiniteSets

CONSTANTS
  Pane,              \* the session identifiers
  NoPane,            \* not a pane
  MaxDials,          \* bound of the model: sessions ever dialled
  MaxParallelDials   \* ManagerConfig.MaxParallelDials

ASSUME PaneAssumption == Pane # {} /\ NoPane \notin Pane
ASSUME MaxDialsAssumption == MaxDials \in Nat \ {0}
ASSUME MaxParallelDialsAssumption == MaxParallelDials \in Nat \ {0}

VARIABLES
  count,      \* dials created so far
  pane,       \* pane[d]: the session identifier of dial d
  byID,       \* the dial of each pane's listed session, 0 when it is not listed
  over,       \* over[d]: the session's state is final, failed or closed
  at,         \* at[d]: how far Start has come
  asking,     \* asking[d]: "no", "sends" its question, "waits" for the answer
  answer,     \* answer[d]: the answer in the question's channel
  pump,       \* pump[c]: the dial whose question the pump carries, 0 when armed
  pending,    \* pending[c][p]: the dial that answers to pane p are for
  auth,       \* auth[p]: the question on the screen in pane p
  answers,    \* the answer messages on their way to the event loop
  crossed,    \* history: dials asking while another of their pane was
  cancelled   \* the run's context is cancelled

managerVars == <<count, pane, byID, over>>
dialVars    == <<at, asking, answer>>
loopVars    == <<pump, pending, auth, answers>>
vars == <<managerVars, dialVars, loopVars, crossed, cancelled>>

Dial == 1 .. MaxDials
Class == {"key", "secret"}
NoQuestion == [class |-> "none", dial |-> 0]
NoAnswer == [from |-> NoPane, ok |-> FALSE]
Answer == [from : Pane, ok : BOOLEAN]

(* A dial holds its slot from the TCP connection on: the host's key is     *)
(* verified, the user is authenticated, and the shell is requested.        *)
Handshake == {"hostkey", "auth"}
Stage == Handshake \cup {"none", "queued", "shell", "up", "failed"}

TypeOK ==
  /\ count \in 0 .. MaxDials
  /\ pane \in [Dial -> Pane \cup {NoPane}]
  /\ byID \in [Pane -> 0 .. MaxDials]
  /\ over \in [Dial -> BOOLEAN]
  /\ at \in [Dial -> Stage]
  /\ asking \in [Dial -> {"no", "sends", "waits"}]
  /\ answer \in [Dial -> Answer \cup {NoAnswer}]
  /\ pump \in [Class -> 0 .. MaxDials]
  /\ pending \in [Class -> [Pane -> 0 .. MaxDials]]
  /\ auth \in [Pane -> [class : Class, dial : Dial] \cup {NoQuestion}]
  /\ answers \subseteq [pane : Pane, class : Class, dial : Dial, ok : BOOLEAN]
  /\ crossed \subseteq Dial
  /\ cancelled \in BOOLEAN

Init ==
  /\ count = 0
  /\ pane = [d \in Dial |-> NoPane]
  /\ byID = [p \in Pane |-> 0]
  /\ over = [d \in Dial |-> FALSE]
  /\ at = [d \in Dial |-> "none"]
  /\ asking = [d \in Dial |-> "no"]
  /\ answer = [d \in Dial |-> NoAnswer]
  /\ pump = [c \in Class |-> 0]
  /\ pending = [c \in Class |-> [p \in Pane |-> 0]]
  /\ auth = [p \in Pane |-> NoQuestion]
  /\ answers = {}
  /\ crossed = {}
  /\ cancelled = FALSE

ClassOf(d) == IF at[d] = "hostkey" THEN "key" ELSE "secret"
InSlot == {d \in Dial : at[d] \in Handshake \cup {"shell"}}

-----------------------------------------------------------------------------
(* A session for pane p, queued for dialling.                              *)
NewDial(p) ==
  LET d == count + 1
  IN  /\ count < MaxDials
      /\ count' = d
      /\ pane' = [pane EXCEPT ![d] = p]
      /\ byID' = [byID EXCEPT ![p] = d]
      /\ at' = [at EXCEPT ![d] = "queued"]

Add(p) ==
  /\ ~cancelled /\ byID[p] = 0
  /\ NewDial(p)
  /\ UNCHANGED <<over, asking, answer, loopVars, crossed, cancelled>>

(* Reconnect: the old session is closed, whatever its dial is at, and a    *)
(* new one is dialled in its place.                                        *)
Reconnect(p) ==
  /\ ~cancelled /\ byID[p] # 0
  /\ NewDial(p)
  /\ over' = [over EXCEPT ![byID[p]] = TRUE]
  /\ UNCHANGED <<asking, answer, loopVars, crossed, cancelled>>

(* Close, or Remove on a session that is done already.  Neither touches    *)
(* the dial: the prompts run under the context of the run.                 *)
CloseOrRemove(p) ==
  /\ ~cancelled /\ byID[p] # 0
  /\ IF over[byID[p]]
       THEN byID' = [byID EXCEPT ![p] = 0] /\ UNCHANGED over
       ELSE over' = [over EXCEPT ![byID[p]] = TRUE] /\ UNCHANGED byID
  /\ UNCHANGED <<count, pane, dialVars, loopVars, crossed, cancelled>>

(* The UI has ended: the context is cancelled and every session closed.    *)
Shutdown ==
  /\ ~cancelled
  /\ cancelled' = TRUE
  /\ over' = [d \in Dial |-> over[d] \/ \E p \in Pane : byID[p] = d]
  /\ UNCHANGED <<count, pane, byID, dialVars, loopVars, crossed>>

-----------------------------------------------------------------------------
(* The dial: startOne and Start.                                           *)

(* Dial d comes to stage s without, or after, a question.                  *)
Reaches(d, s) ==
  /\ at' = [at EXCEPT ![d] = s]
  /\ over' = [over EXCEPT ![d] = @ \/ s = "failed"]
  /\ asking' = [asking EXCEPT ![d] = "no"]
  /\ answer' = [answer EXCEPT ![d] = NoAnswer]
  /\ UNCHANGED <<count, pane, byID, loopVars, crossed, cancelled>>

(* A slot, the TCP connection, and the key exchange up to the host's key.  *)
DialStarts(d) ==
  /\ at[d] = "queued" /\ ~cancelled
  /\ Cardinality(InSlot) < MaxParallelDials
  /\ Reaches(d, "hostkey")

(* The dial stops waiting for a slot, or the handshake fails, because of   *)
(* the host, the deadline or the cancelled context.                        *)
DialFails(d) ==
  /\ \/ at[d] = "queued" /\ cancelled
     \/ at[d] \in Handshake \cup {"shell"} /\ asking[d] = "no"
  /\ Reaches(d, "failed")

(* The shell runs and Start returns.                                       *)
ShellRuns(d) ==
  /\ at[d] = "shell"
  /\ Reaches(d, "up")

SessionEnds(d) ==
  /\ at[d] = "up" /\ ~over[d]
  /\ over' = [over EXCEPT ![d] = TRUE]
  /\ UNCHANGED <<count, pane, byID, dialVars, loopVars, crossed, cancelled>>

(* Dial d blocks on its question: in the first select of ConfirmHostKey or *)
(* of ask.                                                                 *)
Asks(d) ==
  LET others == {e \in Dial : e # d /\ pane[e] = pane[d] /\ asking[e] # "no"}
  IN  /\ asking' = [asking EXCEPT ![d] = "sends"]
      /\ crossed' = IF others = {} THEN crossed ELSE crossed \cup others \cup {d}
      /\ UNCHANGED <<managerVars, at, answer, loopVars, cancelled>>

(* The host key callback knows the key, or has to ask.  A key it refuses   *)
(* without a question is one of the ways the handshake fails.  What the    *)
(* known_hosts files and the keys accepted in this run decide is left to   *)
(* the environment.                                                        *)
KeyKnown(d) == at[d] = "hostkey" /\ asking[d] = "no" /\ Reaches(d, "auth")

KeyUnknown(d) == at[d] = "hostkey" /\ asking[d] = "no" /\ Asks(d)

(* The methods of authentication: each is settled without the user, by the *)
(* agent, a plain key or a cached secret, or asks for a passphrase, a      *)
(* password or the answer to the host's question, and the host decides     *)
(* whether another one follows.                                            *)
Authenticates(d) == at[d] = "auth" /\ asking[d] = "no" /\ Reaches(d, "shell")

NeedsSecret(d) == at[d] = "auth" /\ asking[d] = "no" /\ Asks(d)

Answered(d) == asking[d] = "waits" /\ answer[d] # NoAnswer

(* The answer to a host key question: yes remembers the key, which may     *)
(* fail, and the handshake goes on; no fails it.                           *)
KeyAnswered(d) ==
  /\ Answered(d) /\ at[d] = "hostkey"
  /\ Reaches(d, "failed") \/ (answer[d].ok /\ Reaches(d, "auth"))

(* The answer to any other question: a secret to try, or a cancel that     *)
(* fails the method; the authentication goes on with what is left.         *)
SecretAnswered(d) ==
  /\ Answered(d) /\ at[d] = "auth"
  /\ Reaches(d, "auth")

(* Defect: the second select does not watch the context.                   *)
Withdrawn_NotWhileWaiting(d) ==
  /\ asking[d] = "sends" /\ cancelled
  /\ Reaches(d, "failed")

(* The run is over: the question is withdrawn and the dial fails.          *)
Withdrawn(d) ==
  /\ asking[d] # "no" /\ cancelled
  /\ Reaches(d, "failed")

-----------------------------------------------------------------------------
(* The event loop and its pumps, until the run is over.                    *)

(* Defect: the pump is armed again only when no question is unanswered.    *)
PumpTakes_OneAtATime(c, d) ==
  /\ ~cancelled /\ pump[c] = 0
  /\ \A p \in Pane : pending[c][p] = 0
  /\ asking[d] = "sends" /\ ClassOf(d) = c
  /\ pump' = [pump EXCEPT ![c] = d]
  /\ asking' = [asking EXCEPT ![d] = "waits"]
  /\ UNCHANGED <<managerVars, at, answer, pending, auth, answers, crossed, cancelled>>

(* promptPump, secretPump: the armed pump receives a question.             *)
PumpTakes(c, d) ==
  /\ ~cancelled /\ pump[c] = 0
  /\ asking[d] = "sends" /\ ClassOf(d) = c
  /\ pump' = [pump EXCEPT ![c] = d]
  /\ asking' = [asking EXCEPT ![d] = "waits"]
  /\ UNCHANGED <<managerVars, at, answer, pending, auth, answers, crossed, cancelled>>

(* Defect: the question is remembered without its pane, so the last one is *)
(* the one every pane answers.                                             *)
Ask_OneForAll(c) ==
  LET d == pump[c]
  IN  /\ ~cancelled /\ d # 0
      /\ pending' = [pending EXCEPT ![c] = [p \in Pane |-> d]]
      /\ auth' = [auth EXCEPT ![pane[d]] = [class |-> c, dial |-> d]]
      /\ pump' = [pump EXCEPT ![c] = 0]
      /\ UNCHANGED <<managerVars, dialVars, answers, crossed, cancelled>>

(* askHostKey, askSecret: the question is remembered as its pane's, shown  *)
(* there, and the pump is armed again.                                     *)
Ask(c) ==
  LET d == pump[c]
  IN  /\ ~cancelled /\ d # 0
      /\ pending' = [pending EXCEPT ![c][pane[d]] = d]
      /\ auth' = [auth EXCEPT ![pane[d]] = [class |-> c, dial |-> d]]
      /\ pump' = [pump EXCEPT ![c] = 0]
      /\ UNCHANGED <<managerVars, dialVars, answers, crossed, cancelled>>

(* submitAuth, cancelAuth: "yes" and "no" answer any question, "other"     *)
(* only asks a host key question again, and "esc" cancels.                 *)
Settles(q, text) == q # NoQuestion /\ (q.class = "secret" \/ text # "other")
Accepts(q, text) == text = "yes" \/ (q.class = "secret" /\ text # "esc")

(* Defect: cancelling in the broadcast line drops the answer message.      *)
Submit_CancelIsSilent(scope, text) ==
  LET S == {p \in scope : Settles(auth[p], text)}
  IN  /\ ~cancelled /\ S # {}
      /\ auth' = [p \in Pane |-> IF p \in S THEN NoQuestion ELSE auth[p]]
      /\ answers' = IF text = "esc" /\ Cardinality(scope) > 1 THEN answers ELSE
           answers \cup {[pane |-> p, class |-> auth[p].class, dial |-> auth[p].dial,
                          ok |-> Accepts(auth[p], text)] : p \in S}
      /\ UNCHANGED <<managerVars, dialVars, pump, pending, crossed, cancelled>>

(* The user's line goes to one pane, or through the broadcast line to all  *)
(* of a scope's: each question it settles leaves the screen, and a message *)
(* of its own carries the answer.                                          *)
Submit(scope, text) ==
  LET S == {p \in scope : Settles(auth[p], text)}
  IN  /\ ~cancelled /\ S # {}
      /\ auth' = [p \in Pane |-> IF p \in S THEN NoQuestion ELSE auth[p]]
      /\ answers' = answers \cup {[pane |-> p, class |-> auth[p].class, dial |-> auth[p].dial,
                                   ok |-> Accepts(auth[p], text)] : p \in S}
      /\ UNCHANGED <<managerVars, dialVars, pump, pending, crossed, cancelled>>

(* answerHostKey, answerSecret: the answer goes into the channel of the    *)
(* question that is remembered for the pane, if one is.  The channel holds *)
(* one answer; the loop would block on a second.                           *)
Deliver(a) ==
  LET d == pending[a.class][a.pane]
  IN  /\ ~cancelled /\ a \in answers
      /\ d # 0 => answer[d] = NoAnswer
      /\ answers' = answers \ {a}
      /\ answer' = IF d = 0 THEN answer
                   ELSE [answer EXCEPT ![d] = [from |-> a.pane, ok |-> a.ok]]
      /\ pending' = [pending EXCEPT ![a.class][a.pane] = 0]
      /\ UNCHANGED <<managerVars, at, asking, pump, auth, crossed, cancelled>>

(* snapshotFleet: a question whose session is gone or done leaves the      *)
(* screen.                                                                 *)
Snapshot ==
  /\ ~cancelled
  /\ auth' = [p \in Pane |-> IF byID[p] = 0 \/ over[byID[p]] THEN NoQuestion ELSE auth[p]]
  /\ auth' # auth
  /\ UNCHANGED <<managerVars, dialVars, pump, pending, answers, crossed, cancelled>>

-----------------------------------------------------------------------------
UserStep ==
  \/ \E p \in Pane : Add(p) \/ Reconnect(p) \/ CloseOrRemove(p)
  \/ \E scope \in SUBSET Pane, text \in {"yes", "no", "other", "esc"} : Submit(scope, text)
  \/ Shutdown

DialGoesOn(d) ==
  \/ DialFails(d) \/ KeyKnown(d) \/ KeyUnknown(d) \/ Authenticates(d) \/ NeedsSecret(d)
  \/ KeyAnswered(d) \/ SecretAnswered(d) \/ Withdrawn(d)

DialStep ==
  \E d \in Dial : DialStarts(d) \/ DialGoesOn(d) \/ ShellRuns(d) \/ SessionEnds(d)

LoopStep ==
  \/ \E c \in Class : (\E d \in Dial : PumpTakes(c, d)) \/ Ask(c)
  \/ \E a \in answers : Deliver(a)
  \/ Snapshot

Next == UserStep \/ DialStep \/ LoopStep

Spec == Init /\ [][Next]_vars

(* The goroutines of the dials, the pumps and the event loop run, and the  *)
(* channel serves the dials that are blocked on it in turn.  The           *)
(* handshake ends by itself: its deadline bounds every step of it but a    *)
(* question.  Nothing is assumed of the user, nor of a host that has       *)
(* accepted the login and owes the shell.                                  *)
Fairness ==
  /\ \A d \in Dial : WF_vars(DialStarts(d)) /\ WF_vars(DialGoesOn(d))
  /\ \A c \in Class : WF_vars(Ask(c)) /\ \A d \in Dial : SF_vars(PumpTakes(c, d))
  /\ \A c \in Class, p \in Pane :
       WF_vars(\E a \in answers : a.class = c /\ a.pane = p /\ Deliver(a))

FairSpec == Spec /\ Fairness

-----------------------------------------------------------------------------
(* An answer is the one typed in the pane whose dial asked: no dial is     *)
(* released by what was typed for another pane.                            *)
AnswersStayHome ==
  \A d \in Dial : answer[d] # NoAnswer => answer[d].from = pane[d]

(* The event loop never blocks on an answer: the question it is for has an *)
(* empty channel.                                                          *)
LoopNeverBlocks ==
  \A c \in Class, p \in Pane : pending[c][p] # 0 => answer[pending[c][p]] = NoAnswer

(* Together: one question, one answer - to the dial of the pane it was     *)
(* typed in, without holding the loop (answerHostKey, answerSecret).       *)
AnswersFindTheirDial == AnswersStayHome /\ LoopNeverBlocks

(* The question of dial d can still be answered: the pump carries it, or   *)
(* the loop remembers it and it is on the screen, or its answer is on the  *)
(* way.                                                                    *)
Answerable(d) ==
  LET c == ClassOf(d)
  IN  \/ pump[c] = d
      \/ answer[d] # NoAnswer
      \/ /\ pending[c][pane[d]] = d
         /\ \/ auth[pane[d]] = [class |-> c, dial |-> d]
            \/ \E a \in answers : a.class = c /\ a.pane = pane[d]

(* The question of a listed session that is still being dialled is never   *)
(* lost, wherever it is, unless an earlier dial of the same pane was       *)
(* asking at the same time.                                                *)
NoLiveQuestionIsLost ==
  \A d \in Dial :
    asking[d] = "waits" /\ byID[pane[d]] = d /\ ~over[d] /\ d \notin crossed /\ ~cancelled
      => Answerable(d)

(* What a pane shows is asked by somebody: an answer typed into it reaches *)
(* the dial it was typed for, unless two dials of the pane were asking.    *)
ScreenHasItsDial ==
  \A p \in Pane :
    LET q == auth[p]
    IN  q # NoQuestion /\ q.dial \notin crossed /\ ~cancelled
          => asking[q.dial] = "waits" /\ ClassOf(q.dial) = q.class /\ pending[q.class][p] = q.dial

(* Together: question, pane and dial belong to each other from the ask to  *)
(* the answer (secretPrompter.ask, addAuth, submitAuth, pruneAuth).        *)
QuestionsAreKept == TypeOK /\ NoLiveQuestionIsLost /\ ScreenHasItsDial

(* A question reaches the event loop without waiting for the answer to     *)
(* another one.                                                            *)
EveryQuestionIsShown ==
  \A d \in Dial : asking[d] = "sends" ~> asking[d] # "sends"

(* The run's end withdraws every question.                                 *)
NoQuestionOutlivesTheRun ==
  \A d \in Dial : asking[d] # "no" /\ cancelled ~> asking[d] = "no"

UserAnswers == \A p \in Pane : auth[p] # NoQuestion ~> auth[p] = NoQuestion
ShellsStart == \A d \in Dial : at[d] = "shell" ~> at[d] # "shell"

(* Claimed by ConfirmHostKey: "a run shutting down, or that session being  *)
(* closed, withdraws the question" (hostkey.go:39-41): also while the      *)
(* user answers everything the screen asks.                                *)
CloseWithdraws ==
  UserAnswers /\ ShellsStart
    => \A d \in Dial : asking[d] # "no" /\ over[d] ~> asking[d] = "no"
=============================================================================
