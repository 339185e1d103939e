------------------------------- MODULE Fleet -------------------------------
(***************************************************************************)
(* The session manager (internal/ssh/manager.go): the list of sessions and *)
(* its index by identifier, the bounded dialling, and Add, Reconnect,      *)
(* ReconnectAll, Close, Remove and the shutdown's CloseAll, which the      *)
(* program runs concurrently, each in a tea.Cmd of its own                 *)
(* (internal/program/program.go, cmd/lazycssh/main.go).                    *)
(*                                                                         *)
(* A session is an incarnation, numbered in order of creation: Reconnect   *)
(* replaces the incarnation behind an identifier and hands its emulator    *)
(* to the new one.  What happens inside a session is module Session; here  *)
(* Start and Close are the steps another command can come between.         *)
(***************************************************************************)
EXTENDS Integers, Sequences, FiniteSets

CONSTANTS
  Alias,             \* the hosts' aliases
  MaxSessions,       \* bound of the model: incarnations ever created
  MaxParallelDials   \* ManagerConfig.MaxParallelDials

ASSUME AliasAssumption == Alias # {}
ASSUME MaxSessionsAssumption == MaxSessions \in Nat \ {0}
ASSUME MaxParallelDialsAssumption == MaxParallelDials \in Nat \ {0}

VARIABLES
  count,       \* incarnations created so far
  sid,         \* sid[i]: the identifier of incarnation i
  list,        \* m.sessions: incarnations in host order
  byID,        \* m.byID: identifier to incarnation
  over,        \* over[i]: its state is final, failed or closed
  dial,        \* dial[i]: its startOne goroutine: "none", "queued", "dialing", "returned"
  conn,        \* conn[i]: its connection is open
  closing,     \* closing[i]: its Close: "no"; under way, and the connection was
               \* "found" or "missed"; "returned"
  emuOf,       \* emuOf[i]: its terminal emulator
  released,    \* released[i]: ReleaseTerminal was called
  emuClosed,   \* the emulators that were closed
  cmds,        \* the commands in flight
  redials,     \* identifiers ReconnectAll has still to redial
  asked,       \* history: sessions the user, or the shutdown, asked to end
  cancelled    \* the run's context is cancelled

indexVars == <<sid, list, byID>>
dialVars  == <<over, dial, conn>>
emuVars   == <<emuOf, released, emuClosed>>
cmdVars   == <<cmds, redials, asked, cancelled>>
vars == <<count, indexVars, dialVars, closing, emuVars, cmdVars>>

Inc == 1 .. MaxSessions
ID == Alias \X Inc            \* <<alias, n>>: alias, or alias#n from n = 2 on
NoID == <<>>

(* A command that closes session "on".  "fresh" is the session a Reconnect *)
(* will dial afterwards, 0 for any other command; "closes" marks the one   *)
(* caller that got into the session's closeOnce.                           *)
Cmd == [on : Inc, fresh : 0 .. MaxSessions, closes : BOOLEAN]
Closing(i) == [on |-> i, fresh |-> 0, closes |-> FALSE]

TypeOK ==
  /\ count \in 0 .. MaxSessions
  /\ sid \in [Inc -> ID \cup {NoID}]
  /\ list \in Seq(Inc)
  /\ byID \in [ID -> 0 .. MaxSessions]
  /\ over \in [Inc -> BOOLEAN]
  /\ dial \in [Inc -> {"none", "queued", "dialing", "returned"}]
  /\ conn \in [Inc -> BOOLEAN]
  /\ closing \in [Inc -> {"no", "found", "missed", "returned"}]
  /\ emuOf \in [Inc -> 0 .. MaxSessions]
  /\ released \in [Inc -> BOOLEAN]
  /\ emuClosed \subseteq Inc
  /\ cmds \subseteq Cmd
  /\ redials \subseteq ID
  /\ asked \subseteq Inc
  /\ cancelled \in BOOLEAN

Init ==
  /\ count = 0
  /\ sid = [i \in Inc |-> NoID]
  /\ list = <<>>
  /\ byID = [id \in ID |-> 0]
  /\ over = [i \in Inc |-> FALSE]
  /\ dial = [i \in Inc |-> "none"]
  /\ conn = [i \in Inc |-> FALSE]
  /\ closing = [i \in Inc |-> "no"]
  /\ emuOf = [i \in Inc |-> 0]
  /\ released = [i \in Inc |-> FALSE]
  /\ emuClosed = {}
  /\ cmds = {}
  /\ redials = {}
  /\ asked = {}
  /\ cancelled = FALSE

-----------------------------------------------------------------------------
Known(id) == byID[id] # 0
Listed(s) == {s[k] : k \in DOMAIN s}
Live == {byID[id] : id \in {k \in ID : Known(k)}}
Dialing == {i \in Inc : dial[i] = "dialing"}

(* Defect: the number is taken from how often the alias is running.        *)
UniqueID_Counts(a) ==
  <<a, 1 + Cardinality({n \in Inc : Known(<<a, n>>)})>>

(* uniqueID: the alias itself, or the alias with the first free number.    *)
UniqueID(a) ==
  <<a, CHOOSE n \in Inc : ~Known(<<a, n>>) /\ \A m \in 1 .. n - 1 : Known(<<a, m>>)>>

(* Add: a session for one more host, queued for dialling.                  *)
Add(a) ==
  LET i == count + 1
      id == UniqueID(a)
  IN  /\ ~cancelled
      /\ count < MaxSessions
      /\ count' = i
      /\ sid' = [sid EXCEPT ![i] = id]
      /\ list' = Append(list, i)
      /\ byID' = [byID EXCEPT ![id] = i]
      /\ emuOf' = [emuOf EXCEPT ![i] = i]
      /\ dial' = [dial EXCEPT ![i] = "queued"]
      /\ UNCHANGED <<over, conn, closing, released, emuClosed, cmdVars>>

(* Defect: the fresh session is put at the end of the list.                *)
Swap_MovesToEnd(id) ==
  LET old == byID[id]
      i == count + 1
      e == emuOf[old]
  IN  /\ Known(id)
      /\ count < MaxSessions
      /\ count' = i
      /\ released' = [released EXCEPT ![old] = TRUE]
      /\ sid' = [sid EXCEPT ![i] = id]
      /\ emuOf' = [emuOf EXCEPT ![i] = e]
      /\ byID' = [byID EXCEPT ![id] = i]
      /\ list' = Append(SelectSeq(list, LAMBDA j : sid[j] # id), i)
      /\ cmds' = cmds \cup {[on |-> old, fresh |-> i, closes |-> FALSE]}
      /\ UNCHANGED <<dialVars, closing, emuClosed, asked, cancelled>>

(* Defect: the fresh session is given the emulator of its own alias's      *)
(* first session.                                                          *)
Swap_SharesScreen(id) ==
  LET old == byID[id]
      i == count + 1
      e == emuOf[CHOOSE j \in Inc : emuOf[j] # 0 /\ sid[j][1] = id[1]]
  IN  /\ Known(id)
      /\ count < MaxSessions
      /\ count' = i
      /\ released' = [released EXCEPT ![old] = TRUE]
      /\ sid' = [sid EXCEPT ![i] = id]
      /\ emuOf' = [emuOf EXCEPT ![i] = e]
      /\ byID' = [byID EXCEPT ![id] = i]
      /\ list' = [k \in DOMAIN list |-> IF sid[list[k]] = id THEN i ELSE list[k]]
      /\ cmds' = cmds \cup {[on |-> old, fresh |-> i, closes |-> FALSE]}
      /\ UNCHANGED <<dialVars, closing, emuClosed, asked, cancelled>>

(* The first critical section of Reconnect: the old session's emulator is  *)
(* released and marked with a separator, and a fresh session that adopts   *)
(* it takes the old one's place.  It is not dialled yet.                   *)
Swap(id) ==
  LET old == byID[id]
      i == count + 1
      e == emuOf[old]
  IN  /\ Known(id)
      /\ count < MaxSessions
      /\ count' = i
      /\ released' = [released EXCEPT ![old] = TRUE]
      /\ sid' = [sid EXCEPT ![i] = id]
      /\ emuOf' = [emuOf EXCEPT ![i] = e]
      /\ byID' = [byID EXCEPT ![id] = i]
      /\ list' = [k \in DOMAIN list |-> IF sid[list[k]] = id THEN i ELSE list[k]]
      /\ cmds' = cmds \cup {[on |-> old, fresh |-> i, closes |-> FALSE]}
      /\ UNCHANGED <<dialVars, closing, emuClosed, asked, cancelled>>

Reconnect(id) == ~cancelled /\ Swap(id) /\ UNCHANGED redials

(* ReconnectAll: the sessions that are done now, one goroutine each.       *)
(* Bound: one ReconnectAll at a time.                                      *)
ReconnectAll ==
  /\ ~cancelled /\ redials = {}
  /\ redials' = {sid[i] : i \in {j \in Live : over[j]}}
  /\ redials' # {}
  /\ UNCHANGED <<count, indexVars, dialVars, closing, emuVars, cmds, asked, cancelled>>

Redial(id) ==
  /\ id \in redials
  /\ redials' = redials \ {id}
  /\ \/ Swap(id)
     \/ ~Known(id) /\ UNCHANGED <<count, indexVars, dialVars, closing, emuVars, cmds, asked, cancelled>>

(* Close: the session is looked up; closing it happens outside the lock.   *)
(* Bound: once per session; another Close finds the Once spent.            *)
Close(id) ==
  /\ ~cancelled /\ Known(id) /\ byID[id] \notin asked
  /\ cmds' = cmds \cup {Closing(byID[id])}
  /\ asked' = asked \cup {byID[id]}
  /\ UNCHANGED <<count, indexVars, dialVars, closing, emuVars, redials, cancelled>>

(* The list without the session that has this identifier.                  *)
Without(id) ==
  IF \A k \in DOMAIN list : sid[list[k]] # id THEN list
  ELSE LET k == CHOOSE k \in DOMAIN list : sid[list[k]] = id
       IN  SubSeq(list, 1, k - 1) \o SubSeq(list, k + 1, Len(list))

(* Remove: the session leaves the fleet, then it is closed.                *)
Remove(id) ==
  /\ ~cancelled /\ Known(id)
  /\ byID' = [byID EXCEPT ![id] = 0]
  /\ list' = Without(id)
  /\ cmds' = cmds \cup {Closing(byID[id])}
  /\ asked' = asked \cup {byID[id]}
  /\ UNCHANGED <<count, sid, dialVars, closing, emuVars, redials, cancelled>>

(* launchTUI after the UI ended: cancel the context, close every session.  *)
Shutdown ==
  /\ ~cancelled
  /\ cancelled' = TRUE
  /\ cmds' = cmds \cup {Closing(i) : i \in Listed(list)}
  /\ asked' = asked \cup Listed(list)
  /\ UNCHANGED <<count, indexVars, dialVars, closing, emuVars, redials>>

-----------------------------------------------------------------------------
(* Session.Close, first part: the one caller that gets into the Once takes *)
(* the connection, if there is one by now.                                 *)
CloseTakes(c) ==
  LET i == c.on
  IN  /\ c \in cmds /\ closing[i] = "no"
      /\ closing' = [closing EXCEPT ![i] = IF conn[i] THEN "found" ELSE "missed"]
      /\ cmds' = (cmds \ {c}) \cup {[c EXCEPT !.closes = TRUE]}
      /\ UNCHANGED <<count, indexVars, dialVars, emuVars, redials, asked, cancelled>>

(* A command whose Close returned without an error is done; Reconnect then *)
(* queues the fresh session for dialling.                                  *)
GoesOn(c) ==
  /\ cmds' = cmds \ {c}
  /\ dial' = IF c.fresh # 0 THEN [dial EXCEPT ![c.fresh] = "queued"] ELSE dial

(* A command whose Close returned an error gives up.                       *)
GivesUp(c) == cmds' = cmds \ {c} /\ UNCHANGED dial

(* Session.Close, second part: the connection it found is torn down, the   *)
(* readers have ended, the emulator is closed unless it was released, and  *)
(* the session is done.  A connection that came up after the first part is *)
(* missed; the readers it started then keep Close waiting.  Only closing a *)
(* connection can fail.  Looking at emuReleased and closing the emulator   *)
(* are one step here: a reconnect that takes the emulator in between ends  *)
(* with the shut one it also gets when it comes right after.               *)
CloseEnds(c) ==
  LET i == c.on
  IN  /\ c \in cmds /\ c.closes
      /\ closing[i] = "found" \/ ~conn[i]
      /\ closing' = [closing EXCEPT ![i] = "returned"]
      /\ conn' = [conn EXCEPT ![i] = FALSE]
      /\ over' = [over EXCEPT ![i] = TRUE]
      /\ emuClosed' = IF released[i] THEN emuClosed ELSE emuClosed \cup {emuOf[i]}
      /\ GoesOn(c) \/ (closing[i] = "found" /\ GivesUp(c))
      /\ UNCHANGED <<count, indexVars, emuOf, released, redials, asked, cancelled>>

(* Any other caller of the session's Close waits for the one in the Once,  *)
(* and sees no error.                                                      *)
CloseWaits(c) ==
  /\ c \in cmds /\ ~c.closes /\ closing[c.on] = "returned"
  /\ GoesOn(c)
  /\ UNCHANGED <<count, indexVars, over, conn, closing, emuVars, redials, asked, cancelled>>

-----------------------------------------------------------------------------
(* Defect: a slot that was taken is never given back.                      *)
DialStarts_SlotsLeak(i) ==
  /\ dial[i] = "queued"
  /\ Cardinality({j \in Inc : dial[j] \in {"dialing", "returned"}}) < MaxParallelDials
  /\ dial' = [dial EXCEPT ![i] = "dialing"]
  /\ UNCHANGED <<count, indexVars, over, conn, closing, emuVars, cmdVars>>

(* startOne gets a slot and calls Start, which dials.                      *)
DialStarts(i) ==
  /\ dial[i] = "queued"
  /\ Cardinality(Dialing) < MaxParallelDials
  /\ dial' = [dial EXCEPT ![i] = "dialing"]
  /\ UNCHANGED <<count, indexVars, over, conn, closing, emuVars, cmdVars>>

(* startOne gives up waiting for a slot: the run is over.                  *)
DialCancelled(i) ==
  /\ dial[i] = "queued" /\ cancelled
  /\ dial' = [dial EXCEPT ![i] = "returned"]
  /\ UNCHANGED <<count, indexVars, over, conn, closing, emuVars, cmdVars>>

(* Start fails, and the slot is free.                                      *)
DialFails(i) ==
  /\ dial[i] = "dialing"
  /\ dial' = [dial EXCEPT ![i] = "returned"]
  /\ over' = [over EXCEPT ![i] = TRUE]
  /\ UNCHANGED <<count, indexVars, conn, closing, emuVars, cmdVars>>

(* Start brings the session up.  It does not ask whether the session was   *)
(* closed meanwhile; the state it then reports is refused.                 *)
DialConnects(i) ==
  /\ dial[i] = "dialing"
  /\ dial' = [dial EXCEPT ![i] = "returned"]
  /\ conn' = [conn EXCEPT ![i] = TRUE]
  /\ UNCHANGED <<count, indexVars, over, closing, emuVars, cmdVars>>

(* The remote shell ends, or the connection is lost.                       *)
Ends(i) ==
  /\ conn[i]
  /\ conn' = [conn EXCEPT ![i] = FALSE]
  /\ over' = [over EXCEPT ![i] = @ \/ closing[i] = "no"]
  /\ UNCHANGED <<count, indexVars, dial, closing, emuVars, cmdVars>>

UserStep ==
  \/ \E a \in Alias : Add(a)
  \/ \E id \in ID : Reconnect(id) \/ Close(id) \/ Remove(id)
  \/ ReconnectAll
  \/ Shutdown

CommandStep ==
  \/ \E id \in ID : Redial(id)
  \/ \E c \in cmds : CloseTakes(c) \/ CloseEnds(c) \/ CloseWaits(c)

SessionStep ==
  \E i \in Inc :
    \/ DialStarts(i) \/ DialCancelled(i) \/ DialFails(i) \/ DialConnects(i)
    \/ Ends(i)

Next == UserStep \/ CommandStep \/ SessionStep

Spec == Init /\ [][Next]_vars

(* Every goroutine the manager started gets to run.  Nothing is assumed of *)
(* the user or of the remote hosts, nor that a dial attempt ends: the      *)
(* timeout covers the connect and the handshake only, and a prompt that    *)
(* nobody answers, or a host that stalls while the shell is requested,     *)
(* holds the attempt.                                                      *)
Fairness ==
  /\ \A i \in Inc : /\ WF_vars(DialStarts(i) \/ DialCancelled(i))
                    /\ WF_vars(\E c \in cmds : c.on = i /\ (CloseTakes(c) \/ CloseEnds(c) \/ CloseWaits(c)))
  /\ \A id \in ID : WF_vars(Redial(id))

FairSpec == Spec /\ Fairness

-----------------------------------------------------------------------------
(* The list the UI shows and the index the router asks are two copies of   *)
(* one fleet: the same sessions, each under its own identifier, once.      *)
IndexMatchesList ==
  /\ Listed(list) = Live
  /\ Len(list) = Cardinality(Live)
  /\ \A id \in ID : Known(id) => sid[byID[id]] = id

(* The bookkeeping of the manager as a whole: its types and its two copies *)
(* (Add, Reconnect, Remove).                                               *)
OneFleet == TypeOK /\ IndexMatchesList

(* Every pane has a terminal of its own, whatever reconnects overlapped.   *)
OneScreenEach == \A i, j \in Live : emuOf[i] = emuOf[j] => i = j

(* An emulator dies only with a pane the user or the shutdown asked to     *)
(* end; a reconnect alone never closes the one it hands over.              *)
EmuClosedOnlyOnRequest == \A e \in emuClosed : \E i \in asked : emuOf[i] = e

(* Two connections feed one pane only while the reconnect that replaces    *)
(* the older one is still at it, or because its Close missed the older     *)
(* one: a fresh session is dialled after the old one's readers have ended. *)
OneWriterUnlessMissed ==
  \A i, j \in Inc :
    i < j /\ conn[i] /\ conn[j] /\ emuOf[i] = emuOf[j]
      => \/ closing[i] \in {"missed", "returned"}
         \/ \E c \in cmds : c.on = i /\ c.fresh # 0

(* Together: a terminal shows one pane, is fed by one connection, and is   *)
(* shut only for a pane somebody asked to end (Reconnect's AdoptEmulator   *)
(* and ReleaseTerminal, Close before the dial, stopReplies).               *)
OneTerminalPerPane == OneScreenEach /\ OneWriterUnlessMissed /\ EmuClosedOnlyOnRequest

(* The order of the fleet is stable: hosts that stay keep their order, a   *)
(* reconnected host its place among them, and an addition comes last.      *)
(* Working sets and panes address hosts by this position.                  *)
OrderStable ==
  [][/\ \A j, k \in DOMAIN list, m, n \in DOMAIN list' :
          j < k /\ sid'[list'[m]] = sid[list[j]] /\ sid'[list'[n]] = sid[list[k]] => m < n
     /\ \A m, n \in DOMAIN list' :
          Known(sid'[list'[m]]) /\ ~Known(sid'[list'[n]]) => m < n]_vars

(* As long as every attempt ends, a host that waits for a slot is dialled  *)
(* and its goroutine returns, so Wait does: no slot is lost, however many  *)
(* attempts fail, are cancelled or are closed half way.                    *)
QueuedIsDialled ==
  (\A i \in Inc : dial[i] = "dialing" ~> dial[i] = "returned")
    => \A i \in Inc : dial[i] = "queued" ~> dial[i] = "returned"

(* Claimed by Start: "a host that is slow or unreachable delays only       *)
(* itself" (manager.go:175-176): a host is dialled, whatever the attempts  *)
(* before it do.                                                           *)
SlowDelaysOnlyItself == \A i \in Inc : dial[i] = "queued" ~> dial[i] # "queued"

(* Claimed by Remove: the session "is closed and no longer listed"         *)
(* (manager.go:297-299): a session that left the fleet and whose Close has *)
(* returned has no connection.                                             *)
RemovedHoldsNothing ==
  \A i \in Inc : conn[i] /\ closing[i] = "returned" => i \in Live

(* Claimed by Emulator.Close: it is closed "when the pane is gone for good *)
(* - not on a reconnect" (term.go:481): a session nobody asked to end      *)
(* types through an emulator whose reply pipe is open.                     *)
PaneTakesKeys ==
  \A i \in Live : i \notin asked => emuOf[i] \notin emuClosed

(* Claimed by the program: an error of Reconnect "is already on the        *)
(* session as state" (program.go:413): a listed session that is not being  *)
(* dialled is about to be, or its failure shows.                           *)
PendingIsOnItsWay ==
  \A i \in Live : dial[i] = "none" => \E c \in cmds : c.fresh = i
=============================================================================
