---------------------------- MODULE FleetProofs ----------------------------
(***************************************************************************)
(* Proofs about the manager, for any aliases, any number of sessions and   *)
(* of dial slots: overlapping reconnects never give two panes one          *)
(* terminal, and two connections feed one terminal only in the two ways    *)
(* the specification names.                                                *)
(***************************************************************************)
EXTENDS Fleet, SequenceTheorems, FiniteSetTheorems, TLAPS

(* What the arguments need to know of the types: only sessions that were   *)
(* created are in the index, have an emulator, dial or are connected.      *)
TypeInv ==
  /\ count \in 0 .. MaxSessions
  /\ byID \in [ID -> 0 .. count]
  /\ DOMAIN sid = Inc
  /\ emuOf \in [Inc -> 0 .. MaxSessions]
  /\ \A i \in 1 .. count : emuOf[i] \in 1 .. count
  /\ closing \in [Inc -> {"no", "found", "missed", "returned"}]

DialInv ==
  /\ dial \in [Inc -> {"none", "queued", "dialing", "returned"}]
  /\ conn \in [Inc -> BOOLEAN]
  /\ \A i \in Inc : i > count => dial[i] = "none" /\ ~conn[i]

CmdInv == \A c \in cmds : /\ DOMAIN c = {"on", "fresh", "closes"}
                          /\ c.fresh # 0 => c.fresh \in 1 .. count

(* The index names every session by its own identifier.                    *)
NamedInv == \A id \in ID : Known(id) => sid[byID[id]] = id

(* Of the sessions that had one emulator, the one in the fleet is the      *)
(* youngest.                                                               *)
YoungestInv ==
  \A id \in ID : Known(id) =>
    \A j \in 1 .. count : emuOf[j] = emuOf[byID[id]] => j <= byID[id]

(* A session whose emulator went to a younger one has been closed, or the  *)
(* reconnect that replaces it is still at it.                              *)
BeingReplaced(i) == \E c \in cmds : c.on = i /\ c.fresh # 0

ReplacedInv ==
  \A i, j \in 1 .. count : i < j /\ emuOf[i] = emuOf[j] => closing[i] = "returned" \/ BeingReplaced(i)

IInv == TypeInv /\ DialInv /\ CmdInv /\ NamedInv /\ YoungestInv /\ ReplacedInv

-----------------------------------------------------------------------------
LEMMA InitIInv == Init => IInv
<1> USE MaxSessionsAssumption DEF Init
<1>1. Init => TypeInv /\ CmdInv
  BY DEF TypeInv, CmdInv
<1>2. Init => DialInv
  BY DEF DialInv
<1>3. Init => NamedInv /\ YoungestInv /\ ReplacedInv
  BY DEF NamedInv, YoungestInv, ReplacedInv, Known
<1> QED
  BY <1>1, <1>2, <1>3 DEF IInv

(* A new host: a new session with a new emulator.                          *)
LEMMA AddKeepsIInv ==
  ASSUME IInv, NEW a \in Alias, Add(a)
  PROVE  IInv'
<1> DEFINE new == count + 1
           name == UniqueID(a)
<1> USE MaxSessionsAssumption DEF IInv
<1>1. /\ new \in Inc /\ count' = new
      /\ sid' = [sid EXCEPT ![new] = name]
      /\ byID' = [byID EXCEPT ![name] = new]
      /\ emuOf' = [emuOf EXCEPT ![new] = new]
      /\ dial' = [dial EXCEPT ![new] = "queued"]
      /\ UNCHANGED <<conn, closing, cmds>>
  BY MaxSessionsAssumption DEF Add, cmdVars, TypeInv, Inc
<1> HIDE DEF name
<1>2. count \in Nat /\ new \in Nat
  BY MaxSessionsAssumption DEF TypeInv
<1>3. \A i \in Inc : emuOf'[i] = IF i = new THEN new ELSE emuOf[i]
  BY <1>1 DEF TypeInv
<1>4. TypeInv'
  <2>1. byID' \in [ID -> 0 .. new]
    <3>1. DOMAIN byID' = ID /\ \A id \in ID : byID'[id] = new \/ byID'[id] = byID[id]
      BY <1>1 DEF TypeInv
    <3>2. \A id \in ID : byID'[id] \in 0 .. new
      BY <1>2, <3>1 DEF TypeInv
    <3>3. byID' = [id \in ID |-> byID'[id]]
      BY <1>1, <3>1 DEF TypeInv
    <3> QED
      BY <3>2, <3>3
  <2>2. DOMAIN sid' = Inc /\ emuOf' \in [Inc -> 0 .. MaxSessions]
    BY <1>1 DEF TypeInv, Inc
  <2>3. \A i \in 1 .. new : emuOf'[i] \in 1 .. new
    BY <1>1, <1>2, <1>3 DEF TypeInv, Inc
  <2> QED
    BY <1>1, <2>1, <2>2, <2>3 DEF TypeInv, Inc
<1>5. DialInv' /\ CmdInv'
  <2>1. DialInv'
    <3>1. \A i \in Inc : i > new => i > count /\ i # new
      BY <1>2 DEF Inc
    <3> QED
      BY <1>1, <3>1 DEF DialInv
  <2>2. CmdInv'
    BY <1>1, <1>2 DEF CmdInv
  <2> QED
    BY <2>1, <2>2
<1>6. ASSUME NEW id \in ID, Known(id)'
      PROVE  \/ id = name /\ byID'[id] = new /\ emuOf'[byID'[id]] = new
             \/ /\ Known(id) /\ byID'[id] = byID[id] /\ byID[id] \in 1 .. count
                /\ emuOf'[byID'[id]] = emuOf[byID[id]]
  BY <1>1, <1>6 DEF TypeInv, Known, Inc
<1>7. NamedInv'
  BY <1>1, <1>6 DEF NamedInv, TypeInv, Inc
<1>8. \A j \in 1 .. new : j \in Inc /\ (j # new => j \in 1 .. count /\ emuOf'[j] = emuOf[j] /\ emuOf[j] # new)
  BY <1>1, <1>2, <1>3 DEF TypeInv, Inc
<1>9. emuOf'[new] = new
  BY <1>1, <1>3
<1>10. YoungestInv'
  <2> SUFFICES ASSUME NEW id \in ID, Known(id)', NEW j \in 1 .. new, emuOf'[j] = emuOf'[byID'[id]]
               PROVE  j <= byID'[id]
    BY <1>1 DEF YoungestInv
  <2>1. CASE byID'[id] = new
    BY <1>2, <2>1
  <2>2. CASE /\ Known(id) /\ byID'[id] = byID[id] /\ byID[id] \in 1 .. count
             /\ emuOf'[byID'[id]] = emuOf[byID[id]]
    <3>1. j # new
      BY <1>2, <1>8, <1>9, <2>2
    <3> QED
      BY <1>8, <2>2, <3>1 DEF YoungestInv
  <2> QED
    BY <1>6, <2>1, <2>2
<1>11. ReplacedInv'
  <2> SUFFICES ASSUME NEW i \in 1 .. new, NEW j \in 1 .. new, i < j, emuOf'[i] = emuOf'[j]
               PROVE  closing[i] = "returned" \/ BeingReplaced(i)
    BY <1>1 DEF ReplacedInv, BeingReplaced
  <2>1. i # new /\ j # new
    BY <1>2, <1>8, <1>9
  <2> QED
    BY <1>8, <2>1 DEF ReplacedInv
<1> QED
  BY <1>4, <1>5, <1>7, <1>10, <1>11

(* A reconnect: a new session takes the place and the emulator of the one  *)
(* in the fleet.                                                           *)
LEMMA SwapKeepsIInv ==
  ASSUME IInv, NEW k \in ID, Swap(k)
  PROVE  IInv'
<1> DEFINE new == count + 1
           old == byID[k]
           cmd == [on |-> old, fresh |-> new, closes |-> FALSE]
<1> USE MaxSessionsAssumption DEF IInv
<1>1. /\ old \in 1 .. count /\ new \in Inc /\ count' = new
      /\ sid' = [sid EXCEPT ![new] = k]
      /\ byID' = [byID EXCEPT ![k] = new]
      /\ emuOf' = [emuOf EXCEPT ![new] = emuOf[old]]
      /\ cmds' = cmds \cup {cmd}
      /\ UNCHANGED <<dial, conn, closing>>
  BY MaxSessionsAssumption DEF Swap, dialVars, TypeInv, Inc, Known
<1>2. count \in Nat /\ new \in Nat /\ new <= MaxSessions /\ old \in 1 .. count /\ old \in Inc
      /\ emuOf[old] \in 1 .. count
  BY <1>1 DEF TypeInv, Inc
<1>3. \A i \in Inc : emuOf'[i] = IF i = new THEN emuOf[old] ELSE emuOf[i]
  BY <1>1 DEF TypeInv
<1>4. TypeInv'
  <2>1. byID' \in [ID -> 0 .. new]
    BY <1>1, <1>2 DEF TypeInv
  <2>2. DOMAIN sid' = Inc /\ emuOf' \in [Inc -> 0 .. MaxSessions]
    BY <1>1 DEF TypeInv, Inc
  <2>3. ASSUME NEW i \in 1 .. new PROVE emuOf'[i] \in 1 .. new
    <3>1. i \in Inc /\ (i = new \/ i \in 1 .. count)
      BY <1>2 DEF Inc
    <3> QED
      BY <1>2, <1>3, <3>1 DEF TypeInv
  <2>4. count' \in 0 .. MaxSessions
    BY <1>1, <1>2
  <2> QED
    BY <1>1, <2>1, <2>2, <2>3, <2>4 DEF TypeInv
<1>5. DialInv' /\ CmdInv'
  <2>1. DialInv'
    <3>1. \A i \in Inc : i > new => i > count /\ i # new
      BY <1>2 DEF Inc
    <3> QED
      BY <1>1, <3>1 DEF DialInv
  <2>2. DOMAIN cmd = {"on", "fresh", "closes"} /\ cmd.fresh \in 1 .. new
    BY <1>2
  <2> HIDE DEF cmd
  <2>3. CmdInv'
    BY <1>1, <1>2, <2>2 DEF CmdInv
  <2> QED
    BY <2>1, <2>3
<1>6. \A id \in ID : Known(id) /\ id # k => byID[id] # old
  BY <1>1 DEF NamedInv, Known
<1>7. ASSUME NEW id \in ID, Known(id)'
      PROVE  \/ id = k /\ byID'[id] = new
             \/ /\ id # k /\ Known(id) /\ byID'[id] = byID[id] /\ byID[id] \in 1 .. count
                /\ emuOf'[byID'[id]] = emuOf[byID[id]]
  <2>1. CASE id = k
    BY <1>1, <2>1 DEF TypeInv
  <2>2. CASE id # k
    <3>1. byID'[id] = byID[id] /\ byID[id] \in 1 .. count
      BY <1>1, <1>7, <1>2, <2>2 DEF TypeInv, Known
    <3>2. byID[id] \in Inc /\ byID[id] # new
      BY <1>2, <3>1 DEF Inc
    <3> QED
      BY <1>3, <2>2, <3>1, <3>2 DEF Known
  <2> QED
    BY <2>1, <2>2
<1>8. NamedInv'
  <2> SUFFICES ASSUME NEW id \in ID, Known(id)' PROVE sid'[byID'[id]] = id
    BY DEF NamedInv
  <2>1. CASE id = k
    BY <1>1, <1>2, <1>7, <2>1 DEF TypeInv, Inc
  <2>2. CASE id # k
    <3>1. Known(id) /\ byID'[id] = byID[id] /\ byID[id] \in 1 .. count
      BY <1>7, <2>2
    <3>2. sid'[byID[id]] = sid[byID[id]]
      BY <1>1, <1>2, <3>1 DEF TypeInv, Inc
    <3> QED
      BY <1>1, <3>1, <3>2 DEF NamedInv
  <2> QED
    BY <2>1, <2>2
<1>9. \A id \in ID : Known(id) /\ id # k => emuOf[byID[id]] # emuOf[old]
  BY <1>1, <1>6 DEF YoungestInv, TypeInv, Known
<1>10. \A j \in 1 .. new : j \in Inc /\ (j # new => j \in 1 .. count /\ emuOf'[j] = emuOf[j])
  BY <1>1, <1>2, <1>3 DEF Inc
<1>11. emuOf'[new] = emuOf[old]
  BY <1>1, <1>3
<1>12. YoungestInv'
  <2> SUFFICES ASSUME NEW id \in ID, Known(id)', NEW j \in 1 .. new, emuOf'[j] = emuOf'[byID'[id]]
               PROVE  j <= byID'[id]
    BY <1>1 DEF YoungestInv
  <2>1. CASE byID'[id] = new
    BY <1>2, <2>1
  <2>2. CASE /\ id # k /\ Known(id) /\ byID'[id] = byID[id] /\ byID[id] \in 1 .. count
             /\ emuOf'[byID'[id]] = emuOf[byID[id]]
    <3>1. j # new
      BY <1>9, <1>11, <2>2
    <3> QED
      BY <1>10, <2>2, <3>1 DEF YoungestInv
  <2> QED
    BY <1>7, <2>1, <2>2
<1>13. ReplacedInv'
  <2> SUFFICES ASSUME NEW i \in 1 .. new, NEW j \in 1 .. new, i < j, emuOf'[i] = emuOf'[j]
               PROVE  closing[i] = "returned" \/ BeingReplaced(i)'
    BY <1>1 DEF ReplacedInv
  <2>1. i \in 1 .. count /\ emuOf'[i] = emuOf[i]
    BY <1>1 DEF TypeInv, Inc
  <2>2. BeingReplaced(i) => BeingReplaced(i)'
    BY <1>1 DEF BeingReplaced
  <2>3. CASE j \in 1 .. count
    <3>1. emuOf'[j] = emuOf[j]
      BY <1>10, <1>2, <2>3
    <3> QED
      BY <2>1, <2>2, <2>3, <3>1 DEF ReplacedInv
  <2>4. CASE j = new
    <3>1. emuOf[i] = emuOf[old]
      BY <1>1, <2>1, <2>4 DEF TypeInv, Inc
    <3>2. i <= old
      BY <1>1, <2>1, <3>1 DEF YoungestInv, Known, Swap
    <3>3. CASE i = old
      <4>1. cmd \in cmds' /\ cmd.on = i
        BY <1>1, <3>3
      <4>2. cmd.fresh # 0
        BY <1>2
      <4> HIDE DEF cmd
      <4> QED
        BY <4>1, <4>2 DEF BeingReplaced
    <3>4. CASE i < old
      BY <1>2, <2>1, <2>2, <3>1, <3>4 DEF ReplacedInv
    <3> QED
      BY <1>1, <2>1, <3>2, <3>3, <3>4
  <2> QED
    BY <1>10, <2>3, <2>4
<1> QED
  BY <1>4, <1>5, <1>8, <1>12, <1>13

(* Removals, and commands that are given: the index can only shrink, the   *)
(* commands can only become more.                                          *)
LEMMA RequestsKeepIInv ==
  ASSUME IInv,
         \/ \E id \in ID : Close(id) \/ Remove(id)
         \/ ReconnectAll \/ Shutdown
         \/ UNCHANGED <<count, indexVars, dialVars, closing, emuVars, cmds>>
  PROVE  IInv'
<1> USE MaxSessionsAssumption DEF IInv
<1>1. UNCHANGED <<count, sid, emuOf, dial, conn, closing>>
  BY DEF Close, Remove, ReconnectAll, Shutdown, indexVars, dialVars, emuVars
<1>2. byID' = byID \/ \E id \in ID : byID' = [byID EXCEPT ![id] = 0]
  BY DEF Close, Remove, ReconnectAll, Shutdown, indexVars
<1>3. cmds \subseteq cmds' /\ \A c \in cmds' \ cmds : \E i : c = Closing(i)
  BY DEF Close, Remove, ReconnectAll, Shutdown
<1>4. TypeInv' /\ DialInv'
  BY <1>1, <1>2 DEF TypeInv, DialInv
<1>5. CmdInv'
  BY <1>1, <1>3 DEF CmdInv, Closing
<1>6. \A id \in ID : Known(id)' => Known(id) /\ byID'[id] = byID[id]
  BY <1>2 DEF Known, TypeInv
<1>7. NamedInv' /\ YoungestInv'
  BY <1>1, <1>6 DEF NamedInv, YoungestInv
<1>8. ReplacedInv'
  BY <1>1, <1>3 DEF ReplacedInv, BeingReplaced
<1> QED
  BY <1>4, <1>5, <1>7, <1>8

(* A command ends only when the session it replaces has been closed.       *)
LEMMA CommandsKeepIInv ==
  ASSUME IInv, NEW c \in cmds, CloseTakes(c) \/ CloseEnds(c) \/ CloseWaits(c)
  PROVE  IInv'
<1> USE MaxSessionsAssumption DEF IInv
<1>1. UNCHANGED <<count, sid, byID, emuOf>>
  BY DEF CloseTakes, CloseEnds, CloseWaits, indexVars, emuVars
<1>2. closing' = closing \/ \E v \in {"found", "missed", "returned"} : closing' = [closing EXCEPT ![c.on] = v]
  BY DEF CloseTakes, CloseEnds, CloseWaits
<1>3. dial' = dial \/ (c.fresh # 0 /\ dial' = [dial EXCEPT ![c.fresh] = "queued"])
  BY DEF CloseTakes, CloseEnds, CloseWaits, GoesOn, GivesUp, dialVars
<1>4. conn' = conn \/ conn' = [conn EXCEPT ![c.on] = FALSE]
  BY DEF CloseTakes, CloseEnds, CloseWaits, dialVars
<1>5. TypeInv' /\ NamedInv' /\ YoungestInv'
  BY <1>1, <1>2 DEF TypeInv, NamedInv, YoungestInv, Known
<1>6. DialInv'
  <2>1. dial' \in [Inc -> {"none", "queued", "dialing", "returned"}] /\ conn' \in [Inc -> BOOLEAN]
    BY <1>3, <1>4 DEF DialInv
  <2>2. ASSUME NEW i \in Inc, i > count PROVE dial'[i] = "none"
    BY <1>3, <2>2 DEF DialInv, CmdInv, TypeInv, Inc
  <2>3. ASSUME NEW i \in Inc, i > count PROVE ~conn'[i]
    BY <1>4, <2>3 DEF DialInv
  <2> QED
    BY <1>1, <2>1, <2>2, <2>3 DEF DialInv
<1>7. \/ cmds' = (cmds \ {c}) \cup {[c EXCEPT !.closes = TRUE]}
      \/ cmds' = cmds \ {c}
  BY DEF CloseTakes, CloseEnds, CloseWaits, GoesOn, GivesUp
<1>8. LET d == [c EXCEPT !.closes = TRUE] IN DOMAIN d = DOMAIN c /\ d.on = c.on /\ d.fresh = c.fresh
  BY DEF CmdInv
<1>9. CmdInv'
  BY <1>1, <1>7, <1>8 DEF CmdInv
<1>10. ReplacedInv'
  <2>1. ASSUME NEW i \in Inc, closing[i] = "returned" PROVE closing'[i] = "returned"
    BY <2>1 DEF CloseTakes, CloseEnds, CloseWaits, TypeInv
  <2>2. ASSUME NEW i \in Inc, BeingReplaced(i) PROVE closing'[i] = "returned" \/ BeingReplaced(i)'
    <3>1. PICK d \in cmds : d.on = i /\ d.fresh # 0
      BY <2>2 DEF BeingReplaced
    <3>2. CASE d # c
      BY <1>7, <3>1, <3>2 DEF BeingReplaced
    <3>3. CASE d = c /\ CloseTakes(c)
      BY <1>8, <3>1, <3>3 DEF BeingReplaced, CloseTakes
    <3>4. CASE d = c /\ (CloseEnds(c) \/ CloseWaits(c))
      BY <3>1, <3>4 DEF CloseEnds, CloseWaits, TypeInv
    <3> QED
      BY <3>2, <3>3, <3>4
  <2>3. 1 .. count \subseteq Inc
    BY MaxSessionsAssumption DEF TypeInv, Inc
  <2> QED
    BY <1>1, <2>1, <2>2, <2>3 DEF ReplacedInv
<1> QED
  BY <1>5, <1>6, <1>9, <1>10

(* The dial goroutines touch only what is dialling.                        *)
LEMMA SessionsKeepIInv ==
  ASSUME IInv, NEW i \in Inc,
         DialStarts(i) \/ DialCancelled(i) \/ DialFails(i) \/ DialConnects(i) \/ Ends(i)
  PROVE  IInv'
<1> USE MaxSessionsAssumption DEF IInv
<1>1. UNCHANGED <<count, sid, byID, emuOf, closing, cmds>>
  BY DEF DialStarts, DialCancelled, DialFails, DialConnects, Ends, indexVars, emuVars, cmdVars
<1>2. TypeInv' /\ CmdInv' /\ NamedInv' /\ YoungestInv' /\ ReplacedInv'
  BY <1>1 DEF TypeInv, CmdInv, NamedInv, YoungestInv, ReplacedInv, Known, BeingReplaced
<1>3. dial[i] # "none" \/ conn[i]
  BY DEF DialStarts, DialCancelled, DialFails, DialConnects, Ends
<1>4. /\ dial' = dial \/ \E v \in {"dialing", "returned"} : dial' = [dial EXCEPT ![i] = v]
      /\ conn' = conn \/ \E b \in BOOLEAN : conn' = [conn EXCEPT ![i] = b]
  BY DEF DialStarts, DialCancelled, DialFails, DialConnects, Ends
<1>5. DialInv'
  BY <1>1, <1>3, <1>4 DEF DialInv
<1> QED
  BY <1>2, <1>5

LEMMA NextIInv == IInv /\ [Next]_vars => IInv'
<1>2. ASSUME IInv, UserStep PROVE IInv'
  BY <1>2, AddKeepsIInv, SwapKeepsIInv, RequestsKeepIInv DEF UserStep, Reconnect
<1>3. ASSUME IInv, CommandStep PROVE IInv'
  BY <1>3, SwapKeepsIInv, RequestsKeepIInv, CommandsKeepIInv DEF CommandStep, Redial
<1>4. ASSUME IInv, SessionStep PROVE IInv'
  BY <1>4, SessionsKeepIInv DEF SessionStep
<1>5. ASSUME IInv, UNCHANGED vars PROVE IInv'
  BY <1>5, RequestsKeepIInv DEF vars, cmdVars
<1> QED
  BY <1>2, <1>3, <1>4, <1>5 DEF Next

-----------------------------------------------------------------------------
(* However adds, reconnects, removals and bulk reconnects overlap, no two  *)
(* panes of the fleet share a terminal.                                    *)
LEMMA ScreensAreSeparate == Spec => []OneScreenEach
<1>1. ASSUME IInv PROVE OneScreenEach
  <2> SUFFICES ASSUME NEW k \in ID, NEW m \in ID, Known(k), Known(m), emuOf[byID[k]] = emuOf[byID[m]]
               PROVE  byID[k] = byID[m]
    BY DEF OneScreenEach, Live
  <2>1. byID[k] \in 1 .. count /\ byID[m] \in 1 .. count
    BY <1>1 DEF IInv, TypeInv, Known
  <2>2. byID[k] <= byID[m] /\ byID[m] <= byID[k]
    BY <1>1, <2>1 DEF IInv, YoungestInv
  <2> QED
    BY <2>1, <2>2
<1> QED
  BY InitIInv, NextIInv, <1>1, PTL DEF Spec

(* Two connections feed one terminal only while the reconnect that         *)
(* replaces the older is still at it, or because its Close missed it.      *)
LEMMA WritersAreSeparate == Spec => []OneWriterUnlessMissed
<1>1. ASSUME IInv PROVE OneWriterUnlessMissed
  <2> SUFFICES ASSUME NEW i \in Inc, NEW j \in Inc, i < j, conn[i], conn[j], emuOf[i] = emuOf[j]
               PROVE  closing[i] = "returned" \/ BeingReplaced(i)
    BY DEF OneWriterUnlessMissed, BeingReplaced
  <2>1. i \in 1 .. count /\ j \in 1 .. count
    BY <1>1 DEF IInv, TypeInv, DialInv, Inc
  <2> QED
    BY <1>1, <2>1 DEF IInv, ReplacedInv
<1> QED
  BY InitIInv, NextIInv, <1>1, PTL DEF Spec

-----------------------------------------------------------------------------
(* A session is closed because somebody asked for it, or its emulator has  *)
(* been released before.                                                   *)
RequestInv ==
  /\ list \in Seq(Inc) /\ \A k \in DOMAIN list : list[k] \in 1 .. count
  /\ released \in [Inc -> BOOLEAN]
  /\ asked \subseteq 1 .. count
  /\ \A c \in cmds : c.on \in 1 .. count /\ (c.on \in asked \/ released[c.on])
  /\ EmuClosedOnlyOnRequest

(* A list loses one place when a session leaves it, and the sessions       *)
(* behind that place move up.                                              *)
LEMMA WithoutAt ==
  ASSUME list \in Seq(Inc), NEW id \in ID, \E k \in DOMAIN list : sid[list[k]] = id
  PROVE  /\ Without(id) \in Seq(Inc)
         /\ DOMAIN Without(id) = 1 .. Len(list) - 1
         /\ \E p \in DOMAIN list :
              /\ sid[list[p]] = id
              /\ \A k \in 1 .. Len(list) - 1 : Without(id)[k] = IF k < p THEN list[k] ELSE list[k + 1]
<1> DEFINE p == CHOOSE k \in DOMAIN list : sid[list[k]] = id
           front == SubSeq(list, 1, p - 1)
           rest == SubSeq(list, p + 1, Len(list))
<1>1. p \in DOMAIN list /\ sid[list[p]] = id
  OBVIOUS
<1>2. Without(id) = front \o rest
  BY DEF Without
<1> HIDE DEF p
<1>3. p \in 1 .. Len(list) /\ Len(list) \in Nat
  BY <1>1
<1>4. front \in Seq(Inc) /\ Len(front) = p - 1 /\ \A k \in 1 .. p - 1 : front[k] = list[k]
  BY <1>3
<1>5. rest \in Seq(Inc) /\ Len(rest) = Len(list) - p /\ \A k \in 1 .. Len(list) - p : rest[k] = list[p + k]
  BY <1>3
<1> HIDE DEF front, rest
<1>6. /\ front \o rest \in Seq(Inc)
      /\ Len(front \o rest) = Len(list) - 1
      /\ DOMAIN (front \o rest) = 1 .. Len(list) - 1
  <2>1. front \o rest \in Seq(Inc)
    BY <1>4, <1>5, ConcatProperties
  <2>2. Len(front \o rest) = Len(front) + Len(rest)
    BY <1>4, <1>5, ConcatProperties, Zenon
  <2>3. (p - 1) + (Len(list) - p) = Len(list) - 1
    BY <1>3
  <2> QED
    BY <1>4, <1>5, <2>1, <2>2, <2>3
<1>7. ASSUME NEW k \in 1 .. Len(list) - 1
      PROVE  (front \o rest)[k] = IF k < p THEN list[k] ELSE list[k + 1]
  <2>1. CASE k < p
    <3>1. (front \o rest)[k] = front[k]
      BY <1>3, <1>4, <1>5, <2>1
    <3>2. k \in 1 .. p - 1
      BY <1>3, <2>1
    <3> QED
      BY <1>4, <2>1, <3>1, <3>2
  <2>2. CASE ~(k < p)
    <3>1. (front \o rest)[k] = rest[k - (p - 1)]
      BY <1>3, <1>4, <1>5, <2>2
    <3>2. k - (p - 1) \in 1 .. Len(list) - p /\ p + (k - (p - 1)) = k + 1
      BY <1>3, <2>2
    <3> QED
      BY <1>5, <2>2, <3>1, <3>2
  <2> QED
    BY <2>1, <2>2
<1> HIDE DEF Inc
<1> QED
  BY <1>1, <1>2, <1>6, <1>7, Zenon

LEMMA WithoutIsPart ==
  ASSUME list \in Seq(Inc), NEW id \in ID
  PROVE  Without(id) \in Seq(Inc) /\ \A k \in DOMAIN Without(id) : \E m \in DOMAIN list : Without(id)[k] = list[m]
<1>1. CASE \A k \in DOMAIN list : sid[list[k]] # id
  BY <1>1 DEF Without
<1>2. CASE \E k \in DOMAIN list : sid[list[k]] = id
  <2>1. \A k \in 1 .. Len(list) - 1 : k \in DOMAIN list /\ k + 1 \in DOMAIN list
    OBVIOUS
  <2>2. \A k \in 1 .. Len(list) - 1 : Without(id)[k] = list[k] \/ Without(id)[k] = list[k + 1]
    BY <1>2, WithoutAt
  <2> QED
    BY <1>2, <2>1, <2>2, WithoutAt
<1> QED
  BY <1>1, <1>2

LEMMA RequestsKeepRequestInv ==
  ASSUME IInv, RequestInv,
         \/ \E a \in Alias : Add(a)
         \/ \E id \in ID : Swap(id) \/ Close(id) \/ Remove(id)
         \/ Shutdown
  PROVE  RequestInv'
<1> USE MaxSessionsAssumption DEF RequestInv
<1>1. count \in Nat /\ count \in 0 .. MaxSessions /\ emuOf \in [Inc -> 0 .. MaxSessions]
  BY DEF IInv, TypeInv
<1>2. CASE \E a \in Alias : Add(a)
  <2>1. /\ count + 1 \in Inc /\ count' = count + 1
        /\ list' = Append(list, count + 1)
        /\ emuOf' = [emuOf EXCEPT ![count + 1] = count + 1]
        /\ UNCHANGED <<released, emuClosed, cmds, asked>>
    BY <1>1, <1>2 DEF Add, cmdVars, Inc
  <2>2. list' \in Seq(Inc) /\ \A k \in DOMAIN list' : list'[k] \in 1 .. count'
    BY <1>1, <2>1
  <2>3. \A i \in 1 .. count : i \in Inc /\ emuOf'[i] = emuOf[i]
    BY <1>1, <2>1 DEF Inc
  <2>4. EmuClosedOnlyOnRequest'
    BY <2>1, <2>3 DEF EmuClosedOnlyOnRequest
  <2> QED
    BY <1>1, <2>1, <2>2, <2>4
<1>3. ASSUME NEW id \in ID, Swap(id) PROVE RequestInv'
  <2> DEFINE new == count + 1
  <2>1. /\ new \in Inc /\ count' = new
        /\ byID[id] \in 1 .. count
        /\ list' = [k \in DOMAIN list |-> IF sid[list[k]] = id THEN new ELSE list[k]]
        /\ emuOf' = [emuOf EXCEPT ![new] = emuOf[byID[id]]]
        /\ released' = [released EXCEPT ![byID[id]] = TRUE]
        /\ cmds' = cmds \cup {[on |-> byID[id], fresh |-> new, closes |-> FALSE]}
        /\ UNCHANGED <<emuClosed, asked>>
    BY <1>1, <1>3 DEF Swap, Inc, Known, IInv, TypeInv
  <2>2. list' \in Seq(Inc) /\ \A k \in DOMAIN list' : list'[k] \in 1 .. count'
    <3>1. Len(list) \in Nat /\ DOMAIN list = 1 .. Len(list) /\ \A k \in DOMAIN list : list[k] \in Inc
      OBVIOUS
    <3>2. list' \in [1 .. Len(list) -> Inc]
      BY <2>1, <3>1
    <3>3. list' \in Seq(Inc)
      BY <3>1, <3>2
    <3>4. \A k \in DOMAIN list : list'[k] \in 1 .. count'
      BY <1>1, <2>1
    <3> QED
      BY <2>1, <3>3, <3>4
  <2>3. \A i \in 1 .. count : i \in Inc /\ emuOf'[i] = emuOf[i]
    BY <1>1, <2>1 DEF Inc
  <2>4. EmuClosedOnlyOnRequest'
    BY <2>1, <2>3 DEF EmuClosedOnlyOnRequest
  <2>5. \A c \in cmds' : c.on \in 1 .. count' /\ (c.on \in asked' \/ released'[c.on])
    BY <1>1, <2>1, <2>3
  <2>6. released' \in [Inc -> BOOLEAN]
    BY <2>1
  <2>7. asked' \subseteq 1 .. count'
    <3>1. 1 .. count \subseteq 1 .. count'
      BY <1>1, <2>1
    <3> QED
      BY <2>1, <3>1
  <2> QED
    BY <2>2, <2>4, <2>5, <2>6, <2>7
<1>4. ASSUME NEW id \in ID, Close(id) \/ Remove(id) PROVE RequestInv'
  <2>1. /\ byID[id] \in 1 .. count
        /\ list' = list \/ list' = Without(id)
        /\ cmds' = cmds \cup {Closing(byID[id])}
        /\ asked' = asked \cup {byID[id]}
        /\ UNCHANGED <<count, released, emuOf, emuClosed>>
    BY <1>1, <1>4 DEF Close, Remove, Known, IInv, TypeInv, indexVars, emuVars
  <2>2. list' \in Seq(Inc) /\ \A k \in DOMAIN list' : list'[k] \in 1 .. count'
    BY <2>1, WithoutIsPart
  <2>3. EmuClosedOnlyOnRequest'
    BY <2>1 DEF EmuClosedOnlyOnRequest
  <2>4. \A c \in cmds' : c.on \in 1 .. count' /\ (c.on \in asked' \/ released'[c.on])
    BY <2>1 DEF Closing
  <2> QED
    BY <2>1, <2>2, <2>3, <2>4
<1>5. CASE Shutdown
  <2>1. /\ cmds' = cmds \cup {Closing(i) : i \in Listed(list)}
        /\ asked' = asked \cup Listed(list)
        /\ UNCHANGED <<count, list, released, emuOf, emuClosed>>
    BY <1>5 DEF Shutdown, indexVars, emuVars
  <2>2. Listed(list) \subseteq 1 .. count
    BY DEF Listed
  <2>3. EmuClosedOnlyOnRequest'
    BY <2>1 DEF EmuClosedOnlyOnRequest
  <2>4. \A c \in cmds' : c.on \in 1 .. count' /\ (c.on \in asked' \/ released'[c.on])
    BY <2>1, <2>2 DEF Closing
  <2> QED
    BY <2>1, <2>2, <2>3, <2>4
<1> QED
  BY <1>2, <1>3, <1>4, <1>5

LEMMA CommandsKeepRequestInv ==
  ASSUME IInv, RequestInv, NEW c \in cmds, CloseTakes(c) \/ CloseEnds(c) \/ CloseWaits(c)
  PROVE  RequestInv'
<1> USE DEF RequestInv
<1>1. UNCHANGED <<count, list, emuOf, released, asked>>
  BY DEF CloseTakes, CloseEnds, CloseWaits, indexVars, emuVars
<1>2. \/ cmds' = (cmds \ {c}) \cup {[c EXCEPT !.closes = TRUE]}
      \/ cmds' = cmds \ {c}
  BY DEF CloseTakes, CloseEnds, CloseWaits, GoesOn, GivesUp
<1>3. [c EXCEPT !.closes = TRUE].on = c.on
  BY DEF IInv, CmdInv
<1>4. \A d \in cmds' : d.on \in 1 .. count /\ (d.on \in asked \/ released[d.on])
  BY <1>2, <1>3
<1>5. emuClosed' = emuClosed \/ (~released[c.on] /\ emuClosed' = emuClosed \cup {emuOf[c.on]})
  BY DEF CloseTakes, CloseEnds, CloseWaits, emuVars
<1>6. EmuClosedOnlyOnRequest'
  BY <1>1, <1>5 DEF EmuClosedOnlyOnRequest
<1> QED
  BY <1>1, <1>4, <1>6

LEMMA InitRequestInv == Init => RequestInv
BY DEF Init, RequestInv, EmuClosedOnlyOnRequest

LEMMA NextRequestInv ==
  ASSUME IInv, RequestInv, [Next]_vars
  PROVE  RequestInv'
<1>1. CASE UserStep \/ CommandStep
  <2>1. CASE ReconnectAll \/ (\E id \in ID : Redial(id) /\ ~Swap(id))
    <3>1. UNCHANGED <<count, list, released, emuOf, emuClosed, cmds, asked>>
      BY <2>1 DEF ReconnectAll, Redial, indexVars, emuVars
    <3> QED
      BY <3>1 DEF RequestInv, EmuClosedOnlyOnRequest
  <2>2. CASE \E c \in cmds : CloseTakes(c) \/ CloseEnds(c) \/ CloseWaits(c)
    BY <2>2, CommandsKeepRequestInv
  <2> QED
    BY <1>1, <2>1, <2>2, RequestsKeepRequestInv DEF UserStep, CommandStep, Reconnect, Redial
<1>2. CASE SessionStep \/ UNCHANGED vars
  BY <1>2 DEF SessionStep, DialStarts, DialCancelled, DialFails, DialConnects, Ends,
       RequestInv, EmuClosedOnlyOnRequest, indexVars, emuVars, cmdVars, vars
<1> QED
  BY <1>1, <1>2 DEF Next

(* An emulator dies only with a pane the user or the shutdown asked to     *)
(* end, never for a reconnect alone.                                       *)
LEMMA ShutOnRequest == Spec => []EmuClosedOnlyOnRequest
<1>1. RequestInv => EmuClosedOnlyOnRequest
  BY DEF RequestInv
<1> QED
  BY InitIInv, NextIInv, InitRequestInv, NextRequestInv, <1>1, PTL DEF Spec

(* So a terminal shows one pane, one connection feeds it, and it is shut   *)
(* only when that pane was asked to end.                                   *)
THEOREM TerminalsAreSeparate == Spec => []OneTerminalPerPane
<1>1. OneScreenEach /\ OneWriterUnlessMissed /\ EmuClosedOnlyOnRequest => OneTerminalPerPane
  BY DEF OneTerminalPerPane
<1> QED
  BY ScreensAreSeparate, WritersAreSeparate, ShutOnRequest, <1>1, PTL

-----------------------------------------------------------------------------
(* The list and the index are two copies of one fleet: what is listed is   *)
(* what the index knows, each session once.                                *)
ListInv ==
  /\ sid \in [Inc -> ID \cup {NoID}]
  /\ list \in Seq(Inc)
  /\ \A k \in DOMAIN list : sid[list[k]] \in ID /\ list[k] = byID[sid[list[k]]] /\ list[k] \in 1 .. count
  /\ \A id \in ID : Known(id) => \E k \in DOMAIN list : list[k] = byID[id]
  /\ \A j, k \in DOMAIN list : sid[list[j]] = sid[list[k]] => j = k

(* A set of natural numbers has a least element.                           *)
LEMMA LeastElement ==
  ASSUME NEW S, S \subseteq Nat, S # {}
  PROVE  \E x \in S : \A y \in S : x <= y
<1>1. PICK x \in S : \A y \in S : ~ (<<y, x>> \in OpToRel(<, Nat))
  BY WFMin, NatLessThanWellFounded, Zenon
<1>2. ASSUME NEW y \in S PROVE x <= y
  <2>1. <<y, x>> \in Nat \X Nat
    OBVIOUS
  <2>2. ~ (y < x)
    BY <1>1, <2>1 DEF OpToRel
  <2> QED
    BY <2>2
<1> QED
  BY <1>2

(* More numbers than places: two of them share one.                       *)
LEMMA Pigeons ==
  ASSUME NEW n \in Nat, NEW m \in Nat, n < m, NEW f \in [1 .. m -> 1 .. n]
  PROVE  \E x, y \in 1 .. m : x # y /\ f[x] = f[y]
<1> DEFINE S == 1 .. m
           T == 1 .. n
<1>1. IsFiniteSet(S) /\ Cardinality(S) = m
  BY FS_Interval
<1>2. IsFiniteSet(T) /\ Cardinality(T) = n
  BY FS_Interval
<1>3. Cardinality(T) < Cardinality(S) /\ f \in [S -> T]
  BY <1>1, <1>2
<1> HIDE DEF S, T
<1>4. \E x, y \in S : x # y /\ f[x] = f[y]
  BY <1>1, <1>2, <1>3, FS_PigeonHole
<1> QED
  BY <1>4 DEF S

(* The number uniqueID looks for exists, so a new session is given an      *)
(* identifier nobody has: fewer sessions run than there are numbers.       *)
LEMMA UniqueIsFree ==
  ASSUME IInv, count < MaxSessions, NEW a \in Alias
  PROVE  UniqueID(a) \in ID /\ ~Known(UniqueID(a))
<1> USE MaxSessionsAssumption
<1>1. count \in 0 .. MaxSessions /\ byID \in [ID -> 0 .. count]
  BY DEF IInv, TypeInv
<1>2. \A n \in Inc : <<a, n>> \in ID
  BY DEF ID
<1> DEFINE Free == {n \in Inc : ~Known(<<a, n>>)}
<1>3. Free # {}
  <2> SUFFICES ASSUME \A n \in Inc : Known(<<a, n>>) PROVE FALSE
    OBVIOUS
  <2> DEFINE f == [n \in Inc |-> byID[<<a, n>>]]
  <2>1. f \in [Inc -> 1 .. count]
    BY <1>1, <1>2 DEF Known
  <2>2. ASSUME NEW g \in [1 .. MaxSessions -> 1 .. count]
        PROVE  \E x, y \in 1 .. MaxSessions : x # y /\ g[x] = g[y]
    <3>1. count \in Nat /\ MaxSessions \in Nat /\ count < MaxSessions
      BY <1>1
    <3> QED
      BY <3>1, Pigeons
  <2> HIDE DEF f
  <2>3. \E x, y \in Inc : x # y /\ f[x] = f[y]
    BY <2>1, <2>2 DEF Inc
  <2>6. PICK m \in Inc, n \in Inc : m # n /\ f[m] = f[n]
    BY <2>3
  <2>7. byID[<<a, m>>] = byID[<<a, n>>]
    BY <2>6 DEF f
  <2>8. sid[byID[<<a, m>>]] = <<a, m>> /\ sid[byID[<<a, n>>]] = <<a, n>>
    BY <1>2 DEF IInv, NamedInv
  <2> QED
    BY <2>6, <2>7, <2>8
<1>4. Free \subseteq Nat
  BY DEF Inc
<1> HIDE DEF Free
<1>5. PICK n \in Free : \A m \in Free : n <= m
  BY <1>3, <1>4, LeastElement
<1>6. n \in Inc /\ ~Known(<<a, n>>)
  BY <1>5 DEF Free
<1>7. ASSUME NEW m \in 1 .. n - 1 PROVE Known(<<a, m>>)
  <2>1. m \in Inc /\ ~(n <= m)
    BY <1>6 DEF Inc
  <2> QED
    BY <1>5, <2>1 DEF Free
<1> DEFINE least == CHOOSE k \in Inc : ~Known(<<a, k>>) /\ \A m \in 1 .. k - 1 : Known(<<a, m>>)
<1>8. least \in Inc /\ ~Known(<<a, least>>)
  BY <1>6, <1>7
<1>9. UniqueID(a) = <<a, least>>
  BY DEF UniqueID
<1> HIDE DEF least
<1> QED
  BY <1>2, <1>8, <1>9

(* A new host comes last, under an identifier nobody has.                  *)
LEMMA AddKeepsListInv ==
  ASSUME IInv, ListInv, NEW a \in Alias, Add(a)
  PROVE  ListInv'
<1> DEFINE new == count + 1
           name == UniqueID(a)
<1> USE MaxSessionsAssumption DEF ListInv
<1>1. /\ new \in Inc /\ count' = new /\ count \in Nat
      /\ count < MaxSessions
      /\ sid' = [sid EXCEPT ![new] = name]
      /\ list' = Append(list, new)
      /\ byID' = [byID EXCEPT ![name] = new]
      /\ byID \in [ID -> 0 .. count]
  BY DEF Add, IInv, TypeInv, Inc
<1>2. name \in ID /\ ~Known(name)
  BY <1>1, UniqueIsFree
<1> HIDE DEF name
<1> DEFINE n == Len(list) + 1
<1>3. n \in Nat /\ DOMAIN list = 1 .. n - 1 /\ DOMAIN list' = 1 .. n /\ list' \in Seq(Inc)
  BY <1>1
<1>4. list'[n] = new /\ \A k \in 1 .. n - 1 : list'[k] = list[k]
  BY <1>1
<1>5. sid' \in [Inc -> ID \cup {NoID}] /\ sid'[new] = name
  BY <1>1, <1>2
<1>6. \A k \in 1 .. n - 1 : sid'[list'[k]] = sid[list[k]] /\ sid[list[k]] # name
  <2> SUFFICES ASSUME NEW k \in 1 .. n - 1 PROVE sid'[list[k]] = sid[list[k]] /\ sid[list[k]] # name
    BY <1>4
  <2> HIDE DEF n
  <2>1. list[k] \in 1 .. count /\ list[k] \in Inc /\ sid[list[k]] \in ID /\ list[k] = byID[sid[list[k]]]
    <3>1. k \in DOMAIN list
      BY <1>3
    <3> QED
      BY <3>1
  <2>2. list[k] # new /\ Known(sid[list[k]])
    BY <1>1, <2>1 DEF Known
  <2> QED
    BY <1>1, <1>2, <2>1, <2>2
<1>7. ASSUME NEW k \in DOMAIN list'
      PROVE  sid'[list'[k]] \in ID /\ list'[k] = byID'[sid'[list'[k]]] /\ list'[k] \in 1 .. count'
  <2>1. CASE k = n
    BY <1>1, <1>2, <1>4, <1>5, <2>1
  <2>2. CASE k \in 1 .. n - 1
    <3>1. sid[list[k]] \in ID /\ list[k] = byID[sid[list[k]]] /\ list[k] \in 1 .. count
      BY <1>3, <2>2
    <3>2. byID'[sid[list[k]]] = byID[sid[list[k]]]
      BY <1>1, <1>6, <2>2, <3>1
    <3> QED
      BY <1>1, <1>4, <1>6, <2>2, <3>1, <3>2
  <2> QED
    BY <1>3, <2>1, <2>2
<1>8. ASSUME NEW id \in ID, Known(id)' PROVE \E k \in DOMAIN list' : list'[k] = byID'[id]
  <2>1. CASE id = name
    <3>1. byID'[id] = new /\ n \in DOMAIN list'
      BY <1>1, <1>2, <1>3, <2>1
    <3> QED
      BY <1>4, <3>1
  <2>2. CASE id # name
    <3>1. byID'[id] = byID[id] /\ Known(id)
      BY <1>1, <1>8, <2>2 DEF Known
    <3>2. PICK k \in DOMAIN list : list[k] = byID[id]
      BY <3>1
    <3>3. k \in DOMAIN list' /\ list'[k] = list[k]
      BY <1>3, <1>4
    <3> QED
      BY <3>1, <3>2, <3>3
  <2> QED
    BY <2>1, <2>2
<1>9. ASSUME NEW j \in DOMAIN list', NEW k \in DOMAIN list', sid'[list'[j]] = sid'[list'[k]] PROVE j = k
  <2>1. (j = n \/ j \in 1 .. n - 1) /\ (k = n \/ k \in 1 .. n - 1)
    BY <1>3
  <2>2. CASE j \in 1 .. n - 1 /\ k \in 1 .. n - 1
    <3>1. j \in DOMAIN list /\ k \in DOMAIN list /\ sid[list[j]] = sid[list[k]]
      BY <1>3, <1>6, <1>9, <2>2
    <3> QED
      BY <3>1
  <2>3. CASE j = n /\ k \in 1 .. n - 1
    BY <1>4, <1>5, <1>6, <1>9, <2>3
  <2>4. CASE j \in 1 .. n - 1 /\ k = n
    BY <1>4, <1>5, <1>6, <1>9, <2>4
  <2> QED
    BY <2>1, <2>2, <2>3, <2>4
<1> QED
  BY <1>3, <1>5, <1>7, <1>8, <1>9 DEF ListInv

(* A reconnect puts the new session where the old one was.                 *)
LEMMA SwapKeepsListInv ==
  ASSUME IInv, ListInv, NEW id \in ID, Swap(id)
  PROVE  ListInv' /\ DOMAIN list' = DOMAIN list /\ \A k \in DOMAIN list : sid'[list'[k]] = sid[list[k]]
<1> DEFINE new == count + 1
<1> USE MaxSessionsAssumption DEF ListInv
<1>1. /\ new \in Inc /\ count' = new /\ count \in Nat
      /\ Known(id)
      /\ sid' = [sid EXCEPT ![new] = id]
      /\ list' = [k \in DOMAIN list |-> IF sid[list[k]] = id THEN new ELSE list[k]]
      /\ byID' = [byID EXCEPT ![id] = new]
      /\ byID \in [ID -> 0 .. count]
  BY DEF Swap, IInv, TypeInv, Inc
<1>2. /\ DOMAIN list' = DOMAIN list /\ list' \in Seq(Inc)
      /\ \A k \in DOMAIN list : list'[k] = IF sid[list[k]] = id THEN new ELSE list[k]
  <2>1. Len(list) \in Nat /\ DOMAIN list = 1 .. Len(list) /\ \A k \in DOMAIN list : list[k] \in Inc
    OBVIOUS
  <2>2. list' \in [1 .. Len(list) -> Inc]
    BY <1>1, <2>1
  <2>3. list' \in Seq(Inc)
    BY <2>1, <2>2
  <2> QED
    BY <1>1, <2>3
<1>3. sid' \in [Inc -> ID \cup {NoID}] /\ sid'[new] = id
  BY <1>1
<1>4. \A k \in DOMAIN list : sid'[list'[k]] = sid[list[k]]
  <2> SUFFICES ASSUME NEW k \in DOMAIN list PROVE sid'[list'[k]] = sid[list[k]]
    OBVIOUS
  <2>1. CASE sid[list[k]] = id
    BY <1>2, <1>3, <2>1
  <2>2. CASE sid[list[k]] # id
    <3>1. list[k] \in 1 .. count /\ list[k] \in Inc
      OBVIOUS
    <3>2. list[k] # new
      BY <1>1, <3>1
    <3> QED
      BY <1>1, <1>2, <2>2, <3>1, <3>2
  <2> QED
    BY <2>1, <2>2
<1>5. ASSUME NEW k \in DOMAIN list
      PROVE  sid'[list'[k]] \in ID /\ list'[k] = byID'[sid'[list'[k]]] /\ list'[k] \in 1 .. count'
  <2>1. sid[list[k]] \in ID /\ list[k] = byID[sid[list[k]]] /\ list[k] \in 1 .. count
    OBVIOUS
  <2>2. CASE sid[list[k]] = id
    BY <1>1, <1>2, <1>4, <2>2
  <2>3. CASE sid[list[k]] # id
    BY <1>1, <1>2, <1>4, <2>1, <2>3
  <2> QED
    BY <2>2, <2>3
<1>6. ASSUME NEW d \in ID, Known(d)' PROVE \E k \in DOMAIN list : list'[k] = byID'[d]
  <2>1. CASE d = id
    <3>1. PICK k \in DOMAIN list : list[k] = byID[id]
      BY <1>1
    <3>2. sid[list[k]] = id
      BY <1>1, <3>1 DEF IInv, NamedInv
    <3> QED
      BY <1>1, <1>2, <2>1, <3>2
  <2>2. CASE d # id
    <3>1. byID'[d] = byID[d] /\ Known(d)
      BY <1>1, <1>6, <2>2 DEF Known
    <3>2. PICK k \in DOMAIN list : list[k] = byID[d]
      BY <3>1
    <3>3. sid[list[k]] = d
      BY <3>1, <3>2 DEF IInv, NamedInv
    <3> QED
      BY <1>2, <2>2, <3>1, <3>2, <3>3
  <2> QED
    BY <2>1, <2>2
<1>7. ASSUME NEW j \in DOMAIN list, NEW k \in DOMAIN list, sid'[list'[j]] = sid'[list'[k]] PROVE j = k
  BY <1>4, <1>7
<1> QED
  BY <1>2, <1>3, <1>4, <1>5, <1>6, <1>7 DEF ListInv

(* A removal takes one place out of the list.                              *)
LEMMA RemoveKeepsListInv ==
  ASSUME IInv, ListInv, NEW id \in ID, Remove(id)
  PROVE  /\ ListInv'
         /\ DOMAIN list' = 1 .. Len(list) - 1
         /\ \E p \in DOMAIN list :
              /\ sid[list[p]] = id
              /\ \A k \in 1 .. Len(list) - 1 : list'[k] = IF k < p THEN list[k] ELSE list[k + 1]
<1> USE MaxSessionsAssumption DEF ListInv
<1>1. /\ count \in Nat /\ Known(id)
      /\ byID' = [byID EXCEPT ![id] = 0]
      /\ list' = Without(id)
      /\ byID \in [ID -> 0 .. count]
      /\ UNCHANGED <<count, sid>>
  BY DEF Remove, IInv, TypeInv, Inc
<1>2. \E k \in DOMAIN list : sid[list[k]] = id
  BY <1>1 DEF IInv, NamedInv
<1>3. list' \in Seq(Inc) /\ DOMAIN list' = 1 .. Len(list) - 1
  BY <1>1, <1>2, WithoutAt
<1>4. PICK p \in DOMAIN list :
        /\ sid[list[p]] = id
        /\ \A k \in 1 .. Len(list) - 1 : list'[k] = IF k < p THEN list[k] ELSE list[k + 1]
  BY <1>1, <1>2, WithoutAt
<1> DEFINE at(k) == IF k < p THEN k ELSE k + 1
<1>5. Len(list) \in Nat /\ p \in 1 .. Len(list) /\ DOMAIN list = 1 .. Len(list)
  BY <1>4
<1>6. \A k \in DOMAIN list' : at(k) \in DOMAIN list /\ at(k) # p /\ list'[k] = list[at(k)]
  BY <1>3, <1>4, <1>5
<1>7. \A m \in DOMAIN list : m # p => \E k \in DOMAIN list' : at(k) = m
  <2> SUFFICES ASSUME NEW m \in DOMAIN list, m # p PROVE \E k \in DOMAIN list' : at(k) = m
    OBVIOUS
  <2>1. CASE m < p
    <3>1. m \in DOMAIN list' /\ at(m) = m
      BY <1>3, <1>5, <2>1
    <3> QED
      BY <3>1
  <2>2. CASE ~(m < p)
    <3>1. m - 1 \in DOMAIN list' /\ at(m - 1) = m
      BY <1>3, <1>5, <2>2
    <3> QED
      BY <3>1
  <2> QED
    BY <2>1, <2>2
<1>8. \A j, k \in DOMAIN list' : at(j) = at(k) => j = k
  BY <1>3, <1>5
<1>9. \A m \in DOMAIN list : m # p => sid[list[m]] # id
  BY <1>4
<1> HIDE DEF at
<1>10. ASSUME NEW k \in DOMAIN list'
       PROVE  sid'[list'[k]] \in ID /\ list'[k] = byID'[sid'[list'[k]]] /\ list'[k] \in 1 .. count'
  <2>1. /\ at(k) \in DOMAIN list /\ list'[k] = list[at(k)]
        /\ sid[list[at(k)]] \in ID /\ sid[list[at(k)]] # id
        /\ list[at(k)] = byID[sid[list[at(k)]]] /\ list[at(k)] \in 1 .. count
    BY <1>6, <1>9
  <2> QED
    BY <1>1, <2>1
<1>11. ASSUME NEW d \in ID, Known(d)' PROVE \E k \in DOMAIN list' : list'[k] = byID'[d]
  <2>1. d # id /\ Known(d) /\ byID'[d] = byID[d]
    BY <1>1, <1>11 DEF Known
  <2>2. PICK m \in DOMAIN list : list[m] = byID[d]
    BY <2>1
  <2>3. sid[list[m]] = d
    BY <2>1, <2>2 DEF IInv, NamedInv
  <2>4. m # p
    BY <1>4, <2>1, <2>3
  <2> QED
    BY <1>6, <1>7, <2>1, <2>2, <2>4
<1>12. ASSUME NEW j \in DOMAIN list', NEW k \in DOMAIN list', sid'[list'[j]] = sid'[list'[k]] PROVE j = k
  <2>1. sid[list[at(j)]] = sid[list[at(k)]]
    BY <1>1, <1>6, <1>12
  <2>2. at(j) = at(k)
    BY <1>6, <2>1
  <2> QED
    BY <1>8, <2>2
<1>13. sid' \in [Inc -> ID \cup {NoID}]
  BY <1>1
<1>14. ListInv'
  BY <1>3, <1>10, <1>11, <1>12, <1>13 DEF ListInv
<1> QED
  BY <1>3, <1>4, <1>14

(* Every other step leaves the fleet as it is.                             *)
LEMMA OthersKeepFleet ==
  ASSUME [Next]_vars,
         ~ \E a \in Alias : Add(a),
         ~ \E id \in ID : Swap(id) \/ Remove(id)
  PROVE  UNCHANGED <<count, sid, list, byID>>
<1>1. CASE UserStep
  BY <1>1 DEF UserStep, Reconnect, Close, ReconnectAll, Shutdown, indexVars
<1>2. CASE CommandStep
  BY <1>2 DEF CommandStep, Redial, CloseTakes, CloseEnds, CloseWaits, indexVars
<1>3. CASE SessionStep
  BY <1>3 DEF SessionStep, DialStarts, DialCancelled, DialFails, DialConnects, Ends, indexVars
<1>4. CASE UNCHANGED vars
  BY <1>4 DEF vars, indexVars
<1> QED
  BY <1>1, <1>2, <1>3, <1>4 DEF Next

LEMMA InitListInv == Init => ListInv
BY MaxSessionsAssumption DEF Init, ListInv, Known

LEMMA NextListInv ==
  ASSUME IInv, ListInv, [Next]_vars
  PROVE  ListInv'
<1>1. CASE \E a \in Alias : Add(a)
  BY <1>1, AddKeepsListInv
<1>2. CASE \E id \in ID : Swap(id)
  BY <1>2, SwapKeepsListInv
<1>3. CASE \E id \in ID : Remove(id)
  BY <1>3, RemoveKeepsListInv
<1>4. CASE UNCHANGED <<count, sid, list, byID>>
  BY <1>4 DEF ListInv, Known
<1> QED
  BY <1>1, <1>2, <1>3, <1>4, OthersKeepFleet

-----------------------------------------------------------------------------
(* The rest of the types.                                                  *)
KindInv ==
  /\ over \in [Inc -> BOOLEAN]
  /\ emuClosed \subseteq Inc
  /\ cmds \subseteq Cmd
  /\ redials \subseteq ID
  /\ cancelled \in BOOLEAN

LEMMA NextKindInv ==
  ASSUME IInv, RequestInv, KindInv, [Next]_vars
  PROVE  KindInv'
<1> USE MaxSessionsAssumption DEF KindInv
<1>1. count \in 0 .. MaxSessions /\ byID \in [ID -> 0 .. count] /\ 1 .. count \subseteq Inc
  BY DEF IInv, TypeInv, Inc
<1>2. over' \in [Inc -> BOOLEAN] /\ cancelled' \in BOOLEAN
  BY DEF Next, UserStep, CommandStep, SessionStep, vars, dialVars, cmdVars,
       Add, Reconnect, Swap, Close, Remove, ReconnectAll, Shutdown, Redial, CloseTakes, CloseEnds, CloseWaits,
       DialStarts, DialCancelled, DialFails, DialConnects, Ends
<1>3. redials' \subseteq ID
  <2>1. CASE ReconnectAll
    <3>1. \A i \in Live : sid[i] \in ID
      BY DEF Live, IInv, NamedInv
    <3> QED
      BY <2>1, <3>1 DEF ReconnectAll
  <2>2. CASE ~ReconnectAll
    BY <2>2 DEF Next, UserStep, CommandStep, SessionStep, vars, cmdVars,
         Add, Reconnect, Close, Remove, Shutdown, Redial, CloseTakes, CloseEnds, CloseWaits,
         DialStarts, DialCancelled, DialFails, DialConnects, Ends
  <2> QED
    BY <2>1, <2>2
<1>4. emuClosed' \subseteq Inc
  <2>1. CASE \E c \in cmds : CloseEnds(c)
    <3>1. PICK c \in cmds : CloseEnds(c)
      BY <2>1
    <3>2. emuOf[c.on] \in Inc
      BY <1>1 DEF RequestInv, IInv, TypeInv
    <3> QED
      BY <3>1, <3>2 DEF CloseEnds
  <2>2. CASE ~ \E c \in cmds : CloseEnds(c)
    BY <2>2 DEF Next, UserStep, CommandStep, SessionStep, vars, emuVars,
         Add, Reconnect, Swap, Close, Remove, ReconnectAll, Shutdown, Redial, CloseTakes, CloseWaits,
         DialStarts, DialCancelled, DialFails, DialConnects, Ends
  <2> QED
    BY <2>1, <2>2
<1>5. cmds' \subseteq Cmd
  <2>1. \A i \in Inc : Closing(i) \in Cmd
    BY DEF Closing, Cmd
  <2>2. CASE \E a \in Alias : Add(a)
    BY <2>2 DEF Add, cmdVars
  <2>3. CASE \E id \in ID : Swap(id)
    <3>1. PICK id \in ID : Swap(id)
      BY <2>3
    <3>2. byID[id] \in Inc /\ count + 1 \in 0 .. MaxSessions
      BY <1>1, <3>1 DEF Swap, Known
    <3>3. [on |-> byID[id], fresh |-> count + 1, closes |-> FALSE] \in Cmd
      BY <3>2 DEF Cmd
    <3> QED
      BY <3>1, <3>3 DEF Swap
  <2>4. CASE \E id \in ID : Close(id) \/ Remove(id)
    <3>1. PICK id \in ID : Close(id) \/ Remove(id)
      BY <2>4
    <3>2. byID[id] \in Inc
      BY <1>1, <3>1 DEF Close, Remove, Known
    <3> QED
      BY <2>1, <3>1, <3>2 DEF Close, Remove
  <2>5. CASE Shutdown
    <3>1. Listed(list) \subseteq Inc
      BY DEF Listed, RequestInv
    <3> QED
      BY <2>1, <2>5, <3>1 DEF Shutdown
  <2>6. CASE \E c \in cmds : CloseTakes(c) \/ CloseEnds(c) \/ CloseWaits(c)
    <3>1. PICK c \in cmds : CloseTakes(c) \/ CloseEnds(c) \/ CloseWaits(c)
      BY <2>6
    <3>2. [c EXCEPT !.closes = TRUE] \in Cmd
      BY DEF Cmd
    <3> QED
      BY <3>1, <3>2 DEF CloseTakes, CloseEnds, CloseWaits, GoesOn, GivesUp
  <2>7. CASE ReconnectAll \/ UNCHANGED cmds
    BY <2>7 DEF ReconnectAll
  <2>8. SessionStep \/ UNCHANGED vars => UNCHANGED cmds
    BY DEF SessionStep, vars, cmdVars, DialStarts, DialCancelled, DialFails, DialConnects, Ends
  <2>9. \A id \in ID : Redial(id) => Swap(id) \/ UNCHANGED cmds
    BY DEF Redial
  <2> QED
    BY <2>2, <2>3, <2>4, <2>5, <2>6, <2>7, <2>8, <2>9 DEF Next, UserStep, CommandStep, Reconnect
<1> QED
  BY <1>2, <1>3, <1>4, <1>5

(* However the manager's operations overlap, the list the UI shows and the *)
(* index the router asks hold the same sessions, each once and under its   *)
(* own identifier.                                                         *)
THEOREM FleetIsOne == Spec => []OneFleet
<1> USE MaxSessionsAssumption
<1>1. Init => KindInv
  BY DEF Init, KindInv
<1>2. ASSUME IInv, RequestInv, ListInv, KindInv PROVE TypeOK
  <2>1. asked \subseteq Inc /\ byID \in [ID -> 0 .. MaxSessions]
    BY <1>2 DEF IInv, TypeInv, RequestInv, Inc
  <2> QED
    BY <1>2, <2>1 DEF TypeOK, IInv, TypeInv, DialInv, RequestInv, ListInv, KindInv
<1>3. ASSUME IInv, ListInv PROVE IndexMatchesList
  <2>1. Len(list) \in Nat /\ DOMAIN list = 1 .. Len(list)
    BY <1>3 DEF ListInv
  <2>2. \A k \in DOMAIN list : list[k] \in Live
    BY <1>3 DEF ListInv, Live, Known
  <2>3. \A i \in Live : \E k \in DOMAIN list : list[k] = i
    BY <1>3 DEF ListInv, Live, Known
  <2>4. Listed(list) = Live
    BY <2>2, <2>3 DEF Listed
  <2>5. list \in [1 .. Len(list) -> Live]
    BY <1>3, <2>1, <2>2 DEF ListInv
  <2>6. \A j, k \in 1 .. Len(list) : list[j] = list[k] => j = k
    BY <1>3, <2>1 DEF ListInv
  <2>7. list \in Bijection(1 .. Len(list), Live)
    BY <2>1, <2>3, <2>5, <2>6 DEF Bijection, Injection, Surjection, IsInjective
  <2>8. Cardinality(Live) = Len(list)
    <3>1. ExistsBijection(1 .. Len(list), Live)
      BY <2>7 DEF ExistsBijection
    <3> QED
      BY <2>1, <3>1, FS_CountingElements
  <2> QED
    BY <1>3, <2>4, <2>8 DEF IndexMatchesList, IInv, NamedInv
<1>4. IInv /\ RequestInv /\ ListInv /\ KindInv => OneFleet
  BY <1>2, <1>3 DEF OneFleet
<1> QED
  BY InitIInv, NextIInv, InitRequestInv, NextRequestInv, InitListInv, NextListInv, <1>1, NextKindInv, <1>4, PTL DEF Spec

-----------------------------------------------------------------------------
(* Whatever the manager does, hosts that stay keep their order, and a new  *)
(* host comes after all of them: the positions that working sets and panes *)
(* address are never shuffled.                                             *)
THEOREM OrderIsStable == Spec => OrderStable
<1> DEFINE Kept == \A j, k \in DOMAIN list, m, n \in DOMAIN list' :
                     j < k /\ sid'[list'[m]] = sid[list[j]] /\ sid'[list'[n]] = sid[list[k]] => m < n
           Last == \A m, n \in DOMAIN list' : Known(sid'[list'[m]]) /\ ~Known(sid'[list'[n]]) => m < n
<1>1. ASSUME IInv, ListInv, [Next]_vars PROVE Kept /\ Last
  <2>1. /\ DOMAIN list = 1 .. Len(list) /\ Len(list) \in Nat
        /\ \A k \in DOMAIN list : sid[list[k]] \in ID /\ Known(sid[list[k]])
        /\ \A j, k \in DOMAIN list : sid[list[j]] = sid[list[k]] => j = k
    BY <1>1, MaxSessionsAssumption DEF ListInv, Known, IInv, TypeInv
  <2>2. CASE /\ DOMAIN list' = DOMAIN list
             /\ \A k \in DOMAIN list : sid'[list'[k]] = sid[list[k]]
    BY <2>1, <2>2
  <2>3. ASSUME NEW a \in Alias, Add(a) PROVE Kept /\ Last
    <3> DEFINE last == Len(list) + 1
    <3>1. DOMAIN list' = 1 .. last /\ \A k \in DOMAIN list : list'[k] = list[k]
      BY <1>1, <2>3, <2>1 DEF Add, ListInv
    <3>2. \A k \in DOMAIN list : sid'[list'[k]] = sid[list[k]]
      BY <1>1, <2>3, <3>1, MaxSessionsAssumption DEF Add, ListInv, IInv, TypeInv
    <3>3. sid'[list'[last]] = UniqueID(a) /\ ~Known(UniqueID(a))
      <4>1. list'[last] = count + 1 /\ count + 1 \in Inc
        BY <1>1, <2>3, MaxSessionsAssumption DEF Add, ListInv, IInv, TypeInv, Inc
      <4>2. sid'[count + 1] = UniqueID(a)
        BY <1>1, <2>3, <4>1 DEF Add, ListInv
      <4>3. ~Known(UniqueID(a))
        BY <1>1, <2>3, UniqueIsFree DEF Add
      <4> QED
        BY <4>1, <4>2, <4>3
    <3>4. \A m \in DOMAIN list' : m # last => m \in DOMAIN list /\ m < last
      BY <2>1, <3>1
    <3> HIDE DEF last
    <3>5. \A k \in DOMAIN list : sid[list[k]] # UniqueID(a)
      BY <2>1, <3>3
    <3>6. Kept
      <4> SUFFICES ASSUME NEW j \in DOMAIN list, NEW k \in DOMAIN list,
                          NEW m \in DOMAIN list', NEW n \in DOMAIN list',
                          j < k, sid'[list'[m]] = sid[list[j]], sid'[list'[n]] = sid[list[k]]
                   PROVE  m < n
        OBVIOUS
      <4>1. m \in DOMAIN list /\ n \in DOMAIN list
        BY <3>3, <3>4, <3>5
      <4>2. m = j /\ n = k
        BY <2>1, <3>2, <4>1
      <4> QED
        BY <4>2
    <3>7. Last
      BY <2>1, <3>2, <3>3, <3>4
    <3> QED
      BY <3>6, <3>7
  <2>4. ASSUME NEW id \in ID, Remove(id) PROVE Kept /\ Last
    <3>1. DOMAIN list' = 1 .. Len(list) - 1 /\ sid' = sid
      BY <1>1, <2>4, RemoveKeepsListInv DEF Remove
    <3>2. PICK p \in DOMAIN list :
             \A k \in 1 .. Len(list) - 1 : list'[k] = IF k < p THEN list[k] ELSE list[k + 1]
      BY <1>1, <2>4, RemoveKeepsListInv
    <3> DEFINE at(k) == IF k < p THEN k ELSE k + 1
    <3>3. \A k \in DOMAIN list' : at(k) \in DOMAIN list /\ list'[k] = list[at(k)]
      BY <2>1, <3>1, <3>2
    <3>4. \A m, n \in DOMAIN list' : at(m) < at(n) => m < n
      BY <2>1, <3>1
    <3> HIDE DEF at
    <3>5. Kept
      <4> SUFFICES ASSUME NEW j \in DOMAIN list, NEW k \in DOMAIN list,
                          NEW m \in DOMAIN list', NEW n \in DOMAIN list',
                          j < k, sid'[list'[m]] = sid[list[j]], sid'[list'[n]] = sid[list[k]]
                   PROVE  m < n
        OBVIOUS
      <4>1. at(m) = j /\ at(n) = k
        BY <2>1, <3>1, <3>3
      <4> QED
        BY <3>4, <4>1
    <3>6. Last
      BY <2>1, <3>1, <3>3
    <3> QED
      BY <3>5, <3>6
  <2>5. CASE UNCHANGED <<count, sid, list, byID>>
    BY <2>2, <2>5
  <2>6. CASE \E id \in ID : Swap(id)
    BY <1>1, <2>2, <2>6, SwapKeepsListInv
  <2> QED
    BY <1>1, <2>3, <2>4, <2>5, <2>6, OthersKeepFleet
<1> QED
  BY InitIInv, NextIInv, InitListInv, NextListInv, <1>1, PTL DEF Spec, OrderStable
=============================================================================
