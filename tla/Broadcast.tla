----------------------------- MODULE Broadcast -----------------------------
(***************************************************************************)
(* The broadcast router (internal/broadcast/broadcast.go) over the working *)
(* set: which hosts a keystroke is meant for (the scope), which of them it *)
(* reaches (the targets), and what a send reports.  The router belongs to  *)
(* the update loop, so a send is one call: but the sessions change on      *)
(* goroutines of their own while that call asks one after the other.       *)
(*                                                                         *)
(* The program (internal/program/program.go) keeps the router's host list  *)
(* in step with the manager's: hosts join in Update, and leave in two      *)
(* steps, Manager.Remove on a goroutine and hostRemovedMsg afterwards.     *)
(***************************************************************************)
EXTENDS Integers, Sequences, FiniteSets

CONSTANTS
  Host,       \* session identifiers
  NoHost,     \* no pane has the focus
  MaxPos      \* bound of the model: positions in a typed range

ASSUME HostAssumption == IsFiniteSet(Host)
ASSUME NoHostAssumption == NoHost \notin Host

VARIABLES
  hosts, active,   \* the working set: see WorkingSet
  mode,            \* r.mode
  selected,        \* r.selected
  focus,           \* r.focus
  limit,           \* r.limit: the hosts on screen; nil, no limit, is every identifier
  up,              \* the sessions that are connected
  alt,             \* the sessions whose remote program is on the alternate screen
  fleet,           \* the manager's list
  leaving,         \* removed from the manager, hostRemovedMsg still to come
  phase,           \* what the update loop does: "idle", "looking", "sending", "resending"
  saw,             \* the kinds of screen this send has found in its scope
  todo,            \* hosts in scope, still to be asked whether they are targets
  picked,          \* targets, still to be written to
  report,          \* the Delivery of this send
  touched          \* history: the sessions that changed while this send looks for its targets

wsVars     == <<hosts, active>>
routerVars == <<mode, selected, focus, limit>>
liveVars   == <<up, alt>>
runVars    == <<fleet, leaving>>
sendVars   == <<phase, saw, todo, picked, report>>
vars == <<wsVars, routerVars, liveVars, runVars, sendVars, touched>>

(* The program applies selectors and never names them.                     *)
WS == INSTANCE WorkingSet WITH Name <- {}, NoName <- NoHost,
                               activeName <- NoHost, named <- <<>>

Mode == {"all", "selected", "single", "fleet"}
Listed(s) == {s[k] : k \in DOMAIN s}

TypeOK ==
  /\ hosts \in WS!HostList /\ active \in WS!Selector
  /\ mode \in Mode
  /\ selected \subseteq Host
  /\ focus \in Host \cup {NoHost}
  /\ limit \subseteq Host
  /\ up \subseteq Host /\ alt \subseteq Host
  /\ fleet \in WS!HostList
  /\ leaving \subseteq Host
  /\ phase \in {"idle", "looking", "sending", "resending"}
  /\ saw \subseteq {"alt", "primary"}
  /\ todo \in WS!HostList /\ picked \in WS!HostList
  /\ report \in [scope : Nat, targets : Nat, to : WS!HostList, failed : WS!HostList]
  /\ touched \subseteq Host

NoReport == [scope |-> 0, targets |-> 0, to |-> <<>>, failed |-> <<>>]

Init ==
  /\ hosts = <<>> /\ active = WS!All
  /\ mode = "all" /\ selected = {} /\ focus = NoHost /\ limit = Host
  /\ up = {} /\ alt = {}
  /\ fleet = <<>> /\ leaving = {}
  /\ phase = "idle" /\ saw = {} /\ todo = <<>> /\ picked = <<>>
  /\ report = NoReport
  /\ touched = {}

-----------------------------------------------------------------------------
(* The elements of s that are in ids, in the order of s.                   *)
Kept(s, ids) ==
  LET at == {k \in DOMAIN s : s[k] \in ids}
  IN  [n \in 1 .. Cardinality(at) |->
         s[CHOOSE k \in at : Cardinality({j \in at : j < k}) = n - 1]]

InOrder(ids) == Kept(hosts, ids)
WithinLimit(ids) == ids \cap limit

(* Defect: all means the whole run.                                        *)
Scope_AllIsFleet ==
  CASE mode = "fleet"    -> hosts
    [] mode = "selected" -> InOrder(WithinLimit(selected \cap WS!Members))
    [] mode = "single"   -> InOrder({focus})
    [] mode = "all"      -> InOrder(WithinLimit(Listed(hosts)))

(* Scope: the hosts the user is addressing, up or not, in host order.      *)
Scope ==
  CASE mode = "fleet"    -> hosts
    [] mode = "selected" -> InOrder(WithinLimit(selected \cap WS!Members))
    [] mode = "single"   -> InOrder({focus})
    [] mode = "all"      -> InOrder(WithinLimit(WS!Members))

ExcludesAltScreen == mode \in {"all", "selected"}

-----------------------------------------------------------------------------
Idle == phase = "idle" /\ UNCHANGED <<sendVars, touched>>

(* A send is finding out whom it will write to.                            *)
Deciding == phase = "looking" \/ (phase = "sending" /\ todo # <<>>)

Touches(h) == touched' = IF Deciding THEN touched \cup {h} ELSE touched

SetMode(m)    == mode' = m /\ UNCHANGED <<selected, focus, limit>>
SetFocus(h)   == focus' = h /\ UNCHANGED <<mode, selected, limit>>
SetLimit(ids) == limit' = ids /\ UNCHANGED <<mode, selected, focus>>

Reselect(ids) == selected' = ids /\ UNCHANGED <<mode, focus, limit>>

(* Toggle, Select and Deselect (by glob too), SelectWorkingSet, SelectAll, *)
(* SelectConnected, SelectDisconnected, InvertSelection, ClearSelection.   *)
Selects ==
  \/ \E h \in Listed(hosts) : Reselect(IF h \in selected THEN selected \ {h} ELSE selected \cup {h})
  \/ \E ids \in SUBSET Listed(hosts) : Reselect(selected \cup ids) \/ Reselect(selected \ ids)
  \/ Reselect(selected \cup WS!Members)
  \/ Reselect(selected \cup Listed(hosts))
  \/ Reselect(selected \cup (Listed(hosts) \cap up))
  \/ Reselect(selected \cup (Listed(hosts) \ up))
  \/ Reselect(Listed(hosts) \ selected)
  \/ Reselect({})

RouterStep ==
  /\ Idle
  /\ \/ \E m \in Mode : SetMode(m)
     \/ \E h \in Listed(hosts) \cup {NoHost} : SetFocus(h)
     \/ \E ids \in {Host} \cup SUBSET Listed(hosts) : SetLimit(ids)
     \/ Selects
  /\ UNCHANGED <<wsVars, liveVars, runVars>>

ApplySet(sel) ==
  /\ Idle
  /\ active' = sel
  /\ UNCHANGED <<hosts, routerVars, liveVars, runVars>>

(* The orders in which these hosts can be named, each once.                *)
Orders(ids) ==
  {s \in [1 .. Cardinality(ids) -> ids] : \A j, k \in DOMAIN s : s[j] = s[k] => j = k}

(* Defect: the working set is not told of hosts that join.                 *)
HostsJoin_NotTold(new) ==
  /\ fleet' = fleet \o new
  /\ UNCHANGED hosts

(* Manager.Add, host by host, and the working set gets the manager's list. *)
HostsJoin(new) ==
  /\ fleet' = fleet \o new
  /\ hosts' = fleet'

(* applyConnect and cloneHost: hosts join that the manager does not list.  *)
Connects ==
  /\ Idle
  /\ \E ids \in SUBSET (Host \ Listed(fleet)) \ {{}} : \E new \in Orders(ids) : HostsJoin(new)
  /\ UNCHANGED <<active, routerVars, liveVars, leaving>>

(* applyGroup: the same for the hosts of a group, some of which may be     *)
(* there already; then its broadcast mode, and its working set if it has   *)
(* one, are put in force.                                                  *)
OpensGroup ==
  /\ Idle
  /\ \E ids \in SUBSET (Host \ Listed(fleet)) : \E new \in Orders(ids) : HostsJoin(new)
  /\ \E m \in Mode : SetMode(m)
  /\ active' \in {active} \cup WS!Typed
  /\ UNCHANGED <<liveVars, leaving>>

(* Manager.Remove, on the command's goroutine: the session leaves the      *)
(* manager at once and is closed in its own time.  Bound: an identifier is *)
(* removed again only when its last removal was reported.                  *)
ManagerRemoves(h) ==
  /\ h \in Listed(fleet) \ leaving
  /\ fleet' = Kept(fleet, Listed(fleet) \ {h})
  /\ leaving' = leaving \cup {h}
  /\ up' = up \ {h} /\ alt' = alt \ {h}
  /\ Touches(h)
  /\ UNCHANGED <<wsVars, routerVars, sendVars>>

(* hostRemovedMsg: Forget drops every trace of the identifier, and the     *)
(* working set gets the manager's list.                                    *)
HostRemoved(h) ==
  /\ Idle
  /\ h \in leaving
  /\ leaving' = leaving \ {h}
  /\ selected' = selected \ {h}
  /\ focus' = IF focus = h THEN NoHost ELSE focus
  /\ hosts' = fleet
  /\ UNCHANGED <<active, mode, limit, liveVars, fleet>>

-----------------------------------------------------------------------------
(* Sessions connect, end, and enter or leave the alternate screen.         *)
SessionChanges ==
  /\ \/ \E h \in Listed(fleet) \ up : up' = up \cup {h} /\ UNCHANGED alt /\ Touches(h)
     \/ \E h \in up : up' = up \ {h} /\ alt' = alt \ {h} /\ Touches(h)
     \/ \E h \in up : alt' = (alt \cup {h}) \ (alt \cap {h}) /\ UNCHANGED up /\ Touches(h)
  /\ UNCHANGED <<wsVars, routerVars, runVars, sendVars>>

(* Send and SendKey: the scope, and in the modes that keep their hands off *)
(* full-screen programs a look at all its screens.                         *)
SendBegins ==
  /\ phase = "idle"
  /\ phase' = IF ExcludesAltScreen THEN "looking" ELSE "sending"
  /\ todo' = Scope
  /\ report' = [NoReport EXCEPT !.scope = Len(Scope)]
  /\ UNCHANGED <<wsVars, routerVars, liveVars, runVars, touched, saw, picked>>

(* Defect: a host that is down counts as a shell.                          *)
Looks_DownIsShell ==
  /\ phase = "looking" /\ todo # <<>> /\ saw # {"alt", "primary"}
  /\ todo' = Tail(todo)
  /\ saw' = saw \cup {IF Head(todo) \in alt THEN "alt" ELSE "primary"}
  /\ UNCHANGED <<wsVars, routerVars, liveVars, runVars, touched, phase, picked, report>>

(* mixedAltScreen, for the next host, until both kinds of screen are seen. *)
Looks ==
  /\ phase = "looking" /\ todo # <<>> /\ saw # {"alt", "primary"}
  /\ todo' = Tail(todo)
  /\ LET h == Head(todo)
     IN  saw' = saw \cup (IF h \notin up THEN {} ELSE IF h \in alt THEN {"alt"} ELSE {"primary"})
  /\ UNCHANGED <<wsVars, routerVars, liveVars, runVars, touched, phase, picked, report>>

LookEnds ==
  /\ phase = "looking"
  /\ todo = <<>> \/ saw = {"alt", "primary"}
  /\ phase' = "sending"
  /\ todo' = Scope
  /\ touched' = IF todo' = <<>> THEN {} ELSE touched
  /\ UNCHANGED <<wsVars, routerVars, liveVars, runVars, saw, picked, report>>

(* Targets, for the next host: connected, and not left alone for its       *)
(* full-screen program.                                                    *)
Pick ==
  /\ phase = "sending" /\ todo # <<>>
  /\ todo' = Tail(todo)
  /\ touched' = IF todo' = <<>> THEN {} ELSE touched
  /\ LET h == Head(todo)
     IN  IF h \in up /\ ~(saw = {"alt", "primary"} /\ h \in alt)
         THEN /\ picked' = Append(picked, h)
              /\ report' = [report EXCEPT !.targets = @ + 1]
         ELSE UNCHANGED <<picked, report>>
  /\ UNCHANGED <<wsVars, routerVars, liveVars, runVars, phase, saw>>

(* SendTo: hosts named by the caller - the ones that missed an earlier     *)
(* send (issue #256) - whatever the mode.                                  *)
SendTo(ids) ==
  /\ phase = "idle"
  /\ phase' = "resending"
  /\ todo' = InOrder(ids)
  /\ report' = [NoReport EXCEPT !.scope = Cardinality(ids)]
  /\ UNCHANGED <<wsVars, routerVars, liveVars, runVars, touched, saw, picked>>

(* ... each asked just before it is written to.                            *)
PickNamed ==
  /\ phase = "resending" /\ todo # <<>> /\ picked = <<>>
  /\ todo' = Tail(todo)
  /\ IF Head(todo) \in up
     THEN /\ picked' = <<Head(todo)>>
          /\ report' = [report EXCEPT !.targets = @ + 1]
     ELSE UNCHANGED <<picked, report>>
  /\ UNCHANGED <<wsVars, routerVars, liveVars, runVars, touched, phase, saw>>

(* Send writes when it has all its targets, SendTo one by one.             *)
Writing == picked # <<>> /\ (todo = <<>> \/ phase = "resending")

(* Defect: a host that lost its writer ends the send.                      *)
Write_StopsAtError ==
  /\ Writing
  /\ LET h == Head(picked)
     IN  \/ /\ h \in up
            /\ report' = [report EXCEPT !.to = Append(@, h)]
            /\ picked' = Tail(picked)
         \/ /\ report' = [report EXCEPT !.failed = Append(@, h)]
            /\ picked' = <<>>
  /\ UNCHANGED <<wsVars, routerVars, liveVars, runVars, touched, phase, saw, todo>>

(* The next target takes the bytes; or it has no writer any more, or       *)
(* refuses them (its backlog is full, its queue has failed).               *)
Write ==
  /\ Writing
  /\ picked' = Tail(picked)
  /\ LET h == Head(picked)
     IN  \/ h \in up /\ report' = [report EXCEPT !.to = Append(@, h)]
         \/ report' = [report EXCEPT !.failed = Append(@, h)]
  /\ UNCHANGED <<wsVars, routerVars, liveVars, runVars, touched, phase, saw, todo>>

SendReturns ==
  /\ phase \in {"sending", "resending"} /\ todo = <<>> /\ picked = <<>>
  /\ phase' = "idle" /\ saw' = {}
  /\ report' = NoReport
  /\ UNCHANGED <<wsVars, routerVars, liveVars, runVars, touched, todo, picked>>

Next ==
  \/ RouterStep
  \/ Connects \/ OpensGroup
  \/ \E sel \in WS!Typed : ApplySet(sel)
  \/ \E h \in Host : ManagerRemoves(h) \/ HostRemoved(h)
  \/ SessionChanges
  \/ SendBegins \/ Looks \/ LookEnds \/ Pick \/ PickNamed \/ Write \/ SendReturns
  \/ \E ids \in SUBSET Listed(hosts) : SendTo(ids)

Spec == Init /\ [][Next]_vars

-----------------------------------------------------------------------------
(* "Broadcast mode all means the active working set, not every host in the *)
(* run", and never a host that is not on screen; selected narrows it       *)
(* further, single is the focused pane and nothing else.  Whatever the     *)
(* sessions do while a send is under way, nobody else is written to.       *)
WorkingSetBoundsSends ==
  phase = "sending" =>
    LET reached == Listed(report.to) \cup Listed(picked)
    IN  CASE mode = "all"      -> reached \subseteq WithinLimit(WS!Members)
          [] mode = "selected" -> reached \subseteq WithinLimit(WS!Members \cap selected)
          [] mode = "single"   -> reached \subseteq {focus}
          [] mode = "fleet"    -> reached \subseteq Listed(hosts)

(* The report adds up although hosts come and go under it: every target    *)
(* either took the bytes or is listed as failed, never both and never      *)
(* neither, and the scope it is measured against is at least as large      *)
(* (issue #133: a keystroke that reports success while a host received     *)
(* nothing).                                                               *)
ReportAddsUp ==
  /\ Len(report.to) + Len(report.failed) + Len(picked) = report.targets
  /\ report.targets + Len(todo) <= report.scope
  /\ Listed(report.to) \cap Listed(report.failed) = {}

(* Full-screen programs are left alone only for the sake of shells, and    *)
(* that never leaves everybody alone (mixedAltScreen, issue #191), though  *)
(* screens and connections change while the send asks for them.  When the  *)
(* targets are decided: a shell of the scope that was up all along is one; *)
(* a full-screen program that was there all along is not, beside such a    *)
(* shell, and is one if no shell was there and nobody in the scope changed *)
(* under the send; and in the other modes nobody is left alone.            *)
SomebodyIsDriven ==
  [][phase = "sending" /\ todo # <<>> /\ todo' = <<>> =>
       LET reached == Listed(picked')
           steady  == (Listed(Scope) \cap up) \ touched
           shells  == steady \ alt
       IN  /\ shells \subseteq reached
           /\ ExcludesAltScreen /\ shells # {} => steady \cap reached = shells
           /\ ExcludesAltScreen /\ shells = {} /\ Listed(Scope) \cap touched = {} => steady \subseteq reached
           /\ ~ExcludesAltScreen => steady \subseteq reached
    ]_vars

(* The router's list follows the manager's through joins and removals in   *)
(* any order: it lists what the manager lists, and otherwise only hosts    *)
(* whose removal is still to be reported; and no selection and no focus    *)
(* outlives its host, which would over-report counts and name a dead host  *)
(* in the label (Forget).                                                  *)
RouterFollowsFleet ==
  /\ Listed(fleet) \subseteq Listed(hosts)
  /\ Listed(hosts) \subseteq Listed(fleet) \cup leaving
  /\ selected \cup ({focus} \ {NoHost}) \subseteq Listed(hosts) \cup leaving

(* ... with the router's own bookkeeping well formed (Router, Manager).    *)
RouterInStep == TypeOK /\ RouterFollowsFleet

(* Claimed by Forget: it "drops every trace of hosts that left the run"    *)
(* (broadcast.go:344): a host the manager lists keeps its selection when   *)
(* the removal of an earlier session of that name is reported.             *)
ForgetsOnlyTheGone ==
  [][\A h \in leaving \ leaving' : h \in Listed(fleet) /\ h \in selected => h \in selected']_vars
=============================================================================
