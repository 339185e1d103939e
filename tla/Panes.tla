------------------------------- MODULE Panes -------------------------------
(***************************************************************************)
(* The open sessions and the grid of panes (internal/ui, with the parts of *)
(* internal/program that feed it): which hosts are on screen, which pane   *)
(* has the focus, and how far a broadcast may reach.                       *)
(*                                                                         *)
(* The root model is the record app and its methods are operators from one *)
(* record to the next, chained as the source chains them; every message    *)
(* ends in Update, as App.Update ends every message.  Around it runs the   *)
(* fleet: hosts log out and fail at any moment, and removing a host takes  *)
(* a command that runs beside the event loop and a message that reports it.*)
(***************************************************************************)
EXTENDS Integers, Sequences, FiniteSets, SequencesExt

CONSTANTS
  Start,      \* the hosts of the command line, in order
  Other,      \* hosts that are connected later
  Group,      \* the groups that can be opened: name to hosts, in order
  Copies,     \* the identifiers a host gets when its own is taken: web1-2, ...
  AdHoc,      \* the name of the session the command line opens
  Term,       \* terminal sizes, <<width, height>>
  Splits,     \* chunk sizes the user types
  Screens,    \* screen modes the user reaches
  Patterns,   \* output filters the user types
  Lively,     \* bound of the model: the hosts that print and that fail
  MaxJoins    \* bound of the model: connects and group openings

PaneHost == ToSet(Start) \cup Other
Hole == ""

ASSUME HoleAssumption == Hole \notin PaneHost
ASSUME NameAssumption == AdHoc # "" /\ "" \notin DOMAIN Group
ASSUME StartAssumption == Start \in Seq(PaneHost) /\ IsInjective(Start)

(* A saved session lists a host (session.go, Validate), and may list one   *)
(* more than once.                                                         *)
ASSUME GroupAssumption == \A g \in DOMAIN Group : Group[g] \in Seq(PaneHost) /\ Group[g] # <<>>
ASSUME CopiesAssumption == Copies \in [PaneHost -> SUBSET PaneHost]
ASSUME ViewAssumption == Term \subseteq Nat \X Nat /\ Splits \subseteq Nat

VARIABLES
  managed,   \* the manager's identifiers, in order
  st,        \* the state of each session: "up", "failed", "closed", "gone"
  noisy,     \* hosts whose recent output holds the pattern
  hint,      \* a FleetUpdatedMsg is on its way
  removing,  \* hosts whose RemoveHostMsg has not run yet
  removed,   \* hosts whose hostRemovedMsg has not been handled yet
  joins,     \* how often hosts were added
  app        \* the root model

panesVars == <<managed, st, noisy, hint, removing, removed, joins, app>>
envVars == <<managed, st, noisy, hint, removing, removed, joins>>

-----------------------------------------------------------------------------
(* The tiling: a pure function of the area and the count.                  *)

Least(a, b) == IF a < b THEN a ELSE b
Most(a, b) == IF a < b THEN b ELSE a
Clamp(v, lo, hi) == IF hi < lo \/ v < lo THEN lo ELSE IF v > hi THEN hi ELSE v
CeilDiv(a, b) == IF b <= 0 THEN 0 ELSE (a + b - 1) \div b
CeilSqrt(n) == CHOOSE k \in 0 .. n : k * k >= n /\ \A j \in 0 .. k - 1 : j * j < n

(* ComputeScreenLayout, the main area: the sidebar gives way to the grid,  *)
(* the broadcast bar gives way before the grid does.                       *)
MainArea(term, screen, focus) ==
  LET w == term[1]
      h == term[2]
      asked == IF screen = "half" THEN IF focus = "sidebar" THEN Most(w \div 2, 20) ELSE 20
               ELSE Clamp(w \div 4, 20, 34)
      sidebar == IF w < 44 THEN 0 ELSE Least(asked, w - 24)
      bar == IF h >= 7 THEN 3 ELSE IF h >= 5 THEN 1 ELSE 0
  IN IF w < 24 \/ h < 4 THEN [x |-> 0, y |-> 0, w |-> 0, h |-> 0]
     ELSE [x |-> sidebar, y |-> 0, w |-> w - sidebar, h |-> h - 1 - bar]

NoGrid == [columns |-> 0, rows |-> 0, perPage |-> 0, pages |-> 0]

Tiled(columns, rows, wanted, count) ==
  LET perPage == Least(wanted, columns * rows)
  IN [columns |-> columns, rows |-> rows, perPage |-> perPage, pages |-> CeilDiv(count, perPage)]

(* The squarest shape; one that is too tall gets more columns.             *)
Shape(wanted, squarest, maxColumns, maxRows, count) ==
  IF CeilDiv(wanted, squarest) <= maxRows
  THEN Tiled(squarest, CeilDiv(wanted, squarest), wanted, count)
  ELSE Tiled(Least(Most(1, CeilDiv(wanted, maxRows)), maxColumns), maxRows, wanted, count)

(* TileGridCapped: panes no smaller than 47 by 19 cells, at most cap of    *)
(* them on a page.                                                         *)
TileGrid(area, count, cap) ==
  LET maxColumns == Most(1, area.w \div 47)
      maxRows == Most(1, area.h \div 19)
      wanted == Least(count, IF cap > 0 THEN Least(maxColumns * maxRows, cap)
                             ELSE maxColumns * maxRows)
      squarest == Most(1, Least(CeilSqrt(wanted), maxColumns))
  IN IF area.w <= 0 \/ area.h <= 0 \/ count <= 0 THEN NoGrid
     ELSE Shape(wanted, squarest, maxColumns, maxRows, count)

(* split: where part i of n begins, and how long it is; the remainder goes *)
(* to the first parts.                                                     *)
PartStart(total, n, i) == i * (total \div n) + Least(i, total % n)
PartSize(total, n, i) == total \div n + (IF i < total % n THEN 1 ELSE 0)

(* cells: the rectangle of a slot of the page, in reading order.           *)
Cell(area, g, slot) ==
  LET col == slot % g.columns
      row == slot \div g.columns
  IN [x |-> area.x + PartStart(area.w, g.columns, col), w |-> PartSize(area.w, g.columns, col),
      y |-> area.y + PartStart(area.h, g.rows, row), h |-> PartSize(area.h, g.rows, row)]

Inside(r, x, y) == x >= r.x /\ x < r.x + r.w /\ y >= r.y /\ y < r.y + r.h

-----------------------------------------------------------------------------
(* What is on screen.                                                      *)

(* The elements of s that are in ids, in the order of s.                   *)
Only(s, ids) ==
  LET at == {k \in DOMAIN s : s[k] \in ids}
  IN  [n \in 1 .. Cardinality(at) |->
         s[CHOOSE k \in at : Cardinality({j \in at : j < k}) = n - 1]]

Real(ids) == ToSet(ids) \ {Hole}
NonHoles(ids) == Only(ids, Real(ids))

(* A hole in the place of every host that is not in ids.                   *)
Holed(hosts, ids) == [i \in DOMAIN hosts |-> IF hosts[i] \in ids THEN hosts[i] ELSE Hole]

ActiveSession(a) == IF a.active = 0 THEN "" ELSE a.open[a.active].name

(* sessionHosts: the foreground session, a hole where a host left; the     *)
(* whole fleet while nothing is open.                                      *)
SessionHosts(a) ==
  IF a.active = 0 THEN a.snap
  ELSE Holed(a.open[a.active].hosts, ToSet(a.snap))

(* outputFiltered: only hosts that match, and no holes.                    *)
FilteredHosts(a) ==
  IF a.filter = "" THEN SessionHosts(a)
  ELSE Only(SessionHosts(a), a.match \ {Hole})

SplitChunks(a) == IF a.split = 0 THEN 0 ELSE Most(1, CeilDiv(Len(FilteredHosts(a)), a.split))

(* The part of a list that starts after so many.                           *)
Part(ids, first, count) == SubSeq(ids, first + 1, Least(first + count, Len(ids)))

(* visibleHosts, which is also hostIDs: the chunk of the split.            *)
HostIDs(a) ==
  IF a.split = 0 THEN FilteredHosts(a)
  ELSE Part(FilteredHosts(a), Clamp(a.chunk, 0, SplitChunks(a) - 1) * a.split, a.split)

GridSlots(a) == Most(Len(HostIDs(a)), a.kept)
PaneCap(a) == IF a.screen = "half" /\ a.focus = "grid" THEN 2 ELSE 0

(* The grid of the whole main area.                                        *)
WholeGrid(a) == TileGrid(a.main, GridSlots(a), PaneCap(a))

(* overflowFooterVisible: something is hidden, and a line says so.         *)
Footer(a, whole) ==
  /\ a.screen # "full"
  /\ \/ whole.pages > 1
     \/ SplitChunks(a) > 1
     \/ Len(a.open) > 1
     \/ a.filter # "" /\ Len(FilteredHosts(a)) < Len(NonHoles(SessionHosts(a)))
  /\ a.main.h > 1

Shorter(area) == [area EXCEPT !.h = @ - 1]
GridArea(a) == IF Footer(a, WholeGrid(a)) THEN Shorter(a.main) ELSE a.main

GridBeside(a, whole) ==
  IF Footer(a, whole) THEN TileGrid(Shorter(a.main), GridSlots(a), PaneCap(a)) ELSE whole
Grid(a) == GridBeside(a, WholeGrid(a))

ClampedPage(a, g) == IF g.pages = 0 THEN 0 ELSE Clamp(a.page, 0, g.pages - 1)

(* WindowHosts: the page of the grid that is drawn, holes included.        *)
OnPage(a, g) == Part(HostIDs(a), ClampedPage(a, g) * g.perPage, g.perPage)
WindowHosts(a) == OnPage(a, Grid(a))

HostAt(a, i) == IF i >= 0 /\ i < Len(HostIDs(a)) THEN HostIDs(a)[i + 1] ELSE Hole
FocusedHost(a) == HostAt(a, a.pane)

(* paneAt: the pane drawn at a point of the main area, -1 if none is;      *)
(* g and area are the grid of a.                                           *)
PaneAt(a, g, area, x, y) ==
  LET hit == {s \in 0 .. g.perPage - 1 : Inside(Cell(area, g, s), x, y)}
      index == ClampedPage(a, g) * g.perPage + (CHOOSE s \in hit : \A t \in hit : s <= t)
  IN IF a.screen = "full"
     THEN IF Inside(a.main, x, y) /\ a.pane < Len(HostIDs(a)) THEN a.pane ELSE -1
     ELSE IF hit = {} \/ index >= Len(HostIDs(a)) THEN -1 ELSE index

-----------------------------------------------------------------------------
(* The methods of the root model.                                          *)

NoLimit == PaneHost \cup {Hole}

(* syncBroadcastLimit: all and selected mode stop at the edge of the page; *)
(* an output filter is a view and does not narrow them.                    *)
LimitOf(a, g) ==
  IF g.perPage > 0 THEN Real(OnPage(a, g))
  ELSE IF a.active = 0 /\ a.split = 0 THEN NoLimit
  ELSE Real(HostIDs(a))

SyncLimit(a) ==
  LET base == [a EXCEPT !.filter = "", !.match = {}]
  IN [a EXCEPT !.limit = LimitOf(base, Grid(base))]

SyncLayout(a) ==
  IF a.term[1] <= 0 \/ a.term[2] <= 0 THEN a
  ELSE [a EXCEPT !.main = MainArea(a.term, a.screen, a.focus)]

(* A defect: the limit of the layout before this message.                  *)
UpdateLimitFirst(a) == SyncLayout(SyncLimit(a))

(* The end of App.Update, whatever the message was.  The handlers also     *)
(* call syncBroadcastLimit on their way; nothing reads the limit before    *)
(* this call sets it again, so that it is the one the model makes.         *)
Update(a) == SyncLimit(SyncLayout(a))

ResetGridSlots(a) == [a EXCEPT !.kept = Len(HostIDs(a))]
KeepGridSlots(a) == [a EXCEPT !.kept = GridSlots(a)]

PageOf(page, pane, perPage) == IF perPage = 0 THEN page ELSE pane \div perPage
FollowFocus(a) == [a EXCEPT !.page = PageOf(@, a.pane, Grid(a).perPage)]

(* refocus: the same host, else the nearest pane that is one; forward wins *)
(* at equal distance.                                                      *)
PaneFor(ids, pane, host) ==
  LET same == {i \in 0 .. Len(ids) - 1 : host # Hole /\ ids[i + 1] = host}
      at == Clamp(pane, 0, Most(0, Len(ids) - 1))
      near == {i \in 0 .. Len(ids) - 1 : ids[i + 1] # Hole}
      dist(i) == IF i > at THEN 2 * (i - at) - 1 ELSE 2 * (at - i)
  IN IF same # {} THEN CHOOSE i \in same : \A j \in same : i <= j
     ELSE IF near # {} THEN CHOOSE i \in near : \A j \in near : dist(i) <= dist(j)
     ELSE at

Refocus(a, host) == [a EXCEPT !.pane = PaneFor(HostIDs(a), @, host)]

(* The hosts of the i-th session become these.                             *)
SetHosts(a, i, hosts) ==
  [a EXCEPT !.open = [k \in DOMAIN a.open |->
                        IF k = i THEN [a.open[k] EXCEPT !.hosts = hosts] ELSE a.open[k]]]
Compacted(a, i) == SetHosts(a, i, NonHoles(a.open[i].hosts))

CompactHoles(a) ==
  IF a.active = 0 THEN a ELSE Refocus(Compacted(a, a.active), FocusedHost(a))

ForegroundSession(a, i) ==
  ResetGridSlots(
    [Compacted(a, i) EXCEPT !.active = i, !.page = 0, !.pane = 0, !.screen = "normal"])

(* openSessionAt: a session that is open already keeps its order.          *)
OpenSessionAt(a, name, hosts) ==
  LET same == {i \in DOMAIN a.open : a.open[i].name = name}
      i == CHOOSE j \in same : TRUE
      fresh == Only(hosts, ToSet(hosts) \ ToSet(a.open[i].hosts))
      new == [name |-> name, hosts |-> hosts, sawClose |-> FALSE, ending |-> FALSE]
  IN IF same # {}
     THEN ForegroundSession(SetHosts(a, i, a.open[i].hosts \o fresh), i)
     ELSE ForegroundSession([a EXCEPT !.open = Append(@, new)], Len(a.open) + 1)

(* The foreground is kept by name; losing it falls back to the last one.   *)
KeepActive(a, name) ==
  LET same == {i \in DOMAIN a.open : a.open[i].name = name}
  IN [a EXCEPT !.active = IF same # {} THEN CHOOSE i \in same : TRUE ELSE Len(a.open)]

(* A defect: the panes behind a host that left close up.                   *)
PruneCompacting(a) ==
  LET stay == [i \in DOMAIN a.open |->
                 [a.open[i] EXCEPT !.hosts = Only(@, ToSet(a.snap))]]
  IN KeepActive([a EXCEPT !.open = Only(stay, {s \in ToSet(stay) : s.hosts # <<>>})],
                          ActiveSession(a))

(* pruneSessions: a host that left leaves a hole, a session without hosts  *)
(* goes.                                                                   *)
PruneSessions(a) ==
  LET holed == [i \in DOMAIN a.open |->
                  [a.open[i] EXCEPT !.hosts = Holed(a.open[i].hosts, ToSet(a.snap))]]
  IN KeepActive([a EXCEPT !.open = Only(holed, {s \in ToSet(holed) : Real(s.hosts) # {}})],
                          ActiveSession(a))

Owned(a) == UNION {Real(a.open[i].hosts) : i \in DOMAIN a.open}

(* adoptNewHosts: hosts in no session join the foreground, or open the ad  *)
(* hoc session.                                                            *)
AdoptNewHosts(a) ==
  LET orphans == Only(a.snap, ToSet(a.snap) \ Owned(a))
  IN IF orphans = <<>> THEN a
     ELSE IF a.active # 0 THEN SetHosts(a, a.active, a.open[a.active].hosts \o orphans)
     ELSE OpenSessionAt(a, AdHoc, orphans)

(* snapshotFleet: the one reading of the live sessions.                    *)
SnapshotFleet(a, ids, states) ==
  [a EXCEPT !.snap = ids, !.states = [h \in ToSet(ids) |-> states[h]], !.had = @ \/ ids # <<>>]

SyncFilterMatches(a) == [a EXCEPT !.match = IF a.filter = "" THEN {} ELSE ToSet(a.snap) \cap noisy]

RefreshFilter(a) ==
  IF a.filter = "" THEN a ELSE FollowFocus(Refocus(SyncFilterMatches(a), FocusedHost(a)))

(* withHosts keeps the focus by its place in the fleet; the refocus that   *)
(* follows puts it where it belongs on screen.                             *)
WithHosts(a, ids) ==
  LET same == {i \in 0 .. Len(ids) - 1 : FocusedHost(a) # Hole /\ ids[i + 1] = FocusedHost(a)}
  IN [a EXCEPT !.pane = IF same # {} THEN CHOOSE i \in same : \A j \in same : i <= j
                        ELSE Clamp(@, 0, Len(ids) - 1)]

(* resetToStart: the view does not outlive the hosts of the run.           *)
ResetToStart(a) ==
  ResetGridSlots(
    [a EXCEPT !.had = FALSE, !.screen = "normal", !.pane = 0, !.page = 0, !.split = 0,
              !.chunk = 0, !.filter = "", !.match = {},
              !.focus = IF @ = "grid" THEN "sidebar" ELSE @])

(* The tail of the handler: the focus stays with its host, and the start   *)
(* screen shows once every host has left.                                  *)
Settles(a, host) == FollowFocus(Refocus(SyncFilterMatches(KeepGridSlots(a)), host))
StartIfEmpty(a) == IF a.had /\ a.snap = <<>> THEN ResetToStart(a) ELSE a

(* A defect: the hosts nobody holds are left without a session.            *)
HostsChangedUnadopted(a, ids, states) ==
  StartIfEmpty(Settles(
    PruneSessions(SnapshotFleet(WithHosts(a, ids), ids, states)), FocusedHost(a)))

(* The handler of HostsChangedMsg.                                         *)
HostsChanged(a, ids, states) ==
  StartIfEmpty(Settles(
    AdoptNewHosts(PruneSessions(SnapshotFleet(WithHosts(a, ids), ids, states))), FocusedHost(a)))

StateOf(a, h) == IF h \in ToSet(a.snap) THEN a.states[h] ELSE "pending"
Done(state) == state \in {"failed", "closed"}

(* sessionOver: every host is done, and a logout or the user said so.      *)
SessionOver(a, s) ==
  /\ \A h \in Real(s.hosts) : Done(StateOf(a, h))
  /\ Real(s.hosts) = {} \/ s.sawClose \/ s.ending

(* reapSessions: sessions that are over leave, and their hosts leave the   *)
(* run unless another session holds them; a host that logged out leaves    *)
(* whoever holds it.                                                       *)
Reap(a) ==
  LET seen == [a EXCEPT !.open =
                 [i \in DOMAIN a.open |-> [a.open[i] EXCEPT !.sawClose =
                    @ \/ \E h \in Real(a.open[i].hosts) : StateOf(a, h) = "closed"]]]
      kept == Only(seen.open, {s \in ToSet(seen.open) : ~SessionOver(a, s)})
      ended == {i \in DOMAIN seen.open : SessionOver(a, seen.open[i])}
      back == KeepActive([seen EXCEPT !.open = kept], ActiveSession(a))
      shaped == IF ActiveSession(back) # ActiveSession(a) THEN ResetGridSlots(back) ELSE back
      loggedOut == {h \in ToSet(a.snap) : StateOf(a, h) = "closed"}
      over == UNION {Real(seen.open[i].hosts) : i \in ended}
  IN [gone |-> loggedOut \cup ((over \cap ToSet(a.snap)) \ Owned(back)),
      app |-> IF ended = {} /\ loggedOut = {} THEN seen
              ELSE FollowFocus(Refocus(IF ended = {} THEN seen ELSE shaped,
                                       FocusedHost(a)))]

(* pageBy: the first pane of the page takes the focus.                     *)
ToPage(a, p) ==
  [a EXCEPT !.page = p, !.pane = Clamp(p * Grid(a).perPage, 0, Len(HostIDs(a)) - 1)]

LastPage(a) == ToPage(a, Most(0, Grid(a).pages - 1))

(* stepChunkWrapped, with more than one chunk.                             *)
StepChunk(a, delta) ==
  LET next == ResetGridSlots(
                [a EXCEPT !.chunk = (Clamp(@, 0, SplitChunks(a) - 1) + delta + SplitChunks(a))
                                      % SplitChunks(a),
                          !.page = 0, !.pane = 0])
  IN IF delta < 0 THEN LastPage(next) ELSE next

(* A defect: the step stays in the chunk.                                  *)
StepViewInChunk(a, delta) ==
  LET g == Grid(a)
      page == ClampedPage(a, g)
  IN IF g.pages <= 1 THEN a ELSE ToPage(a, (page + delta + g.pages) % g.pages)

(* stepView: pages of the chunk, then the next chunk, round the ends.      *)
StepOn(a, g, page, delta) ==
  IF g.pages <= 1 /\ SplitChunks(a) <= 1 THEN a
  ELSE IF page + delta \in 0 .. g.pages - 1 THEN ToPage(a, page + delta)
  ELSE IF SplitChunks(a) > 1 THEN StepChunk(a, delta)
  ELSE ToPage(a, IF delta > 0 THEN 0 ELSE g.pages - 1)

StepView(a, delta) == StepOn(a, Grid(a), ClampedPage(a, Grid(a)), delta)

(* movePane: no wrapping, and over the holes.                              *)
MovePane(a, delta) ==
  LET ids == HostIDs(a)
      from == Clamp(a.pane + delta, 0, Len(ids) - 1)
      ahead == {i \in 0 .. Len(ids) - 1 :
                  ids[i + 1] # Hole /\ IF delta < 0 THEN i <= from ELSE i >= from}
  IN IF ahead = {} THEN a
     ELSE [a EXCEPT !.pane = CHOOSE i \in ahead :
             \A j \in ahead : IF delta < 0 THEN j <= i ELSE i <= j]

EnterPane(a) == IF FocusedHost(a) = Hole THEN a ELSE [a EXCEPT !.focus = "grid"]

ApplySplit(a, size) ==
  ResetGridSlots(CompactHoles(
    [a EXCEPT !.split = size, !.chunk = 0, !.page = 0, !.pane = 0]))

ApplyOutputFilter(a, pattern) ==
  LET matched == [SyncFilterMatches([a EXCEPT !.filter = pattern]) EXCEPT !.page = 0]
  IN FollowFocus(ResetGridSlots(
       Refocus(CompactHoles(matched), FocusedHost(a))))

Retile(a) == FollowFocus(ResetGridSlots(CompactHoles(a)))

-----------------------------------------------------------------------------
(* NewApp: the hosts of the command line open the ad hoc session; nothing  *)
(* is sized yet.                                                           *)
NewApp(ids, states) ==
  KeepGridSlots(SyncLimit(AdoptNewHosts(SnapshotFleet(
    [snap |-> <<>>, states |-> states, open |-> <<>>, active |-> 0, page |-> 0, pane |-> 0,
     kept |-> 0, term |-> <<0, 0>>, main |-> [x |-> 0, y |-> 0, w |-> 0, h |-> 0],
     screen |-> "normal", focus |-> "sidebar", split |-> 0, chunk |-> 0,
     filter |-> "", match |-> {}, had |-> FALSE,
     limit |-> NoLimit], ids, states))))

PanesInit ==
  /\ managed = Start
  /\ st = [h \in PaneHost |-> IF h \in ToSet(Start) THEN "up" ELSE "gone"]
  /\ noisy = {} /\ hint = FALSE /\ removing = {} /\ removed = {} /\ joins = 0
  /\ app = NewApp(managed, st)

(* Hosts end on their own; a close asked for by the user ends them too.    *)
HostEnds(h, how) ==
  /\ h \in ToSet(managed) /\ st[h] = "up"
  /\ st' = [st EXCEPT ![h] = how]
  /\ hint' = TRUE
  /\ UNCHANGED <<managed, noisy, removing, removed, joins, app>>

Reconnects(h) ==
  /\ joins < MaxJoins /\ joins' = joins + 1
  /\ h \in ToSet(managed) /\ Done(st[h])
  /\ st' = [st EXCEPT ![h] = "up"]
  /\ hint' = TRUE
  /\ UNCHANGED <<managed, noisy, removing, removed, app>>

(* FleetUpdatedMsg: sessions that are over are reaped.                     *)
FleetUpdated ==
  /\ hint
  /\ LET fresh == SnapshotFleet(app, managed, st)
         reaped == Reap(fresh)
     IN /\ app' = Update(FollowFocus(RefreshFilter(reaped.app)))
        /\ removing' = removing \cup reaped.gone
  /\ hint' = FALSE
  /\ UNCHANGED <<managed, st, noisy, removed, joins>>

(* RemoveHostMsg for a pane that is done.                                  *)
RemoveHost(h) ==
  /\ h \in Real(HostIDs(app)) /\ Done(StateOf(app, h))
  /\ removing' = removing \cup {h}
  /\ UNCHANGED <<managed, st, noisy, hint, removed, joins, app>>

(* The command runs beside the event loop: the manager drops the session,  *)
(* and closing it reports a state once more.                               *)
RemoveRuns(h) ==
  /\ h \in removing
  /\ removing' = removing \ {h} /\ removed' = removed \cup {h}
  /\ managed' = Only(managed, ToSet(managed) \ {h})
  /\ hint' = (hint \/ h \in ToSet(managed))
  /\ st' = [st EXCEPT ![h] = "gone"]
  /\ UNCHANGED <<noisy, joins, app>>

(* The router forgets the host, the UI gets the new list.                  *)
HostRemovedMsg(h) ==
  /\ h \in removed
  /\ removed' = removed \ {h}
  /\ app' = Update(HostsChanged(app, managed, st))
  /\ UNCHANGED <<managed, st, noisy, hint, removing, joins>>

(* The manager adds what it does not hold yet, and dials it.               *)
Added(hosts) == managed \o Only(hosts, ToSet(hosts) \ ToSet(managed))
Dialled(hosts) == [h \in PaneHost |-> IF h \in ToSet(hosts) \ ToSet(managed) THEN "up" ELSE st[h]]

(* applyConnect and cloneHost: a host joins the run.                       *)
Connect(h) ==
  /\ joins < MaxJoins /\ joins' = joins + 1
  /\ h \notin ToSet(managed)
  /\ managed' = Added(<<h>>) /\ st' = Dialled(<<h>>)
  /\ app' = Update(HostsChanged(app, managed', st'))
  /\ UNCHANGED <<noisy, hint, removing, removed>>

(* applyGroup, the identifiers of the hosts of a group: one that ran when  *)
(* the message came is reused, as often as the group lists it; the others  *)
(* are added one after the other, under their own name while it is free.   *)
Placed(g, ids) ==
  \A i \in DOMAIN ids :
    LET host == Group[g][i]
        taken == ToSet(managed) \cup {ids[j] : j \in 1 .. i - 1}
    IN IF host \in ToSet(managed) \/ host \notin taken THEN ids[i] = host
       ELSE ids[i] \in Copies[host] \ taken

OpenGroup(g) ==
  /\ joins < MaxJoins /\ joins' = joins + 1
  /\ \E ids \in [DOMAIN Group[g] -> PaneHost] :
       /\ Placed(g, ids)
       /\ managed' = Added(ids) /\ st' = Dialled(ids)
       /\ app' = Update(OpenSessionAt(SnapshotFleet(app, managed', st'), g, ids))
  /\ UNCHANGED <<noisy, hint, removing, removed>>

(* endSessionNow: marked as ending; what is over already ends right here.  *)
EndSession(i) ==
  /\ i \in DOMAIN app.open
  /\ LET reaped == Reap([app EXCEPT !.open[i].ending = TRUE])
     IN app' = Update(reaped.app) /\ removing' = removing \cup reaped.gone
  /\ UNCHANGED <<managed, st, noisy, hint, removed, joins>>

(* A host prints: what its recent output holds changes.                    *)
Prints(h) ==
  /\ Patterns # {} /\ h \in ToSet(managed)
  /\ noisy' \in {noisy \cup {h}, noisy \ {h}} /\ noisy' # noisy
  /\ UNCHANGED <<managed, st, hint, removing, removed, joins, app>>

Shows(a) == app' = Update(a) /\ UNCHANGED envVars

(* SessionOutputMsg: without a filter there is nothing to do.              *)
SessionOutput == app.filter # "" /\ Shows(RefreshFilter(app))

Resize(t) == app.term # t /\ Shows([app EXCEPT !.term = t, !.main = MainArea(t, app.screen, app.focus)])

PaneKey(delta) == Shows(FollowFocus(MovePane(EnterPane(app), delta)))
StepKey(delta) == Shows(StepView(app, delta))
Retiles == Shows(Retile(app))
Split(size) == app.split # size /\ Shows(ApplySplit(app, size))
Filter(pattern) == app.filter # pattern /\ Shows(ApplyOutputFilter(app, pattern))
Foreground(i) == i \in DOMAIN app.open /\ i # app.active /\ Shows(ForegroundSession(app, i))

(* cycleScreen and toggleFullScreen.                                       *)
NextScreen(m) ==
  IF m = "normal" THEN {"half", "full"} ELSE IF m = "half" THEN {"full"} ELSE {"normal"}
Screen(m) ==
  /\ m \in NextScreen(app.screen)
  /\ Shows(FollowFocus([app EXCEPT !.screen = m]))

(* handleClick on a pane, at its middle.                                   *)
Click(i) ==
  /\ HostAt(app, i) # Hole
  /\ IF app.screen = "full" THEN i = app.pane ELSE HostAt(app, i) \in Real(WindowHosts(app))
  /\ Shows(FollowFocus(EnterPane([app EXCEPT !.pane = i])))

(* jumpToNextFailure: to the pane of a host whose last command failed.     *)
JumpTo(i) ==
  /\ HostAt(app, i) # Hole
  /\ Shows(FollowFocus([app EXCEPT !.pane = i, !.focus = "grid"]))

(* The keyboard leaves the grid, goes round the panels and the bar, and    *)
(* enter on the Status panel gives it to the grid.                         *)
FocusArea(f) == app.focus # f /\ Shows([app EXCEPT !.focus = f])

Lifecycle ==
  \/ \E h \in PaneHost : \/ \E how \in {"failed", "closed"} : HostEnds(h, how)
                     \/ Reconnects(h) \/ RemoveHost(h) \/ RemoveRuns(h)
                     \/ HostRemovedMsg(h) \/ Connect(h) \/ Prints(h)
  \/ \E g \in DOMAIN Group : OpenGroup(g)
  \/ \E i \in DOMAIN app.open : EndSession(i)
  \/ FleetUpdated

(* What the user changes about the view: the screen mode, which hosts the  *)
(* list shows, and where in it the user is.                                *)
Zooms == \E m \in Screens : Screen(m)

Narrows ==
  \/ \E n \in Splits : Split(n)
  \/ \E p \in Patterns \cup {""} : Filter(p)

Moves ==
  \/ SessionOutput \/ Retiles
  \/ \E t \in Term : Resize(t)
  \/ \E d \in {-1, 1} : PaneKey(d) \/ PaneKey(d * Grid(app).columns) \/ StepKey(d)
  \/ \E f \in {"sidebar", "grid"} : FocusArea(f)
  \/ \E i \in DOMAIN app.open : Foreground(i)
  \/ \E i \in DOMAIN HostIDs(app) : Click(i - 1) \/ JumpTo(i - 1)

View == Zooms \/ Narrows \/ Moves

PanesNext == Lifecycle \/ View

PanesSpec == PanesInit /\ [][PanesNext]_panesVars

(* Bound of the model: the view is changed in a run whose hosts only log   *)
(* out, in the screen mode or in what the list shows; hosts fail, join and *)
(* are removed in the plain view of silent hosts; and they print while a   *)
(* filter is on.  Only the lively hosts fail and print, and only those of  *)
(* the command line log out and are connected again.                       *)
WholeList == app.split = 0 /\ app.filter = ""
Plain == app.screen = "normal" /\ WholeList /\ noisy = {}
Busy ==
  \/ joins > 0
  \/ \E h \in PaneHost : st[h] = "failed"
  \/ \E i \in DOMAIN app.open : app.open[i].ending

Leaves ==
  \/ \E h \in PaneHost : RemoveRuns(h) \/ HostRemovedMsg(h)
  \/ \E h \in ToSet(Start) : HostEnds(h, "closed")
  \/ FleetUpdated

Changes ==
  \/ \E h \in Lively : HostEnds(h, "failed")
  \/ \E h \in ToSet(Start) : Reconnects(h) \/ RemoveHost(h) \/ Connect(h)
  \/ \E g \in DOMAIN Group : OpenGroup(g)
  \/ \E i \in DOMAIN app.open : EndSession(i) \/ Foreground(i)

BoundedNext ==
  \/ \E t \in Term : Resize(t)
  \/ app.term \in Term /\ \/ Leaves
                           \/ (Plain /\ Changes)
                           \/ (~Busy /\ \/ Moves
                                         \/ (WholeList /\ Zooms)
                                         \/ (app.screen = "normal" /\ Narrows))
                           \/ (app.filter # "" /\ \E h \in Lively : Prints(h))

BoundedSpec == PanesInit /\ [][BoundedNext]_panesVars

-----------------------------------------------------------------------------
Quiet == ~hint /\ removing = {} /\ removed = {}
Sized == app.main.w > 0
OnScreen(a) == FocusedHost(a) \in Real(WindowHosts(a)) \cup {Hole}
Unfiltered(a) == [a EXCEPT !.filter = "", !.match = {}]

(* The hosts a group lists more than once.  Opened while such a host runs, *)
(* the session has it twice.                                               *)
Doubles(name) ==
  IF name \in DOMAIN Group
  THEN {h \in PaneHost : \E j, k \in DOMAIN Group[name] : j # k /\ Group[name][j] = h /\ Group[name][k] = h}
  ELSE {}

(* No two places hold the same host, those in twice aside.                 *)
NoTwins(members, twice) ==
  \A j, k \in DOMAIN members :
    members[j] = members[k] => j = k \/ members[j] = Hole \/ members[j] \in twice

(* When nothing is under way, the open sessions hold exactly the hosts of  *)
(* the run, no host that logged out is left and no session is empty; and   *)
(* at no time is a host at two places of a session, unless the session's   *)
(* name is a group that lists this very host twice: neither a second       *)
(* opening nor adopting, pruning or reconnecting doubles one.              *)
(* (openSessionAt, pruneSessions, adoptNewHosts and reapSessions, in       *)
(* whatever order the messages come.)                                      *)
Settled ==
  /\ \A i \in DOMAIN app.open : NoTwins(app.open[i].hosts, Doubles(app.open[i].name))
  /\ Quiet => /\ ToSet(managed) = Owned(app)
              /\ \A h \in ToSet(managed) : st[h] # "closed"
              /\ \A i \in DOMAIN app.open : Real(app.open[i].hosts) # {}

(* A broadcast never reaches past the page the user sees, whatever moved   *)
(* the page: a key, a resize, a host that left.  (syncBroadcastLimit at    *)
(* the end of every message; a filter is taken off for it.)                *)
LimitIsOnScreen ==
  Sized /\ HostIDs(app) # <<>> => app.limit = Real(WindowHosts(Unfiltered(app)))

(* Every corner of a pane that is drawn is inside the main area, and       *)
(* belongs to that pane when it is clicked.  (TileGrid, cells and paneAt.) *)
Corners(r) == {r.x, r.x + r.w - 1} \X {r.y, r.y + r.h - 1}

ClicksFindTheirPane ==
  Sized /\ app.screen # "full" =>
    LET g == Grid(app)
        area == GridArea(app)
        first == ClampedPage(app, g) * g.perPage
    IN \A s \in 0 .. Len(WindowHosts(app)) - 1 :
         \A p \in Corners(Cell(area, g, s)) :
           Inside(app.main, p[1], p[2]) /\ PaneAt(app, g, area, p[1], p[2]) = first + s

(* Stepping the view brings every host of the session on screen, through   *)
(* pages, chunks, holes and filters, in no more steps than the grid has    *)
(* slots and the list has hosts; and what is drawn is found by a click.    *)
(* (stepView, and the above.)                                              *)
Rounds == GridSlots(app) + Len(FilteredHosts(app))

Views[n \in 0 .. Rounds] == IF n = 0 THEN app ELSE Update(StepView(Views[n - 1], 1))

EveryHostSteppedTo ==
  Sized => \A h \in Real(FilteredHosts(app)) :
             \E n \in 0 .. Rounds : h \in Real(WindowHosts(Views[n]))

EveryPaneReachable == EveryHostSteppedTo /\ ClicksFindTheirPane

(* What arrives from the hosts never takes the focus off the host it is    *)
(* on while that host is shown, never leaves it on a pane off the screen   *)
(* or, once the removal is handled, on a hole, and never puts another host *)
(* in the place of one.  (FleetUpdatedMsg and HostsChangedMsg: refocus,    *)
(* followFocus, keepGridSlots; "a keystroke lands on the wrong machine".)  *)
(* A filter on top is where the first part stops: see below.               *)
Arrives == (hint /\ ~hint') \/ (removed' # removed /\ removed' \subseteq removed)

SessionStays ==
  /\ app.active # 0 /\ ActiveSession(app') = ActiveSession(app)
  /\ Real(SessionHosts(app)) \cap ToSet(managed') # {}

FocusStays == FocusedHost(app) \in Real(HostIDs(app')) => FocusedHost(app') = FocusedHost(app)

ArrivalsMoveNothing ==
  [][Arrives /\ SessionStays =>
       LET shown == HostIDs(app)
       IN /\ app.filter = "" \/ removed' # removed => FocusStays
          /\ removed' # removed /\ Real(HostIDs(app')) # {} => FocusedHost(app') # Hole
          /\ Sized' => OnScreen(app')
          /\ app.split = 0 /\ app.filter = "" =>
               \A i \in DOMAIN shown : shown[i] # Hole => HostAt(app', i - 1) \in {Hole, shown[i]}]_panesVars

(* internal/ui/outputfilter.go:129: what arrives "keeps the focus on the   *)
(* host it was on".  Under a filter it does not: a host the manager has    *)
(* dropped leaves the filtered list with the new snapshot, and the focused *)
(* host is read after that, by its old index; the pane behind it gets the  *)
(* keys.                                                                   *)
FilterKeepsFocus == [][Arrives /\ SessionStays => FocusStays]_panesVars

(* userdocs/concepts/grid-and-window.md:120: a command sent under a filter *)
(* reaches exactly the hosts it would have reached without one.  It does   *)
(* not: applying the filter turns to its first page, and the limit is the  *)
(* page of that number in the unfiltered grid.                             *)
FilterIsAView ==
  [][app.filter = "" /\ app.filter' # "" => app.limit' = app.limit]_panesVars
=============================================================================
