# lazycssh in TLA+

lazycssh is a terminal program that opens SSH sessions to a fleet of hosts, draws one pane per
host, and sends what is typed to one host, to a working set, or to all of them. Much of its code
is sequential and easy to test. The hard part is what is not: every session has five goroutines
of its own, every user command runs on one more, dialling is bounded by a semaphore, dials share
key files and caches, and the update loop learns of all that from a bounded channel that drops
what does not fit, while the layout and the keyboard it owns are a dozen pieces of state that
every message may move. This directory models those parts, checks them with TLC and proves part
of them with TLAPS.

Paths below are relative to the repository (`internal/ssh/session.go`); `PROJECT.json` maps every
definition to the lines it models.

## 1. The system

| Component | State | Operations | Talks to | What makes it correct |
|---|---|---|---|---|
| **stdin queue** `ssh/stdinqueue.go` | bounded channel of chunks, first write error | `Write` from any goroutine, `run` drains | SSH channel; the session's shutdown signal | accepted bytes arrive in order, without gaps; nobody who types is blocked; an error is terminal |
| **session** `ssh/session.go` | state, client, shell, stdin, emulator, PTY size, wait group | `Start`, `Write`, `Resize`, `Close`, `ReleaseTerminal`; readers, drain, `waitForExit` | remote host, queue, emulator, event channel | connected means usable; a final state is final; Close leaves nothing behind; the end is noticed; the transport never waits for the UI |
| **manager** `ssh/manager.go` | list and index of sessions, dial slots | `Add`, `Start`, `Reconnect`, `ReconnectAll`, `Close`, `Remove`, `CloseAll` | sessions; called from command goroutines | list and index agree, identifiers are unique, order is stable, one connection and one terminal per pane, slots come back |
| **event pump, update loop** `program/program.go`, `ui/fleet.go` | event channel, pump goroutine, UI snapshot | `pump`, `Update`, command messages, `snapshotFleet` | manager, UI | somebody always listens; the snapshot catches up |
| **working set** `workingset/` | host list, active selector and its name, named selectors | `Apply`, `Define`, `Save`, `Activate`, `Remove`, `Next`, `Prev`, `SetHosts` | router | a name means its definition; paging visits everybody |
| **broadcast router** `broadcast/broadcast.go` | mode, selection, focus, limit | `Send`, `SendKey`, `SendTo`, selection operations, `Forget` | working set, sessions, UI | nobody outside the scope is written to; the report adds up; somebody is driven |
| **prompts** `program/hostkey.go`, `program/secretprompt.go`, `ui/authpane.go` | questions in the pumps, remembered per pane, on the screen; answers on their way | `ConfirmHostKey`, `ask`, the pumps, `askHostKey`, `submitAuth`, `answerSecret`, `pruneAuth` | dials (inside a slot), UI, snapshot | an answer reaches the dial it was typed for; no question is lost; the loop never blocks; a question ends with the run |
| **host keys** `ssh/knownhosts.go` | key files and their snapshot, verifier, keys accepted in this run | `Callback`, `refreshIfChanged`, `reload`, `confirm`, `Add` | dials, prompts, other programs that edit the files | an edit is noticed; a confirmed key is not asked about again |
| **credentials** `ssh/auth.go` | password per machine, passphrase per key file | method chain, `loadIdentity`, `password`, `passphrase`, `answer` | dials, prompts | a question holds up nobody else; a wrong secret does not stay |
| **open sessions and grid** `ui/opensessions.go`, `ui/grid.go`, `ui/window.go`, `ui/visibility.go`, `ui/outputfilter.go`, ... | sessions over the fleet with holes, foreground, page, split chunk, filter, focus, broadcast limit | open, foreground, end, prune, adopt, reap, page, step, split, filter, click, resize | fleet snapshot, removals, router | the views of the layout agree; the limit is what is on screen; every pane is reachable; an arrival moves nobody |
| **keyboard** `ui/app.go`, `ui/keys.go`, `ui/prefix.go`, `ui/modal.go`, `ui/paste.go`, ... | focus, prompts, questions, overlays, prefix, held paste, typed line | key, paste and click dispatch; results of commands | router, prompts, groups, log | a key reaches the hosts the frame names and nobody else; one listener, and it is the one drawn |
| **command log** `commandlog/`, `ui/logpanel.go` | bounded list of commands and receivers | `Record`, resend, resend to the missing | keyboard, router | (see the configurations run on demand) |
| **group files** `sessions/`, `ui/groupspanel.go` | directory of groups, patterns of the run, rows of the panel | save, create, delete, list, open; connect, clone, remove hosts | file system, manager, keyboard | nothing is replaced or deleted unasked, a file is whole, nothing is dialled twice |
| output stream `ssh/exit.go`, `ssh/echofilter.go`, `term/term.go` | held prefixes of markers and escape sequences | `Scan`, `Filter`, `Flush`, `Write` | readers, emulator | the result does not depend on how the stream is cut into reads |
| session log `sessionlog/` | file per host, suppression, size | `Write`, markers, `rotate`, `Close` | readers, mode changes | nothing is logged while suppressed; a failure is kept |
| history, recent hosts `history/`, `recent/` | one file each | `Append`, `Add` | file system | a file is whole; a bounded list |
| host patterns `hosts/` | none | expand, resolve | ssh_config | pure functions |

The components in bold are modelled. How they interact. `Update` is one goroutine: it owns the
working set, the router, the layout and the keyboard. It calls the router, which calls the manager, which hands
bytes to a session's queue; none of these may block. Commands (`tea.Cmd`) run `Reconnect`, `Close`, `Remove`
and everything that touches the disk on goroutines of their own and end with a message. Sessions report
on one shared channel, which the pump turns into messages. Prompts go the other way: a dial goroutine
sends a question over a channel and waits for the answer.

What is hard to test, with its line and the properties that cover it, is the list `hazards` in
`PROJECT.json`. It groups into: half-built and half-closed sessions (Start against Close),
commands that overlap on one host or one file, events that are dropped, questions that outlive the
session that asked them, a list or a layout that changes while a send, a page or a removal uses it, modes of the
keyboard that meet in an order nobody tried, and caches and files that are checked before they are used.

## 2. The modules

```
component      composes                     TLC instance   proofs
StdinQueue     -                            -              StdinQueueProofs
Session        StdinQueue (INSTANCE)        -              SessionProofs, instantiates StdinQueueProofs
Fleet          -                            -              FleetProofs
Prompts        -                            -              PromptsProofs
Login          -                            MCLogin        LoginProofs
Groups         -                            MCGroups       GroupsProofs
Broadcast      WorkingSet (INSTANCE)        MCBroadcast    BroadcastProofs
WorkingSet     -                            -              UpdateLoopProofs
EventPump      -                            -              UpdateLoopProofs
Keyboard       -                            MCKeyboard     UpdateLoopProofs
Panes          -                            MCPanes        BroadcastProofs
```

**StdinQueue** is one queue with its drain goroutine. `Write` is two actions, the error check
under the lock (`WriteChecks`) and the channel send after it (`WriteEnqueues`, `WriteRefused`);
`run` is `RunTakes`, `RunWrites`, `RunFails`, `RunStops`. The histories `accepted` and `wire` hold
what `Write` reported and what the SSH channel took. The host may never take a write.

**Session** is the detailed model of one session: `Start` in thirteen steps, each ending where the
code unlocks or spawns; `Close` in eight; the two readers; `waitForExit`; writers; the resizer. The
environment answers, refuses, exits, dies or stays silent. Its stdin queue is `StdinQueue`, instantiated with
`closed` as the shutdown signal and the remote shell as the link, and the property
`QueueContract == Queue!Spec` says that the session is an implementation of that module.

**Fleet** is the manager with the sessions reduced to the steps another command can come between:
queued, dialling, connected, over; `Close` finds or misses the connection (`CloseTakes`) and ends
(`CloseEnds`), other callers wait for it (`CloseWaits`), because `closeOnce` makes them. Looking at `emuReleased` and shutting the emulator are one step of `CloseEnds` (two in `Session`): a reconnect that
adopts the emulator in between ends with a shut one, as it does right after. A session is
an incarnation number, so "the session behind this identifier" can change under a
command that holds the old one. `Session` justifies the abstraction: a Close that finds the
client tears it down (`ReleasedAfterClose`), a Close that comes earlier misses it.

**EventPump** is the path of a state change to the status bar: the transition, its hint after the
unlock, the channel, the pump's batch, `Update`. The fleet is a version number, and `Snapshot` takes it in one step, where the code reads
one session after the other: a session that moves after its row was read reports it with a hint of its own.

**WorkingSet** is the package `workingset`: three kinds of selector (glob and manual
selections are both "these identifiers"), named definitions and paging.

**Broadcast** composes the router with an instance of `WorkingSet` and with the program's
bookkeeping of joins and removals. `Send` is one call of the update loop, but the sessions change on
their own goroutines while it asks them one after the other, so it is modelled host by host:
`SendBegins`, `Looks` (the scan for full-screen programs), `Pick` (the targets), `Write`, `SendReturns`.
Router and working set cannot change in between (`Idle`). The history `touched` holds the sessions that changed while the targets were decided. The lists the code filters in place keep their order (`Kept`).

**Prompts** is the way of a question from a dial goroutine to the user and back. A dial blocks
(`KeyUnknown`, `NeedsSecret`), one of two pumps receives the question (`PumpTakes`: one for host keys, one for
passwords, passphrases and the host's own questions), the update loop remembers it under its pane and shows it
(`Ask`), the user's line settles it (`Submit`, in one pane or through the broadcast line in many), and a message per
pane carries the answer to the question that is remembered there (`Deliver`). Reconnect, Close and Remove are
one step each; `Fleet` is their detail. The snapshot takes a question off the screen when its
session is over (`Snapshot`), and the end of the run withdraws what is open (`Withdrawn`). What the key files, the
agent and the caches decide is a choice of the environment: a method asks or does not. `crossed` records the
dials of one pane that asked at the same time; a question is remembered by pane, so the later one replaces the earlier.

**Login** is the other side of that choice: what the dials of a run share while they log in. An attempt is a chain of steps
that end where a lock is released or the user is waited for: compare the files with the snapshot, snapshot, read, store
(`Stats`, `Compares`, `Snaps`, `Loads`), look the key up (`Looks`), ask (`AnswersKey`), append and accept
(`Appends`, `Accepts`, `SnapsAgain`, `LoadsAgain`); then the chain of methods (`Identity`, `Offers`, `LooksUp`, `Stores`,
`Tries`) with its two caches. A stamp is a file's time of change and size, which the code takes for its content.
Other programs edit the files (`Edits`). Whether a file can be read at all is left open at every reload (`LoadFails`: gone, malformed, not to be opened), and a
revoked key counts as another one. A question is only a place where a dial waits; `Prompts` is its detail.

**Panes** is the root model's layout as one record `app`, and every method an operator from one such record
to the next, chained as the source chains them: `HostsChanged`, `PruneSessions`, `AdoptNewHosts`, `Reap`,
`FollowFocus`, `SyncLimit`, `StepView`, `ApplySplit`, `ApplyOutputFilter`, and the tiling (`TileGrid`, `Cell`, `PaneAt`). Every message
ends in `Update`, as `App.Update` ends. Around it hosts log out, fail, are connected again or added, and a removal
is what it is in the program: a request (`removing`), a command beside the event loop that takes the host off the manager
(`RemoveRuns`), and a message that reports it (`HostRemovedMsg`), with a fleet snapshot possible in between. A group may list
a host twice: the identifiers an opening gives its hosts are those `applyGroup` gives (`Placed`), a further one of `Copies` for a host that is not running yet, and the same one
again for a host that is, which then has two panes in the session.

**Keyboard** is `App.handleKey`, `handlePaste` and `handleClick`: a world record (sessions, prompts, command log,
results on their way, what was sent) and one operator per handler, chained in `HandleKey` in the order of the source's guards.
`Owner` is the listener the guards find first, `Drawn` the box `activeModal` picks, `Addressed` whom the frame names.
What a prompt asked of the disk comes back as a message (`Land`) while the user types on. A handler is one step, but for a paste into the bar: it
counts its receivers (`PasteToBroadcast`), and Send asks for them again (`SendBroadcastRaw`); sessions change in between, and the variable `call` holds who was counted. Where a handler goes by
the fleet snapshot rather than by the sessions (the jump to the next failure, the resend to the missing hosts), the snapshot may answer anything (`told`).

**Groups** is how a run is assembled, saved and opened. The run's patterns are a Go slice, backing array
included, because a save walks it beside the event loop (`SaveReads`) while `append` and `dropPattern` change it. Commands are
records that move from step to step (`CreateChecks`, `SaveWrites`, `SaveRenames`, `DeleteUnlinks`, `LoadLists`, `OpenLoads`,
`RemoveLeaves`) until their message lands (`SaveResult`, `GroupSaved`, `ApplyGroup`, `ApplyConnect`, `HostRemoved`, ...), in
any order. The disk may fail a write, a removal or the reading of the directory, and `Crash` ends the process between any two steps; another run begins on the files it leaves. A run without patterns is saved by the
identifiers of its hosts; that of a clone, `a#2`, is a host name of its own, which the model has no names for, so it does not save while a clone is among them (`Spellable`): the group would
open a host called `a#2`.

`MC` modules give the constants of these modules values for TLC. Definitions introduced by a comment that begins
"Defect" are variants of the definition they precede, with a plausible mistake. No other definition uses them; replacing
the definition by its variant must make the property listed beside it in `PROJECT.json` fail, which
shows that the property depends on the code.

Several properties are conjunctions, type correctness among them, because their parts are about one question:
`BytesInOrder` (types, no gaps, a prefix on the wire), `UsableOrReleased` (types, a connected session is usable, a Close that
found the client has released everything), `OneFleet` (types, list and index), `OneTerminalPerPane` (no shared emulator, no second
writer, shut only on request), `StalenessIsHinted` (types, a pump lives, a stale snapshot has a hint), `NameInForce` (types, the
name's definition), `RouterInStep` (types, the router's list), `AnswersFindTheirDial` (answers stay in their pane, the loop never blocks),
`QuestionsAreKept` (types, no live question lost, the screen shows live ones), `EditsAreNoticed` (types and the stamp).

## 3. The runs

`tlc -config <cfg> <module>` in this directory.

| Run | Module | States | Bounds | What it shows |
|---|---|---|---|---|
| `StdinQueue.cfg` | StdinQueue | 8 thousand | 2 writers, 2 kinds of chunk, backlog 2, 4 accepted writes | order, prefix, terminal error, no blocking, the drain ends |
| `Session.cfg` | Session | 279 thousand | 1 writer, backlog 1, event channel 1, 2 sizes (the window grows), 1 write | safety of one session, its queue contract, and its liveness |
| `Fleet.cfg` | Fleet | 2.5 million | 1 alias listed repeatedly, 3 incarnations, 1 dial slot | safety of the manager |
| `FleetLive.cfg` | Fleet | 17 thousand | 2 incarnations, 1 slot | no slot is lost |
| `EventPump.cfg` | EventPump | 44 thousand | channel 2, 3 changes, 2 commands | listening, hints, refresh |
| `WorkingSet.cfg` | WorkingSet | 134 thousand | 3 hosts in any order, 2 names, positions up to 4 | names and paging |
| `Broadcast.cfg` | MCBroadcast | 3.6 million | 2 interchangeable hosts, positions up to 2 | scope, report, who is driven, bookkeeping |
| `Prompts.cfg` | Prompts | 29 thousand | 2 panes, 2 dials, 2 slots | answers, the loop, lost questions, the end of the run |
| `Panes.cfg` | MCPanes | 75 thousand | 2 hosts and the copy of one of them, a group that lists it once and one that lists it twice, one terminal size between two tilings, splits off and 1, all screen modes, 1 filter, 1 host that prints and fails, 1 join; the copy stays | the layout agrees with itself, the limit, reachability, who moves |
| `Keyboard.cfg` | MCKeyboard | 89 thousand | 2 panes, 8 keys, pastes of 2 lines, 4 clicks, 1 log entry | who gets a key, reviewed pastes, one listener |
| `Groups.cfg` | MCGroups | 571 thousand | 2 hosts, one also reached by a glob, 2 names, 1 saved group, 2 commands under way, 4 commands of the user, a failing disk, crashes | files, dialling once, the save prompt |
| `Login.cfg` | MCLogin | 361 thousand | 2 sessions on 1 machine, 2 attempts each, 1 edit | host keys and secrets |

What the newer runs show. *Broadcast*: `SomebodyIsDriven` is about a send under way. It says who is a target of it when the targets are decided: a shell of the scope that was up all along; no
full-screen program beside such a shell; every full-screen program that was there all along if nothing in the scope changed and there is no shell. "While a host is reachable somebody is driven" does not hold without
these conditions: the one shell may go down, or open an editor, between the scan for screens and the choice, and the editors around it are left alone for its sake. *Panes*: `Settled` says that when nothing is under way the open sessions hold exactly the
hosts of the run, and at any time that no host has two places in a session unless the session's own group lists it twice; `LimitIsOnScreen` that the copy of the screen the router holds is never behind; `EveryPaneReachable` that
stepping the view brings every host on screen, in no more steps than the grid has slots and the list hosts, and a click on a drawn corner finds the pane drawn there; `ArrivalsMoveNothing` that
what comes from the hosts neither moves the focus to another host nor puts another host in a pane's place, the wrong machine
under the user's fingers; a change of the fleet under a filter is left out of its first part, because there it does (`FilterKeepsFocus`, below). *Keyboard*: `KeysReachOnlyTheirHosts` compares what goes out with what the frame
said, in every mode the keys and clicks can reach; `PasteIsReviewed` says that a script for several hosts was held in the bar and released where the user sees it, or that at most one of the hosts it reaches was connected
when they were counted. That exception is the code's: "multiline text reaching more than one host is held for review" (paste.go:94) does not hold without it (`ScriptsAreHeld`, below). `OneListener` is about prompts and results
that meet. *Groups*: `NothingReplacedUnasked` holds through failed writes and crashes because of the rename and because
a prompt keeps the keyboard while its write is under way; `OpeningDialsOnce` because the messages look at the fleet when they land;
`SavingEnds` under the fairness of disk and loop. *Login*: `EditsAreNoticed` depends on the snapshot being taken before the
files are read; `ConfirmedStays` on the accepted keys being kept beside the files, which a slow reload may roll back;
`QuestionsHoldNobody` on no lock being held during a question; `WrongPhraseLeaves` on the forgetting.

Why the bounds are enough. A queue of one or two is full, empty and in between. One event slot makes
every emission contended. Three incarnations of one alias allow a reconnect of a reconnect, two
clones with a removal between them, and a bulk reconnect that overlaps a single one; one dial slot
makes all of them wait for each other. Two hosts are the least for which a scope is mixed; three are
the least for which a page has a neighbour on both sides, and positions reach one past the list.
Two dials are two panes that ask at once, or one pane that is reconnected while it asks; the safety of `Prompts.cfg` also
holds with three (979 thousand states). Two hosts in two panes are two pages, two chunks or one page of two, as the screen mode changes, and
a departure leaves a hole before or after the focus. What only three hosts show is covered by the proofs, which know no bound: that the focus is
lost under a filter takes three, and was found when the proof of `ArrivalsMoveNothing` without that exception did not go through; `PanesFocus.cfg` has them. Two commands under way are a save and what disturbs it; the four
commands of the user are enough for a save, a removal, a connect and another save. Two sessions with two attempts
each let a reload of the first attempt end after the second has begun; the run also passes with two edits (1.2 million states), and the two
setups of `MCLogin` share no state (with all four: 7.4 million states for the safety part). The keys of `Keyboard.cfg`
are those that open, answer and leave each kind of prompt, question and mode but the deletion of a group, which is in `Groups.cfg`; other keys take the same paths. The one write of
`Session.cfg` can be queued, in a stalled write or refused at every step of Start and Close; the queue that fills up is `StdinQueue.cfg`'s.

Deadlock is not checked where the system really stops: a closed session, a session whose writes are used
up, a fleet after the shutdown, dials that have ended, a run without hosts, a program that has quit. It is checked
for EventPump, WorkingSet, Broadcast and Groups.
Symmetry is used in the Broadcast run only, which has no liveness property; no host is named.

Fairness. Goroutines that can run do run: weak fairness of the drain, the readers, `waitForExit`, the
steps of Close, of Start after the shell runs, of the dial goroutines, of the commands and the messages they end with. Dialling
and the handshake end because `Start` sets a timeout; a file operation ends, one way or the other. Nothing is assumed of the user, the remote
host or the UI, and nothing of `Start` between the handshake and the running shell: there the code
has lifted the deadline. `QueuedIsDialled` therefore says "as long as attempts end". The pump's
default branch is taken if the channel is empty at the moment it looks, again and again: strong fairness of
`PumpDelivers`, and `KeptHintRefreshes` is conditional on `HostsPause`. The question channels are unbuffered and Go
serves the senders blocked on a channel in turn: strong fairness of `PumpTakes` for each dial. A
question itself ends only by its answer or with the run; `EveryQuestionIsShown`, `NoQuestionOutlivesTheRun` and `QuestionsHoldNobody`
assume neither.

## 4. Where the code and its words disagree

While modelling, properties taken from the repository's comments and documentation turned out not to hold. Each is kept as a
configuration to run on demand, which ends with a counterexample; none is part of the standing runs.

| Configuration (module) | Property | What it shows |
|---|---|---|
| `SessionCloseHangs.cfg` (Session) | `CloseAlwaysReturns` | the readers "end when their streams close, which closing the client guarantees" (session.go:579-581), but Start registers the client after it has spawned them: a Close in between closes nothing and waits |
| `FleetDeadPane.cfg` (Fleet) | `PaneTakesKeys` | Emulator.Close is for a pane that "is gone for good - not on a reconnect" (term.go:481-482), but Close, then Reconnect hands the fresh session the emulator the Close has shut |
| `PromptsClose.cfg` (Prompts) | `CloseWithdraws` | the prompts say that they watch the session's context (hostkey.go:39-41) and the UI relies on it (authpane.go:56-58); they are given the run's (program.go:255-262): a session closed while it asks keeps its dial, and its slot, until the program ends |
| `SessionDeadWrite.cfg` (Session) | `DeadSessionRefuses` | after the remote shell exits, Write still queues (session.go:250-252 says it refuses) |
| `SessionPtySize.cfg` (Session) | `PtyHasTheSize` | a resize while Start is between the PTY request and the registration reaches nobody until the next one (session.go:546) |
| `FleetRemoved.cfg` (Fleet) | `RemovedHoldsNothing` | Close does not cancel a dial, and Start does not ask whether the session was closed: a session removed while it is dialled comes up, in no list (manager.go:300) |
| `FleetPending.cfg` (Fleet) | `PendingIsOnItsWay` | when closing the old session fails, the fresh one is never dialled and shows no error (program.go:413) |
| `FleetSlow.cfg` (Fleet) | `SlowDelaysOnlyItself` | an attempt that does not end keeps its slot (manager.go:175-177) |
| `EventPumpStale.cfg` (EventPump) | `SnapshotCatchesUp` | a state event dropped behind a burst of output leaves the status bar wrong until something else changes (session.go:650) |
| `EventPumpLeak.cfg` (EventPump) | `OnePump` | a command's message arms a pump of its own; none is ever retired (program.go:304-305) |
| `BroadcastForget.cfg` (Broadcast) | `ForgetsOnlyTheGone` | a host removed, connected again and selected loses that selection (broadcast.go:344) |
| `PanesFilter.cfg` (MCPanes) | `FilterIsAView` | a command under a filter reaches "exactly the hosts it would have reached without one" (userdocs/concepts/grid-and-window.md:120-121), but applying the filter turns to its first page, and the limit is the page of that number in the unfiltered grid |
| `PanesFocus.cfg` (MCPanes) | `FilterKeepsFocus` | a change of the fleet under a filter "keeps the focus on the host it was on" (outputfilter.go:129), but the snapshot is taken first and the focus read after it, by its index: a host the manager has dropped is out of the filtered list by then, and the keys go to the pane behind |
| `KeyboardMissing.cfg` (MCKeyboard) | `MissingRunsOnce` | "a host that received the command is never missing again" (wiki/core/command-log.md:97-98), but the entry keeps its first receivers: a resend to the missing hosts pressed twice runs it twice on them |
| `KeyboardRecorded.cfg` (MCKeyboard) | `RecordedLineWasHeard` | "a line no live host received was an answer to prompts" (broadcastbar.go:83-84), but only the enter is looked at: a host that connects before it turns the answer into a recorded line |
| `KeyboardPaste.cfg` (MCKeyboard) | `ScriptsAreHeld`, `PasteReachesCounted` | "multiline text reaching more than one host is held for review" (paste.go:94), but the receivers are counted first and asked for again by Send: a host that connects in between gets a script nobody has reviewed; and a reviewed paste also reaches a host that connects during the review (`-continue` shows both) |
| `GroupsPatterns.cfg` (MCGroups) | `PatternsTrackTheRun` | "saving the run writes patterns, so they must track every change" (program.go:94-96): a host removed and added again before its removal is reported loses its pattern |
| `GroupsTorn.cfg` (MCGroups) | `SavesAreNotTorn` | `dropPattern` filters in place the array a save is walking: the file can hold a pattern twice and miss another |
| `GroupsRows.cfg` (MCGroups) | `RowsAreTheDirectory` | two reads of the directory land in either order, and the older one stays |
| `LoginFile.cfg` (MCLogin) | `CurrentFileIsUsed` | reloads are "not a race" (wiki/core/host-keys.md:74-75), but one that found no file may store its verifier over one that read the file that has come since |
| `LoginPassword.cfg` (MCLogin) | `WrongPasswordLeaves` | "ForgetPassword does the same for a password" (wiki/core/authentication.md:39); nothing calls it |
| `LoginPrompts.cfg` (MCLogin) | `OnePromptPerKey` | "prompting once per encrypted key" (auth.go:207): two dials that miss the cache together both ask |

`RightPhraseStays` of module Login, put in the place of the properties of `Login.cfg`, fails as well: the forgetting of a dial that tried a wrong passphrase
deletes the right one another dial has stored since. So does `PrefixLastsOneKey` in the place of those of `Keyboard.cfg`: the prefix survives
the enter that leaves the bar's view mode. Smaller things the layout does, which the properties above allow: the last page of a view
step may hold only holes; a change of the screen mode follows the focus by the layout before it; the target of single mode is
not moved with the focus of the panes by a filter.

## 5. The proofs

TLC checks the instances above; TLAPS proves the following for every value of the constants.

**StdinQueueProofs** (`tlapm StdinQueueProofs.tla`). `QueueOrder`: `BytesInOrder`, that is, type correctness,
`NothingSkipped` and `WireIsPrefix`, is invariant. `NothingSkipped` alone is not inductive: it
says nothing once the drain has stopped, and a step that takes a chunk off the channel must know
that the drain does not hold one already. The strengthening is `Holding` (the drain holds a
chunk exactly while it writes) and `ErrorStopped` (a recorded error has ended the drain).
`ErrorTerminal` is the action property, from `ErrorStopped`. Assumptions: those on the constants in
`StdinQueue`.

**SessionProofs**. Four invariants say what Start and Close rely on between their critical sections:
`SignalInv` (the shutdown signal is closed from Close's first step on), `ShellInv` (no shell before it was
asked for), `FailureInv` (nobody waits for the end of a session that failed in Start), `WiringInv` (what Start has
set by each of its steps is still there unless Close has taken it). With
`ConnectedIsUsable` they are inductive, which gives that part of `SessionIsUsableOrReleased` and, step by step,
`FinalState`. `ImplementsQueue` is the refinement `QueueContract`: the steps
fall into groups (`StepGroups`), and each group is a step of the queue, the closing of its shutdown signal, the loss of
its channel, or no step of it. `SessionKeepsOrder` carries `QueueOrder` over to the queue inside
every session. `SessionIsUsableOrReleased` (`UsableOrReleased`) adds type correctness, the queue's part by refinement and the rest
directly, and `ReleasedAfterClose`, which needs a second invariant: `SpawnedInv` (what Start has
spawned by the time Close can find a client, so no reader and no drain starts behind Close's back) and `TornDownInv` (what
each step of a Close that found one leaves behind).

**FleetProofs**. `TerminalsAreSeparate` is `OneTerminalPerPane`. The order in which sessions are created carries its first two parts. `YoungestInv`: of the sessions that had an
emulator, the one in the fleet is the youngest; so two sessions in the fleet with one
emulator are the same. `ReplacedInv`: a session whose emulator
went to a younger one has been closed, or the reconnect that replaces it is still in flight. They need that identifiers name
their own sessions (`NamedInv`) and that only sessions that were created dial or are dialled (`DialInv`, `CmdInv`).
The third part, that a terminal is shut only on request, follows from `RequestInv`: every Close on its way was asked for, by the user
for that session or by the shutdown, or its session has handed its emulator on; a removal that cuts the list adds no session to it
(`WithoutIsPart`). `FleetIsOne` is `OneFleet`: list and index hold the same sessions, each once. `ListInv` says what every operation keeps:
a list without repetitions that the index agrees with, and sessions that took the next incarnation when they were created. That the
identifier of a new session is free (`UniqueIsFree`) is a pigeonhole argument over the suffixes tried and the sessions there are, and the
first free one exists because a set of naturals has a least element; list and index have one length because each is a bijection
of the other. `OrderIsStable` is `OrderStable`, from the same invariant, one lemma per operation: a removal leaves the order of the others
(`WithoutAt`), a reconnect replaces in place, an addition goes to the end.

**UpdateLoopProofs** holds the theorems about what the update loop keeps for itself. Of the event pump, `StaleIsHinted`: type correctness, `SomePumpLives` and `StaleHasHint`. The
last two are inductive with the counting of commands and unreported transitions (`CountInv`); the work is
in the channel: a hint appended to it is found in it, and taking the head leaves every other hint behind.
Of the working set, `NameIsCurrent` is type correctness and `NameMeansItsDefinition`, which are
inductive together, and `PagingSkipsNobody` is `PagingVisitsAll`, both directions of paging. They need of the active range only
that it starts at 1 or later and is not empty, which is type correctness (`Ranges`), so the argument is
arithmetic on the two ends; the length of the list is arbitrary.
Of the keyboard, `BoxesTakeTurns` (`OneListener`), `KeysStayWithTheirHosts` (`KeysReachOnlyTheirHosts`) and `PastesAreReviewed`
(`PasteIsReviewed`) come from one invariant, `KeyboardInv`, and one fact about steps, `NextIsFaithful`. The invariant: at most one box is
open (`OneOpen`); every write on its way has its box waiting for it, and there is one write of a kind (`FlightInv`), without which a
result could open a question beside another box; and no script is held while the bar is in view mode (`HeldInView`), where enter would not release it. While a paste waits between counting and
sending (`CallInv`) the bar has the keyboard, no box is open, and a script among them was counted for one host at most.
The handlers are not unfolded together: each is shown to be in one of three classes, `Steady` (opens nothing), `Answers` (what a box may do) or
`Area` (opens at most one box, and only where none is open), the classes are closed under chaining, and `OwnerKey`, `AreaKey` and `HandleKey` follow.
`KeyboardInv` was checked with TLC on the instance of the run `keyboard` first.

**PromptsProofs**. `AnswersAreLocal` is `AnswersFindTheirDial`; both its parts come from one invariant about the questions on their way.
`AnswersStayHome` alone is not inductive: the answer goes to whatever dial the loop remembers for a pane, so that
dial must be the pane's (`PendingInv`). `LoopNeverBlocks` needs that a remembered question was not answered
before (`Open`), that a question in a pump is not remembered yet, or receiving it could bring back an answered
one (`PumpInv`), and that a dial has an answer only while it waits for one (`AnswerInv`). A session that was not
created asks nothing (`FreshInv`). `QuestionsAreNotLost` is `QuestionsAreKept`. A question is dropped only with its session, and what is on
screen was asked by a dial that still waits; the step that could break it is an answer that arrives late. So the invariant follows every
question from the dial to the screen and back: where it is (`OnItsWay`, `KeptInv`), and that every question shown and every answer on
its way has a dial blocked on it that nothing else can release (`Blocked`, `Owed`, `OwedInv`).

**LoginProofs**. `NoEditIsMissed` is `EditsAreNoticed`, `ConfirmedOnceIsEnough` is `ConfirmedStays`; one invariant carries both. A verifier that is
as new as the file knows what the file holds because stamps are never used twice (`StampInv`: all stamps lie below the counter of
changes, and only a file that is there has one), so a snapshot taken before a change can never match after it. A
key that was recorded is accepted and never taken back (`AcceptedInv`), and a callback that finds it accepted does not ask, whatever the verifier
says. That stamps are unique is the assumption of the code: a time of change and a size stand for the content.

**GroupsProofs**. `FilesAreTheUsers` is `NothingReplacedUnasked`. The action property needs of the states before a rename or a deletion that the user
has answered for the command or the name is free (`AgreedInv`), and the name stays free only because no other command can take it:
a command that writes has a prompt that keeps the keyboard, so there is one at a time (`WriterInv`). Files on disk are whole
(`WholeInv`). One lemma per group of steps: requests, commands, messages; keys and crashes are short.
`NothingDialledTwice` is `OpeningDialsOnce`. Its invariant, `HeldInv`, says what the lists hold: the fleet is a sequence of identifiers; the patterns
in use, a save's copy of them, the commands and the files are sequences of patterns, although a removal filters the array in place under a save that reads it
(`DropKeeps`: only the part nobody can read any more is cleared, `Readable`). `HeldInv` was checked with TLC on the instance of the run `groups` first. The rest is about
the loops over a list. Each is a recursive function over the places of the list, and `LoopRuns`, shown by counting up (`CountsUp`, the least
place where it goes wrong), gives its value place by place; `OpenedDials` and `ConnectedDials` follow the two handlers with it. An opening looks at the fleet once, so an
identifier with a number above 1 for a host that was not running means that an earlier place of the same list took number 1 (`FreeIsFree`, `Pigeons`:
`FreeIn` finds a free number), and two places are what `ListsTwice` counts (`TwoPlaces`). A connect looks again at every place, so there is none.
Assumed of `Resolve`: patterns resolve to hosts, and the name of a host is itself a pattern, because a run saved as hosts is opened again.
The attempt corrected the property: it excepted clones, but not a restart with a command line that lists a host twice, which the model's `Crash` includes;
TLC has the counterexample with `Given` set to such a list.

**BroadcastProofs** holds the theorems about how far a broadcast reaches. Of the router, `RouterIsInStep` is `RouterInStep`. What the code
filters is `Kept` (in `Panes`, `Only`), defined by how many of the kept elements come before each; it holds exactly those asked for, in the old
order (`RankTellsApart`, `OnlyIsPart`), and `RouterInv` says that a host the router lists beyond the manager's has its removal still to be
reported, and that selection and focus name listed hosts. `SendsStayInScope` and `ReportsAddUp` are `WorkingSetBoundsSends` and
`ReportAddsUp`, from `SendInv`: what each step of a send has computed so far, from the scan to the last write, although the sessions
change between the steps. `SomebodyAlwaysDriven` is `SomebodyIsDriven`. Its invariant, `DecidingInv`, follows a send host by host: a session that has not changed since the send began is as it was when the
scan or the choice went past it, so what has been seen and picked so far says what it is now. The only assumption of this part is that there are
finitely many hosts, so that counting them means something.
Of the panes, `SessionsSettle` (`Settled`) and `LimitStaysOnScreen` (`LimitIsOnScreen`), for `PanesSpec`, without the bounds of the runs. `Settled` speaks of
quiet states, so the invariant `PanesInv` says what holds on the way there: the snapshot of the UI lacks no host of the run; a host of the run
is in a session unless its removal was asked for; a host in a session is of the run unless its removal is still to be reported; a logout is announced
or its removal asked for. With it go the well-formedness of the root model (`AppOK`: sessions with names of their own, without twins and never empty; nothing is
laid out before there is a terminal) and of the screen (`ScreenOK`: the limit is that of the page, the main area that of the terminal and the focus).
Each method of the root model gets one lemma, by what it does to the hosts the sessions hold: nothing (`Keeps`, every change of the view), adds those of a
list (`OpenSessionOK`, `AdoptOK`), takes away those that left (`PruneOK`), or takes away what it also asks to remove (`ReapOK`); `HostsChangedOK` chains
them. The limit is set at the end of every message, and what has to be shown is that the page it is set to is not an empty one: with something to show,
the tiling has at least one pane, whatever the area, the split, the chunk and the cap (`GridFits`, down to a square root that is there to be
chosen, `CeilSqrtTyped`, because a set of naturals has a least element, `LeastNat`). `PanesInv` was checked with TLC on the instance of the
run `panes` first.
`ClicksHit` is `ClicksFindTheirPane`, the second part of `EveryPaneReachable`: every corner of a pane that is drawn is inside the main area and is found by a
click. The parts of a split lie in order and inside the whole (`PartsInOrder`), so two cells that share a point are one (`CellsApart`), and a page has no
more hosts than cells (`WindowIsPart`).
`NothingMoves` is `ArrivalsMoveNothing`. For each method on the way it says which fields stay (`Same`, `FieldsKept`) and what is left of the session in front:
`PruneStays` (the same places, some of them holes), `AdoptStays` (what joins goes to the end), `ReapStays` (the same hosts, the focus on its host), although the
sessions are numbered anew. `RefocusFinds` is about the search for the focus, `PageShowsFocus` says that the page that follows the focus shows
it, and `SnapshotStays` that a new snapshot alone moves no host to another index; it needs that there is no filter, which is the exception the property makes.
`ChangedStays` and `ReapedStays` chain them for the two handlers.
`PanesReached` is the whole of `EveryPaneReachable`. How far a host is ahead of the page on screen is a number, `Far`: the places up to it, around
the end of the list if it lies behind; while a chunk keeps the slots of hosts that have left, its pages may go past its hosts, and the steps out of it come on top. It is
at most `Rounds` (slots of the grid and hosts of the list), and every step that does not show the host makes it smaller, so among the views of the walk with a
`Far` the least one shows it. That needs how `stepView` moves on a page, over a chunk and around the ends, case by case, and that a step changes neither the list nor the chunks (`StepKeepsList`).
Assumptions: a command line whose hosts have identifiers of their own (the manager numbers them), groups that are not empty, sizes that are naturals.

Every invariant and every action property that a run checks is a theorem. Two of the proofs needed the model written for it: the loops over lists in `Groups` and the walk in
`EveryPaneReachable` are recursive functions and not folds or selections of the community modules, which the prover cannot look into.

Only model-checked are the liveness properties, because the prover handles no fairness: `WritersNeverBlock`, `ShutdownReleasesDrain` (StdinQueue), `StartNotHeldByUI`, `EndIsReported`, `CloseReturnsWithClient`
(Session), `QueuedIsDialled` (FleetLive), `KeptHintRefreshes` (EventPump), `EveryQuestionIsShown`, `NoQuestionOutlivesTheRun` (Prompts), `SavingEnds` (Groups),
`QuestionsHoldNobody` and `WrongPhraseLeaves` (Login).
TLC evaluates the assumptions on the constants in the runs of the modules that state them.

## 6. Not modelled

* Bytes and wording: encoding of keys, escape sequences, labels, log text, colours.
* Time: durations of timeouts; a timeout is "the attempt ends". So it is not stated that the deadline of the handshake
  (15 seconds, session.go:339) runs on while the user reads a question: a late answer is given, and the
  handshake fails at its next step.
* The SSH library and the network are an environment that may do anything at any step.
* Undefined behaviour: `startShell` reads the window size without the lock (session.go:381).
  The read is one of two integers written under the lock, so it is modelled as the value before or after. A save that walks the
  patterns while they are filtered in place reads each element as it is at that moment.
* Of groups: the settings a group carries besides its patterns (mode, working set, defaults), the text format, rows that cannot be
  read, and a second process on the directory, between whose check and save another may come (run.go:134).
* Of logging in: more than one known_hosts file and more than one encrypted key; hashed names.
* The output stream (`ssh/exit.go`, `ssh/echofilter.go`, `term/`): one goroutine turns characters into characters. Its state is a held
  prefix, its difficulty the strings; a model would be the program again, character by character.
* The session log: one lock, one file; its rotation has one path that can fail half way (sessionlog.go:294-297, where a rename that
  fails is followed by a truncating open).
* History and recent hosts: sequential lists in a file. `recent.go` reads, changes and writes its file in a command without a lock, so two commands
  that record hosts at once can lose a row of the picker.
* Host patterns, secrets, rendering, the fake session: pure functions, process I/O, drawing, a test double.

The composition of the whole program in one module is out of TLC's reach: `Session`, `Fleet` and `Broadcast` alone have millions of states at their
smallest interesting bounds. The modules meet at interfaces that are small and named: `Session` implements `StdinQueue`, `Broadcast`
contains `WorkingSet`, `Fleet`'s Close is justified by `Session`, `Prompts`' dials are justified by `Login` and `Fleet`, and the limit `Panes` computes is
the limit `Broadcast` chooses freely.
