------------------------------ MODULE Keyboard ------------------------------
(***************************************************************************)
(* Who gets a keystroke (internal/ui: app.go and the files of the handlers *)
(* it dispatches to).  Every text prompt, question and overlay owns the    *)
(* keyboard while it is open; a focused pane is a terminal of one host,    *)
(* the broadcast bar one of all of them; everywhere else keys are          *)
(* commands.  Clicks move the focus whatever is open, and what a prompt    *)
(* asked of the disk comes back as a message while the user types on.      *)
(*                                                                         *)
(* A world w is everything a handler may change, and told what the fleet   *)
(* snapshot answers when it asks (it may be behind: module EventPump);     *)
(* HandleKey chains the handlers the way App.handleKey does.  A handler is *)
(* one step, but a paste counts its receivers before it asks for them      *)
(* again to write, and the sessions do not wait: that is two.  Which panes *)
(* exist and where the focus may go is module Panes, how a question        *)
(* reaches its dial module Prompts, the narrower broadcast modes and the   *)
(* steps of one send module Broadcast.                                     *)
(***************************************************************************)
EXTENDS Integers, Sequences, FiniteSets, SequencesExt

CONSTANTS
  Panes,      \* the hosts on screen, in pane order
  Keys,       \* the key presses of the user
  Pasted,     \* the numbers of lines of what is pasted
  Clicks,     \* the places clicked, and whether a drag follows
  MaxLine,    \* bound of the model: characters typed into the bar before an enter
  MaxLog      \* bound of the model: entries of the command log

Sidebar == <<"status", "groups", "sessions", "log", "diff">>

ASSUME PanesAssumption == Panes \in Seq(ToSet(Panes)) /\ Panes # <<>> /\ IsInjective(Panes)
ASSUME PastedAssumption == Pasted \subseteq Nat
ASSUME ClicksAssumption ==
  \A click \in Clicks : /\ click.at \in ToSet(Panes) \cup ToSet(Sidebar) \cup {"bar"}
                       /\ click.drag \in BOOLEAN

VARIABLES
  host,   \* the session of each host: "dialling", "asking", "up", "down"
  ui,     \* the root model
  log,    \* the command log: which command, who took it, and whether a
          \* live host had received every character of it
  ops,    \* messages on their way to the event loop
  out,    \* what the last step sent to the hosts
  call    \* a paste that was counted and is about to be sent, and the hosts counted

vars == <<host, ui, log, ops, out, call>>

PaneHosts == ToSet(Panes)
Input == {"command", "save", "name", "hosts", "connect", "search", "split", "filter", "picker"}

Silence == [what |-> "nothing", to |-> {}]
NoCall == [what |-> "nothing", counted |-> {}]

(* DefaultKeyMap, as far as the keys of the model reach.                   *)
Bound == [
  Help |-> {"?"}, Quit |-> {"q", "ctrl+q"}, ForceQuit |-> {"ctrl+q"},
  NextTab |-> {"tab"}, PrevTab |-> {"shift+tab"}, Left |-> {"left"}, Right |-> {"right"},
  Panel1 |-> {"1"}, Panel2 |-> {"2"}, Panel3 |-> {"3"}, Panel4 |-> {"4"}, Panel5 |-> {"5"},
  CommandLine |-> {":"}, QuickSave |-> {"S"}, SaveSet |-> {"w"}, NewHost |-> {"n"},
  HostPicker |-> {"A"}, Retile |-> {"ctrl+r"}, Split |-> {"ctrl+s"}, Filter |-> {"f"},
  NextFailure |-> {"!"}, BroadcastSingle |-> {"s"}, SelectAll |-> {"a"}, SelectDwn |-> {"d"},
  Choose |-> {"enter"}, RowPreview |-> {"p"}, SessionEnd |-> {"x"}, SendMissing |-> {"m"},
  GroupNew |-> {"n"}, GroupDelete |-> {"d"},
  Prefix |-> {"ctrl+a"}, PrefixPage |-> {"left", "right"}, PrefixLiteral |-> {"ctrl+a", "a"},
  PrefixCancel |-> {"esc"}, BroadcastEdit |-> {"enter"}, LeaveTyping |-> {"ctrl+]"},
  PaneLeft |-> {"alt+shift+left"}, PaneRight |-> {"alt+shift+right"}, SearchPane |-> {"alt+/"},
  ClearSearch |-> {"alt+c"}, PaneChord |-> {"alt+r"},
  SearchOpen |-> {"/"}, MatchStep |-> {"n", "N"}, SearchLeave |-> {"esc"},
  PromptSubmit |-> {"enter"}, PromptCancel |-> {"esc"}, PromptComplete |-> {"tab"},
  PromptErase |-> {"backspace"}, PickerMark |-> {"tab"},
  HistoryPrev |-> {"up"}, HistoryNext |-> {"down"},
  ConfirmYes |-> {"enter", "y"}, ConfirmNo |-> {"esc", "n"},
  CopySelection |-> {"ctrl+c"}, AuthCancel |-> {"esc", "ctrl+c"}]

Is(k, binding) == k \in Bound[binding]

(* The bindings that are live wherever focus is: the chord's command set.  *)
Global == {"Help", "Quit", "NextTab", "PrevTab", "Panel1", "Panel2", "Panel3", "Panel4",
           "Panel5", "CommandLine", "QuickSave", "NewHost", "HostPicker", "Retile", "Split",
           "Filter", "NextFailure", "BroadcastSingle", "SelectAll", "SelectDwn"}
IsCommand(k) == \E b \in Global : Is(k, b)

(* The keys that produce a character.                                      *)
Text == {"q", "?", "1", "2", "3", "4", "5", ":", "S", "w", "n", "A", "f", "!", "s", "a",
         "d", "p", "x", "m", "/", "N", "y", "r"}

(* chordCommandKey: a plain letter that is no command stands for its ctrl  *)
(* chord.                                                                  *)
ChordCommand(k) == IF ~IsCommand(k) /\ k = "r" THEN "ctrl+r" ELSE k

-----------------------------------------------------------------------------
Focused(u, i) == u.in[i] # "closed"

(* Defect for the checks: the prompt lets go of the keyboard while its     *)
(* write is in flight.                                                     *)
SavingUntilEnter(u) == Focused(u, "save") \/ u.confirm

Saving(u) == Focused(u, "save") \/ u.confirm \/ u.savePending
DialogOpen(u) == Focused(u, "name") \/ Focused(u, "hosts")

(* The guard chain of handleKey: the first of these that is open listens.  *)
Owners == <<"command", "save", "dialog", "delete", "ending", "picker", "connect", "search",
            "split", "filter", "help", "preview">>
Open(u, owner) ==
  CASE owner = "save" -> Saving(u)
    [] owner = "dialog" -> DialogOpen(u)
    [] owner \in {"delete", "ending", "help", "preview"} -> u[owner]
    [] OTHER -> Focused(u, owner)
OpenOwners(u) == {i \in DOMAIN Owners : Open(u, Owners[i])}
Owner(u) == IF OpenOwners(u) = {} THEN u.focus
            ELSE Owners[CHOOSE i \in OpenOwners(u) : \A j \in OpenOwners(u) : i <= j]

(* promptOwnsKeyboard: a key is content or an answer.                      *)
PromptOwns(u) == \E i \in OpenOwners(u) : Owners[i] \notin {"help", "preview"}

(* activeModal: the box that is drawn; the command line and the search are *)
(* lines of the status bar instead.                                        *)
Drawn(u) ==
  IF u.confirm \/ Focused(u, "save") THEN "save"
  ELSE IF DialogOpen(u) THEN "dialog"
  ELSE IF u.delete THEN "delete"
  ELSE IF u.ending THEN "ending"
  ELSE IF Focused(u, "picker") THEN "picker"
  ELSE IF Focused(u, "connect") THEN "connect"
  ELSE IF Focused(u, "split") THEN "split"
  ELSE IF Focused(u, "filter") THEN "filter"
  ELSE "none"

SelectionValid(u) == u.sel /\ u.focus \in {"grid", "bar"}
PaneHost(w) == Panes[w.ui.pane]
Live(w) == {h \in PaneHosts : w.host[h] = "up"}
Asking(w) == {h \in PaneHosts : w.host[h] = "asking"}

(* What a key does to the text of an input.                                *)
AfterKey(value, k) ==
  IF k \in Text THEN IF value = "" THEN IF k = "/" THEN "meta" ELSE "text" ELSE value
  ELSE IF Is(k, "PromptErase") THEN "" ELSE value

Opens(w, i) == [w EXCEPT !.ui.in[i] = ""]
Closes(w, i) == [w EXCEPT !.ui.in[i] = "closed"]
Types(w, i, k) == [w EXCEPT !.ui.in[i] = AfterKey(@, k)]
Sends(w, what, to) == [w EXCEPT !.out = [what |-> what, to |-> to]]
Posts(w, op) == [w EXCEPT !.ops = @ \cup {op}]
Op(name) == [op |-> name, cmd |-> 0, hosts |-> {}]
Quits(w) == [w EXCEPT !.ui.quit = TRUE]
Focuses(w, area) == [w EXCEPT !.ui.focus = area]
Selects(w, panel) == [w EXCEPT !.ui.focus = "sidebar", !.ui.panel = panel]

(* readConfirm: only a yes and a no are answers.                           *)
Confirm(k) == IF Is(k, "ConfirmYes") THEN "yes" ELSE IF Is(k, "ConfirmNo") THEN "no" ELSE "none"

-----------------------------------------------------------------------------
(* Commands: one path for a typed one, a logged one and the missing hosts. *)

Records(w, entry) == [w EXCEPT !.log = Append(@, entry)]

(* sendCommand, sendCommandTo, afterSend: what reached whom is recorded.   *)
SendCommand(w, cmd, scope) ==
  LET to == scope \cap Live(w)
  IN Records(Sends(w, "command", to), [cmd |-> cmd, to |-> to, heard |-> TRUE])

(* resendMissing: the hosts that are connected by the snapshot the message *)
(* lands on and that the entry does not name.                              *)
ResendMissing(w, op) ==
  LET missing == w.told \ op.hosts
  IN IF missing = {} THEN w ELSE SendCommand(w, op.cmd, missing)

(* sendCommandLine: an instruction for lazycssh itself goes to no host.    *)
SendCommandLine(w) ==
  IF w.ui.in["command"] = "text"
  THEN SendCommand(Closes(w, "command"), Len(w.log) + 1, PaneHosts)
  ELSE Closes(w, "command")

(* recallHistory: the line becomes one sent before.                        *)
CommandLineKey(w, k) ==
  IF Is(k, "PromptSubmit") THEN SendCommandLine(w)
  ELSE IF Is(k, "PromptCancel") THEN Closes(w, "command")
  ELSE IF Is(k, "HistoryPrev") /\ w.log # <<>> THEN [w EXCEPT !.ui.in["command"] = "text"]
  ELSE IF Is(k, "HistoryNext") /\ w.log # <<>> THEN [w EXCEPT !.ui.in["command"] = ""]
  ELSE Types(w, "command", k)

-----------------------------------------------------------------------------
(* The prompts.  `accepted` stands for what a name, a pattern or a file    *)
(* turns out to be.                                                        *)

CancelSave(w) == [Closes(w, "save") EXCEPT !.ui.confirm = FALSE, !.ui.savePending = FALSE]

(* commitSave: the write runs outside the event loop, and the prompt keeps *)
(* the keyboard until its result is in.                                    *)
CommitSave(w, name, accepted, write) ==
  IF name = "" \/ ~accepted THEN CancelSave(w)
  ELSE [Posts(Closes(w, "save"), Op(write)) EXCEPT !.ui.savePending = TRUE]

SaveKey(w, k, accepted) ==
  IF w.ui.savePending THEN w
  ELSE IF w.ui.confirm
  THEN CASE Confirm(k) = "yes" -> CommitSave([w EXCEPT !.ui.confirm = FALSE], "text", accepted, "overwrite")
         [] Confirm(k) = "no" -> CancelSave(w)
         [] Confirm(k) = "none" -> w
  ELSE IF Is(k, "PromptSubmit") THEN CommitSave(w, w.ui.in["save"], accepted, "save")
  ELSE IF Is(k, "PromptCancel") THEN CancelSave(w)
  ELSE Types(w, "save", k)

CancelNew(w) == [Closes(Closes(w, "name"), "hosts") EXCEPT !.ui.saving = FALSE]

DialogKey(w, k, accepted) ==
  IF w.ui.saving THEN w
  ELSE IF Is(k, "PromptCancel") THEN CancelNew(w)
  ELSE IF Focused(w.ui, "name")
  THEN IF ~Is(k, "PromptSubmit") THEN Types(w, "name", k)
       ELSE IF w.ui.in["name"] = "text" /\ accepted THEN Opens(Closes(w, "name"), "hosts")
       ELSE w
  ELSE IF ~Is(k, "PromptSubmit") THEN Types(w, "hosts", k)
  ELSE IF w.ui.in["hosts"] = "text" /\ accepted
       THEN [Posts(w, Op("create")) EXCEPT !.ui.saving = TRUE]
  ELSE w

DeleteKey(w, k) ==
  LET asked == [w EXCEPT !.ui.delete = FALSE]
  IN CASE Confirm(k) = "yes" -> Posts(asked, Op("remove"))
       [] Confirm(k) = "no" -> asked
       [] Confirm(k) = "none" -> w

(* endSessionNow: ctrl+c and ctrl+d go to every host of the session.       *)
SessionEndKey(w, k) ==
  LET asked == [w EXCEPT !.ui.ending = FALSE]
  IN CASE Confirm(k) = "yes" -> Sends(asked, "end", Live(w))
       [] Confirm(k) = "no" -> asked
       [] Confirm(k) = "none" -> w

PickerKey(w, k) ==
  IF Is(k, "PromptCancel") \/ Is(k, "PromptSubmit") THEN Closes(w, "picker")
  ELSE IF Is(k, "PickerMark") THEN w
  ELSE Types(w, "picker", k)

ConnectKey(w, k) ==
  IF Is(k, "PromptComplete") THEN [w EXCEPT !.ui.in["connect"] = "text"]
  ELSE IF Is(k, "PromptSubmit") \/ Is(k, "PromptCancel") THEN Closes(w, "connect")
  ELSE Types(w, "connect", k)

(* Leaving the input with esc keeps the search, an empty term ends it.     *)
SearchKey(w, k) ==
  IF Is(k, "PromptSubmit")
    THEN [Closes(w, "search") EXCEPT !.ui.term = w.ui.in["search"] # ""]
  ELSE IF Is(k, "PromptCancel") THEN Closes(w, "search")
  ELSE Types(w, "search", k)

NumberKey(w, i, k) ==
  IF Is(k, "PromptSubmit") \/ Is(k, "PromptCancel") THEN Closes(w, i) ELSE Types(w, i, k)

OverlayKey(w, overlay, k) ==
  IF Is(k, "ForceQuit") THEN Quits(w) ELSE [w EXCEPT !.ui[overlay] = FALSE]

-----------------------------------------------------------------------------
(* Panes and questions.                                                    *)

(* The answer is on its way to the dial: the question is off the pane.     *)
Answered(w, hosts) == [w EXCEPT !.host = [h \in PaneHosts |-> IF h \in hosts THEN "dialling" ELSE @[h]]]

(* submitAuth, cancelAuth: a host key question takes only a yes or a no.   *)
AnswerKey(w, hosts, k, accepted) ==
  IF Is(k, "AuthCancel") \/ (Is(k, "PromptSubmit") /\ accepted) THEN Answered(w, hosts) ELSE w

EntersPane(w, delta) ==
  LET i == w.ui.pane + delta
  IN [w EXCEPT !.ui.focus = "grid", !.ui.pane = IF i \in DOMAIN Panes THEN i ELSE @]

OpensSearch(w) == [w EXCEPT !.ui.in["search"] = IF w.ui.term THEN "text" ELSE ""]

(* jumpToNextFailure: the next pane whose last command exited non-zero by  *)
(* the snapshot, round the grid.                                           *)
JumpsToFailure(w) ==
  LET failed == {i \in DOMAIN Panes : Panes[i] \in w.told}
      later == {i \in failed : i > w.ui.pane}
  IN IF failed = {} THEN w
     ELSE [w EXCEPT !.ui.focus = "grid", !.ui.pane = Min(IF later = {} THEN failed ELSE later)]

(* handlePaneKey: pane management, the same while typing and elsewhere.    *)
PaneKeys == {"PaneLeft", "PaneRight", "SearchPane", "ClearSearch", "PaneChord"}
IsPaneKey(k) == \E b \in PaneKeys : Is(k, b)
PaneKey(w, k) ==
  CASE Is(k, "PaneLeft") -> EntersPane(w, -1)
    [] Is(k, "PaneRight") -> EntersPane(w, 1)
    [] Is(k, "SearchPane") -> OpensSearch(w)
    [] Is(k, "ClearSearch") -> [w EXCEPT !.ui.term = FALSE]
    [] Is(k, "PaneChord") -> w

(* The key belongs to the focused pane's question, else to its shell.      *)
ToPane(w, what) == Sends(w, what, {PaneHost(w)} \cap Live(w))

PlainTypingKey(w, k, accepted) ==
  IF Is(k, "Prefix") THEN [w EXCEPT !.ui.armed = TRUE]
  ELSE IF Is(k, "LeaveTyping") THEN Selects(w, "status")
  ELSE IF IsPaneKey(k) THEN PaneKey(w, k)
  ELSE IF PaneHost(w) \in Asking(w)
  THEN IF Is(k, "ForceQuit") THEN Quits(w) ELSE AnswerKey(w, {PaneHost(w)}, k, accepted)
  ELSE ToPane(w, "key")

(* resolveTypingPrefix: after the prefix only paging, the literal and the  *)
(* cancel are lazycssh's.                                                  *)
TypingKey(w, k, accepted) ==
  LET resolved == [w EXCEPT !.ui.armed = FALSE]
  IN IF ~w.ui.armed THEN PlainTypingKey(w, k, accepted)
     ELSE IF Is(k, "PrefixPage") \/ Is(k, "PrefixCancel") THEN resolved
     ELSE IF Is(k, "PrefixLiteral") THEN ToPane(resolved, "key")
     ELSE PlainTypingKey(resolved, k, accepted)

-----------------------------------------------------------------------------
(* App-level commands.                                                     *)

MovePanel(w, delta) ==
  LET i == CHOOSE j \in DOMAIN Sidebar : Sidebar[j] = w.ui.panel
  IN IF i + delta \in DOMAIN Sidebar THEN [w EXCEPT !.ui.panel = Sidebar[i + delta]] ELSE w

(* cycleFocus: the panels, then the bar, then round again.                 *)
CycleFocus(w, step) ==
  LET stops == Append(Sidebar, "bar")
      at == IF w.ui.focus = "sidebar" THEN w.ui.panel ELSE "bar"
      i == CHOOSE j \in DOMAIN stops : stops[j] = at
      next == stops[((i - 1 + step + Len(stops)) % Len(stops)) + 1]
  IN IF next = "bar" THEN Focuses(w, "bar") ELSE Selects(w, next)

EntersBar(w) == [w EXCEPT !.ui.focus = "bar", !.ui.view = FALSE, !.ui.armed = FALSE]

(* handleSidebarKey: the focused panel's own keys.                         *)
SidebarKey(w, k) ==
  LET entry == Last(w.log)
      resend == [op |-> "resend", cmd |-> entry.cmd, hosts |-> {}]
      missing == [op |-> "missing", cmd |-> entry.cmd, hosts |-> entry.to]
  IN IF Is(k, "Left") THEN MovePanel(w, -1)
     ELSE IF Is(k, "Right") THEN MovePanel(w, 1)
     ELSE IF Is(k, "RowPreview") /\ w.ui.panel # "status" THEN [w EXCEPT !.ui.preview = TRUE]
     ELSE CASE w.ui.panel = "status" /\ Is(k, "Choose") -> Focuses(w, "grid")
            [] w.ui.panel = "groups" /\ Is(k, "SaveSet") -> [w EXCEPT !.ui.in["save"] = "text"]
            [] w.ui.panel = "sessions" /\ Is(k, "SessionEnd") -> [w EXCEPT !.ui.ending = TRUE]
            [] w.ui.panel = "log" /\ Is(k, "Choose") /\ w.log # <<>> -> Posts(w, resend)
            [] w.ui.panel = "log" /\ Is(k, "SendMissing") /\ w.log # <<>> -> Posts(w, missing)
            [] OTHER -> w

PanelOf(k) == CASE Is(k, "Panel1") -> "status" [] Is(k, "Panel2") -> "groups"
                [] Is(k, "Panel3") -> "sessions" [] Is(k, "Panel4") -> "log" [] OTHER -> "none"

(* The Groups panel's letters and a live search shadow the global keys.    *)
AppCommand(w, k) ==
  IF w.ui.focus = "sidebar" /\ w.ui.panel = "groups" /\ Is(k, "GroupNew") THEN Opens(w, "name")
  ELSE IF w.ui.focus = "sidebar" /\ w.ui.panel = "groups" /\ Is(k, "GroupDelete")
  THEN [w EXCEPT !.ui.delete = TRUE]
  ELSE IF Is(k, "SearchOpen") THEN OpensSearch(w)
  ELSE IF w.ui.term /\ Is(k, "MatchStep") THEN w
  ELSE IF w.ui.term /\ Is(k, "SearchLeave") THEN [w EXCEPT !.ui.term = FALSE]
  ELSE IF Is(k, "Quit") THEN Quits(w)
  ELSE IF Is(k, "Help") THEN [w EXCEPT !.ui.help = TRUE]
  ELSE IF Is(k, "NextTab") THEN CycleFocus(w, 1)
  ELSE IF Is(k, "PrevTab") THEN CycleFocus(w, -1)
  ELSE IF Is(k, "CommandLine") THEN Opens(w, "command")
  ELSE IF Is(k, "QuickSave") THEN [Selects(w, "groups") EXCEPT !.ui.in["save"] = "text"]
  ELSE IF Is(k, "Split") THEN Opens(w, "split")
  ELSE IF Is(k, "Filter") THEN Opens(w, "filter")
  ELSE IF Is(k, "NewHost") THEN Opens(Selects(w, "status"), "connect")
  ELSE IF Is(k, "HostPicker") THEN Opens(w, "picker")
  ELSE IF Is(k, "NextFailure") THEN JumpsToFailure(w)
  ELSE IF PanelOf(k) # "none" THEN Selects(w, PanelOf(k))
  ELSE IF Is(k, "Panel5") THEN EntersBar(w)
  ELSE IF IsCommand(k) THEN w
  ELSE IF IsPaneKey(k) THEN PaneKey(w, k)
  ELSE IF w.ui.focus = "sidebar" THEN SidebarKey(w, k)
  ELSE w

(* resolveAppPrefix: the literal has nowhere to go from here.              *)
AppKey(w, k) ==
  LET resolved == [w EXCEPT !.ui.armed = FALSE]
  IN IF w.ui.armed
     THEN IF Is(k, "PrefixPage") \/ Is(k, "PrefixLiteral") \/ Is(k, "PrefixCancel") THEN resolved
          ELSE AppCommand(resolved, ChordCommand(k))
     ELSE IF Is(k, "Prefix") THEN [w EXCEPT !.ui.armed = TRUE]
     ELSE AppCommand(w, k)

-----------------------------------------------------------------------------
(* The broadcast bar.                                                      *)

(* trackBroadcastLine: what was typed since the last enter, kept for the   *)
(* command log; of each character, whether any live host receives it.      *)
TrackLine(w, k) ==
  IF Is(k, "PromptErase") /\ w.ui.line # <<>> THEN [w EXCEPT !.ui.line = Front(@)]
  ELSE IF k \in Text /\ Len(w.ui.line) < MaxLine
  THEN [w EXCEPT !.ui.line = Append(@, Live(w) # {})]
  ELSE w

(* A line no live host received was an answer to prompts, not a command.   *)
RecordLine(w) ==
  LET cleared == [w EXCEPT !.ui.line = <<>>]
  IN IF w.ui.line = <<>> \/ Live(w) = {} THEN cleared
     ELSE Records(cleared, [cmd |-> Len(w.log) + 1, to |-> Live(w),
                            heard |-> \A i \in DOMAIN w.ui.line : w.ui.line[i]])

ToTargets(w, what) == Sends(w, what, Live(w))

(* Questions take the key as their answer, live hosts as a keystroke.      *)
PlainBroadcastKey(w, k, accepted) ==
  LET fed == AnswerKey(TrackLine(w, k), Asking(w), k, accepted)
      sent == ToTargets(fed, "key")
  IN IF k = "enter" THEN RecordLine(sent) ELSE sent

(* resolvePendingPaste: enter and esc are the only keys that mean anything.*)
PendingPasteKey(w, k) ==
  LET answered == [w EXCEPT !.ui.held = 0]
  IN IF Is(k, "PromptSubmit") THEN ToTargets(answered, "script")
     ELSE IF Is(k, "PromptCancel") THEN answered
     ELSE w

(* resolveBroadcastEscape: a forwarded key stays out of the line.          *)
BroadcastEscape(w, k) ==
  LET resolved == [w EXCEPT !.ui.armed = FALSE]
  IN IF Is(k, "PrefixPage") THEN resolved
     ELSE IF Is(k, "PrefixCancel") THEN [resolved EXCEPT !.ui.view = TRUE]
     ELSE IF Is(k, "PrefixLiteral") THEN ToTargets(resolved, "key")
     ELSE IF IsCommand(ChordCommand(k)) THEN AppKey(resolved, ChordCommand(k))
     ELSE ToTargets(resolved, "key")

BroadcastKey(w, k, accepted) ==
  IF w.ui.held > 0 THEN PendingPasteKey(w, k)
  ELSE IF Is(k, "LeaveTyping")
  THEN [Focuses(w, "sidebar") EXCEPT !.ui.view = FALSE, !.ui.armed = FALSE]
  ELSE IF w.ui.view
  THEN IF Is(k, "BroadcastEdit") THEN [w EXCEPT !.ui.view = FALSE] ELSE AppKey(w, k)
  ELSE IF w.ui.armed THEN BroadcastEscape(w, k)
  ELSE IF Is(k, "Prefix") THEN [w EXCEPT !.ui.armed = TRUE]
  ELSE IF IsPaneKey(k) THEN PaneKey(w, k)
  ELSE PlainBroadcastKey(w, k, accepted)

-----------------------------------------------------------------------------
(* The dispatch.                                                           *)

OwnerKey(w, k, accepted) ==
  CASE Owner(w.ui) = "command" -> CommandLineKey(w, k)
    [] Owner(w.ui) = "save" -> SaveKey(w, k, accepted)
    [] Owner(w.ui) = "dialog" -> DialogKey(w, k, accepted)
    [] Owner(w.ui) = "delete" -> DeleteKey(w, k)
    [] Owner(w.ui) = "ending" -> SessionEndKey(w, k)
    [] Owner(w.ui) = "picker" -> PickerKey(w, k)
    [] Owner(w.ui) = "connect" -> ConnectKey(w, k)
    [] Owner(w.ui) = "search" -> SearchKey(w, k)
    [] Owner(w.ui) \in {"split", "filter"} -> NumberKey(w, Owner(w.ui), k)
    [] Owner(w.ui) \in {"help", "preview"} -> OverlayKey(w, Owner(w.ui), k)

AreaKey(w, k, accepted) ==
  CASE w.ui.focus = "grid" -> TypingKey(w, k, accepted)
    [] w.ui.focus = "bar" -> BroadcastKey(w, k, accepted)
    [] w.ui.focus = "sidebar" -> AppKey(w, k)

HandleKey(asFound, k, accepted) ==
  LET w == IF asFound.ui.focus = "bar" THEN asFound ELSE [asFound EXCEPT !.ui.view = FALSE]
      unselected == [w EXCEPT !.ui.sel = FALSE]
  IN IF Is(k, "ForceQuit") /\ PromptOwns(w.ui) THEN Quits(w)
     ELSE IF SelectionValid(w.ui) /\ Is(k, "CopySelection") THEN unselected
     ELSE IF OpenOwners(w.ui) # {} THEN OwnerKey(w, k, accepted)
     ELSE IF SelectionValid(w.ui) /\ Is(k, "PromptCancel") THEN AreaKey(unselected, k, accepted)
     ELSE AreaKey(w, k, accepted)

(* handlePaste: n lines.                                                   *)
PasteToPane(w, n) ==
  LET fresh == [w EXCEPT !.ui.armed = FALSE]
  IN IF PaneHost(w) \in Asking(w) THEN fresh
     ELSE ToPane(fresh, IF n > 1 THEN "script" ELSE "text")

(* handleClick and the drag that may follow it, whatever owns the keyboard.*)
HandleClick(w, target, drag) ==
  LET fresh == [w EXCEPT !.ui.sel = FALSE]
  IN CASE target \in PaneHosts ->
            [fresh EXCEPT !.ui.focus = "grid", !.ui.sel = drag,
                          !.ui.pane = CHOOSE i \in DOMAIN Panes : Panes[i] = target]
       [] target \in ToSet(Sidebar) -> Selects(fresh, target)
       [] target = "bar" -> EntersBar(fresh)

-----------------------------------------------------------------------------
(* What the disk and the user's own messages bring back.                   *)

(* applySaveResult, applySaved: a taken name asks, any other failure ends  *)
(* the prompt, while the dialog keeps what was typed.                      *)
HandleMsg(w, op, result) ==
  CASE op.op \in {"save", "overwrite"} ->
         IF result = "taken" THEN [w EXCEPT !.ui.savePending = FALSE, !.ui.confirm = TRUE]
         ELSE CancelSave(w)
    [] op.op = "create" -> IF result = "done" THEN CancelNew(w) ELSE [w EXCEPT !.ui.saving = FALSE]
    [] op.op = "remove" -> w
    [] op.op = "resend" -> SendCommand(w, op.cmd, PaneHosts)
    [] op.op = "missing" -> ResendMissing(w, op)

Results(op) == IF op.op = "save" THEN {"done", "taken", "failed"}
               ELSE IF op.op \in {"overwrite", "create"} THEN {"done", "failed"} ELSE {"done"}

-----------------------------------------------------------------------------
World == [host |-> host, ui |-> ui, log |-> log, ops |-> ops, out |-> Silence, told |-> {}]

(* The log is bounded for the model.                                       *)
Becomes(w) ==
  /\ Len(w.log) <= MaxLog
  /\ host' = w.host
  /\ ui' = w.ui
  /\ log' = w.log
  /\ ops' = w.ops
  /\ out' = w.out

(* The event loop is at rest.                                              *)
Running == ~ui.quit /\ call = NoCall

(* What the snapshot may answer to a key: the jump is the one that asks.   *)
Told(k) == IF Is(k, "NextFailure") THEN SUBSET PaneHosts ELSE {{}}

Press(k) ==
  /\ Running
  /\ \E accepted \in BOOLEAN, told \in Told(k) :
       Becomes(HandleKey([World EXCEPT !.told = told], k, accepted))
  /\ UNCHANGED call

(* Defect for the checks: two hosts are few enough to go unreviewed.       *)
PasteToBroadcastUnheld(n) ==
  LET fresh == [World EXCEPT !.ui.armed = FALSE]
      counted == Live(World)
  IN IF n > 1 /\ Cardinality(counted) > 2
     THEN Becomes([fresh EXCEPT !.ui.held = Cardinality(counted)]) /\ UNCHANGED call
     ELSE Becomes(fresh) /\ call' = [what |-> IF n > 1 THEN "script" ELSE "text", counted |-> counted]

(* pasteToBroadcast: Count asks who is connected, and a script for several *)
(* hosts is held for review; anything else goes on to Send.                *)
PasteToBroadcast(n) ==
  LET fresh == [World EXCEPT !.ui.armed = FALSE]
      counted == Live(World)
  IN IF n > 1 /\ Cardinality(counted) > 1
     THEN Becomes([fresh EXCEPT !.ui.held = Cardinality(counted)]) /\ UNCHANGED call
     ELSE Becomes(fresh) /\ call' = [what |-> IF n > 1 THEN "script" ELSE "text", counted |-> counted]

(* ... which asks again.                                                   *)
SendBroadcastRaw ==
  /\ call # NoCall
  /\ Becomes(ToTargets(World, call.what))
  /\ call' = NoCall

(* Defect for the checks: a paste is routed by focus alone.                *)
PasteByFocus(n) ==
  /\ Running
  /\ IF ui.focus = "bar" /\ ~ui.view THEN PasteToBroadcast(n)
     ELSE Becomes(IF ui.focus = "grid" THEN PasteToPane(World, n) ELSE World) /\ UNCHANGED call

(* handlePaste: dropped unless a shell is what the user looks at.          *)
Paste(n) ==
  /\ Running /\ OpenOwners(ui) = {}
  /\ \/ ui.focus = "grid" /\ Becomes(PasteToPane(World, n)) /\ UNCHANGED call
     \/ ui.focus = "bar" /\ ~ui.view /\ PasteToBroadcast(n)

Click(target, drag) == Running /\ Becomes(HandleClick(World, target, drag)) /\ UNCHANGED call

Land(op) ==
  /\ Running
  /\ op \in ops
  /\ \E result \in Results(op), told \in SUBSET PaneHosts :
       Becomes(HandleMsg([World EXCEPT !.ops = @ \ {op}, !.told = told], op, result))
  /\ UNCHANGED call

(* The sessions behind the panes: dialled again, asking, up, gone, on      *)
(* goroutines of their own.                                                *)
Follows == [dialling |-> {"asking", "up", "down"}, asking |-> {"down"},
            up |-> {"down"}, down |-> {"dialling"}]
FleetMoves(h) ==
  /\ ~ui.quit
  /\ \E state \in Follows[host[h]] : Becomes([World EXCEPT !.host[h] = state])
  /\ UNCHANGED call

Init ==
  /\ host = [h \in PaneHosts |-> "dialling"]
  /\ \E prompt \in {"closed", ""} :
       ui = [focus |-> "sidebar", panel |-> "status", pane |-> 1, sel |-> FALSE,
             in |-> [i \in Input |-> IF i = "connect" THEN prompt ELSE "closed"],
             confirm |-> FALSE, savePending |-> FALSE, saving |-> FALSE, delete |-> FALSE,
             ending |-> FALSE, help |-> FALSE, preview |-> FALSE, view |-> FALSE,
             armed |-> FALSE, term |-> FALSE, held |-> 0, line |-> <<>>, quit |-> FALSE]
  /\ log = <<>>
  /\ ops = {}
  /\ out = Silence
  /\ call = NoCall

Next ==
  \/ \E k \in Keys : Press(k)
  \/ \E n \in Pasted : Paste(n)
  \/ SendBroadcastRaw
  \/ \E click \in Clicks : Click(click.at, click.drag)
  \/ \E op \in ops : Land(op)
  \/ \E h \in PaneHosts : FleetMoves(h)

Spec == Init /\ [][Next]_vars

-----------------------------------------------------------------------------
(* What the keyboard must guarantee.                                       *)

(* Whom the frame the user looks at names as the receivers of a keystroke. *)
Addressed ==
  IF OpenOwners(ui) # {} \/ ui.focus = "sidebar" THEN {}
  ELSE IF ui.focus = "grid" THEN {Panes[ui.pane]}
  ELSE IF ui.view THEN {} ELSE PaneHosts

(* Nothing typed or pasted reaches a host the frame did not name: no       *)
(* prompt, question, overlay or view mode leaks a key to the fleet, and a  *)
(* focused pane's keys stay with its host.  A whole command goes out of    *)
(* the command line or a request of the log panel, a log-out out of its    *)
(* question (handleKey, handlePaste, promptOwnsKeyboard).                  *)
KeysReachOnlyTheirHosts ==
  [][/\ out'.what \in {"key", "text", "script"} => out'.to \subseteq Addressed
     /\ out'.what = "command" => Focused(ui, "command") \/ ops' # ops
     /\ out'.what = "end" => ui.ending]_vars

(* A script that reaches several hosts was held and shown in the bar first,*)
(* and nothing else was on screen when it was released; or it was aimed at *)
(* one host at most when it was counted, and every other one connected     *)
(* before Send asked again (pasteToBroadcast, resolvePendingPaste).        *)
ReleasesScript == out'.what = "script" /\ Cardinality(out'.to) > 1
PasteIsReviewed ==
  [][ReleasesScript =>
       IF call = NoCall THEN ui.held > 0 /\ ui.focus = "bar" /\ OpenOwners(ui) = {}
       ELSE Cardinality(out'.to \cap call.counted) <= 1]_vars

(* Of all prompts, questions and overlays at most one listens, it is the   *)
(* one drawn, and the box whose write is in flight keeps the keyboard, so  *)
(* that the result lands in the box that asked (handleKey's guard chain,   *)
(* activeModal, handleSaveKey, handleDialogKey).                           *)
InFlight(name) == \E op \in ops : op.op = name
OneListener ==
  /\ Cardinality(OpenOwners(ui)) <= 1
  /\ Drawn(ui) # "none" => Drawn(ui) = Owner(ui)
  /\ InFlight("save") \/ InFlight("overwrite") => Owner(ui) = "save" /\ ui.savePending
  /\ InFlight("create") => Owner(ui) = "dialog" /\ ui.saving

(* A host that received a command is never missing again: the resend to    *)
(* the missing hosts runs it nowhere twice (resendMissing).  Pressing m    *)
(* twice on one entry does: the entry keeps naming its first receivers.    *)
Received(cmd) == UNION {log[i].to : i \in {j \in DOMAIN log : log[j].cmd = cmd}}
MissingRunsOnce ==
  [][\A op \in ops \ ops' :
       op.op = "missing" => out'.to \cap Received(op.cmd) = {}]_vars

(* The command log holds no character that went to a question: it may be a *)
(* password (handleBroadcastKey).  A host that connects before the enter   *)
(* turns the answer into a recorded line.                                  *)
RecordedLineWasHeard == \A i \in DOMAIN log : log[i].heard

(* The prefix lasts exactly one key press (prefixArmed).  In view mode the *)
(* enter that returns to typing leaves it armed for the key after.         *)
PrefixLastsOneKey == [][ui.armed /\ ui'.armed => ui'.view = ui.view]_vars

(* "Multiline text reaching more than one host is held for review"         *)
(* (paste.go:94).  A host that connects between Count and Send is a second *)
(* one that is not.                                                        *)
ScriptsAreHeld == [][ReleasesScript => call = NoCall]_vars

(* A reviewed paste reaches no more hosts than the bar named               *)
(* (pendingPaste.hosts).  A host that connects during the review is one    *)
(* more.                                                                   *)
PasteReachesCounted ==
  [][out'.what = "script" /\ ui.held > 0 /\ ui'.held = 0
       => Cardinality(out'.to) <= ui.held]_vars

=============================================================================
