------------------------------- MODULE Groups -------------------------------
(***************************************************************************)
(* Saved groups (internal/sessions, the Groups panel of internal/ui, and   *)
(* the part of internal/program that opens them): how a run is assembled   *)
(* from patterns, how those patterns are written to a file of the group    *)
(* directory, and how a file becomes hosts of the run again.               *)
(*                                                                         *)
(* Whatever touches the disk runs in a command beside the event loop and   *)
(* reports with a message, so two of them and the keyboard interleave, and *)
(* the process may die between any two steps.                              *)
(***************************************************************************)
EXTENDS Integers, Sequences, FiniteSets, SequencesExt, Functions

CONSTANTS
  Names,      \* the names of groups
  Resolve,    \* what each host pattern expands to, in order
  Given,      \* the patterns on the command line
  Saved,      \* the files of the directory when the first run starts: name to patterns
  Connects,   \* the patterns typed into the new-host prompt
  Typed,      \* the patterns typed into the new-group dialog
  DiskFails,  \* whether a write, a removal or a reading of the directory can fail
  MaxOps,     \* bound of the model: operations under way
  MaxAsked    \* bound of the model: commands the user gives

Pattern == DOMAIN Resolve
Alias == UNION {ToSet(Resolve[p]) : p \in Pattern}

(* A host's own name is a pattern: a run saved as hosts is opened again.   *)
ASSUME ResolveAssumption ==
  /\ \A p \in Pattern : Resolve[p] \in Seq(Alias)
  /\ Alias \subseteq Pattern
ASSUME GivenAssumption == Given \in Seq(Pattern)
ASSUME SavedAssumption ==
  /\ DOMAIN Saved \subseteq Names
  /\ \A n \in DOMAIN Saved : Saved[n] # <<>> /\ Saved[n] \in Seq(Pattern)
ASSUME TypedAssumption == \A t \in Connects \cup Typed : t # <<>> /\ t \in Seq(Pattern)

VARIABLES
  fleet,    \* the manager's identifiers in order: the n-th session of a host's alias
  run,      \* the program's patterns: their backing array and how much of it is used
  prompt,   \* which question of the panel owns the keyboard, and for which name
  rows,     \* the rows of the panel
  ops,      \* the commands beside the event loop, each until its message is handled
  disk,     \* the group directory: name to what the file holds
  asked,    \* how many commands the user has given
  agreed    \* the commands the user has answered for: they may replace or delete

vars == <<fleet, run, prompt, rows, ops, disk, asked, agreed>>

Closed == [at |-> "closed", name |-> ""]
Idle == [op |-> "idle", at |-> ""]
Whole(patterns) == [patterns |-> patterns, whole |-> TRUE]
Put(name, file) == [n \in DOMAIN disk \cup {name} |-> IF n = name THEN file ELSE disk[n]]

-----------------------------------------------------------------------------
(* The patterns of the run are a Go slice: what the panel and a save under *)
(* way hold of it is the same memory until an append outgrows it.          *)

Patterns == SubSeq(run.array, 1, run.len)

(* append: in place while the array has room, else into one twice as large. *)
Appended(slice, p) ==
  LET cap == Len(slice.array)
  IN IF slice.len < cap
     THEN [slice EXCEPT !.array[slice.len + 1] = p, !.len = @ + 1]
     ELSE [array |-> [i \in 1 .. (IF cap = 0 THEN 1 ELSE 2 * cap) |->
                        IF i <= cap THEN slice.array[i] ELSE IF i = cap + 1 THEN p ELSE ""],
           len |-> cap + 1]

(* addPatterns: each once, in order.                                       *)
AddPatterns(slice, patterns) ==
  LET grown[i \in 0 .. Len(patterns)] ==
        IF i = 0 THEN slice
        ELSE IF patterns[i] \in ToSet(SubSeq(grown[i - 1].array, 1, grown[i - 1].len))
             THEN grown[i - 1]
             ELSE Appended(grown[i - 1], patterns[i])
  IN grown[Len(patterns)]

(* A save under way keeps the array that an append has left behind.        *)
KeepsArray(cmd, new) ==
  IF cmd.op = "save" /\ cmd.at = "read" /\ cmd.shared /\ Len(new.array) # Len(run.array)
  THEN [cmd EXCEPT !.shared = FALSE, !.source = SubSeq(run.array, 1, Len(@))]
  ELSE cmd

(* A list without one of its elements.                                     *)
Without(list, x) ==
  LET kept[i \in 0 .. Len(list)] ==
        IF i = 0 THEN <<>>
        ELSE IF list[i] = x THEN kept[i - 1] ELSE Append(kept[i - 1], list[i])
  IN kept[Len(list)]

(* dropPattern: filtered in place, so the tail of the array stays behind;  *)
(* only a save under way can see it.                                       *)
Seen == {0} \cup {Len(ops[k].source) : k \in {j \in DOMAIN ops : ops[j].op = "save" /\ ops[j].at = "read"}}
DropPattern(name) ==
  LET kept == Without(Patterns, name)
  IN [array |-> [i \in DOMAIN run.array |->
                   IF i <= Len(kept) THEN kept[i]
                   ELSE IF \E n \in Seen : i <= n THEN run.array[i] ELSE ""],
      len |-> Len(kept)]

-----------------------------------------------------------------------------
(* Hosts join and leave the run.                                           *)

Ids(f) == ToSet(f)
FreeIn(f, alias) == CHOOSE n \in 1 .. Len(f) + 1 :
                      /\ [alias |-> alias, n |-> n] \notin Ids(f)
                      /\ \A m \in 1 .. n - 1 : [alias |-> alias, n |-> m] \in Ids(f)
Add(f, alias) == Append(f, [alias |-> alias, n |-> FreeIn(f, alias)])
Hosts(patterns) == FlattenSeq([i \in DOMAIN patterns |-> Resolve[patterns[i]]])
Running(f) == {id.alias : id \in {i \in Ids(f) : i.n = 1}}

AddedAll(f, aliases) ==
  LET added[i \in 0 .. Len(aliases)] == IF i = 0 THEN f ELSE Add(added[i - 1], aliases[i])
  IN added[Len(aliases)]

(* applyGroup looks at what is running once, applyConnect also at what it  *)
(* has just added.                                                         *)
Opened(f, aliases) ==
  LET opened[i \in 0 .. Len(aliases)] ==
        IF i = 0 THEN f
        ELSE IF aliases[i] \in Running(f) THEN opened[i - 1] ELSE Add(opened[i - 1], aliases[i])
  IN opened[Len(aliases)]
Connected(f, aliases) ==
  LET joined[i \in 0 .. Len(aliases)] ==
        IF i = 0 THEN f
        ELSE IF aliases[i] \in Running(joined[i - 1]) THEN joined[i - 1]
             ELSE Add(joined[i - 1], aliases[i])
  IN joined[Len(aliases)]

-----------------------------------------------------------------------------
Free(k) == ops[k] = Idle
Sets(k, cmd) == ops' = [ops EXCEPT ![k] = cmd]
Goes(k, at) == ops' = [ops EXCEPT ![k].at = at]

(* Whatever changed the directory has the rows read again.                 *)
LoadRows == [op |-> "load", at |-> "list", rows |-> {}]

(* The keyboard: one prompt of the panel owns it at a time, and keeps it   *)
(* while its write is under way.                                           *)
Asks(at, name) == prompt' = [at |-> at, name |-> name]

BeginSave ==
  /\ prompt = Closed
  /\ Asks("save", "")
  /\ UNCHANGED <<fleet, run, rows, ops, disk, agreed>>

Cancel ==
  /\ prompt.at \in {"save", "name", "hosts", "replace", "delete"}
  /\ prompt' = Closed
  /\ UNCHANGED <<fleet, run, rows, ops, disk, agreed>>

(* commitSave: the patterns of the run, or its hosts when nothing recorded *)
(* how it was assembled.  Written are the identifiers, and that of a clone *)
(* is a name of its own, a#2.  Bound of the model: no names but those of   *)
(* Alias, so a run is not saved by its hosts while a clone is among them.  *)
Spellable == run.len > 0 \/ \A id \in Ids(fleet) : id.n = 1
ToSave == IF run.len > 0 THEN Patterns ELSE [i \in DOMAIN fleet |-> fleet[i].alias]
CommitSave(k, name, over) ==
  /\ Asks("saving", name)
  /\ Sets(k, [op |-> "save", at |-> "read", name |-> name, over |-> over,
              shared |-> run.len > 0, source |-> ToSave, got |-> <<>>, err |-> ""])

(* A run without either keeps the prompt.                                  *)
SubmitSave(k) ==
  /\ prompt.at = "save" /\ Free(k) /\ ToSave # <<>> /\ Spellable
  /\ \E name \in Names : CommitSave(k, name, FALSE)
  /\ UNCHANGED <<fleet, run, rows, disk, agreed>>

AgreeToReplace(k) ==
  /\ prompt.at = "replace" /\ Free(k) /\ ToSave # <<>> /\ Spellable
  /\ CommitSave(k, prompt.name, TRUE)
  /\ agreed' = agreed \cup {k}
  /\ UNCHANGED <<fleet, run, rows, disk>>

(* The new-group dialog looks for the file before it asks for the hosts.   *)
BeginNew ==
  /\ prompt = Closed
  /\ Asks("name", "")
  /\ UNCHANGED <<fleet, run, rows, ops, disk, agreed>>

SubmitName ==
  /\ prompt.at = "name"
  /\ \E name \in Names \ DOMAIN disk : Asks("hosts", name)
  /\ UNCHANGED <<fleet, run, rows, ops, disk, agreed>>

SubmitHosts(k) ==
  /\ prompt.at = "hosts" /\ Free(k)
  /\ \E patterns \in Typed :
       Sets(k, [op |-> "new", at |-> "check", name |-> prompt.name, over |-> FALSE,
                got |-> patterns, err |-> ""])
  /\ Asks("creating", prompt.name)
  /\ UNCHANGED <<fleet, run, rows, disk, agreed>>

BeginDelete ==
  /\ prompt = Closed
  /\ \E name \in rows : Asks("delete", name)
  /\ UNCHANGED <<fleet, run, rows, ops, disk, agreed>>

AgreeToDelete(k) ==
  /\ prompt.at = "delete" /\ Free(k)
  /\ Sets(k, [op |-> "delete", at |-> "unlink", name |-> prompt.name])
  /\ prompt' = Closed
  /\ agreed' = agreed \cup {k}
  /\ UNCHANGED <<fleet, run, rows, disk>>

(* Commands of the user that change the run.                               *)
OpenGroup(k) ==
  /\ prompt = Closed /\ Free(k)
  /\ \E name \in rows : Sets(k, [op |-> "open", at |-> "load", name |-> name, patterns |-> <<>>])
  /\ UNCHANGED <<fleet, run, prompt, rows, disk, agreed>>

ConnectHosts(k) ==
  /\ prompt = Closed /\ Free(k)
  /\ \E patterns \in Connects :
       Sets(k, [op |-> "connect", at |-> "done", patterns |-> patterns])
  /\ UNCHANGED <<fleet, run, prompt, rows, disk, agreed>>

CloneHost ==
  /\ prompt = Closed /\ asked < MaxAsked /\ asked' = asked + 1
  /\ \E i \in DOMAIN fleet : fleet' = Add(fleet, fleet[i].alias)
  /\ UNCHANGED <<run, prompt, rows, ops, disk, agreed>>

(* RemoveHostMsg: asked for by the user, or by the panel when a session    *)
(* has ended, which needs no free keyboard.                                *)
RemoveHost(k) ==
  /\ Free(k)
  /\ \E i \in DOMAIN fleet : Sets(k, [op |-> "remove", at |-> "leave", id |-> fleet[i]])
  /\ UNCHANGED <<fleet, run, prompt, rows, disk, agreed>>

-----------------------------------------------------------------------------
(* The commands.                                                           *)

(* FromRun walks the patterns without a lock.                              *)
SaveReads(k) ==
  /\ ops[k].op = "save" /\ ops[k].at = "read"
  /\ LET i == Len(ops[k].got) + 1
     IN IF i > Len(ops[k].source) THEN Goes(k, IF ops[k].over THEN "write" ELSE "check")
        ELSE Sets(k, [ops[k] EXCEPT !.got = Append(@, IF ops[k].shared THEN run.array[i]
                                                     ELSE ops[k].source[i])])
  /\ UNCHANGED <<fleet, run, prompt, rows, disk, agreed>>

(* Defect for the checks: a save that never looks.                         *)
CreateReplaces(k) ==
  /\ ops[k].op \in {"save", "new"} /\ ops[k].at = "check"
  /\ Goes(k, "write")
  /\ UNCHANGED <<fleet, run, prompt, rows, disk, agreed>>

(* Create looks whether the name is taken and saves afterwards.            *)
CreateChecks(k) ==
  /\ ops[k].op \in {"save", "new"} /\ ops[k].at = "check"
  /\ IF ops[k].name \in DOMAIN disk
     THEN Sets(k, [ops[k] EXCEPT !.at = "done", !.err = "exists"])
     ELSE Goes(k, "write")
  /\ UNCHANGED <<fleet, run, prompt, rows, disk, agreed>>

(* Defect for the checks: the file itself is written.                      *)
SaveWritesInPlace(k) ==
  /\ ops[k].op \in {"save", "new"} /\ ops[k].at = "write"
  /\ Goes(k, "rename")
  /\ disk' = Put(ops[k].name, [patterns |-> <<>>, whole |-> FALSE])
  /\ UNCHANGED <<fleet, run, prompt, rows, agreed>>

(* Save: a temporary file, written and closed, ...  A crash leaves it      *)
(* behind, where List passes over it: no name starts with a dot.           *)
SaveWrites(k) ==
  /\ ops[k].op \in {"save", "new"} /\ ops[k].at = "write"
  /\ \/ Goes(k, "rename")
     \/ DiskFails /\ Sets(k, [ops[k] EXCEPT !.at = "done", !.err = "disk"])
  /\ UNCHANGED <<fleet, run, prompt, rows, disk, agreed>>

(* ... takes the place of the file, or is removed.                         *)
SaveRenames(k) ==
  /\ ops[k].op \in {"save", "new"} /\ ops[k].at = "rename"
  /\ \/ /\ Goes(k, "done")
        /\ disk' = Put(ops[k].name, Whole(ops[k].got))
     \/ /\ DiskFails
        /\ Sets(k, [ops[k] EXCEPT !.at = "done", !.err = "disk"])
        /\ UNCHANGED disk
  /\ UNCHANGED <<fleet, run, prompt, rows, agreed>>

(* Remove: the file goes, if it is still there, or stays.                  *)
DeleteUnlinks(k) ==
  /\ ops[k].op = "delete" /\ ops[k].at = "unlink"
  /\ \/ disk' = Restrict(disk, DOMAIN disk \ {ops[k].name})
     \/ DiskFails /\ UNCHANGED disk
  /\ Goes(k, "done")
  /\ UNCHANGED <<fleet, run, prompt, rows, agreed>>

(* readGroups: a row per file, whether it could be read or not; none when  *)
(* the directory cannot be listed.                                         *)
LoadLists(k) ==
  /\ ops[k].op = "load" /\ ops[k].at = "list"
  /\ \/ Sets(k, [ops[k] EXCEPT !.at = "done", !.rows = DOMAIN disk])
     \/ DiskFails /\ Sets(k, [ops[k] EXCEPT !.at = "done", !.rows = {}])
  /\ UNCHANGED <<fleet, run, prompt, rows, disk, agreed>>

(* openGroup reads the file and resolves its patterns.                     *)
OpenLoads(k) ==
  /\ ops[k].op = "open" /\ ops[k].at = "load"
  /\ LET name == ops[k].name
     IN IF name \in DOMAIN disk /\ disk[name].whole
        THEN Sets(k, [ops[k] EXCEPT !.at = "done", !.patterns = disk[name].patterns])
        ELSE Goes(k, "failed")
  /\ UNCHANGED <<fleet, run, prompt, rows, disk, agreed>>

(* Remove takes the session off the list, and waits for it to close.       *)
RemoveLeaves(k) ==
  /\ ops[k].op = "remove" /\ ops[k].at = "leave"
  /\ fleet' = Without(fleet, ops[k].id)
  /\ Goes(k, "done")
  /\ UNCHANGED <<run, prompt, rows, disk, agreed>>

Command(k) ==
  \/ SaveReads(k) \/ CreateChecks(k) \/ SaveWrites(k) \/ SaveRenames(k) \/ DeleteUnlinks(k)
  \/ LoadLists(k) \/ OpenLoads(k) \/ RemoveLeaves(k)

-----------------------------------------------------------------------------
(* The messages of the commands, in any order.                             *)

(* Defect for the checks: the prompt is left as it is when a write fails.  *)
SaveResultStuck(k) ==
  /\ ops[k].op = "save" /\ ops[k].at = "done"
  /\ prompt' = IF ops[k].err = "exists" THEN [prompt EXCEPT !.at = "replace"]
               ELSE IF ops[k].err = "" THEN Closed ELSE prompt
  /\ Sets(k, IF ops[k].err = "" THEN LoadRows ELSE Idle)
  /\ agreed' = agreed \ {k}
  /\ UNCHANGED <<fleet, run, rows, disk>>

SaveResult(k) ==
  /\ ops[k].op = "save" /\ ops[k].at = "done"
  /\ prompt' = IF ops[k].err = "exists" THEN [prompt EXCEPT !.at = "replace"] ELSE Closed
  /\ Sets(k, IF ops[k].err = "" THEN LoadRows ELSE Idle)
  /\ agreed' = agreed \ {k}
  /\ UNCHANGED <<fleet, run, rows, disk>>

GroupSaved(k) ==
  /\ ops[k].op = "new" /\ ops[k].at = "done"
  /\ prompt' = IF ops[k].err = "" THEN Closed ELSE [prompt EXCEPT !.at = "hosts"]
  /\ Sets(k, IF ops[k].err = "" THEN LoadRows ELSE Idle)
  /\ UNCHANGED <<fleet, run, rows, disk, agreed>>

GroupRemoved(k) ==
  /\ ops[k].op = "delete" /\ ops[k].at = "done"
  /\ Sets(k, LoadRows)
  /\ agreed' = agreed \ {k}
  /\ UNCHANGED <<fleet, run, prompt, rows, disk>>

GroupsLoaded(k) ==
  /\ ops[k].op = "load" /\ ops[k].at = "done"
  /\ rows' = ops[k].rows
  /\ Sets(k, Idle)
  /\ UNCHANGED <<fleet, run, prompt, disk, agreed>>

(* applyGroup and applyConnect add what does not run yet.                  *)
Grows(k, patterns, grown) ==
  LET new == AddPatterns(run, patterns)
  IN /\ fleet' = grown
     /\ run' = new
     /\ ops' = [j \in DOMAIN ops |-> IF j = k THEN Idle ELSE KeepsArray(ops[j], new)]
     /\ UNCHANGED <<prompt, rows, disk, agreed>>

ApplyGroup(k) ==
  /\ ops[k].op = "open"
  /\ \/ ops[k].at = "done" /\ Grows(k, ops[k].patterns, Opened(fleet, Hosts(ops[k].patterns)))
     \/ /\ ops[k].at = "failed"
        /\ Sets(k, LoadRows)
        /\ UNCHANGED <<fleet, run, prompt, rows, disk, agreed>>

(* Defect for the checks: what runs is looked up when the user asks.       *)
ApplyConnectAsAsked(k) ==
  /\ ops[k].op = "connect"
  /\ Grows(k, ops[k].patterns, AddedAll(fleet, Hosts(ops[k].patterns)))

ApplyConnect(k) ==
  /\ ops[k].op = "connect"
  /\ LET grown == Connected(fleet, Hosts(ops[k].patterns))
     IN IF grown = fleet THEN Sets(k, Idle) /\ UNCHANGED <<fleet, run, prompt, rows, disk, agreed>>
        ELSE Grows(k, ops[k].patterns, grown)

HostRemoved(k) ==
  /\ ops[k].op = "remove" /\ ops[k].at = "done"
  /\ run' = IF ops[k].id.n = 1 THEN DropPattern(ops[k].id.alias) ELSE run
  /\ Sets(k, Idle)
  /\ UNCHANGED <<fleet, prompt, rows, disk, agreed>>

Lands(k) ==
  \/ SaveResult(k) \/ GroupSaved(k) \/ GroupRemoved(k) \/ GroupsLoaded(k)
  \/ ApplyGroup(k) \/ ApplyConnect(k) \/ HostRemoved(k)

Request(k) ==
  \/ SubmitSave(k) \/ AgreeToReplace(k) \/ SubmitHosts(k) \/ AgreeToDelete(k)
  \/ OpenGroup(k) \/ ConnectHosts(k) \/ RemoveHost(k)

User(k) == asked < MaxAsked /\ asked' = asked + 1 /\ Request(k)

Works(k) == (Command(k) \/ Lands(k)) /\ UNCHANGED asked

Keys == (BeginSave \/ BeginNew \/ SubmitName \/ BeginDelete \/ Cancel) /\ UNCHANGED asked

-----------------------------------------------------------------------------
(* A run starts with the hosts of the command line, and reads the rows.    *)
FirstOps == [k \in 1 .. MaxOps |-> IF k = 1 THEN LoadRows ELSE Idle]
FirstFleet == AddedAll(<<>>, Hosts(Given))

Init ==
  /\ fleet = FirstFleet
  /\ run = [array |-> Given, len |-> Len(Given)]
  /\ prompt = Closed
  /\ rows = {}
  /\ ops = FirstOps
  /\ disk = [n \in DOMAIN Saved |-> Whole(Saved[n])]
  /\ asked = 0
  /\ agreed = {}

(* The process dies, and another run begins on what is on disk.            *)
Crash ==
  /\ fleet' = FirstFleet
  /\ run' = [array |-> Given, len |-> Len(Given)]
  /\ prompt' = Closed
  /\ rows' = {}
  /\ ops' = FirstOps
  /\ agreed' = {}
  /\ UNCHANGED <<disk, asked>>

Next ==
  \/ \E k \in 1 .. MaxOps : User(k) \/ Works(k)
  \/ Keys
  \/ CloneHost
  \/ Crash

Spec == Init /\ [][Next]_vars

(* The disk answers, one way or the other, and the event loop takes every  *)
(* message.                                                                *)
Fairness == \A k \in 1 .. MaxOps : WF_vars(Works(k))
FairSpec == Spec /\ Fairness

-----------------------------------------------------------------------------
(* A file is never replaced or deleted unless the user has answered for    *)
(* its name, and what takes its place is a whole file, whatever failed and *)
(* whenever the process died: handleSaveKey, handleDeleteKey, Create, Save. *)
NothingReplacedUnasked ==
  [][/\ \A n \in DOMAIN disk :
          (n \in DOMAIN disk' /\ disk'[n] = disk[n]) \/ \E k \in agreed : ops[k].name = n
     /\ \A n \in DOMAIN disk' : disk'[n].whole]_vars

(* Within a run, opening a group and connecting hosts dial what does not   *)
(* run under its own name yet: only a clone, or a group that lists a host  *)
(* twice, gives a host another session, however the commands of several    *)
(* requests finish (applyGroup: "hosts already in the run are reused,      *)
(* never dialled twice").                                                  *)
ListsTwice(patterns, alias) ==
  Cardinality({i \in DOMAIN Hosts(patterns) : Hosts(patterns)[i] = alias}) > 1
NewIds == Ids(fleet') \ Ids(fleet)
OpeningDialsOnce ==
  [][CloneHost \/ Crash \/
       \A id \in NewIds :
         \/ id.alias \notin Running(fleet) /\ id.n = 1
         \/ \E k \in 1 .. MaxOps :
              /\ ops[k].op = "open" /\ ops'[k] # ops[k]
              /\ id.alias \notin Running(fleet) /\ ListsTwice(ops[k].patterns, id.alias)]_vars

(* A prompt that keeps the keyboard for its write gives it back, whether   *)
(* the write succeeded, failed or found the name taken.                    *)
SavingEnds == prompt.at \in {"saving", "creating"} ~> prompt.at \notin {"saving", "creating"}

(* "Saving the run writes patterns, so they must track every change": every *)
(* host that runs under its own name is in a pattern a save would write.    *)
PatternsTrackTheRun ==
  \A id \in Ids(fleet) : id.n = 1 => \E p \in ToSet(Patterns) : id.alias \in ToSet(Resolve[p])

(* What a save writes is the list of patterns as it was at some moment,    *)
(* never a mixture: the list holds no pattern twice, if the command line   *)
(* did not.                                                                *)
SavesAreNotTorn ==
  \A k \in 1 .. MaxOps :
    IsInjective(Given) /\ ops[k].op = "save" /\ ops[k].shared => IsInjective(ops[k].got)

(* When nothing is under way the rows say what is on disk (applyRemoved).  *)
RowsAreTheDirectory == (\A k \in 1 .. MaxOps : Free(k)) => rows = DOMAIN disk
=============================================================================
