---------------------------- MODULE GroupsProofs ----------------------------
(***************************************************************************)
(* The group directory loses nothing the user was not asked about, and     *)
(* opening groups and connecting hosts dials nothing twice: for any        *)
(* patterns, names and files, any number of commands beside the event loop *)
(* and a disk and a process that fail at any step.                         *)
(***************************************************************************)
EXTENDS Groups, FiniteSetTheorems, SequenceTheorems, WellFoundedInduction, TLAPS

Op == 1 .. MaxOps
Writing(k) == ops[k].op \in {"save", "new"}

(* The fields the argument reads.                                          *)
Shaped(cmd) ==
  /\ "op" \in DOMAIN cmd /\ "at" \in DOMAIN cmd
  /\ cmd.op \in {"save", "new", "delete"} => "name" \in DOMAIN cmd
  /\ cmd.op = "save" => "over" \in DOMAIN cmd

ShapeInv == DOMAIN ops = Op /\ \A k \in Op : Shaped(ops[k])

(* A prompt keeps the keyboard for its write, so there is one at a time.   *)
WriterInv ==
  /\ \A k \in Op : /\ ops[k].op = "save" => prompt.at = "saving"
                   /\ ops[k].op = "new" => prompt.at = "creating"
  /\ \A j, k \in Op : Writing(j) /\ Writing(k) => j = k

(* What overwrites or deletes has been agreed to; what has found its name  *)
(* free is alone with it.                                                  *)
Agreed(k, cmd) ==
  /\ cmd.op = "save" /\ cmd.over => k \in agreed
  /\ cmd.op \in {"save", "new"} /\ cmd.at \in {"write", "rename"} =>
       k \in agreed \/ cmd.name \notin DOMAIN disk
  /\ cmd.op = "delete" /\ cmd.at = "unlink" => k \in agreed

AgreedInv == \A k \in Op : Agreed(k, ops[k])

WholeInv == \A n \in DOMAIN disk : disk[n].whole

IInv == ShapeInv /\ WriterInv /\ AgreedInv /\ WholeInv

LEMMA Rests ==
  /\ Shaped(LoadRows) /\ LoadRows.op \notin {"save", "new", "delete"}
  /\ Shaped(Idle) /\ Idle.op \notin {"save", "new", "delete"}
  BY DEF LoadRows, Idle, Shaped

LEMMA StartIsSafe ==
  /\ DOMAIN FirstOps = Op
  /\ \A k \in Op : Shaped(FirstOps[k]) /\ FirstOps[k].op \notin {"save", "new", "delete"}
<1>1. DOMAIN FirstOps = Op /\ \A k \in Op : FirstOps[k] = LoadRows \/ FirstOps[k] = Idle
  BY DEF FirstOps, Op
<1> QED
  BY <1>1, Rests

LEMMA InitIInv == Init => IInv
<1>1. ASSUME Init PROVE WholeInv
  BY <1>1 DEF Init, WholeInv, Whole
<1>2. ASSUME Init PROVE ShapeInv /\ WriterInv /\ AgreedInv
  <2>1. ops = FirstOps
    BY <1>2 DEF Init
  <2> QED
    BY <2>1, StartIsSafe DEF ShapeInv, WriterInv, AgreedInv, Agreed, Writing
<1> QED
  BY <1>1, <1>2 DEF IInv

-----------------------------------------------------------------------------
(* One command begins or takes a step: what that has to keep to.           *)
Keeps(k) ==
  /\ Shaped(ops[k])'
  /\ ops'[k].op = "save" => prompt'.at = "saving"
  /\ ops'[k].op = "new" => prompt'.at = "creating"
  /\ ops'[k].op \in {"save", "new"} => \A j \in Op \ {k} : ~Writing(j)
  /\ \A j \in Op \ {k} : Writing(j) => prompt'.at = prompt.at /\ DOMAIN disk' \subseteq DOMAIN disk
  /\ \A j \in Op \ {k} : j \in agreed => j \in agreed'
  /\ Agreed(k, ops[k])'
  /\ WholeInv'

(* The others are as they were, but for the array a save has its patterns  *)
(* from.                                                                   *)
OthersStay(k) ==
  /\ DOMAIN ops' = Op
  /\ \A j \in Op \ {k} :
       \/ ops'[j] = ops[j]
       \/ /\ DOMAIN ops'[j] = DOMAIN ops[j]
          /\ \A f \in {"op", "at", "name", "over"} : ops'[j][f] = ops[j][f]

LEMMA StepKeepsIInv ==
  ASSUME IInv, NEW k \in Op, OthersStay(k), Keeps(k)
  PROVE  IInv'
<1>1. \A j \in Op \ {k} : /\ DOMAIN ops'[j] = DOMAIN ops[j]
                          /\ ops'[j].op = ops[j].op /\ ops'[j].at = ops[j].at
                          /\ ops'[j].name = ops[j].name /\ ops'[j].over = ops[j].over
  BY DEF OthersStay
<1>2. ShapeInv'
  BY <1>1 DEF IInv, ShapeInv, Shaped, Keeps, OthersStay
<1>3. WriterInv'
  BY <1>1 DEF IInv, WriterInv, Writing, Keeps
<1>4. AgreedInv'
  BY <1>1 DEF IInv, AgreedInv, Agreed, Writing, Keeps
<1> QED
  BY <1>2, <1>3, <1>4 DEF IInv, Keeps

LEMMA OneChanges ==
  ASSUME ShapeInv, NEW k \in Op, NEW cmd, Sets(k, cmd)
  PROVE  OthersStay(k) /\ ops'[k] = cmd
  BY DEF ShapeInv, Sets, OthersStay

LEMMA OneGoes ==
  ASSUME ShapeInv, NEW k \in Op, NEW at, Goes(k, at)
  PROVE  /\ OthersStay(k) /\ DOMAIN ops'[k] = DOMAIN ops[k]
         /\ ops'[k].op = ops[k].op /\ ops'[k].at = at
         /\ ops'[k].name = ops[k].name /\ ops'[k].over = ops[k].over
  BY DEF ShapeInv, Shaped, Goes, OthersStay

-----------------------------------------------------------------------------
(* The fields of a write that begins.                                      *)
LEMMA SaveFields ==
  ASSUME ShapeInv, NEW k \in Op, NEW name, NEW over \in BOOLEAN, CommitSave(k, name, over)
  PROVE  /\ OthersStay(k)
         /\ ops'[k].op = "save" /\ ops'[k].at = "read" /\ (ops'[k].over <=> over)
         /\ DOMAIN ops'[k] = {"op", "at", "name", "over", "shared", "source", "got", "err"}
<1> DEFINE cmd(shared, source) ==
             [op |-> "save", at |-> "read", name |-> name, over |-> over,
              shared |-> shared, source |-> source, got |-> <<>>, err |-> ""]
<1>1. PICK shared, source : Sets(k, cmd(shared, source))
  BY Zenon DEF CommitSave
<1>2. /\ cmd(shared, source).op = "save" /\ cmd(shared, source).at = "read"
      /\ (cmd(shared, source).over <=> over)
      /\ DOMAIN cmd(shared, source) = {"op", "at", "name", "over", "shared", "source", "got", "err"}
  OBVIOUS
<1> HIDE DEF cmd
<1>3. OthersStay(k) /\ ops'[k] = cmd(shared, source)
  BY <1>1, OneChanges
<1> QED
  BY <1>2, <1>3

LEMMA NewFields ==
  ASSUME NEW cmd, NEW name, NEW patterns,
         cmd = [op |-> "new", at |-> "check", name |-> name, over |-> FALSE,
                got |-> patterns, err |-> ""]
  PROVE  /\ cmd.op = "new" /\ cmd.at = "check"
         /\ DOMAIN cmd = {"op", "at", "name", "over", "got", "err"}
  OBVIOUS

(* What the user asks for: a write begins while no other is under way.     *)
LEMMA RequestsKeepIInv ==
  ASSUME IInv, NEW k \in Op, Request(k)
  PROVE  IInv'
<1> USE DEF IInv
<1>1. CASE SubmitSave(k) \/ AgreeToReplace(k)
  <2>1. \E name : \E over \in BOOLEAN : CommitSave(k, name, over) /\ (over => k \in agreed')
    <3>1. CASE SubmitSave(k)
      <4>1. PICK name : CommitSave(k, name, FALSE)
        BY <3>1, Zenon DEF SubmitSave
      <4> WITNESS name
      <4> WITNESS FALSE \in BOOLEAN
      <4> QED
        BY <4>1
    <3>2. CASE AgreeToReplace(k)
      <4>1. CommitSave(k, prompt.name, TRUE) /\ agreed' = agreed \cup {k}
        BY <3>2, Zenon DEF AgreeToReplace
      <4>2. k \in agreed'
        BY <4>1
      <4> WITNESS prompt.name
      <4> WITNESS TRUE \in BOOLEAN
      <4> QED
        BY <4>1, <4>2
    <3> QED
      BY <1>1, <3>1, <3>2
  <2>9. PICK name : \E over \in BOOLEAN : CommitSave(k, name, over) /\ (over => k \in agreed')
    BY <2>1, Zenon
  <2>10. PICK over \in BOOLEAN : CommitSave(k, name, over) /\ (over => k \in agreed')
    BY <2>9, Zenon
  <2>11. prompt' = [at |-> "saving", name |-> name]
    BY <2>10, Zenon DEF CommitSave, Asks
  <2>12. (prompt.at = "save" \/ prompt.at = "replace") /\ UNCHANGED disk
    BY <1>1, Zenon DEF SubmitSave, AgreeToReplace
  <2>13. agreed' = agreed \/ agreed' = agreed \cup {k}
    BY <1>1, Zenon DEF SubmitSave, AgreeToReplace
  <2>2. /\ prompt.at \notin {"saving", "creating"} /\ prompt'.at = "saving"
        /\ agreed \subseteq agreed' /\ UNCHANGED disk
    BY <2>11, <2>12, <2>13
  <2>4. /\ OthersStay(k)
        /\ ops'[k].op = "save" /\ ops'[k].at = "read" /\ (ops'[k].over <=> over)
        /\ DOMAIN ops'[k] = {"op", "at", "name", "over", "shared", "source", "got", "err"}
    BY <2>10, SaveFields
  <2>7. Shaped(ops[k])'
    BY <2>4 DEF Shaped
  <2>8. Agreed(k, ops[k])'
    BY <2>10, <2>4 DEF Agreed
  <2>5. \A j \in Op : ~Writing(j)
    BY <2>2 DEF WriterInv, Writing
  <2>6. Keeps(k)
    BY <2>2, <2>4, <2>5, <2>7, <2>8 DEF Keeps, WholeInv
  <2> QED
    BY <2>4, <2>6, StepKeepsIInv
<1>2. CASE SubmitHosts(k)
  <2>1. PICK patterns : Sets(k, [op |-> "new", at |-> "check", name |-> prompt.name, over |-> FALSE,
                                 got |-> patterns, err |-> ""])
    BY <1>2 DEF SubmitHosts
  <2>2. /\ OthersStay(k)
        /\ ops'[k] = [op |-> "new", at |-> "check", name |-> prompt.name, over |-> FALSE,
                      got |-> patterns, err |-> ""]
    BY <2>1, OneChanges
  <2>3. /\ ops'[k].op = "new" /\ ops'[k].at = "check"
        /\ DOMAIN ops'[k] = {"op", "at", "name", "over", "got", "err"}
    BY <2>2, NewFields, Zenon
  <2>7. Shaped(ops[k])'
    BY <2>3 DEF Shaped
  <2>8. Agreed(k, ops[k])'
    BY <2>3 DEF Agreed
  <2>4. prompt.at = "hosts" /\ prompt'.at = "creating" /\ UNCHANGED <<disk, agreed>>
    BY <1>2 DEF SubmitHosts, Asks
  <2>5. \A j \in Op : ~Writing(j)
    BY <2>4 DEF WriterInv, Writing
  <2>6. Keeps(k)
    BY <2>2, <2>3, <2>4, <2>5, <2>7, <2>8 DEF Keeps, WholeInv
  <2> QED
    BY <2>2, <2>6, StepKeepsIInv
<1>3. CASE AgreeToDelete(k)
  <2>1. OthersStay(k) /\ ops'[k] = [op |-> "delete", at |-> "unlink", name |-> prompt.name]
    BY <1>3, OneChanges DEF AgreeToDelete
  <2>2. prompt.at = "delete" /\ agreed' = agreed \cup {k} /\ UNCHANGED disk
    BY <1>3 DEF AgreeToDelete
  <2>3. Shaped(ops[k])' /\ Agreed(k, ops[k])'
    BY <2>1, <2>2 DEF Shaped, Agreed
  <2>4. \A j \in Op : ~Writing(j)
    BY <2>2 DEF WriterInv, Writing
  <2>5. Keeps(k)
    BY <2>1, <2>2, <2>3, <2>4 DEF Keeps, WholeInv
  <2> QED
    BY <2>1, <2>5, StepKeepsIInv
<1>4. CASE OpenGroup(k) \/ ConnectHosts(k) \/ RemoveHost(k)
  <2>1. PICK cmd : /\ Sets(k, cmd)
                   /\ "op" \in DOMAIN cmd /\ "at" \in DOMAIN cmd
                   /\ cmd.op \notin {"save", "new", "delete"}
    <3>1. CASE OpenGroup(k)
      BY <3>1 DEF OpenGroup
    <3>2. CASE ConnectHosts(k)
      BY <3>2 DEF ConnectHosts
    <3>3. CASE RemoveHost(k)
      BY <3>3 DEF RemoveHost
    <3> QED
      BY <1>4, <3>1, <3>2, <3>3
  <2>2. UNCHANGED <<prompt, disk, agreed>>
    BY <1>4 DEF OpenGroup, ConnectHosts, RemoveHost
  <2>3. OthersStay(k) /\ ops'[k] = cmd
    BY <2>1, OneChanges
  <2>4. Keeps(k)
    BY <2>1, <2>2, <2>3 DEF Keeps, Shaped, Agreed, WholeInv
  <2> QED
    BY <2>3, <2>4, StepKeepsIInv
<1> QED
  BY <1>1, <1>2, <1>3, <1>4 DEF Request

(* A command that has ended keeps the fields of its request.               *)
Ended(old, cmd) ==
  /\ DOMAIN cmd = DOMAIN old
  /\ cmd.op = old.op /\ cmd.at = "done"
  /\ old.op = "save" => cmd.over = old.over

LEMMA EndedFields ==
  ASSUME NEW old, NEW v, Shaped(old)
  PROVE  /\ Ended(old, [old EXCEPT !.at = "done", !.err = v])
         /\ Ended(old, [old EXCEPT !.at = "done", !.rows = v])
         /\ Ended(old, [old EXCEPT !.at = "done", !.patterns = v])
  BY DEF Shaped, Ended

(* What runs beside the event loop: only the rename puts a file there, and *)
(* it is the only writer.                                                  *)
LEMMA CommandsKeepIInv ==
  ASSUME IInv, NEW k \in Op, Command(k)
  PROVE  IInv'
<1> USE DEF IInv
<1>1. UNCHANGED <<prompt, agreed>>
  BY DEF Command, SaveReads, CreateChecks, SaveWrites, SaveRenames, DeleteUnlinks, LoadLists,
         OpenLoads, RemoveLeaves
<1>2. Shaped(ops[k]) /\ Agreed(k, ops[k])
  BY DEF ShapeInv, AgreedInv
<1>3. \A cmd : Sets(k, cmd) => OthersStay(k) /\ ops'[k] = cmd
  BY OneChanges
<1>4. \A at : Goes(k, at) => /\ OthersStay(k) /\ DOMAIN ops'[k] = DOMAIN ops[k]
                             /\ ops'[k].op = ops[k].op /\ ops'[k].at = at
                             /\ ops'[k].name = ops[k].name /\ ops'[k].over = ops[k].over
  BY OneGoes
<1>5. ASSUME DOMAIN ops'[k] = DOMAIN ops[k], ops'[k].op = ops[k].op, ops'[k].name = ops[k].name,
             ops'[k].over = ops[k].over
      PROVE  /\ Shaped(ops[k])' /\ (ops'[k].op = "save" => prompt'.at = "saving")
             /\ (ops'[k].op = "new" => prompt'.at = "creating")
             /\ (ops'[k].op \in {"save", "new"} => \A j \in Op \ {k} : ~Writing(j))
  BY <1>1, <1>2, <1>5 DEF Shaped, WriterInv, Writing
<1>6. ASSUME OthersStay(k), Shaped(ops[k])', Agreed(k, ops[k])', UNCHANGED disk,
             ops'[k].op \in {"save", "new"} => ops[k].op = ops'[k].op
      PROVE  IInv'
  <2>1. /\ ops'[k].op = "save" => prompt'.at = "saving"
        /\ ops'[k].op = "new" => prompt'.at = "creating"
        /\ ops'[k].op \in {"save", "new"} => \A j \in Op \ {k} : ~Writing(j)
    BY <1>1, <1>6 DEF WriterInv, Writing
  <2>2. Keeps(k)
    BY <1>1, <1>6, <2>1 DEF Keeps, WholeInv
  <2> QED
    BY <1>6, <2>2, StepKeepsIInv
<1>9. ASSUME ops[k].op \in {"save", "new"}, UNCHANGED disk, NEW err,
             Sets(k, [ops[k] EXCEPT !.at = "done", !.err = err])
      PROVE  IInv'
  <2>3. OthersStay(k) /\ ops'[k] = [ops[k] EXCEPT !.at = "done", !.err = err]
    BY <1>3, <1>9
  <2>1. /\ OthersStay(k) /\ DOMAIN ops'[k] = DOMAIN ops[k]
        /\ ops'[k].op = ops[k].op /\ ops'[k].at = "done"
        /\ ops[k].op = "save" => ops'[k].over = ops[k].over
    <3>2. Ended(ops[k], [ops[k] EXCEPT !.at = "done", !.err = err])
      BY <1>2, EndedFields
    <3>1. Ended(ops[k], ops'[k])
      BY <2>3, <3>2
    <3> QED
      BY <2>3, <3>1 DEF Ended
  <2>2. Shaped(ops[k])' /\ Agreed(k, ops[k])'
    BY <1>1, <1>2, <1>9, <2>1 DEF Shaped, Agreed
  <2> QED
    BY <1>6, <1>9, <2>1, <2>2
<1>7. CASE SaveReads(k)
  <2>1. ops[k].op = "save" /\ ops[k].at = "read" /\ UNCHANGED disk
    BY <1>7 DEF SaveReads
  <2>2. CASE Goes(k, IF ops[k].over THEN "write" ELSE "check")
    <3>1. /\ OthersStay(k) /\ DOMAIN ops'[k] = DOMAIN ops[k]
          /\ ops'[k].op = "save" /\ ops'[k].at = (IF ops[k].over THEN "write" ELSE "check")
          /\ ops'[k].name = ops[k].name /\ ops'[k].over = ops[k].over
      BY <1>4, <2>1, <2>2
    <3>2. Shaped(ops[k])'
      BY <1>2, <2>1, <3>1 DEF Shaped
    <3>3. Agreed(k, ops[k])'
      BY <1>1, <1>2, <2>1, <3>1 DEF Agreed
    <3> QED
      BY <1>6, <2>1, <3>1, <3>2, <3>3
  <2>3. CASE ~Goes(k, IF ops[k].over THEN "write" ELSE "check")
    <3>1. PICK v : Sets(k, [ops[k] EXCEPT !.got = v])
      BY <1>7, <2>3, Zenon DEF SaveReads
    <3>2. /\ OthersStay(k) /\ DOMAIN ops'[k] = DOMAIN ops[k]
          /\ ops'[k].op = "save" /\ ops'[k].at = "read"
          /\ ops'[k].name = ops[k].name /\ ops'[k].over = ops[k].over
      BY <1>2, <1>3, <2>1, <3>1 DEF Shaped
    <3>3. Shaped(ops[k])' /\ Agreed(k, ops[k])'
      BY <1>1, <1>2, <2>1, <3>2 DEF Shaped, Agreed
    <3> QED
      BY <1>6, <2>1, <3>2, <3>3
  <2> QED
    BY <2>2, <2>3
<1>8. CASE CreateChecks(k)
  <2>1. ops[k].op \in {"save", "new"} /\ ops[k].at = "check" /\ UNCHANGED disk
    BY <1>8 DEF CreateChecks
  <2>2. CASE ops[k].name \in DOMAIN disk
    <3>1. Sets(k, [ops[k] EXCEPT !.at = "done", !.err = "exists"])
      BY <1>8, <2>2 DEF CreateChecks
    <3> QED
      BY <1>1, <1>2, <1>3, <1>9, <2>1, <3>1
  <2>3. CASE ops[k].name \notin DOMAIN disk
    <3>1. Goes(k, "write")
      BY <1>8, <2>3 DEF CreateChecks
    <3>2. Agreed(k, ops[k])'
      BY <1>1, <1>2, <1>4, <2>1, <2>3, <3>1 DEF Agreed
    <3>3. OthersStay(k) /\ Shaped(ops[k])' /\ ops'[k].op = ops[k].op
      BY <1>4, <1>5, <3>1
    <3> QED
      BY <1>6, <2>1, <3>2, <3>3
  <2> QED
    BY <2>2, <2>3
<1>10. CASE SaveWrites(k)
  <2>1. ops[k].op \in {"save", "new"} /\ ops[k].at = "write" /\ UNCHANGED disk
    BY <1>10 DEF SaveWrites
  <2>2. CASE Goes(k, "rename")
    <3>1. Agreed(k, ops[k])'
      BY <1>1, <1>2, <1>4, <2>1, <2>2 DEF Agreed
    <3>2. OthersStay(k) /\ Shaped(ops[k])' /\ ops'[k].op = ops[k].op
      BY <1>4, <1>5, <2>2
    <3> QED
      BY <1>6, <2>1, <3>1, <3>2
  <2>3. CASE Sets(k, [ops[k] EXCEPT !.at = "done", !.err = "disk"])
    BY <1>9, <2>1, <2>3
  <2> QED
    BY <1>10, <2>2, <2>3 DEF SaveWrites
<1>11. CASE SaveRenames(k)
  <2>1. ops[k].op \in {"save", "new"} /\ ops[k].at = "rename"
    BY <1>11 DEF SaveRenames
  <2>2. CASE Goes(k, "done") /\ disk' = Put(ops[k].name, Whole(ops[k].got))
    <3>1. WholeInv'
      BY <2>2 DEF WholeInv, Put, Whole
    <3>2. Agreed(k, ops[k])'
      BY <1>1, <1>2, <1>4, <2>1, <2>2 DEF Agreed
    <3>3. \A j \in Op \ {k} : ~Writing(j)
      BY <2>1 DEF WriterInv, Writing
    <3>4. /\ OthersStay(k) /\ Shaped(ops[k])'
          /\ ops'[k].op = "save" => prompt'.at = "saving"
          /\ ops'[k].op = "new" => prompt'.at = "creating"
      BY <1>4, <1>5, <2>2
    <3>5. Keeps(k)
      BY <1>1, <3>1, <3>2, <3>3, <3>4 DEF Keeps
    <3> QED
      BY <3>4, <3>5, StepKeepsIInv
  <2>3. CASE Sets(k, [ops[k] EXCEPT !.at = "done", !.err = "disk"]) /\ UNCHANGED disk
    BY <1>9, <2>1, <2>3
  <2> QED
    BY <1>11, <2>2, <2>3 DEF SaveRenames
<1>12. CASE DeleteUnlinks(k)
  <2>1. /\ ops[k].op = "delete" /\ Goes(k, "done")
        /\ disk' = Restrict(disk, DOMAIN disk \ {ops[k].name}) \/ UNCHANGED disk
    BY <1>12 DEF DeleteUnlinks
  <2>2. DOMAIN disk' \subseteq DOMAIN disk /\ \A n \in DOMAIN disk' : disk'[n] = disk[n]
    BY <2>1 DEF Restrict
  <2>3. WholeInv'
    BY <2>2 DEF WholeInv
  <2>4. Shaped(ops[k])' /\ OthersStay(k) /\ ops'[k].op = "delete" /\ ops'[k].at = "done"
    BY <1>4, <1>5, <2>1
  <2>5. Agreed(k, ops[k])'
    BY <2>4 DEF Agreed
  <2>6. Keeps(k)
    BY <1>1, <2>2, <2>3, <2>4, <2>5 DEF Keeps
  <2> QED
    BY <2>4, <2>6, StepKeepsIInv
<1>13. CASE LoadLists(k) \/ OpenLoads(k) \/ RemoveLeaves(k)
  <2>1. ops[k].op \in {"load", "open", "remove"} /\ UNCHANGED disk
    BY <1>13 DEF LoadLists, OpenLoads, RemoveLeaves
  <2>2. OthersStay(k) /\ DOMAIN ops'[k] = DOMAIN ops[k] /\ ops'[k].op = ops[k].op
    <3>1. CASE \E at : Goes(k, at)
      BY <1>4, <3>1
    <3>2. CASE \E v : Sets(k, [ops[k] EXCEPT !.at = "done", !.rows = v])
      <4>1. PICK v : Sets(k, [ops[k] EXCEPT !.at = "done", !.rows = v])
        BY <3>2
      <4>2. OthersStay(k) /\ ops'[k] = [ops[k] EXCEPT !.at = "done", !.rows = v]
        BY <1>3, <4>1
      <4>4. Ended(ops[k], [ops[k] EXCEPT !.at = "done", !.rows = v])
        BY <1>2, EndedFields
      <4>3. Ended(ops[k], ops'[k])
        BY <4>2, <4>4
      <4> QED
        BY <4>2, <4>3 DEF Ended
    <3>3. CASE \E v : Sets(k, [ops[k] EXCEPT !.at = "done", !.patterns = v])
      <4>1. PICK v : Sets(k, [ops[k] EXCEPT !.at = "done", !.patterns = v])
        BY <3>3
      <4>2. OthersStay(k) /\ ops'[k] = [ops[k] EXCEPT !.at = "done", !.patterns = v]
        BY <1>3, <4>1
      <4>4. Ended(ops[k], [ops[k] EXCEPT !.at = "done", !.patterns = v])
        BY <1>2, EndedFields
      <4>3. Ended(ops[k], ops'[k])
        BY <4>2, <4>4
      <4> QED
        BY <4>2, <4>3 DEF Ended
    <3> QED
      BY <1>13, <3>1, <3>2, <3>3 DEF LoadLists, OpenLoads, RemoveLeaves
  <2>3. Shaped(ops[k])' /\ Agreed(k, ops[k])'
    BY <1>2, <2>1, <2>2 DEF Shaped, Agreed
  <2> QED
    BY <1>6, <2>1, <2>2, <2>3
<1> QED
  BY <1>7, <1>8, <1>10, <1>11, <1>12, <1>13 DEF Command

-----------------------------------------------------------------------------
(* A message that lands leaves a command that writes nothing.              *)
LEMMA LandsKeepIInv ==
  ASSUME IInv, NEW k \in Op, Lands(k)
  PROVE  IInv'
<1> USE DEF IInv
<1>1. UNCHANGED disk
  BY DEF Lands, SaveResult, GroupSaved, GroupRemoved, GroupsLoaded, ApplyGroup, ApplyConnect,
         Grows, HostRemoved
<1>2. \/ UNCHANGED prompt
      \/ ops[k].op \in {"save", "new"}
  BY DEF Lands, SaveResult, GroupSaved, GroupRemoved, GroupsLoaded, ApplyGroup, ApplyConnect,
         Grows, HostRemoved
<1>3. agreed' = agreed \/ agreed' = agreed \ {k}
  BY DEF Lands, SaveResult, GroupSaved, GroupRemoved, GroupsLoaded, ApplyGroup, ApplyConnect,
         Grows, HostRemoved
<1>4. OthersStay(k) /\ ops'[k] \in {LoadRows, Idle}
  <2>1. CASE \E cmd \in {LoadRows, Idle} : Sets(k, cmd)
    BY <2>1, OneChanges
  <2>2. ASSUME NEW patterns, NEW grown, Grows(k, patterns, grown)
        PROVE  OthersStay(k) /\ ops'[k] = Idle
    <3>1. PICK new : ops' = [j \in DOMAIN ops |-> IF j = k THEN Idle ELSE KeepsArray(ops[j], new)]
      BY <2>2, Zenon DEF Grows
    <3>2. \A j \in Op \ {k} : \/ ops'[j] = ops[j]
                              \/ \E v : ops'[j] = [ops[j] EXCEPT !.shared = FALSE, !.source = v]
      BY <3>1 DEF KeepsArray, ShapeInv
    <3>3. DOMAIN ops' = Op /\ ops'[k] = Idle
      BY <3>1 DEF ShapeInv
    <3>4. ASSUME NEW j \in Op \ {k}
          PROVE  \/ ops'[j] = ops[j]
                 \/ /\ DOMAIN ops'[j] = DOMAIN ops[j]
                    /\ \A f \in {"op", "at", "name", "over"} : ops'[j][f] = ops[j][f]
      <4>1. CASE \E v : ops'[j] = [ops[j] EXCEPT !.shared = FALSE, !.source = v]
        <5>1. PICK v : ops'[j] = [ops[j] EXCEPT !.shared = FALSE, !.source = v]
          BY <4>1
        <5>2. LET cmd == [ops[j] EXCEPT !.shared = FALSE, !.source = v]
              IN /\ DOMAIN cmd = DOMAIN ops[j]
                 /\ \A f \in {"op", "at", "name", "over"} : cmd[f] = ops[j][f]
          OBVIOUS
        <5> QED
          BY <5>1, <5>2
      <4> QED
        BY <3>2, <4>1
    <3> QED
      BY <3>3, <3>4 DEF OthersStay
  <2> QED
    BY <2>1, <2>2, Zenon
    DEF Lands, SaveResult, GroupSaved, GroupRemoved, GroupsLoaded, ApplyGroup, ApplyConnect,
        HostRemoved
<1>5. Shaped(ops[k])' /\ ops'[k].op \notin {"save", "new", "delete"}
  BY <1>4, Rests
<1>6. \A j \in Op \ {k} : Writing(j) => UNCHANGED prompt
  BY <1>2 DEF WriterInv, Writing
<1>7. Agreed(k, ops[k])'
  BY <1>5 DEF Agreed
<1>8. Keeps(k)
  BY <1>1, <1>3, <1>5, <1>6, <1>7 DEF Keeps, WholeInv
<1> QED
  BY <1>4, <1>8, StepKeepsIInv

(* No step but these touches a command, and none touches the directory.    *)
LEMMA NextKeepsIInv == IInv /\ [Next]_vars => IInv'
<1> SUFFICES ASSUME IInv, [Next]_vars PROVE IInv'
  OBVIOUS
<1>1. CASE \E k \in 1 .. MaxOps : User(k) \/ Works(k)
  BY <1>1, RequestsKeepIInv, CommandsKeepIInv, LandsKeepIInv DEF User, Works, Op
<1>2. CASE Keys
  <2>1. UNCHANGED <<ops, disk, agreed>>
    BY <1>2 DEF Keys, BeginSave, BeginNew, SubmitName, BeginDelete, Cancel
  <2>4. prompt = Closed \/ prompt.at \in {"name", "save", "hosts", "replace", "delete"}
    BY <1>2 DEF Keys, BeginSave, BeginNew, SubmitName, BeginDelete, Cancel
  <2>5. Closed.at = "closed"
    BY DEF Closed
  <2>2. prompt.at \notin {"saving", "creating"}
    BY <2>4, <2>5
  <2>3. WriterInv'
    BY <2>1, <2>2 DEF IInv, WriterInv, Writing
  <2> QED
    BY <2>1, <2>3 DEF IInv, ShapeInv, AgreedInv, Agreed, WholeInv
<1>3. CASE CloneHost \/ UNCHANGED vars
  BY <1>3 DEF CloneHost, vars, IInv, ShapeInv, WriterInv, Writing, AgreedInv, Agreed, WholeInv
<1>4. CASE Crash
  <2>1. ops' = FirstOps /\ UNCHANGED disk
    BY <1>4 DEF Crash
  <2>2. (ShapeInv /\ WriterInv /\ AgreedInv)'
    BY <2>1, StartIsSafe DEF ShapeInv, WriterInv, AgreedInv, Agreed, Writing
  <2> QED
    BY <2>1, <2>2 DEF IInv, WholeInv
<1> QED
  BY <1>1, <1>2, <1>3, <1>4 DEF Next

(* What a step may do to a file.                                           *)
Answered ==
  /\ \A n \in DOMAIN disk :
       (n \in DOMAIN disk' /\ disk'[n] = disk[n]) \/ \E k \in agreed : ops[k].name = n
  /\ \A n \in DOMAIN disk' : disk'[n].whole

LEMMA StepIsAnswered == IInv /\ IInv' /\ [Next]_vars => Answered
<1> SUFFICES ASSUME IInv, IInv', [Next]_vars PROVE Answered
  OBVIOUS
<1>1. \A n \in DOMAIN disk' : disk'[n].whole
  BY DEF IInv, WholeInv
<1>2. ASSUME NEW k \in Op, SaveRenames(k), ~UNCHANGED disk PROVE Answered
  <2>1. disk' = Put(ops[k].name, Whole(ops[k].got))
    BY <1>2 DEF SaveRenames
  <2>2. k \in agreed \/ ops[k].name \notin DOMAIN disk
    BY <1>2 DEF SaveRenames, IInv, AgreedInv, Agreed
  <2> QED
    BY <1>1, <2>1, <2>2 DEF Answered, Put
<1>3. ASSUME NEW k \in Op, DeleteUnlinks(k) PROVE Answered
  <2>1. disk' = Restrict(disk, DOMAIN disk \ {ops[k].name}) \/ UNCHANGED disk
    BY <1>3 DEF DeleteUnlinks
  <2>2. k \in agreed
    BY <1>3 DEF DeleteUnlinks, IInv, AgreedInv, Agreed
  <2> QED
    BY <1>1, <2>1, <2>2 DEF Answered, Restrict
<1>4. CASE UNCHANGED disk
  BY <1>1, <1>4 DEF Answered
<1>5. UNCHANGED disk \/ \E k \in Op : SaveRenames(k) \/ DeleteUnlinks(k)
  <2>1. ASSUME NEW k \in Op, Request(k) \/ Lands(k) PROVE UNCHANGED disk
    BY <2>1 DEF Request, SubmitSave, AgreeToReplace, SubmitHosts, AgreeToDelete, OpenGroup,
                ConnectHosts, RemoveHost, Lands, SaveResult, GroupSaved, GroupRemoved,
                GroupsLoaded, ApplyGroup, ApplyConnect, Grows, HostRemoved
  <2>2. ASSUME NEW k \in Op, Command(k)
        PROVE  UNCHANGED disk \/ SaveRenames(k) \/ DeleteUnlinks(k)
    BY <2>2 DEF Command, SaveReads, CreateChecks, SaveWrites, LoadLists, OpenLoads, RemoveLeaves
  <2>3. CASE Keys \/ CloneHost \/ Crash \/ UNCHANGED vars
    BY <2>3 DEF Keys, BeginSave, BeginNew, SubmitName, BeginDelete, Cancel, CloneHost, Crash, vars
  <2> QED
    BY <2>1, <2>2, <2>3 DEF Next, User, Works, Op
<1> QED
  BY <1>2, <1>3, <1>4, <1>5

(* A saved group is replaced or deleted only by a command the user has     *)
(* answered for, and what takes its place is a whole file.                 *)
THEOREM FilesAreTheUsers == Spec => NothingReplacedUnasked
<1>1. IInv /\ IInv' /\ [Next]_vars =>
        [/\ \A n \in DOMAIN disk :
              (n \in DOMAIN disk' /\ disk'[n] = disk[n]) \/ \E k \in agreed : ops[k].name = n
         /\ \A n \in DOMAIN disk' : disk'[n].whole]_vars
  BY StepIsAnswered DEF Answered
<1> QED
  BY <1>1, InitIInv, NextKeepsIInv, PTL DEF Spec, NothingReplacedUnasked

-----------------------------------------------------------------------------
LEMMA LeastNat ==
  ASSUME NEW T, T \subseteq Nat, T # {}
  PROVE  \E x \in T : \A y \in T : x <= y
<1> DEFINE R == OpToRel(<, Nat)
<1>1. IsWellFoundedOn(R, Nat)
  BY NatLessThanWellFounded
<1>2. \A x, y \in Nat : <<y, x>> \in R <=> y < x
  BY DEF OpToRel
<1> HIDE DEF R
<1>3. PICK x \in T : \A y \in T : ~ (<<y, x>> \in R)
  BY <1>1, WFMin
<1>4. \A y \in T : x <= y
  <2> TAKE y \in T
  <2>1. x \in Nat /\ y \in Nat
    BY <1>3
  <2>2. ~ (y < x)
    BY <1>2, <1>3, <2>1
  <2> QED
    BY <2>1, <2>2
<1> QED
  BY <1>4

(* What holds at the first place and passes from one to the next.          *)
LEMMA CountsUp ==
  ASSUME NEW n \in Nat, NEW G, 0 \in G, \A i \in 1 .. n : i - 1 \in G => i \in G
  PROVE  \A i \in 0 .. n : i \in G
<1> DEFINE T == {i \in 0 .. n : i \notin G}
<1> SUFFICES ASSUME T # {} PROVE FALSE
  OBVIOUS
<1>1. T \subseteq Nat
  OBVIOUS
<1>2. PICK x \in T : \A y \in T : x <= y
  <2> HIDE DEF T
  <2> QED
    BY <1>1, LeastNat
<1>3. x \in 1 .. n /\ x \notin G
  BY <1>2
<1>4. x - 1 \in 0 .. n /\ ~(x <= x - 1)
  BY <1>3
<1>5. x - 1 \in G
  BY <1>2, <1>4
<1> QED
  BY <1>3, <1>5

(* A loop over a list can be run to its end.                               *)
Loops(r, b, n, step) == r[0] = b /\ \A i \in 1 .. n : r[i] = step[i][r[i - 1]]

LEMMA LoopRuns ==
  ASSUME NEW S, NEW b \in S, NEW n \in Nat, NEW step \in [1 .. n -> [S -> S]]
  PROVE  \E r \in [0 .. n -> S] : Loops(r, b, n, step)
<1> DEFINE Runs(m, r) == Loops(r, b, m, step)
           G == {m \in 0 .. n : \E r \in [0 .. m -> S] : Runs(m, r)}
<1>1. 0 \in G
  <2> DEFINE r == [i \in 0 .. 0 |-> b]
  <2>1. r \in [0 .. 0 -> S] /\ r[0] = b
    OBVIOUS
  <2> HIDE DEF r
  <2>2. Runs(0, r) /\ 0 \in 0 .. n
    BY <2>1 DEF Loops
  <2> HIDE DEF Runs
  <2> QED
    BY <2>1, <2>2
<1>2. ASSUME NEW m \in 1 .. n, m - 1 \in G PROVE m \in G
  <2>1. PICK r \in [0 .. m - 1 -> S] : Runs(m - 1, r)
    BY <1>2
  <2> DEFINE next == step[m][r[m - 1]]
             s == [i \in 0 .. m |-> IF i = m THEN next ELSE r[i]]
  <2>2. m - 1 \in 0 .. m - 1 /\ next \in S
    BY <2>1
  <2> HIDE DEF next
  <2>3. s \in [0 .. m -> S] /\ s[m] = next /\ \A i \in 0 .. m - 1 : s[i] = r[i]
    BY <2>1, <2>2
  <2> HIDE DEF s
  <2>4. ASSUME NEW i \in 1 .. m PROVE s[i] = step[i][s[i - 1]]
    <3>1. i - 1 \in 0 .. m - 1 /\ s[i - 1] = r[i - 1]
      BY <2>3
    <3>2. CASE i = m
      BY <2>3, <3>1, <3>2 DEF next
    <3>3. CASE i # m
      <4>1. i \in 1 .. m - 1 /\ i \in 0 .. m - 1
        BY <3>3
      <4> QED
        BY <2>1, <2>3, <3>1, <4>1 DEF Loops
    <3> QED
      BY <3>2, <3>3
  <2>5. s[0] = b
    BY <2>1, <2>3 DEF Loops
  <2>6. Runs(m, s) /\ m \in 0 .. n
    BY <2>4, <2>5 DEF Loops
  <2> HIDE DEF Runs
  <2> QED
    BY <2>3, <2>6
<1> HIDE DEF G
<1>3. \A i \in 1 .. n : i - 1 \in G => i \in G
  BY <1>2
<1>4. \A i \in 0 .. n : i \in G
  BY <1>1, <1>3, CountsUp
<1>5. n \in G
  BY <1>4
<1> QED
  BY <1>5 DEF G

-----------------------------------------------------------------------------
(* The loops of the model over lists.                                      *)
LEMMA WithoutTyped ==
  ASSUME NEW S, NEW list \in Seq(S), NEW x
  PROVE  Without(list, x) \in Seq(S) /\ Len(Without(list, x)) <= Len(list)
<1> DEFINE n == Len(list)
           Kept(i, k) == IF list[i] = x THEN k ELSE Append(k, list[i])
           kept[i \in 0 .. n] == IF i = 0 THEN <<>> ELSE Kept(i, kept[i - 1])
           step == [i \in 1 .. n |-> [k \in Seq(S) |-> Kept(i, k)]]
<1>1. n \in Nat /\ \A i \in 1 .. n : list[i] \in S
  OBVIOUS
<1>2. step \in [1 .. n -> [Seq(S) -> Seq(S)]]
  BY <1>1
<1>3. \A i \in 1 .. n : \A k \in Seq(S) : step[i][k] = Kept(i, k)
  OBVIOUS
<1>4. <<>> \in Seq(S)
  OBVIOUS
<1>5. Without(list, x) = kept[n]
  BY DEF Without
<1>12. ASSUME NEW i \in 1 .. n, NEW k \in Seq(S), Len(k) <= i - 1
       PROVE  Kept(i, k) \in Seq(S) /\ Len(Kept(i, k)) <= i
  <2>1. list[i] \in S /\ i \in Nat
    BY <1>1
  <2>2. Append(k, list[i]) \in Seq(S) /\ Len(Append(k, list[i])) = Len(k) + 1 /\ Len(k) \in Nat
    BY <1>12, <2>1
  <2> QED
    BY <1>12, <2>1, <2>2
<1> HIDE DEF step, Kept, n
<1>6. PICK r \in [0 .. n -> Seq(S)] :
        r[0] = <<>> /\ \A i \in 1 .. n : r[i] = step[i][r[i - 1]]
  <2> DEFINE T == Seq(S)
             b == <<>>
  <2>1. n \in Nat /\ b \in T /\ step \in [1 .. n -> [T -> T]]
    BY <1>1, <1>2, <1>4
  <2> HIDE DEF T, b
  <2>2. \E r \in [0 .. n -> T] : Loops(r, b, n, step)
    BY <2>1, LoopRuns, Zenon
  <2> QED
    BY <2>2 DEF T, b, Loops
<1>7. r = [i \in 0 .. n |-> IF i = 0 THEN <<>> ELSE Kept(i, r[i - 1])]
  <2>1. ASSUME NEW i \in 1 .. n PROVE r[i] = Kept(i, r[i - 1])
    <3>1. i - 1 \in 0 .. n
      BY <1>1
    <3> QED
      BY <1>3, <1>6, <3>1
  <2> QED
    BY <1>1, <1>6, <2>1
<1>8. kept = [i \in 0 .. n |-> IF i = 0 THEN <<>> ELSE Kept(i, kept[i - 1])]
  BY <1>7
<1> HIDE DEF kept
<1> DEFINE G == {i \in 0 .. n : kept[i] \in Seq(S) /\ Len(kept[i]) <= i}
<1>9. 0 \in G
  BY <1>1, <1>8
<1>10. ASSUME NEW i \in 1 .. n, i - 1 \in G PROVE i \in G
  <2>1. kept[i - 1] \in Seq(S) /\ Len(kept[i - 1]) <= i - 1
    BY <1>10
  <2>2. kept[i] = Kept(i, kept[i - 1])
    BY <1>1, <1>8
  <2> QED
    BY <1>12, <2>1, <2>2
<1> HIDE DEF G
<1>13. \A i \in 1 .. n : i - 1 \in G => i \in G
  BY <1>10
<1>11. n \in G
  <2>1. n \in Nat
    BY <1>1
  <2>2. \A i \in 0 .. n : i \in G
    BY <1>9, <1>13, <2>1, CountsUp
  <2> QED
    BY <2>1, <2>2
<1> QED
  BY <1>5, <1>11 DEF G, n

LEMMA HostsTyped ==
  ASSUME NEW patterns \in Seq(Pattern)
  PROVE  Hosts(patterns) \in Seq(Alias)
<1> DEFINE seqs == [i \in DOMAIN patterns |-> Resolve[patterns[i]]]
           n == Len(seqs)
<1>1. seqs \in Seq(Seq(Alias)) /\ n \in Nat
  <2>1. seqs \in [1 .. Len(patterns) -> Seq(Alias)]
    BY ResolveAssumption
  <2> HIDE DEF seqs
  <2> QED
    BY <2>1
<1>2. Hosts(patterns) = FlattenSeq(seqs)
  BY DEF Hosts
<1> HIDE DEF seqs
<1>3. CASE n = 0
  <2>1. FlattenSeq(seqs) = seqs /\ seqs = <<>>
    BY <1>1, <1>3 DEF FlattenSeq
  <2> QED
    BY <1>2, <2>1
<1>4. CASE n # 0
  <2> DEFINE flatten[i \in 1 .. n] == IF i = 1 THEN seqs[i] ELSE flatten[i - 1] \o seqs[i]
             m == n - 1
             step == [i \in 1 .. m |-> [f \in Seq(Alias) |-> f \o seqs[i + 1]]]
  <2>1. FlattenSeq(seqs) = flatten[n]
    BY <1>4 DEF FlattenSeq
  <2>2. m \in Nat /\ \A i \in 1 .. n : seqs[i] \in Seq(Alias)
    BY <1>1, <1>4
  <2>3. \A i \in 1 .. m : i + 1 \in 1 .. n
    BY <1>1
  <2> HIDE DEF n
  <2>4. step \in [1 .. m -> [Seq(Alias) -> Seq(Alias)]]
    BY <2>2, <2>3
  <2>5. \A i \in 1 .. m : \A f \in Seq(Alias) : step[i][f] = f \o seqs[i + 1]
    OBVIOUS
  <2>6. seqs[1] \in Seq(Alias)
    <3>1. 1 \in 1 .. n
      BY <1>1, <1>4 DEF n
    <3> QED
      BY <2>2, <3>1
  <2> HIDE DEF step
  <2>7. PICK r \in [0 .. m -> Seq(Alias)] :
          r[0] = seqs[1] /\ \A i \in 1 .. m : r[i] = step[i][r[i - 1]]
    <3> DEFINE T == Seq(Alias)
               b == seqs[1]
    <3>1. m \in Nat /\ b \in T /\ step \in [1 .. m -> [T -> T]]
      BY <2>2, <2>4, <2>6
    <3> HIDE DEF T, b, m
    <3>2. \E r \in [0 .. m -> T] : Loops(r, b, m, step)
      BY <3>1, LoopRuns, Zenon
    <3> QED
      BY <3>2 DEF T, b, Loops
  <2> DEFINE t == [i \in 1 .. n |-> r[i - 1]]
  <2>8. t = [i \in 1 .. n |-> IF i = 1 THEN seqs[i] ELSE t[i - 1] \o seqs[i]]
    <3>1. ASSUME NEW i \in 1 .. n, i # 1 PROVE t[i] = t[i - 1] \o seqs[i]
      <4>1. i - 1 \in 1 .. m /\ i - 1 \in 1 .. n /\ i - 2 \in 0 .. m /\ (i - 1) + 1 = i /\ (i - 1) - 1 = i - 2
        BY <1>1, <3>1 DEF n
      <4>2. t[i] = r[i - 1] /\ t[i - 1] = r[i - 2]
        BY <4>1
      <4>3. r[i - 1] = step[i - 1][r[i - 2]] /\ r[i - 2] \in Seq(Alias)
        BY <2>7, <4>1
      <4>4. step[i - 1][r[i - 2]] = r[i - 2] \o seqs[i]
        BY <2>5, <4>1, <4>3
      <4> QED
        BY <4>2, <4>3, <4>4
    <3>2. ASSUME NEW i \in 1 .. n, i = 1 PROVE t[i] = seqs[i]
      BY <2>7, <3>2
    <3>3. t = [i \in 1 .. n |-> t[i]]
      OBVIOUS
    <3> HIDE DEF t
    <3>4. [i \in 1 .. n |-> t[i]] = [i \in 1 .. n |-> IF i = 1 THEN seqs[i] ELSE t[i - 1] \o seqs[i]]
      BY <3>1, <3>2
    <3> QED
      BY <3>3, <3>4
  <2>9. flatten = [i \in 1 .. n |-> IF i = 1 THEN seqs[i] ELSE flatten[i - 1] \o seqs[i]]
    <3> HIDE DEF t
    <3> QED
      BY <2>8
  <2> HIDE DEF flatten, m
  <2> DEFINE G == {i \in 0 .. m : flatten[i + 1] \in Seq(Alias)}
  <2>10. 0 \in G
    <3>1. 1 \in 1 .. n
      BY <1>1, <1>4 DEF n
    <3>2. flatten[1] = seqs[1]
      BY <2>9, <3>1
    <3> QED
      BY <2>2, <2>6, <3>2
  <2>11. ASSUME NEW i \in 1 .. m, i - 1 \in G PROVE i \in G
    <3>1. flatten[(i - 1) + 1] \in Seq(Alias) /\ (i - 1) + 1 = i
      BY <2>2, <2>11
    <3>2. i + 1 \in 1 .. n /\ i + 1 # 1 /\ (i + 1) - 1 = i /\ seqs[i + 1] \in Seq(Alias)
      BY <2>2, <2>3
    <3>3. flatten[i + 1] = flatten[i] \o seqs[i + 1]
      BY <2>9, <3>2
    <3>4. flatten[i] \in Seq(Alias)
      BY <3>1
    <3>5. flatten[i + 1] \in Seq(Alias) /\ i \in 0 .. m
      BY <2>2, <3>2, <3>3, <3>4
    <3> QED
      BY <3>5
  <2> HIDE DEF G
  <2>12. m \in G
    <3>1. \A i \in 1 .. m : i - 1 \in G => i \in G
      BY <2>11
    <3>2. m \in Nat
      BY <2>2
    <3>3. \A i \in 0 .. m : i \in G
      BY <2>10, <3>1, <3>2, CountsUp
    <3> QED
      BY <3>2, <3>3
  <2>13. flatten[n] \in Seq(Alias)
    BY <1>1, <2>12 DEF G, m, n
  <2> QED
    BY <1>2, <2>1, <2>13
<1> QED
  BY <1>3, <1>4

-----------------------------------------------------------------------------
(* A session's identifier: the n-th of its host.                           *)
Id == [alias : Alias, n : Nat]

LEMMA Pigeons ==
  ASSUME NEW n \in Nat, NEW m \in Nat, n < m, NEW f \in [1 .. m -> 1 .. n]
  PROVE  \E x, y \in 1 .. m : x # y /\ f[x] = f[y]
<1> DEFINE S == 1 .. m
           T == 1 .. n
<1>1. IsFiniteSet(S) /\ Cardinality(S) = m
  BY FS_Interval
<1>2. IsFiniteSet(T) /\ Cardinality(T) = n
  BY FS_Interval
<1>3. Cardinality(T) < Cardinality(S) /\ f \in [S -> T]
  BY <1>1, <1>2
<1> HIDE DEF S, T
<1>4. \E x, y \in S : x # y /\ f[x] = f[y]
  BY <1>1, <1>2, <1>3, FS_PigeonHole
<1> QED
  BY <1>4 DEF S

(* uniqueID finds a number, and the first one where it is free.            *)
LEMMA FreeIsFree ==
  ASSUME NEW f \in Seq(Id), NEW a
  PROVE  /\ FreeIn(f, a) \in 1 .. Len(f) + 1
         /\ [alias |-> a, n |-> FreeIn(f, a)] \notin Ids(f)
         /\ [alias |-> a, n |-> 1] \notin Ids(f) => FreeIn(f, a) = 1
<1> DEFINE L == Len(f)
           Open == {n \in 1 .. L + 1 : [alias |-> a, n |-> n] \notin Ids(f)}
<1>1. L \in Nat /\ DOMAIN f = 1 .. L
  OBVIOUS
<1>2. Open # {}
  <2> SUFFICES ASSUME \A n \in 1 .. L + 1 : [alias |-> a, n |-> n] \in Ids(f) PROVE FALSE
    OBVIOUS
  <2>1. \A n \in 1 .. L + 1 : \E i \in 1 .. L : f[i] = [alias |-> a, n |-> n]
    BY <1>1 DEF Ids, ToSet
  <2> DEFINE place == [n \in 1 .. L + 1 |-> CHOOSE i \in 1 .. L : f[i] = [alias |-> a, n |-> n]]
  <2>2. place \in [1 .. L + 1 -> 1 .. L] /\ \A n \in 1 .. L + 1 : f[place[n]] = [alias |-> a, n |-> n]
    BY <2>1
  <2> HIDE DEF place, L
  <2>3. PICK x \in 1 .. L + 1, y \in 1 .. L + 1 : x # y /\ place[x] = place[y]
    <3>1. L + 1 \in Nat /\ L < L + 1
      BY <1>1
    <3> QED
      BY <1>1, <2>2, <3>1, Pigeons
  <2>4. [alias |-> a, n |-> x] = [alias |-> a, n |-> y]
    BY <2>2, <2>3
  <2>5. [alias |-> a, n |-> x].n = [alias |-> a, n |-> y].n
    BY <2>4
  <2> QED
    BY <2>3, <2>5
<1>3. PICK x \in Open : \A y \in Open : x <= y
  <2>1. Open \subseteq Nat
    BY <1>1
  <2> HIDE DEF Open
  <2> QED
    BY <1>2, <2>1, LeastNat
<1> DEFINE First(n) == /\ [alias |-> a, n |-> n] \notin Ids(f)
                       /\ \A m \in 1 .. n - 1 : [alias |-> a, n |-> m] \in Ids(f)
<1>4. x \in 1 .. L + 1 /\ First(x)
  <2>1. ASSUME NEW m \in 1 .. x - 1 PROVE [alias |-> a, n |-> m] \in Ids(f)
    <3>1. m \in 1 .. L + 1 /\ ~(x <= m)
      BY <1>1, <1>3
    <3> QED
      BY <1>3, <3>1
  <2> QED
    BY <1>3, <2>1
<1>5. FreeIn(f, a) = CHOOSE n \in 1 .. L + 1 : First(n)
  BY DEF FreeIn
<1> HIDE DEF First
<1>6. FreeIn(f, a) \in 1 .. L + 1 /\ First(FreeIn(f, a))
  BY <1>4, <1>5
<1>7. ASSUME [alias |-> a, n |-> 1] \notin Ids(f), FreeIn(f, a) # 1 PROVE FALSE
  <2>1. 1 \in 1 .. FreeIn(f, a) - 1
    BY <1>1, <1>6, <1>7
  <2> QED
    BY <1>6, <1>7, <2>1 DEF First
<1> QED
  BY <1>6, <1>7 DEF First

LEMMA AddGrows ==
  ASSUME NEW f \in Seq(Id), NEW a \in Alias
  PROVE  /\ Add(f, a) \in Seq(Id)
         /\ Ids(Add(f, a)) = Ids(f) \cup {[alias |-> a, n |-> FreeIn(f, a)]}
<1> DEFINE id == [alias |-> a, n |-> FreeIn(f, a)]
<1>1. id \in Id
  <2>1. FreeIn(f, a) \in 1 .. Len(f) + 1
    BY FreeIsFree
  <2>2. FreeIn(f, a) \in Nat
    <3>1. Len(f) \in Nat
      OBVIOUS
    <3> QED
      BY <2>1, <3>1
  <2> QED
    BY <2>2 DEF Id
<1>2. Add(f, a) = Append(f, id)
  BY DEF Add
<1> HIDE DEF id
<1>3. /\ Append(f, id) \in Seq(Id) /\ DOMAIN f = 1 .. Len(f) /\ Len(f) \in Nat
      /\ DOMAIN Append(f, id) = 1 .. Len(f) + 1
      /\ Append(f, id)[Len(f) + 1] = id
      /\ \A i \in 1 .. Len(f) : Append(f, id)[i] = f[i]
  BY <1>1
<1>4. ToSet(Append(f, id)) = ToSet(f) \cup {id}
  <2>1. ASSUME NEW i \in 1 .. Len(f) + 1 PROVE Append(f, id)[i] \in ToSet(f) \cup {id}
    <3>1. i \in 1 .. Len(f) \/ i = Len(f) + 1
      BY <1>3
    <3> QED
      BY <1>3, <3>1 DEF ToSet
  <2>2. ASSUME NEW x \in ToSet(f) PROVE x \in ToSet(Append(f, id))
    <3>1. PICK i \in 1 .. Len(f) : x = f[i]
      BY <1>3 DEF ToSet
    <3>2. i \in 1 .. Len(f) + 1
      BY <1>3
    <3> QED
      BY <1>3, <3>1, <3>2 DEF ToSet
  <2>3. id \in ToSet(Append(f, id))
    <3>1. Len(f) + 1 \in 1 .. Len(f) + 1
      BY <1>3
    <3> QED
      BY <1>3, <3>1 DEF ToSet
  <2>4. ToSet(Append(f, id)) \subseteq ToSet(f) \cup {id}
    BY <1>3, <2>1 DEF ToSet
  <2> QED
    BY <2>2, <2>3, <2>4
<1> QED
  BY <1>2, <1>3, <1>4 DEF Ids, id

(* Hosts joining one after the other, but for those that are passed over.  *)
Joins(r, f, aliases, skip) ==
  /\ r[0] = f
  /\ \A i \in 1 .. Len(aliases) :
       r[i] = IF skip[i][r[i - 1]] THEN r[i - 1] ELSE Add(r[i - 1], aliases[i])

LEMMA FleetLoop ==
  ASSUME NEW f \in Seq(Id), NEW aliases \in Seq(Alias),
         NEW skip \in [1 .. Len(aliases) -> [Seq(Id) -> BOOLEAN]]
  PROVE  \E r \in [0 .. Len(aliases) -> Seq(Id)] : Joins(r, f, aliases, skip)
<1> DEFINE n == Len(aliases)
           T == Seq(Id)
           step == [i \in 1 .. n |-> [k \in T |-> IF skip[i][k] THEN k ELSE Add(k, aliases[i])]]
<1>1. n \in Nat /\ \A i \in 1 .. n : aliases[i] \in Alias
  OBVIOUS
<1>2. step \in [1 .. n -> [T -> T]]
  <2>1. ASSUME NEW i \in 1 .. n, NEW k \in T PROVE (IF skip[i][k] THEN k ELSE Add(k, aliases[i])) \in T
    BY <1>1, AddGrows
  <2> QED
    BY <2>1
<1>3. \A i \in 1 .. n : \A k \in T : step[i][k] = IF skip[i][k] THEN k ELSE Add(k, aliases[i])
  OBVIOUS
<1> HIDE DEF step, n
<1>4. PICK r \in [0 .. n -> T] : r[0] = f /\ \A i \in 1 .. n : r[i] = step[i][r[i - 1]]
  <2> DEFINE b == f
  <2>1. n \in Nat /\ b \in T
    BY <1>1
  <2> HIDE DEF T, b
  <2>2. \E r \in [0 .. n -> T] : Loops(r, b, n, step)
    BY <1>2, <2>1, LoopRuns, Zenon
  <2> QED
    BY <2>2 DEF b, Loops
<1>6. n = Len(aliases)
  BY DEF n
<1>5. ASSUME NEW i \in 1 .. n
      PROVE  r[i] = IF skip[i][r[i - 1]] THEN r[i - 1] ELSE Add(r[i - 1], aliases[i])
  <2>1. i - 1 \in 0 .. n
    BY <1>1
  <2>2. r[i - 1] \in T
    BY <1>4, <2>1
  <2>3. r[i] = step[i][r[i - 1]]
    BY <1>4
  <2> HIDE DEF T
  <2> QED
    BY <1>3, <2>2, <2>3
<1> QED
  BY <1>4, <1>5, <1>6 DEF Joins

(* The fleet a run starts with.                                            *)
LEMMA AddedAllTyped ==
  ASSUME NEW f \in Seq(Id), NEW aliases \in Seq(Alias)
  PROVE  AddedAll(f, aliases) \in Seq(Id)
<1> DEFINE n == Len(aliases)
           added[i \in 0 .. n] == IF i = 0 THEN f ELSE Add(added[i - 1], aliases[i])
           skip == [i \in 1 .. n |-> [k \in Seq(Id) |-> FALSE]]
<1>1. AddedAll(f, aliases) = added[n]
  BY DEF AddedAll
<1>2. n \in Nat /\ \A i \in 1 .. n : aliases[i] \in Alias
  OBVIOUS
<1>3. /\ skip \in [1 .. n -> [Seq(Id) -> BOOLEAN]]
      /\ \A i \in 1 .. n : \A k \in Seq(Id) : ~skip[i][k]
  OBVIOUS
<1> HIDE DEF skip
<1>4. PICK r \in [0 .. n -> Seq(Id)] : Joins(r, f, aliases, skip)
  BY <1>3, FleetLoop, Zenon
<1>13. /\ r[0] = f
       /\ \A i \in 1 .. n : r[i] = IF skip[i][r[i - 1]] THEN r[i - 1] ELSE Add(r[i - 1], aliases[i])
  BY <1>4 DEF Joins
<1> HIDE DEF n
<1>5. \A i \in 1 .. n : r[i] = Add(r[i - 1], aliases[i])
  <2> TAKE i \in 1 .. n
  <2>1. i - 1 \in 0 .. n
    BY <1>2
  <2> QED
    BY <1>3, <1>4, <1>13, <2>1
<1>6. r = [i \in 0 .. n |-> IF i = 0 THEN f ELSE Add(r[i - 1], aliases[i])]
  BY <1>2, <1>4, <1>5, <1>13
<1>7. added = [i \in 0 .. n |-> IF i = 0 THEN f ELSE Add(added[i - 1], aliases[i])]
  BY <1>6
<1> HIDE DEF added
<1> DEFINE G == {i \in 0 .. n : added[i] \in Seq(Id)}
<1>8. 0 \in G
  BY <1>2, <1>7
<1>9. ASSUME NEW i \in 1 .. n, i - 1 \in G PROVE i \in G
  <2>1. added[i] = Add(added[i - 1], aliases[i])
    BY <1>2, <1>7
  <2>2. added[i] \in Seq(Id)
    BY <1>2, <1>9, <2>1, AddGrows
  <2> QED
    BY <2>2
<1> HIDE DEF G
<1>10. \A i \in 1 .. n : i - 1 \in G => i \in G
  BY <1>9
<1>11. \A i \in 0 .. n : i \in G
  BY <1>2, <1>8, <1>10, CountsUp
<1>12. n \in G
  BY <1>2, <1>11
<1> QED
  BY <1>1, <1>12 DEF G

(* Opening a group gives a second session only to a host that is listed    *)
(* twice, and none to a host that runs.                                    *)
LEMMA OpenedDials ==
  ASSUME NEW f \in Seq(Id), NEW aliases \in Seq(Alias)
  PROVE  /\ Opened(f, aliases) \in Seq(Id)
         /\ \A id \in Ids(Opened(f, aliases)) \ Ids(f) :
              /\ id.alias \notin Running(f)
              /\ \/ id.n = 1
                 \/ \E i, j \in 1 .. Len(aliases) : i # j /\ aliases[i] = id.alias /\ aliases[j] = id.alias
<1> DEFINE n == Len(aliases)
           opened[i \in 0 .. n] ==
             IF i = 0 THEN f
             ELSE IF aliases[i] \in Running(f) THEN opened[i - 1] ELSE Add(opened[i - 1], aliases[i])
           skip == [i \in 1 .. n |-> [k \in Seq(Id) |-> IF aliases[i] \in Running(f) THEN TRUE ELSE FALSE]]
<1>1. Opened(f, aliases) = opened[n]
  BY DEF Opened
<1>2. n \in Nat /\ \A i \in 1 .. n : aliases[i] \in Alias
  OBVIOUS
<1>3. /\ skip \in [1 .. n -> [Seq(Id) -> BOOLEAN]]
      /\ \A i \in 1 .. n : \A k \in Seq(Id) : skip[i][k] <=> aliases[i] \in Running(f)
  OBVIOUS
<1> HIDE DEF skip
<1>4. PICK r \in [0 .. n -> Seq(Id)] : Joins(r, f, aliases, skip)
  BY <1>3, FleetLoop, Zenon
<1>5. /\ r[0] = f
      /\ \A i \in 1 .. n : r[i] = IF skip[i][r[i - 1]] THEN r[i - 1] ELSE Add(r[i - 1], aliases[i])
  BY <1>4 DEF Joins
<1> HIDE DEF n
<1>6. ASSUME NEW i \in 1 .. n
      PROVE  r[i] = IF aliases[i] \in Running(f) THEN r[i - 1] ELSE Add(r[i - 1], aliases[i])
  <2>1. i - 1 \in 0 .. n
    BY <1>2
  <2> QED
    BY <1>3, <1>4, <1>5, <2>1
<1>7. r = [i \in 0 .. n |->
             IF i = 0 THEN f
             ELSE IF aliases[i] \in Running(f) THEN r[i - 1] ELSE Add(r[i - 1], aliases[i])]
  BY <1>2, <1>4, <1>5, <1>6
<1>8. opened = [i \in 0 .. n |->
                  IF i = 0 THEN f
                  ELSE IF aliases[i] \in Running(f) THEN opened[i - 1] ELSE Add(opened[i - 1], aliases[i])]
  BY <1>7
<1> HIDE DEF opened
<1> DEFINE Dialled(i, id) ==
             /\ id.alias \notin Running(f)
             /\ \E j \in 1 .. i :
                  /\ aliases[j] = id.alias
                  /\ id.n = 1 \/ \E m \in 1 .. i : m # j /\ aliases[m] = id.alias
           G == {i \in 0 .. n : /\ opened[i] \in Seq(Id)
                                /\ \A id \in Ids(opened[i]) \ Ids(f) : Dialled(i, id)}
<1>9. 0 \in G
  <2>1. opened[0] = f /\ 0 \in 0 .. n
    BY <1>2, <1>8
  <2> HIDE DEF Dialled
  <2> QED
    BY <2>1
<1>10. ASSUME NEW i \in 1 .. n, i - 1 \in G PROVE i \in G
  <2>1. /\ opened[i - 1] \in Seq(Id)
        /\ \A id \in Ids(opened[i - 1]) \ Ids(f) : Dialled(i - 1, id)
    BY <1>10
  <2>2. i \in 0 .. n /\ i \in Nat /\ i - 1 \in Nat /\ i # 0
    BY <1>2
  <2>3. ASSUME NEW id, Dialled(i - 1, id) PROVE Dialled(i, id)
    <3>1. \A j \in 1 .. i - 1 : j \in 1 .. i
      BY <2>2
    <3> QED
      BY <2>3, <3>1
  <2>4. CASE aliases[i] \in Running(f)
    <3>1. opened[i] = opened[i - 1]
      BY <1>8, <2>2, <2>4
    <3> HIDE DEF Dialled
    <3> QED
      BY <2>1, <2>2, <2>3, <3>1
  <2>5. CASE aliases[i] \notin Running(f)
    <3> DEFINE a == aliases[i]
               new == [alias |-> a, n |-> FreeIn(opened[i - 1], a)]
    <3>1. opened[i] = Add(opened[i - 1], a)
      BY <1>8, <2>2, <2>5
    <3>2. a \in Alias
      BY <1>2
    <3>3. opened[i] \in Seq(Id) /\ Ids(opened[i]) = Ids(opened[i - 1]) \cup {new}
      BY <2>1, <3>1, <3>2, AddGrows
    <3>4. new.alias = a /\ new.n = FreeIn(opened[i - 1], a) /\ i \in 1 .. i /\ aliases[i] = a
      BY <2>2
    <3> HIDE DEF new, a
    <3>5. Dialled(i, new)
      <4>1. CASE FreeIn(opened[i - 1], a) = 1
        BY <2>5, <3>4, <4>1
      <4>2. CASE FreeIn(opened[i - 1], a) # 1
        <5> DEFINE old == [alias |-> a, n |-> 1]
        <5>1. old \in Ids(opened[i - 1])
          BY <2>1, <4>2, FreeIsFree
        <5>2. old.alias = a /\ old.n = 1
          OBVIOUS
        <5> HIDE DEF old
        <5>3. old \notin Ids(f)
          BY <2>5, <3>4, <5>2 DEF Running
        <5>4. Dialled(i - 1, old)
          BY <2>1, <5>1, <5>3
        <5>5. PICK j \in 1 .. i - 1 : aliases[j] = a
          BY <5>2, <5>4
        <5>6. j \in 1 .. i /\ i # j
          BY <2>2
        <5> QED
          BY <2>5, <3>4, <5>5, <5>6
      <4> QED
        BY <4>1, <4>2
    <3> HIDE DEF Dialled
    <3> QED
      BY <2>1, <2>2, <2>3, <3>3, <3>5
  <2> QED
    BY <2>4, <2>5
<1>11. \A i \in 1 .. n : i - 1 \in G => i \in G
  BY <1>10
<1>12. n \in 0 .. n /\ n \in Nat
  BY <1>2
<1> HIDE DEF G
<1>13. \A i \in 0 .. n : i \in G
  BY <1>9, <1>11, <1>12, CountsUp
<1>14. opened[n] \in Seq(Id) /\ \A id \in Ids(opened[n]) \ Ids(f) : Dialled(n, id)
  BY <1>12, <1>13 DEF G
<1> QED
  BY <1>1, <1>14 DEF n

(* Connecting hosts gives a second session to none.                        *)
LEMMA ConnectedDials ==
  ASSUME NEW f \in Seq(Id), NEW aliases \in Seq(Alias)
  PROVE  /\ Connected(f, aliases) \in Seq(Id)
         /\ \A id \in Ids(Connected(f, aliases)) \ Ids(f) : id.alias \notin Running(f) /\ id.n = 1
<1> DEFINE n == Len(aliases)
           joined[i \in 0 .. n] ==
             IF i = 0 THEN f
             ELSE IF aliases[i] \in Running(joined[i - 1]) THEN joined[i - 1]
                  ELSE Add(joined[i - 1], aliases[i])
           skip == [i \in 1 .. n |-> [k \in Seq(Id) |-> IF aliases[i] \in Running(k) THEN TRUE ELSE FALSE]]
<1>1. Connected(f, aliases) = joined[n]
  BY DEF Connected
<1>2. n \in Nat /\ \A i \in 1 .. n : aliases[i] \in Alias
  OBVIOUS
<1>3. /\ skip \in [1 .. n -> [Seq(Id) -> BOOLEAN]]
      /\ \A i \in 1 .. n : \A k \in Seq(Id) : skip[i][k] <=> aliases[i] \in Running(k)
  OBVIOUS
<1> HIDE DEF skip
<1>4. PICK r \in [0 .. n -> Seq(Id)] : Joins(r, f, aliases, skip)
  BY <1>3, FleetLoop, Zenon
<1>5. /\ r[0] = f
      /\ \A i \in 1 .. n : r[i] = IF skip[i][r[i - 1]] THEN r[i - 1] ELSE Add(r[i - 1], aliases[i])
  BY <1>4 DEF Joins
<1> HIDE DEF n
<1>6. ASSUME NEW i \in 1 .. n
      PROVE  r[i] = IF aliases[i] \in Running(r[i - 1]) THEN r[i - 1] ELSE Add(r[i - 1], aliases[i])
  <2>1. i - 1 \in 0 .. n
    BY <1>2
  <2> QED
    BY <1>3, <1>4, <1>5, <2>1
<1>7. r = [i \in 0 .. n |->
             IF i = 0 THEN f
             ELSE IF aliases[i] \in Running(r[i - 1]) THEN r[i - 1] ELSE Add(r[i - 1], aliases[i])]
  BY <1>2, <1>4, <1>5, <1>6
<1>8. joined = [i \in 0 .. n |->
                  IF i = 0 THEN f
                  ELSE IF aliases[i] \in Running(joined[i - 1]) THEN joined[i - 1]
                       ELSE Add(joined[i - 1], aliases[i])]
  BY <1>7
<1> HIDE DEF joined
<1> DEFINE Dialled(id) == id.alias \notin Running(f) /\ id.n = 1
           G == {i \in 0 .. n : /\ joined[i] \in Seq(Id) /\ Ids(f) \subseteq Ids(joined[i])
                                /\ \A id \in Ids(joined[i]) \ Ids(f) : Dialled(id)}
<1>9. 0 \in G
  <2>1. joined[0] = f /\ 0 \in 0 .. n
    BY <1>2, <1>8
  <2> HIDE DEF Dialled
  <2> QED
    BY <2>1
<1>10. ASSUME NEW i \in 1 .. n, i - 1 \in G PROVE i \in G
  <2>1. /\ joined[i - 1] \in Seq(Id) /\ Ids(f) \subseteq Ids(joined[i - 1])
        /\ \A id \in Ids(joined[i - 1]) \ Ids(f) : Dialled(id)
    BY <1>10
  <2>2. i \in 0 .. n /\ i # 0
    BY <1>2
  <2>4. CASE aliases[i] \in Running(joined[i - 1])
    <3>1. joined[i] = joined[i - 1]
      BY <1>8, <2>2, <2>4
    <3> HIDE DEF Dialled
    <3> QED
      BY <2>1, <2>2, <3>1
  <2>5. CASE aliases[i] \notin Running(joined[i - 1])
    <3> DEFINE a == aliases[i]
               new == [alias |-> a, n |-> FreeIn(joined[i - 1], a)]
               first == [alias |-> a, n |-> 1]
    <3>1. joined[i] = Add(joined[i - 1], a)
      BY <1>8, <2>2, <2>5
    <3>2. a \in Alias
      BY <1>2
    <3>3. joined[i] \in Seq(Id) /\ Ids(joined[i]) = Ids(joined[i - 1]) \cup {new}
      BY <2>1, <3>1, <3>2, AddGrows
    <3>4. first.alias = a /\ first.n = 1
      OBVIOUS
    <3>5. new.alias = a /\ new.n = FreeIn(joined[i - 1], a)
      OBVIOUS
    <3> HIDE DEF new
    <3>6. first \notin Ids(joined[i - 1])
      <4> HIDE DEF first
      <4> QED
        BY <2>5, <3>4 DEF Running
    <3>7. FreeIn(joined[i - 1], a) = 1
      BY <2>1, <3>6, FreeIsFree
    <3>8. a \notin Running(f)
      BY <2>1, <2>5 DEF Running
    <3>9. Dialled(new)
      BY <3>5, <3>7, <3>8
    <3> HIDE DEF Dialled, a
    <3> QED
      BY <2>1, <2>2, <3>3, <3>9
  <2> QED
    BY <2>4, <2>5
<1>11. \A i \in 1 .. n : i - 1 \in G => i \in G
  BY <1>10
<1>12. n \in 0 .. n /\ n \in Nat
  BY <1>2
<1> HIDE DEF G
<1>13. \A i \in 0 .. n : i \in G
  BY <1>9, <1>11, <1>12, CountsUp
<1>14. joined[n] \in Seq(Id) /\ \A id \in Ids(joined[n]) \ Ids(f) : Dialled(id)
  BY <1>12, <1>13 DEF G
<1> QED
  BY <1>1, <1>14

-----------------------------------------------------------------------------
(* The patterns of the run: those in use are patterns, and what an append  *)
(* does to the rest of the array leaves patterns where there were some.    *)
Cell == Pattern \cup {""}
Slice == {s \in [array : Seq(Cell), len : Nat] :
            s.len <= Len(s.array) /\ \A i \in 1 .. s.len : s.array[i] \in Pattern}

Extends(old, new) ==
  /\ Len(old.array) <= Len(new.array)
  /\ \A i \in 1 .. Len(old.array) : old.array[i] \in Pattern => new.array[i] \in Pattern

LEMMA SliceFields ==
  ASSUME NEW array \in Seq(Cell), NEW len \in Nat, len <= Len(array),
         \A i \in 1 .. len : array[i] \in Pattern
  PROVE  [array |-> array, len |-> len] \in Slice
  BY DEF Slice

LEMMA SliceTyped ==
  ASSUME NEW s \in Slice
  PROVE  /\ s.array \in Seq(Cell) /\ s.len \in Nat /\ Len(s.array) \in Nat
         /\ s.len <= Len(s.array) /\ \A i \in 1 .. s.len : s.array[i] \in Pattern
         /\ s = [array |-> s.array, len |-> s.len]
<1>1. s \in [array : Seq(Cell), len : Nat]
  BY DEF Slice
<1>2. s.array \in Seq(Cell) /\ s.len \in Nat
  BY <1>1
<1>3. Len(s.array) \in Nat
  BY <1>2
<1>4. s = [array |-> s.array, len |-> s.len]
  BY <1>1
<1> QED
  BY <1>2, <1>3, <1>4 DEF Slice

LEMMA AppendedTyped ==
  ASSUME NEW s \in Slice, NEW p \in Pattern
  PROVE  Appended(s, p) \in Slice /\ Extends(s, Appended(s, p))
<1> DEFINE a == s.array
           cap == Len(a)
<1>1. /\ a \in Seq(Cell) /\ s.len \in Nat /\ s.len <= cap /\ cap \in Nat
      /\ \A i \in 1 .. s.len : a[i] \in Pattern
      /\ s = [array |-> a, len |-> s.len]
  BY SliceTyped
<1>2. p \in Cell /\ "" \in Cell /\ \A i \in 1 .. cap : a[i] \in Cell
  <2>1. p \in Cell /\ "" \in Cell
    BY DEF Cell
  <2>2. \A i \in 1 .. cap : a[i] \in Cell
    BY <1>1
  <2> QED
    BY <2>1, <2>2
<1>3. CASE s.len < cap
  <2> DEFINE b == [a EXCEPT ![s.len + 1] = p]
  <2>1. Appended(s, p) = [array |-> b, len |-> s.len + 1]
    BY <1>1, <1>3 DEF Appended
  <2>2. s.len + 1 \in 1 .. cap /\ s.len + 1 \in Nat /\ s.len + 1 <= cap
    BY <1>1, <1>3
  <2>3. /\ b \in Seq(Cell) /\ Len(b) = cap
        /\ b[s.len + 1] = p /\ \A i \in 1 .. cap : i # s.len + 1 => b[i] = a[i]
    <3> HIDE DEF a
    <3>1. a \in Seq(Cell) /\ s.len + 1 \in 1 .. Len(a) /\ p \in Cell
      BY <1>1, <1>2, <2>2
    <3> QED
      BY <3>1, ExceptSeq
  <2> HIDE DEF b
  <2>4. ASSUME NEW i \in 1 .. s.len + 1 PROVE b[i] \in Pattern
    <3>1. i = s.len + 1 \/ (i \in 1 .. s.len /\ i \in 1 .. cap /\ i # s.len + 1)
      BY <1>1, <2>2
    <3> QED
      BY <1>1, <2>3, <3>1
  <2>5. [array |-> b, len |-> s.len + 1] \in Slice
    BY <2>2, <2>3, <2>4, SliceFields
  <2>6. \A i \in 1 .. cap : a[i] \in Pattern => b[i] \in Pattern
    BY <2>3
  <2> QED
    BY <1>1, <2>1, <2>3, <2>5, <2>6 DEF Extends
<1>4. CASE ~(s.len < cap)
  <2> DEFINE m == IF cap = 0 THEN 1 ELSE 2 * cap
             blank == ""
             b == [i \in 1 .. m |-> IF i <= cap THEN a[i] ELSE IF i = cap + 1 THEN p ELSE blank]
  <2>1. Appended(s, p) = [array |-> b, len |-> cap + 1]
    BY <1>1, <1>4 DEF Appended
  <2>2. m \in Nat /\ cap + 1 <= m /\ cap + 1 \in Nat /\ s.len = cap
    BY <1>1, <1>4
  <2>12. blank \in Cell
    BY <1>2
  <2> HIDE DEF m, cap, blank
  <2>3. b \in [1 .. m -> Cell]
    <3>1. ASSUME NEW i \in 1 .. m
          PROVE  (IF i <= cap THEN a[i] ELSE IF i = cap + 1 THEN p ELSE blank) \in Cell
      <4>1. i <= cap => i \in 1 .. cap
        BY <1>1, <2>2
      <4> QED
        BY <1>2, <2>12, <4>1
    <3> QED
      BY <3>1
  <2>4. \A i \in 1 .. cap : b[i] = a[i]
    <3>1. \A i \in 1 .. cap : i \in 1 .. m /\ i <= cap
      BY <1>1, <2>2
    <3> QED
      BY <3>1
  <2>5. b[cap + 1] = p
    <3>1. cap + 1 \in 1 .. m /\ ~(cap + 1 <= cap)
      BY <1>1, <2>2
    <3> QED
      BY <3>1
  <2> HIDE DEF b
  <2>6. b \in Seq(Cell) /\ Len(b) = m
    BY <2>2, <2>3
  <2>7. ASSUME NEW i \in 1 .. cap + 1 PROVE b[i] \in Pattern
    <3>1. i = cap + 1 \/ i \in 1 .. cap
      BY <1>1
    <3> QED
      BY <1>1, <2>2, <2>4, <2>5, <3>1
  <2>8. [array |-> b, len |-> cap + 1] \in Slice
    BY <2>2, <2>6, <2>7, SliceFields
  <2>9. Len(a) <= Len(b)
    BY <1>1, <2>2, <2>6 DEF cap
  <2>10. \A i \in 1 .. Len(a) : a[i] \in Pattern => b[i] \in Pattern
    BY <2>4 DEF cap
  <2> HIDE DEF a
  <2>11. Extends(s, [array |-> b, len |-> cap + 1])
    BY <2>9, <2>10 DEF Extends, a
  <2> QED
    BY <2>1, <2>8, <2>11
<1> QED
  BY <1>3, <1>4

LEMMA AddPatternsTyped ==
  ASSUME NEW s \in Slice, NEW patterns \in Seq(Pattern)
  PROVE  AddPatterns(s, patterns) \in Slice /\ Extends(s, AddPatterns(s, patterns))
<1> DEFINE n == Len(patterns)
           With(i, g) == IF patterns[i] \in ToSet(SubSeq(g.array, 1, g.len)) THEN g
                         ELSE Appended(g, patterns[i])
           grown[i \in 0 .. n] == IF i = 0 THEN s ELSE With(i, grown[i - 1])
           step == [i \in 1 .. n |-> [g \in Slice |-> With(i, g)]]
<1>1. AddPatterns(s, patterns) = grown[n]
  BY DEF AddPatterns
<1>2. n \in Nat /\ \A i \in 1 .. n : patterns[i] \in Pattern
  OBVIOUS
<1>3. ASSUME NEW i \in 1 .. n, NEW g \in Slice
      PROVE  With(i, g) \in Slice /\ Extends(g, With(i, g))
  <2>1. Appended(g, patterns[i]) \in Slice /\ Extends(g, Appended(g, patterns[i]))
    BY <1>2, AppendedTyped
  <2>2. Extends(g, g)
    <3>1. Len(g.array) \in Nat
      BY SliceTyped
    <3> QED
      BY <3>1 DEF Extends
  <2> QED
    BY <2>1, <2>2
<1> HIDE DEF With, n
<1>4. /\ step \in [1 .. n -> [Slice -> Slice]]
      /\ \A i \in 1 .. n : \A g \in Slice : step[i][g] = With(i, g)
  BY <1>3
<1> HIDE DEF step
<1>5. PICK r \in [0 .. n -> Slice] : Loops(r, s, n, step)
  BY <1>2, <1>4, LoopRuns, Zenon
<1>6. ASSUME NEW i \in 1 .. n PROVE r[i] = With(i, r[i - 1])
  <2>1. i - 1 \in 0 .. n
    BY <1>2
  <2> QED
    BY <1>4, <1>5, <2>1 DEF Loops
<1>7. r = [i \in 0 .. n |-> IF i = 0 THEN s ELSE With(i, r[i - 1])]
  BY <1>2, <1>5, <1>6 DEF Loops
<1>8. grown = [i \in 0 .. n |-> IF i = 0 THEN s ELSE With(i, grown[i - 1])]
  BY <1>7
<1> HIDE DEF grown
<1> DEFINE G == {i \in 0 .. n : grown[i] \in Slice /\ Extends(s, grown[i])}
<1>9. 0 \in G
  <2>1. grown[0] = s /\ 0 \in 0 .. n
    BY <1>2, <1>8
  <2>2. Extends(s, s)
    <3>1. Len(s.array) \in Nat
      BY SliceTyped
    <3> QED
      BY <3>1 DEF Extends
  <2> QED
    BY <2>1, <2>2
<1>10. ASSUME NEW i \in 1 .. n, i - 1 \in G PROVE i \in G
  <2>1. i \in 0 .. n /\ i # 0
    BY <1>2
  <2>2. grown[i] = With(i, grown[i - 1])
    BY <1>8, <2>1
  <2>3. grown[i - 1] \in Slice /\ Extends(s, grown[i - 1])
    BY <1>10
  <2>4. grown[i] \in Slice /\ Extends(grown[i - 1], grown[i])
    BY <1>3, <2>2, <2>3
  <2>5. Extends(s, grown[i])
    <3>1. Len(s.array) \in Nat /\ Len(grown[i - 1].array) \in Nat /\ Len(grown[i].array) \in Nat
      BY <2>3, <2>4, SliceTyped
    <3> QED
      BY <2>3, <2>4, <3>1 DEF Extends
  <2> QED
    BY <2>1, <2>4, <2>5
<1>11. \A i \in 1 .. n : i - 1 \in G => i \in G
  BY <1>10
<1>12. n \in 0 .. n /\ n \in Nat
  BY <1>2
<1> HIDE DEF G
<1>13. \A i \in 0 .. n : i \in G
  BY <1>9, <1>11, <1>12, CountsUp
<1> QED
  BY <1>1, <1>12, <1>13 DEF G

-----------------------------------------------------------------------------
(* What the fleet, the patterns, the files and the commands hold.          *)
Readable(slice, n) == n <= Len(slice.array) /\ \A i \in 1 .. n : slice.array[i] \in Pattern

Fields == {"op", "patterns", "got", "source", "shared"}

CmdOK(slice, cmd) ==
  /\ cmd.op \in {"open", "connect"} => "patterns" \in DOMAIN cmd /\ cmd.patterns \in Seq(Pattern)
  /\ cmd.op \in {"save", "new"} => "got" \in DOMAIN cmd /\ cmd.got \in Seq(Pattern)
  /\ cmd.op = "save" =>
       /\ "source" \in DOMAIN cmd /\ "shared" \in DOMAIN cmd
       /\ cmd.source \in Seq(Pattern)
       /\ cmd.at = "read" /\ cmd.shared => Readable(slice, Len(cmd.source))

FilesOK == \A n \in DOMAIN disk : disk[n].patterns \in Seq(Pattern)

HeldInv ==
  /\ fleet \in Seq(Id)
  /\ run \in Slice
  /\ FilesOK
  /\ \A k \in Op : CmdOK(run, ops[k])

LEMMA RestsOK ==
  ASSUME NEW slice
  PROVE  CmdOK(slice, LoadRows) /\ CmdOK(slice, Idle)
  BY DEF CmdOK, LoadRows, Idle

LEMMA FirstFleetOK == FirstFleet \in Seq(Id)
<1>1. Hosts(Given) \in Seq(Alias)
  BY GivenAssumption, HostsTyped
<1>2. <<>> \in Seq(Id)
  OBVIOUS
<1> QED
  BY <1>1, <1>2, AddedAllTyped DEF FirstFleet

LEMMA FirstRunOK == [array |-> Given, len |-> Len(Given)] \in Slice
<1>1. Given \in Seq(Cell) /\ Len(Given) \in Nat /\ \A i \in 1 .. Len(Given) : Given[i] \in Pattern
  <2>1. Given \in Seq(Pattern)
    BY GivenAssumption
  <2>2. Pattern \subseteq Cell
    BY DEF Cell
  <2> QED
    BY <2>1, <2>2
<1> QED
  BY <1>1, SliceFields

LEMMA FirstOpsOK ==
  ASSUME NEW slice
  PROVE  \A k \in Op : CmdOK(slice, FirstOps[k])
<1>1. \A k \in Op : FirstOps[k] = LoadRows \/ FirstOps[k] = Idle
  BY DEF FirstOps, Op
<1> QED
  BY <1>1, RestsOK

LEMMA InitHeldInv == Init => HeldInv
<1> SUFFICES ASSUME Init PROVE HeldInv
  OBVIOUS
<1>1. fleet \in Seq(Id)
  BY FirstFleetOK DEF Init
<1>2. run \in Slice
  BY FirstRunOK DEF Init
<1>3. FilesOK
  <2>1. disk = [n \in DOMAIN Saved |-> Whole(Saved[n])]
    BY DEF Init
  <2>2. ASSUME NEW n \in DOMAIN Saved PROVE Whole(Saved[n]).patterns \in Seq(Pattern)
    <3>1. Saved[n] \in Seq(Pattern)
      BY SavedAssumption
    <3>2. Whole(Saved[n]).patterns = Saved[n]
      BY DEF Whole
    <3> QED
      BY <3>1, <3>2
  <2> QED
    BY <2>1, <2>2 DEF FilesOK
<1>4. \A k \in Op : CmdOK(run, ops[k])
  BY FirstOpsOK DEF Init
<1> QED
  BY <1>1, <1>2, <1>3, <1>4 DEF HeldInv

(* A command that goes on keeps its fields, and does not read again.       *)
LEMMA GoesOn ==
  ASSUME NEW slice, NEW old, NEW new, CmdOK(slice, old), "op" \in DOMAIN old, new.at # "read",
         DOMAIN new = DOMAIN old, \A f \in Fields \cap DOMAIN old : new[f] = old[f]
  PROVE  CmdOK(slice, new)
<1>1. new.op = old.op
  BY DEF Fields
<1>2. "patterns" \in DOMAIN old => new.patterns = old.patterns
  BY DEF Fields
<1>3. "got" \in DOMAIN old => new.got = old.got
  BY DEF Fields
<1>4. "source" \in DOMAIN old => new.source = old.source
  BY DEF Fields
<1> QED
  BY <1>1, <1>2, <1>3, <1>4 DEF CmdOK

LEMMA EndFields ==
  ASSUME NEW slice, NEW old, CmdOK(slice, old), Shaped(old)
  PROVE  /\ \A at : at # "read" => CmdOK(slice, [old EXCEPT !.at = at])
         /\ \A err : CmdOK(slice, [old EXCEPT !.at = "done", !.err = err])
         /\ \A v : CmdOK(slice, [old EXCEPT !.at = "done", !.rows = v])
<1>1. "op" \in DOMAIN old /\ "at" \in DOMAIN old
  BY DEF Shaped
<1>2. ASSUME NEW at, at # "read" PROVE CmdOK(slice, [old EXCEPT !.at = at])
  <2> DEFINE new == [old EXCEPT !.at = at]
  <2>1. /\ new.at = at /\ DOMAIN new = DOMAIN old
        /\ \A f \in Fields \cap DOMAIN old : new[f] = old[f]
    BY <1>1 DEF Fields
  <2> HIDE DEF new
  <2>2. CmdOK(slice, new)
    BY <1>1, <1>2, <2>1, GoesOn
  <2> QED
    BY <2>2 DEF new
<1>3. ASSUME NEW err PROVE CmdOK(slice, [old EXCEPT !.at = "done", !.err = err])
  <2> DEFINE new == [old EXCEPT !.at = "done", !.err = err]
  <2>1. /\ new.at = "done" /\ DOMAIN new = DOMAIN old
        /\ \A f \in Fields \cap DOMAIN old : new[f] = old[f]
    BY <1>1 DEF Fields
  <2> HIDE DEF new
  <2>2. CmdOK(slice, new)
    BY <1>1, <2>1, GoesOn
  <2> QED
    BY <2>2 DEF new
<1>4. ASSUME NEW v PROVE CmdOK(slice, [old EXCEPT !.at = "done", !.rows = v])
  <2> DEFINE new == [old EXCEPT !.at = "done", !.rows = v]
  <2>1. /\ new.at = "done" /\ DOMAIN new = DOMAIN old
        /\ \A f \in Fields \cap DOMAIN old : new[f] = old[f]
    BY <1>1 DEF Fields
  <2> HIDE DEF new
  <2>2. CmdOK(slice, new)
    BY <1>1, <2>1, GoesOn
  <2> QED
    BY <2>2 DEF new
<1> QED
  BY <1>2, <1>3, <1>4

(* dropPattern leaves what a save is about to read.                        *)
LEMMA DropKeeps ==
  ASSUME run \in Slice, Seen \subseteq Nat, NEW name
  PROVE  /\ DropPattern(name) \in Slice
         /\ \A n \in Seen : Readable(run, n) => Readable(DropPattern(name), n)
<1> DEFINE kept == Without(Patterns, name)
           blank == ""
           m == Len(run.array)
           b == [i \in DOMAIN run.array |->
                   IF i <= Len(kept) THEN kept[i]
                   ELSE IF \E n \in Seen : i <= n THEN run.array[i] ELSE blank]
<1>1. /\ run.array \in Seq(Cell) /\ run.len \in Nat /\ m \in Nat /\ run.len <= m
      /\ \A i \in 1 .. run.len : run.array[i] \in Pattern
  BY SliceTyped
<1>2. Patterns \in Seq(Pattern) /\ Len(Patterns) = run.len
  <2>1. Patterns = [i \in 1 .. run.len |-> run.array[i]]
    BY <1>1 DEF Patterns
  <2>2. Patterns \in [1 .. run.len -> Pattern]
    BY <1>1, <2>1
  <2> QED
    BY <1>1, <2>2
<1>3. kept \in Seq(Pattern) /\ Len(kept) <= run.len
  BY <1>2, WithoutTyped
<1>4. blank \in Cell
  BY DEF Cell
<1>5. DropPattern(name) = [array |-> b, len |-> Len(kept)]
  BY DEF DropPattern
<1> HIDE DEF kept, blank
<1>6. /\ Len(kept) \in Nat /\ Len(kept) <= m /\ DOMAIN run.array = 1 .. m
      /\ \A i \in 1 .. Len(kept) : kept[i] \in Pattern
      /\ \A i \in 1 .. m : run.array[i] \in Cell
  BY <1>1, <1>3
<1> HIDE DEF m
<1>7. b \in [1 .. m -> Cell]
  <2>1. ASSUME NEW i \in 1 .. m
        PROVE  (IF i <= Len(kept) THEN kept[i]
                ELSE IF \E n \in Seen : i <= n THEN run.array[i] ELSE blank) \in Cell
    <3>1. i <= Len(kept) => i \in 1 .. Len(kept)
      BY <1>6
    <3> QED
      BY <1>4, <1>6, <3>1 DEF Cell
  <2> QED
    BY <1>6, <2>1
<1>8. \A i \in 1 .. Len(kept) : b[i] = kept[i]
  <2>1. \A i \in 1 .. Len(kept) : i \in DOMAIN run.array /\ i <= Len(kept)
    BY <1>1, <1>6
  <2> QED
    BY <2>1
<1>9. ASSUME NEW n \in Seen, NEW i \in 1 .. m, i <= n, run.array[i] \in Pattern PROVE b[i] \in Pattern
  <2>1. i \in DOMAIN run.array
    BY <1>6
  <2>2. i <= Len(kept) => i \in 1 .. Len(kept)
    BY <1>6
  <2> QED
    BY <1>6, <1>9, <2>1, <2>2
<1> HIDE DEF b
<1>10. b \in Seq(Cell) /\ Len(b) = m
  BY <1>1, <1>7
<1>11. DropPattern(name) \in Slice
  <2>1. \A i \in 1 .. Len(kept) : b[i] \in Pattern
    BY <1>6, <1>8
  <2>2. [array |-> b, len |-> Len(kept)] \in Slice
    BY <1>6, <1>10, <2>1, SliceFields
  <2> QED
    BY <1>5, <2>2
<1>12. DropPattern(name).array = b
  BY <1>5
<1>13. ASSUME NEW n \in Seen, Readable(run, n) PROVE Readable(DropPattern(name), n)
  <2>1. n <= m /\ \A i \in 1 .. n : run.array[i] \in Pattern
    BY <1>13 DEF Readable, m
  <2>2. n \in Nat
    OBVIOUS
  <2>3. ASSUME NEW i \in 1 .. n PROVE b[i] \in Pattern
    <3>1. i \in 1 .. m /\ i <= n
      BY <1>1, <2>1, <2>2
    <3> QED
      BY <1>9, <2>1, <3>1
  <2> QED
    BY <1>10, <1>12, <2>1, <2>3 DEF Readable
<1> QED
  BY <1>11, <1>13

(* A step that leaves the fleet, the patterns and the files, and changes   *)
(* one command.                                                            *)
LEMMA OneKeepsHeld ==
  ASSUME HeldInv, ShapeInv, NEW k \in Op, DOMAIN ops' = Op, \A j \in Op \ {k} : ops'[j] = ops[j],
         fleet' \in Seq(Id), UNCHANGED run, FilesOK', CmdOK(run, ops'[k])
  PROVE  HeldInv'
<1>1. \A j \in Op : CmdOK(run, ops'[j])
  BY DEF HeldInv
<1> QED
  BY <1>1 DEF HeldInv

LEMMA SetsOne ==
  ASSUME ShapeInv, NEW k \in Op
  PROVE  /\ \A cmd : Sets(k, cmd) =>
              DOMAIN ops' = Op /\ ops'[k] = cmd /\ \A j \in Op \ {k} : ops'[j] = ops[j]
         /\ \A at : Goes(k, at) =>
              DOMAIN ops' = Op /\ ops'[k] = [ops[k] EXCEPT !.at = at] /\ \A j \in Op \ {k} : ops'[j] = ops[j]
  BY DEF ShapeInv, Sets, Goes

(* What a save is given to write.                                          *)
LEMMA ToSaveOK ==
  ASSUME HeldInv
  PROVE  ToSave \in Seq(Pattern) /\ (run.len > 0 => Readable(run, Len(ToSave)))
<1>1. /\ run.array \in Seq(Cell) /\ run.len \in Nat /\ Len(run.array) \in Nat
      /\ run.len <= Len(run.array) /\ \A i \in 1 .. run.len : run.array[i] \in Pattern
  BY SliceTyped DEF HeldInv
<1>2. CASE run.len > 0
  <2>1. ToSave = [i \in 1 .. run.len |-> run.array[i]]
    BY <1>1, <1>2 DEF ToSave, Patterns
  <2>2. ToSave \in [1 .. run.len -> Pattern]
    BY <1>1, <2>1
  <2>3. ToSave \in Seq(Pattern) /\ Len(ToSave) = run.len
    BY <1>1, <2>2
  <2> QED
    BY <1>1, <2>3 DEF Readable
<1>3. CASE ~(run.len > 0)
  <2>1. ToSave = [i \in DOMAIN fleet |-> fleet[i].alias]
    BY <1>3 DEF ToSave
  <2>2. fleet \in Seq(Id) /\ DOMAIN fleet = 1 .. Len(fleet) /\ Len(fleet) \in Nat
    BY DEF HeldInv
  <2>3. \A i \in 1 .. Len(fleet) : fleet[i].alias \in Pattern
    <3>1. \A i \in 1 .. Len(fleet) : fleet[i] \in Id
      BY <2>2
    <3> QED
      BY <3>1, ResolveAssumption DEF Id
  <2>4. ToSave \in [1 .. Len(fleet) -> Pattern]
    BY <2>1, <2>2, <2>3
  <2> QED
    BY <1>3, <2>2, <2>4
<1> QED
  BY <1>2, <1>3

LEMMA NoPatterns == <<>> \in Seq(Pattern)
  OBVIOUS

LEMMA SaveOK ==
  ASSUME NEW slice, NEW cmd, NEW name, NEW over, NEW shared \in BOOLEAN, NEW source \in Seq(Pattern),
         shared => Readable(slice, Len(source)),
         cmd = [op |-> "save", at |-> "read", name |-> name, over |-> over,
                shared |-> shared, source |-> source, got |-> <<>>, err |-> ""]
  PROVE  CmdOK(slice, cmd)
<1>1. /\ cmd.op = "save" /\ cmd.got = <<>> /\ cmd.source = source /\ (cmd.shared <=> shared)
      /\ "got" \in DOMAIN cmd /\ "source" \in DOMAIN cmd /\ "shared" \in DOMAIN cmd
  OBVIOUS
<1> QED
  BY <1>1, NoPatterns DEF CmdOK

LEMMA RequestsKeepHeld ==
  ASSUME HeldInv, ShapeInv, NEW k \in Op, Request(k)
  PROVE  HeldInv'
<1>1. UNCHANGED <<fleet, run, disk>>
  BY DEF Request, SubmitSave, AgreeToReplace, SubmitHosts, AgreeToDelete, OpenGroup, ConnectHosts,
         RemoveHost, CommitSave
<1>2. fleet' \in Seq(Id) /\ UNCHANGED run /\ FilesOK'
  BY <1>1 DEF HeldInv, FilesOK
<1>3. \E cmd : Sets(k, cmd) /\ CmdOK(run, cmd)
  <2>1. CASE SubmitSave(k) \/ AgreeToReplace(k)
    <3>1. PICK name, over : CommitSave(k, name, over)
      BY <2>1, Zenon DEF SubmitSave, AgreeToReplace
    <3> DEFINE shared == run.len > 0
               cmd == [op |-> "save", at |-> "read", name |-> name, over |-> over,
                       shared |-> shared, source |-> ToSave, got |-> <<>>, err |-> ""]
    <3>2. Sets(k, cmd)
      BY <3>1, Zenon DEF CommitSave
    <3>3. shared \in BOOLEAN /\ ToSave \in Seq(Pattern) /\ (shared => Readable(run, Len(ToSave)))
      BY ToSaveOK
    <3>4. cmd = [op |-> "save", at |-> "read", name |-> name, over |-> over,
                 shared |-> shared, source |-> ToSave, got |-> <<>>, err |-> ""]
      OBVIOUS
    <3> HIDE DEF cmd, shared
    <3>5. CmdOK(run, cmd)
      BY <3>3, <3>4, SaveOK
    <3> QED
      BY <3>2, <3>5
  <2>2. CASE SubmitHosts(k)
    <3>1. PICK patterns \in Typed :
            Sets(k, [op |-> "new", at |-> "check", name |-> prompt.name, over |-> FALSE,
                     got |-> patterns, err |-> ""])
      BY <2>2 DEF SubmitHosts
    <3>2. patterns \in Seq(Pattern)
      BY TypedAssumption
    <3> DEFINE cmd == [op |-> "new", at |-> "check", name |-> prompt.name, over |-> FALSE,
                       got |-> patterns, err |-> ""]
    <3>3. cmd.op = "new" /\ "got" \in DOMAIN cmd /\ cmd.got = patterns
      OBVIOUS
    <3>4. Sets(k, cmd)
      BY <3>1
    <3> HIDE DEF cmd
    <3>5. CmdOK(run, cmd)
      BY <3>2, <3>3 DEF CmdOK
    <3> QED
      BY <3>4, <3>5
  <2>3. CASE AgreeToDelete(k)
    <3>1. CmdOK(run, [op |-> "delete", at |-> "unlink", name |-> prompt.name])
      BY DEF CmdOK
    <3> QED
      BY <2>3, <3>1 DEF AgreeToDelete
  <2>4. CASE OpenGroup(k)
    <3>1. PICK name : Sets(k, [op |-> "open", at |-> "load", name |-> name, patterns |-> <<>>])
      BY <2>4 DEF OpenGroup
    <3>2. <<>> \in Seq(Pattern)
      OBVIOUS
    <3>3. CmdOK(run, [op |-> "open", at |-> "load", name |-> name, patterns |-> <<>>])
      BY <3>2 DEF CmdOK
    <3> QED
      BY <3>1, <3>3
  <2>5. CASE ConnectHosts(k)
    <3>1. PICK patterns \in Connects : Sets(k, [op |-> "connect", at |-> "done", patterns |-> patterns])
      BY <2>5 DEF ConnectHosts
    <3>2. patterns \in Seq(Pattern)
      BY TypedAssumption
    <3>3. CmdOK(run, [op |-> "connect", at |-> "done", patterns |-> patterns])
      BY <3>2 DEF CmdOK
    <3> QED
      BY <3>1, <3>3
  <2>6. CASE RemoveHost(k)
    <3>1. PICK id : Sets(k, [op |-> "remove", at |-> "leave", id |-> id])
      BY <2>6 DEF RemoveHost
    <3>2. CmdOK(run, [op |-> "remove", at |-> "leave", id |-> id])
      BY DEF CmdOK
    <3> QED
      BY <3>1, <3>2
  <2> QED
    BY <2>1, <2>2, <2>3, <2>4, <2>5, <2>6 DEF Request
<1>4. PICK cmd : Sets(k, cmd) /\ CmdOK(run, cmd)
  BY <1>3
<1>5. DOMAIN ops' = Op /\ ops'[k] = cmd /\ \A j \in Op \ {k} : ops'[j] = ops[j]
  BY <1>4, SetsOne
<1> QED
  BY <1>2, <1>4, <1>5, OneKeepsHeld

(* A list without an element holds nothing new.                            *)
LEMMA WithoutLess ==
  ASSUME NEW S, NEW list \in Seq(S), NEW x
  PROVE  ToSet(Without(list, x)) \subseteq ToSet(list)
<1> DEFINE T == ToSet(list)
<1>1. list \in Seq(T)
  <2>1. list \in [1 .. Len(list) -> T] /\ Len(list) \in Nat
    BY DEF ToSet
  <2> QED
    BY <2>1
<1> HIDE DEF T
<1>2. Without(list, x) \in Seq(T)
  BY <1>1, WithoutTyped
<1>3. ToSet(Without(list, x)) \subseteq T
  BY <1>2 DEF ToSet
<1> QED
  BY <1>3 DEF T

(* A save reads one pattern, from the array or from what it was left.      *)
LEMMA ReadsOK ==
  ASSUME run \in Slice, NEW cmd, CmdOK(run, cmd), Shaped(cmd), cmd.op = "save", cmd.at = "read",
         NEW i, i = Len(cmd.got) + 1, ~(i > Len(cmd.source)),
         NEW new, new = [cmd EXCEPT !.got = Append(@, IF cmd.shared THEN run.array[i] ELSE cmd.source[i])]
  PROVE  CmdOK(run, new)
<1> DEFINE p == IF cmd.shared THEN run.array[i] ELSE cmd.source[i]
           got == Append(cmd.got, p)
<1>1. /\ cmd.got \in Seq(Pattern) /\ cmd.source \in Seq(Pattern)
      /\ "got" \in DOMAIN cmd /\ "source" \in DOMAIN cmd /\ "shared" \in DOMAIN cmd
      /\ cmd.shared => Readable(run, Len(cmd.source))
  BY DEF CmdOK
<1>2. i \in 1 .. Len(cmd.source)
  <2>1. Len(cmd.got) \in Nat /\ Len(cmd.source) \in Nat
    BY <1>1
  <2> QED
    BY <2>1
<1>3. p \in Pattern
  BY <1>1, <1>2 DEF Readable
<1>4. new = [cmd EXCEPT !.got = got]
  OBVIOUS
<1> HIDE DEF p
<1>5. got \in Seq(Pattern)
  BY <1>1, <1>3
<1> HIDE DEF got
<1>6. /\ DOMAIN new = DOMAIN cmd /\ new.got = got
      /\ \A f \in DOMAIN cmd \ {"got"} : new[f] = cmd[f]
  BY <1>1, <1>4
<1>7. new.op = "save" /\ new.source = cmd.source /\ new.shared = cmd.shared
  <2>1. "op" \in DOMAIN cmd /\ "source" \in DOMAIN cmd /\ "shared" \in DOMAIN cmd
    BY <1>1 DEF Shaped
  <2> QED
    BY <1>6, <2>1
<1> QED
  BY <1>1, <1>5, <1>6, <1>7 DEF CmdOK

LEMMA CommandsKeepHeld ==
  ASSUME HeldInv, ShapeInv, NEW k \in Op, Command(k)
  PROVE  HeldInv'
<1>1. UNCHANGED run /\ CmdOK(run, ops[k]) /\ Shaped(ops[k]) /\ run \in Slice
  BY DEF Command, SaveReads, CreateChecks, SaveWrites, SaveRenames, DeleteUnlinks, LoadLists,
         OpenLoads, RemoveLeaves, HeldInv, ShapeInv
<1>2. fleet' \in Seq(Id)
  <2>1. CASE RemoveLeaves(k)
    <3>1. fleet' = Without(fleet, ops[k].id)
      BY <2>1 DEF RemoveLeaves
    <3> QED
      BY <3>1, WithoutTyped DEF HeldInv
  <2>2. CASE ~RemoveLeaves(k)
    BY <2>2 DEF Command, SaveReads, CreateChecks, SaveWrites, SaveRenames, DeleteUnlinks, LoadLists,
                OpenLoads, HeldInv
  <2> QED
    BY <2>1, <2>2
<1>3. FilesOK'
  <2>1. CASE SaveRenames(k) /\ ~UNCHANGED disk
    <3>1. ops[k].op \in {"save", "new"} /\ disk' = Put(ops[k].name, Whole(ops[k].got))
      BY <2>1 DEF SaveRenames
    <3>2. Whole(ops[k].got).patterns = ops[k].got /\ ops[k].got \in Seq(Pattern)
      BY <1>1, <3>1 DEF Whole, CmdOK
    <3>3. \A n \in DOMAIN disk' : disk'[n] = Whole(ops[k].got) \/ (n \in DOMAIN disk /\ disk'[n] = disk[n])
      BY <3>1 DEF Put
    <3> QED
      BY <3>2, <3>3 DEF FilesOK, HeldInv
  <2>2. CASE DeleteUnlinks(k)
    <3>1. disk' = Restrict(disk, DOMAIN disk \ {ops[k].name}) \/ UNCHANGED disk
      BY <2>2 DEF DeleteUnlinks
    <3>2. DOMAIN disk' \subseteq DOMAIN disk /\ \A n \in DOMAIN disk' : disk'[n] = disk[n]
      BY <3>1 DEF Restrict
    <3> QED
      BY <3>2 DEF FilesOK, HeldInv
  <2>3. CASE UNCHANGED disk
    BY <2>3 DEF FilesOK, HeldInv
  <2> QED
    BY <2>1, <2>2, <2>3
    DEF Command, SaveReads, CreateChecks, SaveWrites, LoadLists, OpenLoads, RemoveLeaves
<1>4. \A at : at # "read" => CmdOK(run, [ops[k] EXCEPT !.at = at])
  BY <1>1, EndFields
<1>5. \A err : CmdOK(run, [ops[k] EXCEPT !.at = "done", !.err = err])
  BY <1>1, EndFields
<1>6. \A v : CmdOK(run, [ops[k] EXCEPT !.at = "done", !.rows = v])
  BY <1>1, EndFields
<1>7. \E cmd : /\ DOMAIN ops' = Op /\ ops'[k] = cmd /\ \A j \in Op \ {k} : ops'[j] = ops[j]
               /\ CmdOK(run, cmd)
  <2>1. ASSUME NEW cmd, Sets(k, cmd), CmdOK(run, cmd) PROVE <1>7!:
    BY <2>1, SetsOne
  <2>2. ASSUME NEW at, Goes(k, at), at # "read" PROVE <1>7!:
    <3>1. ops'[k] = [ops[k] EXCEPT !.at = at] /\ DOMAIN ops' = Op /\ \A j \in Op \ {k} : ops'[j] = ops[j]
      BY <2>2, SetsOne
    <3> QED
      BY <1>4, <2>2, <3>1
  <2>3. CASE SaveReads(k)
    <3> DEFINE i == Len(ops[k].got) + 1
               new == [ops[k] EXCEPT !.got = Append(@, IF ops[k].shared THEN run.array[i]
                                                        ELSE ops[k].source[i])]
    <3>1. ops[k].op = "save" /\ ops[k].at = "read"
      BY <2>3 DEF SaveReads
    <3>2. CASE i > Len(ops[k].source)
      <4>1. \E at \in {"write", "check"} : Goes(k, at)
        BY <2>3, <3>2 DEF SaveReads
      <4> QED
        BY <2>2, <4>1
    <3>3. CASE ~(i > Len(ops[k].source))
      <4>1. Sets(k, new)
        BY <2>3, <3>3 DEF SaveReads
      <4>3. i = Len(ops[k].got) + 1
        OBVIOUS
      <4>4. new = [ops[k] EXCEPT !.got = Append(@, IF ops[k].shared THEN run.array[i]
                                                   ELSE ops[k].source[i])]
        OBVIOUS
      <4> HIDE DEF new, i
      <4>2. CmdOK(run, new)
        BY <1>1, <3>1, <3>3, <4>3, <4>4, ReadsOK
      <4> QED
        BY <2>1, <4>1, <4>2
    <3> QED
      BY <3>2, <3>3
  <2>4. CASE CreateChecks(k) \/ SaveWrites(k) \/ SaveRenames(k) \/ DeleteUnlinks(k) \/ LoadLists(k)
             \/ RemoveLeaves(k)
    <3>1. \/ \E at \in {"write", "rename", "done"} : Goes(k, at)
          \/ \E err : Sets(k, [ops[k] EXCEPT !.at = "done", !.err = err])
          \/ \E v : Sets(k, [ops[k] EXCEPT !.at = "done", !.rows = v])
      BY <2>4 DEF CreateChecks, SaveWrites, SaveRenames, DeleteUnlinks, LoadLists, RemoveLeaves
    <3> QED
      BY <1>5, <1>6, <2>1, <2>2, <3>1
  <2>5. CASE OpenLoads(k)
    <3>1. CASE Goes(k, "failed")
      BY <2>2, <3>1
    <3>2. CASE ~Goes(k, "failed")
      <4>1. PICK n \in DOMAIN disk : Sets(k, [ops[k] EXCEPT !.at = "done", !.patterns = disk[n].patterns])
        BY <2>5, <3>2 DEF OpenLoads
      <4>2. disk[n].patterns \in Seq(Pattern) /\ ops[k].op = "open"
        BY <2>5 DEF OpenLoads, HeldInv, FilesOK
      <4> DEFINE v == disk[n].patterns
                 new == [ops[k] EXCEPT !.at = "done", !.patterns = v]
      <4>3. "patterns" \in DOMAIN ops[k] /\ "op" \in DOMAIN ops[k]
        BY <1>1, <4>2 DEF CmdOK, Shaped
      <4> HIDE DEF v
      <4>4. DOMAIN new = DOMAIN ops[k] /\ new.op = "open" /\ new.patterns = v
        BY <4>2, <4>3
      <4> HIDE DEF new
      <4>5. CmdOK(run, new)
        BY <4>2, <4>3, <4>4 DEF CmdOK, v
      <4>6. Sets(k, new)
        BY <4>1 DEF new, v
      <4> QED
        BY <2>1, <4>5, <4>6
    <3> QED
      BY <3>1, <3>2
  <2> QED
    BY <2>3, <2>4, <2>5 DEF Command
<1> QED
  BY <1>1, <1>2, <1>3, <1>7, OneKeepsHeld

(* What is read of the array can be read of what replaces it.              *)
LEMMA StillReads ==
  ASSUME NEW old \in Slice, NEW new \in Slice, Extends(old, new), NEW n \in Nat, Readable(old, n)
  PROVE  Readable(new, n)
<1>1. Len(old.array) \in Nat /\ Len(new.array) \in Nat
  BY SliceTyped
<1>2. \A i \in 1 .. n : i \in 1 .. Len(old.array)
  BY <1>1 DEF Readable
<1> QED
  BY <1>1, <1>2 DEF Readable, Extends

LEMMA KeepsArrayOK ==
  ASSUME run \in Slice, NEW new \in Slice, Extends(run, new), NEW cmd, CmdOK(run, cmd), Shaped(cmd)
  PROVE  CmdOK(new, KeepsArray(cmd, new))
<1>1. CmdOK(new, cmd)
  <2>1. cmd.op = "save" => cmd.source \in Seq(Pattern) /\ Len(cmd.source) \in Nat
    BY DEF CmdOK
  <2> QED
    BY <2>1, StillReads DEF CmdOK
<1>2. CASE cmd.op = "save" /\ cmd.at = "read" /\ cmd.shared /\ Len(new.array) # Len(run.array)
  <2> DEFINE source == SubSeq(run.array, 1, Len(cmd.source))
             left == [cmd EXCEPT !.shared = FALSE, !.source = source]
  <2>1. KeepsArray(cmd, new) = left
    BY <1>2 DEF KeepsArray
  <2>2. /\ cmd.source \in Seq(Pattern) /\ cmd.got \in Seq(Pattern)
        /\ "got" \in DOMAIN cmd /\ "source" \in DOMAIN cmd /\ "shared" \in DOMAIN cmd
        /\ "op" \in DOMAIN cmd /\ Readable(run, Len(cmd.source))
    BY <1>2 DEF CmdOK, Shaped
  <2>3. source \in Seq(Pattern)
    <3>1. run.array \in Seq(Cell) /\ Len(run.array) \in Nat /\ Len(cmd.source) \in Nat
      BY <2>2, SliceTyped
    <3> DEFINE m == Len(cmd.source)
    <3>2. m \in Nat /\ m <= Len(run.array) /\ \A i \in 1 .. m : run.array[i] \in Pattern
      BY <2>2, <3>1 DEF Readable
    <3> HIDE DEF m
    <3>3. SubSeq(run.array, 1, m) = [i \in 1 .. m |-> run.array[i]]
      BY <3>1, <3>2
    <3>4. SubSeq(run.array, 1, m) \in [1 .. m -> Pattern]
      BY <3>2, <3>3
    <3>5. SubSeq(run.array, 1, m) \in Seq(Pattern)
      BY <3>2, <3>4
    <3> QED
      BY <3>5 DEF m
  <2> HIDE DEF source
  <2>4. /\ DOMAIN left = DOMAIN cmd /\ left.op = "save" /\ left.source = source /\ ~left.shared
        /\ left.got = cmd.got
    BY <1>2, <2>2
  <2> HIDE DEF left
  <2> QED
    BY <2>1, <2>2, <2>3, <2>4 DEF CmdOK
<1>3. CASE ~(cmd.op = "save" /\ cmd.at = "read" /\ cmd.shared /\ Len(new.array) # Len(run.array))
  BY <1>1, <1>3 DEF KeepsArray
<1> QED
  BY <1>2, <1>3

LEMMA GrowsKeepsHeld ==
  ASSUME HeldInv, ShapeInv, NEW k \in Op, NEW patterns \in Seq(Pattern), NEW grown \in Seq(Id),
         Grows(k, patterns, grown)
  PROVE  HeldInv'
<1> DEFINE new == AddPatterns(run, patterns)
<1>1. /\ fleet' = grown /\ run' = new /\ UNCHANGED disk
      /\ ops' = [j \in DOMAIN ops |-> IF j = k THEN Idle ELSE KeepsArray(ops[j], new)]
  BY DEF Grows
<1>2. run \in Slice /\ new \in Slice /\ Extends(run, new)
  BY AddPatternsTyped DEF HeldInv
<1> HIDE DEF new
<1>3. ASSUME NEW j \in Op PROVE CmdOK(new, ops'[j])
  <2>1. CmdOK(run, ops[j]) /\ Shaped(ops[j])
    BY DEF HeldInv, ShapeInv
  <2>2. CmdOK(new, KeepsArray(ops[j], new))
    BY <1>2, <2>1, KeepsArrayOK
  <2>3. ops'[j] = IF j = k THEN Idle ELSE KeepsArray(ops[j], new)
    BY <1>1 DEF ShapeInv
  <2> QED
    BY <2>2, <2>3, RestsOK
<1>4. FilesOK'
  BY <1>1 DEF HeldInv, FilesOK
<1> QED
  BY <1>1, <1>2, <1>3, <1>4 DEF HeldInv

LEMMA LandsKeepHeld ==
  ASSUME HeldInv, ShapeInv, NEW k \in Op, Lands(k)
  PROVE  HeldInv'
<1>1. CmdOK(run, ops[k]) /\ run \in Slice /\ fleet \in Seq(Id) /\ FilesOK
  BY DEF HeldInv
<1>2. ASSUME UNCHANGED <<fleet, run, disk>>, \E cmd \in {LoadRows, Idle} : Sets(k, cmd)
      PROVE  HeldInv'
  <2>1. PICK cmd \in {LoadRows, Idle} : Sets(k, cmd)
    BY <1>2
  <2>2. DOMAIN ops' = Op /\ ops'[k] = cmd /\ \A j \in Op \ {k} : ops'[j] = ops[j]
    BY <2>1, SetsOne
  <2>3. CmdOK(run, cmd)
    BY <2>1, RestsOK
  <2>4. fleet' \in Seq(Id) /\ FilesOK' /\ UNCHANGED run
    BY <1>1, <1>2 DEF FilesOK
  <2> QED
    BY <2>2, <2>3, <2>4, OneKeepsHeld
<1>3. CASE SaveResult(k) \/ GroupSaved(k) \/ GroupRemoved(k) \/ GroupsLoaded(k)
  BY <1>2, <1>3 DEF SaveResult, GroupSaved, GroupRemoved, GroupsLoaded
<1>4. CASE ApplyGroup(k)
  <2>1. CASE ops[k].at = "failed" /\ Sets(k, LoadRows) /\ UNCHANGED <<fleet, run, prompt, rows, disk, agreed>>
    BY <1>2, <2>1
  <2>2. CASE Grows(k, ops[k].patterns, Opened(fleet, Hosts(ops[k].patterns)))
    <3>1. ops[k].patterns \in Seq(Pattern)
      BY <1>1, <1>4 DEF ApplyGroup, CmdOK
    <3>2. Opened(fleet, Hosts(ops[k].patterns)) \in Seq(Id)
      BY <1>1, <3>1, HostsTyped, OpenedDials
    <3> QED
      BY <2>2, <3>1, <3>2, GrowsKeepsHeld
  <2> QED
    BY <1>4, <2>1, <2>2 DEF ApplyGroup
<1>5. CASE ApplyConnect(k)
  <2> DEFINE grown == Connected(fleet, Hosts(ops[k].patterns))
  <2>1. CASE grown = fleet
    BY <1>2, <1>5, <2>1 DEF ApplyConnect
  <2>2. CASE grown # fleet
    <3>1. ops[k].patterns \in Seq(Pattern)
      BY <1>1, <1>5 DEF ApplyConnect, CmdOK
    <3>2. grown \in Seq(Id)
      BY <1>1, <3>1, HostsTyped, ConnectedDials
    <3>3. Grows(k, ops[k].patterns, grown)
      BY <1>5, <2>2 DEF ApplyConnect
    <3> QED
      BY <3>1, <3>2, <3>3, GrowsKeepsHeld
  <2> QED
    BY <2>1, <2>2
<1>6. CASE HostRemoved(k)
  <2>1. /\ run' = IF ops[k].id.n = 1 THEN DropPattern(ops[k].id.alias) ELSE run
        /\ Sets(k, Idle) /\ UNCHANGED <<fleet, disk>>
    BY <1>6 DEF HostRemoved
  <2>2. DOMAIN ops' = Op /\ ops'[k] = Idle /\ \A j \in Op \ {k} : ops'[j] = ops[j]
    BY <2>1, SetsOne
  <2>3. Seen \subseteq Nat
    <3>1. ASSUME NEW j \in DOMAIN ops, ops[j].op = "save" PROVE Len(ops[j].source) \in Nat
      <4>1. ops[j].source \in Seq(Pattern)
        BY <3>1 DEF HeldInv, CmdOK, ShapeInv
      <4> QED
        BY <4>1
    <3> QED
      BY <3>1 DEF Seen
  <2>4. run' \in Slice /\ \A n \in Seen : Readable(run, n) => Readable(run', n)
    BY <1>1, <2>1, <2>3, DropKeeps
  <2>5. ASSUME NEW j \in Op PROVE CmdOK(run', ops'[j])
    <3>1. CASE j = k
      BY <2>2, <3>1, RestsOK
    <3>2. CASE j # k
      <4>1. CmdOK(run, ops[j]) /\ ops'[j] = ops[j]
        BY <2>2, <3>2 DEF HeldInv
      <4>2. ops[j].op = "save" /\ ops[j].at = "read" => Len(ops[j].source) \in Seen
        BY DEF Seen, ShapeInv
      <4> QED
        BY <2>4, <4>1, <4>2 DEF CmdOK
    <3> QED
      BY <3>1, <3>2
  <2>6. fleet' \in Seq(Id) /\ FilesOK'
    BY <1>1, <2>1 DEF FilesOK
  <2> QED
    BY <2>4, <2>5, <2>6 DEF HeldInv
<1> QED
  BY <1>3, <1>4, <1>5, <1>6 DEF Lands

LEMMA NextKeepsHeld ==
  ASSUME HeldInv, ShapeInv, [Next]_vars
  PROVE  HeldInv'
<1>1. CASE \E k \in 1 .. MaxOps : User(k) \/ Works(k)
  BY <1>1, RequestsKeepHeld, CommandsKeepHeld, LandsKeepHeld DEF User, Works, Op
<1>2. CASE Keys \/ UNCHANGED vars
  BY <1>2 DEF Keys, BeginSave, BeginNew, SubmitName, BeginDelete, Cancel, vars, HeldInv, FilesOK
<1>3. CASE CloneHost
  <2>1. PICK i \in DOMAIN fleet : fleet' = Add(fleet, fleet[i].alias)
    BY <1>3 DEF CloneHost
  <2>2. fleet[i].alias \in Alias
    <3>1. fleet[i] \in Id
      BY DEF HeldInv
    <3> QED
      BY <3>1 DEF Id
  <2>3. fleet' \in Seq(Id)
    BY <2>1, <2>2, AddGrows DEF HeldInv
  <2>4. UNCHANGED <<run, ops, disk>>
    BY <1>3 DEF CloneHost
  <2> QED
    BY <2>3, <2>4 DEF HeldInv, FilesOK
<1>4. CASE Crash
  <2>1. fleet' \in Seq(Id) /\ run' \in Slice
    BY <1>4, FirstFleetOK, FirstRunOK DEF Crash
  <2>2. \A k \in Op : CmdOK(run', ops'[k])
    BY <1>4, FirstOpsOK DEF Crash
  <2>3. FilesOK'
    BY <1>4 DEF Crash, HeldInv, FilesOK
  <2> QED
    BY <2>1, <2>2, <2>3 DEF HeldInv
<1> QED
  BY <1>1, <1>2, <1>3, <1>4 DEF Next

(* Two places of one host are what ListsTwice counts.                      *)
LEMMA TwoPlaces ==
  ASSUME NEW S, NEW list \in Seq(S), NEW a, NEW i \in 1 .. Len(list), NEW j \in 1 .. Len(list),
         i # j, list[i] = a, list[j] = a
  PROVE  Cardinality({m \in DOMAIN list : list[m] = a}) > 1
<1> DEFINE T == {m \in DOMAIN list : list[m] = a}
           P == {i, j}
<1>1. Len(list) \in Nat /\ DOMAIN list = 1 .. Len(list)
  OBVIOUS
<1>2. IsFiniteSet(1 .. Len(list))
  BY <1>1, FS_Interval
<1>3. T \subseteq 1 .. Len(list) /\ P \subseteq T
  BY <1>1
<1> HIDE DEF T
<1>4. IsFiniteSet(T)
  BY <1>2, <1>3, FS_Subset
<1>5. Cardinality(P) = 2
  <2>1. IsFiniteSet({j}) /\ Cardinality({j}) = 1
    BY FS_Singleton
  <2>2. Cardinality({j} \cup {i}) = Cardinality({j}) + 1
    BY <2>1, FS_AddElement
  <2>3. Cardinality({j} \cup {i}) = 2
    BY <2>1, <2>2
  <2>4. {j} \cup {i} = P
    OBVIOUS
  <2> HIDE DEF P
  <2> QED
    BY <2>3, <2>4
<1>6. Cardinality(P) <= Cardinality(T) /\ Cardinality(T) \in Nat
  BY <1>3, <1>4, FS_Subset, FS_CardinalityType
<1> QED
  BY <1>5, <1>6 DEF T

(* What a step may do to the fleet.                                        *)
DialsOnce ==
  CloneHost \/ Crash \/
    \A id \in NewIds :
      \/ id.alias \notin Running(fleet) /\ id.n = 1
      \/ \E k \in 1 .. MaxOps :
           /\ ops[k].op = "open" /\ ops'[k] # ops[k]
           /\ id.alias \notin Running(fleet) /\ ListsTwice(ops[k].patterns, id.alias)

LEMMA StepDialsOnce == HeldInv /\ ShapeInv /\ [Next]_vars => DialsOnce
<1> SUFFICES ASSUME HeldInv, ShapeInv, [Next]_vars PROVE DialsOnce
  OBVIOUS
<1>1. ASSUME Ids(fleet') \subseteq Ids(fleet) PROVE DialsOnce
  BY <1>1 DEF DialsOnce, NewIds
<1>2. ASSUME NEW k \in Op, ApplyGroup(k) PROVE DialsOnce
  <2>1. CASE UNCHANGED fleet
    BY <1>1, <2>1
  <2>2. CASE Grows(k, ops[k].patterns, Opened(fleet, Hosts(ops[k].patterns)))
    <3> DEFINE h == Hosts(ops[k].patterns)
    <3>1. ops[k].op = "open" /\ ops[k].patterns \in Seq(Pattern) /\ fleet \in Seq(Id)
      BY <1>2 DEF ApplyGroup, HeldInv, CmdOK
    <3>2. h \in Seq(Alias)
      BY <3>1, HostsTyped
    <3>3. fleet' = Opened(fleet, h) /\ ops'[k] = Idle
      BY <2>2 DEF Grows, ShapeInv
    <3>4. ops'[k] # ops[k]
      <4>1. Idle.op # "open"
        BY DEF Idle
      <4> QED
        BY <3>1, <3>3, <4>1
    <3> HIDE DEF h
    <3>5. \A id \in NewIds :
            /\ id.alias \notin Running(fleet)
            /\ id.n = 1 \/ \E i, j \in 1 .. Len(h) : i # j /\ h[i] = id.alias /\ h[j] = id.alias
      BY <3>1, <3>2, <3>3, OpenedDials DEF NewIds
    <3>6. ASSUME NEW a, NEW i \in 1 .. Len(h), NEW j \in 1 .. Len(h), i # j, h[i] = a, h[j] = a
          PROVE  ListsTwice(ops[k].patterns, a)
      <4>1. Cardinality({m \in DOMAIN h : h[m] = a}) > 1
        BY <3>2, <3>6, TwoPlaces
      <4> QED
        BY <4>1 DEF ListsTwice, h
    <3>7. \A id \in NewIds : \/ id.alias \notin Running(fleet) /\ id.n = 1
                             \/ id.alias \notin Running(fleet) /\ ListsTwice(ops[k].patterns, id.alias)
      BY <3>5, <3>6
    <3> QED
      BY <3>1, <3>4, <3>7 DEF DialsOnce, Op
  <2> QED
    BY <1>2, <2>1, <2>2 DEF ApplyGroup
<1>3. ASSUME NEW k \in Op, ApplyConnect(k) PROVE DialsOnce
  <2>1. CASE UNCHANGED fleet
    BY <1>1, <2>1
  <2>2. CASE ~UNCHANGED fleet
    <3> DEFINE h == Hosts(ops[k].patterns)
    <3>1. ops[k].patterns \in Seq(Pattern) /\ fleet \in Seq(Id)
      BY <1>3 DEF ApplyConnect, HeldInv, CmdOK
    <3>2. h \in Seq(Alias)
      BY <3>1, HostsTyped
    <3>3. fleet' = Connected(fleet, h)
      BY <1>3, <2>2 DEF ApplyConnect, Grows
    <3> HIDE DEF h
    <3>4. \A id \in NewIds : id.alias \notin Running(fleet) /\ id.n = 1
      BY <3>1, <3>2, <3>3, ConnectedDials DEF NewIds
    <3> QED
      BY <3>4 DEF DialsOnce
  <2> QED
    BY <2>1, <2>2
<1>4. ASSUME NEW k \in Op, RemoveLeaves(k) PROVE DialsOnce
  <2>1. fleet' = Without(fleet, ops[k].id) /\ fleet \in Seq(Id)
    BY <1>4 DEF RemoveLeaves, HeldInv
  <2>2. ToSet(fleet') \subseteq ToSet(fleet)
    BY <2>1, WithoutLess
  <2> QED
    BY <1>1, <2>2 DEF Ids
<1>5. \/ UNCHANGED fleet \/ CloneHost \/ Crash
      \/ \E k \in Op : ApplyGroup(k) \/ ApplyConnect(k) \/ RemoveLeaves(k)
  <2>1. ASSUME NEW k \in Op, Request(k) PROVE UNCHANGED fleet
    BY <2>1 DEF Request, SubmitSave, AgreeToReplace, SubmitHosts, AgreeToDelete, OpenGroup,
                ConnectHosts, RemoveHost
  <2>2. ASSUME NEW k \in Op, Command(k) PROVE UNCHANGED fleet \/ RemoveLeaves(k)
    BY <2>2 DEF Command, SaveReads, CreateChecks, SaveWrites, SaveRenames, DeleteUnlinks, LoadLists,
                OpenLoads
  <2>3. ASSUME NEW k \in Op, Lands(k) PROVE UNCHANGED fleet \/ ApplyGroup(k) \/ ApplyConnect(k)
    BY <2>3 DEF Lands, SaveResult, GroupSaved, GroupRemoved, GroupsLoaded, HostRemoved
  <2>4. CASE Keys \/ UNCHANGED vars
    BY <2>4 DEF Keys, BeginSave, BeginNew, SubmitName, BeginDelete, Cancel, vars
  <2> QED
    BY <2>1, <2>2, <2>3, <2>4 DEF Next, User, Works, Op
<1>6. CASE CloneHost \/ Crash
  BY <1>6 DEF DialsOnce
<1> QED
  BY <1>1, <1>2, <1>3, <1>4, <1>5, <1>6

(* Within a run, only a clone or a group that lists a host twice gives a   *)
(* host another session: applyGroup and applyConnect.                      *)
THEOREM NothingDialledTwice == Spec => OpeningDialsOnce
<1>1. Init => IInv /\ HeldInv
  BY InitIInv, InitHeldInv
<1>2. IInv /\ HeldInv /\ [Next]_vars => (IInv /\ HeldInv)'
  BY NextKeepsIInv, NextKeepsHeld DEF IInv
<1>3. IInv /\ HeldInv /\ [Next]_vars =>
        [CloneHost \/ Crash \/
           \A id \in NewIds :
             \/ id.alias \notin Running(fleet) /\ id.n = 1
             \/ \E k \in 1 .. MaxOps :
                  /\ ops[k].op = "open" /\ ops'[k] # ops[k]
                  /\ id.alias \notin Running(fleet) /\ ListsTwice(ops[k].patterns, id.alias)]_vars
  BY StepDialsOnce DEF DialsOnce, IInv
<1> QED
  BY <1>1, <1>2, <1>3, PTL DEF Spec, OpeningDialsOnce
=============================================================================
