---------------------------- MODULE WorkingSet ----------------------------
(***************************************************************************)
(* The working set (internal/workingset): which hosts a command is about.  *)
(* The manager holds definitions, never snapshots: a selector that is      *)
(* evaluated against the current host list on every question, a name for   *)
(* it if it has one, and the named definitions to come back to.            *)
(*                                                                         *)
(* A glob pattern and a manual selection differ in how they are written:   *)
(* both stand for the identifiers they pick, "some" here.                  *)
(***************************************************************************)
EXTENDS Integers, Sequences, FiniteSets

CONSTANTS
  Host,     \* session identifiers
  Name,     \* names of working sets
  NoName,   \* the active selector is ad hoc
  MaxPos    \* bound of the model: positions a user types in a range

ASSUME NameAssumption == NoName \notin Name
ASSUME MaxPosAssumption == MaxPos \in Nat \ {0}

VARIABLES
  hosts,       \* m.hosts: the host list, in order
  active,      \* m.active: the selector in force
  activeName,  \* m.activeName
  named        \* m.named: name to selector, for the names that are defined

workingSetVars == <<hosts, active, activeName, named>>

All == [kind |-> "all"]
NewRange(from, to) == [kind |-> "range", from |-> from, to |-> to]
Some(ids) == [kind |-> "some", ids |-> ids]

Ranges == {r \in [kind : {"range"}, from : Nat \ {0}, to : Nat \ {0}] : r.from <= r.to}
Selector == {All} \cup Ranges \cup [kind : {"some"}, ids : SUBSET Host]

(* What the user can type: NewRange refuses an end before the start.       *)
Typed ==
  {All} \cup ({NewRange(a, b) : a \in 1 .. MaxPos, b \in 1 .. MaxPos} \cap Ranges)
        \cup {Some(ids) : ids \in SUBSET Host}

HostList == {s \in Seq(Host) : \A j, k \in DOMAIN s : s[j] = s[k] => j = k}

WorkingSetTypeOK ==
  /\ hosts \in HostList
  /\ active \in Selector
  /\ activeName \in Name \cup {NoName}
  /\ DOMAIN named \subseteq Name
  /\ \A n \in DOMAIN named : named[n] \in Selector

-----------------------------------------------------------------------------
Listed(s) == {s[k] : k \in DOMAIN s}

(* Selector.Select, as a set: its members keep the order of the list.      *)
Select(sel, list) ==
  CASE sel.kind = "all"   -> Listed(list)
    [] sel.kind = "range" -> {list[k] : k \in {j \in DOMAIN list : sel.from <= j /\ j <= sel.to}}
    [] sel.kind = "some"  -> Listed(list) \cap sel.ids

Members == Select(active, hosts)

(* Contains: is a host part of the working set.                            *)
IsMember(id) == id \in Members

Size(r) == r.to - r.from + 1

(* Defect: the last chunk is refused when it holds one host only.          *)
PageFrom_StopsEarly(r, direction, total) ==
  LET raw  == r.from + direction * Size(r)
      from == IF raw < 1 THEN 1 ELSE raw
  IN  IF (raw < 1 /\ r.from = 1) \/ (direction > 0 /\ from >= total) THEN 0 ELSE from

(* page: where the next chunk starts in a list of so many hosts, or 0 if   *)
(* there is none in this direction.                                        *)
PageFrom(r, direction, total) ==
  LET raw  == r.from + direction * Size(r)
      from == IF raw < 1 THEN 1 ELSE raw
  IN  IF (raw < 1 /\ r.from = 1) \/ (direction > 0 /\ from > total) THEN 0 ELSE from

PageOf(r, direction, total) ==
  LET from == PageFrom(r, direction, total) IN NewRange(from, from + Size(r) - 1)

WorkingSetInit ==
  /\ hosts \in {s \in UNION {[1 .. n -> Host] : n \in 0 .. Cardinality(Host)} : s \in HostList}
  /\ active = All
  /\ activeName = NoName
  /\ named = [n \in {} |-> All]

(* SetHosts: the list is replaced, definitions are kept.                   *)
SetHosts(list) ==
  /\ hosts' = list
  /\ UNCHANGED <<active, activeName, named>>

(* Apply, and Reset for All: a selector without a name.                    *)
Apply(sel) ==
  /\ active' = sel
  /\ activeName' = NoName
  /\ UNCHANGED <<hosts, named>>

(* Define: a new name, or a redefinition, which is felt at once when that  *)
(* set is active.                                                          *)
Define(n, sel) ==
  /\ named' = [m \in DOMAIN named \cup {n} |-> IF m = n THEN sel ELSE named[m]]
  /\ active' = IF n \in DOMAIN named /\ activeName = n THEN sel ELSE active
  /\ UNCHANGED <<hosts, activeName>>

(* Save: the active selector gets a name.                                  *)
Save(n) ==
  /\ named' = [m \in DOMAIN named \cup {n} |-> IF m = n THEN active ELSE named[m]]
  /\ activeName' = n
  /\ UNCHANGED <<hosts, active>>

Activate(n) ==
  /\ n \in DOMAIN named
  /\ active' = named[n]
  /\ activeName' = n
  /\ UNCHANGED <<hosts, named>>

(* Remove: the definition goes, the hosts stay.                            *)
RemoveSet(n) ==
  /\ n \in DOMAIN named
  /\ named' = [m \in DOMAIN named \ {n} |-> named[m]]
  /\ activeName' = IF activeName = n THEN NoName ELSE activeName
  /\ UNCHANGED <<hosts, active>>

(* Defect: a page keeps the name of the set it was turned from.            *)
Page_KeepsName(direction) ==
  /\ active.kind = "range"
  /\ PageFrom(active, direction, Len(hosts)) # 0
  /\ active' = PageOf(active, direction, Len(hosts))
  /\ UNCHANGED <<hosts, activeName, named>>

(* Next and Prev: the adjacent chunk of the same size, an ad hoc set.      *)
Page(direction) ==
  /\ active.kind = "range"
  /\ PageFrom(active, direction, Len(hosts)) # 0
  /\ active' = PageOf(active, direction, Len(hosts))
  /\ activeName' = NoName
  /\ UNCHANGED <<hosts, named>>

WorkingSetNext ==
  \/ \E n \in 0 .. Cardinality(Host) : \E list \in [1 .. n -> Host] : list \in HostList /\ SetHosts(list)
  \/ \E sel \in Typed : Apply(sel) \/ \E n \in Name : Define(n, sel)
  \/ \E n \in Name : Save(n) \/ Activate(n) \/ RemoveSet(n)
  \/ \E direction \in {-1, 1} : Page(direction)

WorkingSetSpec == WorkingSetInit /\ [][WorkingSetNext]_workingSetVars

-----------------------------------------------------------------------------
(* The name the status bar shows is the name of what is in force: whatever *)
(* was redefined, removed, paged or applied since, a set that is active    *)
(* under a name is that name's definition.                                 *)
NameMeansItsDefinition ==
  activeName # NoName => activeName \in DOMAIN named /\ named[activeName] = active

(* ... of a set and a name that are what the types say (Apply, RemoveSet). *)
NameInForce == WorkingSetTypeOK /\ NameMeansItsDefinition

(* Paging works the whole list off, "now the next 20": the next chunk      *)
(* starts where this one ends and is never empty, and where there is none  *)
(* nobody is left over.                                                    *)
NextSkipsNobody ==
  active.kind = "range" =>
    LET from == PageFrom(active, 1, Len(hosts))
    IN  IF from = 0 THEN active.to >= Len(hosts)
        ELSE from = active.to + 1 /\ from <= Len(hosts)

(* Going back skips nobody either, and a page forward and back is where it *)
(* started: the two directions are inverse whatever the list does.         *)
PrevUndoesNext ==
  active.kind = "range" =>
    /\ LET from == PageFrom(active, -1, Len(hosts))
       IN  IF from = 0 THEN active.from = 1 ELSE from + Size(active) >= active.from
    /\ PageFrom(active, 1, Len(hosts)) # 0 =>
         PageOf(PageOf(active, 1, Len(hosts)), -1, Len(hosts)) = active

(* Paging visits every host, in both directions, with any list.            *)
PagingVisitsAll == NextSkipsNobody /\ PrevUndoesNext
=============================================================================
