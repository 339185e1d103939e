--------------------------- MODULE BroadcastProofs ---------------------------
(***************************************************************************)
(* Proofs about how far a broadcast reaches.                               *)
(*                                                                         *)
(* The router, for every host list, every working set, and sessions and    *)
(* removals that interleave with a send in any way: its list keeps up with *)
(* the manager's, a send stays in its scope, its report adds up, somebody  *)
(* is driven.                                                              *)
(*                                                                         *)
(* The panes, for every fleet, every group and every screen: the open      *)
(* sessions end up holding the hosts of the run and no other, the limit    *)
(* the router gets is the page that is on screen, stepping the view shows  *)
(* everybody, a click finds the pane that is drawn there, and what arrives *)
(* from the hosts moves nobody.                                            *)
(***************************************************************************)
EXTENDS Broadcast, Panes, FiniteSetTheorems, SequenceTheorems, WellFoundedInduction, TLAPS

-----------------------------------------------------------------------------
(* How many elements of a set come before one of them tells it apart.      *)
LEMMA RankTellsApart ==
  ASSUME NEW n \in Nat, NEW at \in SUBSET (1 .. n)
  PROVE  /\ IsFiniteSet(at) /\ Cardinality(at) \in Nat
         /\ \A k \in at : Cardinality({j \in at : j < k}) \in 0 .. Cardinality(at) - 1
         /\ \A j, k \in at : j < k => Cardinality({i \in at : i < j}) < Cardinality({i \in at : i < k})
<1>1. IsFiniteSet(at) /\ Cardinality(at) \in Nat
  <2>1. IsFiniteSet(1 .. n)
    BY FS_Interval
  <2> QED
    BY <2>1, FS_Subset, FS_CardinalityType
<1> DEFINE below(k) == {j \in at : j < k}
<1>2. ASSUME NEW S, NEW x, x \in S, NEW T, T \subseteq S \ {x}, IsFiniteSet(S)
      PROVE  Cardinality(T) \in Nat /\ Cardinality(S) \in Nat /\ Cardinality(T) < Cardinality(S)
  <2>1. IsFiniteSet(S \ {x}) /\ Cardinality(S \ {x}) = Cardinality(S) - 1 /\ Cardinality(S) \in Nat
    BY <1>2, FS_RemoveElement, FS_CardinalityType
  <2>2. IsFiniteSet(T) /\ Cardinality(T) <= Cardinality(S \ {x})
    BY <1>2, <2>1, FS_Subset
  <2>3. Cardinality(T) \in Nat
    BY <2>2, FS_CardinalityType
  <2> QED
    BY <2>1, <2>2, <2>3
<1>3. ASSUME NEW k \in at PROVE Cardinality(below(k)) \in 0 .. Cardinality(at) - 1
  <2>1. below(k) \subseteq at \ {k}
    OBVIOUS
  <2> HIDE DEF below
  <2>2. Cardinality(below(k)) \in Nat /\ Cardinality(at) \in Nat /\ Cardinality(below(k)) < Cardinality(at)
    BY <1>1, <1>2, <2>1
  <2> QED
    BY <2>2
<1>4. ASSUME NEW j \in at, NEW k \in at, j < k PROVE Cardinality(below(j)) < Cardinality(below(k))
  <2>1. j \in below(k) /\ below(j) \subseteq below(k) \ {j}
    <3>1. j \in Int /\ k \in Int /\ \A i \in at : i \in Int
      OBVIOUS
    <3>2. \A i \in at : i < j => i < k /\ i # j
      BY <1>4, <3>1
    <3> QED
      BY <1>4, <3>2
  <2>2. below(k) \subseteq at
    OBVIOUS
  <2> HIDE DEF below
  <2>3. IsFiniteSet(below(k))
    BY <1>1, <2>2, FS_Subset
  <2> QED
    BY <1>2, <2>1, <2>3
<1> QED
  BY <1>1, <1>3, <1>4

(* Only drops what is not in ids and nothing else, and keeps the order.    *)
LEMMA OnlyIsPart ==
  ASSUME NEW S, NEW s \in Seq(S), NEW ids
  PROVE  /\ Only(s, ids) \in Seq(S)
         /\ ToSet(Only(s, ids)) = ToSet(s) \cap ids
         /\ \A m, n \in DOMAIN Only(s, ids) : m < n =>
              \E j, k \in DOMAIN s : j < k /\ Only(s, ids)[m] = s[j] /\ Only(s, ids)[n] = s[k]
<1> DEFINE at == {k \in DOMAIN s : s[k] \in ids}
           N == Cardinality(at)
           rank(k) == Cardinality({j \in at : j < k})
           place(n) == CHOOSE k \in at : rank(k) = n - 1
<1>1. Len(s) \in Nat /\ DOMAIN s = 1 .. Len(s) 
  OBVIOUS
<1>2. at \in SUBSET (1 .. Len(s))
  BY <1>1
<1>3. Only(s, ids) = [n \in 1 .. N |-> s[place(n)]]
  BY DEF Only
<1> HIDE DEF at
<1>4. IsFiniteSet(at) /\ N \in Nat
  BY <1>1, <1>2, RankTellsApart
<1>5. \A k \in at : rank(k) \in 0 .. N - 1
  BY <1>1, <1>2, RankTellsApart
<1>6. \A j, k \in at : j < k => rank(j) < rank(k)
  BY <1>1, <1>2, RankTellsApart
<1>7. \A j, k \in at : rank(j) = rank(k) => j = k
  <2> SUFFICES ASSUME NEW j \in at, NEW k \in at, rank(j) = rank(k), j # k PROVE FALSE
    OBVIOUS
  <2>1. j < k \/ k < j
    BY <1>2
  <2>2. rank(j) \in Nat /\ rank(k) \in Nat
    BY <1>5
  <2> HIDE DEF rank
  <2> QED
    BY <1>6, <2>1, <2>2
<1>8. \A n \in 1 .. N : \E k \in at : rank(k) = n - 1
  <2> DEFINE r == [k \in at |-> rank(k) + 1]
  <2> HIDE DEF rank, N
  <2>1. r \in [at -> 1 .. N]
    BY <1>4, <1>5
  <2>2. r \in Injection(at, 1 .. N)
    BY <1>5, <1>7, <2>1 DEF Injection, IsInjective
  <2>3. IsFiniteSet(1 .. N) /\ Cardinality(1 .. N) = N
    BY <1>4, FS_Interval
  <2>4. ASSUME NEW T, NEW f \in Injection(at, T), IsFiniteSet(T), Cardinality(T) = Cardinality(at)
        PROVE  f \in Surjection(at, T)
    BY <2>4, FS_Injection
  <2> HIDE DEF r
  <2>5. r \in Surjection(at, 1 .. N)
    BY <2>2, <2>3, <2>4 DEF N
  <2>6. \A n \in 1 .. N : \E k \in at : r[k] = n
    BY <2>5 DEF Surjection
  <2> USE DEF r
  <2> QED
    BY <1>5, <2>6
<1>9. \A n \in 1 .. N : place(n) \in at /\ rank(place(n)) = n - 1
  BY <1>8
<1>10. \A k \in at : rank(k) + 1 \in 1 .. N /\ place(rank(k) + 1) = k
  <2> SUFFICES ASSUME NEW k \in at PROVE rank(k) + 1 \in 1 .. N /\ place(rank(k) + 1) = k
    OBVIOUS
  <2> HIDE DEF rank, place, N
  <2>1. rank(k) + 1 \in 1 .. N
    BY <1>4, <1>5
  <2>2. place(rank(k) + 1) \in at /\ rank(place(rank(k) + 1)) = (rank(k) + 1) - 1
    BY <1>9, <2>1
  <2>3. rank(place(rank(k) + 1)) = rank(k)
    BY <1>4, <1>5, <2>2
  <2> QED
    BY <1>7, <2>1, <2>2, <2>3
<1> HIDE DEF N, rank, place
<1>11. \A m, n \in 1 .. N : m < n => place(m) < place(n)
  <2> SUFFICES ASSUME NEW m \in 1 .. N, NEW n \in 1 .. N, m < n, ~(place(m) < place(n)) PROVE FALSE
    OBVIOUS
  <2>1. place(m) \in at /\ place(n) \in at /\ rank(place(m)) = m - 1 /\ rank(place(n)) = n - 1
    BY <1>9
  <2>2. place(m) \in Nat /\ place(n) \in Nat
    <3>1. \A k \in at : k \in Nat
      BY <1>2
    <3> QED
      BY <2>1, <3>1
  <2>3. CASE place(m) = place(n)
    BY <1>4, <2>1, <2>3
  <2>4. CASE place(n) < place(m)
    BY <1>4, <1>6, <2>1, <2>4
  <2> QED
    BY <2>2, <2>3, <2>4
<1>12. \A k \in at : k \in DOMAIN s /\ s[k] \in ids /\ s[k] \in S
  BY <1>1 DEF at
<1> DEFINE t == [n \in 1 .. N |-> s[place(n)]]
<1>13. t \in Seq(S) /\ DOMAIN t = 1 .. N
  <2>1. \A n \in 1 .. N : s[place(n)] \in S
    BY <1>9, <1>12
  <2>2. t \in [1 .. N -> S]
    BY <2>1
  <2> QED
    BY <1>4, <2>2
<1>15. ToSet(t) = ToSet(s) \cap ids
  <2>1. ASSUME NEW k \in DOMAIN s, s[k] \in ids PROVE \E n \in DOMAIN t : t[n] = s[k]
    <3>1. k \in at
      BY <2>1 DEF at
    <3> QED
      BY <1>10, <3>1
  <2>2. \A n \in DOMAIN t : \E k \in DOMAIN s : t[n] = s[k] /\ s[k] \in ids
    BY <1>9, <1>12
  <2> QED
    BY <2>1, <2>2 DEF ToSet
<1>16. \A m, n \in DOMAIN t : m < n => \E j, k \in DOMAIN s : j < k /\ t[m] = s[j] /\ t[n] = s[k]
  BY <1>9, <1>11, <1>12
<1> QED
  BY <1>3, <1>13, <1>15, <1>16

(* Dropping elements makes no twins.                                       *)
LEMMA OnlyKeepsApart ==
  ASSUME NEW S, NEW s \in Seq(S), NEW ids
  PROVE  /\ \A twice : NoTwins(s, twice) => NoTwins(Only(s, ids), twice)
         /\ IsInjective(s) => IsInjective(Only(s, ids))
<1> DEFINE t == Only(s, ids)
<1>1. /\ DOMAIN t = 1 .. Len(t) /\ Len(t) \in Nat /\ DOMAIN s = 1 .. Len(s) /\ Len(s) \in Nat
      /\ \A m, n \in DOMAIN t : m < n => \E j, k \in DOMAIN s : j < k /\ t[m] = s[j] /\ t[n] = s[k]
  BY OnlyIsPart
<1> HIDE DEF t
<1>2. ASSUME NEW twice, NoTwins(s, twice), NEW m \in DOMAIN t, NEW n \in DOMAIN t, t[m] = t[n], m < n
      PROVE  t[m] = Hole \/ t[m] \in twice
  BY <1>1, <1>2 DEF NoTwins
<1>3. ASSUME IsInjective(s), NEW m \in DOMAIN t, NEW n \in DOMAIN t, t[m] = t[n], m < n PROVE FALSE
  BY <1>1, <1>3 DEF IsInjective
<1>4. \A m, n \in DOMAIN t : m # n => m < n \/ n < m
  BY <1>1
<1> QED
  <2>1. ASSUME NEW twice, NoTwins(s, twice) PROVE NoTwins(t, twice)
    BY <1>2, <1>4, <2>1 DEF NoTwins
  <2>2. IsInjective(s) => IsInjective(t)
    BY <1>3, <1>4 DEF IsInjective
  <2> QED
    BY <2>1, <2>2 DEF t

(* The router and the panes filter their lists alike.                      *)
LEMMA KeptIsPart ==
  ASSUME NEW s \in WS!HostList, NEW ids
  PROVE  /\ Kept(s, ids) \in WS!HostList
         /\ Listed(Kept(s, ids)) = Listed(s) \cap ids
         /\ \A m, n \in DOMAIN Kept(s, ids) : m < n =>
              \E j, k \in DOMAIN s : j < k /\ Kept(s, ids)[m] = s[j] /\ Kept(s, ids)[n] = s[k]
<1>1. Kept(s, ids) = Only(s, ids)
  BY DEF Kept, Only
<1>2. s \in Seq(Host) /\ IsInjective(s)
  BY DEF WS!HostList, IsInjective
<1>3. /\ Only(s, ids) \in Seq(Host) /\ ToSet(Only(s, ids)) = ToSet(s) \cap ids
      /\ IsInjective(Only(s, ids))
  BY <1>2, OnlyIsPart, OnlyKeepsApart
<1>4. \A m, n \in DOMAIN Only(s, ids) : m < n =>
        \E j, k \in DOMAIN s : j < k /\ Only(s, ids)[m] = s[j] /\ Only(s, ids)[n] = s[k]
  BY <1>2, OnlyIsPart
<1>5. Only(s, ids) \in WS!HostList
  BY <1>3 DEF WS!HostList, IsInjective
<1>6. Listed(Only(s, ids)) = Listed(s) \cap ids
  BY <1>3 DEF Listed, ToSet
<1> QED
  BY <1>1, <1>4, <1>5, <1>6

-----------------------------------------------------------------------------
(* Host lists of the router.                                               *)
(* A list without repetitions is as long as the set of what it lists.      *)
LEMMA DistinctLength ==
  ASSUME NEW s \in WS!HostList
  PROVE  IsFiniteSet(Listed(s)) /\ Cardinality(Listed(s)) = Len(s)
<1>1. Len(s) \in Nat /\ DOMAIN s = 1 .. Len(s) /\ s \in Seq(Host)
  BY DEF WS!HostList
<1>2. s \in Bijection(1 .. Len(s), Listed(s))
  BY <1>1 DEF WS!HostList, Listed, Bijection, Injection, Surjection, IsInjective
<1>3. ExistsBijection(1 .. Len(s), Listed(s))
  BY <1>2 DEF ExistsBijection
<1>4. IsFiniteSet(1 .. Len(s))
  BY <1>1, FS_Interval
<1> QED
  BY <1>1, <1>3, <1>4, FS_CountingElements, FS_Bijection

LEMMA NoneListed == <<>> \in WS!HostList /\ Listed(<<>>) = {} /\ Len(<<>>) = 0
BY DEF WS!HostList, Listed

LEMMA HeadAndTail ==
  ASSUME NEW s \in WS!HostList, s # <<>>
  PROVE  /\ Head(s) \in Listed(s) /\ Head(s) \in Host
         /\ Tail(s) \in WS!HostList
         /\ Listed(Tail(s)) = Listed(s) \ {Head(s)}
         /\ Len(Tail(s)) = Len(s) - 1 /\ Len(s) \in Nat \ {0}
<1>1. /\ s \in Seq(Host) /\ Len(s) \in Nat /\ DOMAIN s = 1 .. Len(s)
      /\ \A j, k \in DOMAIN s : s[j] = s[k] => j = k
  BY DEF WS!HostList
<1>2. Len(s) # 0
  BY <1>1, EmptySeq
<1>3. /\ Tail(s) \in Seq(Host) /\ Len(Tail(s)) = Len(s) - 1 /\ Head(s) = s[1]
      /\ \A k \in 1 .. Len(s) - 1 : Tail(s)[k] = s[k + 1]
  BY <1>1, <1>2, HeadTailProperties
<1>4. DOMAIN Tail(s) = 1 .. Len(s) - 1
  BY <1>1, <1>3
<1>5. \A k \in DOMAIN Tail(s) : k + 1 \in DOMAIN s /\ k + 1 # 1 /\ Tail(s)[k] = s[k + 1]
  BY <1>1, <1>3, <1>4
<1>6. \A j \in DOMAIN s : j # 1 => j - 1 \in DOMAIN Tail(s) /\ Tail(s)[j - 1] = s[j]
  BY <1>1, <1>3, <1>4
<1>7. 1 \in DOMAIN s
  BY <1>1, <1>2
<1>8. Tail(s) \in WS!HostList
  <2> SUFFICES ASSUME NEW j \in DOMAIN Tail(s), NEW k \in DOMAIN Tail(s), Tail(s)[j] = Tail(s)[k] PROVE j = k
    BY <1>3 DEF WS!HostList
  <2>1. j + 1 = k + 1
    BY <1>1, <1>5
  <2> QED
    BY <1>4, <2>1
<1>9. Listed(Tail(s)) = Listed(s) \ {Head(s)}
  <2>1. \A k \in DOMAIN Tail(s) : Tail(s)[k] \in Listed(s) /\ Tail(s)[k] # Head(s)
    BY <1>1, <1>3, <1>5, <1>7 DEF Listed
  <2>2. \A j \in DOMAIN s : s[j] # Head(s) => s[j] \in Listed(Tail(s))
    BY <1>3, <1>6 DEF Listed
  <2> QED
    BY <2>1, <2>2 DEF Listed
<1>10. Head(s) \in Listed(s) /\ Head(s) \in Host
  BY <1>1, <1>3, <1>7 DEF Listed
<1> QED
  BY <1>1, <1>2, <1>3, <1>8, <1>9, <1>10

(* Lists that have nothing in common can be joined.                        *)
LEMMA JoinDistinct ==
  ASSUME NEW s \in WS!HostList, NEW t \in WS!HostList, Listed(s) \cap Listed(t) = {}
  PROVE  s \o t \in WS!HostList /\ Listed(s \o t) = Listed(s) \cup Listed(t)
<1>1. /\ s \in Seq(Host) /\ Len(s) \in Nat /\ DOMAIN s = 1 .. Len(s)
      /\ t \in Seq(Host) /\ Len(t) \in Nat /\ DOMAIN t = 1 .. Len(t)
      /\ \A j, k \in DOMAIN s : s[j] = s[k] => j = k
      /\ \A j, k \in DOMAIN t : t[j] = t[k] => j = k
  BY DEF WS!HostList
<1> DEFINE u == s \o t
<1>2. /\ u \in Seq(Host) /\ DOMAIN u = 1 .. Len(s) + Len(t)
      /\ \A k \in 1 .. Len(s) : u[k] = s[k]
      /\ \A k \in 1 .. Len(t) : u[Len(s) + k] = t[k]
  <2>1. /\ u \in Seq(Host) /\ Len(u) = Len(s) + Len(t)
        /\ \A i \in 1 .. Len(s) + Len(t) : u[i] = IF i <= Len(s) THEN s[i] ELSE t[i - Len(s)]
    BY <1>1, ConcatProperties
  <2>2. ASSUME NEW k \in 1 .. Len(t) PROVE u[Len(s) + k] = t[k]
    <3> HIDE DEF u
    <3>1. Len(s) + k \in 1 .. Len(s) + Len(t) /\ ~(Len(s) + k <= Len(s)) /\ (Len(s) + k) - Len(s) = k
      BY <1>1
    <3> QED
      BY <2>1, <3>1
  <2>3. ASSUME NEW k \in 1 .. Len(s) PROVE u[k] = s[k]
    <3> HIDE DEF u
    <3> QED
      BY <1>1, <2>1
  <2> HIDE DEF u
  <2> QED
    BY <1>1, <2>1, <2>2, <2>3
<1> HIDE DEF u
<1>3. \A i \in DOMAIN u : \/ i \in DOMAIN s /\ u[i] = s[i]
                          \/ i - Len(s) \in DOMAIN t /\ u[i] = t[i - Len(s)] /\ ~(i \in DOMAIN s)
  <2> SUFFICES ASSUME NEW i \in 1 .. Len(s) + Len(t), ~(i \in 1 .. Len(s))
               PROVE  i - Len(s) \in 1 .. Len(t) /\ u[i] = t[i - Len(s)]
    BY <1>1, <1>2
  <2>1. i - Len(s) \in 1 .. Len(t) /\ Len(s) + (i - Len(s)) = i
    BY <1>1
  <2> QED
    BY <1>2, <2>1
<1>4. \A j \in DOMAIN s, k \in DOMAIN t : s[j] # t[k]
  BY DEF Listed
<1>5. u \in WS!HostList
  <2> SUFFICES ASSUME NEW j \in DOMAIN u, NEW k \in DOMAIN u, u[j] = u[k] PROVE j = k
    BY <1>2 DEF WS!HostList
  <2>1. CASE j \in DOMAIN s /\ k \in DOMAIN s
    BY <1>1, <1>3, <2>1
  <2>2. CASE ~(j \in DOMAIN s) /\ ~(k \in DOMAIN s)
    <3>1. j - Len(s) = k - Len(s)
      BY <1>1, <1>3, <2>2
    <3> QED
      BY <1>1, <1>2, <3>1
  <2>3. CASE (j \in DOMAIN s) # (k \in DOMAIN s)
    BY <1>3, <1>4, <2>3
  <2> QED
    BY <2>1, <2>2, <2>3
<1>6. Listed(u) = Listed(s) \cup Listed(t)
  <2>1. \A k \in DOMAIN s : k \in DOMAIN u /\ u[k] = s[k]
    BY <1>1, <1>2
  <2>2. \A k \in DOMAIN t : Len(s) + k \in DOMAIN u /\ u[Len(s) + k] = t[k]
    BY <1>1, <1>2
  <2> QED
    BY <1>3, <2>1, <2>2 DEF Listed
<1> QED
  BY <1>5, <1>6 DEF u

LEMMA AppendDistinct ==
  ASSUME NEW s \in WS!HostList, NEW h \in Host \ Listed(s)
  PROVE  /\ Append(s, h) \in WS!HostList
         /\ Listed(Append(s, h)) = Listed(s) \cup {h}
         /\ Len(Append(s, h)) = Len(s) + 1 /\ Len(s) \in Nat
<1>1. /\ s \in Seq(Host) /\ Len(s) \in Nat /\ DOMAIN s = 1 .. Len(s)
      /\ \A j, k \in DOMAIN s : s[j] = s[k] => j = k
      /\ \A k \in DOMAIN s : s[k] # h
  BY DEF WS!HostList, Listed
<1> DEFINE u == Append(s, h)
<1>2. /\ u \in Seq(Host) /\ Len(u) = Len(s) + 1 /\ DOMAIN u = 1 .. Len(s) + 1
      /\ \A k \in 1 .. Len(s) : u[k] = s[k] /\ u[Len(s) + 1] = h
  BY <1>1
<1>3. u[Len(s) + 1] = h
  BY <1>1
<1> HIDE DEF u
<1>4. \A k \in DOMAIN u : (k \in DOMAIN s /\ u[k] = s[k]) \/ (k = Len(s) + 1 /\ u[k] = h)
  BY <1>1, <1>2, <1>3
<1>5. u \in WS!HostList
  BY <1>1, <1>2, <1>4 DEF WS!HostList
<1>6. Listed(u) = Listed(s) \cup {h}
  <2>1. \A k \in DOMAIN s : k \in DOMAIN u
    BY <1>1, <1>2
  <2>2. Len(s) + 1 \in DOMAIN u
    BY <1>1, <1>2
  <2> QED
    BY <1>2, <1>3, <1>4, <2>1, <2>2 DEF Listed
<1> QED
  BY <1>1, <1>2, <1>5, <1>6 DEF u

(* The hosts of a set, in any order, are a list.                           *)
LEMMA OrderIsList ==
  ASSUME NEW ids \in SUBSET Host, NEW s \in Orders(ids)
  PROVE  s \in WS!HostList /\ Listed(s) \subseteq ids
<1>1. IsFiniteSet(ids) /\ Cardinality(ids) \in Nat
  BY HostAssumption, FS_Subset, FS_CardinalityType
<1>2. s \in [1 .. Cardinality(ids) -> ids] /\ \A j, k \in DOMAIN s : s[j] = s[k] => j = k
  BY DEF Orders
<1>3. s \in Seq(Host)
  <2>1. s \in [1 .. Cardinality(ids) -> Host]
    BY <1>2
  <2> QED
    BY <1>1, <2>1
<1> QED
  BY <1>2, <1>3 DEF WS!HostList, Listed

-----------------------------------------------------------------------------
(* The router's own state: what can be selected, shown and listed.         *)
RouterInv ==
  /\ hosts \in WS!HostList /\ active \in WS!Selector
  /\ mode \in Mode
  /\ selected \subseteq Host
  /\ focus \in Host \cup {NoHost}
  /\ limit \subseteq Host
  /\ up \subseteq Host /\ alt \subseteq Host
  /\ fleet \in WS!HostList
  /\ leaving \subseteq Host
  /\ RouterFollowsFleet

LEMMA MembersAreListed ==
  ASSUME active \in WS!Selector
  PROVE  WS!Members \subseteq Listed(hosts)
<1>1. active.kind \in {"all", "range", "some"}
  BY DEF WS!Selector, WS!All, WS!Ranges
<1> QED
  BY <1>1 DEF WS!Members, WS!Select, WS!Listed, Listed

LEMMA RouterTypedIsSelector == WS!Typed \subseteq WS!Selector
BY DEF WS!Typed, WS!Selector, WS!All, WS!Some

LEMMA ListedAreHosts ==
  ASSUME NEW s \in WS!HostList
  PROVE  Listed(s) \subseteq Host
BY DEF WS!HostList, Listed

(* Hosts join that the manager does not list: both lists have them.        *)
LEMMA JoinsKeepLists ==
  ASSUME RouterInv, NEW ids \in SUBSET (Host \ Listed(fleet)), NEW new \in Orders(ids), HostsJoin(new)
  PROVE  fleet' \in WS!HostList /\ hosts' = fleet' /\ Listed(fleet) \subseteq Listed(fleet')
<1>1. new \in WS!HostList /\ Listed(new) \subseteq ids
  BY OrderIsList
<1>2. fleet' = fleet \o new /\ hosts' = fleet'
  BY DEF HostsJoin
<1>3. Listed(fleet) \cap Listed(new) = {} /\ fleet \in WS!HostList
  BY <1>1 DEF RouterInv
<1> QED
  BY <1>1, <1>2, <1>3, JoinDistinct

LEMMA NextRouterInv ==
  ASSUME RouterInv, [Next]_vars
  PROVE  RouterInv'
<1> USE DEF RouterInv, RouterFollowsFleet
<1>1. Listed(hosts) \subseteq Host /\ Listed(fleet) \subseteq Host
  BY ListedAreHosts
<1>2. CASE RouterStep
  <2>1. UNCHANGED <<hosts, active, up, alt, fleet, leaving>>
    BY <1>2 DEF RouterStep, wsVars, liveVars, runVars
  <2>2. CASE UNCHANGED <<selected, limit, focus>> /\ mode' \in Mode
    BY <2>1, <2>2
  <2>3. CASE UNCHANGED <<selected, limit, mode>> /\ focus' \in Listed(hosts) \cup {NoHost}
    BY <1>1, <2>1, <2>3
  <2>4. CASE UNCHANGED <<selected, focus, mode>> /\ limit' \subseteq Host
    BY <2>1, <2>4
  <2>5. CASE UNCHANGED <<mode, focus, limit>> /\ selected' \subseteq selected \cup Listed(hosts)
    BY <1>1, <2>1, <2>5
  <2>6. ASSUME Selects PROVE UNCHANGED <<mode, focus, limit>> /\ selected' \subseteq selected \cup Listed(hosts)
    <3> HIDE DEF RouterFollowsFleet
    <3>1. WS!Members \subseteq Listed(hosts)
      BY MembersAreListed
    <3> QED
      BY <2>6, <3>1 DEF Selects, Reselect
  <2> QED
    BY <1>1, <1>2, <2>2, <2>3, <2>4, <2>5, <2>6 DEF RouterStep, SetMode, SetFocus, SetLimit
<1>3. CASE \E sel \in WS!Typed : ApplySet(sel)
  BY <1>3, RouterTypedIsSelector DEF ApplySet, routerVars, liveVars, runVars
<1>4. CASE Connects
  <2>1. fleet' \in WS!HostList /\ hosts' = fleet' /\ Listed(fleet) \subseteq Listed(fleet')
    BY <1>4, JoinsKeepLists DEF Connects
  <2> QED
    BY <1>4, <2>1 DEF Connects, routerVars, liveVars
<1>5. CASE OpensGroup
  <2>1. fleet' \in WS!HostList /\ hosts' = fleet' /\ Listed(fleet) \subseteq Listed(fleet')
    BY <1>5, JoinsKeepLists DEF OpensGroup
  <2>2. active' \in WS!Selector /\ mode' \in Mode /\ UNCHANGED <<selected, focus, limit, up, alt, leaving>>
    BY <1>5, RouterTypedIsSelector DEF OpensGroup, SetMode, liveVars
  <2> QED
    BY <2>1, <2>2
<1>6. ASSUME NEW h \in Host, ManagerRemoves(h) PROVE RouterInv'
  <2>1. fleet' \in WS!HostList /\ Listed(fleet') = Listed(fleet) \ {h}
    <3>1. fleet' = Kept(fleet, Listed(fleet) \ {h})
      BY <1>6 DEF ManagerRemoves
    <3> QED
      BY <3>1, KeptIsPart
  <2> QED
    BY <1>6, <2>1 DEF ManagerRemoves, wsVars, routerVars
<1>7. ASSUME NEW h \in Host, HostRemoved(h) PROVE RouterInv'
  <2>1. /\ leaving' = leaving \ {h} /\ selected' = selected \ {h} /\ hosts' = fleet
        /\ focus' = IF focus = h THEN NoHost ELSE focus
        /\ UNCHANGED <<active, mode, limit, up, alt, fleet>>
    BY <1>7 DEF HostRemoved, liveVars
  <2> QED
    BY <1>1, <2>1
<1>8. CASE SessionChanges
  BY <1>1, <1>8 DEF SessionChanges, wsVars, routerVars, runVars
<1>9. CASE UNCHANGED <<hosts, active, mode, selected, focus, limit, up, alt, fleet, leaving>>
  BY <1>9
<1>10. ASSUME SendBegins \/ Looks \/ LookEnds \/ Pick \/ PickNamed \/ Write \/ SendReturns
              \/ (\E ids \in SUBSET Listed(hosts) : SendTo(ids)) \/ UNCHANGED vars
       PROVE  UNCHANGED <<hosts, active, mode, selected, focus, limit, up, alt, fleet, leaving>>
  BY <1>10 DEF SendBegins, Looks, LookEnds, Pick, PickNamed, Write, SendReturns, SendTo,
               vars, wsVars, routerVars, liveVars, runVars
<1> HIDE DEF RouterInv, RouterFollowsFleet
<1> QED
  BY <1>2, <1>3, <1>4, <1>5, <1>6, <1>7, <1>8, <1>9, <1>10 DEF Next

-----------------------------------------------------------------------------
(* A send under way: what it has still to ask, to write and what it has    *)
(* reported are different hosts of its scope, and the report counts them.  *)
SendInv ==
  /\ phase \in {"idle", "looking", "sending", "resending"} /\ saw \subseteq {"alt", "primary"}
  /\ todo \in WS!HostList /\ picked \in WS!HostList
  /\ report \in [scope : Nat, targets : Nat, to : WS!HostList, failed : WS!HostList]
  /\ phase = "idle" => saw = {} /\ todo = <<>> /\ picked = <<>> /\ report = NoReport
  /\ phase = "looking" => picked = <<>> /\ report = [NoReport EXCEPT !.scope = Len(Scope)]
  /\ phase \in {"looking", "sending"} =>
       Listed(todo) \cup Listed(picked) \cup Listed(report.to) \cup Listed(report.failed) \subseteq Listed(Scope)
  /\ Listed(todo) \cap Listed(picked) = {}
  /\ (Listed(todo) \cup Listed(picked)) \cap (Listed(report.to) \cup Listed(report.failed)) = {}
  /\ ReportAddsUp

(* The scope is part of the host list, each host once; what it may hold    *)
(* depends on the mode.                                                    *)
LEMMA ScopeIsBounded ==
  ASSUME RouterInv
  PROVE  /\ Scope \in WS!HostList
         /\ Len(Scope) \in Nat
         /\ CASE mode = "all"      -> Listed(Scope) \subseteq WithinLimit(WS!Members)
              [] mode = "selected" -> Listed(Scope) \subseteq WithinLimit(WS!Members \cap selected)
              [] mode = "single"   -> Listed(Scope) \subseteq {focus}
              [] mode = "fleet"    -> Listed(Scope) \subseteq Listed(hosts)
<1>1. hosts \in WS!HostList /\ mode \in {"all", "selected", "single", "fleet"}
  BY DEF RouterInv, Mode
<1>2. \A ids : InOrder(ids) \in WS!HostList /\ Listed(InOrder(ids)) \subseteq ids
  BY <1>1, KeptIsPart DEF InOrder
<1>3. \A s \in WS!HostList : Len(s) \in Nat
  BY DEF WS!HostList
<1>4. CASE mode = "all"
  <2>1. Scope = InOrder(WithinLimit(WS!Members))
    BY <1>4 DEF Scope
  <2> QED
    BY <1>2, <1>3, <1>4, <2>1
<1>5. CASE mode = "selected"
  <2>1. Scope = InOrder(WithinLimit(selected \cap WS!Members))
    BY <1>5 DEF Scope
  <2>2. WithinLimit(selected \cap WS!Members) = WithinLimit(WS!Members \cap selected)
    BY DEF WithinLimit
  <2> QED
    BY <1>2, <1>3, <1>5, <2>1, <2>2
<1>6. CASE mode = "single"
  <2>1. Scope = InOrder({focus})
    BY <1>6 DEF Scope
  <2> QED
    BY <1>2, <1>3, <1>6, <2>1
<1>7. CASE mode = "fleet"
  <2>1. Scope = hosts
    BY <1>7 DEF Scope
  <2> QED
    BY <1>1, <1>3, <1>7, <2>1
<1> QED
  BY <1>1, <1>4, <1>5, <1>6, <1>7

LEMMA ScopeStays ==
  ASSUME UNCHANGED <<wsVars, routerVars>>
  PROVE  Scope' = Scope
BY DEF wsVars, routerVars, Scope, InOrder, WithinLimit, WS!Members

LEMMA SendInvWhenIdle ==
  ASSUME phase' = "idle", saw' = {}, todo' = <<>>, picked' = <<>>, report' = NoReport
  PROVE  SendInv'
<1>1. <<>> \in WS!HostList /\ Listed(<<>>) = {} /\ Len(<<>>) = 0
  BY NoneListed
<1>2. NoReport \in [scope : Nat, targets : Nat, to : WS!HostList, failed : WS!HostList]
  BY <1>1 DEF NoReport
<1>3. ReportAddsUp'
  <2>1. report'.to = <<>> /\ report'.failed = <<>> /\ report'.targets = 0 /\ report'.scope = 0
    BY DEF NoReport
  <2> QED
    BY <1>1, <2>1 DEF ReportAddsUp
<1>4. report'.to = <<>> /\ report'.failed = <<>>
  BY DEF NoReport
<1> QED
  BY <1>1, <1>2, <1>3, <1>4 DEF SendInv

(* What changes between two steps of a send leaves its scope and its lists *)
(* alone: sessions come and go, the manager removes hosts.                 *)
LEMMA OthersKeepSendInv ==
  ASSUME SendInv, UNCHANGED <<wsVars, routerVars, sendVars>>
  PROVE  SendInv'
<1>1. Scope' = Scope
  BY ScopeStays DEF wsVars, routerVars
<1>2. UNCHANGED <<phase, saw, todo, picked, report>>
  BY DEF sendVars
<1>3. ReportAddsUp' = ReportAddsUp
  BY <1>2 DEF ReportAddsUp
<1> QED
  BY <1>1, <1>2, <1>3 DEF SendInv

(* A send starts with its scope, and starts over when it has looked at the *)
(* screens.                                                                *)
LEMMA BeginningKeepsSendInv ==
  ASSUME RouterInv, SendInv,
         \/ SendBegins
         \/ LookEnds
         \/ \E ids \in SUBSET Listed(hosts) : SendTo(ids)
  PROVE  SendInv'
<1>1. <<>> \in WS!HostList /\ Listed(<<>>) = {} /\ Len(<<>>) = 0
  BY NoneListed
<1>2. UNCHANGED <<wsVars, routerVars, saw, picked>>
  BY DEF SendBegins, LookEnds, SendTo
<1>3. Scope' = Scope
  BY <1>2, ScopeStays
<1>4. picked = <<>> /\ saw \subseteq {"alt", "primary"}
  BY DEF SendInv, SendBegins, LookEnds, SendTo
<1>5. PICK n \in Nat : /\ report' = [NoReport EXCEPT !.scope = n]
                       /\ todo' \in WS!HostList /\ Len(todo') <= n
                       /\ \/ phase' \in {"looking", "sending"} /\ todo' = Scope /\ n = Len(Scope)
                          \/ phase' = "resending"
  <2>1. Scope \in WS!HostList /\ Len(Scope) \in Nat
    BY ScopeIsBounded
  <2>2. CASE SendBegins
    BY <2>1, <2>2 DEF SendBegins
  <2>3. CASE LookEnds
    BY <2>1, <2>3 DEF LookEnds, SendInv
  <2>4. CASE \E ids \in SUBSET Listed(hosts) : SendTo(ids)
    <3>1. PICK ids \in SUBSET Listed(hosts) : SendTo(ids)
      BY <2>4
    <3>2. hosts \in WS!HostList
      BY DEF RouterInv
    <3>3. InOrder(ids) \in WS!HostList /\ Listed(InOrder(ids)) = ids
      BY <3>2, KeptIsPart DEF InOrder
    <3>4. Len(InOrder(ids)) = Cardinality(ids)
      BY <3>3, DistinctLength
    <3>5. Len(InOrder(ids)) \in Nat
      BY <3>3 DEF WS!HostList
    <3>6. todo' = InOrder(ids) /\ report' = [NoReport EXCEPT !.scope = Cardinality(ids)] /\ phase' = "resending"
      BY <3>1 DEF SendTo
    <3> QED
      BY <3>3, <3>4, <3>5, <3>6
  <2> QED
    BY <2>2, <2>3, <2>4
<1>6. /\ report'.scope = n /\ report'.targets = 0 /\ report'.to = <<>> /\ report'.failed = <<>>
      /\ report' \in [scope : Nat, targets : Nat, to : WS!HostList, failed : WS!HostList]
  BY <1>1, <1>5 DEF NoReport
<1>7. Len(todo') \in Nat
  BY <1>5 DEF WS!HostList
<1>8. ReportAddsUp'
  BY <1>1, <1>2, <1>4, <1>5, <1>6, <1>7 DEF ReportAddsUp
<1>9. picked' = <<>> /\ saw' \subseteq {"alt", "primary"} /\ picked' \in WS!HostList
  BY <1>1, <1>2, <1>4
<1>10. phase' = "looking" => picked' = <<>> /\ report' = [NoReport EXCEPT !.scope = Len(Scope')]
  BY <1>3, <1>5, <1>9
<1>11. phase' \in {"looking", "sending"} =>
         Listed(todo') \cup Listed(picked') \cup Listed(report'.to) \cup Listed(report'.failed) \subseteq Listed(Scope')
  BY <1>1, <1>3, <1>5, <1>6, <1>9
<1>12. phase' \in {"looking", "sending", "resending"}
  BY <1>5
<1>13. Listed(picked') = {} /\ Listed(report'.to) = {} /\ Listed(report'.failed) = {}
  BY <1>1, <1>6, <1>9
<1> QED
  BY <1>5, <1>6, <1>8, <1>9, <1>10, <1>11, <1>12, <1>13 DEF SendInv

(* The next host is asked whether it is a target.                          *)
LEMMA AskingKeepsSendInv ==
  ASSUME SendInv, Looks \/ Pick \/ PickNamed
  PROVE  SendInv'
<1> DEFINE h == Head(todo)
<1>1. todo \in WS!HostList /\ todo # <<>> /\ todo' = Tail(todo) /\ UNCHANGED <<wsVars, routerVars, phase>>
  BY DEF SendInv, Looks, Pick, PickNamed
<1>2. /\ h \in Listed(todo) /\ h \in Host /\ todo' \in WS!HostList
      /\ Listed(todo') = Listed(todo) \ {h} /\ Len(todo') = Len(todo) - 1 /\ Len(todo) \in Nat \ {0}
  BY <1>1, HeadAndTail
<1>3. Scope' = Scope
  BY <1>1, ScopeStays
<1>4. /\ picked \in WS!HostList /\ Len(picked) \in Nat
      /\ report \in [scope : Nat, targets : Nat, to : WS!HostList, failed : WS!HostList]
      /\ Len(report.to) \in Nat /\ Len(report.failed) \in Nat
  BY DEF SendInv, WS!HostList
<1>5. saw' \subseteq {"alt", "primary"}
  BY DEF SendInv, Looks, Pick, PickNamed
<1> DEFINE counted == [report EXCEPT !.targets = @ + 1]
<1>6. \/ UNCHANGED <<picked, report>>
      \/ phase \in {"sending", "resending"} /\ picked' = Append(picked, h) /\ report' = counted
  <2>1. phase = "resending" /\ picked = <<>> => Append(picked, h) = <<h>>
    OBVIOUS
  <2> QED
    BY <2>1 DEF Looks, Pick, PickNamed
<1>7. CASE UNCHANGED <<picked, report>>
  <2>1. ReportAddsUp'
    BY <1>2, <1>4, <1>7 DEF SendInv, ReportAddsUp
  <2>2. phase \in {"idle", "looking", "sending", "resending"} /\ phase # "idle"
    BY DEF SendInv, Looks, Pick, PickNamed
  <2> HIDE DEF h
  <2> QED
    BY <1>1, <1>2, <1>3, <1>4, <1>5, <1>7, <2>1, <2>2 DEF SendInv
<1>8. CASE phase \in {"sending", "resending"} /\ picked' = Append(picked, h) /\ report' = counted
  <2>1. h \in Host \ Listed(picked)
    BY <1>2 DEF SendInv
  <2> HIDE DEF h
  <2>2. picked' \in WS!HostList /\ Listed(picked') = Listed(picked) \cup {h} /\ Len(picked') = Len(picked) + 1
    BY <1>4, <1>8, <2>1, AppendDistinct
  <2>3. /\ report'.scope = report.scope /\ report'.targets = report.targets + 1
        /\ report'.to = report.to /\ report'.failed = report.failed
        /\ report' \in [scope : Nat, targets : Nat, to : WS!HostList, failed : WS!HostList]
    BY <1>4, <1>8
  <2>4. ReportAddsUp'
    <3>1. /\ Len(report.to) + Len(report.failed) + Len(picked) = report.targets
          /\ report.targets + Len(todo) <= report.scope
          /\ Listed(report.to) \cap Listed(report.failed) = {}
          /\ report.scope \in Nat /\ report.targets \in Nat
      BY <1>4 DEF SendInv, ReportAddsUp
    <3> QED
      BY <1>2, <1>4, <2>2, <2>3, <3>1 DEF ReportAddsUp
  <2>5. phase' \in {"sending", "resending"}
    BY <1>1, <1>8
  <2>6. Listed(todo') \cap Listed(picked') = {}
    BY <1>2, <2>2 DEF SendInv
  <2>7. (Listed(todo') \cup Listed(picked')) \cap (Listed(report'.to) \cup Listed(report'.failed)) = {}
    BY <1>2, <2>2, <2>3 DEF SendInv
  <2>8. phase' \in {"looking", "sending"} =>
          Listed(todo') \cup Listed(picked') \cup Listed(report'.to) \cup Listed(report'.failed) \subseteq Listed(Scope')
    BY <1>1, <1>2, <1>3, <2>2, <2>3 DEF SendInv
  <2> QED
    BY <1>2, <1>5, <2>2, <2>3, <2>4, <2>5, <2>6, <2>7, <2>8 DEF SendInv
<1> QED
  BY <1>6, <1>7, <1>8

(* The next target takes the bytes, or is listed as failed.                *)
LEMMA WritingKeepsSendInv ==
  ASSUME SendInv, Write
  PROVE  SendInv'
<1> DEFINE h == Head(picked)
<1>1. picked \in WS!HostList /\ picked # <<>> /\ picked' = Tail(picked) /\ UNCHANGED <<wsVars, routerVars, phase, saw, todo>>
  BY DEF SendInv, Write, Writing
<1>2. /\ h \in Listed(picked) /\ h \in Host /\ picked' \in WS!HostList
      /\ Listed(picked') = Listed(picked) \ {h} /\ Len(picked') = Len(picked) - 1 /\ Len(picked) \in Nat \ {0}
  BY <1>1, HeadAndTail
<1>3. Scope' = Scope
  BY <1>1, ScopeStays
<1>4. /\ todo \in WS!HostList /\ Len(todo) \in Nat
      /\ report \in [scope : Nat, targets : Nat, to : WS!HostList, failed : WS!HostList]
      /\ Len(report.to) \in Nat /\ Len(report.failed) \in Nat
  BY DEF SendInv, WS!HostList
<1>5. h \in Host \ Listed(report.to) /\ h \in Host \ Listed(report.failed)
  BY <1>2 DEF SendInv
<1>6. phase \in {"sending", "resending"}
  BY <1>1 DEF SendInv, Write
<1>7. \/ report' = [report EXCEPT !.to = Append(@, h)]
      \/ report' = [report EXCEPT !.failed = Append(@, h)]
  BY DEF Write
<1> HIDE DEF h
<1>8. /\ Append(report.to, h) \in WS!HostList /\ Listed(Append(report.to, h)) = Listed(report.to) \cup {h}
      /\ Len(Append(report.to, h)) = Len(report.to) + 1
  BY <1>4, <1>5, AppendDistinct
<1>9. /\ Append(report.failed, h) \in WS!HostList /\ Listed(Append(report.failed, h)) = Listed(report.failed) \cup {h}
      /\ Len(Append(report.failed, h)) = Len(report.failed) + 1
  BY <1>4, <1>5, AppendDistinct
<1>10. /\ report' \in [scope : Nat, targets : Nat, to : WS!HostList, failed : WS!HostList]
       /\ report'.scope = report.scope /\ report'.targets = report.targets
       /\ Listed(report'.to) \cup Listed(report'.failed) = Listed(report.to) \cup Listed(report.failed) \cup {h}
       /\ Listed(report.to) \cap Listed(report.failed) = {} => Listed(report'.to) \cap Listed(report'.failed) = {}
       /\ Len(report'.to) + Len(report'.failed) = Len(report.to) + Len(report.failed) + 1
  <2>1. CASE report' = [report EXCEPT !.to = Append(@, h)]
    <3>1. /\ report'.scope = report.scope /\ report'.targets = report.targets
          /\ report'.to = Append(report.to, h) /\ report'.failed = report.failed
          /\ report' \in [scope : Nat, targets : Nat, to : WS!HostList, failed : WS!HostList]
      BY <1>4, <1>8, <2>1
    <3> QED
      BY <1>4, <1>5, <1>8, <3>1
  <2>2. CASE report' = [report EXCEPT !.failed = Append(@, h)]
    <3>1. /\ report'.scope = report.scope /\ report'.targets = report.targets
          /\ report'.failed = Append(report.failed, h) /\ report'.to = report.to
          /\ report' \in [scope : Nat, targets : Nat, to : WS!HostList, failed : WS!HostList]
      BY <1>4, <1>9, <2>2
    <3> QED
      BY <1>4, <1>5, <1>9, <3>1
  <2> QED
    BY <1>7, <2>1, <2>2
<1>11. ReportAddsUp'
  <2>1. /\ Len(report.to) + Len(report.failed) + Len(picked) = report.targets
        /\ report.targets + Len(todo) <= report.scope
        /\ Listed(report.to) \cap Listed(report.failed) = {}
    BY DEF SendInv, ReportAddsUp
  <2>2. Len(report'.to) \in Nat /\ Len(report'.failed) \in Nat
    BY <1>10 DEF WS!HostList
  <2>3. Len(report'.to) + Len(report'.failed) + Len(picked') = report'.targets
    <3>1. report.targets = (Len(report.to) + Len(report.failed) + 1) + (Len(picked) - 1)
      BY <1>2, <1>4, <2>1
    <3> QED
      BY <1>2, <1>10, <3>1
  <2>4. report'.targets + Len(todo') <= report'.scope
    BY <1>1, <1>10, <2>1
  <2> QED
    BY <1>10, <2>1, <2>3, <2>4 DEF ReportAddsUp
<1>12. Listed(todo') \cap Listed(picked') = {}
  BY <1>1, <1>2 DEF SendInv
<1>13. (Listed(todo') \cup Listed(picked')) \cap (Listed(report'.to) \cup Listed(report'.failed)) = {}
  BY <1>1, <1>2, <1>10 DEF SendInv
<1>14. phase' \in {"looking", "sending"} =>
         Listed(todo') \cup Listed(picked') \cup Listed(report'.to) \cup Listed(report'.failed) \subseteq Listed(Scope')
  BY <1>1, <1>2, <1>3, <1>10 DEF SendInv
<1> QED
  BY <1>1, <1>2, <1>4, <1>6, <1>10, <1>11, <1>12, <1>13, <1>14 DEF SendInv

LEMMA NextSendInv ==
  ASSUME RouterInv, SendInv, [Next]_vars
  PROVE  SendInv'
<1>1. CASE Idle
  <2>1. phase' = "idle" /\ saw' = {} /\ todo' = <<>> /\ picked' = <<>> /\ report' = NoReport
    BY <1>1 DEF Idle, sendVars, SendInv
  <2> QED
    BY <2>1, SendInvWhenIdle
<1>2. CASE SendReturns
  <2>1. phase' = "idle" /\ saw' = {} /\ todo' = <<>> /\ picked' = <<>> /\ report' = NoReport
    BY <1>2 DEF SendReturns
  <2> QED
    BY <2>1, SendInvWhenIdle
<1>3. CASE UNCHANGED <<wsVars, routerVars, sendVars>>
  BY <1>3, OthersKeepSendInv
<1>4. CASE SendBegins \/ LookEnds \/ \E ids \in SUBSET Listed(hosts) : SendTo(ids)
  BY <1>4, BeginningKeepsSendInv
<1>5. CASE Looks \/ Pick \/ PickNamed
  BY <1>5, AskingKeepsSendInv
<1>6. CASE Write
  BY <1>6, WritingKeepsSendInv
<1>7. RouterStep \/ Connects \/ OpensGroup \/ (\E sel \in WS!Typed : ApplySet(sel))
        \/ (\E h \in Host : HostRemoved(h)) => Idle
  BY DEF RouterStep, Connects, OpensGroup, ApplySet, HostRemoved
<1>8. SessionChanges \/ (\E h \in Host : ManagerRemoves(h)) \/ UNCHANGED vars
        => UNCHANGED <<wsVars, routerVars, sendVars>>
  BY DEF SessionChanges, ManagerRemoves, vars
<1> QED
  BY <1>1, <1>2, <1>3, <1>4, <1>5, <1>6, <1>7, <1>8 DEF Next

-----------------------------------------------------------------------------
(* While a send looks for its targets: the kinds of screen it has found    *)
(* include those of the hosts that have not changed and were looked at,    *)
(* and while nothing in the scope changed there is such a host for each    *)
(* kind; and of those asked whether they are targets exactly the ones not  *)
(* to be left alone were picked.                                           *)
Steady == (Listed(Scope) \cap up) \ touched
ShownBy(h) == IF h \in alt THEN "alt" ELSE "primary"
Mixed == saw = {"alt", "primary"}

DecidingInv ==
  /\ touched \subseteq Host
  /\ ~Deciding => touched = {}
  /\ phase = "looking" => ExcludesAltScreen /\ \A h \in Steady \ Listed(todo) : ShownBy(h) \in saw
  /\ phase = "sending" /\ ExcludesAltScreen /\ todo # <<>> => \A h \in Steady : ShownBy(h) \in saw
  /\ phase = "sending" /\ ~ExcludesAltScreen => saw = {}
  /\ Deciding /\ Listed(Scope) \cap touched = {} => \A k \in saw : \E h \in Steady : ShownBy(h) = k
  /\ phase = "sending" /\ todo # <<>> =>
       \A h \in Steady \ Listed(todo) : h \in Listed(picked) <=> ~(Mixed /\ h \in alt)

(* The host that changes is no longer steady, and the others are as they   *)
(* were.                                                                   *)
LEMMA ChangesKeepDecidingInv ==
  ASSUME DecidingInv, UNCHANGED <<wsVars, routerVars, sendVars>>,
         NEW h \in Host, Touches(h),
         \A g \in Host \ {h} : (g \in up' <=> g \in up) /\ (g \in alt' <=> g \in alt),
         Listed(Scope) \subseteq Host
  PROVE  DecidingInv'
<1>1. Scope' = Scope
  BY ScopeStays
<1>2. UNCHANGED <<phase, saw, todo, picked, report, mode>>
  BY DEF sendVars, routerVars
<1>3. (ExcludesAltScreen' <=> ExcludesAltScreen) /\ (Deciding' <=> Deciding) /\ (Mixed' <=> Mixed)
  BY <1>2 DEF ExcludesAltScreen, Deciding, Mixed
<1>4. touched' = IF Deciding THEN touched \cup {h} ELSE touched
  BY DEF Touches
<1>5. CASE ~Deciding
  BY <1>1, <1>2, <1>3, <1>4, <1>5 DEF DecidingInv, Deciding
<1>6. CASE Deciding
  <2>1. Steady' = Steady \ {h} /\ touched' = touched \cup {h}
    BY <1>1, <1>4, <1>6 DEF Steady
  <2>2. \A g \in Steady' : g \in Steady /\ ShownBy(g)' = ShownBy(g) /\ (g \in alt' <=> g \in alt)
    BY <2>1 DEF Steady, ShownBy
  <2>3. touched' \subseteq Host
    BY <2>1 DEF DecidingInv
  <2>4. (phase = "looking" => ExcludesAltScreen /\ \A g \in Steady \ Listed(todo) : ShownBy(g) \in saw)'
    BY <1>2, <1>3, <2>2 DEF DecidingInv
  <2>5. (phase = "sending" /\ ExcludesAltScreen /\ todo # <<>> => \A g \in Steady : ShownBy(g) \in saw)'
    BY <1>2, <1>3, <2>2 DEF DecidingInv
  <2>6. (Listed(Scope) \cap touched = {} => \A k \in saw : \E g \in Steady : ShownBy(g) = k)'
    <3> SUFFICES ASSUME Listed(Scope) \cap touched' = {}
                 PROVE  \A k \in saw : \E g \in Steady' : ShownBy(g)' = k
      BY <1>1, <1>2
    <3>1. h \notin Listed(Scope) /\ Listed(Scope) \cap touched = {}
      BY <2>1
    <3>2. Steady' = Steady
      BY <2>1, <3>1 DEF Steady
    <3> QED
      BY <1>6, <2>2, <3>1, <3>2 DEF DecidingInv
  <2>7. (phase = "sending" /\ todo # <<>> =>
           \A g \in Steady \ Listed(todo) : g \in Listed(picked) <=> ~(Mixed /\ g \in alt))'
    BY <1>2, <1>3, <2>2 DEF DecidingInv
  <2> QED
    BY <1>2, <1>3, <1>6, <2>3, <2>4, <2>5, <2>6, <2>7 DEF DecidingInv
<1> QED
  BY <1>5, <1>6

(* Asking the next host settles whether it is a target: those asked before *)
(* are as they were.                                                       *)
LEMMA PickingPicks ==
  ASSUME SendInv, DecidingInv, Pick
  PROVE  \A g \in Steady \ Listed(todo') : g \in Listed(picked') <=> ~(Mixed /\ g \in alt)
<1> DEFINE h == Head(todo)
<1>1. Listed(todo') = Listed(todo) \ {h} /\ h \in Listed(todo) /\ h \in Host
  BY HeadAndTail DEF Pick, SendInv
<1>2. picked \in WS!HostList /\ h \in Host \ Listed(picked)
  BY <1>1 DEF SendInv
<1>3. picked' = IF h \in up /\ ~(Mixed /\ h \in alt) THEN Append(picked, h) ELSE picked
  BY DEF Pick, Mixed
<1>4. \A g \in Steady \ Listed(todo) : g \in Listed(picked) <=> ~(Mixed /\ g \in alt)
  BY DEF Pick, DecidingInv
<1> HIDE DEF h
<1>5. Listed(Append(picked, h)) = Listed(picked) \cup {h}
  BY <1>2, AppendDistinct
<1>6. Listed(picked') = Listed(picked) \cup (IF h \in up /\ ~(Mixed /\ h \in alt) THEN {h} ELSE {})
  BY <1>3, <1>5
<1>7. \A g \in Steady : g \in up
  BY DEF Steady
<1> QED
  BY <1>1, <1>2, <1>4, <1>6, <1>7

LEMMA NextDecidingInv ==
  ASSUME RouterInv, SendInv, DecidingInv, [Next]_vars
  PROVE  DecidingInv'
<1>1. Listed(Scope) \subseteq Host
  BY ScopeIsBounded DEF WS!HostList, Listed
<1>2. CASE Idle
  BY <1>2 DEF Idle, sendVars, DecidingInv, Deciding, SendInv
<1>3. CASE SendReturns
  BY <1>3 DEF SendReturns, DecidingInv, Deciding
<1>4. CASE UNCHANGED vars
  <2>1. Scope' = Scope
    BY <1>4, ScopeStays DEF vars
  <2>2. Steady' = Steady /\ (ExcludesAltScreen' <=> ExcludesAltScreen) /\ (Deciding' <=> Deciding)
        /\ (Mixed' <=> Mixed) /\ (\A h : ShownBy(h)' = ShownBy(h))
    BY <1>4, <2>1 DEF vars, wsVars, routerVars, liveVars, sendVars, Steady, ExcludesAltScreen, Deciding, Mixed, ShownBy
  <2> QED
    BY <1>4, <2>1, <2>2 DEF DecidingInv, vars, liveVars, sendVars
<1>5. CASE SessionChanges \/ \E h \in Host : ManagerRemoves(h)
  <2>1. PICK h \in Host : /\ Touches(h)
                          /\ \A g \in Host \ {h} : (g \in up' <=> g \in up) /\ (g \in alt' <=> g \in alt)
    <3>1. Listed(fleet) \subseteq Host /\ up \subseteq Host /\ alt \subseteq Host
      BY ListedAreHosts DEF RouterInv
    <3>2. CASE SessionChanges
      BY <3>1, <3>2 DEF SessionChanges
    <3>3. CASE \E h \in Host : ManagerRemoves(h)
      BY <3>1, <3>3 DEF ManagerRemoves
    <3> QED
      BY <1>5, <3>2, <3>3
  <2>2. UNCHANGED <<wsVars, routerVars, sendVars>>
    BY <1>5 DEF SessionChanges, ManagerRemoves
  <2> QED
    BY <1>1, <2>1, <2>2, ChangesKeepDecidingInv
<1>6. ASSUME UNCHANGED <<wsVars, routerVars, liveVars>>
      PROVE  /\ Scope' = Scope /\ (ExcludesAltScreen' <=> ExcludesAltScreen)
             /\ \A h : ShownBy(h)' = ShownBy(h)
  <2>1. Scope' = Scope
    BY <1>6, ScopeStays
  <2> QED
    BY <1>6, <2>1 DEF routerVars, liveVars, ExcludesAltScreen, ShownBy
<1>7. CASE SendBegins
  <2>1. Scope' = Scope /\ (ExcludesAltScreen' <=> ExcludesAltScreen)
    BY <1>6, <1>7 DEF SendBegins
  <2>2. saw' = {} /\ todo' = Scope /\ touched' = touched /\ touched = {} /\ UNCHANGED <<up, alt>>
    BY <1>7 DEF SendBegins, SendInv, DecidingInv, Deciding, liveVars
  <2>3. phase' = IF ExcludesAltScreen THEN "looking" ELSE "sending"
    BY <1>7 DEF SendBegins
  <2>4. Steady' \ Listed(todo') = {}
    BY <2>1, <2>2 DEF Steady
  <2> QED
    BY <2>1, <2>2, <2>3, <2>4 DEF DecidingInv, Deciding
<1>8. CASE Looks
  <2> DEFINE h == Head(todo)
  <2>1. /\ Scope' = Scope /\ (ExcludesAltScreen' <=> ExcludesAltScreen)
        /\ \A g : ShownBy(g)' = ShownBy(g)
    BY <1>6, <1>8 DEF Looks
  <2>2. /\ phase = "looking" /\ phase' = "looking" /\ todo' = Tail(todo) /\ UNCHANGED <<up, alt, touched>>
        /\ saw' = saw \cup (IF h \notin up THEN {} ELSE {ShownBy(h)})
    BY <1>8 DEF Looks, liveVars, ShownBy
  <2>3. Listed(todo') = Listed(todo) \ {h} /\ h \in Listed(todo) /\ Listed(todo) \subseteq Listed(Scope)
    BY <1>8, <2>2, HeadAndTail DEF Looks, SendInv
  <2> HIDE DEF h
  <2>4. Steady' = Steady /\ Deciding /\ Deciding'
    BY <2>1, <2>2 DEF Steady, Deciding
  <2>5. \A g \in Steady' \ Listed(todo') : ShownBy(g)' \in saw'
    <3> SUFFICES ASSUME NEW g \in Steady, g \notin Listed(todo) \/ g = h PROVE ShownBy(g) \in saw'
      BY <2>1, <2>3, <2>4
    <3>1. CASE g = h
      BY <2>2, <3>1 DEF Steady
    <3>2. CASE g \notin Listed(todo)
      BY <2>2, <3>2 DEF DecidingInv
    <3> QED
      BY <3>1, <3>2
  <2>6. Listed(Scope') \cap touched' = {} => \A k \in saw' : \E g \in Steady' : ShownBy(g)' = k
    <3> SUFFICES ASSUME Listed(Scope) \cap touched = {}, NEW k \in saw'
                 PROVE  \E g \in Steady : ShownBy(g) = k
      BY <2>1, <2>2, <2>4
    <3>1. CASE k \in saw
      BY <2>4, <3>1 DEF DecidingInv
    <3>2. CASE k = ShownBy(h) /\ h \in up
      BY <2>3, <3>2 DEF Steady
    <3> QED
      BY <2>2, <3>1, <3>2
  <2> QED
    BY <2>1, <2>2, <2>4, <2>5, <2>6 DEF DecidingInv
<1>9. CASE LookEnds
  <2>1. /\ Scope' = Scope /\ (ExcludesAltScreen' <=> ExcludesAltScreen)
        /\ \A g : ShownBy(g)' = ShownBy(g)
    BY <1>6, <1>9 DEF LookEnds
  <2>2. /\ phase = "looking" /\ phase' = "sending" /\ todo' = Scope /\ UNCHANGED <<up, alt, saw>>
        /\ todo = <<>> \/ Mixed
    BY <1>9 DEF LookEnds, liveVars, Mixed
  <2>3. ExcludesAltScreen
    BY <2>2 DEF DecidingInv
  <2>4. \A g \in Steady : ShownBy(g) \in saw
    <3>1. CASE todo = <<>>
      BY <2>2, <3>1, NoneListed DEF DecidingInv
    <3>2. CASE Mixed
      BY <3>2 DEF Mixed, ShownBy
    <3> QED
      BY <1>9, <3>1, <3>2 DEF LookEnds, Mixed
  <2>5. touched' = IF todo' = <<>> THEN {} ELSE touched
    BY <1>9 DEF LookEnds
  <2>6. CASE todo' = <<>>
    BY <2>1, <2>2, <2>3, <2>5, <2>6 DEF DecidingInv, Deciding
  <2>7. CASE todo' # <<>>
    <3>1. Steady' = Steady /\ Deciding /\ Deciding' /\ touched' = touched
      BY <2>1, <2>2, <2>5, <2>7 DEF Steady, Deciding
    <3>2. Steady' \ Listed(todo') = {}
      BY <2>1, <2>2, <3>1 DEF Steady
    <3> QED
      BY <2>1, <2>2, <2>3, <2>4, <3>1, <3>2 DEF DecidingInv
  <2> QED
    BY <2>6, <2>7
<1>10. CASE Pick
  <2>1. /\ Scope' = Scope /\ (ExcludesAltScreen' <=> ExcludesAltScreen)
        /\ \A g : ShownBy(g)' = ShownBy(g)
    BY <1>6, <1>10 DEF Pick
  <2>2. /\ phase = "sending" /\ phase' = "sending" /\ todo # <<>> /\ UNCHANGED <<up, alt, saw>>
        /\ touched' = IF todo' = <<>> THEN {} ELSE touched
    BY <1>10 DEF Pick, liveVars
  <2>3. CASE todo' = <<>>
    BY <2>1, <2>2, <2>3 DEF DecidingInv, Deciding
  <2>4. CASE todo' # <<>>
    <3>1. /\ Steady' = Steady /\ Deciding /\ Deciding' /\ touched' = touched /\ (Mixed' <=> Mixed)
      BY <2>1, <2>2, <2>4 DEF Steady, Deciding, Mixed
    <3>2. \A g \in Steady \ Listed(todo') : g \in Listed(picked') <=> ~(Mixed /\ g \in alt)
      BY <1>10, PickingPicks
    <3> QED
      BY <2>1, <2>2, <2>4, <3>1, <3>2 DEF DecidingInv
  <2> QED
    BY <2>3, <2>4
<1>11. CASE PickNamed \/ Write \/ \E ids \in SUBSET Listed(hosts) : SendTo(ids)
  <2>1. /\ ~Deciding /\ ~Deciding' /\ UNCHANGED <<touched, saw, mode>>
        /\ phase' # "looking" /\ (phase' = "sending" => phase = "sending" /\ todo' = <<>>)
    <3>1. phase \in {"idle", "looking", "sending", "resending"} /\ (phase = "looking" => picked = <<>>)
      BY DEF SendInv
    <3> QED
      BY <1>11, <3>1 DEF PickNamed, Write, Writing, SendTo, Deciding, routerVars
  <2> QED
    BY <2>1 DEF DecidingInv, ExcludesAltScreen
<1>12. RouterStep \/ Connects \/ OpensGroup \/ (\E sel \in WS!Typed : ApplySet(sel))
        \/ (\E h \in Host : HostRemoved(h)) => Idle
  BY DEF RouterStep, Connects, OpensGroup, ApplySet, HostRemoved
<1> QED
  BY <1>2, <1>3, <1>4, <1>5, <1>7, <1>8, <1>9, <1>10, <1>11, <1>12 DEF Next

-----------------------------------------------------------------------------
LEMMA InitRouter == Init => RouterInv /\ SendInv
<1> SUFFICES ASSUME Init PROVE RouterInv /\ SendInv
  OBVIOUS
<1>1. <<>> \in WS!HostList /\ Listed(<<>>) = {} /\ Len(<<>>) = 0
  BY NoneListed
<1>2. WS!All \in WS!Selector
  BY DEF WS!Selector
<1>3. RouterInv
  BY <1>1, <1>2 DEF Init, RouterInv, RouterFollowsFleet, Mode
<1>4. /\ NoReport.to = <<>> /\ NoReport.failed = <<>> /\ NoReport.targets = 0 /\ NoReport.scope = 0
      /\ NoReport \in [scope : Nat, targets : Nat, to : WS!HostList, failed : WS!HostList]
  BY <1>1 DEF NoReport
<1>5. ReportAddsUp
  BY <1>1, <1>4 DEF Init, ReportAddsUp
<1>6. SendInv
  BY <1>1, <1>4, <1>5 DEF Init, SendInv
<1> QED
  BY <1>3, <1>6

LEMMA InitDeciding == Init => DecidingInv
BY DEF Init, DecidingInv, Deciding

(* The router's list follows the manager's whatever joins, leaves and      *)
(* returns in whatever order, and no selection or focus outlives its host. *)
THEOREM RouterIsInStep == Spec => []RouterInStep
<1>1. RouterInv /\ SendInv /\ DecidingInv => RouterInStep
  BY DEF RouterInv, SendInv, DecidingInv, RouterInStep, TypeOK
<1> QED
  BY InitRouter, InitDeciding, NextRouterInv, NextSendInv, NextDecidingInv, <1>1, PTL DEF Spec

(* A send reaches nobody outside the scope it was meant for, however the   *)
(* sessions and the manager's list change while it asks and writes.        *)
THEOREM SendsStayInScope == Spec => []WorkingSetBoundsSends
<1>1. ASSUME RouterInv, SendInv PROVE WorkingSetBoundsSends
  <2> SUFFICES ASSUME phase = "sending" PROVE WorkingSetBoundsSends
    BY DEF WorkingSetBoundsSends
  <2>1. Listed(report.to) \cup Listed(picked) \subseteq Listed(Scope)
    BY <1>1 DEF SendInv
  <2>2. mode \in {"all", "selected", "single", "fleet"}
    BY <1>1 DEF RouterInv, Mode
  <2>3. CASE mode = "all"
    BY <1>1, <2>1, <2>3, ScopeIsBounded DEF WorkingSetBoundsSends
  <2>4. CASE mode = "selected"
    BY <1>1, <2>1, <2>4, ScopeIsBounded DEF WorkingSetBoundsSends
  <2>5. CASE mode = "single"
    BY <1>1, <2>1, <2>5, ScopeIsBounded DEF WorkingSetBoundsSends
  <2>6. CASE mode = "fleet"
    BY <1>1, <2>1, <2>6, ScopeIsBounded DEF WorkingSetBoundsSends
  <2> QED
    BY <2>2, <2>3, <2>4, <2>5, <2>6
<1> QED
  BY InitRouter, NextRouterInv, NextSendInv, <1>1, PTL DEF Spec

(* Every target of a send either took the bytes or is reported as failed,  *)
(* never both, and the scope is at least as large as what was asked.       *)
THEOREM ReportsAddUp == Spec => []ReportAddsUp
<1>1. SendInv => ReportAddsUp
  BY DEF SendInv
<1> QED
  BY InitRouter, NextRouterInv, NextSendInv, <1>1, PTL DEF Spec

(* Whatever screens and connections do under a send, a shell of the scope  *)
(* that was up all along is a target, a full-screen program beside it is   *)
(* not, and full-screen programs alone are left alone only if something in *)
(* the scope changed while the send looked.                                *)
THEOREM SomebodyAlwaysDriven == Spec => SomebodyIsDriven
<1>1. ASSUME RouterInv, SendInv, DecidingInv, [Next]_vars,
             phase = "sending", todo # <<>>, todo' = <<>>
      PROVE  LET reached == Listed(picked')
                 steady  == (Listed(Scope) \cap up) \ touched
                 shells  == steady \ alt
             IN  /\ shells \subseteq reached
                 /\ ExcludesAltScreen /\ shells # {} => steady \cap reached = shells
                 /\ ExcludesAltScreen /\ shells = {} /\ Listed(Scope) \cap touched = {} => steady \subseteq reached
                 /\ ~ExcludesAltScreen => steady \subseteq reached
  <2>1. Pick
    BY <1>1 DEF Next, vars, sendVars, Idle, RouterStep, Connects, OpensGroup, ApplySet, ManagerRemoves, HostRemoved,
                SessionChanges, SendBegins, Looks, LookEnds, PickNamed, Write, Writing, SendReturns, SendTo
  <2>2. \A g \in Steady : g \in Listed(picked') <=> ~(Mixed /\ g \in alt)
    BY <1>1, <2>1, PickingPicks, NoneListed
  <2>3. \A g \in Steady : ExcludesAltScreen => ShownBy(g) \in saw
    BY <1>1 DEF DecidingInv
  <2>4. ~ExcludesAltScreen => ~Mixed
    BY <1>1 DEF DecidingInv, Mixed
  <2>5. \A g, s \in Steady : ExcludesAltScreen /\ g \in alt /\ s \notin alt => Mixed
    BY <1>1, <2>3 DEF ShownBy, Mixed, SendInv
  <2>6. Listed(Scope) \cap touched = {} /\ Mixed => \E s \in Steady : s \notin alt
    <3> SUFFICES ASSUME Listed(Scope) \cap touched = {}, Mixed PROVE \E s \in Steady : s \notin alt
      OBVIOUS
    <3>1. PICK s \in Steady : ShownBy(s) = "primary"
      BY <1>1 DEF DecidingInv, Deciding, Mixed
    <3> QED
      BY <3>1 DEF ShownBy
  <2> QED
    BY <2>2, <2>4, <2>5, <2>6 DEF Steady
<1>2. RouterInv /\ SendInv /\ DecidingInv /\ [Next]_vars
        => [phase = "sending" /\ todo # <<>> /\ todo' = <<>> =>
              LET reached == Listed(picked')
                  steady  == (Listed(Scope) \cap up) \ touched
                  shells  == steady \ alt
              IN  /\ shells \subseteq reached
                  /\ ExcludesAltScreen /\ shells # {} => steady \cap reached = shells
                  /\ ExcludesAltScreen /\ shells = {} /\ Listed(Scope) \cap touched = {} => steady \subseteq reached
                  /\ ~ExcludesAltScreen => steady \subseteq reached]_vars
  BY <1>1
<1> QED
  BY InitRouter, InitDeciding, NextRouterInv, NextSendInv, NextDecidingInv, <1>2, PTL DEF Spec, SomebodyIsDriven

-----------------------------------------------------------------------------
(* The root model as the program can have it.                              *)
AppFields ==
  {"snap", "states", "open", "active", "page", "pane", "kept", "term", "main", "screen",
   "focus", "split", "chunk", "filter", "match", "had", "limit"}

OpenSession ==
  [name : DOMAIN Group \cup {AdHoc}, hosts : Seq(NoLimit), sawClose : BOOLEAN, ending : BOOLEAN]

(* A name is that of one session.                                          *)
NamesApart(open) == \A i, j \in DOMAIN open : open[i].name = open[j].name => i = j

SessionsOK(open) ==
  /\ open \in Seq(OpenSession) /\ NamesApart(open)
  /\ \A i \in DOMAIN open : NoTwins(open[i].hosts, Doubles(open[i].name)) /\ Real(open[i].hosts) # {}

(* A main area that is there has a line.                                   *)
AreaOK(area) ==
  /\ area \in [x : Int, y : Int, w : Int, h : Int]
  /\ area.w > 0 => area.h > 0

(* Nothing is laid out before the terminal has a size.                     *)
NoArea == [x |-> 0, y |-> 0, w |-> 0, h |-> 0]
Unsized(term) == term[1] <= 0 \/ term[2] <= 0

AppOK(a) ==
  /\ DOMAIN a = AppFields
  /\ a.snap \in Seq(PaneHost) /\ IsInjective(a.snap)
  /\ SessionsOK(a.open) /\ a.active \in 0 .. Len(a.open)
  /\ a.split \in Nat /\ a.chunk \in Int /\ a.kept \in Nat /\ a.page \in Int /\ a.pane \in Int
  /\ a.term \in Nat \X Nat /\ AreaOK(a.main) /\ (Unsized(a.term) => a.main = NoArea)

(* What a change of the view leaves alone.                                 *)
Keeps(a, b) == AppOK(b) /\ b.snap = a.snap /\ Owned(b) = Owned(a)

(* The fields that only have to be of their type.                          *)
Free == {"states", "page", "pane", "screen", "focus", "filter", "match", "had", "limit"}

(* A hole is a place in a list and not a host.                             *)
LEMMA HoleIsNoHost == Hole \notin PaneHost /\ PaneHost \subseteq NoLimit /\ NoLimit \ {Hole} = PaneHost
BY HoleAssumption DEF NoLimit

(* The methods are chained.                                                *)
LEMMA KeepsIsTransitive ==
  ASSUME NEW a, NEW b, NEW c, Keeps(a, b), Keeps(b, c)
  PROVE  Keeps(a, c)
BY DEF Keeps

(* Changing a field that only has to be of its type.                       *)
LEMMA FreeChange ==
  ASSUME NEW a, AppOK(a), NEW b, DOMAIN b = DOMAIN a,
         \A f \in AppFields \ Free : b[f] = a[f], b.page \in Int, b.pane \in Int
  PROVE  Keeps(a, b)
<1>1. /\ b["snap"] = a["snap"] /\ b["open"] = a["open"] /\ b["active"] = a["active"]
      /\ b["split"] = a["split"] /\ b["chunk"] = a["chunk"] /\ b["kept"] = a["kept"]
      /\ b["term"] = a["term"] /\ b["main"] = a["main"]
  BY DEF AppFields, Free
<1>2. AppOK(b)
  BY <1>1 DEF AppOK
<1> QED
  BY <1>1, <1>2 DEF Keeps, Owned

-----------------------------------------------------------------------------
(* What is shown is a list of hosts and holes.                             *)
LEMMA SessionHostsTyped ==
  ASSUME NEW a, AppOK(a)
  PROVE  SessionHosts(a) \in Seq(NoLimit)
<1>1. CASE a.active = 0
  <2>1. a.snap \in Seq(NoLimit)
    BY HoleIsNoHost DEF AppOK
  <2> QED
    BY <1>1, <2>1 DEF SessionHosts
<1>2. CASE a.active # 0
  <2>1. a.open \in Seq(OpenSession) /\ a.active \in 1 .. Len(a.open)
    BY <1>2 DEF AppOK, SessionsOK
  <2>2. a.open[a.active] \in OpenSession
    BY <2>1
  <2>3. a.open[a.active].hosts \in Seq(NoLimit)
    BY <2>2 DEF OpenSession
  <2> DEFINE members == a.open[a.active].hosts
             t == [i \in DOMAIN members |-> IF members[i] \in ToSet(a.snap) THEN members[i] ELSE Hole]
  <2> HIDE DEF members
  <2>4. members \in Seq(NoLimit) /\ Hole \in NoLimit
    BY <2>3 DEF members, NoLimit
  <2>5. t \in [1 .. Len(members) -> NoLimit] /\ Len(members) \in Nat
    BY <2>4
  <2>6. t \in Seq(NoLimit)
    BY <2>5
  <2> QED
    BY <1>2, <2>6 DEF SessionHosts, Holed, members
<1> QED
  BY <1>1, <1>2

(* A filter shows hosts of the session.                                    *)
LEMMA FilteredHostsTyped ==
  ASSUME NEW a, AppOK(a)
  PROVE  /\ FilteredHosts(a) \in Seq(NoLimit)
         /\ FilteredHosts(a) # <<>> => SessionHosts(a) # <<>>
<1> DEFINE s == SessionHosts(a)
           ids == a.match \ {Hole}
<1>1. s \in Seq(NoLimit)
  BY SessionHostsTyped
<1> HIDE DEF s, ids
<1>2. Only(s, ids) \in Seq(NoLimit) /\ ToSet(Only(s, ids)) = ToSet(s) \cap ids
  BY <1>1, OnlyIsPart
<1>3. Only(s, ids) # <<>> => s # <<>>
  <2> SUFFICES ASSUME s = <<>>, Only(s, ids) # <<>> PROVE FALSE
    OBVIOUS
  <2>1. ToSet(s) = {}
    BY DEF ToSet
  <2>2. 1 \in DOMAIN Only(s, ids)
    BY <1>2
  <2>3. Only(s, ids)[1] \in ToSet(Only(s, ids))
    BY <2>2 DEF ToSet
  <2> QED
    BY <1>2, <2>1, <2>3
<1>4. FilteredHosts(a) \in {s, Only(s, ids)}
  BY DEF FilteredHosts, s, ids
<1> QED
  BY <1>1, <1>2, <1>3, <1>4 DEF s

-----------------------------------------------------------------------------
(* Arithmetic of pages and chunks.                                         *)
LEMMA Division ==
  ASSUME NEW n \in Int, NEW b \in Nat \ {0}
  PROVE  n \div b \in Int /\ (n \div b) * b <= n /\ n < (n \div b) * b + b
BY Z3

(* So many full parts, and one that may be short.                          *)
LEMMA CeilDivTyped ==
  ASSUME NEW n \in Nat, NEW b \in Nat
  PROVE  /\ CeilDiv(n, b) \in Nat
         /\ b > 0 /\ n > 0 => CeilDiv(n, b) >= 1 /\ (CeilDiv(n, b) - 1) * b < n
<1>1. CASE b = 0
  BY <1>1 DEF CeilDiv
<1>2. CASE b > 0
  <2> DEFINE q == (n + b - 1) \div b
  <2>1. q \in Int /\ q * b <= n + b - 1 /\ n + b - 1 < q * b + b
    BY <1>2, Division
  <2>2. CeilDiv(n, b) = q
    BY <1>2 DEF CeilDiv
  <2> HIDE DEF q
  <2>3. q >= 0
    <3> SUFFICES ASSUME q <= -1 PROVE FALSE
      BY <2>1
    <3>1. q * b <= -b
      BY <1>2, <2>1, Z3
    <3> QED
      BY <1>2, <2>1, <3>1
  <2>4. n > 0 => q >= 1
    <3> SUFFICES ASSUME n > 0, q = 0 PROVE FALSE
      BY <2>1, <2>3
    <3> QED
      BY <1>2, <2>1
  <2>5. n > 0 => (q - 1) * b < n
    <3>1. (q - 1) * b = q * b - b
      BY <1>2, <2>1, Z3
    <3> QED
      BY <1>2, <2>1, <3>1
  <2> QED
    BY <1>2, <2>1, <2>2, <2>3, <2>4, <2>5
<1> QED
  BY <1>1, <1>2

(* A clamped value is within its bounds.                                   *)
LEMMA ClampTyped ==
  ASSUME NEW v \in Int, NEW lo \in Int, NEW hi \in Int, lo <= hi
  PROVE  Clamp(v, lo, hi) \in lo .. hi
BY DEF Clamp

(* A split has a chunk, even of nothing.                                   *)
LEMMA SplitChunksTyped ==
  ASSUME NEW a, AppOK(a)
  PROVE  /\ SplitChunks(a) \in Nat
         /\ a.split > 0 => SplitChunks(a) >= 1
<1>1. Len(FilteredHosts(a)) \in Nat /\ a.split \in Nat
  BY FilteredHostsTyped DEF AppOK
<1>2. CeilDiv(Len(FilteredHosts(a)), a.split) \in Nat
  BY <1>1, CeilDivTyped
<1> QED
  BY <1>1, <1>2 DEF SplitChunks, Most

(* A chunk of a list that is not empty is not empty.                       *)
LEMMA HostIDsTyped ==
  ASSUME NEW a, AppOK(a)
  PROVE  /\ HostIDs(a) \in Seq(NoLimit)
         /\ HostIDs(a) # <<>> <=> FilteredHosts(a) # <<>>
<1> DEFINE f == FilteredHosts(a)
           n == Len(f)
           c == Clamp(a.chunk, 0, SplitChunks(a) - 1)
           first == c * a.split
           last == Least(first + a.split, n)
<1>1. f \in Seq(NoLimit) /\ n \in Nat /\ a.split \in Nat /\ a.chunk \in Int
  <2>1. f \in Seq(NoLimit)
    BY FilteredHostsTyped
  <2>2. a.split \in Nat /\ a.chunk \in Int
    BY DEF AppOK
  <2> QED
    BY <2>1, <2>2
<1>2. CASE a.split = 0
  BY <1>1, <1>2 DEF HostIDs
<1>3. CASE a.split > 0
  <2>1. c \in 0 .. SplitChunks(a) - 1 /\ SplitChunks(a) \in Nat
    <3>1. SplitChunks(a) \in Nat /\ SplitChunks(a) >= 1
      BY <1>3, SplitChunksTyped
    <3>2. SplitChunks(a) - 1 \in Int /\ 0 <= SplitChunks(a) - 1
      BY <3>1
    <3>3. Clamp(a.chunk, 0, SplitChunks(a) - 1) \in 0 .. SplitChunks(a) - 1
      BY <1>1, <3>2 DEF Clamp
    <3> QED
      BY <3>1, <3>3
  <2>2. first \in Nat
    BY <1>1, <2>1, Z3
  <2>3. HostIDs(a) = SubSeq(f, first + 1, last)
    <3>1. a.split # 0
      BY <1>1, <1>3
    <3> QED
      BY <3>1 DEF HostIDs, Part
  <2> HIDE DEF c
  <2>4. ASSUME n > 0 PROVE first < n
    <3>1. SplitChunks(a) = Most(1, CeilDiv(n, a.split))
      BY <1>3 DEF SplitChunks
    <3>2. CeilDiv(n, a.split) \in Nat /\ CeilDiv(n, a.split) >= 1 /\ (CeilDiv(n, a.split) - 1) * a.split < n
      BY <1>1, <1>3, <2>4, CeilDivTyped
    <3> DEFINE q == CeilDiv(n, a.split)
    <3> HIDE DEF q
    <3>3. c <= q - 1 /\ q \in Nat /\ (q - 1) * a.split < n
      BY <2>1, <3>1, <3>2 DEF q, Most
    <3>4. c * a.split <= (q - 1) * a.split
      BY <1>1, <1>3, <2>1, <3>3, Z3
    <3> QED
      BY <1>1, <2>2, <3>3, <3>4
  <2> HIDE DEF first, f
  <2>5. last \in Nat /\ last <= n
    BY <1>1, <2>2 DEF Least
  <2>6. /\ SubSeq(f, first + 1, last) \in Seq(NoLimit)
        /\ Len(SubSeq(f, first + 1, last)) = IF first + 1 <= last THEN last - first ELSE 0
    BY <1>1, <2>2, <2>5, SubSeqProperties
  <2>7. CASE n = 0
    <3>1. f = <<>>
      BY <1>1, <2>7, EmptySeq
    <3>2. SubSeq(f, first + 1, last) = <<>>
      BY <1>1, <2>2, <2>5, <2>6, <2>7, EmptySeq
    <3> QED
      BY <2>3, <2>6, <3>1, <3>2 DEF f
  <2>8. CASE n > 0
    <3>1. f # <<>>
      BY <1>1, <2>8, EmptySeq
    <3>2. first + 1 <= last
      BY <1>1, <1>3, <2>2, <2>4, <2>8 DEF Least
    <3>3. SubSeq(f, first + 1, last) # <<>>
      <4>1. Len(SubSeq(f, first + 1, last)) >= 1
        BY <2>2, <2>5, <2>6, <3>2
      <4>2. Len(<<>>) = 0
        OBVIOUS
      <4> DEFINE t == SubSeq(f, first + 1, last)
      <4>3. Len(t) >= 1
        BY <4>1
      <4> HIDE DEF t
      <4>4. ASSUME t = <<>> PROVE FALSE
        BY <4>3, <4>4
      <4> QED
        BY <4>4 DEF t
    <3> QED
      BY <2>3, <2>6, <3>1, <3>3 DEF f
  <2> QED
    BY <1>1, <2>7, <2>8
<1> QED
  BY <1>1, <1>2, <1>3

-----------------------------------------------------------------------------
(* The tiling has room for a pane.                                         *)
LEMMA LeastNat ==
  ASSUME NEW T, T \subseteq Nat, T # {}
  PROVE  \E x \in T : \A y \in T : x <= y
<1> DEFINE R == OpToRel(<, Nat)
<1>1. IsWellFoundedOn(R, Nat)
  BY NatLessThanWellFounded
<1>2. \A x, y \in Nat : <<y, x>> \in R <=> y < x
  BY DEF OpToRel
<1> HIDE DEF R
<1>3. PICK x \in T : \A y \in T : ~ (<<y, x>> \in R)
  BY <1>1, WFMin
<1>4. \A y \in T : x <= y
  <2> TAKE y \in T
  <2>1. x \in Nat /\ y \in Nat
    BY <1>3
  <2>2. ~(y < x)
    BY <1>2, <1>3, <2>1
  <2> QED
    BY <2>1, <2>2
<1> QED
  BY <1>3, <1>4

(* The root is there to be chosen.                                         *)
LEMMA CeilSqrtTyped ==
  ASSUME NEW n \in Nat
  PROVE  CeilSqrt(n) \in Nat
<1> DEFINE T == {k \in 0 .. n : k * k >= n}
<1>1. n * n >= n
  BY Z3
<1>2. T \subseteq Nat /\ n \in T
  BY <1>1
<1> HIDE DEF T
<1>3. PICK x \in T : \A y \in T : x <= y
  BY <1>2, LeastNat
<1> USE DEF T
<1>4. x \in 0 .. n /\ x * x >= n
  BY <1>3
<1>5. \A j \in 0 .. x - 1 : j * j < n
  <2> TAKE j \in 0 .. x - 1
  <2>1. j \in 0 .. n /\ ~(x <= j) /\ j * j \in Int
    BY <1>4, Z3
  <2>2. j \notin T
    BY <1>3, <2>1
  <2> QED
    BY <2>1, <2>2
<1>6. \E k \in 0 .. n : k * k >= n /\ \A j \in 0 .. k - 1 : j * j < n
  BY <1>4, <1>5
<1>7. CeilSqrt(n) \in 0 .. n
  BY <1>6 DEF CeilSqrt
<1> QED
  BY <1>7

(* The panes of a tiling fit the area, and there is one.                   *)
TilesFit(area, g, count) ==
  /\ g.columns \in Nat \ {0} /\ g.columns <= area.w
  /\ g.rows \in Nat \ {0} /\ g.rows <= area.h
  /\ g.perPage \in Nat \ {0} /\ g.perPage <= g.columns * g.rows
  /\ g.pages = CeilDiv(count, g.perPage)

LEMMA TiledFits ==
  ASSUME NEW area, NEW columns \in Nat \ {0}, columns <= area.w, NEW rows \in Nat \ {0}, rows <= area.h,
         NEW wanted \in Nat \ {0}, NEW count
  PROVE  TilesFit(area, Tiled(columns, rows, wanted, count), count)
<1> DEFINE room == columns * rows
           perPage == Least(wanted, room)
<1>1. room \in Nat \ {0}
  BY Z3
<1>2. Tiled(columns, rows, wanted, count) =
        [columns |-> columns, rows |-> rows, perPage |-> perPage, pages |-> CeilDiv(count, perPage)]
  BY DEF Tiled
<1> HIDE DEF room
<1>3. perPage \in Nat \ {0} /\ perPage <= room
  BY <1>1 DEF Least
<1> HIDE DEF perPage
<1> DEFINE g == Tiled(columns, rows, wanted, count)
<1>4. g.columns = columns /\ g.rows = rows /\ g.perPage = perPage /\ g.pages = CeilDiv(count, perPage)
  BY <1>2
<1> HIDE DEF g
<1>5. perPage <= columns * rows
  BY <1>3 DEF room
<1> QED
  BY <1>3, <1>4, <1>5 DEF TilesFit, g

(* An area that is there and something to show: panes that fit.            *)
LEMMA TileGridFits ==
  ASSUME NEW area \in [x : Int, y : Int, w : Int, h : Int], area.w > 0, area.h > 0,
         NEW count \in Nat \ {0}, NEW cap \in Nat
  PROVE  TilesFit(area, TileGrid(area, count, cap), count)
<1> DEFINE maxColumns == Most(1, area.w \div 47)
           maxRows == Most(1, area.h \div 19)
           wanted == Least(count, IF cap > 0 THEN Least(maxColumns * maxRows, cap)
                                  ELSE maxColumns * maxRows)
           squarest == Most(1, Least(CeilSqrt(wanted), maxColumns))
<1>1. /\ maxColumns \in Nat \ {0} /\ maxColumns <= area.w
      /\ maxRows \in Nat \ {0} /\ maxRows <= area.h
  <2>1. /\ area.w \div 47 \in Int /\ area.h \div 19 \in Int
        /\ area.w \div 47 <= area.w /\ area.h \div 19 <= area.h
    OBVIOUS
  <2> QED
    BY <2>1 DEF Most
<1>2. TileGrid(area, count, cap) = Shape(wanted, squarest, maxColumns, maxRows, count)
  BY DEF TileGrid
<1> HIDE DEF maxColumns, maxRows
<1>3. maxColumns * maxRows \in Nat \ {0}
  BY <1>1, Z3
<1>4. wanted \in Nat \ {0}
  BY <1>3 DEF Least
<1> HIDE DEF wanted
<1>5. squarest \in Nat \ {0} /\ squarest <= maxColumns
  BY <1>1, <1>4, CeilSqrtTyped DEF Least, Most
<1> HIDE DEF squarest
<1>6. \A b \in Nat \ {0} : CeilDiv(wanted, b) \in Nat \ {0}
  <2> TAKE b \in Nat \ {0}
  <2>1. wanted \in Nat /\ wanted > 0 /\ b \in Nat /\ b > 0
    BY <1>4
  <2>2. CeilDiv(wanted, b) \in Nat /\ CeilDiv(wanted, b) >= 1
    BY <2>1, CeilDivTyped
  <2> QED
    BY <2>2
<1> DEFINE columns == Least(Most(1, CeilDiv(wanted, maxRows)), maxColumns)
<1>7. columns \in Nat \ {0} /\ columns <= maxColumns
  BY <1>1, <1>6 DEF Least, Most
<1> HIDE DEF columns
<1>8. CASE CeilDiv(wanted, squarest) <= maxRows
  <2> DEFINE rows == CeilDiv(wanted, squarest)
  <2>1. Shape(wanted, squarest, maxColumns, maxRows, count) = Tiled(squarest, rows, wanted, count)
    BY <1>8 DEF Shape
  <2>2. rows \in Nat \ {0} /\ rows <= area.h /\ squarest <= area.w
    BY <1>1, <1>5, <1>6, <1>8
  <2> HIDE DEF rows
  <2>3. TilesFit(area, Tiled(squarest, rows, wanted, count), count)
    BY <1>4, <1>5, <2>2, TiledFits
  <2> QED
    BY <1>2, <2>1, <2>3
<1>9. CASE ~(CeilDiv(wanted, squarest) <= maxRows)
  <2>1. Shape(wanted, squarest, maxColumns, maxRows, count) = Tiled(columns, maxRows, wanted, count)
    BY <1>9 DEF Shape, columns
  <2>2. columns <= area.w
    BY <1>1, <1>7
  <2>3. TilesFit(area, Tiled(columns, maxRows, wanted, count), count)
    BY <1>1, <1>4, <1>7, <2>2, TiledFits
  <2> QED
    BY <1>2, <2>1, <2>3
<1> QED
  BY <1>8, <1>9

(* There are no fewer slots than hosts.                                    *)
LEMMA GridSlotsTyped ==
  ASSUME NEW a, AppOK(a)
  PROVE  /\ GridSlots(a) \in Nat
         /\ HostIDs(a) # <<>> => GridSlots(a) > 0
<1>1. HostIDs(a) \in Seq(NoLimit) /\ a.kept \in Nat
  BY HostIDsTyped DEF AppOK
<1>2. Len(HostIDs(a)) \in Nat /\ (HostIDs(a) # <<>> => Len(HostIDs(a)) > 0)
  BY <1>1, EmptySeq
<1> QED
  BY <1>1, <1>2 DEF GridSlots, Most

(* A pane that is to be shown has its place on a page.                     *)
LEMMA GridFits ==
  ASSUME NEW a, AppOK(a), a.main.w > 0, HostIDs(a) # <<>>
  PROVE  /\ TilesFit(GridArea(a), Grid(a), GridSlots(a))
         /\ GridArea(a) \in [x : Int, y : Int, w : Int, h : Int]
         /\ GridArea(a).w > 0 /\ GridArea(a).h > 0
         /\ GridArea(a).x = a.main.x /\ GridArea(a).y = a.main.y
         /\ GridArea(a).w = a.main.w /\ GridArea(a).h <= a.main.h
<1>1. /\ a.main \in [x : Int, y : Int, w : Int, h : Int] /\ a.main.h > 0
      /\ GridSlots(a) \in Nat \ {0} /\ PaneCap(a) \in Nat
  <2>1. GridSlots(a) \in Nat \ {0}
    BY GridSlotsTyped
  <2>2. a.main \in [x : Int, y : Int, w : Int, h : Int] /\ a.main.h > 0
    BY DEF AppOK, AreaOK
  <2>3. PaneCap(a) \in Nat
    BY DEF PaneCap
  <2> QED
    BY <2>1, <2>2, <2>3
<1>2. TilesFit(a.main, WholeGrid(a), GridSlots(a))
  BY <1>1, TileGridFits DEF WholeGrid
<1>3. CASE Footer(a, WholeGrid(a))
  <2>1. a.main.h > 1
    BY <1>3 DEF Footer
  <2> DEFINE area == Shorter(a.main)
  <2>2. /\ area \in [x : Int, y : Int, w : Int, h : Int]
        /\ area.w > 0 /\ area.h > 0
        /\ area.x = a.main.x /\ area.y = a.main.y /\ area.w = a.main.w /\ area.h <= a.main.h
    BY <1>1, <2>1 DEF Shorter
  <2>3. GridArea(a) = area /\ Grid(a) = TileGrid(area, GridSlots(a), PaneCap(a))
    BY <1>3 DEF Grid, GridBeside, GridArea
  <2> HIDE DEF area
  <2>4. TilesFit(area, TileGrid(area, GridSlots(a), PaneCap(a)), GridSlots(a))
    BY <1>1, <2>2, TileGridFits
  <2> QED
    BY <2>2, <2>3, <2>4
<1>4. CASE ~Footer(a, WholeGrid(a))
  <2>1. GridArea(a) = a.main /\ Grid(a) = WholeGrid(a)
    BY <1>4 DEF Grid, GridBeside, GridArea
  <2> QED
    BY <1>1, <1>2, <2>1
<1> QED
  BY <1>3, <1>4

(* Whatever there is to show.                                              *)
LEMMA GridTyped ==
  ASSUME NEW a, AppOK(a)
  PROVE  Grid(a).perPage \in Nat /\ Grid(a).pages \in Nat /\ Grid(a).columns \in Nat
<1>1. a.main \in [x : Int, y : Int, w : Int, h : Int] /\ (a.main.w > 0 => a.main.h > 0)
  BY DEF AppOK, AreaOK
<1>2. GridSlots(a) \in Nat /\ PaneCap(a) \in Nat
  BY GridSlotsTyped DEF PaneCap
<1>3. ASSUME NEW area \in [x : Int, y : Int, w : Int, h : Int]
      PROVE  /\ TileGrid(area, GridSlots(a), PaneCap(a)).perPage \in Nat
             /\ TileGrid(area, GridSlots(a), PaneCap(a)).pages \in Nat
             /\ TileGrid(area, GridSlots(a), PaneCap(a)).columns \in Nat
  <2> DEFINE g == TileGrid(area, GridSlots(a), PaneCap(a))
  <2>1. CASE area.w <= 0 \/ area.h <= 0 \/ GridSlots(a) <= 0
    <3>1. g = NoGrid
      BY <2>1 DEF TileGrid
    <3> QED
      BY <3>1 DEF NoGrid
  <2>2. CASE area.w > 0 /\ area.h > 0 /\ GridSlots(a) > 0
    <3>1. TilesFit(area, g, GridSlots(a))
      BY <1>2, <2>2, TileGridFits
    <3> HIDE DEF g
    <3>2. g.perPage \in Nat /\ g.pages = CeilDiv(GridSlots(a), g.perPage) /\ g.columns \in Nat
      BY <3>1 DEF TilesFit
    <3>3. CeilDiv(GridSlots(a), g.perPage) \in Nat
      BY <1>2, <3>2, CeilDivTyped
    <3> QED
      BY <3>2, <3>3 DEF g
  <2>3. area.w \in Int /\ area.h \in Int
    OBVIOUS
  <2> QED
    BY <1>2, <2>1, <2>2, <2>3
<1>4. Shorter(a.main) \in [x : Int, y : Int, w : Int, h : Int]
  BY <1>1 DEF Shorter
<1>5. Grid(a) \in {TileGrid(a.main, GridSlots(a), PaneCap(a)), TileGrid(Shorter(a.main), GridSlots(a), PaneCap(a))}
  BY DEF Grid, GridBeside, WholeGrid
<1> QED
  BY <1>1, <1>3, <1>4, <1>5

-----------------------------------------------------------------------------
(* The end of every message.                                               *)
LEMMA MainAreaOK ==
  ASSUME NEW term \in Nat \X Nat, NEW screen, NEW panel
  PROVE  AreaOK(MainArea(term, screen, panel))
<1> DEFINE w == term[1]
           h == term[2]
           asked == IF screen = "half" THEN IF panel = "sidebar" THEN Most(w \div 2, 20) ELSE 20
                    ELSE Clamp(w \div 4, 20, 34)
           sidebar == IF w < 44 THEN 0 ELSE Least(asked, w - 24)
           bar == IF h >= 7 THEN 3 ELSE IF h >= 5 THEN 1 ELSE 0
<1>1. w \in Nat /\ h \in Nat /\ w \div 2 \in Int /\ w \div 4 \in Int
  OBVIOUS
<1>2. MainArea(term, screen, panel) =
        IF w < 24 \/ h < 4 THEN [x |-> 0, y |-> 0, w |-> 0, h |-> 0]
        ELSE [x |-> sidebar, y |-> 0, w |-> w - sidebar, h |-> h - 1 - bar]
  BY DEF MainArea
<1> HIDE DEF w, h
<1>3. asked \in Int
  BY <1>1 DEF Most, Clamp
<1> HIDE DEF asked
<1>4. sidebar \in Int
  BY <1>1, <1>3 DEF Least
<1> HIDE DEF sidebar
<1>5. bar \in Int /\ (h >= 4 => h - 1 - bar > 0)
  BY <1>1
<1> HIDE DEF bar
<1>6. CASE w < 24 \/ h < 4
  BY <1>2, <1>6 DEF AreaOK
<1>7. CASE ~(w < 24 \/ h < 4)
  <2>1. h >= 4 /\ w - sidebar \in Int /\ h - 1 - bar \in Int
    BY <1>1, <1>4, <1>5, <1>7
  <2> QED
    BY <1>2, <1>4, <1>5, <1>7, <2>1 DEF AreaOK
<1> QED
  BY <1>6, <1>7

(* Nothing that is drawn depends on the limit.                             *)
LEMMA LimitUnread ==
  ASSUME NEW a, NEW b, \A f \in AppFields \ {"limit"} : b[f] = a[f]
  PROVE  WindowHosts(b) = WindowHosts(a)
<1>1. /\ b.snap = a.snap /\ b.open = a.open /\ b.active = a.active /\ b.split = a.split
      /\ b.chunk = a.chunk /\ b.kept = a.kept /\ b.main = a.main /\ b.page = a.page
      /\ b.screen = a.screen /\ b.focus = a.focus /\ b.filter = a.filter /\ b.match = a.match
  BY DEF AppFields
<1>2. SessionHosts(b) = SessionHosts(a)
  BY <1>1 DEF SessionHosts
<1>3. FilteredHosts(b) = FilteredHosts(a)
  BY <1>1, <1>2 DEF FilteredHosts
<1>4. SplitChunks(b) = SplitChunks(a)
  BY <1>1, <1>3 DEF SplitChunks
<1>5. HostIDs(b) = HostIDs(a)
  BY <1>1, <1>3, <1>4 DEF HostIDs
<1>6. GridSlots(b) = GridSlots(a) /\ PaneCap(b) = PaneCap(a)
  BY <1>1, <1>5 DEF GridSlots, PaneCap
<1>7. WholeGrid(b) = WholeGrid(a)
  BY <1>1, <1>6 DEF WholeGrid
<1>8. Footer(b, WholeGrid(b)) = Footer(a, WholeGrid(a))
  BY <1>1, <1>2, <1>3, <1>4, <1>7 DEF Footer
<1>9. Grid(b) = Grid(a)
  BY <1>1, <1>6, <1>7, <1>8 DEF Grid, GridBeside
<1> QED
  BY <1>1, <1>5, <1>9 DEF WindowHosts, OnPage, ClampedPage

LimitShown(a) ==
  a.main.w > 0 /\ HostIDs(a) # <<>> => a.limit = Real(WindowHosts(Unfiltered(a)))
LaidOut(a) == a.main = MainArea(a.term, a.screen, a.focus)
ScreenOK(a) == LimitShown(a) /\ LaidOut(a)

(* The limit is set to the page, with the filter taken off.                *)
LEMMA SyncLimitShows ==
  ASSUME NEW a, AppOK(a)
  PROVE  Keeps(a, SyncLimit(a)) /\ LimitShown(SyncLimit(a))
<1> DEFINE base == [a EXCEPT !.filter = "", !.match = {}]
           c == [a EXCEPT !.limit = LimitOf(base, Grid(base))]
           e == Unfiltered(c)
<1>1. SyncLimit(a) = c
  BY DEF SyncLimit
<1>2. DOMAIN a = AppFields /\ DOMAIN base = AppFields /\ DOMAIN c = AppFields
  BY DEF AppOK
<1>3. /\ \A f \in AppFields \ {"filter", "match"} : base[f] = a[f]
      /\ base.filter = "" /\ base.match = {} /\ base.page = a.page /\ base.pane = a.pane
  BY <1>2 DEF AppFields
<1>4. /\ \A f \in AppFields \ {"limit"} : c[f] = a[f]
      /\ c.page = a.page /\ c.pane = a.pane /\ a.page \in Int /\ a.pane \in Int
  BY <1>2 DEF AppFields, AppOK
<1>5. c.limit = LimitOf(base, Grid(base))
  BY <1>2 DEF AppFields
<1>6. \A f \in AppFields \ {"limit"} : e[f] = base[f]
  BY <1>2, <1>3, <1>4 DEF Unfiltered, AppFields
<1> HIDE DEF base, c, e
<1>7. Keeps(a, base)
  BY <1>2, <1>3, <1>4, FreeChange DEF Free
<1>8. Keeps(a, c)
  BY <1>2, <1>4, FreeChange DEF Free
<1>9. ASSUME c.main.w > 0, HostIDs(c) # <<>> PROVE c.limit = Real(WindowHosts(e))
  <2>1. AppOK(base) /\ AppOK(c)
    BY <1>7, <1>8 DEF Keeps
  <2>2. SessionHosts(c) # <<>>
    BY <1>9, <2>1, HostIDsTyped, FilteredHostsTyped
  <2>3. base.snap = c.snap /\ base.open = c.open /\ base.active = c.active /\ base.main = c.main
    BY <1>3, <1>4 DEF AppFields
  <2>4. SessionHosts(base) = SessionHosts(c)
    BY <2>3 DEF SessionHosts
  <2>5. FilteredHosts(base) # <<>>
    BY <1>3, <2>2, <2>4 DEF FilteredHosts
  <2>6. HostIDs(base) # <<>>
    BY <2>1, <2>5, HostIDsTyped
  <2>7. Grid(base).perPage \in Nat \ {0}
    BY <1>9, <2>1, <2>3, <2>6, GridFits DEF TilesFit
  <2>8. LimitOf(base, Grid(base)) = Real(WindowHosts(base))
    <3>1. Grid(base).perPage > 0
      BY <2>7
    <3> QED
      BY <3>1 DEF LimitOf, WindowHosts
  <2>9. WindowHosts(e) = WindowHosts(base)
    BY <1>6, LimitUnread
  <2> QED
    BY <1>5, <2>8, <2>9
<1> QED
  BY <1>1, <1>8, <1>9 DEF LimitShown, e

(* The end of every message.                                               *)
LEMMA UpdateKeeps ==
  ASSUME NEW a, AppOK(a)
  PROVE  Keeps(a, Update(a)) /\ ScreenOK(Update(a))
<1> DEFINE b == [a EXCEPT !.main = MainArea(a.term, a.screen, a.focus)]
           c == SyncLayout(a)
           d == SyncLimit(c)
<1>1. c = IF Unsized(a.term) THEN a ELSE b
  BY DEF SyncLayout, Unsized
<1>2. DOMAIN a = AppFields /\ a.term \in Nat \X Nat
  BY DEF AppOK
<1>3. DOMAIN b = AppFields /\ b.main = MainArea(a.term, a.screen, a.focus)
  BY <1>2 DEF AppFields
<1>4. /\ b.snap = a.snap /\ b.open = a.open /\ b.active = a.active /\ b.split = a.split
      /\ b.chunk = a.chunk /\ b.kept = a.kept /\ b.term = a.term
      /\ b.page = a.page /\ b.pane = a.pane /\ b.screen = a.screen /\ b.focus = a.focus
  BY <1>2 DEF AppFields
<1> HIDE DEF b
<1>5. AreaOK(b.main)
  BY <1>2, <1>3, MainAreaOK
<1>6. ~Unsized(a.term) => Keeps(a, b) /\ LaidOut(b)
  BY <1>3, <1>4, <1>5 DEF AppOK, Keeps, Owned, LaidOut
<1>7. Unsized(a.term) => LaidOut(a)
  BY <1>2 DEF AppOK, LaidOut, MainArea, NoArea, Unsized
<1>8. Keeps(a, c) /\ AppOK(c) /\ LaidOut(c)
  BY <1>1, <1>6, <1>7 DEF Keeps
<1> HIDE DEF c
<1>9. Keeps(c, d) /\ LimitShown(d)
  BY <1>8, SyncLimitShows
<1>10. d.main = c.main /\ d.term = c.term /\ d.screen = c.screen /\ d.focus = c.focus
  <2>1. DOMAIN c = AppFields
    BY <1>8 DEF AppOK
  <2> QED
    BY <2>1 DEF SyncLimit, AppFields
<1> HIDE DEF d
<1>11. LaidOut(d)
  BY <1>8, <1>10 DEF LaidOut
<1>12. Keeps(a, d)
  BY <1>8, <1>9, KeepsIsTransitive
<1> QED
  BY <1>9, <1>11, <1>12 DEF Update, ScreenOK, c, d

-----------------------------------------------------------------------------
(* Lists of hosts.                                                         *)
LEMMA NonHolesOK ==
  ASSUME NEW members \in Seq(NoLimit)
  PROVE  /\ NonHoles(members) \in Seq(NoLimit) /\ Real(NonHoles(members)) = Real(members)
         /\ \A twice : NoTwins(members, twice) => NoTwins(NonHoles(members), twice)
<1> DEFINE t == NonHoles(members)
<1>1. t \in Seq(NoLimit) /\ ToSet(t) = ToSet(members) \cap Real(members)
  BY OnlyIsPart DEF NonHoles
<1>2. \A twice : NoTwins(members, twice) => NoTwins(t, twice)
  BY OnlyKeepsApart DEF NonHoles
<1> HIDE DEF t
<1>3. Real(t) = Real(members)
  BY <1>1 DEF Real
<1> QED
  BY <1>1, <1>2, <1>3 DEF t

(* Hosts that are not in a list join it.                                   *)
LEMMA JoinOK ==
  ASSUME NEW members \in Seq(NoLimit), NEW twice, NoTwins(members, twice),
         NEW fresh \in Seq(PaneHost), NoTwins(fresh, twice), ToSet(fresh) \cap ToSet(members) = {}
  PROVE  /\ members \o fresh \in Seq(NoLimit) /\ NoTwins(members \o fresh, twice)
         /\ Real(members \o fresh) = Real(members) \cup ToSet(fresh)
<1> DEFINE t == members \o fresh
           n == Len(members)
<1>1. fresh \in Seq(NoLimit)
  BY HoleIsNoHost
<1>2. /\ t \in Seq(NoLimit) /\ Len(t) = n + Len(fresh) /\ n \in Nat /\ Len(fresh) \in Nat
      /\ DOMAIN t = 1 .. n + Len(fresh) /\ DOMAIN members = 1 .. n /\ DOMAIN fresh = 1 .. Len(fresh)
      /\ \A k \in 1 .. n + Len(fresh) : t[k] = IF k <= n THEN members[k] ELSE fresh[k - n]
  BY <1>1, ConcatProperties
<1> HIDE DEF t, n
<1>3. ToSet(t) = ToSet(members) \cup ToSet(fresh)
  <2>1. \A k \in DOMAIN members : k \in DOMAIN t /\ t[k] = members[k]
    BY <1>2
  <2>2. \A k \in DOMAIN fresh : n + k \in DOMAIN t /\ t[n + k] = fresh[k]
    BY <1>2
  <2>3. \A k \in DOMAIN t : (k \in DOMAIN members /\ t[k] = members[k]) \/ (k - n \in DOMAIN fresh /\ t[k] = fresh[k - n])
    BY <1>2
  <2> QED
    BY <2>1, <2>2, <2>3 DEF ToSet
<1>4. NoTwins(t, twice)
  <2> SUFFICES ASSUME NEW j \in DOMAIN t, NEW k \in DOMAIN t, t[j] = t[k], j < k
               PROVE  t[j] = Hole \/ t[j] \in twice
    <3>1. \A j, k \in DOMAIN t : j # k => j < k \/ k < j
      BY <1>2
    <3> QED
      BY <3>1 DEF NoTwins
  <2>1. CASE k <= n
    BY <1>2, <2>1 DEF NoTwins
  <2>2. CASE j <= n /\ n < k
    <3>1. t[j] = members[j] /\ j \in DOMAIN members /\ t[k] = fresh[k - n] /\ k - n \in DOMAIN fresh
      BY <1>2, <2>2
    <3>2. t[j] \in ToSet(members) /\ t[k] \in ToSet(fresh)
      BY <3>1 DEF ToSet
    <3> QED
      BY <3>2
  <2>3. CASE n < j
    <3>1. /\ j - n \in DOMAIN fresh /\ k - n \in DOMAIN fresh /\ fresh[j - n] = fresh[k - n] /\ j - n # k - n
          /\ t[j] = fresh[j - n]
      BY <1>2, <2>3
    <3> QED
      BY <3>1 DEF NoTwins
  <2> QED
    BY <1>2, <2>1, <2>2, <2>3
<1>5. Hole \notin ToSet(fresh)
  BY HoleIsNoHost DEF ToSet
<1> QED
  BY <1>2, <1>3, <1>4, <1>5 DEF Real, t

-----------------------------------------------------------------------------
(* The methods that change which hosts a session holds.                    *)
LEMMA SetHostsOK ==
  ASSUME NEW a, AppOK(a), NEW i \in DOMAIN a.open, NEW members \in Seq(NoLimit),
         NoTwins(members, Doubles(a.open[i].name)),
         Real(a.open[i].hosts) \subseteq Real(members)
  PROVE  /\ AppOK(SetHosts(a, i, members)) /\ DOMAIN SetHosts(a, i, members) = AppFields
         /\ \A f \in AppFields \ {"open"} : SetHosts(a, i, members)[f] = a[f]
         /\ Len(SetHosts(a, i, members).open) = Len(a.open)
         /\ SetHosts(a, i, members).open[i].hosts = members
         /\ SetHosts(a, i, members).open[i].name = a.open[i].name
         /\ Owned(SetHosts(a, i, members)) = Owned(a) \cup Real(members)
<1> DEFINE new == [k \in DOMAIN a.open |-> IF k = i THEN [a.open[k] EXCEPT !.hosts = members] ELSE a.open[k]]
           b == [a EXCEPT !.open = new]
<1>1. /\ DOMAIN a = AppFields /\ a.open \in Seq(OpenSession) /\ NamesApart(a.open)
      /\ \A k \in DOMAIN a.open :
           NoTwins(a.open[k].hosts, Doubles(a.open[k].name)) /\ Real(a.open[k].hosts) # {}
  BY DEF AppOK, SessionsOK
<1>2. DOMAIN a.open = 1 .. Len(a.open) /\ Len(a.open) \in Nat /\ \A k \in DOMAIN a.open : a.open[k] \in OpenSession
  BY <1>1
<1>3. /\ [a.open[i] EXCEPT !.hosts = members] \in OpenSession
      /\ [a.open[i] EXCEPT !.hosts = members].hosts = members
      /\ [a.open[i] EXCEPT !.hosts = members].name = a.open[i].name
  BY <1>2 DEF OpenSession
<1>4. \A k \in DOMAIN new :
        /\ new[k] \in OpenSession /\ new[k].hosts = IF k = i THEN members ELSE a.open[k].hosts
        /\ new[k].name = a.open[k].name
  BY <1>2, <1>3
<1>5. new \in Seq(OpenSession) /\ DOMAIN new = DOMAIN a.open /\ Len(new) = Len(a.open)
  <2>1. DOMAIN new = 1 .. Len(a.open)
    BY <1>2
  <2>2. new \in [1 .. Len(a.open) -> OpenSession]
    BY <1>4, <2>1
  <2> HIDE DEF new
  <2> QED
    BY <1>2, <2>1, <2>2
<1>6. SetHosts(a, i, members) = b
  BY DEF SetHosts
<1> HIDE DEF new
<1>7. DOMAIN b = AppFields /\ b.open = new /\ \A f \in AppFields \ {"open"} : b[f] = a[f]
  BY <1>1 DEF AppFields
<1> HIDE DEF b
<1>8. SessionsOK(b.open)
  BY <1>1, <1>4, <1>5, <1>7 DEF SessionsOK, NamesApart
<1>9. /\ b.snap = a.snap /\ b.active = a.active /\ b.split = a.split /\ b.chunk = a.chunk
      /\ b.kept = a.kept /\ b.page = a.page /\ b.pane = a.pane /\ b.term = a.term /\ b.main = a.main
  BY <1>7 DEF AppFields
<1>10. AppOK(b)
  BY <1>5, <1>7, <1>8, <1>9 DEF AppOK
<1>11. Owned(b) = Owned(a) \cup Real(members)
  <2>1. \A k \in DOMAIN a.open : Real(b.open[k].hosts) = IF k = i THEN Real(members) ELSE Real(a.open[k].hosts)
    BY <1>4, <1>5, <1>7
  <2>2. DOMAIN b.open = DOMAIN a.open
    BY <1>5, <1>7
  <2> QED
    BY <2>1, <2>2 DEF Owned
<1> QED
  BY <1>4, <1>5, <1>6, <1>7, <1>10, <1>11

(* Closing up the holes loses no host.                                     *)
LEMMA CompactedOK ==
  ASSUME NEW a, AppOK(a), NEW i \in DOMAIN a.open
  PROVE  /\ Keeps(a, Compacted(a, i)) /\ DOMAIN Compacted(a, i) = AppFields
         /\ Len(Compacted(a, i).open) = Len(a.open)
<1>1. a.open[i] \in OpenSession /\ NoTwins(a.open[i].hosts, Doubles(a.open[i].name))
  BY DEF AppOK, SessionsOK
<1>2. a.open[i].hosts \in Seq(NoLimit)
  BY <1>1 DEF OpenSession
<1> DEFINE t == NonHoles(a.open[i].hosts)
<1>3. t \in Seq(NoLimit) /\ NoTwins(t, Doubles(a.open[i].name)) /\ Real(t) = Real(a.open[i].hosts)
  BY <1>1, <1>2, NonHolesOK
<1> HIDE DEF t
<1>4. /\ AppOK(SetHosts(a, i, t)) /\ DOMAIN SetHosts(a, i, t) = AppFields
      /\ \A f \in AppFields \ {"open"} : SetHosts(a, i, t)[f] = a[f]
      /\ Len(SetHosts(a, i, t).open) = Len(a.open)
      /\ Owned(SetHosts(a, i, t)) = Owned(a) \cup Real(t)
  BY <1>3, SetHostsOK
<1>5. SetHosts(a, i, t).snap = a.snap
  BY <1>4 DEF AppFields
<1>6. Real(t) \subseteq Owned(a)
  BY <1>3 DEF Owned
<1> QED
  BY <1>4, <1>5, <1>6 DEF Compacted, Keeps, t

(* KeepActive after the list of sessions has become another.               *)
LEMMA KeepActiveOK ==
  ASSUME NEW a, AppOK(a), NEW open, SessionsOK(open), NEW name
  PROVE  /\ AppOK(KeepActive([a EXCEPT !.open = open], name))
         /\ KeepActive([a EXCEPT !.open = open], name).open = open
         /\ \A f \in AppFields \ {"open", "active"} : KeepActive([a EXCEPT !.open = open], name)[f] = a[f]
<1> DEFINE b == [a EXCEPT !.open = open]
           same == {i \in DOMAIN b.open : b.open[i].name = name}
           n == IF same # {} THEN CHOOSE i \in same : TRUE ELSE Len(b.open)
           c == [b EXCEPT !.active = n]
<1>1. DOMAIN a = AppFields /\ open \in Seq(OpenSession)
  BY DEF AppOK, SessionsOK
<1>2. DOMAIN b = AppFields /\ b.open = open /\ \A f \in AppFields \ {"open"} : b[f] = a[f]
  BY <1>1 DEF AppFields
<1> HIDE DEF b
<1>3. DOMAIN b.open = 1 .. Len(open) /\ Len(open) \in Nat
  BY <1>1, <1>2
<1>4. n \in 0 .. Len(open)
  <2>1. same \subseteq 1 .. Len(open)
    BY <1>3
  <2>2. CASE same # {}
    <3>1. n \in same
      BY <2>2
    <3> HIDE DEF same, n
    <3> QED
      BY <1>3, <2>1, <3>1
  <2>3. CASE same = {}
    BY <1>2, <1>3, <2>3
  <2> QED
    BY <2>2, <2>3
<1>5. KeepActive(b, name) = c
  BY DEF KeepActive
<1> HIDE DEF n
<1>6. DOMAIN c = AppFields /\ c.active = n /\ \A f \in AppFields \ {"active"} : c[f] = b[f]
  BY <1>2 DEF AppFields
<1> HIDE DEF c
<1>7. c.open = open /\ \A f \in AppFields \ {"open", "active"} : c[f] = a[f]
  BY <1>2, <1>6 DEF AppFields
<1>8. /\ c.snap = a.snap /\ c.split = a.split /\ c.chunk = a.chunk
      /\ c.page = a.page /\ c.pane = a.pane /\ c.kept = a.kept /\ c.term = a.term /\ c.main = a.main
  BY <1>7 DEF AppFields
<1>9. AppOK(c)
  BY <1>4, <1>6, <1>7, <1>8 DEF AppOK
<1> QED
  BY <1>5, <1>7, <1>9 DEF b

(* Which of the sessions stay.                                             *)
LEMMA OnlySessions ==
  ASSUME NEW open \in Seq(OpenSession), NamesApart(open), NEW ids,
         \A i \in DOMAIN open : open[i] \in ids =>
           NoTwins(open[i].hosts, Doubles(open[i].name)) /\ Real(open[i].hosts) # {}
  PROVE  /\ SessionsOK(Only(open, ids))
         /\ UNION {Real(Only(open, ids)[i].hosts) : i \in DOMAIN Only(open, ids)} =
              UNION {Real(open[i].hosts) : i \in {k \in DOMAIN open : open[k] \in ids}}
<1> DEFINE t == Only(open, ids)
<1>1. /\ t \in Seq(OpenSession) /\ ToSet(t) = ToSet(open) \cap ids
      /\ \A m, n \in DOMAIN t : m < n => \E j, k \in DOMAIN open : j < k /\ t[m] = open[j] /\ t[n] = open[k]
  BY OnlyIsPart
<1> HIDE DEF t
<1>2. \A i \in DOMAIN t : \E k \in DOMAIN open : open[k] \in ids /\ t[i] = open[k]
  <2> TAKE i \in DOMAIN t
  <2>1. t[i] \in ToSet(t)
    BY DEF ToSet
  <2>2. t[i] \in ToSet(open) /\ t[i] \in ids
    BY <1>1, <2>1
  <2> QED
    BY <2>2 DEF ToSet
<1>3. \A k \in DOMAIN open : open[k] \in ids => \E i \in DOMAIN t : t[i] = open[k]
  <2> SUFFICES ASSUME NEW k \in DOMAIN open, open[k] \in ids PROVE \E i \in DOMAIN t : t[i] = open[k]
    OBVIOUS
  <2>1. open[k] \in ToSet(t)
    BY <1>1 DEF ToSet
  <2> QED
    BY <2>1 DEF ToSet
<1>4. NamesApart(t)
  <2> SUFFICES ASSUME NEW m \in DOMAIN t, NEW n \in DOMAIN t, t[m].name = t[n].name, m < n PROVE FALSE
    <3>1. \A m, n \in DOMAIN t : m # n => m < n \/ n < m
      BY <1>1
    <3> QED
      BY <3>1 DEF NamesApart
  <2>1. PICK j \in DOMAIN open, k \in DOMAIN open : j < k /\ t[m] = open[j] /\ t[n] = open[k]
    BY <1>1
  <2>2. j \in Int /\ k \in Int
    OBVIOUS
  <2> QED
    BY <2>1, <2>2 DEF NamesApart
<1>5. SessionsOK(t)
  BY <1>1, <1>2, <1>4 DEF SessionsOK
<1>6. UNION {Real(t[i].hosts) : i \in DOMAIN t} =
        UNION {Real(open[i].hosts) : i \in {k \in DOMAIN open : open[k] \in ids}}
  BY <1>2, <1>3
<1> QED
  BY <1>5, <1>6 DEF t

(* A host that is not in the list leaves a hole.                           *)
LEMMA HoledOK ==
  ASSUME NEW members \in Seq(NoLimit), NEW ids
  PROVE  /\ Holed(members, ids) \in Seq(NoLimit)
         /\ \A twice : NoTwins(members, twice) => NoTwins(Holed(members, ids), twice)
         /\ Real(Holed(members, ids)) = Real(members) \cap ids
<1> DEFINE t == Holed(members, ids)
<1>1. /\ DOMAIN t = DOMAIN members
      /\ \A k \in DOMAIN members : t[k] = IF members[k] \in ids THEN members[k] ELSE Hole
  BY DEF Holed
<1>2. t = [k \in DOMAIN members |-> IF members[k] \in ids THEN members[k] ELSE Hole]
  BY DEF Holed
<1>3. DOMAIN members = 1 .. Len(members) /\ Len(members) \in Nat /\ \A k \in DOMAIN members : members[k] \in NoLimit
  OBVIOUS
<1>4. Hole \in NoLimit
  BY DEF NoLimit
<1>5. t \in [1 .. Len(members) -> NoLimit]
  BY <1>2, <1>3, <1>4
<1> HIDE DEF t
<1>6. t \in Seq(NoLimit)
  BY <1>3, <1>5
<1>7. \A twice : NoTwins(members, twice) => NoTwins(t, twice)
  BY <1>1 DEF NoTwins
<1>8. Real(t) = Real(members) \cap ids
  BY <1>1 DEF Real, ToSet
<1> QED
  BY <1>6, <1>7, <1>8 DEF t

(* After the pruning the sessions hold hosts of the snapshot only.         *)
LEMMA PruneOK ==
  ASSUME NEW a, AppOK(a)
  PROVE  /\ AppOK(PruneSessions(a)) /\ PruneSessions(a).snap = a.snap
         /\ Owned(PruneSessions(a)) = Owned(a) \cap ToSet(a.snap)
<1> DEFINE ids == ToSet(a.snap)
           session(i) == [a.open[i] EXCEPT !.hosts = Holed(a.open[i].hosts, ids)]
           holed == [i \in DOMAIN a.open |-> session(i)]
           stay == {s \in ToSet(holed) : Real(s.hosts) # {}}
           open == Only(holed, stay)
<1>1. /\ a.open \in Seq(OpenSession) /\ DOMAIN a.open = 1 .. Len(a.open) /\ Len(a.open) \in Nat
      /\ \A i \in DOMAIN a.open : a.open[i] \in OpenSession /\ NoTwins(a.open[i].hosts, Doubles(a.open[i].name))
      /\ NamesApart(a.open)
  BY DEF AppOK, SessionsOK
<1>2. ASSUME NEW i \in DOMAIN a.open
      PROVE  /\ session(i) \in OpenSession /\ NoTwins(session(i).hosts, Doubles(a.open[i].name))
             /\ session(i).name = a.open[i].name
             /\ Real(session(i).hosts) = Real(a.open[i].hosts) \cap ids
  <2>1. a.open[i].hosts \in Seq(NoLimit) /\ NoTwins(a.open[i].hosts, Doubles(a.open[i].name))
    BY <1>1 DEF OpenSession
  <2> DEFINE t == Holed(a.open[i].hosts, ids)
  <2>2. t \in Seq(NoLimit) /\ NoTwins(t, Doubles(a.open[i].name)) /\ Real(t) = Real(a.open[i].hosts) \cap ids
    BY <2>1, HoledOK
  <2> HIDE DEF t
  <2>3. /\ [a.open[i] EXCEPT !.hosts = t] \in OpenSession /\ [a.open[i] EXCEPT !.hosts = t].hosts = t
        /\ [a.open[i] EXCEPT !.hosts = t].name = a.open[i].name
    BY <1>1, <2>2 DEF OpenSession
  <2> QED
    BY <2>2, <2>3 DEF t
<1> HIDE DEF session
<1>3. DOMAIN holed = 1 .. Len(a.open) /\ \A i \in DOMAIN a.open : holed[i] = session(i)
  BY <1>1
<1>4. holed \in Seq(OpenSession) /\ NamesApart(holed)
  <2>1. holed \in [1 .. Len(a.open) -> OpenSession]
    BY <1>1, <1>2
  <2> HIDE DEF holed
  <2>2. NamesApart(holed)
    BY <1>1, <1>2, <1>3 DEF NamesApart
  <2> QED
    BY <1>1, <2>1, <2>2
<1>5. PruneSessions(a) = KeepActive([a EXCEPT !.open = open], ActiveSession(a))
  BY DEF PruneSessions, session
<1> HIDE DEF holed
<1>6. \A i \in DOMAIN holed : holed[i] \in stay =>
        NoTwins(holed[i].hosts, Doubles(holed[i].name)) /\ Real(holed[i].hosts) # {}
  BY <1>1, <1>2, <1>3
<1>7. \A i \in DOMAIN holed : Real(holed[i].hosts) # {} => holed[i] \in stay
  BY DEF ToSet
<1> HIDE DEF stay
<1>8. /\ SessionsOK(open)
      /\ UNION {Real(open[i].hosts) : i \in DOMAIN open} =
           UNION {Real(holed[i].hosts) : i \in {k \in DOMAIN holed : holed[k] \in stay}}
  BY <1>4, <1>6, OnlySessions
<1> HIDE DEF open
<1>9. /\ AppOK(PruneSessions(a)) /\ PruneSessions(a).open = open
      /\ \A f \in AppFields \ {"open", "active"} : PruneSessions(a)[f] = a[f]
  BY <1>5, <1>8, KeepActiveOK
<1>10. PruneSessions(a).snap = a.snap
  BY <1>9 DEF AppFields
<1>11. UNION {Real(holed[i].hosts) : i \in {k \in DOMAIN holed : holed[k] \in stay}} = Owned(a) \cap ids
  <2>1. \A i \in DOMAIN a.open : Real(holed[i].hosts) = Real(a.open[i].hosts) \cap ids
    BY <1>2, <1>3
  <2>2. DOMAIN holed = DOMAIN a.open
    BY <1>1, <1>3
  <2> QED
    BY <1>7, <2>1, <2>2 DEF Owned
<1> QED
  BY <1>8, <1>9, <1>10, <1>11 DEF Owned

-----------------------------------------------------------------------------
(* The methods that change the view only.                                  *)
LEMMA ViewChange ==
  ASSUME NEW a, AppOK(a), NEW b, DOMAIN b = AppFields,
         \A f \in AppFields \ (Free \cup {"kept", "chunk", "split"}) : b[f] = a[f],
         b.kept \in Nat, b.chunk \in Int, b.split \in Nat, b.page \in Int, b.pane \in Int
  PROVE  Keeps(a, b)
<1>1. /\ b["snap"] = a["snap"] /\ b["open"] = a["open"] /\ b["active"] = a["active"]
      /\ b["term"] = a["term"] /\ b["main"] = a["main"]
  BY DEF AppFields, Free
<1>2. AppOK(b)
  BY <1>1 DEF AppOK
<1> QED
  BY <1>1, <1>2 DEF Keeps, Owned

(* Doing nothing keeps everything.                                         *)
LEMMA KeepsItself == ASSUME NEW a, AppOK(a) PROVE Keeps(a, a)
BY DEF Keeps

(* The slots of the grid are a matter of the view.                         *)
LEMMA SlotsKeep ==
  ASSUME NEW a, AppOK(a)
  PROVE  Keeps(a, ResetGridSlots(a)) /\ Keeps(a, KeepGridSlots(a))
<1>1. DOMAIN a = AppFields /\ a.chunk \in Int /\ a.split \in Nat /\ a.page \in Int /\ a.pane \in Int
  BY DEF AppOK
<1>2. ASSUME NEW n \in Nat PROVE Keeps(a, [a EXCEPT !.kept = n])
  <2> DEFINE b == [a EXCEPT !.kept = n]
  <2>1. /\ DOMAIN b = AppFields /\ \A f \in AppFields \ {"kept"} : b[f] = a[f]
        /\ b.kept = n /\ b.chunk = a.chunk /\ b.split = a.split /\ b.page = a.page /\ b.pane = a.pane
    BY <1>1 DEF AppFields
  <2> HIDE DEF b
  <2>2. Keeps(a, b)
    BY <1>1, <2>1, ViewChange
  <2> QED
    BY <2>2 DEF b
<1>3. Len(HostIDs(a)) \in Nat
  BY HostIDsTyped
<1>4. GridSlots(a) \in Nat
  BY GridSlotsTyped
<1> QED
  BY <1>2, <1>3, <1>4 DEF ResetGridSlots, KeepGridSlots

(* The first of several places, and the last.                              *)
LEMMA EndsAreThere ==
  ASSUME NEW n \in Int, NEW T, T \subseteq 0 .. n, T # {}
  PROVE  /\ (CHOOSE i \in T : \A j \in T : i <= j) \in T
         /\ (CHOOSE i \in T : \A j \in T : j <= i) \in T
<1>1. \E i \in T : \A j \in T : i <= j
  <2>1. T \subseteq Nat
    OBVIOUS
  <2> QED
    BY <2>1, LeastNat
<1>2. \E i \in T : \A j \in T : j <= i
  <2> DEFINE R == {n - i : i \in T}
  <2>1. R \subseteq Nat /\ R # {}
    <3>1. \A i \in T : n - i \in Nat
      OBVIOUS
    <3> QED
      BY <3>1
  <2> HIDE DEF R
  <2>2. PICK x \in R : \A y \in R : x <= y
    BY <2>1, LeastNat
  <2>3. PICK i \in T : x = n - i
    BY <2>2 DEF R
  <2>4. \A j \in T : n - j \in R
    BY DEF R
  <2>5. \A j \in T : j <= i
    <3> TAKE j \in T
    <3>1. n - i <= n - j /\ i \in Int /\ j \in Int
      BY <2>2, <2>3, <2>4
    <3> QED
      BY <3>1
  <2> QED
    BY <2>5
<1> QED
  BY <1>1, <1>2

(* refocus finds the host if it is there, and a host if there is one.      *)
LEMMA PaneForFinds ==
  ASSUME NEW ids, Len(ids) \in Nat, NEW pane \in Int, NEW host
  PROVE  /\ PaneFor(ids, pane, host) \in Int
         /\ (\E i \in 0 .. Len(ids) - 1 : host # Hole /\ ids[i + 1] = host) =>
              /\ PaneFor(ids, pane, host) \in 0 .. Len(ids) - 1
              /\ ids[PaneFor(ids, pane, host) + 1] = host
         /\ (\E i \in 0 .. Len(ids) - 1 : ids[i + 1] # Hole) =>
              /\ PaneFor(ids, pane, host) \in 0 .. Len(ids) - 1
              /\ ids[PaneFor(ids, pane, host) + 1] # Hole
<1> DEFINE n == Len(ids) - 1
           same == {i \in 0 .. n : host # Hole /\ ids[i + 1] = host}
           at == Clamp(pane, 0, Most(0, n))
           near == {i \in 0 .. n : ids[i + 1] # Hole}
           dist(i) == IF i > at THEN 2 * (i - at) - 1 ELSE 2 * (at - i)
           r == PaneFor(ids, pane, host)
<1>1. r = IF same # {} THEN CHOOSE i \in same : \A j \in same : i <= j
          ELSE IF near # {} THEN CHOOSE i \in near : \A j \in near : dist(i) <= dist(j)
          ELSE at
  BY DEF PaneFor
<1>2. n \in Int /\ at \in Int
  BY DEF Clamp, Most
<1> HIDE DEF at, r
<1>3. CASE same # {}
  <2>1. r \in same
    <3>1. same \subseteq 0 .. n
      OBVIOUS
    <3> HIDE DEF same, n
    <3> QED
      BY <1>1, <1>2, <1>3, <3>1, EndsAreThere
  <2>2. r \in 0 .. n /\ ids[r + 1] = host /\ host # Hole
    BY <2>1
  <2> QED
    BY <1>2, <2>2 DEF r
<1>4. CASE same = {} /\ near # {}
  <2>1. \A i \in near : dist(i) \in Nat
    BY <1>2
  <2> DEFINE T == {dist(i) : i \in near}
  <2>2. T \subseteq Nat /\ T # {}
    BY <1>4, <2>1
  <2> HIDE DEF T
  <2>3. PICK x \in T : \A y \in T : x <= y
    BY <2>2, LeastNat
  <2>4. PICK i \in near : x = dist(i)
    BY <2>3 DEF T
  <2>5. \A j \in near : dist(i) <= dist(j)
    <3> TAKE j \in near
    <3>1. dist(j) \in T
      BY DEF T
    <3> HIDE DEF dist
    <3> QED
      BY <2>3, <2>4, <3>1
  <2> HIDE DEF dist
  <2>6. r \in near
    <3> HIDE DEF near, same
    <3> QED
      BY <1>1, <1>4, <2>5
  <2>7. r \in 0 .. n /\ ids[r + 1] # Hole
    BY <2>6
  <2>8. ~ \E k \in 0 .. n : host # Hole /\ ids[k + 1] = host
    BY <1>4
  <2> QED
    BY <1>2, <2>7, <2>8 DEF r
<1>5. CASE same = {} /\ near = {}
  <2>1. r = at
    BY <1>1, <1>5
  <2>2. /\ ~ \E k \in 0 .. n : host # Hole /\ ids[k + 1] = host
        /\ ~ \E k \in 0 .. n : ids[k + 1] # Hole
    BY <1>5
  <2> QED
    BY <1>2, <2>1, <2>2 DEF r
<1> QED
  BY <1>3, <1>4, <1>5

(* Where the focus is and which page shows is nothing the sessions and the *)
(* limit depend on.                                                        *)
LEMMA FocusKeeps ==
  ASSUME NEW a, AppOK(a)
  PROVE  /\ Keeps(a, FollowFocus(a))
         /\ \A host : Keeps(a, Refocus(a, host))
         /\ \A p \in Int : Keeps(a, ToPage(a, p))
         /\ Keeps(a, SyncFilterMatches(a))
         /\ \A ids \in Seq(PaneHost) : Keeps(a, WithHosts(a, ids))
<1>1. DOMAIN a = AppFields /\ a.page \in Int /\ a.pane \in Int
  BY DEF AppOK
<1> DEFINE perPage == Grid(a).perPage
           n == Len(HostIDs(a))
<1>7. perPage \in Nat /\ n \in Nat
  BY GridTyped, HostIDsTyped
<1> HIDE DEF perPage, n
<1>2. Keeps(a, FollowFocus(a))
  <2> DEFINE b == FollowFocus(a)
  <2>1. /\ DOMAIN b = DOMAIN a /\ \A f \in AppFields \ Free : b[f] = a[f]
        /\ b.page = PageOf(a.page, a.pane, perPage) /\ b.pane = a.pane
    BY <1>1 DEF FollowFocus, AppFields, Free, perPage
  <2> HIDE DEF b
  <2>3. PageOf(a.page, a.pane, perPage) \in Int
    BY <1>1, <1>7 DEF PageOf
  <2>2. Keeps(a, b)
    BY <1>1, <2>1, <2>3, FreeChange
  <2> QED
    BY <2>2 DEF b
<1>3. ASSUME NEW host PROVE Keeps(a, Refocus(a, host))
  <2> DEFINE b == Refocus(a, host)
  <2>1. /\ DOMAIN b = DOMAIN a /\ \A f \in AppFields \ Free : b[f] = a[f]
        /\ b.page = a.page /\ b.pane = PaneFor(HostIDs(a), a.pane, host)
    BY <1>1 DEF Refocus, AppFields, Free
  <2> HIDE DEF b
  <2>3. PaneFor(HostIDs(a), a.pane, host) \in Int
    BY <1>1, <1>7, PaneForFinds DEF n
  <2>2. Keeps(a, b)
    BY <1>1, <2>1, <2>3, FreeChange
  <2> QED
    BY <2>2 DEF b
<1>4. ASSUME NEW p \in Int PROVE Keeps(a, ToPage(a, p))
  <2> DEFINE b == ToPage(a, p)
  <2>1. /\ DOMAIN b = DOMAIN a /\ \A f \in AppFields \ Free : b[f] = a[f]
        /\ b.page = p /\ b.pane = Clamp(p * perPage, 0, n - 1)
    BY <1>1 DEF ToPage, AppFields, Free, perPage, n
  <2> HIDE DEF b
  <2>3. Clamp(p * perPage, 0, n - 1) \in Int
    <3>1. p * perPage \in Int
      BY <1>7
    <3> QED
      BY <1>7, <3>1 DEF Clamp
  <2>2. Keeps(a, b)
    BY <2>1, <2>3, FreeChange
  <2> QED
    BY <2>2 DEF b
<1>5. Keeps(a, SyncFilterMatches(a))
  <2> DEFINE b == SyncFilterMatches(a)
  <2>1. /\ DOMAIN b = DOMAIN a /\ \A f \in AppFields \ Free : b[f] = a[f]
        /\ b.page = a.page /\ b.pane = a.pane
    BY <1>1 DEF SyncFilterMatches, AppFields, Free
  <2> HIDE DEF b
  <2>2. Keeps(a, b)
    BY <1>1, <2>1, FreeChange
  <2> QED
    BY <2>2 DEF b
<1>6. ASSUME NEW ids \in Seq(PaneHost) PROVE Keeps(a, WithHosts(a, ids))
  <2> DEFINE b == WithHosts(a, ids)
             same == {i \in 0 .. Len(ids) - 1 : FocusedHost(a) # Hole /\ ids[i + 1] = FocusedHost(a)}
             found == CHOOSE i \in same : \A j \in same : i <= j
             clamped == Clamp(a.pane, 0, Len(ids) - 1)
  <2>1. /\ DOMAIN b = DOMAIN a /\ \A f \in AppFields \ Free : b[f] = a[f]
        /\ b.page = a.page /\ b.pane = IF same # {} THEN found ELSE clamped
    BY <1>1 DEF WithHosts, AppFields, Free
  <2> HIDE DEF b
  <2>3. Len(ids) - 1 \in Int /\ same \subseteq 0 .. Len(ids) - 1
    OBVIOUS
  <2>4. clamped \in Int
    BY <1>1, <2>3 DEF Clamp
  <2> HIDE DEF same, clamped
  <2>5. same # {} => found \in same
    BY <2>3, EndsAreThere
  <2> HIDE DEF found
  <2>6. b.pane \in Int
    <3>1. CASE same = {}
      BY <2>1, <2>4, <3>1
    <3>2. CASE same # {}
      <4>1. found \in 0 .. Len(ids) - 1
        BY <2>3, <2>5, <3>2
      <4> QED
        BY <2>1, <2>3, <3>2, <4>1
    <3> QED
      BY <3>1, <3>2
  <2>2. Keeps(a, b)
    BY <1>1, <2>1, <2>6, FreeChange
  <2> QED
    BY <2>2 DEF b
<1> QED
  BY <1>2, <1>3, <1>4, <1>5, <1>6

(* compactHoles.                                                           *)
LEMMA CompactHolesKeeps ==
  ASSUME NEW a, AppOK(a)
  PROVE  Keeps(a, CompactHoles(a))
<1>1. CASE a.active = 0
  BY <1>1, KeepsItself DEF CompactHoles
<1>2. CASE a.active # 0
  <2>1. a.active \in DOMAIN a.open
    BY <1>2 DEF AppOK, SessionsOK
  <2> DEFINE b == Compacted(a, a.active)
             host == FocusedHost(a)
  <2>2. Keeps(a, b)
    BY <2>1, CompactedOK
  <2> HIDE DEF b, host
  <2>3. AppOK(b)
    BY <2>2 DEF Keeps
  <2>4. Keeps(b, Refocus(b, host))
    BY <2>3, FocusKeeps
  <2>5. Keeps(a, Refocus(b, host))
    BY <2>2, <2>4, KeepsIsTransitive
  <2> QED
    BY <1>2, <2>5 DEF CompactHoles, b, host
<1> QED
  BY <1>1, <1>2

(* refreshFilter.                                                          *)
LEMMA RefreshFilterKeeps ==
  ASSUME NEW a, AppOK(a)
  PROVE  Keeps(a, RefreshFilter(a))
<1> DEFINE b == SyncFilterMatches(a)
           host == FocusedHost(a)
           c == Refocus(b, host)
<1>1. Keeps(a, b) /\ AppOK(b)
  BY FocusKeeps DEF Keeps
<1> HIDE DEF b, host
<1>2. Keeps(b, c) /\ AppOK(c)
  BY <1>1, FocusKeeps DEF Keeps
<1>3. Keeps(a, c)
  BY <1>1, <1>2, KeepsIsTransitive
<1>4. RefreshFilter(a) \in {a, FollowFocus(c)}
  BY DEF RefreshFilter, b, host
<1> HIDE DEF c
<1>5. Keeps(c, FollowFocus(c))
  BY <1>2, FocusKeeps
<1>6. Keeps(a, FollowFocus(c))
  BY <1>3, <1>5, KeepsIsTransitive
<1> QED
  BY <1>4, <1>6, KeepsItself

(* stepView, through pages and chunks.                                     *)
LEMMA StepViewKeeps ==
  ASSUME NEW a, AppOK(a), NEW delta \in {-1, 1}
  PROVE  Keeps(a, StepView(a, delta))
<1> DEFINE chunks == SplitChunks(a)
           next == (Clamp(a.chunk, 0, chunks - 1) + delta + chunks) % chunks
           b == [a EXCEPT !.chunk = next, !.page = 0, !.pane = 0]
           c == ResetGridSlots(b)
           last == Most(0, Grid(c).pages - 1)
<1>1. ASSUME chunks > 1 PROVE Keeps(a, StepChunk(a, delta))
  <2>1. DOMAIN a = AppFields /\ a.chunk \in Int /\ a.split \in Nat /\ a.kept \in Nat
    BY DEF AppOK
  <2>2. chunks \in Nat
    BY SplitChunksTyped
  <2> HIDE DEF chunks
  <2>3. Clamp(a.chunk, 0, chunks - 1) \in Int
    BY <2>1, <2>2 DEF Clamp
  <2>4. next \in Int
    BY <1>1, <2>2, <2>3
  <2> HIDE DEF next
  <2>5. /\ DOMAIN b = AppFields /\ b.chunk = next /\ b.kept = a.kept /\ b.split = a.split
        /\ b.page = 0 /\ b.pane = 0
        /\ \A f \in AppFields \ {"chunk", "page", "pane"} : b[f] = a[f]
    BY <2>1 DEF AppFields
  <2> HIDE DEF b
  <2>6. \A f \in AppFields \ (Free \cup {"kept", "chunk", "split"}) : b[f] = a[f]
    BY <2>5 DEF Free
  <2>7. Keeps(a, b) /\ AppOK(b)
    <3>1. Keeps(a, b)
      BY <2>1, <2>4, <2>5, <2>6, ViewChange
    <3> QED
      BY <3>1 DEF Keeps
  <2>8. Keeps(b, c) /\ AppOK(c)
    BY <2>7, SlotsKeep DEF Keeps
  <2>9. Keeps(a, c)
    BY <2>7, <2>8, KeepsIsTransitive
  <2> HIDE DEF c
  <2>13. last \in Int
    BY <2>8, GridTyped DEF Most
  <2> HIDE DEF last
  <2>10. Keeps(c, ToPage(c, last))
    BY <2>8, <2>13, FocusKeeps
  <2>11. Keeps(a, ToPage(c, last))
    BY <2>9, <2>10, KeepsIsTransitive
  <2>12. StepChunk(a, delta) \in {c, ToPage(c, last)}
    BY DEF StepChunk, LastPage, last, c, b, next, chunks
  <2> QED
    BY <2>9, <2>11, <2>12
<1> HIDE DEF chunks
<1> DEFINE g == Grid(a)
           p == ClampedPage(a, g)
           wrapped == IF delta > 0 THEN 0 ELSE g.pages - 1
<1>2. StepView(a, delta) = StepOn(a, g, p, delta)
  BY DEF StepView
<1>5. g.pages \in Nat /\ a.page \in Int
  BY GridTyped DEF AppOK
<1> HIDE DEF g
<1>6. p \in Int /\ wrapped \in Int
  BY <1>5 DEF ClampedPage, Clamp
<1> HIDE DEF p, wrapped
<1>3. \/ StepOn(a, g, p, delta) \in {a, ToPage(a, p + delta), ToPage(a, wrapped)}
      \/ chunks > 1 /\ StepOn(a, g, p, delta) = StepChunk(a, delta)
  BY DEF StepOn, chunks, wrapped
<1>4. Keeps(a, ToPage(a, p + delta)) /\ Keeps(a, ToPage(a, wrapped)) /\ Keeps(a, a)
  <2>1. p + delta \in Int
    BY <1>6
  <2> QED
    BY <1>6, <2>1, FocusKeeps, KeepsItself
<1> QED
  BY <1>1, <1>2, <1>3, <1>4

(* applySplit.                                                             *)
LEMMA SplitKeeps ==
  ASSUME NEW a, AppOK(a), NEW size \in Nat
  PROVE  Keeps(a, ApplySplit(a, size))
<1> DEFINE b == [a EXCEPT !.split = size, !.chunk = 0, !.page = 0, !.pane = 0]
           c == CompactHoles(b)
<1>1. DOMAIN a = AppFields /\ a.kept \in Nat
  BY DEF AppOK
<1>2. /\ DOMAIN b = AppFields /\ b.kept = a.kept /\ b.chunk = 0 /\ b.split = size
      /\ b.page = 0 /\ b.pane = 0
      /\ \A f \in AppFields \ {"split", "chunk", "page", "pane"} : b[f] = a[f]
  BY <1>1 DEF AppFields
<1>3. ApplySplit(a, size) = ResetGridSlots(c)
  BY DEF ApplySplit
<1> HIDE DEF b
<1>4. \A f \in AppFields \ (Free \cup {"kept", "chunk", "split"}) : b[f] = a[f]
  BY <1>2 DEF Free
<1>5. Keeps(a, b)
  BY <1>1, <1>2, <1>4, ViewChange
<1>6. Keeps(b, c)
  BY <1>5, CompactHolesKeeps DEF Keeps
<1> HIDE DEF c
<1>7. Keeps(c, ResetGridSlots(c))
  BY <1>6, SlotsKeep DEF Keeps
<1> QED
  BY <1>3, <1>5, <1>6, <1>7, KeepsIsTransitive

(* applyOutputFilter.                                                      *)
LEMMA FilterKeeps ==
  ASSUME NEW a, AppOK(a), NEW pattern
  PROVE  Keeps(a, ApplyOutputFilter(a, pattern))
<1> DEFINE b == [a EXCEPT !.filter = pattern]
           c == SyncFilterMatches(b)
           matched == [c EXCEPT !.page = 0]
           host == FocusedHost(a)
           d == CompactHoles(matched)
           e == Refocus(d, host)
           f == ResetGridSlots(e)
<1>1. DOMAIN a = AppFields /\ a.page \in Int /\ a.pane \in Int
  BY DEF AppOK
<1>2. /\ DOMAIN b = DOMAIN a /\ \A x \in AppFields \ Free : b[x] = a[x]
      /\ b.page = a.page /\ b.pane = a.pane
  BY <1>1 DEF AppFields, Free
<1>3. ApplyOutputFilter(a, pattern) = FollowFocus(f)
  BY DEF ApplyOutputFilter
<1> HIDE DEF b, host
<1>4. Keeps(a, b)
  BY <1>1, <1>2, FreeChange
<1>5. Keeps(b, c)
  BY <1>4, FocusKeeps DEF Keeps
<1> HIDE DEF c
<1>6. DOMAIN c = AppFields /\ c.pane \in Int
  BY <1>5 DEF Keeps, AppOK
<1>7. /\ DOMAIN matched = DOMAIN c /\ \A x \in AppFields \ Free : matched[x] = c[x]
      /\ matched.page = 0 /\ matched.pane = c.pane
  BY <1>6 DEF AppFields, Free
<1> HIDE DEF matched
<1>8. Keeps(c, matched)
  BY <1>5, <1>6, <1>7, FreeChange DEF Keeps
<1>9. Keeps(matched, d)
  BY <1>8, CompactHolesKeeps DEF Keeps
<1> HIDE DEF d
<1>10. Keeps(d, e)
  BY <1>9, FocusKeeps DEF Keeps
<1> HIDE DEF e
<1>11. Keeps(e, f)
  BY <1>10, SlotsKeep DEF Keeps
<1> HIDE DEF f
<1>12. Keeps(f, FollowFocus(f))
  BY <1>11, FocusKeeps DEF Keeps
<1>13. Keeps(a, c)
  BY <1>4, <1>5, KeepsIsTransitive
<1>14. Keeps(a, d)
  BY <1>8, <1>9, <1>13, KeepsIsTransitive
<1>15. Keeps(a, f)
  BY <1>10, <1>11, <1>14, KeepsIsTransitive
<1> QED
  BY <1>3, <1>12, <1>15, KeepsIsTransitive

(* retile.                                                                 *)
LEMMA RetileKeeps ==
  ASSUME NEW a, AppOK(a)
  PROVE  Keeps(a, Retile(a))
<1> DEFINE b == CompactHoles(a)
           c == ResetGridSlots(b)
<1>1. Keeps(a, b)
  BY CompactHolesKeeps
<1>2. Retile(a) = FollowFocus(c)
  BY DEF Retile
<1> HIDE DEF b
<1>3. Keeps(b, c)
  BY <1>1, SlotsKeep DEF Keeps
<1> HIDE DEF c
<1>4. Keeps(c, FollowFocus(c))
  BY <1>3, FocusKeeps DEF Keeps
<1> QED
  BY <1>1, <1>2, <1>3, <1>4, KeepsIsTransitive

(* foregroundSession.                                                      *)
LEMMA ForegroundKeeps ==
  ASSUME NEW a, AppOK(a), NEW i \in DOMAIN a.open
  PROVE  Keeps(a, ForegroundSession(a, i))
<1> DEFINE b == Compacted(a, i)
           c == [b EXCEPT !.active = i, !.page = 0, !.pane = 0, !.screen = "normal"]
<1>1. Keeps(a, b) /\ DOMAIN b = AppFields /\ Len(b.open) = Len(a.open)
  BY CompactedOK
<1>2. ForegroundSession(a, i) = ResetGridSlots(c)
  BY DEF ForegroundSession
<1> HIDE DEF b
<1>3. /\ DOMAIN c = AppFields /\ c.active = i /\ c.page = 0 /\ c.pane = 0
      /\ \A f \in AppFields \ {"active", "page", "pane", "screen"} : c[f] = b[f]
  BY <1>1 DEF AppFields
<1> HIDE DEF c
<1>4. /\ c.snap = b.snap /\ c.open = b.open /\ c.split = b.split /\ c.chunk = b.chunk
      /\ c.kept = b.kept /\ c.term = b.term /\ c.main = b.main
  BY <1>3 DEF AppFields
<1>5. i \in 0 .. Len(b.open)
  <2>1. DOMAIN a.open = 1 .. Len(a.open) /\ Len(a.open) \in Nat
    BY DEF AppOK, SessionsOK
  <2> QED
    BY <1>1, <2>1
<1>6. Keeps(b, c)
  BY <1>1, <1>3, <1>4, <1>5 DEF Keeps, AppOK, Owned
<1>7. Keeps(c, ResetGridSlots(c))
  BY <1>6, SlotsKeep DEF Keeps
<1> QED
  BY <1>1, <1>2, <1>6, <1>7, KeepsIsTransitive

-----------------------------------------------------------------------------
(* Hosts join a session, or open one.                                      *)
LEMMA OpenSessionOK ==
  ASSUME NEW a, AppOK(a), NEW name \in DOMAIN Group \cup {AdHoc},
         NEW members \in Seq(PaneHost), members # <<>>, NoTwins(members, Doubles(name))
  PROVE  /\ AppOK(OpenSessionAt(a, name, members)) /\ OpenSessionAt(a, name, members).snap = a.snap
         /\ Owned(OpenSessionAt(a, name, members)) = Owned(a) \cup ToSet(members)
<1> DEFINE same == {i \in DOMAIN a.open : a.open[i].name = name}
           i == CHOOSE j \in same : TRUE
           fresh == Only(members, ToSet(members) \ ToSet(a.open[i].hosts))
           new == [name |-> name, hosts |-> members, sawClose |-> FALSE, ending |-> FALSE]
           n == Len(a.open)
<1>1. /\ DOMAIN a = AppFields /\ a.open \in Seq(OpenSession) /\ n \in Nat /\ DOMAIN a.open = 1 .. n
      /\ \A k \in DOMAIN a.open :
           NoTwins(a.open[k].hosts, Doubles(a.open[k].name)) /\ Real(a.open[k].hosts) # {}
  BY DEF AppOK, SessionsOK
<1>2. ToSet(members) \subseteq PaneHost /\ ToSet(members) # {} /\ Real(members) = ToSet(members)
  <2>1. ToSet(members) \subseteq PaneHost
    BY DEF ToSet
  <2>2. 1 \in DOMAIN members
    BY EmptySeq
  <2>3. members[1] \in ToSet(members)
    BY <2>2 DEF ToSet
  <2> QED
    BY <2>1, <2>3, HoleIsNoHost DEF Real
<1>3. CASE same # {}
  <2>1. i \in same
    BY <1>3
  <2> DEFINE list == a.open[i].hosts
             joined == list \o fresh
             b == SetHosts(a, i, joined)
  <2>2. OpenSessionAt(a, name, members) = ForegroundSession(b, i)
    BY <1>3 DEF OpenSessionAt
  <2> HIDE DEF i
  <2>3. i \in DOMAIN a.open /\ a.open[i] \in OpenSession /\ a.open[i].name = name /\ NoTwins(list, Doubles(name))
    BY <1>1, <2>1
  <2>4. list \in Seq(NoLimit)
    BY <2>3 DEF OpenSession
  <2> HIDE DEF list, same
  <2>5. fresh \in Seq(PaneHost) /\ ToSet(fresh) = ToSet(members) \cap (ToSet(members) \ ToSet(list))
    BY OnlyIsPart DEF list
  <2>6. NoTwins(fresh, Doubles(name))
    BY OnlyKeepsApart
  <2> HIDE DEF fresh
  <2>7. /\ joined \in Seq(NoLimit) /\ NoTwins(joined, Doubles(name))
        /\ Real(joined) = Real(list) \cup ToSet(fresh)
    BY <2>3, <2>4, <2>5, <2>6, JoinOK
  <2> HIDE DEF joined
  <2>8. Real(a.open[i].hosts) \subseteq Real(joined)
    BY <2>7 DEF list
  <2>9. /\ AppOK(b) /\ DOMAIN b = AppFields /\ \A f \in AppFields \ {"open"} : b[f] = a[f]
        /\ Len(b.open) = Len(a.open) /\ Owned(b) = Owned(a) \cup Real(joined)
    BY <2>3, <2>7, <2>8, SetHostsOK
  <2> HIDE DEF b
  <2>10. b.snap = a.snap /\ i \in DOMAIN b.open
    BY <1>1, <2>3, <2>9 DEF AppFields, AppOK, SessionsOK
  <2>11. Keeps(b, ForegroundSession(b, i))
    BY <2>9, <2>10, ForegroundKeeps
  <2>12. Owned(b) = Owned(a) \cup ToSet(members)
    <3>1. Real(list) \subseteq Owned(a)
      BY <2>3 DEF Owned, list
    <3>2. ToSet(members) \cap ToSet(list) \subseteq Real(list)
      BY <1>2, HoleIsNoHost DEF Real
    <3> QED
      BY <2>5, <2>7, <2>9, <3>1, <3>2
  <2> QED
    BY <2>2, <2>10, <2>11, <2>12 DEF Keeps
<1>4. CASE same = {}
  <2> DEFINE open == Append(a.open, new)
             b == [a EXCEPT !.open = open]
  <2>1. OpenSessionAt(a, name, members) = ForegroundSession(b, n + 1)
    BY <1>4 DEF OpenSessionAt
  <2>2. new \in OpenSession /\ new.hosts = members /\ new.name = name
    BY HoleIsNoHost DEF OpenSession
  <2>13. \A k \in 1 .. n : a.open[k].name # name
    BY <1>1, <1>4
  <2> HIDE DEF new, same
  <2>3. /\ open \in Seq(OpenSession) /\ Len(open) = n + 1 /\ DOMAIN open = 1 .. n + 1
        /\ \A k \in 1 .. n : open[k] = a.open[k]
        /\ open[n + 1] = new
    BY <1>1, <2>2, AppendProperties
  <2> HIDE DEF open
  <2>14. NamesApart(open)
    <3>1. \A k \in 1 .. n + 1 : k \in 1 .. n \/ k = n + 1
      BY <1>1
    <3>2. NamesApart(a.open)
      BY DEF AppOK, SessionsOK
    <3>3. open[n + 1].name = name /\ \A k \in 1 .. n : open[k].name = a.open[k].name
      BY <2>2, <2>3
    <3> QED
      BY <1>1, <2>3, <2>13, <3>1, <3>2, <3>3 DEF NamesApart
  <2>5. SessionsOK(open)
    <3> SUFFICES ASSUME NEW k \in 1 .. n + 1
                 PROVE NoTwins(open[k].hosts, Doubles(open[k].name)) /\ Real(open[k].hosts) # {}
      BY <2>3, <2>14 DEF SessionsOK
    <3>1. CASE k = n + 1
      BY <1>2, <2>2, <2>3, <3>1
    <3>2. CASE k # n + 1
      <4>1. n \in Nat
        BY <1>1
      <4>2. \A m \in Nat : \A x \in 1 .. m + 1 : x # m + 1 => x \in 1 .. m
        OBVIOUS
      <4>3. k \in 1 .. n
        BY <3>2, <4>1, <4>2
      <4> QED
        BY <1>1, <2>3, <4>3
    <3> QED
      BY <3>1, <3>2
  <2>6. DOMAIN b = AppFields /\ b.open = open /\ \A f \in AppFields \ {"open"} : b[f] = a[f]
    BY <1>1 DEF AppFields
  <2> HIDE DEF b
  <2>7. /\ b.snap = a.snap /\ b.active = a.active /\ b.split = a.split /\ b.chunk = a.chunk
        /\ b.page = a.page /\ b.pane = a.pane /\ b.kept = a.kept /\ b.term = a.term /\ b.main = a.main
    BY <2>6 DEF AppFields
  <2>8. AppOK(b)
    <3>1. b.active \in 0 .. Len(b.open)
      <4>1. a.active \in 0 .. n /\ n \in Nat
        BY <1>1 DEF AppOK
      <4>2. a.active \in 0 .. n + 1
        BY <4>1
      <4> QED
        BY <2>3, <2>6, <2>7, <4>2
    <3> QED
      BY <2>5, <2>6, <2>7, <3>1 DEF AppOK
  <2>9. Owned(b) = Owned(a) \cup ToSet(members)
    <3>1. \A k \in DOMAIN a.open : k \in DOMAIN open /\ Real(open[k].hosts) = Real(a.open[k].hosts)
      BY <1>1, <2>3
    <3>2. n + 1 \in DOMAIN open /\ Real(open[n + 1].hosts) = ToSet(members)
      BY <1>1, <1>2, <2>2, <2>3
    <3>3. \A k \in DOMAIN open : k \in DOMAIN a.open \/ k = n + 1
      BY <1>1, <2>3
    <3> QED
      BY <2>6, <3>1, <3>2, <3>3 DEF Owned
  <2>10. n + 1 \in DOMAIN b.open
    BY <1>1, <2>3, <2>6
  <2>11. Keeps(b, ForegroundSession(b, n + 1))
    BY <2>8, <2>10, ForegroundKeeps
  <2> QED
    BY <2>1, <2>7, <2>9, <2>11 DEF Keeps
<1> QED
  BY <1>3, <1>4

(* After the adoption every host of the snapshot is in a session.          *)
LEMMA AdoptOK ==
  ASSUME NEW a, AppOK(a)
  PROVE  /\ AppOK(AdoptNewHosts(a)) /\ AdoptNewHosts(a).snap = a.snap
         /\ Owned(AdoptNewHosts(a)) = Owned(a) \cup ToSet(a.snap)
<1> DEFINE orphans == Only(a.snap, ToSet(a.snap) \ Owned(a))
           list == a.open[a.active].hosts
           joined == list \o orphans
           b == SetHosts(a, a.active, joined)
           c == OpenSessionAt(a, AdHoc, orphans)
<1>1. a.snap \in Seq(PaneHost) /\ IsInjective(a.snap)
  BY DEF AppOK
<1>2. /\ orphans \in Seq(PaneHost) /\ ToSet(orphans) = ToSet(a.snap) \cap (ToSet(a.snap) \ Owned(a))
      /\ IsInjective(orphans)
  BY <1>1, OnlyIsPart, OnlyKeepsApart
<1>3. AdoptNewHosts(a) = IF orphans = <<>> THEN a ELSE IF a.active # 0 THEN b ELSE c
  BY DEF AdoptNewHosts
<1> HIDE DEF orphans
<1>4. CASE orphans = <<>>
  <2>1. ToSet(orphans) = {}
    BY <1>4 DEF ToSet
  <2> QED
    BY <1>2, <1>3, <1>4, <2>1
<1>5. CASE orphans # <<>> /\ a.active # 0
  <2> DEFINE twice == Doubles(a.open[a.active].name)
  <2>1. a.active \in DOMAIN a.open /\ a.open[a.active] \in OpenSession /\ NoTwins(list, twice)
    BY <1>5 DEF AppOK, SessionsOK
  <2>2. list \in Seq(NoLimit) /\ Real(list) \subseteq Owned(a)
    BY <2>1 DEF OpenSession, Owned
  <2>3. ToSet(orphans) \subseteq PaneHost
    BY <1>2 DEF ToSet
  <2>4. ToSet(orphans) \cap ToSet(list) = {}
    BY <1>2, <2>2, <2>3, HoleIsNoHost DEF Real
  <2>5. Real(list) \subseteq Real(a.open[a.active].hosts) /\ Real(a.open[a.active].hosts) \subseteq Real(list)
    OBVIOUS
  <2> HIDE DEF list
  <2>10. NoTwins(orphans, twice)
    BY <1>2 DEF NoTwins, IsInjective
  <2> HIDE DEF twice
  <2>6. joined \in Seq(NoLimit) /\ NoTwins(joined, twice) /\ Real(joined) = Real(list) \cup ToSet(orphans)
    BY <1>2, <2>1, <2>2, <2>4, <2>10, JoinOK
  <2>7. Real(a.open[a.active].hosts) \subseteq Real(joined)
    BY <2>5, <2>6
  <2> HIDE DEF joined
  <2>8. /\ AppOK(b) /\ \A f \in AppFields \ {"open"} : b[f] = a[f]
        /\ Owned(b) = Owned(a) \cup Real(joined)
    BY <2>1, <2>6, <2>7, SetHostsOK DEF twice
  <2> HIDE DEF b
  <2>9. b.snap = a.snap
    BY <2>8 DEF AppFields
  <2> QED
    BY <1>2, <1>3, <1>5, <2>2, <2>6, <2>8, <2>9
<1>6. CASE orphans # <<>> /\ a.active = 0
  <2>3. NoTwins(orphans, Doubles(AdHoc))
    BY <1>2 DEF NoTwins, IsInjective
  <2>1. AppOK(c) /\ c.snap = a.snap /\ Owned(c) = Owned(a) \cup ToSet(orphans)
    BY <1>2, <1>6, <2>3, OpenSessionOK
  <2> HIDE DEF c
  <2> QED
    BY <1>2, <1>3, <1>6, <2>1
<1> QED
  BY <1>4, <1>5, <1>6

(* snapshotFleet reads the list and moves nobody.                          *)
LEMMA SnapshotOK ==
  ASSUME NEW a, AppOK(a), NEW ids \in Seq(PaneHost), IsInjective(ids), NEW states
  PROVE  /\ AppOK(SnapshotFleet(a, ids, states)) /\ SnapshotFleet(a, ids, states).snap = ids
         /\ Owned(SnapshotFleet(a, ids, states)) = Owned(a)
<1> DEFINE b == SnapshotFleet(a, ids, states)
<1>1. DOMAIN a = AppFields
  BY DEF AppOK
<1>2. /\ DOMAIN b = AppFields /\ b.snap = ids
      /\ \A f \in AppFields \ {"snap", "states", "had"} : b[f] = a[f]
  BY <1>1 DEF SnapshotFleet, AppFields
<1> HIDE DEF b
<1>3. /\ b.open = a.open /\ b.active = a.active /\ b.split = a.split /\ b.chunk = a.chunk
      /\ b.page = a.page /\ b.pane = a.pane /\ b.kept = a.kept /\ b.term = a.term /\ b.main = a.main
  BY <1>2 DEF AppFields
<1>4. AppOK(b) /\ Owned(b) = Owned(a)
  BY <1>2, <1>3 DEF AppOK, Owned
<1> QED
  BY <1>2, <1>4 DEF b

(* The start screen is a matter of the view.                               *)
LEMMA ResetToStartKeeps ==
  ASSUME NEW a, AppOK(a)
  PROVE  Keeps(a, ResetToStart(a)) /\ Keeps(a, StartIfEmpty(a))
<1> DEFINE b == [a EXCEPT !.had = FALSE, !.screen = "normal", !.pane = 0, !.page = 0, !.split = 0,
                          !.chunk = 0, !.filter = "", !.match = {},
                          !.focus = IF @ = "grid" THEN "sidebar" ELSE @]
<1>1. DOMAIN a = AppFields /\ a.kept \in Nat
  BY DEF AppOK
<1>2. /\ DOMAIN b = AppFields /\ b.split = 0 /\ b.chunk = 0 /\ b.page = 0 /\ b.pane = 0
      /\ \A f \in AppFields \ (Free \cup {"chunk", "split"}) : b[f] = a[f]
  BY <1>1 DEF AppFields, Free
<1>3. ResetToStart(a) = ResetGridSlots(b)
  BY DEF ResetToStart
<1> HIDE DEF b
<1>4. b.kept = a.kept
  BY <1>2 DEF AppFields, Free
<1>5. \A f \in AppFields \ (Free \cup {"kept", "chunk", "split"}) : b[f] = a[f]
  BY <1>2
<1>6. Keeps(a, b) /\ AppOK(b)
  <2>1. Keeps(a, b)
    BY <1>1, <1>2, <1>4, <1>5, ViewChange
  <2> QED
    BY <2>1 DEF Keeps
<1>7. Keeps(b, ResetGridSlots(b))
  BY <1>6, SlotsKeep
<1>8. Keeps(a, ResetToStart(a))
  BY <1>3, <1>6, <1>7, KeepsIsTransitive
<1>9. StartIfEmpty(a) \in {a, ResetToStart(a)}
  BY DEF StartIfEmpty
<1> QED
  BY <1>8, <1>9, KeepsItself

(* The tail of the handler of a new list.                                  *)
LEMMA SettlesKeeps ==
  ASSUME NEW a, AppOK(a), NEW host
  PROVE  Keeps(a, Settles(a, host))
<1> DEFINE b == KeepGridSlots(a)
           c == SyncFilterMatches(b)
           d == Refocus(c, host)
<1>1. Settles(a, host) = FollowFocus(d)
  BY DEF Settles
<1>2. Keeps(a, b)
  BY SlotsKeep
<1> HIDE DEF b
<1>3. Keeps(b, c)
  BY <1>2, FocusKeeps DEF Keeps
<1> HIDE DEF c
<1>4. Keeps(c, d)
  BY <1>3, FocusKeeps DEF Keeps
<1> HIDE DEF d
<1>5. Keeps(d, FollowFocus(d))
  BY <1>4, FocusKeeps DEF Keeps
<1>6. Keeps(a, d)
  BY <1>2, <1>3, <1>4, KeepsIsTransitive
<1> QED
  BY <1>1, <1>5, <1>6, KeepsIsTransitive

(* After the new list is handled the sessions hold exactly its hosts.       *)
LEMMA HostsChangedOK ==
  ASSUME NEW a, AppOK(a), NEW ids \in Seq(PaneHost), IsInjective(ids), NEW states
  PROVE  /\ AppOK(HostsChanged(a, ids, states)) /\ HostsChanged(a, ids, states).snap = ids
         /\ Owned(HostsChanged(a, ids, states)) = ToSet(ids)
<1> DEFINE b == WithHosts(a, ids)
           c == SnapshotFleet(b, ids, states)
           d == PruneSessions(c)
           e == AdoptNewHosts(d)
           host == FocusedHost(a)
           f == Settles(e, host)
<1>1. HostsChanged(a, ids, states) = StartIfEmpty(f)
  BY DEF HostsChanged
<1> HIDE DEF host
<1>2. Keeps(a, b)
  BY FocusKeeps
<1> HIDE DEF b
<1>3. AppOK(c) /\ c.snap = ids /\ Owned(c) = Owned(b)
  BY <1>2, SnapshotOK DEF Keeps
<1> HIDE DEF c
<1>4. AppOK(d) /\ d.snap = c.snap /\ Owned(d) = Owned(c) \cap ToSet(c.snap)
  BY <1>3, PruneOK
<1> HIDE DEF d
<1>5. AppOK(e) /\ e.snap = d.snap /\ Owned(e) = Owned(d) \cup ToSet(d.snap)
  BY <1>4, AdoptOK
<1> HIDE DEF e
<1>6. Keeps(e, f) /\ AppOK(f)
  <2>1. Keeps(e, f)
    BY <1>5, SettlesKeeps
  <2> QED
    BY <2>1 DEF Keeps
<1> HIDE DEF f
<1>7. Keeps(f, StartIfEmpty(f))
  BY <1>6, ResetToStartKeeps
<1>8. Keeps(e, StartIfEmpty(f))
  BY <1>6, <1>7, KeepsIsTransitive
<1>9. Owned(e) = ToSet(ids)
  BY <1>3, <1>4, <1>5
<1> QED
  BY <1>1, <1>3, <1>4, <1>5, <1>8, <1>9 DEF Keeps

-----------------------------------------------------------------------------
(* Sessions that are over.                                                 *)
LEMMA MarkedOK ==
  ASSUME NEW a, AppOK(a), NEW open \in Seq(OpenSession), Len(open) = Len(a.open),
         \A i \in DOMAIN open : open[i].hosts = a.open[i].hosts /\ open[i].name = a.open[i].name
  PROVE  /\ Keeps(a, [a EXCEPT !.open = open]) /\ [a EXCEPT !.open = open].open = open
<1> DEFINE b == [a EXCEPT !.open = open]
<1>1. /\ DOMAIN a = AppFields /\ a.open \in Seq(OpenSession) /\ NamesApart(a.open)
      /\ \A i \in DOMAIN a.open :
           NoTwins(a.open[i].hosts, Doubles(a.open[i].name)) /\ Real(a.open[i].hosts) # {}
  BY DEF AppOK, SessionsOK
<1>2. DOMAIN open = DOMAIN a.open
  BY <1>1
<1>3. DOMAIN b = AppFields /\ b.open = open /\ \A f \in AppFields \ {"open"} : b[f] = a[f]
  BY <1>1 DEF AppFields
<1> HIDE DEF b
<1>4. /\ b.snap = a.snap /\ b.active = a.active /\ b.split = a.split /\ b.chunk = a.chunk
      /\ b.page = a.page /\ b.pane = a.pane /\ b.kept = a.kept /\ b.term = a.term /\ b.main = a.main
  BY <1>3 DEF AppFields
<1>5. SessionsOK(b.open)
  BY <1>1, <1>2, <1>3 DEF SessionsOK, NamesApart
<1>6. AppOK(b)
  BY <1>3, <1>4, <1>5 DEF AppOK
<1>7. Owned(b) = Owned(a)
  BY <1>2, <1>3 DEF Owned
<1> QED
  BY <1>3, <1>4, <1>6, <1>7 DEF Keeps, b

(* No host of the run leaves the sessions without being told to leave the  *)
(* run, and every host that logged out is told.                            *)
LEMMA ReapOK ==
  ASSUME NEW a, AppOK(a)
  PROVE  /\ AppOK(Reap(a).app) /\ Reap(a).app.snap = a.snap
         /\ Owned(Reap(a).app) \subseteq Owned(a)
         /\ Owned(a) \cap ToSet(a.snap) \subseteq Owned(Reap(a).app) \cup Reap(a).gone
         /\ \A h \in ToSet(a.snap) : StateOf(a, h) = "closed" => h \in Reap(a).gone
<1> DEFINE logout(i) == \E h \in Real(a.open[i].hosts) : StateOf(a, h) = "closed"
           session(i) == [a.open[i] EXCEPT !.sawClose = @ \/ logout(i)]
           marked == [i \in DOMAIN a.open |-> session(i)]
           seen == [a EXCEPT !.open = marked]
           stay == {s \in ToSet(seen.open) : ~SessionOver(a, s)}
           kept == Only(seen.open, stay)
           ended == {i \in DOMAIN seen.open : SessionOver(a, seen.open[i])}
           back == KeepActive([seen EXCEPT !.open = kept], ActiveSession(a))
           shaped == IF ActiveSession(back) # ActiveSession(a) THEN ResetGridSlots(back) ELSE back
           loggedOut == {h \in ToSet(a.snap) : StateOf(a, h) = "closed"}
           over == UNION {Real(seen.open[i].hosts) : i \in ended}
           host == FocusedHost(a)
           first == FollowFocus(Refocus(seen, host))
           second == FollowFocus(Refocus(shaped, host))
<1>1. /\ a.open \in Seq(OpenSession) /\ DOMAIN a.open = 1 .. Len(a.open) /\ Len(a.open) \in Nat
      /\ \A i \in DOMAIN a.open : a.open[i] \in OpenSession
  BY DEF AppOK, SessionsOK
<1>2. /\ Reap(a).gone = loggedOut \cup ((over \cap ToSet(a.snap)) \ Owned(back))
      /\ Reap(a).app = IF ended = {} /\ loggedOut = {} THEN seen
                       ELSE FollowFocus(Refocus(IF ended = {} THEN seen ELSE shaped, host))
  BY DEF Reap
<1> HIDE DEF logout, host
<1>3. ASSUME NEW i \in DOMAIN a.open
      PROVE  /\ session(i) \in OpenSession /\ session(i).hosts = a.open[i].hosts
             /\ session(i).name = a.open[i].name
  <2>1. a.open[i] \in OpenSession
    BY <1>1
  <2>2. (a.open[i].sawClose \/ logout(i)) \in BOOLEAN
    OBVIOUS
  <2> QED
    BY <2>1, <2>2 DEF OpenSession
<1> HIDE DEF session
<1>4. DOMAIN marked = 1 .. Len(a.open) /\ \A i \in DOMAIN a.open : marked[i] = session(i)
  BY <1>1
<1>5. marked \in Seq(OpenSession) /\ Len(marked) = Len(a.open)
  <2>1. marked \in [1 .. Len(a.open) -> OpenSession]
    BY <1>1, <1>3
  <2> HIDE DEF marked
  <2> QED
    BY <1>1, <2>1
<1> HIDE DEF marked
<1>6. \A i \in DOMAIN marked : marked[i].hosts = a.open[i].hosts /\ marked[i].name = a.open[i].name
  BY <1>1, <1>3, <1>4
<1>7. Keeps(a, seen) /\ seen.open = marked /\ AppOK(seen)
  <2>1. Keeps(a, seen) /\ seen.open = marked
    BY <1>5, <1>6, MarkedOK
  <2> QED
    BY <2>1 DEF Keeps
<1> HIDE DEF seen
<1>8. \A i \in DOMAIN seen.open :
        NoTwins(seen.open[i].hosts, Doubles(seen.open[i].name)) /\ Real(seen.open[i].hosts) # {}
  BY <1>7 DEF AppOK, SessionsOK
<1>9. \A i \in DOMAIN seen.open : seen.open[i] \in stay <=> i \notin ended
  BY DEF ToSet
<1>10. seen.open \in Seq(OpenSession) /\ NamesApart(seen.open)
  BY <1>7 DEF AppOK, SessionsOK
<1> HIDE DEF stay
<1>11. /\ SessionsOK(kept)
       /\ UNION {Real(kept[i].hosts) : i \in DOMAIN kept} =
            UNION {Real(seen.open[i].hosts) : i \in {k \in DOMAIN seen.open : seen.open[k] \in stay}}
  BY <1>8, <1>10, OnlySessions
<1> HIDE DEF kept
<1>12. /\ AppOK(back) /\ back.open = kept /\ \A f \in AppFields \ {"open", "active"} : back[f] = seen[f]
  BY <1>7, <1>11, KeepActiveOK
<1>13. back.snap = a.snap
  BY <1>7, <1>12 DEF AppFields, Keeps
<1> HIDE DEF back
<1>14. Owned(a) = Owned(back) \cup over
  <2>1. \A i \in DOMAIN seen.open : i \in ended \/ i \in {k \in DOMAIN seen.open : seen.open[k] \in stay}
    BY <1>9
  <2>2. Owned(back) = UNION {Real(seen.open[i].hosts) : i \in {k \in DOMAIN seen.open : seen.open[k] \in stay}}
    BY <1>11, <1>12 DEF Owned
  <2>3. Owned(a) = UNION {Real(seen.open[i].hosts) : i \in DOMAIN seen.open}
    BY <1>7 DEF Keeps, Owned
  <2> QED
    BY <2>1, <2>2, <2>3
<1>15. Keeps(back, shaped)
  BY <1>12, SlotsKeep, KeepsItself
<1>16. Keeps(seen, first)
  <2> DEFINE b == Refocus(seen, host)
  <2>1. Keeps(seen, b)
    BY <1>7, FocusKeeps
  <2> HIDE DEF b
  <2>2. Keeps(b, FollowFocus(b))
    BY <2>1, FocusKeeps DEF Keeps
  <2>3. Keeps(seen, FollowFocus(b))
    BY <2>1, <2>2, KeepsIsTransitive
  <2> QED
    BY <2>3 DEF b
<1> HIDE DEF shaped
<1>17. Keeps(back, second)
  <2> DEFINE b == Refocus(shaped, host)
  <2>1. Keeps(shaped, b)
    BY <1>15, FocusKeeps DEF Keeps
  <2> HIDE DEF b
  <2>2. Keeps(b, FollowFocus(b))
    BY <2>1, FocusKeeps DEF Keeps
  <2>3. Keeps(back, FollowFocus(b))
    BY <1>15, <2>1, <2>2, KeepsIsTransitive
  <2> QED
    BY <2>3 DEF b
<1>18. \A h \in ToSet(a.snap) : StateOf(a, h) = "closed" => h \in loggedOut
  OBVIOUS
<1>19. ended = {} => Reap(a).app \in {seen, first}
  BY <1>2
<1>20. ended # {} => Reap(a).app = second
  BY <1>2
<1> HIDE DEF loggedOut, over, ended, first, second
<1>21. CASE ended = {}
  <2>1. Keeps(a, Reap(a).app)
    BY <1>7, <1>16, <1>19, <1>21, KeepsIsTransitive
  <2> QED
    BY <1>2, <1>18, <2>1 DEF Keeps
<1>22. CASE ended # {}
  <2>1. AppOK(Reap(a).app) /\ Reap(a).app.snap = a.snap /\ Owned(Reap(a).app) = Owned(back)
    BY <1>13, <1>17, <1>20, <1>22 DEF Keeps
  <2> QED
    BY <1>2, <1>14, <1>18, <2>1
<1> QED
  BY <1>21, <1>22

-----------------------------------------------------------------------------
(* What the user changes about the view, one handler after the other.      *)
LEMMA MovesKeep ==
  ASSUME NEW a, AppOK(a)
  PROVE  /\ Keeps(a, EnterPane(a))
         /\ \A delta \in Int : Keeps(a, MovePane(a, delta))
         /\ \A m : Keeps(a, [a EXCEPT !.screen = m])
         /\ \A f : Keeps(a, [a EXCEPT !.focus = f])
         /\ \A i \in Int : Keeps(a, [a EXCEPT !.pane = i])
         /\ \A i \in Int : Keeps(a, [a EXCEPT !.pane = i, !.focus = "grid"])
<1>1. DOMAIN a = AppFields /\ a.page \in Int /\ a.pane \in Int
  BY DEF AppOK
<1>2. Keeps(a, EnterPane(a))
  <2> DEFINE b == EnterPane(a)
  <2>1. /\ DOMAIN b = DOMAIN a /\ \A f \in AppFields \ Free : b[f] = a[f]
        /\ b.page = a.page /\ b.pane = a.pane
    BY <1>1 DEF EnterPane, AppFields, Free
  <2> HIDE DEF b
  <2>2. Keeps(a, b)
    BY <1>1, <2>1, FreeChange
  <2> QED
    BY <2>2 DEF b
<1>3. ASSUME NEW delta \in Int PROVE Keeps(a, MovePane(a, delta))
  <2> DEFINE b == MovePane(a, delta)
             ids == HostIDs(a)
             from == Clamp(a.pane + delta, 0, Len(ids) - 1)
             ahead == {i \in 0 .. Len(ids) - 1 :
                         ids[i + 1] # Hole /\ IF delta < 0 THEN i <= from ELSE i >= from}
             i == CHOOSE i \in ahead : \A j \in ahead : IF delta < 0 THEN j <= i ELSE i <= j
  <2>1. b = IF ahead = {} THEN a ELSE [a EXCEPT !.pane = i]
    BY DEF MovePane
  <2>3. ahead \subseteq 0 .. Len(ids) - 1 /\ Len(ids) - 1 \in Int
    BY HostIDsTyped
  <2> HIDE DEF b, ahead, ids
  <2>4. ahead # {} => i \in ahead
    <3>1. CASE delta < 0
      BY <2>3, <3>1, EndsAreThere
    <3>2. CASE ~(delta < 0)
      BY <2>3, <3>2, EndsAreThere
    <3> QED
      BY <3>1, <3>2
  <2> HIDE DEF i
  <2>5. /\ DOMAIN b = DOMAIN a /\ \A f \in AppFields \ Free : b[f] = a[f]
        /\ b.page = a.page /\ (b.pane = a.pane \/ (ahead # {} /\ b.pane = i))
    BY <1>1, <2>1 DEF AppFields, Free
  <2>6. b.pane \in Int
    <3>1. ASSUME ahead # {} PROVE i \in Int
      <4>1. i \in 0 .. Len(ids) - 1
        BY <2>3, <2>4, <3>1
      <4> QED
        BY <2>3, <4>1
    <3> QED
      BY <1>1, <2>5, <3>1
  <2>2. Keeps(a, b)
    BY <1>1, <2>5, <2>6, FreeChange
  <2> QED
    BY <2>2 DEF b
<1>4. ASSUME NEW m PROVE Keeps(a, [a EXCEPT !.screen = m])
  <2> DEFINE b == [a EXCEPT !.screen = m]
  <2>1. /\ DOMAIN b = DOMAIN a /\ \A f \in AppFields \ Free : b[f] = a[f]
        /\ b.page = a.page /\ b.pane = a.pane
    BY <1>1 DEF AppFields, Free
  <2> HIDE DEF b
  <2>2. Keeps(a, b)
    BY <1>1, <2>1, FreeChange
  <2> QED
    BY <2>2 DEF b
<1>5. ASSUME NEW area PROVE Keeps(a, [a EXCEPT !.focus = area])
  <2> DEFINE b == [a EXCEPT !.focus = area]
  <2>1. /\ DOMAIN b = DOMAIN a /\ \A f \in AppFields \ Free : b[f] = a[f]
        /\ b.page = a.page /\ b.pane = a.pane
    BY <1>1 DEF AppFields, Free
  <2> HIDE DEF b
  <2>2. Keeps(a, b)
    BY <1>1, <2>1, FreeChange
  <2> QED
    BY <2>2 DEF b
<1>6. ASSUME NEW i \in Int PROVE Keeps(a, [a EXCEPT !.pane = i])
  <2> DEFINE b == [a EXCEPT !.pane = i]
  <2>1. /\ DOMAIN b = DOMAIN a /\ \A f \in AppFields \ Free : b[f] = a[f]
        /\ b.page = a.page /\ b.pane = i
    BY <1>1 DEF AppFields, Free
  <2> HIDE DEF b
  <2>2. Keeps(a, b)
    BY <1>1, <2>1, FreeChange
  <2> QED
    BY <2>2 DEF b
<1>7. ASSUME NEW i \in Int PROVE Keeps(a, [a EXCEPT !.pane = i, !.focus = "grid"])
  <2> DEFINE b == [a EXCEPT !.pane = i, !.focus = "grid"]
  <2>1. /\ DOMAIN b = DOMAIN a /\ \A f \in AppFields \ Free : b[f] = a[f]
        /\ b.page = a.page /\ b.pane = i
    BY <1>1 DEF AppFields, Free
  <2> HIDE DEF b
  <2>2. Keeps(a, b)
    BY <1>1, <2>1, FreeChange
  <2> QED
    BY <2>2 DEF b
<1> QED
  BY <1>2, <1>3, <1>4, <1>5, <1>6, <1>7

(* The page follows the focus at the end.                                  *)
LEMMA ThenFollows ==
  ASSUME NEW a, NEW b, Keeps(a, b)
  PROVE  Keeps(a, FollowFocus(b))
<1>1. Keeps(b, FollowFocus(b))
  BY FocusKeeps DEF Keeps
<1> QED
  BY <1>1, KeepsIsTransitive

(* The terminal changes its size.                                          *)
LEMMA ResizeKeeps ==
  ASSUME NEW a, AppOK(a), NEW t \in Nat \X Nat
  PROVE  Keeps(a, [a EXCEPT !.term = t, !.main = MainArea(t, a.screen, a.focus)])
<1> DEFINE area == MainArea(t, a.screen, a.focus)
           b == [a EXCEPT !.term = t, !.main = area]
<1>1. DOMAIN a = AppFields
  BY DEF AppOK
<1>2. AreaOK(area) /\ (Unsized(t) => area = NoArea)
  <2>1. t[1] \in Nat /\ t[2] \in Nat
    OBVIOUS
  <2>2. Unsized(t) => t[1] < 24 \/ t[2] < 4
    BY <2>1 DEF Unsized
  <2>3. Unsized(t) => area = NoArea
    BY <2>2 DEF MainArea, NoArea
  <2>4. AreaOK(area)
    BY MainAreaOK
  <2> QED
    BY <2>3, <2>4
<1> HIDE DEF area
<1>3. /\ DOMAIN b = AppFields /\ b.term = t /\ b.main = area
      /\ \A f \in AppFields \ {"term", "main"} : b[f] = a[f]
  BY <1>1 DEF AppFields
<1> HIDE DEF b
<1>4. /\ b.snap = a.snap /\ b.open = a.open /\ b.active = a.active /\ b.split = a.split
      /\ b.chunk = a.chunk /\ b.kept = a.kept /\ b.page = a.page /\ b.pane = a.pane
  BY <1>3 DEF AppFields
<1>5. Keeps(a, b)
  BY <1>2, <1>3, <1>4 DEF Keeps, AppOK, Owned
<1> QED
  BY <1>5 DEF b, area

-----------------------------------------------------------------------------
(* What holds in every state: the root model is well formed and its limit  *)
(* is the page on screen; its snapshot is never behind the manager, except *)
(* by hosts that are gone; a host of the run is in a session, or on its    *)
(* way out; a host in a session is of the run, or its removal is on its    *)
(* way to the UI; and a logout has been announced or is being acted on.    *)
PanesInv ==
  /\ AppOK(app)
  /\ ScreenOK(app)
  /\ managed \in Seq(PaneHost) /\ IsInjective(managed)
  /\ ToSet(managed) \subseteq ToSet(app.snap)
  /\ Owned(app) \subseteq ToSet(managed) \cup removed
  /\ ToSet(managed) \subseteq Owned(app) \cup removing
  /\ DOMAIN st = PaneHost
  /\ \A h \in ToSet(managed) : st[h] = "closed" => hint \/ h \in removing

(* What keeps the sessions as they are keeps the invariant.                *)
LEMMA ShowsKeepsInv ==
  ASSUME PanesInv, NEW b, Keeps(app, b), Shows(b)
  PROVE  PanesInv'
<1>1. app' = Update(b) /\ UNCHANGED <<managed, st, noisy, hint, removing, removed, joins>>
  BY DEF Shows, envVars
<1>2. Keeps(b, Update(b)) /\ ScreenOK(Update(b))
  BY UpdateKeeps DEF Keeps
<1>3. Keeps(app, app') /\ ScreenOK(app')
  BY <1>1, <1>2, KeepsIsTransitive
<1> QED
  BY <1>1, <1>3 DEF PanesInv, Keeps

(* Nothing the user does to the view disturbs it.                          *)
LEMMA ViewKeepsInv ==
  ASSUME PanesInv, View
  PROVE  PanesInv'
<1>1. AppOK(app)
  BY DEF PanesInv
<1>2. ASSUME NEW m \in Screens, Screen(m) PROVE PanesInv'
  <2> DEFINE b == [app EXCEPT !.screen = m]
  <2>1. Keeps(app, b)
    BY <1>1, MovesKeep
  <2> HIDE DEF b
  <2>2. Keeps(app, FollowFocus(b))
    BY <2>1, ThenFollows
  <2> QED
    BY <1>2, <2>2, ShowsKeepsInv DEF Screen, b
<1>3. ASSUME NEW n \in Splits, Split(n) PROVE PanesInv'
  <2>1. Keeps(app, ApplySplit(app, n))
    BY <1>1, SplitKeeps, ViewAssumption
  <2> QED
    BY <1>3, <2>1, ShowsKeepsInv DEF Split
<1>4. ASSUME NEW p, Filter(p) PROVE PanesInv'
  <2>1. Keeps(app, ApplyOutputFilter(app, p))
    BY <1>1, FilterKeeps
  <2> QED
    BY <1>4, <2>1, ShowsKeepsInv DEF Filter
<1>5. CASE SessionOutput
  <2>1. Keeps(app, RefreshFilter(app))
    BY <1>1, RefreshFilterKeeps
  <2> QED
    BY <1>5, <2>1, ShowsKeepsInv DEF SessionOutput
<1>6. CASE Retiles
  <2>1. Keeps(app, Retile(app))
    BY <1>1, RetileKeeps
  <2> QED
    BY <1>6, <2>1, ShowsKeepsInv DEF Retiles
<1>7. ASSUME NEW t \in Term, Resize(t) PROVE PanesInv'
  <2>1. Keeps(app, [app EXCEPT !.term = t, !.main = MainArea(t, app.screen, app.focus)])
    BY <1>1, ResizeKeeps, ViewAssumption
  <2> QED
    BY <1>7, <2>1, ShowsKeepsInv DEF Resize
<1>8. ASSUME NEW d \in Int, PaneKey(d) PROVE PanesInv'
  <2> DEFINE b == EnterPane(app)
             c == MovePane(b, d)
  <2>1. PaneKey(d) = Shows(FollowFocus(c))
    BY DEF PaneKey
  <2>2. Keeps(app, b)
    BY <1>1, MovesKeep
  <2> HIDE DEF b
  <2>3. Keeps(b, c)
    BY <2>2, MovesKeep DEF Keeps
  <2> HIDE DEF c
  <2>4. Keeps(app, FollowFocus(c))
    BY <2>2, <2>3, KeepsIsTransitive, ThenFollows
  <2> QED
    BY <1>8, <2>1, <2>4, ShowsKeepsInv
<1>9. ASSUME NEW d \in {-1, 1}, StepKey(d) PROVE PanesInv'
  <2>1. Keeps(app, StepView(app, d))
    BY <1>1, StepViewKeeps
  <2> QED
    BY <1>9, <2>1, ShowsKeepsInv DEF StepKey
<1>10. ASSUME NEW f, FocusArea(f) PROVE PanesInv'
  <2>1. Keeps(app, [app EXCEPT !.focus = f])
    BY <1>1, MovesKeep
  <2> QED
    BY <1>10, <2>1, ShowsKeepsInv DEF FocusArea
<1>11. ASSUME NEW i \in DOMAIN app.open, Foreground(i) PROVE PanesInv'
  <2>1. Keeps(app, ForegroundSession(app, i))
    BY <1>1, ForegroundKeeps
  <2> QED
    BY <1>11, <2>1, ShowsKeepsInv DEF Foreground
<1>12. ASSUME NEW i \in Int, Click(i) PROVE PanesInv'
  <2> DEFINE b == [app EXCEPT !.pane = i]
             c == EnterPane(b)
  <2>1. Shows(FollowFocus(c))
    BY <1>12 DEF Click
  <2>2. Keeps(app, b)
    BY <1>1, MovesKeep
  <2> HIDE DEF b
  <2>3. Keeps(b, c)
    BY <2>2, MovesKeep DEF Keeps
  <2> HIDE DEF c
  <2>4. Keeps(app, FollowFocus(c))
    BY <2>2, <2>3, KeepsIsTransitive, ThenFollows
  <2> QED
    BY <2>1, <2>4, ShowsKeepsInv
<1>13. ASSUME NEW i \in Int, JumpTo(i) PROVE PanesInv'
  <2> DEFINE b == [app EXCEPT !.pane = i, !.focus = "grid"]
  <2>1. Shows(FollowFocus(b))
    BY <1>13 DEF JumpTo
  <2>2. Keeps(app, b)
    BY <1>1, MovesKeep
  <2> HIDE DEF b
  <2>3. Keeps(app, FollowFocus(b))
    BY <2>2, ThenFollows
  <2> QED
    BY <2>1, <2>3, ShowsKeepsInv
<1>14. CASE Zooms
  BY <1>2, <1>14 DEF Zooms
<1>15. CASE Narrows
  BY <1>3, <1>4, <1>15 DEF Narrows
<1>16. CASE Moves
  <2>1. \/ SessionOutput \/ Retiles
        \/ \E t \in Term : Resize(t)
        \/ \E d \in Int : PaneKey(d)
        \/ \E d \in {-1, 1} : StepKey(d)
        \/ \E f : FocusArea(f)
        \/ \E i \in DOMAIN app.open : Foreground(i)
        \/ \E i \in Int : Click(i) \/ JumpTo(i)
    <3>1. Grid(app).columns \in Int /\ HostIDs(app) \in Seq(NoLimit)
      BY <1>1, GridTyped, HostIDsTyped
    <3>2. ASSUME NEW d \in {-1, 1} PROVE d \in Int /\ d * Grid(app).columns \in Int
      BY <3>1
    <3>3. ASSUME NEW i \in DOMAIN HostIDs(app) PROVE i - 1 \in Int
      BY <3>1
    <3> QED
      BY <1>16, <3>2, <3>3 DEF Moves
  <2> QED
    BY <1>5, <1>6, <1>7, <1>8, <1>9, <1>10, <1>11, <1>12, <1>13, <2>1
<1> QED
  BY <1>14, <1>15, <1>16 DEF View

-----------------------------------------------------------------------------
(* A group's list of identifiers has at two places only hosts that ran     *)
(* when it was opened, and of these only the ones the group lists twice.   *)
LEMMA PlacedOK ==
  ASSUME NEW g \in DOMAIN Group, NEW ids \in [DOMAIN Group[g] -> PaneHost], Placed(g, ids)
  PROVE  /\ ids \in Seq(PaneHost) /\ ids # <<>>
         /\ NoTwins(ids, ToSet(managed)) /\ NoTwins(ids, Doubles(g))
<1> DEFINE here == ToSet(managed)
           taken(k) == here \cup {ids[j] : j \in 1 .. k - 1}
<1>1. /\ Group[g] \in Seq(PaneHost) /\ Group[g] # <<>> /\ Len(Group[g]) \in Nat
      /\ DOMAIN Group[g] = 1 .. Len(Group[g]) /\ DOMAIN ids = 1 .. Len(Group[g])
  BY GroupAssumption
<1>2. ids \in Seq(PaneHost) /\ ids # <<>>
  <2>1. Len(Group[g]) # 0
    BY <1>1, EmptySeq
  <2>2. ids \in [1 .. Len(Group[g]) -> PaneHost]
    BY <1>1
  <2>3. ids \in Seq(PaneHost) /\ Len(ids) = Len(Group[g])
    BY <1>1, <2>2
  <2> QED
    BY <2>1, <2>3, EmptySeq
<1>3. ASSUME NEW k \in DOMAIN ids
      PROVE  \/ Group[g][k] \in here /\ ids[k] = Group[g][k]
             \/ ids[k] \notin taken(k)
  BY <1>3 DEF Placed
<1> HIDE DEF here
<1>4. ASSUME NEW j \in DOMAIN ids, NEW k \in DOMAIN ids, ids[j] = ids[k], j < k
      PROVE  Group[g][j] = ids[j] /\ Group[g][k] = ids[j] /\ ids[j] \in here /\ j # k
  <2>1. j \in 1 .. k - 1
    BY <1>1, <1>4
  <2>2. ids[k] \in taken(k)
    BY <1>4, <2>1
  <2>3. Group[g][k] \in here /\ ids[k] = Group[g][k]
    BY <1>3, <2>2
  <2>4. ids[j] \in taken(j)
    BY <1>4, <2>3
  <2>5. Group[g][j] \in here /\ ids[j] = Group[g][j]
    BY <1>3, <2>4
  <2> QED
    BY <1>1, <1>4, <2>3, <2>5
<1>5. \A j, k \in DOMAIN ids : j # k => j < k \/ k < j
  BY <1>1
<1>6. NoTwins(ids, here)
  BY <1>4, <1>5 DEF NoTwins
<1>7. NoTwins(ids, Doubles(g))
  <2> SUFFICES ASSUME NEW j \in DOMAIN ids, NEW k \in DOMAIN ids, ids[j] = ids[k], j < k
               PROVE  ids[j] \in Doubles(g)
    BY <1>5 DEF NoTwins
  <2>1. j \in DOMAIN Group[g] /\ k \in DOMAIN Group[g] /\ ids[j] \in PaneHost
    BY <1>1
  <2> QED
    BY <1>4, <2>1 DEF Doubles
<1> QED
  BY <1>2, <1>6, <1>7 DEF here

(* The hosts that are added come after the ones that run, once each.       *)
LEMMA AddedOK ==
  ASSUME managed \in Seq(PaneHost), IsInjective(managed),
         NEW members \in Seq(PaneHost), NoTwins(members, ToSet(managed))
  PROVE  /\ Added(members) \in Seq(PaneHost) /\ IsInjective(Added(members))
         /\ ToSet(Added(members)) = ToSet(managed) \cup ToSet(members)
<1> DEFINE fresh == Only(members, ToSet(members) \ ToSet(managed))
           all == managed \o fresh
<1>1. /\ fresh \in Seq(PaneHost) /\ ToSet(fresh) = ToSet(members) \cap (ToSet(members) \ ToSet(managed))
      /\ IsInjective(fresh)
  <2>1. fresh \in Seq(PaneHost) /\ ToSet(fresh) = ToSet(members) \cap (ToSet(members) \ ToSet(managed))
    BY OnlyIsPart
  <2>2. NoTwins(fresh, ToSet(managed))
    BY OnlyKeepsApart
  <2> HIDE DEF fresh
  <2>3. \A k \in DOMAIN fresh : fresh[k] # Hole /\ fresh[k] \notin ToSet(managed)
    <3>1. \A k \in DOMAIN fresh : fresh[k] \in ToSet(fresh) /\ fresh[k] \in PaneHost
      BY <2>1 DEF ToSet
    <3> QED
      BY <2>1, <3>1, HoleIsNoHost
  <2> QED
    BY <2>1, <2>2, <2>3 DEF NoTwins, IsInjective
<1> HIDE DEF fresh
<1>2. /\ all \in Seq(PaneHost) /\ Len(all) = Len(managed) + Len(fresh)
      /\ DOMAIN all = 1 .. Len(all) /\ DOMAIN managed = 1 .. Len(managed) /\ DOMAIN fresh = 1 .. Len(fresh)
      /\ Len(managed) \in Nat /\ Len(fresh) \in Nat
      /\ \A k \in 1 .. Len(managed) : all[k] = managed[k]
      /\ \A k \in 1 .. Len(all) : k > Len(managed) => all[k] = fresh[k - Len(managed)]
  BY <1>1
<1> HIDE DEF all
<1>3. ASSUME NEW k \in DOMAIN all
      PROVE  \/ k \in DOMAIN managed /\ all[k] = managed[k]
             \/ k - Len(managed) \in DOMAIN fresh /\ all[k] = fresh[k - Len(managed)]
  <2>1. k \in 1 .. Len(managed) + Len(fresh)
    BY <1>2
  <2>2. CASE k <= Len(managed)
    <3>1. k \in 1 .. Len(managed)
      BY <1>2, <2>1, <2>2
    <3> QED
      BY <1>2, <3>1
  <2>3. CASE k > Len(managed)
    <3>1. k - Len(managed) \in 1 .. Len(fresh)
      BY <1>2, <2>1, <2>3
    <3> QED
      BY <1>2, <2>3, <3>1
  <2> QED
    BY <1>2, <2>1, <2>2, <2>3
<1>4. ToSet(all) = ToSet(managed) \cup ToSet(fresh)
  <2>1. \A k \in DOMAIN managed : k \in DOMAIN all /\ all[k] = managed[k]
    BY <1>2
  <2>2. ASSUME NEW k \in DOMAIN fresh PROVE k + Len(managed) \in DOMAIN all /\ all[k + Len(managed)] = fresh[k]
    <3>1. k \in 1 .. Len(fresh)
      BY <1>2
    <3>2. k + Len(managed) \in 1 .. Len(all) /\ k + Len(managed) > Len(managed) /\ (k + Len(managed)) - Len(managed) = k
      BY <1>2, <3>1
    <3>3. all[k + Len(managed)] = fresh[(k + Len(managed)) - Len(managed)]
      BY <1>2, <3>2
    <3> QED
      BY <1>2, <3>2, <3>3
  <2>3. ToSet(managed) \subseteq ToSet(all)
    BY <2>1 DEF ToSet
  <2>4. ToSet(fresh) \subseteq ToSet(all)
    BY <2>2 DEF ToSet
  <2>5. ToSet(all) \subseteq ToSet(managed) \cup ToSet(fresh)
    BY <1>3 DEF ToSet
  <2> QED
    BY <2>3, <2>4, <2>5
<1>5. IsInjective(all)
  <2> SUFFICES ASSUME NEW j \in DOMAIN all, NEW k \in DOMAIN all, all[j] = all[k] PROVE j = k
    BY DEF IsInjective
  <2>1. \A x \in DOMAIN managed, y \in DOMAIN fresh : managed[x] # fresh[y]
    BY <1>1 DEF ToSet
  <2>2. CASE j \in DOMAIN managed /\ all[j] = managed[j]
    BY <1>3, <2>1, <2>2 DEF IsInjective
  <2>3. CASE j - Len(managed) \in DOMAIN fresh /\ all[j] = fresh[j - Len(managed)]
    <3>1. k - Len(managed) \in DOMAIN fresh /\ all[k] = fresh[k - Len(managed)]
      BY <1>3, <2>1, <2>3
    <3>2. j - Len(managed) = k - Len(managed)
      BY <1>1, <2>3, <3>1 DEF IsInjective
    <3> QED
      BY <1>2, <3>2
  <2> QED
    BY <1>3, <2>2, <2>3
<1> QED
  BY <1>1, <1>2, <1>4, <1>5 DEF Added, all, fresh

(* A host that logged out is not dialled, and one that is dialled is up.   *)
LEMMA DialledOK ==
  ASSUME managed \in Seq(PaneHost), NEW members \in Seq(PaneHost),
         NEW h \in ToSet(managed) \cup ToSet(members), Dialled(members)[h] = "closed"
  PROVE  h \in ToSet(managed) /\ st[h] = "closed"
<1>1. h \in PaneHost
  BY DEF ToSet
<1> QED
  BY <1>1 DEF Dialled

(* Nor does anything that happens to the hosts and the sessions.           *)
LEMMA LifecycleKeepsInv ==
  ASSUME PanesInv, Lifecycle
  PROVE  PanesInv'
<1>1. /\ AppOK(app) /\ managed \in Seq(PaneHost) /\ IsInjective(managed)
      /\ ToSet(managed) \subseteq ToSet(app.snap)
      /\ Owned(app) \subseteq ToSet(managed) \cup removed
      /\ ToSet(managed) \subseteq Owned(app) \cup removing
      /\ \A h \in ToSet(managed) : st[h] = "closed" => hint \/ h \in removing
      /\ DOMAIN st = PaneHost
  BY DEF PanesInv
<1>2. ASSUME NEW h, NEW how, HostEnds(h, how) PROVE PanesInv'
  BY <1>2 DEF HostEnds, PanesInv
<1>3. ASSUME NEW h, Reconnects(h) PROVE PanesInv'
  BY <1>3 DEF Reconnects, PanesInv
<1>4. ASSUME NEW h, RemoveHost(h) PROVE PanesInv'
  BY <1>4 DEF RemoveHost, PanesInv
<1>5. ASSUME NEW h, RemoveRuns(h) PROVE PanesInv'
  <2> DEFINE left == Only(managed, ToSet(managed) \ {h})
  <2>1. /\ left \in Seq(PaneHost) /\ IsInjective(left)
        /\ ToSet(left) = ToSet(managed) \cap (ToSet(managed) \ {h})
    BY <1>1, OnlyIsPart, OnlyKeepsApart
  <2>2. managed' = left
    BY <1>5 DEF RemoveRuns
  <2> HIDE DEF left
  <2>3. \A x \in ToSet(managed') : x # h /\ x \in ToSet(managed)
    BY <2>1, <2>2
  <2>4. /\ app' = app /\ removing' = removing \ {h} /\ removed' = removed \cup {h}
        /\ hint' = (hint \/ h \in ToSet(managed)) /\ st' = [st EXCEPT ![h] = "gone"]
    BY <1>5 DEF RemoveRuns
  <2>9. DOMAIN st' = PaneHost /\ \A x \in ToSet(managed) : x # h => st'[x] = st[x]
    <3>1. ToSet(managed) \subseteq PaneHost
      BY <1>1 DEF ToSet
    <3> QED
      BY <1>1, <2>4, <3>1
  <2>5. \A x \in ToSet(managed') : st'[x] = "closed" => hint' \/ x \in removing'
    BY <1>1, <2>3, <2>4, <2>9
  <2>6. Owned(app') \subseteq ToSet(managed') \cup removed' /\ ToSet(managed') \subseteq Owned(app') \cup removing'
    BY <1>1, <2>1, <2>2, <2>4
  <2>7. ToSet(managed') \subseteq ToSet(app'.snap)
    BY <1>1, <2>3, <2>4
  <2>8. AppOK(app') /\ ScreenOK(app')
    BY <2>4 DEF PanesInv
  <2> QED
    BY <2>1, <2>2, <2>5, <2>6, <2>7, <2>8, <2>9 DEF PanesInv
<1>6. ASSUME NEW h, HostRemovedMsg(h) PROVE PanesInv'
  <2> DEFINE b == HostsChanged(app, managed, st)
  <2>1. AppOK(b) /\ b.snap = managed /\ Owned(b) = ToSet(managed)
    BY <1>1, HostsChangedOK
  <2>2. app' = Update(b) /\ UNCHANGED <<managed, st, noisy, hint, removing, joins>>
    BY <1>6 DEF HostRemovedMsg
  <2> HIDE DEF b
  <2>3. Keeps(b, app') /\ ScreenOK(app')
    BY <2>1, <2>2, UpdateKeeps
  <2> QED
    BY <1>1, <2>1, <2>2, <2>3 DEF PanesInv, Keeps
<1>7. ASSUME NEW h \in PaneHost, Connect(h) PROVE PanesInv'
  <2>1. <<h>> \in Seq(PaneHost) /\ NoTwins(<<h>>, ToSet(managed))
    BY DEF NoTwins
  <2> DEFINE all == Added(<<h>>)
             states == Dialled(<<h>>)
             b == HostsChanged(app, all, states)
  <2>2. all \in Seq(PaneHost) /\ IsInjective(all) /\ ToSet(all) = ToSet(managed) \cup ToSet(<<h>>)
    BY <1>1, <2>1, AddedOK
  <2>3. /\ managed' = all /\ st' = states
        /\ app' = Update(HostsChanged(app, managed', st'))
        /\ UNCHANGED <<noisy, hint, removing, removed>>
    BY <1>7 DEF Connect
  <2>4. \A x \in ToSet(all) : states[x] = "closed" => x \in ToSet(managed) /\ st[x] = "closed"
    BY <1>1, <2>1, <2>2, DialledOK
  <2> HIDE DEF all, states
  <2>5. AppOK(b) /\ b.snap = all /\ Owned(b) = ToSet(all)
    BY <1>1, <2>2, HostsChangedOK
  <2>6. app' = Update(b)
    BY <2>3
  <2> HIDE DEF b
  <2>7. Keeps(b, app') /\ ScreenOK(app')
    BY <2>5, <2>6, UpdateKeeps
  <2>8. \A x \in ToSet(managed') : st'[x] = "closed" => hint' \/ x \in removing'
    BY <1>1, <2>3, <2>4
  <2>9. DOMAIN st' = PaneHost
    BY <2>3 DEF states, Dialled
  <2> QED
    BY <2>2, <2>3, <2>5, <2>7, <2>8, <2>9 DEF PanesInv, Keeps
<1>8. ASSUME NEW h, Prints(h) PROVE PanesInv'
  BY <1>8 DEF Prints, PanesInv
<1>9. ASSUME NEW g \in DOMAIN Group, OpenGroup(g) PROVE PanesInv'
  <2>1. PICK ids \in [DOMAIN Group[g] -> PaneHost] :
          /\ Placed(g, ids)
          /\ managed' = Added(ids) /\ st' = Dialled(ids)
          /\ app' = Update(OpenSessionAt(SnapshotFleet(app, managed', st'), g, ids))
    BY <1>9 DEF OpenGroup
  <2>13. /\ ids \in Seq(PaneHost) /\ ids # <<>>
         /\ NoTwins(ids, ToSet(managed)) /\ NoTwins(ids, Doubles(g))
    BY <2>1, PlacedOK
  <2> DEFINE all == Added(ids)
             states == Dialled(ids)
             fresh == SnapshotFleet(app, all, states)
             b == OpenSessionAt(fresh, g, ids)
  <2>2. all \in Seq(PaneHost) /\ IsInjective(all) /\ ToSet(all) = ToSet(managed) \cup ToSet(ids)
    BY <1>1, <2>13, AddedOK
  <2>3. /\ managed' = all /\ st' = states
        /\ app' = Update(OpenSessionAt(SnapshotFleet(app, managed', st'), g, ids))
        /\ UNCHANGED <<noisy, hint, removing, removed>>
    BY <1>9, <2>1 DEF OpenGroup
  <2>4. \A x \in ToSet(all) : states[x] = "closed" => x \in ToSet(managed) /\ st[x] = "closed"
    BY <1>1, <2>2, <2>13, DialledOK
  <2>5. app' = Update(b)
    BY <2>3
  <2> HIDE DEF all, states
  <2>6. AppOK(fresh) /\ fresh.snap = all /\ Owned(fresh) = Owned(app)
    BY <1>1, <2>2, SnapshotOK
  <2> HIDE DEF fresh
  <2>7. AppOK(b) /\ b.snap = fresh.snap /\ Owned(b) = Owned(fresh) \cup ToSet(ids)
    BY <2>6, <2>13, OpenSessionOK
  <2> HIDE DEF b
  <2>8. Keeps(b, app') /\ ScreenOK(app')
    BY <2>5, <2>7, UpdateKeeps
  <2>9. app'.snap = all /\ Owned(app') = Owned(app) \cup ToSet(ids) /\ AppOK(app')
    BY <2>6, <2>7, <2>8 DEF Keeps
  <2>10. \A x \in ToSet(managed') : st'[x] = "closed" => hint' \/ x \in removing'
    BY <1>1, <2>3, <2>4
  <2>11. Owned(app') \subseteq ToSet(managed') \cup removed' /\ ToSet(managed') \subseteq Owned(app') \cup removing'
    BY <1>1, <2>2, <2>3, <2>9
  <2>12. DOMAIN st' = PaneHost
    BY <2>3 DEF states, Dialled
  <2> QED
    BY <2>2, <2>3, <2>8, <2>9, <2>10, <2>11, <2>12 DEF PanesInv
<1>10. ASSUME NEW i \in DOMAIN app.open, EndSession(i) PROVE PanesInv'
  <2> DEFINE marked == [app.open EXCEPT ![i].ending = TRUE]
             b == [app EXCEPT !.open = marked]
             reaped == Reap(b)
  <2>1. /\ app.open \in Seq(OpenSession) /\ DOMAIN app = AppFields
        /\ \A k \in DOMAIN app.open : app.open[k] \in OpenSession
    BY <1>1 DEF AppOK, SessionsOK
  <2>2. marked \in Seq(OpenSession) /\ Len(marked) = Len(app.open)
    <3>1. [app.open[i] EXCEPT !.ending = TRUE] \in OpenSession
      BY <2>1 DEF OpenSession
    <3>2. app.open \in [1 .. Len(app.open) -> OpenSession] /\ Len(app.open) \in Nat
      BY <2>1
    <3>3. marked \in [1 .. Len(app.open) -> OpenSession]
      BY <3>1, <3>2
    <3> HIDE DEF marked
    <3> QED
      BY <3>2, <3>3
  <2>3. \A k \in DOMAIN marked : marked[k].hosts = app.open[k].hosts /\ marked[k].name = app.open[k].name
    BY <2>1 DEF OpenSession
  <2>4. [app EXCEPT !.open[i].ending = TRUE] = b
    BY <2>1 DEF AppFields
  <2> HIDE DEF marked
  <2>5. Keeps(app, b) /\ AppOK(b)
    <3>1. Keeps(app, b)
      BY <1>1, <2>2, <2>3, MarkedOK
    <3> QED
      BY <3>1 DEF Keeps
  <2>6. /\ app' = Update(reaped.app) /\ removing' = removing \cup reaped.gone
        /\ UNCHANGED <<managed, st, noisy, hint, removed, joins>>
    BY <1>10, <2>4 DEF EndSession
  <2> HIDE DEF b
  <2>7. /\ AppOK(reaped.app) /\ reaped.app.snap = b.snap /\ Owned(reaped.app) \subseteq Owned(b)
        /\ Owned(b) \cap ToSet(b.snap) \subseteq Owned(reaped.app) \cup reaped.gone
    BY <2>5, ReapOK
  <2> HIDE DEF reaped
  <2>8. Keeps(reaped.app, app') /\ ScreenOK(app')
    BY <2>6, <2>7, UpdateKeeps
  <2>9. /\ AppOK(app') /\ app'.snap = app.snap /\ Owned(app') \subseteq Owned(app)
        /\ Owned(app) \cap ToSet(app.snap) \subseteq Owned(app') \cup removing'
    BY <2>5, <2>6, <2>7, <2>8 DEF Keeps
  <2>10. ToSet(managed) \subseteq Owned(app') \cup removing' /\ removing \subseteq removing'
    BY <1>1, <2>6, <2>9
  <2> QED
    BY <1>1, <2>6, <2>8, <2>9, <2>10 DEF PanesInv
<1>11. CASE FleetUpdated
  <2> DEFINE fresh == SnapshotFleet(app, managed, st)
             reaped == Reap(fresh)
             b == RefreshFilter(reaped.app)
             c == FollowFocus(b)
  <2>1. AppOK(fresh) /\ fresh.snap = managed /\ Owned(fresh) = Owned(app)
    BY <1>1, SnapshotOK
  <2>2. fresh.states = [h \in ToSet(managed) |-> st[h]]
    <3>1. DOMAIN app = AppFields
      BY <1>1 DEF AppOK
    <3> QED
      BY <3>1 DEF SnapshotFleet, AppFields
  <2>3. /\ app' = Update(c) /\ removing' = removing \cup reaped.gone
        /\ UNCHANGED <<managed, st, noisy, removed, joins>>
    BY <1>11 DEF FleetUpdated
  <2> HIDE DEF fresh
  <2>4. /\ AppOK(reaped.app) /\ reaped.app.snap = fresh.snap /\ Owned(reaped.app) \subseteq Owned(fresh)
        /\ Owned(fresh) \cap ToSet(fresh.snap) \subseteq Owned(reaped.app) \cup reaped.gone
        /\ \A h \in ToSet(fresh.snap) : StateOf(fresh, h) = "closed" => h \in reaped.gone
    BY <2>1, ReapOK
  <2>5. \A h \in ToSet(managed) : StateOf(fresh, h) = st[h]
    BY <2>1, <2>2 DEF StateOf
  <2> HIDE DEF reaped
  <2>6. Keeps(reaped.app, b)
    BY <2>4, RefreshFilterKeeps
  <2> HIDE DEF b
  <2>7. Keeps(reaped.app, c)
    BY <2>6, ThenFollows
  <2> HIDE DEF c
  <2>8. Keeps(c, app') /\ ScreenOK(app')
    BY <2>3, <2>7, UpdateKeeps DEF Keeps
  <2>9. /\ AppOK(app') /\ app'.snap = managed /\ Owned(app') \subseteq Owned(app)
        /\ Owned(app) \cap ToSet(managed) \subseteq Owned(app') \cup removing'
    BY <2>1, <2>3, <2>4, <2>7, <2>8 DEF Keeps
  <2>10. \A h \in ToSet(managed) : st[h] = "closed" => h \in removing'
    BY <2>1, <2>3, <2>4, <2>5
  <2>11. ToSet(managed) \subseteq Owned(app') \cup removing'
    BY <1>1, <2>3, <2>9
  <2> QED
    BY <1>1, <2>3, <2>8, <2>9, <2>10, <2>11 DEF PanesInv
<1> QED
  BY <1>2, <1>3, <1>4, <1>5, <1>6, <1>7, <1>8, <1>9, <1>10, <1>11 DEF Lifecycle

(* The invariant is kept by every step, and by stuttering.                 *)
LEMMA NextPanesInv ==
  ASSUME PanesInv, [PanesNext]_panesVars
  PROVE  PanesInv'
<1>1. CASE UNCHANGED panesVars
  BY <1>1 DEF panesVars, PanesInv
<1> QED
  BY <1>1, ViewKeepsInv, LifecycleKeepsInv DEF PanesNext

(* Sessions come and go without moving the main area.                      *)
LEMMA AreaStays ==
  ASSUME NEW a, {"main", "term"} \subseteq DOMAIN a
  PROVE  AdoptNewHosts(a).main = a.main /\ AdoptNewHosts(a).term = a.term
<1>1. ASSUME NEW b, {"main", "term"} \subseteq DOMAIN b, NEW i, NEW members
      PROVE  /\ {"main", "term"} \subseteq DOMAIN SetHosts(b, i, members)
             /\ SetHosts(b, i, members).main = b.main /\ SetHosts(b, i, members).term = b.term
  BY <1>1 DEF SetHosts
<1>2. ASSUME NEW b, {"main", "term"} \subseteq DOMAIN b, NEW i
      PROVE  ForegroundSession(b, i).main = b.main /\ ForegroundSession(b, i).term = b.term
  <2> DEFINE c == Compacted(b, i)
             d == [c EXCEPT !.active = i, !.page = 0, !.pane = 0, !.screen = "normal"]
  <2>1. {"main", "term"} \subseteq DOMAIN c /\ c.main = b.main /\ c.term = b.term
    BY <1>1, <1>2 DEF Compacted
  <2>2. ForegroundSession(b, i) = ResetGridSlots(d)
    BY DEF ForegroundSession
  <2> HIDE DEF c
  <2>3. {"main", "term"} \subseteq DOMAIN d /\ d.main = b.main /\ d.term = b.term
    BY <2>1
  <2> HIDE DEF d
  <2> QED
    BY <2>2, <2>3 DEF ResetGridSlots
<1>3. ASSUME NEW name, NEW members
      PROVE  OpenSessionAt(a, name, members).main = a.main /\ OpenSessionAt(a, name, members).term = a.term
  <2> DEFINE new == [name |-> name, hosts |-> members, sawClose |-> FALSE, ending |-> FALSE]
             b == [a EXCEPT !.open = Append(@, new)]
             same == {i \in DOMAIN a.open : a.open[i].name = name}
             j == CHOOSE x \in same : TRUE
             joined == a.open[j].hosts \o Only(members, ToSet(members) \ ToSet(a.open[j].hosts))
             c == SetHosts(a, j, joined)
  <2>1. OpenSessionAt(a, name, members) \in {ForegroundSession(c, j), ForegroundSession(b, Len(a.open) + 1)}
    BY DEF OpenSessionAt
  <2>2. {"main", "term"} \subseteq DOMAIN b /\ b.main = a.main /\ b.term = a.term
    OBVIOUS
  <2> HIDE DEF b, j, joined
  <2>3. {"main", "term"} \subseteq DOMAIN c /\ c.main = a.main /\ c.term = a.term
    <3>1. \A i, m : /\ {"main", "term"} \subseteq DOMAIN SetHosts(a, i, m)
                     /\ SetHosts(a, i, m).main = a.main /\ SetHosts(a, i, m).term = a.term
      BY <1>1
    <3> QED
      BY <3>1
  <2> HIDE DEF c
  <2> QED
    BY <1>2, <2>1, <2>2, <2>3
<1>4. \/ AdoptNewHosts(a) = a
      \/ \E i, members : AdoptNewHosts(a) = SetHosts(a, i, members)
      \/ \E name, members : AdoptNewHosts(a) = OpenSessionAt(a, name, members)
  BY DEF AdoptNewHosts
<1> QED
  BY <1>1, <1>3, <1>4

(* The hosts of the command line open one session; nothing is sized yet.   *)
LEMMA InitPanesInv ==
  ASSUME PanesInit
  PROVE  PanesInv
<1> DEFINE blank == [snap |-> <<>>, states |-> st, open |-> <<>>, active |-> 0, page |-> 0, pane |-> 0,
                     kept |-> 0, term |-> <<0, 0>>, main |-> NoArea,
                     screen |-> "normal", focus |-> "sidebar", split |-> 0, chunk |-> 0,
                     filter |-> "", match |-> {}, had |-> FALSE, limit |-> NoLimit]
           b == SnapshotFleet(blank, managed, st)
           c == AdoptNewHosts(b)
           d == SyncLimit(c)
<1>1. managed = Start /\ managed \in Seq(PaneHost) /\ IsInjective(managed)
  BY StartAssumption DEF PanesInit
<1>2. app = KeepGridSlots(d)
  BY DEF PanesInit, NewApp, NoArea
<1>3. /\ DOMAIN blank = AppFields /\ blank.snap = <<>> /\ blank.open = <<>> /\ blank.active = 0
      /\ blank.split = 0 /\ blank.chunk = 0 /\ blank.kept = 0 /\ blank.term = <<0, 0>>
      /\ blank.main = NoArea /\ blank.page = 0 /\ blank.pane = 0
  BY DEF AppFields
<1>4. AreaOK(NoArea)
  BY DEF AreaOK, NoArea
<1> HIDE DEF blank
<1>5. AppOK(blank)
  <2>1. SessionsOK(blank.open)
    BY <1>3 DEF SessionsOK, NamesApart
  <2>2. IsInjective(blank.snap) /\ blank.snap \in Seq(PaneHost)
    BY <1>3 DEF IsInjective
  <2>3. blank.active \in 0 .. Len(blank.open)
    BY <1>3
  <2> QED
    BY <1>3, <1>4, <2>1, <2>2, <2>3 DEF AppOK
<1>6. Owned(blank) = {}
  BY <1>3 DEF Owned
<1>7. AppOK(b) /\ b.snap = managed /\ Owned(b) = Owned(blank)
  BY <1>1, <1>5, SnapshotOK
<1> HIDE DEF b
<1>8. AppOK(c) /\ c.snap = b.snap /\ Owned(c) = Owned(b) \cup ToSet(b.snap)
  BY <1>7, AdoptOK
<1>9. b.main = NoArea /\ b.term = <<0, 0>> /\ {"main", "term"} \subseteq DOMAIN b
  BY <1>3, <1>7 DEF b, SnapshotFleet, AppFields, AppOK
<1>10. c.main = NoArea /\ c.term = <<0, 0>>
  BY <1>9, AreaStays
<1> HIDE DEF c
<1>11. Keeps(c, d) /\ AppOK(d)
  <2>1. Keeps(c, d)
    BY <1>8, SyncLimitShows
  <2> QED
    BY <2>1 DEF Keeps
<1>12. d.main = NoArea /\ d.term = <<0, 0>>
  BY <1>8, <1>10 DEF SyncLimit, AppOK, AppFields
<1> HIDE DEF d
<1>13. Keeps(d, app)
  BY <1>2, <1>11, SlotsKeep
<1>14. app.main = NoArea /\ app.term = <<0, 0>>
  BY <1>2, <1>11, <1>12 DEF KeepGridSlots, AppOK, AppFields
<1>15. ScreenOK(app)
  BY <1>14 DEF ScreenOK, LimitShown, LaidOut, MainArea, NoArea
<1>16. AppOK(app) /\ app.snap = managed /\ Owned(app) = ToSet(managed)
  BY <1>6, <1>7, <1>8, <1>11, <1>13 DEF Keeps
<1>17. \A h \in ToSet(managed) : st[h] # "closed"
  BY DEF PanesInit, PaneHost
<1>18. DOMAIN st = PaneHost
  BY DEF PanesInit
<1> QED
  BY <1>1, <1>15, <1>16, <1>17, <1>18 DEF PanesInv

(* The invariant holds in every state.                                     *)
LEMMA PanesInvInductive == PanesSpec => []PanesInv
<1>1. PanesInit => PanesInv
  BY InitPanesInv
<1>2. PanesInv /\ [PanesNext]_panesVars => PanesInv'
  BY NextPanesInv
<1> QED
  BY <1>1, <1>2, PTL DEF PanesSpec

(* When nothing is under way the open sessions hold exactly the hosts of   *)
(* the run, none that logged out is left and no session is empty; and no   *)
(* host is ever at two places of a session, but one that the group of the  *)
(* session's name lists twice.  (openSessionAt, pruneSessions,             *)
(* adoptNewHosts and reapSessions, in whatever order the messages come.)   *)
THEOREM SessionsSettle == PanesSpec => []Settled
<1>1. PanesInv => Settled
  <2> SUFFICES ASSUME PanesInv PROVE Settled
    OBVIOUS
  <2>1. ASSUME NEW i \in DOMAIN app.open
        PROVE  NoTwins(app.open[i].hosts, Doubles(app.open[i].name)) /\ Real(app.open[i].hosts) # {}
    BY DEF PanesInv, AppOK, SessionsOK
  <2>2. Quiet => ToSet(managed) = Owned(app) /\ \A h \in ToSet(managed) : st[h] # "closed"
    BY DEF PanesInv, Quiet
  <2> QED
    BY <2>1, <2>2 DEF Settled
<1> QED
  BY <1>1, PanesInvInductive, PTL

(* A broadcast never reaches past the page the user sees, whatever moved   *)
(* the page: a key, a resize, a host that left or joined.                  *)
(* (syncBroadcastLimit at the end of every message.)                       *)
THEOREM LimitStaysOnScreen == PanesSpec => []LimitIsOnScreen
<1>1. PanesInv => LimitIsOnScreen
  BY DEF PanesInv, ScreenOK, LimitShown, LimitIsOnScreen, Sized
<1> QED
  BY <1>1, PanesInvInductive, PTL

-----------------------------------------------------------------------------
(* The parts of a split are inside it, and one ends before the next        *)
(* begins.                                                                 *)
LEMMA PartsInOrder ==
  ASSUME NEW n \in Nat \ {0}, NEW total \in Nat, n <= total, NEW i \in 0 .. n - 1
  PROVE  /\ PartStart(total, n, i) \in Nat /\ PartSize(total, n, i) \in Nat \ {0}
         /\ PartStart(total, n, i) + PartSize(total, n, i) <= total
         /\ \A j \in 0 .. n - 1 :
              i < j => PartStart(total, n, i) + PartSize(total, n, i) <= PartStart(total, n, j)
<1> DEFINE q == total \div n
           m == total % n
           start(k) == k * q + Least(k, m)
<1>1. q \in Nat /\ m \in 0 .. n - 1 /\ total = n * q + m
  BY Z3
<1>2. q >= 1
  <2> SUFFICES ASSUME q = 0 PROVE FALSE
    BY <1>1
  <2>1. n * q = 0
    BY <1>1
  <2> QED
    BY <1>1, <2>1
<1>3. /\ PartStart(total, n, i) = start(i) /\ \A j \in 0 .. n - 1 : PartStart(total, n, j) = start(j)
      /\ PartSize(total, n, i) = q + (IF i < m THEN 1 ELSE 0)
  BY DEF PartStart, PartSize
<1> HIDE DEF q, m
<1>4. \A k \in 0 .. n : k * q \in Nat /\ start(k) \in Nat
  BY <1>1, Z3 DEF Least
<1>5. start(i) + PartSize(total, n, i) = start(i + 1)
  <2>1. (i + 1) * q = i * q + q
    BY <1>1, Z3
  <2> QED
    BY <1>1, <1>3, <1>4, <2>1 DEF Least
<1>6. ASSUME NEW k \in 0 .. n, NEW l \in 0 .. n, k <= l PROVE start(k) <= start(l)
  <2>1. k * q <= l * q
    BY <1>1, <1>6, Z3
  <2> QED
    BY <1>1, <1>4, <1>6, <2>1 DEF Least
<1>7. start(n) = total
  BY <1>1 DEF Least
<1>8. PartSize(total, n, i) \in Nat \ {0}
  BY <1>1, <1>2, <1>3
<1>9. i + 1 \in 0 .. n /\ start(i + 1) <= start(n)
  BY <1>6
<1>10. ASSUME NEW j \in 0 .. n - 1, i < j PROVE start(i + 1) <= start(j)
  <2>1. i + 1 <= j /\ j \in 0 .. n /\ i + 1 \in 0 .. n
    BY <1>10
  <2> QED
    BY <1>6, <2>1
<1> HIDE DEF start
<1> QED
  BY <1>3, <1>4, <1>5, <1>7, <1>8, <1>9, <1>10

(* A point in two parts is in one part.                                    *)
LEMMA PartsApart ==
  ASSUME NEW n \in Nat \ {0}, NEW total \in Nat, n <= total,
         NEW i \in 0 .. n - 1, NEW j \in 0 .. n - 1, NEW x \in Int,
         x >= PartStart(total, n, i), x < PartStart(total, n, i) + PartSize(total, n, i),
         x >= PartStart(total, n, j), x < PartStart(total, n, j) + PartSize(total, n, j)
  PROVE  i = j
<1>1. i < j => PartStart(total, n, i) + PartSize(total, n, i) <= PartStart(total, n, j)
  BY PartsInOrder
<1>2. j < i => PartStart(total, n, j) + PartSize(total, n, j) <= PartStart(total, n, i)
  BY PartsInOrder
<1>3. /\ PartStart(total, n, i) \in Nat /\ PartSize(total, n, i) \in Nat
      /\ PartStart(total, n, j) \in Nat /\ PartSize(total, n, j) \in Nat
  BY PartsInOrder
<1> QED
  BY <1>1, <1>2, <1>3

(* The row and the column of a slot, and back.                             *)
LEMMA SlotPlace ==
  ASSUME NEW columns \in Nat \ {0}, NEW rows \in Nat, NEW s \in Nat, s < columns * rows,
         NEW q \in Nat, NEW m \in 0 .. columns - 1, s = columns * q + m
  PROVE  q \in 0 .. rows - 1 /\ s = q * columns + m
<1>1. q \in Nat /\ m \in 0 .. columns - 1 /\ s = columns * q + m
  OBVIOUS
<1>2. columns * q = q * columns
  BY <1>1, Z3
<1>3. q < rows
  <2> SUFFICES ASSUME q >= rows PROVE FALSE
    BY <1>1
  <2>1. columns * q >= columns * rows
    BY <1>1, Z3
  <2>2. columns * q \in Int /\ columns * rows \in Int
    BY <1>1
  <2> QED
    BY <1>1, <2>1, <2>2
<1> QED
  BY <1>1, <1>2, <1>3

(* The cells of a page are inside its area, and no two share a point.      *)
LEMMA CellsApart ==
  ASSUME NEW area \in [x : Int, y : Int, w : Int, h : Int], NEW g, NEW count, TilesFit(area, g, count),
         NEW s \in 0 .. g.perPage - 1
  PROVE  /\ \A p \in Corners(Cell(area, g, s)) :
              p \in Int \X Int /\ Inside(Cell(area, g, s), p[1], p[2]) /\ Inside(area, p[1], p[2])
         /\ \A t \in 0 .. g.perPage - 1, x \in Int, y \in Int :
              Inside(Cell(area, g, s), x, y) /\ Inside(Cell(area, g, t), x, y) => t = s
<1>1. /\ g.columns \in Nat \ {0} /\ g.rows \in Nat \ {0} /\ g.perPage \in Nat
      /\ g.columns <= area.w /\ g.rows <= area.h /\ g.perPage <= g.columns * g.rows
      /\ area.x \in Int /\ area.y \in Int
  BY DEF TilesFit
<1>2. area.w \in Nat /\ area.h \in Nat
  BY <1>1
<1> DEFINE columns == g.columns
           rows == g.rows
           col(t) == t % columns
           row(t) == t \div columns
           left(c) == PartStart(area.w, columns, c)
           width(c) == PartSize(area.w, columns, c)
           top(r) == PartStart(area.h, rows, r)
           height(r) == PartSize(area.h, rows, r)
<1>3. ASSUME NEW t \in 0 .. g.perPage - 1
      PROVE  /\ col(t) \in 0 .. columns - 1 /\ row(t) \in 0 .. rows - 1
             /\ t = row(t) * columns + col(t)
  <2>1. columns * rows \in Int
    BY <1>1
  <2>2. t \in Nat /\ t < columns * rows
    BY <1>1, <2>1
  <2>3. row(t) \in Nat /\ col(t) \in 0 .. columns - 1 /\ t = columns * row(t) + col(t)
    <3>1. t \in Nat /\ columns \in Nat \ {0}
      BY <1>1, <2>2
    <3> HIDE DEF columns
    <3> QED
      BY <3>1, Z3
  <2>4. columns \in Nat \ {0} /\ rows \in Nat
    BY <1>1
  <2> HIDE DEF col, row, columns, rows
  <2> QED
    BY <2>2, <2>3, <2>4, SlotPlace
<1>4. \A t : Cell(area, g, t) =
        [x |-> area.x + left(col(t)), w |-> width(col(t)),
         y |-> area.y + top(row(t)), h |-> height(row(t))]
  BY DEF Cell, col, row
<1>5. \A c \in 0 .. columns - 1 : left(c) \in Nat /\ width(c) \in Nat \ {0} /\ left(c) + width(c) <= area.w
  BY <1>1, <1>2, PartsInOrder
<1>6. \A r \in 0 .. rows - 1 : top(r) \in Nat /\ height(r) \in Nat \ {0} /\ top(r) + height(r) <= area.h
  BY <1>1, <1>2, PartsInOrder
<1>7. ASSUME NEW c \in 0 .. columns - 1, NEW d \in 0 .. columns - 1, NEW x \in Int,
             x >= area.x + left(c), x < area.x + left(c) + width(c),
             x >= area.x + left(d), x < area.x + left(d) + width(d)
      PROVE  c = d
  <2>1. x - area.x \in Int
    BY <1>1
  <2>2. /\ x - area.x >= left(c) /\ x - area.x < left(c) + width(c)
        /\ x - area.x >= left(d) /\ x - area.x < left(d) + width(d)
    BY <1>1, <1>5, <1>7
  <2> QED
    BY <1>1, <1>2, <2>1, <2>2, PartsApart
<1>8. ASSUME NEW c \in 0 .. rows - 1, NEW d \in 0 .. rows - 1, NEW y \in Int,
             y >= area.y + top(c), y < area.y + top(c) + height(c),
             y >= area.y + top(d), y < area.y + top(d) + height(d)
      PROVE  c = d
  <2>1. y - area.y \in Int
    BY <1>1
  <2>2. /\ y - area.y >= top(c) /\ y - area.y < top(c) + height(c)
        /\ y - area.y >= top(d) /\ y - area.y < top(d) + height(d)
    BY <1>1, <1>6, <1>8
  <2> QED
    BY <1>1, <1>2, <2>1, <2>2, PartsApart
<1> HIDE DEF col, row, columns, rows, left, width, top, height
<1>9. ASSUME NEW p \in Corners(Cell(area, g, s))
      PROVE  p \in Int \X Int /\ Inside(Cell(area, g, s), p[1], p[2]) /\ Inside(area, p[1], p[2])
  <2> DEFINE c == col(s)
             r == row(s)
             cell == Cell(area, g, s)
  <2>1. c \in 0 .. columns - 1 /\ r \in 0 .. rows - 1
    BY <1>3
  <2>2. /\ cell.x = area.x + left(c) /\ cell.w = width(c)
        /\ cell.y = area.y + top(r) /\ cell.h = height(r)
    BY <1>4
  <2> HIDE DEF c, r, cell
  <2>3. /\ left(c) \in Nat /\ width(c) \in Nat \ {0} /\ left(c) + width(c) <= area.w
        /\ top(r) \in Nat /\ height(r) \in Nat \ {0} /\ top(r) + height(r) <= area.h
    BY <1>5, <1>6, <2>1
  <2>4. p \in {cell.x, cell.x + cell.w - 1} \X {cell.y, cell.y + cell.h - 1}
    BY <1>9 DEF Corners, cell
  <2>5. /\ p[1] \in {cell.x, cell.x + cell.w - 1} /\ p[2] \in {cell.y, cell.y + cell.h - 1}
        /\ p = <<p[1], p[2]>>
    BY <2>4
  <2> DEFINE x == p[1]
             y == p[2]
  <2>6. x \in {cell.x, cell.x + cell.w - 1} /\ y \in {cell.y, cell.y + cell.h - 1} /\ p = <<x, y>>
    BY <2>5
  <2> HIDE DEF x, y
  <2>7. /\ x \in Int /\ x >= cell.x /\ x < cell.x + cell.w
        /\ y \in Int /\ y >= cell.y /\ y < cell.y + cell.h
    BY <1>1, <2>2, <2>3, <2>6
  <2>8. Inside(cell, x, y) /\ Inside(area, x, y)
    BY <1>1, <1>2, <2>2, <2>3, <2>7 DEF Inside
  <2> QED
    BY <2>6, <2>7, <2>8 DEF x, y, cell
<1>10. ASSUME NEW t \in 0 .. g.perPage - 1, NEW x \in Int, NEW y \in Int,
              Inside(Cell(area, g, s), x, y), Inside(Cell(area, g, t), x, y)
       PROVE  t = s
  <2>1. col(s) = col(t)
    <3>1. /\ x >= area.x + left(col(s)) /\ x < area.x + left(col(s)) + width(col(s))
          /\ x >= area.x + left(col(t)) /\ x < area.x + left(col(t)) + width(col(t))
      BY <1>4, <1>10 DEF Inside
    <3> QED
      BY <1>3, <1>7, <3>1
  <2>2. row(s) = row(t)
    <3>1. /\ y >= area.y + top(row(s)) /\ y < area.y + top(row(s)) + height(row(s))
          /\ y >= area.y + top(row(t)) /\ y < area.y + top(row(t)) + height(row(t))
      BY <1>4, <1>10 DEF Inside
    <3> QED
      BY <1>3, <1>8, <3>1
  <2>3. s = row(s) * columns + col(s) /\ t = row(t) * columns + col(t)
    BY <1>3
  <2> QED
    BY <2>1, <2>2, <2>3
<1> QED
  BY <1>9, <1>10

(* What the page shows are hosts of the list, from its first place on.     *)
LEMMA WindowIsPart ==
  ASSUME NEW a, AppOK(a), NEW first, first = ClampedPage(a, Grid(a)) * Grid(a).perPage
  PROVE  /\ first \in Nat /\ Len(WindowHosts(a)) \in Nat
         /\ WindowHosts(a) \in Seq(NoLimit)
         /\ \A s \in 0 .. Len(WindowHosts(a)) - 1 :
              /\ s < Grid(a).perPage /\ first + s < Len(HostIDs(a))
              /\ WindowHosts(a)[s + 1] = HostIDs(a)[first + s + 1]
         /\ \A i \in DOMAIN HostIDs(a) :
              first < i /\ i <= first + Grid(a).perPage =>
                i - first \in DOMAIN WindowHosts(a) /\ WindowHosts(a)[i - first] = HostIDs(a)[i]
<1> DEFINE ids == HostIDs(a)
           perPage == Grid(a).perPage
           pages == Grid(a).pages
           page == ClampedPage(a, Grid(a))
           last == Least(first + perPage, Len(ids))
<1>1. ids \in Seq(NoLimit) /\ Len(ids) \in Nat /\ perPage \in Nat /\ pages \in Nat /\ a.page \in Int
  <2>1. a.page \in Int
    BY DEF AppOK
  <2> QED
    BY <2>1, HostIDsTyped, GridTyped
<1>2. page = IF pages = 0 THEN 0 ELSE Clamp(a.page, 0, pages - 1)
  BY DEF ClampedPage
<1>3. WindowHosts(a) = SubSeq(ids, first + 1, last)
  BY DEF WindowHosts, OnPage, Part
<1>4. first = page * perPage
  OBVIOUS
<1> HIDE DEF ids, perPage, pages, page
<1>5. page \in Nat
  BY <1>1, <1>2 DEF Clamp
<1>6. first \in Nat
  BY <1>1, <1>4, <1>5, Z3
<1>7. last \in Nat /\ last <= Len(ids) /\ last <= first + perPage /\ (last = Len(ids) \/ last = first + perPage)
  BY <1>1, <1>6 DEF Least
<1> HIDE DEF last
<1> DEFINE part == SubSeq(ids, first + 1, last)
<1>8. /\ part \in Seq(NoLimit) /\ Len(part) = IF first + 1 <= last THEN last - first ELSE 0
      /\ \A k \in 1 .. last - first : part[k] = ids[first + k]
  <2>1. /\ part \in Seq(NoLimit) /\ Len(part) = IF first + 1 <= last THEN last - first ELSE 0
        /\ \A k \in 1 .. last - (first + 1) + 1 : part[k] = ids[first + 1 + k - 1]
    <3>1. \A k \in first + 1 .. last : ids[k] \in NoLimit
      BY <1>1, <1>6, <1>7
    <3>2. first + 1 \in Int /\ last \in Int
      BY <1>6, <1>7
    <3>3. /\ part \in Seq(NoLimit) /\ Len(part) = IF first + 1 <= last THEN last - (first + 1) + 1 ELSE 0
          /\ \A k \in 1 .. last - (first + 1) + 1 : part[k] = ids[first + 1 + k - 1]
      BY <3>1, <3>2, SubSeqProperties
    <3> HIDE DEF part
    <3> QED
      BY <1>6, <1>7, <3>3
  <2> HIDE DEF part
  <2>2. ASSUME NEW k \in 1 .. last - first PROVE part[k] = ids[first + k]
    <3>1. k \in 1 .. last - (first + 1) + 1 /\ first + 1 + k - 1 = first + k
      BY <1>6, <1>7
    <3> QED
      BY <2>1, <3>1
  <2> QED
    BY <2>1, <2>2
<1> HIDE DEF part
<1>12. Len(part) \in Nat
  BY <1>6, <1>7, <1>8
<1>9. ASSUME NEW s \in 0 .. Len(part) - 1
      PROVE  s < perPage /\ first + s < Len(ids) /\ part[s + 1] = ids[first + s + 1]
  <2>1. s + 1 \in 1 .. last - first /\ s < perPage /\ first + s < Len(ids) /\ first + (s + 1) = first + s + 1
    <3>1. s \in Int /\ 0 <= s /\ s < Len(part) /\ Len(part) = IF first + 1 <= last THEN last - first ELSE 0
      BY <1>8, <1>12
    <3>2. s < last - first /\ s + 1 \in Int /\ last - first \in Int
      BY <1>6, <1>7, <3>1
    <3>3. s + 1 \in 1 .. last - first
      BY <3>1, <3>2
    <3>4. first + s < last
      BY <1>6, <1>7, <3>1, <3>2
    <3>5. s < perPage
      <4>1. last - first <= perPage
        BY <1>1, <1>6, <1>7
      <4> QED
        BY <1>1, <3>1, <3>2, <4>1
    <3>6. first + s < Len(ids)
      BY <1>1, <1>6, <1>7, <3>1, <3>4, SMTT(30)
    <3> QED
      BY <1>6, <3>1, <3>3, <3>5, <3>6, SMTT(30)
  <2> QED
    BY <1>8, <2>1
<1>10. ASSUME NEW i \in DOMAIN ids, first < i, i <= first + perPage
       PROVE  i - first \in DOMAIN part /\ part[i - first] = ids[i]
  <2>1. i \in 1 .. Len(ids) /\ DOMAIN part = 1 .. Len(part)
    BY <1>1, <1>8
  <2>2. i <= last /\ i - first \in 1 .. last - first /\ Len(part) = last - first /\ first + (i - first) = i
    <3>1. i \in Nat /\ i <= Len(ids)
      BY <1>1, <2>1
    <3>2. i <= last
      BY <1>1, <1>6, <1>7, <1>10, <3>1
    <3> QED
      BY <1>6, <1>7, <1>8, <1>10, <3>1, <3>2
  <2> QED
    BY <1>8, <2>1, <2>2
<1>11. WindowHosts(a) = part
  BY <1>3 DEF part
<1> QED
  BY <1>6, <1>8, <1>9, <1>10, <1>11, <1>12 DEF ids, perPage

(* Every corner of a pane that is drawn is inside the main area, and       *)
(* belongs to that pane when it is clicked, in every size of terminal and  *)
(* for every number of hosts.  (TileGrid, cells and paneAt.)               *)
THEOREM ClicksHit == PanesSpec => []ClicksFindTheirPane
<1>1. ASSUME PanesInv PROVE ClicksFindTheirPane
  <2> DEFINE g == Grid(app)
             area == GridArea(app)
             first == ClampedPage(app, g) * g.perPage
  <2> SUFFICES ASSUME Sized, app.screen # "full",
                      NEW s \in 0 .. Len(WindowHosts(app)) - 1, NEW p \in Corners(Cell(area, g, s))
               PROVE  Inside(app.main, p[1], p[2]) /\ PaneAt(app, g, area, p[1], p[2]) = first + s
    BY DEF ClicksFindTheirPane
  <2>1. AppOK(app)
    BY <1>1 DEF PanesInv
  <2>2. /\ first \in Nat /\ Len(WindowHosts(app)) \in Nat
        /\ s < g.perPage /\ first + s < Len(HostIDs(app))
    BY <2>1, WindowIsPart
  <2>3. Len(HostIDs(app)) \in Nat
    BY <2>1, HostIDsTyped
  <2>4. HostIDs(app) # <<>>
    BY <2>2, <2>3
  <2>5. /\ TilesFit(area, g, GridSlots(app)) /\ area \in [x : Int, y : Int, w : Int, h : Int]
        /\ area.x = app.main.x /\ area.y = app.main.y /\ area.w = app.main.w /\ area.h <= app.main.h
    BY <2>1, <2>4, GridFits DEF Sized
  <2>6. g.perPage \in Nat /\ s \in 0 .. g.perPage - 1
    BY <2>1, <2>2, GridTyped
  <2>7. app.main.y \in Int /\ app.main.h \in Int /\ area.h \in Int
    BY <2>1, <2>5 DEF AppOK, AreaOK
  <2> HIDE DEF g, area
  <2>8. /\ p \in Int \X Int /\ Inside(Cell(area, g, s), p[1], p[2]) /\ Inside(area, p[1], p[2])
        /\ \A t \in 0 .. g.perPage - 1, x \in Int, y \in Int :
             Inside(Cell(area, g, s), x, y) /\ Inside(Cell(area, g, t), x, y) => t = s
    BY <2>5, <2>6, CellsApart
  <2> DEFINE x == p[1]
             y == p[2]
             hit == {t \in 0 .. g.perPage - 1 : Inside(Cell(area, g, t), x, y)}
             chosen == CHOOSE t \in hit : \A u \in hit : t <= u
  <2>9. x \in Int /\ y \in Int /\ Inside(Cell(area, g, s), x, y) /\ Inside(area, x, y)
    BY <2>8
  <2>10. PaneAt(app, g, area, x, y) =
           IF hit = {} \/ ClampedPage(app, g) * g.perPage + chosen >= Len(HostIDs(app)) THEN -1
           ELSE ClampedPage(app, g) * g.perPage + chosen
    BY DEF PaneAt
  <2> HIDE DEF x, y
  <2>11. hit = {s}
    BY <2>6, <2>8, <2>9
  <2> HIDE DEF hit
  <2>12. chosen = s
    BY <2>6, <2>11
  <2> HIDE DEF chosen
  <2>13. PaneAt(app, g, area, x, y) = first + s
    <3>1. ~(first + s >= Len(HostIDs(app)))
      BY <2>2, <2>3, <2>6
    <3> QED
      BY <2>10, <2>11, <2>12, <3>1
  <2>14. Inside(app.main, x, y)
    BY <2>5, <2>7, <2>9 DEF Inside
  <2> QED
    BY <2>13, <2>14 DEF x, y
<1> QED
  BY <1>1, PanesInvInductive, PTL

-----------------------------------------------------------------------------
(* What a method leaves alone.                                             *)
Same(a, b, fields) == DOMAIN b = AppFields /\ \A f \in fields : b[f] = a[f]

(* What is read to say which hosts are shown, and how they are tiled.      *)
ListFields == {"snap", "open", "active", "split", "chunk", "filter", "match"}
GridFields == ListFields \cup {"kept", "main", "screen", "focus"}

LEMMA ListUnread ==
  ASSUME NEW a, NEW b, \A f \in ListFields : b[f] = a[f]
  PROVE  /\ SessionHosts(b) = SessionHosts(a) /\ FilteredHosts(b) = FilteredHosts(a)
         /\ SplitChunks(b) = SplitChunks(a) /\ HostIDs(b) = HostIDs(a)
<1>1. /\ b.snap = a.snap /\ b.open = a.open /\ b.active = a.active /\ b.split = a.split
      /\ b.chunk = a.chunk /\ b.filter = a.filter /\ b.match = a.match
  BY DEF ListFields
<1>2. SessionHosts(b) = SessionHosts(a)
  BY <1>1 DEF SessionHosts
<1>3. FilteredHosts(b) = FilteredHosts(a)
  BY <1>1, <1>2 DEF FilteredHosts
<1>4. SplitChunks(b) = SplitChunks(a)
  BY <1>1, <1>3 DEF SplitChunks
<1>5. HostIDs(b) = HostIDs(a)
  BY <1>1, <1>3, <1>4 DEF HostIDs
<1> QED
  BY <1>2, <1>3, <1>4, <1>5

LEMMA GridUnread ==
  ASSUME NEW a, NEW b, \A f \in GridFields : b[f] = a[f]
  PROVE  Grid(b) = Grid(a)
<1>1. \A f \in ListFields : b[f] = a[f]
  BY DEF GridFields
<1>2. /\ SessionHosts(b) = SessionHosts(a) /\ FilteredHosts(b) = FilteredHosts(a)
      /\ SplitChunks(b) = SplitChunks(a) /\ HostIDs(b) = HostIDs(a)
  BY <1>1, ListUnread
<1>3. /\ b.open = a.open /\ b.kept = a.kept /\ b.main = a.main /\ b.screen = a.screen
      /\ b.focus = a.focus /\ b.filter = a.filter
  BY DEF GridFields, ListFields
<1>4. GridSlots(b) = GridSlots(a) /\ PaneCap(b) = PaneCap(a)
  BY <1>2, <1>3 DEF GridSlots, PaneCap
<1>5. WholeGrid(b) = WholeGrid(a)
  BY <1>3, <1>4 DEF WholeGrid
<1>6. Footer(b, WholeGrid(b)) = Footer(a, WholeGrid(a))
  BY <1>2, <1>3, <1>5 DEF Footer
<1> QED
  BY <1>3, <1>4, <1>5, <1>6 DEF Grid, GridBeside

(* The fields each method writes.                                          *)
LEMMA FieldsKept ==
  ASSUME NEW a, DOMAIN a = AppFields
  PROVE  /\ \A ids : Same(a, WithHosts(a, ids), AppFields \ {"pane"})
         /\ \A ids, states :
              /\ Same(a, SnapshotFleet(a, ids, states), AppFields \ {"snap", "states", "had"})
              /\ SnapshotFleet(a, ids, states).snap = ids
         /\ \A name : Same(a, KeepActive(a, name), AppFields \ {"active"})
         /\ \A i, members : Same(a, SetHosts(a, i, members), AppFields \ {"open"})
         /\ Same(a, KeepGridSlots(a), AppFields \ {"kept"})
         /\ Same(a, ResetGridSlots(a), AppFields \ {"kept"})
         /\ Same(a, SyncFilterMatches(a), AppFields \ {"match"})
         /\ Same(a, SyncLimit(a), AppFields \ {"limit"})
         /\ \A host : /\ Same(a, Refocus(a, host), AppFields \ {"pane"})
                      /\ Refocus(a, host).pane = PaneFor(HostIDs(a), a.pane, host)
         /\ Same(a, FollowFocus(a), AppFields \ {"page"})
         /\ FollowFocus(a).page = PageOf(a.page, a.pane, Grid(a).perPage)
<1>1. \A ids : Same(a, WithHosts(a, ids), AppFields \ {"pane"})
  BY DEF Same, WithHosts, AppFields
<1>2. \A ids, states :
        /\ Same(a, SnapshotFleet(a, ids, states), AppFields \ {"snap", "states", "had"})
        /\ SnapshotFleet(a, ids, states).snap = ids
  BY DEF Same, SnapshotFleet, AppFields
<1>3. \A name : Same(a, KeepActive(a, name), AppFields \ {"active"})
  BY DEF Same, KeepActive, AppFields
<1>4. \A i, members : Same(a, SetHosts(a, i, members), AppFields \ {"open"})
  BY DEF Same, SetHosts, AppFields
<1>5. Same(a, KeepGridSlots(a), AppFields \ {"kept"}) /\ Same(a, ResetGridSlots(a), AppFields \ {"kept"})
  BY DEF Same, KeepGridSlots, ResetGridSlots, AppFields
<1>6. Same(a, SyncFilterMatches(a), AppFields \ {"match"})
  BY DEF Same, SyncFilterMatches, AppFields
<1>7. Same(a, SyncLimit(a), AppFields \ {"limit"})
  BY DEF Same, SyncLimit, AppFields
<1>8. \A host : /\ Same(a, Refocus(a, host), AppFields \ {"pane"})
                /\ Refocus(a, host).pane = PaneFor(HostIDs(a), a.pane, host)
  BY DEF Same, Refocus, AppFields
<1>9. /\ Same(a, FollowFocus(a), AppFields \ {"page"})
      /\ FollowFocus(a).page = PageOf(a.page, a.pane, Grid(a).perPage)
  BY DEF Same, FollowFocus, AppFields
<1> QED
  BY <1>1, <1>2, <1>3, <1>4, <1>5, <1>6, <1>7, <1>8, <1>9

(* The pages are enough for what is to be shown.                           *)
LEMMA CeilDivCovers ==
  ASSUME NEW n \in Nat, NEW b \in Nat \ {0}
  PROVE  n <= CeilDiv(n, b) * b
<1> DEFINE q == (n + b - 1) \div b
<1>1. q \in Int /\ q * b <= n + b - 1 /\ n + b - 1 < q * b + b
  BY Division
<1>2. CeilDiv(n, b) = q
  BY DEF CeilDiv
<1> HIDE DEF q
<1>3. q * b \in Int
  BY <1>1
<1> QED
  BY <1>1, <1>2, <1>3

(* The page that follows the focus shows it.                               *)
LEMMA PageShowsFocus ==
  ASSUME NEW a, AppOK(a), a.main.w > 0, NEW page, a.page = PageOf(page, a.pane, Grid(a).perPage)
  PROVE  OnScreen(a)
<1> SUFFICES ASSUME FocusedHost(a) # Hole PROVE FocusedHost(a) \in Real(WindowHosts(a))
  BY DEF OnScreen
<1> DEFINE ids == HostIDs(a)
           n == Len(ids)
           perPage == Grid(a).perPage
           pages == Grid(a).pages
           slots == GridSlots(a)
           pane == a.pane
           first == ClampedPage(a, Grid(a)) * perPage
<1>1. ids \in Seq(NoLimit) /\ n \in Nat /\ pane \in Int
  <2>1. ids \in Seq(NoLimit)
    BY HostIDsTyped
  <2>2. pane \in Int
    BY DEF AppOK
  <2> QED
    BY <2>1, <2>2
<1>2. pane \in 0 .. n - 1 /\ FocusedHost(a) = ids[pane + 1]
  BY <1>1 DEF FocusedHost, HostAt
<1>3. ids # <<>>
  BY <1>1, <1>2
<1>4. /\ perPage \in Nat \ {0} /\ slots \in Nat /\ n <= slots
      /\ pages = CeilDiv(slots, perPage)
  <2>1. TilesFit(GridArea(a), Grid(a), slots)
    BY <1>3, GridFits
  <2>2. slots \in Nat
    BY GridSlotsTyped
  <2>3. a.kept \in Nat
    BY DEF AppOK
  <2>4. n <= slots
    BY <1>1, <2>3 DEF GridSlots, Most
  <2> QED
    BY <2>1, <2>2, <2>4 DEF TilesFit
<1>5. a.page = pane \div perPage
  BY <1>4 DEF PageOf
<1>6. ClampedPage(a, Grid(a)) = IF pages = 0 THEN 0 ELSE Clamp(a.page, 0, pages - 1)
  BY DEF ClampedPage
<1>7. /\ first \in Nat
      /\ \A i \in DOMAIN ids :
           first < i /\ i <= first + perPage =>
             i - first \in DOMAIN WindowHosts(a) /\ WindowHosts(a)[i - first] = ids[i]
  BY WindowIsPart
<1> DEFINE p == a.page
           clamped == ClampedPage(a, Grid(a))
<1>8. pages \in Nat /\ slots <= pages * perPage
  BY <1>4, CeilDivTyped, CeilDivCovers
<1> HIDE DEF ids, n, perPage, pages, slots, pane, p, clamped
<1>9. p \in Int /\ p * perPage <= pane /\ pane < p * perPage + perPage
  BY <1>1, <1>4, <1>5, Division DEF p
<1>10. p >= 0
  <2> SUFFICES ASSUME p <= -1 PROVE FALSE
    BY <1>9
  <2>1. p * perPage <= -perPage
    BY <1>4, <1>9, Z3
  <2>2. p * perPage \in Int /\ pane >= 0
    BY <1>1, <1>2, <1>4, <1>9
  <2> QED
    BY <1>1, <1>4, <1>9, <2>1, <2>2
<1>11. p < pages
  <2> SUFFICES ASSUME pages <= p PROVE FALSE
    BY <1>8, <1>9
  <2>1. pages * perPage <= p * perPage
    BY <1>4, <1>8, <1>9, Z3
  <2>2. p * perPage \in Int /\ pages * perPage \in Int /\ pane < n
    BY <1>1, <1>2, <1>4, <1>8, <1>9
  <2> QED
    BY <1>1, <1>4, <1>8, <1>9, <2>1, <2>2
<1>12. clamped = p
  BY <1>6, <1>8, <1>9, <1>10, <1>11 DEF p, clamped, Clamp
<1>13. first = p * perPage
  BY <1>12 DEF clamped
<1> HIDE DEF first
<1>14. pane + 1 \in DOMAIN ids /\ first < pane + 1 /\ pane + 1 <= first + perPage
  <2>1. first <= pane /\ pane < first + perPage
    BY <1>9, <1>13
  <2>2. DOMAIN ids = 1 .. n
    BY <1>1 DEF n
  <2> QED
    BY <1>1, <1>2, <1>4, <1>7, <2>1, <2>2
<1>15. ids[pane + 1] \in ToSet(WindowHosts(a))
  BY <1>7, <1>14 DEF ToSet
<1> QED
  BY <1>2, <1>15 DEF Real

(* The end of an arrival: the page follows the focus, and nothing else     *)
(* moves.                                                                  *)
LEMMA FollowedOK ==
  ASSUME NEW a, AppOK(a), LaidOut(a), NEW w, w = Update(FollowFocus(a))
  PROVE  /\ Same(a, w, AppFields \ {"page", "limit"}) /\ AppOK(w)
         /\ HostIDs(w) = HostIDs(a) /\ FocusedHost(w) = FocusedHost(a)
         /\ w.main.w > 0 => OnScreen(w)
<1> DEFINE b == FollowFocus(a)
           c == SyncLayout(b)
<1>1. DOMAIN a = AppFields
  BY DEF AppOK
<1>2. Same(a, b, AppFields \ {"page"}) /\ b.page = PageOf(a.page, a.pane, Grid(a).perPage)
  BY <1>1, FieldsKept
<1>3. AppOK(b)
  BY FocusKeeps DEF Keeps
<1> HIDE DEF b
<1>4. LaidOut(b) /\ DOMAIN b = AppFields
  <2>1. b.main = a.main /\ b.term = a.term /\ b.screen = a.screen /\ b.focus = a.focus /\ DOMAIN b = AppFields
    BY <1>2 DEF Same, AppFields
  <2> QED
    BY <2>1 DEF LaidOut
<1>5. DOMAIN c = AppFields /\ \A f \in AppFields : c[f] = b[f]
  <2>1. c \in {b, [b EXCEPT !.main = b.main]}
    BY <1>4 DEF SyncLayout, LaidOut
  <2> HIDE DEF c
  <2> QED
    BY <1>4, <2>1
<1>6. w = SyncLimit(c)
  BY DEF Update, c, b
<1> HIDE DEF c
<1>7. Same(c, w, AppFields \ {"limit"})
  BY <1>5, <1>6, FieldsKept
<1>8. Same(a, w, AppFields \ {"page", "limit"}) /\ w.page = b.page
  BY <1>2, <1>5, <1>7 DEF Same, AppFields
<1>9. AppOK(w)
  BY <1>3, UpdateKeeps DEF Keeps, b
<1>10. HostIDs(w) = HostIDs(a) /\ w.pane = a.pane
  <2>1. \A f \in ListFields : w[f] = a[f]
    BY <1>8 DEF Same, AppFields, ListFields
  <2>2. w.pane = a.pane
    BY <1>8 DEF Same, AppFields
  <2> QED
    BY <2>1, <2>2, ListUnread
<1>11. Grid(w) = Grid(a)
  <2>1. \A f \in GridFields : w[f] = a[f]
    BY <1>8 DEF Same, AppFields, ListFields, GridFields
  <2> QED
    BY <2>1, GridUnread
<1>12. w.page = PageOf(a.page, w.pane, Grid(w).perPage)
  BY <1>2, <1>8, <1>10, <1>11
<1>13. w.main.w > 0 => OnScreen(w)
  BY <1>9, <1>12, PageShowsFocus
<1>14. FocusedHost(w) = FocusedHost(a)
  BY <1>10 DEF FocusedHost, HostAt
<1> QED
  BY <1>8, <1>9, <1>10, <1>13, <1>14

LEMMA SeqDomain ==
  ASSUME NEW S, NEW s \in Seq(S)
  PROVE  DOMAIN s = 1 .. Len(s) /\ Len(s) \in Nat
OBVIOUS

LEMMA PlaceIn ==
  ASSUME NEW S, NEW s \in Seq(S), NEW i
  PROVE  i \in DOMAIN s <=> i \in Int /\ 1 <= i /\ i <= Len(s)
OBVIOUS

LEMMA Counting ==
  /\ \A j \in Int : j - 1 \in Int /\ (j - 1) + 1 = j
  /\ \A j \in Int, m \in Nat : 1 <= j /\ j <= m => j \in 1 .. m
OBVIOUS

LEMMA SameDomain ==
  ASSUME NEW S, NEW s \in Seq(S), NEW t \in Seq(S), DOMAIN s = DOMAIN t
  PROVE  Len(s) = Len(t)
<1>1. Len(s) \in Nat /\ Len(t) \in Nat
  OBVIOUS
<1>2. Len(s) > 0 => Len(s) \in DOMAIN s
  BY <1>1
<1>3. Len(t) > 0 => Len(t) \in DOMAIN t
  BY <1>1
<1>4. Len(s) > 0 => Len(s) <= Len(t)
  BY <1>1, <1>2
<1>5. Len(t) > 0 => Len(t) <= Len(s)
  BY <1>1, <1>3
<1> QED
  BY <1>1, <1>4, <1>5

(* The host of a pane, counted from zero.                                  *)
LEMMA HostAtIs ==
  ASSUME NEW a, AppOK(a), NEW i \in Int
  PROVE  HostAt(a, i) = IF i + 1 \in DOMAIN HostIDs(a) THEN HostIDs(a)[i + 1] ELSE Hole
<1> DEFINE ids == HostIDs(a)
<1>1. HostAt(a, i) = IF i >= 0 /\ i < Len(ids) THEN ids[i + 1] ELSE Hole
  BY DEF HostAt
<1>2. ids \in Seq(NoLimit)
  BY HostIDsTyped
<1> HIDE DEF ids
<1>3. Len(ids) \in Nat
  BY <1>2
<1>4. i + 1 \in DOMAIN ids <=> 1 <= i + 1 /\ i + 1 <= Len(ids)
  BY <1>2, PlaceIn
<1>5. i + 1 \in DOMAIN ids <=> i >= 0 /\ i < Len(ids)
  BY <1>3, <1>4
<1> QED
  BY <1>1, <1>5 DEF ids

(* A session that is looked for by its name.                               *)
LEMMA KeepActiveFinds ==
  ASSUME NEW b, DOMAIN b = AppFields, b.open \in Seq(OpenSession), NEW name \in DOMAIN Group \cup {AdHoc}
  PROVE  LET c == KeepActive(b, name)
         IN /\ ActiveSession(c) = name => c.active \in DOMAIN b.open /\ b.open[c.active].name = name
            /\ (\E i \in DOMAIN b.open : b.open[i].name = name) => ActiveSession(c) = name
<1> DEFINE c == KeepActive(b, name)
           same == {i \in DOMAIN b.open : b.open[i].name = name}
           n == IF same # {} THEN CHOOSE i \in same : TRUE ELSE Len(b.open)
<1>1. c.active = n /\ c.open = b.open
  <2>1. c = [b EXCEPT !.active = n]
    BY DEF KeepActive
  <2> HIDE DEF n, c
  <2> QED
    BY <2>1 DEF AppFields
<1>2. DOMAIN b.open = 1 .. Len(b.open) /\ Len(b.open) \in Nat
  BY SeqDomain
<1>3. n \in same \/ (same = {} /\ n = Len(b.open))
  <2>1. CASE same # {}
    <3>1. (CHOOSE i \in same : TRUE) \in same
      BY <2>1
    <3> HIDE DEF same
    <3> QED
      BY <2>1, <3>1
  <2>2. CASE same = {}
    BY <2>2
  <2> QED
    BY <2>1, <2>2
<1> HIDE DEF c, n
<1>4. ActiveSession(c) = IF n = 0 THEN "" ELSE b.open[n].name
  BY <1>1 DEF ActiveSession
<1>5. n \in 0 .. Len(b.open)
  BY <1>2, <1>3
<1>6. ASSUME ActiveSession(c) = name PROVE n \in DOMAIN b.open /\ b.open[n].name = name
  <2>1. n # 0
    BY <1>4, <1>6, NameAssumption
  <2> QED
    BY <1>2, <1>4, <1>5, <1>6, <2>1
<1>7. ASSUME same # {} PROVE ActiveSession(c) = name
  <2>1. n \in DOMAIN b.open /\ b.open[n].name = name
    BY <1>3, <1>7
  <2>2. n # 0
    BY <1>2, <2>1
  <2> QED
    BY <1>4, <2>1, <2>2
<1>8. (\E i \in DOMAIN b.open : b.open[i].name = name) => same # {}
  OBVIOUS
<1> HIDE DEF same
<1>9. c.active = n
  BY <1>1
<1> QED
  BY <1>6, <1>7, <1>8, <1>9 DEF c

(* A session that is in front has a name.                                  *)
LEMMA ActiveNamed ==
  ASSUME NEW a, AppOK(a), a.active # 0
  PROVE  /\ a.active \in DOMAIN a.open /\ a.open[a.active] \in OpenSession
         /\ a.open[a.active].hosts \in Seq(NoLimit)
         /\ ActiveSession(a) = a.open[a.active].name /\ ActiveSession(a) \in DOMAIN Group \cup {AdHoc}
<1>1. a.active \in DOMAIN a.open /\ a.open[a.active] \in OpenSession
  BY DEF AppOK, SessionsOK
<1>2. a.open[a.active].name \in DOMAIN Group \cup {AdHoc} /\ a.open[a.active].hosts \in Seq(NoLimit)
  BY <1>1 DEF OpenSession
<1>3. ActiveSession(a) = a.open[a.active].name
  BY DEF ActiveSession
<1> QED
  BY <1>1, <1>2, <1>3

(* An element of what is left is an element of what there was.             *)
LEMMA OnlyIsFrom ==
  ASSUME NEW open \in Seq(OpenSession), NEW ids
  PROVE  /\ Only(open, ids) \in Seq(OpenSession)
         /\ \A i \in DOMAIN Only(open, ids) : \E k \in DOMAIN open : Only(open, ids)[i] = open[k]
         /\ \A k \in DOMAIN open : open[k] \in ids => \E i \in DOMAIN Only(open, ids) : Only(open, ids)[i] = open[k]
<1> DEFINE t == Only(open, ids)
<1>1. t \in Seq(OpenSession) /\ ToSet(t) = ToSet(open) \cap ids
  BY OnlyIsPart
<1> HIDE DEF t
<1>2. ASSUME NEW i \in DOMAIN t PROVE \E k \in DOMAIN open : t[i] = open[k]
  <2>1. t[i] \in ToSet(open)
    BY <1>1 DEF ToSet
  <2> QED
    BY <2>1 DEF ToSet
<1>3. ASSUME NEW k \in DOMAIN open, open[k] \in ids PROVE \E i \in DOMAIN t : t[i] = open[k]
  <2>1. open[k] \in ToSet(t)
    BY <1>1, <1>3 DEF ToSet
  <2> QED
    BY <2>1 DEF ToSet
<1> QED
  BY <1>1, <1>2, <1>3 DEF t

(* The session in front survives the pruning while it has a host, with     *)
(* holes where hosts left.                                                 *)
LEMMA PruneStays ==
  ASSUME NEW a, AppOK(a), a.active # 0, Real(a.open[a.active].hosts) \cap ToSet(a.snap) # {}
  PROVE  /\ Same(a, PruneSessions(a), AppFields \ {"open", "active"})
         /\ PruneSessions(a).active # 0
         /\ PruneSessions(a).open[PruneSessions(a).active].hosts =
              Holed(a.open[a.active].hosts, ToSet(a.snap))
<1> DEFINE ids == ToSet(a.snap)
           session(i) == [a.open[i] EXCEPT !.hosts = Holed(a.open[i].hosts, ids)]
           holed == [i \in DOMAIN a.open |-> session(i)]
           stay == {s \in ToSet(holed) : Real(s.hosts) # {}}
           open == Only(holed, stay)
           name == ActiveSession(a)
           b == [a EXCEPT !.open = open]
           c == KeepActive(b, name)
<1>1. /\ a.open \in Seq(OpenSession) /\ DOMAIN a.open = 1 .. Len(a.open) /\ Len(a.open) \in Nat
      /\ \A i \in DOMAIN a.open : a.open[i] \in OpenSession
      /\ NamesApart(a.open) /\ DOMAIN a = AppFields
  BY DEF AppOK, SessionsOK
<1>2. ASSUME NEW i \in DOMAIN a.open
      PROVE  /\ session(i) \in OpenSession /\ session(i).name = a.open[i].name
             /\ session(i).hosts = Holed(a.open[i].hosts, ids)
             /\ Real(session(i).hosts) = Real(a.open[i].hosts) \cap ids
  <2>1. a.open[i].hosts \in Seq(NoLimit)
    BY <1>1 DEF OpenSession
  <2> DEFINE t == Holed(a.open[i].hosts, ids)
  <2>2. t \in Seq(NoLimit) /\ Real(t) = Real(a.open[i].hosts) \cap ids
    BY <2>1, HoledOK
  <2> HIDE DEF t
  <2>3. /\ [a.open[i] EXCEPT !.hosts = t] \in OpenSession /\ [a.open[i] EXCEPT !.hosts = t].hosts = t
        /\ [a.open[i] EXCEPT !.hosts = t].name = a.open[i].name
    BY <1>1, <2>2 DEF OpenSession
  <2> QED
    BY <2>2, <2>3 DEF t
<1> HIDE DEF session
<1>3. DOMAIN holed = DOMAIN a.open /\ \A i \in DOMAIN a.open : holed[i] = session(i)
  BY <1>1
<1>4. holed \in Seq(OpenSession)
  <2>1. holed \in [1 .. Len(a.open) -> OpenSession]
    BY <1>1, <1>2
  <2> HIDE DEF holed
  <2> QED
    BY <1>1, <2>1
<1>5. PruneSessions(a) = c
  BY DEF PruneSessions, session
<1>6. \A i \in DOMAIN holed : Real(holed[i].hosts) # {} => holed[i] \in stay
  BY DEF ToSet
<1> HIDE DEF holed, stay
<1>7. /\ open \in Seq(OpenSession)
      /\ \A i \in DOMAIN open : \E k \in DOMAIN holed : open[i] = holed[k]
      /\ \A k \in DOMAIN holed : holed[k] \in stay => \E i \in DOMAIN open : open[i] = holed[k]
  <2> HIDE DEF open, name, b, c, ids
  <2>1. /\ Only(holed, stay) \in Seq(OpenSession)
        /\ \A i \in DOMAIN Only(holed, stay) : \E k \in DOMAIN holed : Only(holed, stay)[i] = holed[k]
        /\ \A k \in DOMAIN holed :
             holed[k] \in stay => \E i \in DOMAIN Only(holed, stay) : Only(holed, stay)[i] = holed[k]
    <3>1. Only(holed, stay) \in Seq(OpenSession)
      BY <1>4, OnlyIsFrom
    <3>2. \A i \in DOMAIN Only(holed, stay) : \E k \in DOMAIN holed : Only(holed, stay)[i] = holed[k]
      BY <1>4, OnlyIsFrom
    <3>3. \A k \in DOMAIN holed :
            holed[k] \in stay => \E i \in DOMAIN Only(holed, stay) : Only(holed, stay)[i] = holed[k]
      <4> SUFFICES ASSUME NEW k \in DOMAIN holed, holed[k] \in stay
                   PROVE  \E i \in DOMAIN Only(holed, stay) : Only(holed, stay)[i] = holed[k]
        OBVIOUS
      <4>1. ToSet(Only(holed, stay)) = ToSet(holed) \cap stay
        BY <1>4, OnlyIsPart
      <4>2. holed[k] \in ToSet(Only(holed, stay))
        BY <4>1 DEF ToSet
      <4> QED
        BY <4>2 DEF ToSet
    <3> QED
      BY <3>1, <3>2, <3>3
  <2> QED
    BY <2>1 DEF open
<1> HIDE DEF open
<1>8. /\ a.active \in DOMAIN a.open /\ name = a.open[a.active].name /\ name \in DOMAIN Group \cup {AdHoc}
  BY ActiveNamed
<1>9. \E i \in DOMAIN open : open[i].name = name
  <2>1. holed[a.active] \in stay /\ holed[a.active].name = name
    BY <1>2, <1>3, <1>6, <1>8
  <2> QED
    BY <1>3, <1>7, <1>8, <2>1
<1> HIDE DEF name
<1>10. DOMAIN b = AppFields /\ b.open = open /\ Same(a, b, AppFields \ {"open"})
  BY <1>1 DEF AppFields, Same
<1> HIDE DEF b
<1>11. c.active \in DOMAIN open /\ open[c.active].name = name
  <2>1. /\ ActiveSession(c) = name => c.active \in DOMAIN open /\ open[c.active].name = name
        /\ (\E i \in DOMAIN open : open[i].name = name) => ActiveSession(c) = name
    <3>1. DOMAIN b = AppFields /\ b.open \in Seq(OpenSession) /\ name \in DOMAIN Group \cup {AdHoc}
      BY <1>7, <1>8, <1>10
    <3>2. /\ ActiveSession(c) = name => c.active \in DOMAIN b.open /\ b.open[c.active].name = name
          /\ (\E i \in DOMAIN b.open : b.open[i].name = name) => ActiveSession(c) = name
      BY <3>1, KeepActiveFinds
    <3> QED
      BY <1>10, <3>2
  <2> QED
    BY <1>9, <2>1
<1>12. Same(b, c, AppFields \ {"active"})
  BY <1>10, FieldsKept
<1> HIDE DEF c
<1>13. Same(a, c, AppFields \ {"open", "active"}) /\ c.open = open
  BY <1>10, <1>12 DEF Same, AppFields
<1>14. PICK k \in DOMAIN holed : open[c.active] = holed[k]
  BY <1>7, <1>11
<1>15. k = a.active
  <2>1. a.open[k].name = a.open[a.active].name
    BY <1>2, <1>3, <1>8, <1>11, <1>14
  <2> QED
    BY <1>1, <1>3, <1>8, <2>1 DEF NamesApart
<1>16. open[c.active].hosts = Holed(a.open[a.active].hosts, ids)
  BY <1>2, <1>3, <1>8, <1>14, <1>15
<1>17. c.active # 0
  BY <1>7, <1>11
<1> QED
  BY <1>5, <1>13, <1>16, <1>17

(* Hosts that join the session in front join it at its end.                *)
LEMMA AdoptStays ==
  ASSUME NEW a, AppOK(a), a.active # 0
  PROVE  /\ Same(a, AdoptNewHosts(a), AppFields \ {"open"})
         /\ \A i \in DOMAIN a.open[a.active].hosts :
              /\ i \in DOMAIN AdoptNewHosts(a).open[a.active].hosts
              /\ AdoptNewHosts(a).open[a.active].hosts[i] = a.open[a.active].hosts[i]
<1> DEFINE orphans == Only(a.snap, ToSet(a.snap) \ Owned(a))
           list == a.open[a.active].hosts
           joined == list \o orphans
           b == SetHosts(a, a.active, joined)
<1>1. AdoptNewHosts(a) \in {a, b}
  BY DEF AdoptNewHosts
<1>2. a.snap \in Seq(PaneHost) /\ DOMAIN a = AppFields
  BY DEF AppOK
<1>3. orphans \in Seq(PaneHost)
  BY <1>2, OnlyIsPart
<1> HIDE DEF orphans
<1>4. a.active \in DOMAIN a.open /\ a.open[a.active] \in OpenSession /\ list \in Seq(NoLimit)
  BY ActiveNamed
<1>5. ASSUME NEW i \in DOMAIN list PROVE i \in DOMAIN joined /\ joined[i] = list[i]
  <2> HIDE DEF list
  <2> QED
    BY <1>3, <1>4, <1>5
<1>6. Same(a, b, AppFields \ {"open"}) /\ Same(a, a, AppFields \ {"open"})
  <2>1. Same(a, b, AppFields \ {"open"})
    BY <1>2, FieldsKept
  <2>2. Same(a, a, AppFields \ {"open"})
    BY <1>2 DEF Same
  <2> QED
    BY <2>1, <2>2
<1>7. b.open[a.active].hosts = joined
  <2> HIDE DEF joined
  <2>1. b.open[a.active] = [a.open[a.active] EXCEPT !.hosts = joined]
    BY <1>2, <1>4 DEF SetHosts, AppFields
  <2> HIDE DEF b
  <2> QED
    BY <1>4, <2>1 DEF OpenSession
<1> HIDE DEF b, joined
<1> QED
  BY <1>1, <1>5, <1>6, <1>7

(* The focus goes to the host if it is shown, and to a host if there is    *)
(* one.                                                                    *)
LEMMA RefocusFinds ==
  ASSUME NEW a, DOMAIN a = AppFields, HostIDs(a) \in Seq(NoLimit), a.pane \in Int, NEW host,
         NEW r, r = Refocus(a, host)
  PROVE  /\ Same(a, r, AppFields \ {"pane"}) /\ HostIDs(r) = HostIDs(a)
         /\ host \in Real(HostIDs(a)) => FocusedHost(r) = host
         /\ Real(HostIDs(a)) # {} => FocusedHost(r) # Hole
<1> DEFINE ids == HostIDs(a)
           p == PaneFor(ids, a.pane, host)
<1>1. Same(a, r, AppFields \ {"pane"}) /\ r.pane = p
  BY FieldsKept
<1>2. HostIDs(r) = ids
  <2>1. \A f \in ListFields : r[f] = a[f]
    BY <1>1 DEF Same, AppFields, ListFields
  <2> QED
    BY <2>1, ListUnread
<1>3. DOMAIN ids = 1 .. Len(ids) /\ Len(ids) \in Nat
  BY SeqDomain
<1> HIDE DEF ids
<1>4. \A k \in DOMAIN ids : k - 1 \in 0 .. Len(ids) - 1 /\ (k - 1) + 1 = k
  BY <1>3
<1>5. ASSUME host \in Real(ids) PROVE p \in 0 .. Len(ids) - 1 /\ ids[p + 1] = host
  <2>1. host # Hole /\ \E k \in DOMAIN ids : ids[k] = host
    BY <1>5 DEF Real, ToSet
  <2>2. \E i \in 0 .. Len(ids) - 1 : host # Hole /\ ids[i + 1] = host
    BY <1>4, <2>1
  <2> QED
    BY <1>3, <2>2, PaneForFinds
<1>6. ASSUME Real(ids) # {} PROVE p \in 0 .. Len(ids) - 1 /\ ids[p + 1] # Hole
  <2>1. \E k \in DOMAIN ids : ids[k] # Hole
    BY <1>6 DEF Real, ToSet
  <2>2. \E i \in 0 .. Len(ids) - 1 : ids[i + 1] # Hole
    BY <1>4, <2>1
  <2> QED
    BY <1>3, <2>2, PaneForFinds
<1> HIDE DEF p
<1>7. ASSUME p \in 0 .. Len(ids) - 1 PROVE FocusedHost(r) = ids[p + 1]
  BY <1>1, <1>2, <1>3, <1>7 DEF FocusedHost, HostAt
<1> QED
  BY <1>1, <1>2, <1>5, <1>6, <1>7 DEF ids

(* While the session in front stays in front it keeps its hosts, and the   *)
(* focus its host, whatever else is reaped.                                *)
LEMMA ReapStays ==
  ASSUME NEW a, AppOK(a), a.active # 0, NEW w, w = Reap(a).app, ActiveSession(w) = ActiveSession(a)
  PROVE  /\ Same(a, w, AppFields \ {"open", "active", "kept", "page", "pane"})
         /\ w.active # 0 /\ w.open[w.active].hosts = a.open[a.active].hosts
         /\ HostIDs(w) = HostIDs(a)
         /\ FocusedHost(a) \in Real(HostIDs(a)) => FocusedHost(w) = FocusedHost(a)
<1> DEFINE logout(i) == \E h \in Real(a.open[i].hosts) : StateOf(a, h) = "closed"
           session(i) == [a.open[i] EXCEPT !.sawClose = @ \/ logout(i)]
           marked == [i \in DOMAIN a.open |-> session(i)]
           seen == [a EXCEPT !.open = marked]
           stay == {s \in ToSet(seen.open) : ~SessionOver(a, s)}
           kept == Only(seen.open, stay)
           ended == {i \in DOMAIN seen.open : SessionOver(a, seen.open[i])}
           name == ActiveSession(a)
           left == [seen EXCEPT !.open = kept]
           back == KeepActive(left, name)
           shaped == IF ActiveSession(back) # name THEN ResetGridSlots(back) ELSE back
           loggedOut == {h \in ToSet(a.snap) : StateOf(a, h) = "closed"}
           host == FocusedHost(a)
           core == IF ended = {} THEN seen ELSE shaped
           turned == Refocus(core, host)
           bare == AppFields \ {"open", "active", "kept"}
<1>1. /\ a.open \in Seq(OpenSession) /\ DOMAIN a.open = 1 .. Len(a.open) /\ Len(a.open) \in Nat
      /\ \A i \in DOMAIN a.open : a.open[i] \in OpenSession
      /\ NamesApart(a.open) /\ DOMAIN a = AppFields
  BY DEF AppOK, SessionsOK
<1>2. w = (IF ended = {} /\ loggedOut = {} THEN seen ELSE FollowFocus(turned))
  BY DEF Reap
<1> HIDE DEF logout, host
<1>3. ASSUME NEW i \in DOMAIN a.open
      PROVE  /\ session(i) \in OpenSession /\ session(i).hosts = a.open[i].hosts
             /\ session(i).name = a.open[i].name
  <2>1. a.open[i] \in OpenSession
    BY <1>1
  <2>2. (a.open[i].sawClose \/ logout(i)) \in BOOLEAN
    OBVIOUS
  <2> QED
    BY <2>1, <2>2 DEF OpenSession
<1> HIDE DEF session
<1>4. DOMAIN marked = DOMAIN a.open /\ \A i \in DOMAIN a.open : marked[i] = session(i)
  BY <1>1
<1>5. marked \in Seq(OpenSession)
  <2>1. marked \in [1 .. Len(a.open) -> OpenSession]
    BY <1>1, <1>3
  <2> HIDE DEF marked
  <2> QED
    BY <1>1, <2>1
<1> HIDE DEF marked
<1>6. \A i \in DOMAIN marked : marked[i].hosts = a.open[i].hosts /\ marked[i].name = a.open[i].name
  BY <1>3, <1>4
<1>7. seen.open = marked /\ Same(a, seen, AppFields \ {"open"})
  BY <1>1 DEF Same, AppFields
<1> HIDE DEF seen
<1>8. /\ a.active \in DOMAIN a.open /\ name = a.open[a.active].name /\ name \in DOMAIN Group \cup {AdHoc}
  BY ActiveNamed
<1> HIDE DEF name, stay, ended, loggedOut
<1>9. /\ kept \in Seq(OpenSession)
      /\ \A i \in DOMAIN kept : \E k \in DOMAIN marked : kept[i] = marked[k]
  <2>1. seen.open \in Seq(OpenSession)
    BY <1>5, <1>7
  <2>2. /\ Only(seen.open, stay) \in Seq(OpenSession)
        /\ \A i \in DOMAIN Only(seen.open, stay) : \E k \in DOMAIN seen.open : Only(seen.open, stay)[i] = seen.open[k]
    BY <2>1, OnlyIsFrom
  <2> QED
    BY <1>7, <2>2
<1> HIDE DEF kept
<1>10. DOMAIN left = AppFields /\ left.open = kept /\ Same(a, left, AppFields \ {"open"})
  BY <1>7 DEF Same, AppFields
<1> HIDE DEF left
<1>11. Same(left, back, AppFields \ {"active"})
  BY <1>10, FieldsKept
<1>12. ActiveSession(back) = name => back.active \in DOMAIN kept /\ kept[back.active].name = name
  <2>1. left.open \in Seq(OpenSession)
    BY <1>9, <1>10
  <2>2. ActiveSession(back) = name => back.active \in DOMAIN left.open /\ left.open[back.active].name = name
    BY <1>8, <1>10, <2>1, KeepActiveFinds
  <2> QED
    BY <1>10, <2>2
<1> HIDE DEF back
<1>13. Same(a, back, bare) /\ back.open = kept
  BY <1>10, <1>11 DEF Same, AppFields
<1>14. shaped = back \/ Same(back, shaped, AppFields \ {"kept"})
  <2>1. DOMAIN back = AppFields
    BY <1>13 DEF Same
  <2> QED
    BY <2>1, FieldsKept
<1> HIDE DEF shaped
<1>15. Same(a, shaped, bare) /\ shaped.open = kept /\ shaped.active = back.active
  BY <1>13, <1>14 DEF Same, AppFields
<1>16. Same(a, core, bare) /\ DOMAIN core = AppFields
  BY <1>7, <1>15 DEF Same
<1>17. \/ core.open = marked /\ core.active = a.active
       \/ core.open = kept /\ core.active = back.active
  <2>1. seen.open = marked /\ seen.active = a.active
    BY <1>7 DEF Same, AppFields
  <2>2. core = seen \/ core = shaped
    OBVIOUS
  <2> HIDE DEF core
  <2> QED
    BY <1>15, <2>1, <2>2
<1>18. ended = {} /\ loggedOut = {} => core = seen
  OBVIOUS
<1> HIDE DEF core
<1>19. /\ Same(core, turned, AppFields \ {"pane"})
       /\ turned.pane = PaneFor(HostIDs(core), core.pane, host)
  BY <1>16, FieldsKept
<1> HIDE DEF turned
<1>20. Same(turned, FollowFocus(turned), AppFields \ {"page"})
  <2>1. DOMAIN turned = AppFields
    BY <1>19 DEF Same
  <2> QED
    BY <2>1, FieldsKept
<1>21. \/ w.pane = a.pane
       \/ w.pane = PaneFor(HostIDs(core), core.pane, host)
  BY <1>2, <1>7, <1>18, <1>19, <1>20 DEF Same, AppFields
<1>22. Same(core, w, AppFields \ {"page", "pane"})
  BY <1>2, <1>16, <1>18, <1>19, <1>20 DEF Same, AppFields
<1> HIDE DEF bare
<1>23. Same(a, w, AppFields \ {"open", "active", "kept", "page", "pane"})
  BY <1>16, <1>22 DEF Same, bare
<1>24. w.open = core.open /\ w.active = core.active
  BY <1>22 DEF Same, AppFields
<1>25. w.active # 0 /\ w.open[w.active].hosts = a.open[a.active].hosts
  <2>1. CASE core.open = marked /\ core.active = a.active
    BY <1>1, <1>4, <1>6, <1>8, <1>24, <2>1
  <2>2. CASE core.open = kept /\ core.active = back.active
    <3>1. w.open = back.open /\ w.active = back.active
      BY <1>13, <1>24, <2>2
    <3>2. ActiveSession(back) = name
      BY <3>1 DEF ActiveSession, name
    <3>3. back.active \in DOMAIN kept /\ kept[back.active].name = name
      BY <1>12, <3>2
    <3>4. PICK k \in DOMAIN marked : kept[back.active] = marked[k]
      BY <1>9, <3>3
    <3>5. a.open[k].name = a.open[a.active].name /\ k \in DOMAIN a.open
      BY <1>4, <1>6, <1>8, <3>3, <3>4
    <3>6. k = a.active
      BY <1>1, <1>8, <3>5 DEF NamesApart
    <3>7. back.active # 0
      BY <1>9, <3>3, SeqDomain
    <3> QED
      BY <1>6, <1>13, <3>1, <3>4, <3>6, <3>7
  <2> QED
    BY <1>17, <2>1, <2>2
<1>26. HostIDs(w) = HostIDs(a)
  <2>1. /\ w.snap = a.snap /\ w.split = a.split /\ w.chunk = a.chunk
        /\ w.filter = a.filter /\ w.match = a.match
    BY <1>23 DEF Same, AppFields
  <2>2. SessionHosts(w) = SessionHosts(a)
    BY <1>25, <2>1 DEF SessionHosts
  <2>3. FilteredHosts(w) = FilteredHosts(a)
    BY <2>1, <2>2 DEF FilteredHosts
  <2>4. SplitChunks(w) = SplitChunks(a)
    BY <2>1, <2>3 DEF SplitChunks
  <2> QED
    BY <2>1, <2>3, <2>4 DEF HostIDs
<1>27. ASSUME HostIDs(w) = HostIDs(a), FocusedHost(a) \in Real(HostIDs(a))
       PROVE  FocusedHost(w) = FocusedHost(a)
  <2>1. HostIDs(core) = HostIDs(w)
    <3>1. \A f \in ListFields : w[f] = core[f]
      BY <1>22 DEF Same, AppFields, ListFields
    <3> QED
      BY <3>1, ListUnread
  <2>2. CASE w.pane = a.pane
    BY <1>27, <2>2 DEF FocusedHost, HostAt
  <2>3. CASE w.pane = PaneFor(HostIDs(core), core.pane, host)
    <3>1. HostIDs(core) \in Seq(NoLimit) /\ core.pane \in Int
      <4>1. core.pane = a.pane /\ a.pane \in Int
        BY <1>16 DEF Same, AppFields, bare, AppOK
      <4> QED
        BY <1>27, <2>1, <4>1, HostIDsTyped
    <3> DEFINE r == Refocus(core, host)
    <3>2. host \in Real(HostIDs(core))
      BY <1>27, <2>1 DEF host
    <3>3. FocusedHost(r) = host /\ HostIDs(r) = HostIDs(core)
      BY <1>16, <3>1, <3>2, RefocusFinds
    <3>4. r.pane = w.pane
      BY <1>16, <2>3, FieldsKept
    <3> HIDE DEF r
    <3> QED
      BY <2>1, <3>3, <3>4 DEF FocusedHost, HostAt, host
  <2> QED
    BY <1>21, <2>2, <2>3
<1> QED
  BY <1>23, <1>25, <1>27, <1>26

(* A part of a list.                                                       *)
LEMMA PartIsPart ==
  ASSUME NEW S, NEW s \in Seq(S), NEW first \in Nat, NEW count \in Nat
  PROVE  /\ Part(s, first, count) \in Seq(S)
         /\ \A k \in DOMAIN Part(s, first, count) :
              /\ k <= count /\ first + k \in DOMAIN s
              /\ Part(s, first, count)[k] = s[first + k]
         /\ \A k \in 1 .. count : first + k \in DOMAIN s => k \in DOMAIN Part(s, first, count)
<1> DEFINE n == Len(s)
           end == first + count
           last == Least(end, n)
           part == SubSeq(s, first + 1, last)
<1>1. n \in Nat /\ DOMAIN s = 1 .. n /\ end \in Nat /\ end = first + count
  BY SeqDomain
<1>3. Part(s, first, count) = part
  BY DEF Part
<1> HIDE DEF n, end
<1>2. last \in Nat /\ last <= n /\ last <= end /\ (last = n \/ last = end)
  BY <1>1 DEF Least
<1> HIDE DEF last
<1>4. /\ part \in Seq(S) /\ Len(part) = IF first + 1 <= last THEN last - first ELSE 0
      /\ \A k \in 1 .. last - first : part[k] = s[first + k]
  <2>1. \A k \in first + 1 .. last : s[k] \in S
    <3> TAKE k \in first + 1 .. last
    <3>1. k \in 1 .. n
      BY <1>1, <1>2
    <3> QED
      BY <1>1, <3>1
  <2>2. first + 1 \in Int /\ last \in Int
    BY <1>2
  <2>3. /\ part \in Seq(S) /\ Len(part) = IF first + 1 <= last THEN last - (first + 1) + 1 ELSE 0
        /\ \A k \in 1 .. last - (first + 1) + 1 : part[k] = s[first + 1 + k - 1]
    BY <2>1, <2>2, SubSeqProperties
  <2> HIDE DEF part
  <2>4. ASSUME NEW k \in 1 .. last - first PROVE part[k] = s[first + k]
    <3>1. k \in 1 .. last - (first + 1) + 1 /\ first + 1 + k - 1 = first + k
      BY <1>2
    <3> QED
      BY <2>3, <3>1
  <2> QED
    BY <1>2, <2>3, <2>4
<1> HIDE DEF part
<1>5. DOMAIN part = 1 .. Len(part) /\ Len(part) \in Nat
  BY <1>4, SeqDomain
<1>6. ASSUME NEW k \in DOMAIN part PROVE k <= count /\ first + k \in DOMAIN s /\ part[k] = s[first + k]
  <2>1. k \in Nat /\ k >= 1 /\ k <= last - first
    BY <1>2, <1>4, <1>5
  <2>2. k \in 1 .. last - first
    BY <1>2, <2>1
  <2>3. first + k <= last /\ first + k \in Nat
    BY <1>2, <2>1
  <2>4. k <= count /\ first + k >= 1 /\ first + k <= n
    BY <1>1, <1>2, <2>1, <2>3
  <2> QED
    BY <1>1, <1>4, <2>2, <2>3, <2>4
<1>7. ASSUME NEW k \in 1 .. count, first + k \in DOMAIN s PROVE k \in DOMAIN part
  <2>3. first + k <= n /\ first + k <= end
    BY <1>1, <1>7
  <2>1. first + k <= last /\ first + 1 <= last
    BY <1>1, <1>2, <2>3
  <2>2. k <= Len(part)
    BY <1>2, <1>4, <2>1
  <2> QED
    BY <1>5, <2>2
<1> QED
  BY <1>3, <1>4, <1>6, <1>7

(* A chunk starts at a place of the list.                                  *)
LEMMA ChunkStarts ==
  ASSUME NEW a, AppOK(a), a.split # 0
  PROVE  Clamp(a.chunk, 0, SplitChunks(a) - 1) * a.split \in Nat /\ a.split \in Nat
<1> DEFINE c == Clamp(a.chunk, 0, SplitChunks(a) - 1)
<1>1. a.split \in Nat /\ a.split > 0 /\ a.chunk \in Int
  <2>1. a.split \in Nat /\ a.chunk \in Int
    BY DEF AppOK
  <2> QED
    BY <2>1
<1>2. SplitChunks(a) \in Nat /\ SplitChunks(a) >= 1
  BY <1>1, SplitChunksTyped
<1>3. c \in Nat
  BY <1>1, <1>2 DEF Clamp
<1> HIDE DEF c
<1>4. c * a.split \in Nat
  BY <1>1, <1>3, Z3
<1> QED
  BY <1>1, <1>4 DEF c

(* A hole in the place of the hosts that left: the others keep theirs.     *)
LEMMA SessionHostsAre ==
  ASSUME NEW a, AppOK(a), a.active # 0
  PROVE  /\ DOMAIN SessionHosts(a) = DOMAIN a.open[a.active].hosts
         /\ \A i \in DOMAIN SessionHosts(a) :
              SessionHosts(a)[i] =
                IF a.open[a.active].hosts[i] \in ToSet(a.snap) THEN a.open[a.active].hosts[i] ELSE Hole
         /\ Real(SessionHosts(a)) = Real(a.open[a.active].hosts) \cap ToSet(a.snap)
         /\ Real(HostIDs(a)) \subseteq ToSet(a.snap)
<1> DEFINE list == a.open[a.active].hosts
           t == SessionHosts(a)
           f == FilteredHosts(a)
<1>1. t = Holed(list, ToSet(a.snap))
  BY DEF SessionHosts
<1>2. list \in Seq(NoLimit)
  BY ActiveNamed
<1> HIDE DEF list, t
<1>3. /\ DOMAIN t = DOMAIN list
      /\ \A i \in DOMAIN t : t[i] = IF list[i] \in ToSet(a.snap) THEN list[i] ELSE Hole
  BY <1>1 DEF Holed
<1>4. Real(t) = Real(list) \cap ToSet(a.snap)
  BY <1>1, <1>2, HoledOK
<1>5. f \in Seq(NoLimit) /\ ToSet(f) \subseteq ToSet(t)
  <2>1. t \in Seq(NoLimit)
    BY SessionHostsTyped DEF t
  <2>2. ToSet(Only(t, a.match \ {Hole})) = ToSet(t) \cap (a.match \ {Hole})
    BY <2>1, OnlyIsPart
  <2>3. f \in {t, Only(t, a.match \ {Hole})}
    BY DEF FilteredHosts, t
  <2> QED
    BY <2>2, <2>3, FilteredHostsTyped
<1> HIDE DEF f
<1>6. ToSet(HostIDs(a)) \subseteq ToSet(f)
  <2>1. CASE a.split = 0
    BY <2>1 DEF HostIDs, f
  <2>2. CASE a.split # 0
    <3> DEFINE first == Clamp(a.chunk, 0, SplitChunks(a) - 1) * a.split
               part == Part(f, first, a.split)
    <3>1. first \in Nat /\ a.split \in Nat
      BY <2>2, ChunkStarts
    <3>2. HostIDs(a) = part
      BY <2>2 DEF HostIDs, f
    <3> HIDE DEF first
    <3>3. \A k \in DOMAIN part : first + k \in DOMAIN f /\ part[k] = f[first + k]
      BY <1>5, <3>1, PartIsPart
    <3> HIDE DEF part
    <3> QED
      BY <3>2, <3>3 DEF ToSet
  <2> QED
    BY <2>1, <2>2
<1>7. Real(HostIDs(a)) \subseteq ToSet(a.snap)
  BY <1>4, <1>5, <1>6 DEF Real
<1> QED
  BY <1>3, <1>4, <1>7 DEF list, t

(* The snapshot alone leaves the focus where it is, if its host is in it.  *)
LEMMA SnapshotStays ==
  ASSUME NEW a, AppOK(a), a.active # 0, a.filter = "",
         NEW b, AppOK(b), Same(a, b, AppFields \ {"snap", "states", "had"}),
         FocusedHost(a) \in ToSet(b.snap), FocusedHost(a) \in PaneHost
  PROVE  FocusedHost(b) = FocusedHost(a)
<1> DEFINE list == a.open[a.active].hosts
           u == SessionHosts(a)
           v == SessionHosts(b)
           host == FocusedHost(a)
           first == Clamp(a.chunk, 0, SplitChunks(a) - 1) * a.split
           k == a.pane + 1
<1>1. /\ b.open = a.open /\ b.active = a.active /\ b.split = a.split /\ b.chunk = a.chunk
      /\ b.filter = "" /\ b.pane = a.pane
  BY DEF Same, AppFields
<1>2. /\ DOMAIN u = DOMAIN list
      /\ \A i \in DOMAIN u : u[i] = IF list[i] \in ToSet(a.snap) THEN list[i] ELSE Hole
  BY SessionHostsAre
<1>3. /\ DOMAIN v = DOMAIN list
      /\ \A i \in DOMAIN v : v[i] = IF list[i] \in ToSet(b.snap) THEN list[i] ELSE Hole
  BY <1>1, SessionHostsAre
<1>4. u \in Seq(NoLimit) /\ v \in Seq(NoLimit)
  BY SessionHostsTyped
<1>5. FilteredHosts(a) = u /\ FilteredHosts(b) = v
  BY <1>1 DEF FilteredHosts
<1> HIDE DEF list, u, v
<1>6. Len(u) = Len(v)
  <2>1. DOMAIN u = DOMAIN v
    BY <1>2, <1>3
  <2> QED
    BY <1>4, <2>1, SameDomain
<1>7. SplitChunks(b) = SplitChunks(a)
  BY <1>1, <1>5, <1>6 DEF SplitChunks
<1>8. \A i \in DOMAIN u : u[i] = host => i \in DOMAIN v /\ v[i] = host
  BY <1>2, <1>3, HoleIsNoHost DEF host
<1>9. host # Hole /\ a.pane \in Int
  BY HoleIsNoHost DEF host, AppOK
<1>10. HostIDs(a) \in Seq(NoLimit) /\ HostIDs(b) \in Seq(NoLimit)
  BY HostIDsTyped
<1>11. k \in DOMAIN HostIDs(a) /\ HostIDs(a)[k] = host
  BY <1>9, HostAtIs DEF host, FocusedHost
<1> HIDE DEF host
<1>12. k \in DOMAIN HostIDs(b) /\ HostIDs(b)[k] = host
  <2>1. CASE a.split = 0
    BY <1>1, <1>5, <1>8, <1>11, <2>1 DEF HostIDs
  <2>2. CASE a.split # 0
    <3>1. first \in Nat /\ a.split \in Nat
      BY <2>2, ChunkStarts
    <3>2. HostIDs(a) = Part(u, first, a.split) /\ HostIDs(b) = Part(v, first, a.split)
      BY <1>1, <1>5, <1>7, <2>2 DEF HostIDs
    <3> HIDE DEF first
    <3> DEFINE p == Part(u, first, a.split)
               q == Part(v, first, a.split)
    <3>3. \A j \in DOMAIN p : j <= a.split /\ first + j \in DOMAIN u /\ p[j] = u[first + j]
      BY <1>4, <3>1, PartIsPart, ZenonT(30)
    <3>4. /\ \A j \in DOMAIN q : q[j] = v[first + j]
          /\ \A j \in 1 .. a.split : first + j \in DOMAIN v => j \in DOMAIN q
      BY <1>4, <3>1, PartIsPart, ZenonT(30)
    <3> HIDE DEF k, p, q
    <3>5. k <= a.split /\ first + k \in DOMAIN u /\ u[first + k] = host
      BY <1>11, <3>2, <3>3 DEF p
    <3>6. first + k \in DOMAIN v /\ v[first + k] = host
      BY <1>8, <3>5
    <3>7. k \in 1 .. a.split
      <4>1. k \in Int /\ 1 <= k
        BY <1>10, <1>11, PlaceIn
      <4> QED
        BY <3>1, <3>5, <4>1, Counting
    <3> QED
      BY <3>2, <3>4, <3>6, <3>7 DEF q
  <2> QED
    BY <2>1, <2>2
<1>13. HostAt(b, a.pane) = host
  BY <1>9, <1>12, HostAtIs DEF k
<1> QED
  BY <1>1, <1>13 DEF FocusedHost, host

(* While every host is shown, a host that stays in its session stays in    *)
(* its pane.                                                               *)
LEMMA PlacesStay ==
  ASSUME NEW a, AppOK(a), a.active # 0, a.split = 0, a.filter = "",
         NEW b, AppOK(b), b.active # 0, b.split = 0, b.filter = "",
         \A i \in DOMAIN a.open[a.active].hosts :
           /\ i \in DOMAIN b.open[b.active].hosts
           /\ b.open[b.active].hosts[i] \in {Hole, a.open[a.active].hosts[i]}
  PROVE  \A i \in DOMAIN HostIDs(a) : HostIDs(a)[i] # Hole => HostAt(b, i - 1) \in {Hole, HostIDs(a)[i]}
<1> DEFINE u == SessionHosts(a)
           v == SessionHosts(b)
<1>1. HostIDs(a) = u /\ HostIDs(b) = v
  BY DEF HostIDs, FilteredHosts
<1>2. /\ DOMAIN u = DOMAIN a.open[a.active].hosts
      /\ \A i \in DOMAIN u :
           u[i] = IF a.open[a.active].hosts[i] \in ToSet(a.snap) THEN a.open[a.active].hosts[i] ELSE Hole
  BY SessionHostsAre
<1>3. /\ DOMAIN v = DOMAIN b.open[b.active].hosts
      /\ \A i \in DOMAIN v :
           v[i] = IF b.open[b.active].hosts[i] \in ToSet(b.snap) THEN b.open[b.active].hosts[i] ELSE Hole
  BY SessionHostsAre
<1>4. v \in Seq(NoLimit) /\ u \in Seq(NoLimit)
  BY SessionHostsTyped
<1> HIDE DEF u, v
<1>5. ASSUME NEW i \in DOMAIN u, u[i] # Hole PROVE HostAt(b, i - 1) \in {Hole, u[i]}
  <2>1. i \in DOMAIN v /\ v[i] \in {Hole, u[i]}
    BY <1>2, <1>3, <1>5
  <2>2. i \in Int
    BY <1>4, <2>1, PlaceIn
  <2>3. i - 1 \in Int /\ (i - 1) + 1 = i
    BY <2>2, Counting
  <2>4. HostAt(b, i - 1) = IF (i - 1) + 1 \in DOMAIN HostIDs(b) THEN HostIDs(b)[(i - 1) + 1] ELSE Hole
    BY <2>3, HostAtIs
  <2> QED
    BY <1>1, <2>1, <2>3, <2>4
<1> QED
  BY <1>1, <1>5

(* A change of the output changes only what the filter shows.              *)
LEMMA RefreshStays ==
  ASSUME NEW a, DOMAIN a = AppFields
  PROVE  /\ Same(a, RefreshFilter(a), AppFields \ {"match", "pane", "page"})
         /\ a.filter = "" => RefreshFilter(a) = a
<1> DEFINE b == SyncFilterMatches(a)
           c == Refocus(b, FocusedHost(a))
           d == FollowFocus(c)
<1>1. RefreshFilter(a) = IF a.filter = "" THEN a ELSE d
  BY DEF RefreshFilter
<1>2. Same(a, b, AppFields \ {"match"})
  BY FieldsKept
<1> HIDE DEF b
<1>3. Same(b, c, AppFields \ {"pane"})
  <2>1. DOMAIN b = AppFields
    BY <1>2 DEF Same
  <2>2. \A host : Same(b, Refocus(b, host), AppFields \ {"pane"})
    BY <2>1, FieldsKept
  <2> QED
    BY <2>2
<1> HIDE DEF c
<1>4. Same(c, d, AppFields \ {"page"})
  BY <1>3, FieldsKept DEF Same
<1> HIDE DEF d
<1>5. Same(a, d, AppFields \ {"match", "pane", "page"})
  BY <1>2, <1>3, <1>4 DEF Same
<1>6. Same(a, a, AppFields \ {"match", "pane", "page"})
  BY DEF Same
<1> QED
  BY <1>1, <1>5, <1>6

(* A pane that shows a host shows no other host after it.                  *)
PlacesKept(a, w) ==
  a.split = 0 /\ a.filter = "" =>
    \A i \in DOMAIN HostIDs(a) : HostIDs(a)[i] # Hole => HostAt(w, i - 1) \in {Hole, HostIDs(a)[i]}

FocusKept(a, w) == FocusedHost(a) \in Real(HostIDs(w)) => FocusedHost(w) = FocusedHost(a)

(* The handler of HostsChangedMsg, while the session in front stays.       *)
LEMMA ChangedStays ==
  ASSUME NEW a, AppOK(a), LaidOut(a), a.active # 0,
         NEW ids \in Seq(PaneHost), IsInjective(ids), NEW states,
         Real(SessionHosts(a)) \cap ToSet(ids) # {},
         NEW w, w = Update(HostsChanged(a, ids, states))
  PROVE  /\ FocusKept(a, w) /\ PlacesKept(a, w)
         /\ Real(HostIDs(w)) # {} => FocusedHost(w) # Hole
         /\ w.main.w > 0 => OnScreen(w)
<1> DEFINE host == FocusedHost(a)
           b == WithHosts(a, ids)
           c == SnapshotFleet(b, ids, states)
           d == PruneSessions(c)
           e == AdoptNewHosts(d)
           f == KeepGridSlots(e)
           g == SyncFilterMatches(f)
           r == Refocus(g, host)
<1>1. HostsChanged(a, ids, states) = StartIfEmpty(FollowFocus(r))
  BY DEF HostsChanged, Settles
<1>2. AppOK(b) /\ Same(a, b, AppFields \ {"pane"})
  <2>1. DOMAIN a = AppFields
    BY DEF AppOK
  <2>2. \A members : Same(a, WithHosts(a, members), AppFields \ {"pane"})
    BY <2>1, FieldsKept
  <2>3. \A members \in Seq(PaneHost) : Keeps(a, WithHosts(a, members))
    BY FocusKeeps
  <2> QED
    BY <2>2, <2>3 DEF Keeps
<1> HIDE DEF b
<1>3. AppOK(c) /\ c.snap = ids /\ Same(b, c, AppFields \ {"snap", "states", "had"})
  <2>1. DOMAIN b = AppFields
    BY <1>2 DEF Same
  <2>2. Same(b, c, AppFields \ {"snap", "states", "had"})
    BY <2>1, FieldsKept
  <2> QED
    BY <1>2, <2>2, SnapshotOK
<1>4. /\ c.open = a.open /\ c.active = a.active /\ c.split = a.split /\ c.filter = a.filter
      /\ c.main = a.main /\ c.term = a.term /\ c.screen = a.screen /\ c.focus = a.focus
  BY <1>2, <1>3 DEF Same, AppFields
<1>5. Real(c.open[c.active].hosts) \cap ToSet(c.snap) # {}
  <2>1. Real(SessionHosts(a)) = Real(a.open[a.active].hosts) \cap ToSet(a.snap)
    BY SessionHostsAre
  <2> QED
    BY <1>3, <1>4, <2>1
<1> HIDE DEF c
<1>6. /\ AppOK(d) /\ Same(c, d, AppFields \ {"open", "active"}) /\ d.active # 0
      /\ d.open[d.active].hosts = Holed(c.open[c.active].hosts, ToSet(c.snap))
  BY <1>3, <1>4, <1>5, PruneOK, PruneStays
<1> HIDE DEF d
<1>7. /\ AppOK(e) /\ Same(d, e, AppFields \ {"open"})
      /\ \A i \in DOMAIN d.open[d.active].hosts :
           /\ i \in DOMAIN e.open[d.active].hosts
           /\ e.open[d.active].hosts[i] = d.open[d.active].hosts[i]
  BY <1>6, AdoptOK, AdoptStays
<1> HIDE DEF e
<1>8. AppOK(f) /\ Same(e, f, AppFields \ {"kept"})
  <2>1. DOMAIN e = AppFields
    BY <1>7 DEF Same
  <2> QED
    BY <1>7, <2>1, SlotsKeep, FieldsKept DEF Keeps
<1> HIDE DEF f
<1>9. AppOK(g) /\ Same(f, g, AppFields \ {"match"})
  <2>1. DOMAIN f = AppFields
    BY <1>8 DEF Same
  <2> QED
    BY <1>8, <2>1, FocusKeeps, FieldsKept DEF Keeps
<1> HIDE DEF g
<1>10. /\ Same(g, r, AppFields \ {"pane"}) /\ HostIDs(r) = HostIDs(g)
       /\ host \in Real(HostIDs(g)) => FocusedHost(r) = host
       /\ Real(HostIDs(g)) # {} => FocusedHost(r) # Hole
  <2>1. DOMAIN g = AppFields /\ g.pane \in Int /\ HostIDs(g) \in Seq(NoLimit)
    BY <1>9, HostIDsTyped DEF AppOK
  <2> HIDE DEF host
  <2> QED
    BY <2>1, RefocusFinds
<1>11. AppOK(r)
  <2>1. \A x : Keeps(g, Refocus(g, x))
    BY <1>9, FocusKeeps
  <2> QED
    BY <2>1 DEF Keeps
<1> HIDE DEF r
<1>12. /\ r.open = e.open /\ r.active = d.active /\ r.split = a.split /\ r.filter = a.filter
       /\ r.main = a.main /\ r.term = a.term /\ r.screen = a.screen /\ r.focus = a.focus
       /\ r.snap = ids
  BY <1>3, <1>4, <1>6, <1>7, <1>8, <1>9, <1>10 DEF Same, AppFields
<1>13. LaidOut(r)
  BY <1>12 DEF LaidOut
<1>14. w = Update(FollowFocus(r))
  <2>1. DOMAIN r = AppFields
    BY <1>10 DEF Same
  <2>2. FollowFocus(r).snap = r.snap
    BY <2>1, FieldsKept DEF Same, AppFields
  <2>3. ids # <<>>
    BY DEF ToSet
  <2> QED
    BY <1>1, <1>12, <2>2, <2>3 DEF StartIfEmpty
<1>15. /\ Same(r, w, AppFields \ {"page", "limit"}) /\ AppOK(w)
       /\ HostIDs(w) = HostIDs(r) /\ FocusedHost(w) = FocusedHost(r)
       /\ w.main.w > 0 => OnScreen(w)
  BY <1>11, <1>13, <1>14, FollowedOK
<1>16. ASSUME a.split = 0, a.filter = "",
              NEW i \in DOMAIN HostIDs(a), HostIDs(a)[i] # Hole
       PROVE  HostAt(w, i - 1) \in {Hole, HostIDs(a)[i]}
  <2>1. w.open = e.open /\ w.active = d.active /\ w.split = 0 /\ w.filter = ""
    BY <1>12, <1>15, <1>16 DEF Same, AppFields
  <2>2. \A k \in DOMAIN a.open[a.active].hosts :
          /\ k \in DOMAIN w.open[w.active].hosts
          /\ w.open[w.active].hosts[k] \in {Hole, a.open[a.active].hosts[k]}
    <3>1. \A k \in DOMAIN a.open[a.active].hosts :
            /\ k \in DOMAIN d.open[d.active].hosts
            /\ d.open[d.active].hosts[k] \in {Hole, a.open[a.active].hosts[k]}
      <4> DEFINE list == a.open[a.active].hosts
      <4>1. d.open[d.active].hosts = Holed(list, ToSet(c.snap))
        BY <1>4, <1>6
      <4> HIDE DEF list
      <4>2. \A k \in DOMAIN list :
              /\ k \in DOMAIN d.open[d.active].hosts
              /\ d.open[d.active].hosts[k] \in {Hole, list[k]}
        BY <4>1 DEF Holed
      <4> QED
        BY <4>2 DEF list
    <3> QED
      BY <1>7, <2>1, <3>1
  <2> QED
    BY <1>6, <1>15, <1>16, <2>1, <2>2, PlacesStay
<1> QED
  BY <1>10, <1>15, <1>16 DEF host, FocusKept, PlacesKept

(* The list without a host that was removed.                               *)
LEMMA HostRemovedMovesNothing ==
  ASSUME PanesInv, NEW h, HostRemovedMsg(h), SessionStays
  PROVE  /\ FocusStays /\ PlacesKept(app, app')
         /\ Real(HostIDs(app')) # {} => FocusedHost(app') # Hole
         /\ Sized' => OnScreen(app')
<1>1. AppOK(app) /\ LaidOut(app) /\ managed \in Seq(PaneHost) /\ IsInjective(managed)
  BY DEF PanesInv, ScreenOK
<1>2. app' = Update(HostsChanged(app, managed, st)) /\ managed' = managed
  BY DEF HostRemovedMsg
<1>3. app.active # 0 /\ Real(SessionHosts(app)) \cap ToSet(managed) # {}
  BY <1>2 DEF SessionStays
<1>4. \A w : w = Update(HostsChanged(app, managed, st)) =>
        /\ FocusKept(app, w) /\ PlacesKept(app, w)
        /\ Real(HostIDs(w)) # {} => FocusedHost(w) # Hole
        /\ w.main.w > 0 => OnScreen(w)
  BY <1>1, <1>3, ChangedStays
<1> QED
  BY <1>2, <1>4 DEF FocusStays, FocusKept, Sized

(* The end of every message moves nothing but the layout and the limit.    *)
LEMMA UpdateStays ==
  ASSUME NEW a, DOMAIN a = AppFields
  PROVE  Same(a, Update(a), AppFields \ {"main", "limit"})
<1> DEFINE b == SyncLayout(a)
<1>1. Update(a) = SyncLimit(b)
  BY DEF Update
<1>2. Same(a, b, AppFields \ {"main"})
  BY DEF Same, SyncLayout, AppFields
<1> HIDE DEF b
<1>3. Same(b, SyncLimit(b), AppFields \ {"limit"})
  BY <1>2, FieldsKept DEF Same
<1> QED
  BY <1>1, <1>2, <1>3 DEF Same

(* The handler of FleetUpdatedMsg, while the session in front stays.       *)
LEMMA ReapedStays ==
  ASSUME NEW a, AppOK(a), LaidOut(a), a.active # 0,
         NEW ids \in Seq(PaneHost), IsInjective(ids), NEW states,
         NEW w, w = Update(FollowFocus(RefreshFilter(Reap(SnapshotFleet(a, ids, states)).app))),
         ActiveSession(w) = ActiveSession(a)
  PROVE  /\ a.filter = "" => FocusKept(a, w)
         /\ PlacesKept(a, w)
         /\ w.main.w > 0 => OnScreen(w)
<1> DEFINE f == SnapshotFleet(a, ids, states)
           q == Reap(f).app
           b == RefreshFilter(q)
           c == FollowFocus(b)
<1>1. AppOK(f) /\ f.snap = ids /\ Same(a, f, AppFields \ {"snap", "states", "had"})
  <2>1. DOMAIN a = AppFields
    BY DEF AppOK
  <2> QED
    BY <2>1, SnapshotOK, FieldsKept
<1>2. /\ f.open = a.open /\ f.active = a.active /\ f.split = a.split /\ f.filter = a.filter
      /\ f.main = a.main /\ f.term = a.term /\ f.screen = a.screen /\ f.focus = a.focus
  BY <1>1 DEF Same, AppFields
<1> HIDE DEF f
<1>3. ActiveSession(f) = ActiveSession(a)
  BY <1>2 DEF ActiveSession
<1>4. AppOK(q)
  BY <1>1, ReapOK
<1> HIDE DEF q
<1>5. /\ AppOK(b) /\ Same(q, b, AppFields \ {"match", "pane", "page"})
      /\ q.filter = "" => b = q
  <2>1. DOMAIN q = AppFields
    BY <1>4 DEF AppOK
  <2> QED
    BY <1>4, <2>1, RefreshFilterKeeps, RefreshStays DEF Keeps
<1> HIDE DEF b
<1>6. w = Update(c)
  BY DEF b, q, f
<1>7. ActiveSession(q) = ActiveSession(f)
  <2>1. Same(b, c, AppFields \ {"page"})
    BY <1>5, FieldsKept DEF Same
  <2> HIDE DEF c
  <2>2. Same(c, w, AppFields \ {"main", "limit"})
    BY <1>6, <2>1, UpdateStays DEF Same
  <2>3. w.open = q.open /\ w.active = q.active
    BY <1>5, <2>1, <2>2 DEF Same, AppFields
  <2>4. ActiveSession(w) = ActiveSession(q)
    BY <2>3 DEF ActiveSession
  <2> QED
    BY <1>3, <2>4
<1>8. /\ Same(f, q, AppFields \ {"open", "active", "kept", "page", "pane"})
      /\ q.active # 0 /\ q.open[q.active].hosts = f.open[f.active].hosts
      /\ HostIDs(q) = HostIDs(f)
      /\ FocusedHost(f) \in Real(HostIDs(f)) => FocusedHost(q) = FocusedHost(f)
  <2>1. q = Reap(f).app
    BY DEF q
  <2> QED
    BY <1>1, <1>2, <1>7, <2>1, ReapStays
<1>9. LaidOut(b)
  BY <1>2, <1>5, <1>8 DEF LaidOut, Same, AppFields
<1>10. /\ Same(b, w, AppFields \ {"page", "limit"}) /\ AppOK(w)
       /\ HostIDs(w) = HostIDs(b) /\ FocusedHost(w) = FocusedHost(b)
       /\ w.main.w > 0 => OnScreen(w)
  BY <1>5, <1>6, <1>9, FollowedOK
<1>11. ASSUME a.filter = "", FocusedHost(a) \in Real(HostIDs(w))
       PROVE  FocusedHost(w) = FocusedHost(a)
  <2>1. b = q
    <3>1. q.filter = ""
      BY <1>2, <1>8, <1>11 DEF Same, AppFields
    <3> QED
      BY <1>5, <3>1
  <2>2. FocusedHost(a) \in Real(HostIDs(f))
    BY <1>8, <1>10, <1>11, <2>1
  <2>3. Real(HostIDs(f)) \subseteq ToSet(ids) /\ ToSet(ids) \subseteq PaneHost
    <3>1. ToSet(ids) \subseteq PaneHost
      BY DEF ToSet
    <3> QED
      BY <1>1, <1>2, <3>1, SessionHostsAre
  <2>4. FocusedHost(f) = FocusedHost(a)
    BY <1>1, <1>11, <2>2, <2>3, SnapshotStays
  <2> QED
    BY <1>8, <1>10, <2>1, <2>2, <2>4
<1>12. PlacesKept(a, w)
  <2>1. /\ w.open = q.open /\ w.active = q.active /\ w.split = q.split /\ w.filter = q.filter
        /\ q.split = f.split /\ q.filter = f.filter
    <3>1. \A x \in {"open", "active", "split", "filter"} : w[x] = b[x] /\ b[x] = q[x]
      BY <1>5, <1>10 DEF Same, AppFields
    <3>2. \A x \in {"split", "filter"} : q[x] = f[x]
      BY <1>8 DEF Same, AppFields
    <3> QED
      BY <3>1, <3>2
  <2>2. w.active # 0 /\ w.open[w.active].hosts = a.open[a.active].hosts
    BY <1>2, <1>8, <2>1
  <2>3. w.split = a.split /\ w.filter = a.filter
    BY <1>2, <2>1
  <2> QED
    BY <1>10, <2>2, <2>3, PlacesStay DEF PlacesKept
<1> QED
  BY <1>10, <1>11, <1>12 DEF FocusKept

(* The states of the hosts, as they are now.                               *)
LEMMA FleetUpdatedMovesNothing ==
  ASSUME PanesInv, FleetUpdated, SessionStays
  PROVE  /\ app.filter = "" => FocusStays
         /\ PlacesKept(app, app')
         /\ Sized' => OnScreen(app')
<1>1. AppOK(app) /\ LaidOut(app) /\ managed \in Seq(PaneHost) /\ IsInjective(managed)
  BY DEF PanesInv, ScreenOK
<1> DEFINE next == Update(FollowFocus(RefreshFilter(Reap(SnapshotFleet(app, managed, st)).app)))
<1>2. app' = next
  BY DEF FleetUpdated
<1>3. app.active # 0 /\ ActiveSession(app') = ActiveSession(app)
  BY DEF SessionStays
<1>4. \A w : w = next /\ ActiveSession(w) = ActiveSession(app) =>
        /\ app.filter = "" => FocusKept(app, w)
        /\ PlacesKept(app, w)
        /\ w.main.w > 0 => OnScreen(w)
  BY <1>1, <1>3, ReapedStays
<1> HIDE DEF next
<1> QED
  BY <1>2, <1>3, <1>4 DEF FocusStays, FocusKept, Sized

(* What arrives from the hosts never takes the focus off the host it is on *)
(* while that host is shown, never leaves it off the screen or, once a     *)
(* removal is handled, on a hole, and never puts another host in the place *)
(* of one.  (FleetUpdatedMsg and HostsChangedMsg: refocus, followFocus,    *)
(* keepGridSlots; the focus is read after the snapshot, and so the first   *)
(* part of it is not promised under a filter.)                             *)
THEOREM NothingMoves == PanesSpec => ArrivalsMoveNothing
<1> DEFINE kept ==
      LET shown == HostIDs(app)
      IN /\ app.filter = "" \/ removed' # removed => FocusStays
         /\ removed' # removed /\ Real(HostIDs(app')) # {} => FocusedHost(app') # Hole
         /\ Sized' => OnScreen(app')
         /\ app.split = 0 /\ app.filter = "" =>
              \A i \in DOMAIN shown : shown[i] # Hole => HostAt(app', i - 1) \in {Hole, shown[i]}
<1>1. PanesInv /\ [PanesNext]_panesVars => [Arrives /\ SessionStays => kept]_panesVars
  <2> SUFFICES ASSUME PanesInv, PanesNext, Arrives, SessionStays PROVE kept
    OBVIOUS
  <2>1. FleetUpdated \/ \E h : HostRemovedMsg(h)
    <3>1. ASSUME NEW b, Shows(b) PROVE FALSE
      BY <3>1 DEF Shows, envVars, Arrives
    <3>2. CASE View
      BY <3>1, <3>2 DEF View, Zooms, Narrows, Moves, Screen, Split, Filter, SessionOutput, Retiles,
           Resize, PaneKey, StepKey, FocusArea, Foreground, Click, JumpTo
    <3>3. CASE Lifecycle
      BY <3>3 DEF Lifecycle, Arrives, HostEnds, Reconnects, RemoveHost, RemoveRuns, Connect, Prints,
           OpenGroup, EndSession
    <3> QED
      BY <3>2, <3>3 DEF PanesNext
  <2>2. CASE FleetUpdated
    <3>1. removed' = removed
      BY <2>2 DEF FleetUpdated
    <3> QED
      BY <2>2, <3>1, FleetUpdatedMovesNothing DEF PlacesKept
  <2>3. ASSUME NEW h, HostRemovedMsg(h) PROVE kept
    BY <2>3, HostRemovedMovesNothing DEF PlacesKept
  <2> QED
    BY <2>1, <2>2, <2>3
<1> QED
  BY <1>1, PanesInvInductive, PTL DEF PanesSpec, ArrivalsMoveNothing

-----------------------------------------------------------------------------
(* stepView walks through all of the list.                                 *)

(* How many hosts of the list come before the chunk, and before the page.  *)
Before(a) == IF a.split = 0 THEN 0 ELSE Clamp(a.chunk, 0, SplitChunks(a) - 1) * a.split
PageBefore(a) == ClampedPage(a, Grid(a)) * Grid(a).perPage

(* The chunks are the list: each is full but the last.                     *)
LEMMA ChunkShape ==
  ASSUME NEW a, AppOK(a), FilteredHosts(a) # <<>>
  PROVE  LET n == Len(FilteredHosts(a))
             c == Clamp(a.chunk, 0, SplitChunks(a) - 1)
         IN /\ n \in Nat \ {0} /\ Before(a) \in Nat /\ Len(HostIDs(a)) \in Nat \ {0}
            /\ SplitChunks(a) \in Nat /\ Before(a) + Len(HostIDs(a)) <= n
            /\ \A k \in 1 .. n : Before(a) < k /\ k <= Before(a) + Len(HostIDs(a)) =>
                 k - Before(a) \in DOMAIN HostIDs(a) /\ HostIDs(a)[k - Before(a)] = FilteredHosts(a)[k]
            /\ SplitChunks(a) <= 1 => Before(a) = 0 /\ Len(HostIDs(a)) = n
            /\ SplitChunks(a) > 1 =>
                 /\ a.split \in Nat \ {0} /\ c \in 0 .. SplitChunks(a) - 1 /\ Before(a) = c * a.split
                 /\ Len(HostIDs(a)) <= a.split
                 /\ c + 1 < SplitChunks(a) => Before(a) + Len(HostIDs(a)) = (c + 1) * a.split
                 /\ c + 1 = SplitChunks(a) => Before(a) + Len(HostIDs(a)) = n
<1> DEFINE f == FilteredHosts(a)
           n == Len(f)
           chunks == SplitChunks(a)
           c == Clamp(a.chunk, 0, chunks - 1)
           size == a.split
           ids == HostIDs(a)
           m == Len(ids)
           first == Before(a)
<1>1. f \in Seq(NoLimit) /\ n \in Nat \ {0} /\ DOMAIN f = 1 .. n
  <2>1. f \in Seq(NoLimit)
    BY FilteredHostsTyped
  <2> HIDE DEF f
  <2>2. f # <<>>
    BY DEF f
  <2> QED
    BY <2>1, <2>2, EmptySeq
<1>2. ids \in Seq(NoLimit) /\ m \in Nat \ {0} /\ DOMAIN ids = 1 .. m
  <2>1. ids \in Seq(NoLimit) /\ ids # <<>>
    BY HostIDsTyped
  <2> HIDE DEF ids
  <2> QED
    BY <2>1, EmptySeq
<1>3. size \in Nat /\ a.chunk \in Int /\ chunks \in Nat /\ (size > 0 => chunks >= 1)
  <2>1. size \in Nat /\ a.chunk \in Int
    BY DEF AppOK
  <2> QED
    BY <2>1, SplitChunksTyped
<1>4. CASE size = 0
  <2>1. ids = f /\ first = 0 /\ chunks = 0
    BY <1>4 DEF HostIDs, Before, SplitChunks
  <2> HIDE DEF f, ids, first, chunks
  <2>2. \A k \in 1 .. n : k - first = k /\ k \in DOMAIN ids /\ ids[k] = f[k]
    BY <1>1, <1>2, <2>1
  <2>3. m = n /\ first + m = n
    BY <1>1, <1>2, <2>1
  <2>4. ~(chunks > 1)
    BY <2>1
  <2> QED
    BY <1>1, <1>2, <2>1, <2>2, <2>3, <2>4 DEF f, ids, first, chunks
<1>5. CASE size # 0
  <2>1. first = c * size /\ ids = Part(f, first, size)
    BY <1>5 DEF Before, HostIDs
  <2>2. first \in Nat /\ size \in Nat \ {0}
    BY <1>3, <1>5, ChunkStarts DEF Before
  <2>3. chunks = Most(1, CeilDiv(n, size))
    BY <1>5 DEF SplitChunks
  <2>4. c \in 0 .. chunks - 1 /\ chunks >= 1
    BY <1>3, <2>2 DEF Clamp
  <2> HIDE DEF f, ids, first, chunks, c, size
  <2>5. chunks = CeilDiv(n, size) /\ (chunks - 1) * size < n /\ n <= chunks * size
    <3>1. CeilDiv(n, size) \in Nat /\ CeilDiv(n, size) >= 1 /\ (CeilDiv(n, size) - 1) * size < n
      <4>1. n \in Nat /\ size \in Nat /\ size > 0 /\ n > 0
        BY <1>1, <2>2
      <4> QED
        BY <4>1, CeilDivTyped
    <3>2. n <= CeilDiv(n, size) * size
      BY <1>1, <2>2, CeilDivCovers
    <3>3. chunks = CeilDiv(n, size)
      BY <2>3, <3>1 DEF Most
    <3> QED
      BY <3>1, <3>2, <3>3
  <2>6. /\ \A k \in DOMAIN ids : k <= size /\ first + k \in DOMAIN f /\ ids[k] = f[first + k]
        /\ \A k \in 1 .. size : first + k \in DOMAIN f => k \in DOMAIN ids
    <3>1. f \in Seq(NoLimit) /\ first \in Nat /\ size \in Nat
      BY <1>1, <2>2
    <3> DEFINE part == Part(f, first, size)
    <3>2. /\ \A k \in DOMAIN part : k <= size /\ first + k \in DOMAIN f /\ part[k] = f[first + k]
          /\ \A k \in 1 .. size : first + k \in DOMAIN f => k \in DOMAIN part
      BY <3>1, PartIsPart
    <3> HIDE DEF part
    <3>3. ids = part
      BY <2>1 DEF part
    <3> QED
      BY <3>2, <3>3
  <2> HIDE DEF n, m
  <2>7. m <= size /\ first + m <= n
    <3>1. m \in DOMAIN ids
      BY <1>2
    <3>2. m <= size /\ first + m \in 1 .. n
      BY <1>1, <2>6, <3>1
    <3> QED
      BY <3>2
  <2>8. m = size \/ first + m = n
    <3> SUFFICES ASSUME m < size, first + m < n PROVE FALSE
      BY <1>1, <1>2, <2>2, <2>7
    <3>1. m + 1 \in 1 .. size /\ first + (m + 1) \in 1 .. n
      BY <1>1, <1>2, <2>2
    <3>2. m + 1 \in 1 .. m
      BY <1>1, <1>2, <2>6, <3>1
    <3> QED
      BY <1>2, <3>2
  <2>9. ASSUME NEW k \in 1 .. n, first < k, k <= first + m
        PROVE  k - first \in DOMAIN ids /\ ids[k - first] = f[k]
    <3>1. k - first \in 1 .. m /\ first + (k - first) = k
      BY <1>1, <1>2, <2>2, <2>9
    <3> QED
      BY <1>2, <2>6, <3>1
  <2>10. ASSUME c + 1 < chunks PROVE first + m = (c + 1) * size
    <3>1. (c + 1) * size = c * size + size
      BY <2>2, <2>4, Z3
    <3>2. (c + 1) * size <= (chunks - 1) * size
      BY <1>3, <2>2, <2>4, <2>10, Z3
    <3>3. first + size < n
      <4>1. c * size + size <= (chunks - 1) * size /\ first = c * size
        BY <2>1, <3>1, <3>2
      <4> HIDE DEF n
      <4>2. (chunks - 1) * size \in Int
        BY <1>3, <2>2
      <4> QED
        BY <1>1, <2>2, <2>5, <4>1, <4>2
    <3> QED
      BY <1>1, <1>2, <2>1, <2>2, <2>7, <2>8, <3>1, <3>3
  <2>11. ASSUME c + 1 = chunks PROVE first + m = n
    <3>1. n <= (c + 1) * size
      BY <2>5, <2>11
    <3>2. (c + 1) * size = c * size + size
      BY <2>2, <2>4, Z3
    <3> QED
      BY <1>1, <1>2, <2>1, <2>2, <2>7, <2>8, <3>1, <3>2
  <2>12. ASSUME chunks <= 1 PROVE first = 0 /\ m = n
    <3>1. c = 0 /\ c + 1 = chunks
      BY <1>3, <2>4, <2>12
    <3>2. first = 0
      BY <2>1, <2>2, <3>1
    <3> QED
      BY <1>1, <1>2, <2>11, <3>1, <3>2
  <2> QED
    BY <1>1, <1>2, <1>3, <2>1, <2>2, <2>4, <2>7, <2>9, <2>10, <2>11, <2>12
       DEF f, n, chunks, c, size, ids, m, first
<1> QED
  BY <1>4, <1>5

(* The pages are what is shown of the chunk: the slots fill all but the    *)
(* last.                                                                   *)
LEMMA PageShape ==
  ASSUME NEW a, AppOK(a), a.main.w > 0, FilteredHosts(a) # <<>>
  PROVE  LET g == Grid(a)
             p == ClampedPage(a, g)
             ids == HostIDs(a)
             first == PageBefore(a)
         IN /\ g.perPage \in Nat \ {0} /\ g.pages \in Nat \ {0} /\ p \in 0 .. g.pages - 1
            /\ p = IF a.page \in 0 .. g.pages - 1 THEN a.page ELSE p
            /\ first = p * g.perPage /\ first \in Nat /\ p <= first
            /\ GridSlots(a) \in Nat /\ first < GridSlots(a) /\ (g.pages - 1) * g.perPage < GridSlots(a)
            /\ p + 1 < g.pages => first + g.perPage = (p + 1) * g.perPage
            /\ p + 1 = g.pages => first + g.perPage = g.pages * g.perPage
            /\ Len(ids) <= g.pages * g.perPage /\ first < g.pages * g.perPage
            /\ a.kept = Len(ids) => GridSlots(a) = Len(ids)
            /\ \A k \in DOMAIN ids : first < k /\ k <= first + g.perPage => ids[k] \in ToSet(WindowHosts(a))
<1> DEFINE ids == HostIDs(a)
           n == Len(ids)
           q == Grid(a).perPage
           pages == Grid(a).pages
           slots == GridSlots(a)
           p == ClampedPage(a, Grid(a))
           first == PageBefore(a)
<1>1. ids # <<>> /\ ids \in Seq(NoLimit) /\ n \in Nat /\ DOMAIN ids = 1 .. n
  <2>1. ids # <<>> /\ ids \in Seq(NoLimit)
    BY HostIDsTyped
  <2> HIDE DEF ids
  <2> QED
    BY <2>1
<1>2. q \in Nat \ {0} /\ pages = CeilDiv(slots, q)
  BY <1>1, GridFits DEF TilesFit
<1>3. slots \in Nat \ {0}
  BY <1>1, GridSlotsTyped
<1>4. a.kept \in Nat /\ a.page \in Int
  BY DEF AppOK
<1>5. slots = Most(n, a.kept)
  BY DEF GridSlots
<1>6. p = IF pages = 0 THEN 0 ELSE Clamp(a.page, 0, pages - 1)
  BY DEF ClampedPage
<1>7. first = p * q
  BY DEF PageBefore
<1>8. \A k \in DOMAIN ids : first < k /\ k <= first + q => ids[k] \in ToSet(WindowHosts(a))
  <2>1. first = ClampedPage(a, Grid(a)) * Grid(a).perPage
    BY DEF PageBefore
  <2>2. \A k \in DOMAIN ids : first < k /\ k <= first + q =>
          k - first \in DOMAIN WindowHosts(a) /\ WindowHosts(a)[k - first] = ids[k]
    BY <2>1, WindowIsPart
  <2> QED
    BY <2>2 DEF ToSet
<1> HIDE DEF ids, n, q, pages, slots, p, first
<1>9. pages \in Nat \ {0} /\ (pages - 1) * q < slots /\ slots <= pages * q
  <2>1. slots \in Nat /\ q \in Nat /\ q > 0 /\ slots > 0
    BY <1>2, <1>3
  <2>2. CeilDiv(slots, q) \in Nat /\ CeilDiv(slots, q) >= 1 /\ (CeilDiv(slots, q) - 1) * q < slots
    BY <2>1, CeilDivTyped
  <2>3. slots <= CeilDiv(slots, q) * q
    BY <1>2, <2>1, CeilDivCovers
  <2> QED
    BY <1>2, <2>2, <2>3
<1>10. p \in 0 .. pages - 1 /\ p = IF a.page \in 0 .. pages - 1 THEN a.page ELSE p
  BY <1>4, <1>6, <1>9 DEF Clamp
<1>11. first \in Nat /\ p <= first
  BY <1>2, <1>7, <1>9, <1>10, Z3
<1>12. first < slots
  <2>1. p * q <= (pages - 1) * q
    BY <1>2, <1>9, <1>10, Z3
  <2>2. (pages - 1) * q \in Int /\ first <= (pages - 1) * q
    BY <1>2, <1>7, <1>9, <2>1
  <2> QED
    BY <1>3, <1>9, <1>11, <2>2
<1>13. first + q = (p + 1) * q
  BY <1>2, <1>7, <1>10, Z3
<1>14. p + 1 = pages => first + q = pages * q
  BY <1>13
<1>15. n <= slots
  BY <1>1, <1>4, <1>5 DEF Most
<1>16. n <= pages * q /\ first < pages * q
  <2>1. pages * q \in Int
    BY <1>2, <1>9
  <2> QED
    BY <1>1, <1>3, <1>9, <1>11, <1>12, <1>15, <2>1
<1>17. a.kept = n => slots = n
  BY <1>1, <1>5 DEF Most
<1> QED
  BY <1>2, <1>3, <1>7, <1>8, <1>9, <1>10, <1>11, <1>12, <1>13, <1>14, <1>16, <1>17
     DEF ids, n, q, pages, slots, p, first

(* The host at a place of the list is on the page that covers the place.   *)
LEMMA PlaceIsShown ==
  ASSUME NEW a, AppOK(a), a.main.w > 0, FilteredHosts(a) # <<>>, NEW i \in 1 .. Len(FilteredHosts(a)),
         Before(a) + PageBefore(a) < i, i <= Before(a) + PageBefore(a) + Grid(a).perPage,
         i <= Before(a) + Len(HostIDs(a))
  PROVE  FilteredHosts(a)[i] \in ToSet(WindowHosts(a))
<1> DEFINE ids == HostIDs(a)
           m == Len(ids)
           first == Before(a)
           before == PageBefore(a)
           n == Len(FilteredHosts(a))
<1>1. n \in Nat /\ first \in Nat /\ m \in Nat
  BY ChunkShape
<1>2. \A k \in 1 .. n : first < k /\ k <= first + m => k - first \in DOMAIN ids /\ ids[k - first] = FilteredHosts(a)[k]
  BY ChunkShape
<1>3. /\ before \in Nat /\ Grid(a).perPage \in Nat
      /\ \A k \in DOMAIN ids : before < k /\ k <= before + Grid(a).perPage => ids[k] \in ToSet(WindowHosts(a))
  BY PageShape
<1> HIDE DEF ids, m, first, before, n
<1>4. i \in 1 .. n /\ first + before < i /\ i <= first + before + Grid(a).perPage /\ i <= first + m
  BY DEF ids, m, first, before, n
<1>5. first < i
  BY <1>1, <1>3, <1>4
<1>6. i - first \in DOMAIN ids /\ ids[i - first] = FilteredHosts(a)[i]
  BY <1>2, <1>4, <1>5
<1>7. before < i - first /\ i - first <= before + Grid(a).perPage
  BY <1>1, <1>3, <1>4
<1> QED
  BY <1>3, <1>6, <1>7

(* What a step to another page or chunk leaves alone.                      *)
PageFields == {"page", "pane", "limit"}
ViewFields == PageFields \cup {"chunk", "kept"}

(* The end of the message adds nothing to it but the limit.                *)
LEMMA UpdateLaidOut ==
  ASSUME NEW a, AppOK(a), LaidOut(a)
  PROVE  AppOK(Update(a)) /\ LaidOut(Update(a)) /\ Same(a, Update(a), AppFields \ {"limit"})
<1> DEFINE c == SyncLayout(a)
           w == Update(a)
<1>1. DOMAIN a = AppFields
  BY DEF AppOK
<1>2. DOMAIN c = AppFields /\ \A f \in AppFields : c[f] = a[f]
  <2>1. c \in {a, [a EXCEPT !.main = a.main]}
    BY DEF SyncLayout, LaidOut
  <2> HIDE DEF c
  <2> QED
    BY <1>1, <2>1
<1>3. w = SyncLimit(c)
  BY DEF Update
<1>4. AppOK(w) /\ LaidOut(w)
  BY UpdateKeeps DEF Keeps, ScreenOK
<1> HIDE DEF c, w
<1>5. Same(c, w, AppFields \ {"limit"})
  BY <1>2, <1>3, FieldsKept
<1>6. Same(a, w, AppFields \ {"limit"})
  BY <1>2, <1>5 DEF Same
<1> QED
  BY <1>4, <1>6 DEF w

(* One step forward: to the next page of the chunk, from the last page to  *)
(* the next chunk, and round the ends.                                     *)
LEMMA StepLeadsOn ==
  ASSUME NEW a, AppOK(a), LaidOut(a), NEW b, b = Update(StepView(a, 1))
  PROVE  LET g == Grid(a)
             p == ClampedPage(a, g)
             chunks == SplitChunks(a)
         IN /\ AppOK(b) /\ LaidOut(b) /\ Same(a, b, AppFields \ ViewFields)
            /\ p + 1 \in 0 .. g.pages - 1 => Same(a, b, AppFields \ PageFields) /\ b.page = p + 1
            /\ p + 1 \notin 0 .. g.pages - 1 /\ chunks > 1 =>
                 /\ b.page = 0 /\ b.kept = Len(HostIDs(b))
                 /\ b.chunk = (Clamp(a.chunk, 0, chunks - 1) + 1 + chunks) % chunks
            /\ p + 1 \notin 0 .. g.pages - 1 /\ chunks <= 1 /\ g.pages > 1 =>
                 Same(a, b, AppFields \ PageFields) /\ b.page = 0
<1> DEFINE g == Grid(a)
           p == ClampedPage(a, g)
           chunks == SplitChunks(a)
           v == StepView(a, 1)
           over == (Clamp(a.chunk, 0, chunks - 1) + 1 + chunks) % chunks
<1>1. DOMAIN a = AppFields /\ chunks \in Nat /\ g.pages \in Nat
  BY SplitChunksTyped, GridTyped DEF AppOK
<1>2. AppOK(v)
  BY StepViewKeeps DEF Keeps
<1>3. v = StepOn(a, g, p, 1)
  BY DEF StepView
<1>4. \A t : Same(a, ToPage(a, t), AppFields \ PageFields) /\ ToPage(a, t).page = t
  BY <1>1 DEF Same, ToPage, AppFields, PageFields
<1> DEFINE moved == [a EXCEPT !.chunk = over, !.page = 0, !.pane = 0]
           next == ResetGridSlots(moved)
<1>5. StepChunk(a, 1) = next
  BY DEF StepChunk
<1> HIDE DEF over
<1>6. /\ DOMAIN moved = AppFields /\ moved.page = 0 /\ moved.chunk = over
      /\ \A f \in AppFields \ {"chunk", "page", "pane"} : moved[f] = a[f]
  BY <1>1 DEF AppFields
<1> HIDE DEF moved
<1>7. Same(moved, next, AppFields \ {"kept"}) /\ next.kept = Len(HostIDs(moved))
  <2>1. Same(moved, next, AppFields \ {"kept"})
    BY <1>6, FieldsKept
  <2>2. next.kept = Len(HostIDs(moved))
    BY <1>6 DEF ResetGridSlots, AppFields
  <2> QED
    BY <2>1, <2>2
<1> HIDE DEF next
<1>8. HostIDs(next) = HostIDs(moved)
  <2>1. \A f \in ListFields : next[f] = moved[f]
    BY <1>7 DEF Same, ListFields, AppFields
  <2> QED
    BY <2>1, ListUnread
<1>9. /\ Same(a, next, AppFields \ ViewFields) /\ next.page = 0 /\ next.chunk = over
      /\ next.kept = Len(HostIDs(next))
  BY <1>6, <1>7, <1>8 DEF Same, AppFields, PageFields, ViewFields
<1>10. Same(a, a, AppFields)
  BY <1>1 DEF Same
<1> HIDE DEF g, p, chunks, v
<1>11. p + 1 \in 0 .. g.pages - 1 => v = ToPage(a, p + 1)
  <2> SUFFICES ASSUME p + 1 \in 0 .. g.pages - 1, p \in Nat PROVE v = ToPage(a, p + 1)
    <3>1. p \in Nat
      BY <1>1, GridTyped DEF AppOK, p, g, ClampedPage, Clamp
    <3> QED
      BY <3>1
  <2>1. ~(g.pages <= 1)
    BY <1>1
  <2> QED
    BY <1>3, <2>1 DEF StepOn, chunks
<1>12. p + 1 \notin 0 .. g.pages - 1 /\ chunks > 1 => v = next
  <2> SUFFICES ASSUME p + 1 \notin 0 .. g.pages - 1, chunks > 1 PROVE v = next
    OBVIOUS
  <2>1. ~(chunks <= 1)
    BY <1>1
  <2> QED
    BY <1>3, <1>5, <2>1 DEF StepOn, chunks
<1>13. p + 1 \notin 0 .. g.pages - 1 /\ chunks <= 1 /\ g.pages > 1 => v = ToPage(a, 0)
  <2> SUFFICES ASSUME p + 1 \notin 0 .. g.pages - 1, chunks <= 1, g.pages > 1 PROVE v = ToPage(a, 0)
    OBVIOUS
  <2>1. ~(g.pages <= 1) /\ ~(chunks > 1) /\ 1 > 0
    BY <1>1
  <2> QED
    BY <1>3, <2>1 DEF StepOn, chunks
<1>14. v = a \/ v = next \/ \E t : v = ToPage(a, t)
  BY <1>3, <1>5 DEF StepOn
<1>15. Same(a, v, AppFields \ ViewFields)
  BY <1>4, <1>9, <1>10, <1>14 DEF Same, ViewFields
<1>16. LaidOut(v)
  <2>1. v.main = a.main /\ v.term = a.term /\ v.screen = a.screen /\ v.focus = a.focus
    BY <1>15 DEF Same, AppFields, ViewFields, PageFields
  <2> QED
    BY <2>1 DEF LaidOut
<1>17. b = Update(v)
  BY DEF v
<1>18. AppOK(b) /\ LaidOut(b) /\ Same(v, b, AppFields \ {"limit"})
  BY <1>2, <1>16, <1>17, UpdateLaidOut
<1>19. b.page = v.page /\ b.chunk = v.chunk /\ b.kept = v.kept /\ HostIDs(b) = HostIDs(v)
  <2>1. \A f \in ListFields : b[f] = v[f]
    BY <1>18 DEF Same, ListFields, AppFields
  <2>2. b.page = v.page /\ b.chunk = v.chunk /\ b.kept = v.kept
    BY <1>18 DEF Same, AppFields
  <2> QED
    BY <2>1, <2>2, ListUnread
<1>20. Same(a, b, AppFields \ ViewFields)
  BY <1>15, <1>18 DEF Same, ViewFields, PageFields
<1>21. \A t : v = ToPage(a, t) => Same(a, b, AppFields \ PageFields) /\ b.page = t
  <2> SUFFICES ASSUME NEW t, v = ToPage(a, t) PROVE Same(a, b, AppFields \ PageFields) /\ b.page = t
    OBVIOUS
  <2>1. Same(a, v, AppFields \ PageFields) /\ v.page = t
    BY <1>4
  <2> QED
    BY <1>18, <1>19, <2>1 DEF Same, PageFields
<1>22. v = next => b.page = 0 /\ b.kept = Len(HostIDs(b)) /\ b.chunk = over
  BY <1>9, <1>19
<1> QED
  BY <1>11, <1>12, <1>13, <1>18, <1>20, <1>21, <1>22 DEF g, p, chunks, over

Offset(a) == Before(a) + PageBefore(a)

(* How many hosts a walk has in front of it before it shows the place i of *)
(* the list.  The pages of a chunk that keeps slots of hosts that left may *)
(* go past its end; stepping into a chunk drops such slots.                *)
SlotsOver(a) == SplitChunks(a) > 1 /\ a.kept # Len(HostIDs(a))
RoundTrip(a) ==
  IF SplitChunks(a) > 1 THEN Len(FilteredHosts(a)) ELSE Grid(a).pages * Grid(a).perPage
Ahead(a, i) == IF Offset(a) < i THEN i - Offset(a) ELSE RoundTrip(a) - Offset(a) + i
Far(a, i) ==
  IF SlotsOver(a) THEN Len(FilteredHosts(a)) + GridSlots(a) - ClampedPage(a, Grid(a)) ELSE Ahead(a, i)

(* The list and its chunks are those of every step.                        *)
LEMMA StepKeepsList ==
  ASSUME NEW a, NEW b, Same(a, b, AppFields \ ViewFields)
  PROVE  FilteredHosts(b) = FilteredHosts(a) /\ SplitChunks(b) = SplitChunks(a)
<1>1. /\ b.snap = a.snap /\ b.open = a.open /\ b.active = a.active /\ b.split = a.split
      /\ b.filter = a.filter /\ b.match = a.match
  BY DEF Same, AppFields, ViewFields, PageFields
<1>2. SessionHosts(b) = SessionHosts(a)
  BY <1>1 DEF SessionHosts
<1>3. FilteredHosts(b) = FilteredHosts(a)
  BY <1>1, <1>2 DEF FilteredHosts
<1> QED
  BY <1>1, <1>3 DEF SplitChunks

LEMMA PageKeepsGrid ==
  ASSUME NEW a, NEW b, Same(a, b, AppFields \ PageFields)
  PROVE  /\ HostIDs(b) = HostIDs(a) /\ Grid(b) = Grid(a) /\ GridSlots(b) = GridSlots(a)
         /\ Before(b) = Before(a) /\ FilteredHosts(b) = FilteredHosts(a)
         /\ SplitChunks(b) = SplitChunks(a) /\ b.kept = a.kept
<1>1. /\ \A f \in ListFields : b[f] = a[f]
      /\ \A f \in GridFields : b[f] = a[f]
  BY DEF Same, AppFields, ListFields, GridFields, PageFields
<1>2. b.kept = a.kept /\ b.split = a.split /\ b.chunk = a.chunk
  BY DEF Same, AppFields, PageFields
<1>3. /\ FilteredHosts(b) = FilteredHosts(a) /\ SplitChunks(b) = SplitChunks(a)
      /\ HostIDs(b) = HostIDs(a) /\ Grid(b) = Grid(a)
  BY <1>1, ListUnread, GridUnread
<1> QED
  BY <1>2, <1>3 DEF GridSlots, Before

(* The way to a place is no longer than the slots and the list.            *)
LEMMA FarBounded ==
  ASSUME NEW a, AppOK(a), a.main.w > 0, FilteredHosts(a) # <<>>, NEW i \in 1 .. Len(FilteredHosts(a))
  PROVE  /\ Far(a, i) \in Nat /\ Far(a, i) <= GridSlots(a) + Len(FilteredHosts(a))
         /\ SplitChunks(a) > 1 =>
              /\ SlotsOver(a) => Far(a, i) > Len(FilteredHosts(a))
              /\ ~SlotsOver(a) => Far(a, i) <= Len(FilteredHosts(a))
<1> DEFINE n == Len(FilteredHosts(a))
           m == Len(HostIDs(a))
           first == Before(a)
           before == PageBefore(a)
           q == Grid(a).perPage
           pages == Grid(a).pages
           slots == GridSlots(a)
           p == ClampedPage(a, Grid(a))
           room == pages * q
           off == Offset(a)
           far == Far(a, i)
           Bounded == /\ far \in Nat /\ far <= slots + n
                      /\ SplitChunks(a) > 1 =>
                           /\ SlotsOver(a) => far > n
                           /\ ~SlotsOver(a) => far <= n
<1>1. /\ n \in Nat \ {0} /\ first \in Nat /\ m \in Nat /\ first + m <= n /\ SplitChunks(a) \in Nat
      /\ SplitChunks(a) <= 1 => first = 0 /\ m = n
  BY ChunkShape
<1>2. /\ q \in Nat \ {0} /\ pages \in Nat \ {0} /\ p \in 0 .. pages - 1
      /\ before = p * q /\ before \in Nat /\ p <= before /\ slots \in Nat /\ before < slots
      /\ (pages - 1) * q < slots /\ before < room /\ (a.kept = m => slots = m)
  BY PageShape
<1>3. off = first + before
  BY DEF Offset
<1>4. SlotsOver(a) <=> SplitChunks(a) > 1 /\ a.kept # m
  BY DEF SlotsOver
<1>5. /\ SlotsOver(a) => far = n + slots - p
      /\ ~SlotsOver(a) /\ off < i => far = i - off
      /\ ~SlotsOver(a) /\ ~(off < i) =>
           far = (IF SplitChunks(a) > 1 THEN n ELSE room) - off + i
  BY DEF Far, Ahead, RoundTrip
<1> HIDE DEF n, m, first, before, q, pages, slots, p, off, far
<1>6. i \in 1 .. n
  BY DEF n
<1>7. room = (pages - 1) * q + q /\ room \in Nat /\ (pages - 1) * q \in Nat
  BY <1>2, Z3
<1>8. p >= 1 => before >= q
  BY <1>2, Z3
<1> HIDE DEF room
<1>9. ASSUME SlotsOver(a) PROVE Bounded
  <2>1. p \in Nat /\ p < slots /\ far = n + slots - p
    BY <1>2, <1>5, <1>9
  <2> QED
    BY <1>1, <1>2, <1>9, <2>1
<1>10. ASSUME ~SlotsOver(a), off < i PROVE Bounded
  <2>1. off \in Nat /\ far = i - off
    BY <1>1, <1>2, <1>3, <1>5, <1>10
  <2> QED
    BY <1>1, <1>2, <1>6, <1>10, <2>1
<1>11. ASSUME ~SlotsOver(a), ~(off < i), SplitChunks(a) > 1 PROVE Bounded
  <2>1. before < m
    BY <1>2, <1>4, <1>11
  <2>2. off \in Nat /\ off < n /\ i <= off
    BY <1>1, <1>2, <1>3, <1>6, <1>11, <2>1
  <2>3. far = n - off + i
    BY <1>5, <1>11
  <2> QED
    BY <1>1, <1>2, <1>6, <1>11, <2>2, <2>3
<1>12. ASSUME ~SlotsOver(a), ~(off < i), ~(SplitChunks(a) > 1) PROVE Bounded
  <2>1. off = before /\ i <= before
    BY <1>1, <1>2, <1>3, <1>6, <1>12
  <2>2. p >= 1
    <3> SUFFICES ASSUME p = 0 PROVE FALSE
      BY <1>2
    <3>1. before = 0
      BY <1>2
    <3> QED
      BY <1>6, <2>1, <3>1
  <2>3. far = room - before + i
    BY <1>5, <1>12, <2>1
  <2> DEFINE t == (pages - 1) * q
  <2>4. t \in Nat /\ room = t + q /\ t < slots
    BY <1>2, <1>7
  <2> HIDE DEF t
  <2>5. room - before <= t
    BY <1>2, <1>7, <1>8, <2>2, <2>4
  <2> QED
    BY <1>1, <1>2, <1>6, <1>7, <1>12, <2>3, <2>4, <2>5
<1>13. Bounded
  BY <1>9, <1>10, <1>11, <1>12
<1> QED
  BY <1>13 DEF slots, n, far

(* A place the page does not show lies before it or after it.              *)
LEMMA Unshown ==
  ASSUME NEW a, AppOK(a), a.main.w > 0, FilteredHosts(a) # <<>>, NEW i \in 1 .. Len(FilteredHosts(a)),
         FilteredHosts(a)[i] \notin ToSet(WindowHosts(a)), Offset(a) < i
  PROVE  i > Offset(a) + Grid(a).perPage \/ i > Before(a) + Len(HostIDs(a))
<1>1. /\ Before(a) \in Nat /\ Len(HostIDs(a)) \in Nat
  BY ChunkShape
<1>2. PageBefore(a) \in Nat /\ Grid(a).perPage \in Nat
  BY PageShape
<1>3. Offset(a) = Before(a) + PageBefore(a)
  BY DEF Offset
<1>4. i \in Int
  OBVIOUS
<1> SUFFICES ASSUME i <= Offset(a) + Grid(a).perPage, i <= Before(a) + Len(HostIDs(a)) PROVE FALSE
  BY <1>1, <1>2, <1>3, <1>4
<1> QED
  BY <1>3, PlaceIsShown

(* To the next page of the chunk.                                          *)
LEMMA PageCloser ==
  ASSUME NEW a, AppOK(a), a.main.w > 0, FilteredHosts(a) # <<>>, NEW i \in 1 .. Len(FilteredHosts(a)),
         FilteredHosts(a)[i] \notin ToSet(WindowHosts(a)),
         NEW b, AppOK(b), Same(a, b, AppFields \ PageFields),
         ClampedPage(a, Grid(a)) + 1 < Grid(a).pages, b.page = ClampedPage(a, Grid(a)) + 1
  PROVE  Far(b, i) < Far(a, i)
<1> DEFINE n == Len(FilteredHosts(a))
           m == Len(HostIDs(a))
           first == Before(a)
           before == PageBefore(a)
           q == Grid(a).perPage
           pages == Grid(a).pages
           slots == GridSlots(a)
           p == ClampedPage(a, Grid(a))
           off == Offset(a)
           next == Offset(b)
           trip == RoundTrip(a)
<1>1. /\ HostIDs(b) = HostIDs(a) /\ Grid(b) = Grid(a) /\ GridSlots(b) = slots
      /\ Before(b) = first /\ FilteredHosts(b) = FilteredHosts(a)
      /\ SplitChunks(b) = SplitChunks(a) /\ b.kept = a.kept
  BY PageKeepsGrid
<1>2. b.main = a.main /\ b.main.w > 0
  BY DEF Same, AppFields, PageFields
<1>3. /\ n \in Nat \ {0} /\ first \in Nat /\ m \in Nat /\ first + m <= n /\ SplitChunks(a) \in Nat
      /\ SplitChunks(a) <= 1 => first = 0 /\ m = n
  BY ChunkShape
<1>4. /\ q \in Nat \ {0} /\ pages \in Nat \ {0} /\ p \in 0 .. pages - 1 /\ before \in Nat
      /\ before + q = (p + 1) * q /\ slots \in Nat
      /\ before < slots /\ p <= before /\ (a.kept = m => slots = m) /\ before < pages * q
  BY PageShape
<1>5. /\ ClampedPage(b, Grid(b)) \in 0 .. Grid(b).pages - 1
      /\ ClampedPage(b, Grid(b)) = IF b.page \in 0 .. Grid(b).pages - 1 THEN b.page ELSE ClampedPage(b, Grid(b))
      /\ PageBefore(b) = ClampedPage(b, Grid(b)) * Grid(b).perPage
      /\ PageBefore(b) < GridSlots(b) /\ PageBefore(b) < Grid(b).pages * Grid(b).perPage
  BY <1>1, <1>2, PageShape
<1>6. ClampedPage(b, Grid(b)) = p + 1
  <2>1. b.page = p + 1 /\ p + 1 \in 0 .. pages - 1
    BY <1>4
  <2> QED
    BY <1>1, <1>5, <2>1
<1>7. PageBefore(b) = before + q /\ before + q < slots /\ before + q < pages * q
  BY <1>1, <1>4, <1>5, <1>6
<1>8. off = first + before /\ next = off + q
  <2>1. off = first + before /\ next = first + PageBefore(b)
    BY <1>1 DEF Offset
  <2> QED
    BY <1>3, <1>4, <1>7, <2>1
<1>9. RoundTrip(b) = trip
  BY <1>1 DEF RoundTrip
<1>10. SlotsOver(b) <=> SlotsOver(a)
  BY <1>1 DEF SlotsOver
<1>11. i \in 1 .. n
  OBVIOUS
<1>12. off < i => i > off + q \/ i > first + m
  BY Unshown
<1>13. SlotsOver(a) <=> SplitChunks(a) > 1 /\ a.kept # m
  BY DEF SlotsOver
<1>14. /\ SlotsOver(a) => Far(a, i) = n + slots - p /\ Far(b, i) = n + slots - (p + 1)
       /\ ~SlotsOver(a) =>
            /\ Far(a, i) = IF off < i THEN i - off ELSE trip - off + i
            /\ Far(b, i) = IF next < i THEN i - next ELSE trip - next + i
  BY <1>1, <1>6, <1>9, <1>10 DEF Far, Ahead
<1>15. trip \in Int
  BY <1>3, <1>4 DEF RoundTrip
<1> HIDE DEF n, m, first, before, q, pages, slots, p, off, next, trip
<1>16. CASE SlotsOver(a)
  BY <1>3, <1>4, <1>14, <1>16
<1>17. CASE ~SlotsOver(a)
  <2>1. off < i => next < i
    <3> SUFFICES ASSUME off < i, i > first + m PROVE next < i
      BY <1>3, <1>4, <1>8, <1>11, <1>12
    <3>1. SplitChunks(a) > 1
      BY <1>3, <1>11
    <3>2. slots = m
      BY <1>4, <1>13, <1>17, <3>1
    <3> QED
      BY <1>3, <1>4, <1>7, <1>8, <1>11, <3>2
  <2>2. off < next /\ off \in Int /\ next \in Int
    BY <1>3, <1>4, <1>8
  <2>3. CASE off < i
    BY <1>11, <1>14, <1>17, <2>1, <2>2, <2>3
  <2>4. CASE ~(off < i)
    <3>1. ~(next < i)
      BY <1>11, <2>2, <2>4
    <3> QED
      BY <1>11, <1>14, <1>15, <1>17, <2>2, <2>4, <3>1
  <2> QED
    BY <2>3, <2>4
<1> QED
  BY <1>16, <1>17

(* From the last page of a list in one piece to its first.                 *)
LEMMA WrapCloser ==
  ASSUME NEW a, AppOK(a), a.main.w > 0, FilteredHosts(a) # <<>>, NEW i \in 1 .. Len(FilteredHosts(a)),
         FilteredHosts(a)[i] \notin ToSet(WindowHosts(a)),
         NEW b, AppOK(b), Same(a, b, AppFields \ PageFields), SplitChunks(a) <= 1,
         ClampedPage(a, Grid(a)) + 1 = Grid(a).pages, b.page = 0
  PROVE  Far(b, i) < Far(a, i)
<1> DEFINE n == Len(FilteredHosts(a))
           m == Len(HostIDs(a))
           before == PageBefore(a)
           q == Grid(a).perPage
           pages == Grid(a).pages
           room == pages * q
<1>1. /\ HostIDs(b) = HostIDs(a) /\ Grid(b) = Grid(a) /\ GridSlots(b) = GridSlots(a)
      /\ Before(b) = Before(a) /\ FilteredHosts(b) = FilteredHosts(a)
      /\ SplitChunks(b) = SplitChunks(a) /\ b.kept = a.kept
  BY PageKeepsGrid
<1>2. b.main = a.main /\ b.main.w > 0
  BY DEF Same, AppFields, PageFields
<1>3. n \in Nat \ {0} /\ SplitChunks(a) \in Nat /\ Before(a) = 0 /\ m = n
  BY ChunkShape
<1>4. /\ q \in Nat \ {0} /\ pages \in Nat \ {0} /\ before \in Nat
      /\ before + q = room /\ m <= room /\ before < room
  BY PageShape
<1>5. /\ ClampedPage(b, Grid(b)) = IF b.page \in 0 .. Grid(b).pages - 1 THEN b.page ELSE ClampedPage(b, Grid(b))
      /\ PageBefore(b) = ClampedPage(b, Grid(b)) * Grid(b).perPage
  BY <1>1, <1>2, PageShape
<1>6. PageBefore(b) = 0
  <2>1. 0 \in 0 .. pages - 1
    BY <1>4
  <2>2. ClampedPage(b, Grid(b)) = 0
    BY <1>1, <1>5, <2>1
  <2> QED
    BY <1>1, <1>4, <1>5, <2>2
<1>7. Offset(a) = before /\ Offset(b) = 0
  BY <1>1, <1>3, <1>4, <1>6 DEF Offset
<1>8. i \in 1 .. n
  OBVIOUS
<1>9. Offset(a) < i => i > Offset(a) + q \/ i > Before(a) + m
  BY Unshown
<1>10. ~(SplitChunks(a) > 1)
  BY <1>3
<1>11. ~SlotsOver(a) /\ ~SlotsOver(b) /\ RoundTrip(a) = room
  BY <1>1, <1>10 DEF SlotsOver, RoundTrip
<1>12. /\ Far(a, i) = IF before < i THEN i - before ELSE room - before + i
       /\ Far(b, i) = IF 0 < i THEN i - 0 ELSE RoundTrip(b) - 0 + i
  BY <1>7, <1>11 DEF Far, Ahead
<1> HIDE DEF n, m, before, q, pages
<1>13. room \in Nat
  BY <1>4, Z3
<1> HIDE DEF room
<1>14. ~(before < i)
  BY <1>3, <1>4, <1>7, <1>8, <1>9, <1>13
<1>15. Far(a, i) = room - before + i /\ Far(b, i) = i
  BY <1>8, <1>12, <1>14
<1> QED
  BY <1>4, <1>8, <1>13, <1>15

(* Past the last chunk comes the first.                                    *)
LEMMA WrapsRound ==
  ASSUME NEW c \in Nat, NEW n \in Nat, c < n
  PROVE  (c + 1 + n) % n = IF c + 1 = n THEN 0 ELSE c + 1
<1> DEFINE x == c + 1 + n
           q == x \div n
           r == x % n
<1>1. q \in Int /\ r \in 0 .. n - 1 /\ x = n * q + r
  <2>1. n > 0 /\ x \in Int
    OBVIOUS
  <2> HIDE DEF x
  <2> QED
    BY <2>1, Z3
<1> HIDE DEF q, r
<1>2. q > 0
  <2> SUFFICES ASSUME q <= 0 PROVE FALSE
    BY <1>1
  <2>1. n * q <= 0
    BY <1>1, Z3
  <2>2. n * q \in Int
    BY <1>1
  <2> QED
    BY <1>1, <2>1, <2>2
<1>3. CASE c + 1 = n
  <2>1. q < 3
    <3> SUFFICES ASSUME q >= 3 PROVE FALSE
      BY <1>1
    <3>1. n * q >= n * 3
      BY <1>1, Z3
    <3>2. n * q \in Int
      BY <1>1
    <3> QED
      BY <1>1, <1>3, <3>1, <3>2
  <2>2. q # 1
    BY <1>1, <1>3
  <2>3. q = 2
    BY <1>1, <1>2, <2>1, <2>2
  <2> QED
    BY <1>1, <1>3, <2>3 DEF r
<1>4. CASE c + 1 # n
  <2>1. q < 2
    <3> SUFFICES ASSUME q >= 2 PROVE FALSE
      BY <1>1
    <3>1. n * q >= n * 2
      BY <1>1, Z3
    <3>2. n * q \in Int
      BY <1>1
    <3> QED
      BY <1>1, <1>4, <3>1, <3>2
  <2>2. q = 1
    BY <1>1, <1>2, <2>1
  <2> QED
    BY <1>1, <1>4, <2>2 DEF r
<1> QED
  BY <1>3, <1>4

(* From the last page of a chunk to the first of the next chunk.           *)
LEMMA ChunkCloser ==
  ASSUME NEW a, AppOK(a), a.main.w > 0, FilteredHosts(a) # <<>>, NEW i \in 1 .. Len(FilteredHosts(a)),
         FilteredHosts(a)[i] \notin ToSet(WindowHosts(a)),
         NEW b, AppOK(b), Same(a, b, AppFields \ ViewFields), SplitChunks(a) > 1,
         ClampedPage(a, Grid(a)) + 1 = Grid(a).pages,
         b.page = 0, b.kept = Len(HostIDs(b)),
         b.chunk = (Clamp(a.chunk, 0, SplitChunks(a) - 1) + 1 + SplitChunks(a)) % SplitChunks(a)
  PROVE  Far(b, i) < Far(a, i)
<1> DEFINE n == Len(FilteredHosts(a))
           m == Len(HostIDs(a))
           chunks == SplitChunks(a)
           size == a.split
           c == Clamp(a.chunk, 0, chunks - 1)
           over == (c + 1 + chunks) % chunks
           first == Before(a)
           before == PageBefore(a)
           start == Before(b)
           q == Grid(a).perPage
           off == Offset(a)
<1>1. /\ FilteredHosts(b) = FilteredHosts(a) /\ SplitChunks(b) = chunks
  BY StepKeepsList
<1>2. b.main = a.main /\ b.main.w > 0 /\ b.split = size
  BY DEF Same, AppFields, ViewFields, PageFields
<1>3. /\ n \in Nat \ {0} /\ first \in Nat /\ m \in Nat /\ first + m <= n /\ chunks \in Nat
      /\ size \in Nat \ {0} /\ c \in 0 .. chunks - 1 /\ first = c * size
      /\ c + 1 < chunks => first + m = (c + 1) * size
      /\ c + 1 = chunks => first + m = n
  BY ChunkShape
<1>4. /\ q \in Nat \ {0} /\ before \in Nat
      /\ before + q = Grid(a).pages * q /\ m <= Grid(a).pages * q
      /\ before < GridSlots(a) /\ GridSlots(a) \in Nat /\ (a.kept = m => GridSlots(a) = m)
  BY PageShape
<1>5. /\ ClampedPage(b, Grid(b)) = IF b.page \in 0 .. Grid(b).pages - 1 THEN b.page ELSE ClampedPage(b, Grid(b))
      /\ PageBefore(b) = ClampedPage(b, Grid(b)) * Grid(b).perPage
      /\ Grid(b).pages \in Nat \ {0} /\ Grid(b).perPage \in Nat
  BY <1>1, <1>2, PageShape
<1>6. PageBefore(b) = 0
  <2>1. 0 \in 0 .. Grid(b).pages - 1
    BY <1>5
  <2>2. ClampedPage(b, Grid(b)) = 0
    BY <1>5, <2>1
  <2> QED
    BY <1>5, <2>2
<1>7. over = IF c + 1 = chunks THEN 0 ELSE c + 1
  <2>1. c \in Nat /\ chunks \in Nat /\ c < chunks
    <3> HIDE DEF c, chunks
    <3> QED
      BY <1>3
  <2> HIDE DEF c, chunks
  <2> QED
    BY <2>1, WrapsRound
<1>8. b.chunk = over
  OBVIOUS
<1>9. start = over * size
  <2>1. over \in 0 .. chunks - 1 /\ chunks \in Nat
    <3> HIDE DEF over, c, chunks
    <3> QED
      BY <1>3, <1>7
  <2>2. Clamp(b.chunk, 0, chunks - 1) = over
    <3> HIDE DEF over, c, chunks
    <3> QED
      BY <1>8, <2>1 DEF Clamp
  <2> QED
    BY <1>1, <1>2, <1>3, <2>2 DEF Before
<1>10. start = IF c + 1 = chunks THEN 0 ELSE first + m
  <2> HIDE DEF over, c, chunks, first, m, start, size
  <2>1. c + 1 # chunks => c + 1 < chunks
    BY <1>3
  <2> QED
    BY <1>3, <1>7, <1>9, <2>1
<1>11. Offset(b) = start
  <2>1. start \in Nat
    BY <1>3, <1>10
  <2> QED
    BY <1>6, <2>1 DEF Offset
<1>12. off = first + before
  BY DEF Offset
<1>13. i \in 1 .. n
  OBVIOUS
<1>14. off < i => i > off + q \/ i > first + m
  BY Unshown
<1>15. ~SlotsOver(b) /\ RoundTrip(a) = n /\ RoundTrip(b) = n
  BY <1>1 DEF SlotsOver, RoundTrip
<1>16. /\ ~SlotsOver(a) => Far(a, i) = IF off < i THEN i - off ELSE n - off + i
       /\ Far(b, i) = IF start < i THEN i - start ELSE n - start + i
  BY <1>11, <1>15 DEF Far, Ahead
<1>17. SlotsOver(a) <=> a.kept # m
  BY DEF SlotsOver
<1>18. SlotsOver(a) => Far(a, i) > n
  BY FarBounded
<1>19. Far(b, i) <= n /\ Far(b, i) \in Nat
  BY <1>1, <1>2, <1>15, FarBounded
<1>20. Far(a, i) \in Nat
  BY FarBounded
<1> DEFINE room == Grid(a).pages * q
<1>21. before + q = room /\ m <= room
  BY <1>4
<1> HIDE DEF n, m, chunks, size, c, over, first, before, start, q, off, room
<1>22. CASE SlotsOver(a)
  BY <1>3, <1>18, <1>19, <1>20, <1>22
<1>23. CASE ~SlotsOver(a)
  <2>1. before < m
    BY <1>4, <1>17, <1>23
  <2>2. off < first + m /\ off \in Nat
    BY <1>3, <1>4, <1>12, <2>1
  <2>3. m <= before + q
    BY <1>21
  <2>4. off < i => i > first + m
    BY <1>3, <1>4, <1>12, <1>13, <1>14, <2>2, <2>3
  <2>5. CASE c + 1 = chunks
    <3>1. start = 0 /\ first + m = n
      BY <1>3, <1>10, <2>5
    <3>2. ~(off < i)
      BY <1>3, <1>13, <2>4, <3>1
    <3>3. Far(a, i) = n - off + i /\ Far(b, i) = i
      BY <1>13, <1>16, <1>23, <3>1, <3>2
    <3> QED
      BY <1>3, <1>13, <2>2, <3>1, <3>3
  <2>6. CASE c + 1 # chunks
    <3>1. start = first + m /\ start \in Nat /\ off < start
      BY <1>3, <1>10, <2>2, <2>6
    <3>2. CASE off < i
      <4>1. Far(a, i) = i - off /\ Far(b, i) = i - start
        BY <1>13, <1>16, <1>23, <2>4, <3>1, <3>2
      <4> QED
        BY <1>13, <2>2, <3>1, <4>1
    <3>3. CASE ~(off < i)
      <4>1. ~(start < i)
        BY <1>13, <2>2, <3>1, <3>3
      <4>2. Far(a, i) = n - off + i /\ Far(b, i) = n - start + i
        BY <1>16, <1>23, <3>3, <4>1
      <4> QED
        BY <1>3, <1>13, <2>2, <3>1, <4>2
    <3> QED
      BY <3>2, <3>3
  <2> QED
    BY <2>5, <2>6
<1> QED
  BY <1>22, <1>23

(* Every step towards a place that is not shown comes closer to it, and    *)
(* leaves the list as it is.                                               *)
Walks(a, b) ==
  AppOK(b) /\ LaidOut(b) /\ b.main.w > 0 /\ FilteredHosts(b) = FilteredHosts(a)

LEMMA StepsCloser ==
  ASSUME NEW a, AppOK(a), LaidOut(a), a.main.w > 0, FilteredHosts(a) # <<>>,
         NEW i \in 1 .. Len(FilteredHosts(a)), FilteredHosts(a)[i] \notin ToSet(WindowHosts(a)),
         NEW b, b = Update(StepView(a, 1))
  PROVE  Walks(a, b) /\ Far(b, i) < Far(a, i)
<1> DEFINE g == Grid(a)
           p == ClampedPage(a, g)
           chunks == SplitChunks(a)
<1>1. /\ AppOK(b) /\ LaidOut(b) /\ Same(a, b, AppFields \ ViewFields)
      /\ p + 1 \in 0 .. g.pages - 1 => Same(a, b, AppFields \ PageFields) /\ b.page = p + 1
      /\ p + 1 \notin 0 .. g.pages - 1 /\ chunks > 1 =>
           /\ b.page = 0 /\ b.kept = Len(HostIDs(b))
           /\ b.chunk = (Clamp(a.chunk, 0, chunks - 1) + 1 + chunks) % chunks
      /\ p + 1 \notin 0 .. g.pages - 1 /\ chunks <= 1 /\ g.pages > 1 =>
           Same(a, b, AppFields \ PageFields) /\ b.page = 0
  BY StepLeadsOn
<1>2. FilteredHosts(b) = FilteredHosts(a)
  BY <1>1, StepKeepsList
<1>3. b.main.w > 0
  <2>1. b.main = a.main
    BY <1>1 DEF Same, AppFields, ViewFields, PageFields
  <2> QED
    BY <2>1
<1>4. /\ g.pages \in Nat \ {0} /\ p \in 0 .. g.pages - 1 /\ chunks \in Nat
  <2>1. g.pages \in Nat \ {0} /\ p \in 0 .. g.pages - 1
    BY PageShape
  <2> QED
    BY <2>1, SplitChunksTyped
<1> HIDE DEF g, p, chunks
<1>5. CASE p + 1 < g.pages
  <2>1. p + 1 \in 0 .. g.pages - 1
    BY <1>4, <1>5
  <2> QED
    BY <1>1, <1>2, <1>3, <1>5, <2>1, PageCloser DEF g, p, Walks
<1>6. CASE p + 1 = g.pages /\ chunks > 1
  <2>1. p + 1 \notin 0 .. g.pages - 1
    BY <1>4, <1>6
  <2> QED
    BY <1>1, <1>2, <1>3, <1>6, <2>1, ChunkCloser DEF g, p, chunks, Walks
<1>7. CASE p + 1 = g.pages /\ chunks <= 1 /\ g.pages > 1
  <2>1. p + 1 \notin 0 .. g.pages - 1
    BY <1>4, <1>7
  <2> QED
    BY <1>1, <1>2, <1>3, <1>7, <2>1, WrapCloser DEF g, p, chunks, Walks
<1>8. CASE p + 1 = g.pages /\ chunks <= 1 /\ g.pages <= 1
  <2>1. p = 0 /\ g.pages = 1
    BY <1>4, <1>8
  <2> DEFINE n == Len(FilteredHosts(a))
             m == Len(HostIDs(a))
             before == PageBefore(a)
             q == g.perPage
  <2>2. n \in Nat /\ m = n /\ Before(a) = 0
    BY <1>8, ChunkShape DEF chunks
  <2>3. before = p * q /\ q \in Nat /\ m <= g.pages * q
    BY PageShape DEF g, p
  <2>4. i \in 1 .. n
    OBVIOUS
  <2> HIDE DEF n, m, before, q
  <2>5. before = 0 /\ m <= q
    BY <2>1, <2>3
  <2>6. Before(a) + before = 0 /\ Before(a) + m = n
    BY <2>2, <2>5
  <2>7. Before(a) + PageBefore(a) < i /\ i <= Before(a) + PageBefore(a) + Grid(a).perPage /\ i <= Before(a) + Len(HostIDs(a))
    BY <2>2, <2>3, <2>4, <2>5, <2>6 DEF n, m, before, q, g
  <2> QED
    BY <2>7, PlaceIsShown
<1> QED
  BY <1>4, <1>5, <1>6, <1>7, <1>8

(* The first n views of a walk from a.                                     *)
IsWalk(f, a, n) ==
  /\ f = [k \in 0 .. n |-> f[k]] /\ f[0] = a
  /\ \A k \in 1 .. n : f[k] = Update(StepView(f[k - 1], 1))

(* A walk can be taken as far as wanted.                                   *)
LEMMA WalkExists ==
  ASSUME NEW a, NEW n \in Nat
  PROVE  \E f : IsWalk(f, a, n)
<1> DEFINE T == {k \in Nat : ~ \E f : IsWalk(f, a, k)}
<1> SUFFICES ASSUME T # {} PROVE FALSE
  OBVIOUS
<1>1. T \subseteq Nat
  OBVIOUS
<1> HIDE DEF T
<1>2. PICK k \in T : \A j \in T : k <= j
  BY <1>1, LeastNat
<1>3. k \in Nat /\ ~ \E f : IsWalk(f, a, k)
  BY <1>2 DEF T
<1>4. CASE k = 0
  <2> DEFINE f == [j \in 0 .. 0 |-> a]
  <2>1. f = [j \in 0 .. 0 |-> f[j]] /\ f[0] = a
    OBVIOUS
  <2> HIDE DEF f
  <2>2. IsWalk(f, a, 0)
    BY <2>1 DEF IsWalk
  <2> QED
    BY <1>3, <1>4, <2>2
<1>5. CASE k # 0
  <2>1. k - 1 \in Nat /\ ~(k <= k - 1)
    BY <1>3, <1>5
  <2>2. k - 1 \notin T
    BY <1>2, <2>1
  <2>3. PICK f : IsWalk(f, a, k - 1)
    BY <2>1, <2>2 DEF T
  <2> DEFINE g == [j \in 0 .. k |-> IF j = k THEN Update(StepView(f[k - 1], 1)) ELSE f[j]]
  <2>4. g = [j \in 0 .. k |-> g[j]]
    OBVIOUS
  <2>5. /\ \A j \in 0 .. k - 1 : g[j] = f[j]
        /\ g[k] = Update(StepView(f[k - 1], 1))
    <3>1. k \in 0 .. k
      BY <1>3
    <3>2. \A j \in 0 .. k - 1 : j \in 0 .. k /\ j # k
      BY <1>3
    <3> QED
      BY <3>1, <3>2
  <2> HIDE DEF g
  <2>6. g[0] = a
    <3>1. 0 \in 0 .. k - 1
      BY <2>1
    <3> QED
      BY <2>3, <2>5, <3>1 DEF IsWalk
  <2>7. ASSUME NEW j \in 1 .. k PROVE g[j] = Update(StepView(g[j - 1], 1))
    <3>1. j - 1 \in 0 .. k - 1 /\ g[j - 1] = f[j - 1]
      <4>1. j - 1 \in 0 .. k - 1
        BY <1>3
      <4> QED
        BY <2>5, <4>1
    <3>2. CASE j = k
      BY <2>5, <3>1, <3>2
    <3>3. CASE j # k
      <4>1. j \in 1 .. k - 1 /\ j \in 0 .. k - 1
        BY <1>3, <3>3
      <4>2. f[j] = Update(StepView(f[j - 1], 1))
        BY <2>3, <4>1 DEF IsWalk
      <4> QED
        BY <2>5, <3>1, <4>1, <4>2
    <3> QED
      BY <3>2, <3>3
  <2>8. IsWalk(g, a, k)
    BY <2>4, <2>6, <2>7 DEF IsWalk
  <2> QED
    BY <1>3, <2>8
<1> QED
  BY <1>4, <1>5

(* The views are the walk of the application.                              *)
LEMMA ViewsWalk ==
  ASSUME Rounds \in Nat
  PROVE  IsWalk(Views, app, Rounds)
<1>1. PICK f : IsWalk(f, app, Rounds)
  BY WalkExists
<1>2. f = [n \in 0 .. Rounds |-> IF n = 0 THEN app ELSE Update(StepView(f[n - 1], 1))]
  <2>1. ASSUME NEW n \in 0 .. Rounds
        PROVE  f[n] = IF n = 0 THEN app ELSE Update(StepView(f[n - 1], 1))
    <3>1. n # 0 => n \in 1 .. Rounds
      OBVIOUS
    <3> QED
      BY <1>1, <3>1 DEF IsWalk
  <2>2. f = [n \in 0 .. Rounds |-> f[n]]
    BY <1>1 DEF IsWalk
  <2>3. [n \in 0 .. Rounds |-> f[n]]
          = [n \in 0 .. Rounds |-> IF n = 0 THEN app ELSE Update(StepView(f[n - 1], 1))]
    BY <2>1
  <2> QED
    BY <2>2, <2>3
<1>3. Views = [n \in 0 .. Rounds |-> IF n = 0 THEN app ELSE Update(StepView(Views[n - 1], 1))]
  BY <1>2 DEF Views
<1>4. Views[0] = app
  BY <1>3
<1>5. ASSUME NEW k \in 1 .. Rounds PROVE Views[k] = Update(StepView(Views[k - 1], 1))
  <2>1. k \in 0 .. Rounds /\ k # 0
    OBVIOUS
  <2> QED
    BY <1>3, <2>1
<1>6. Views = [k \in 0 .. Rounds |-> Views[k]]
  <2> DEFINE e == [n \in 0 .. Rounds |-> IF n = 0 THEN app ELSE Update(StepView(Views[n - 1], 1))]
  <2>1. e = [k \in 0 .. Rounds |-> e[k]]
    OBVIOUS
  <2>2. Views = e
    BY <1>3
  <2> HIDE DEF e
  <2> QED
    BY <2>1, <2>2
<1> QED
  BY <1>4, <1>5, <1>6 DEF IsWalk

(* Stepping the view brings every host of the list on screen: a step that  *)
(* does not show it comes closer, and the way there is never longer than   *)
(* the slots of the grid and the list.                                     *)
LEMMA WalkShows ==
  ASSUME NEW a, AppOK(a), LaidOut(a), a.main.w > 0, FilteredHosts(a) # <<>>,
         NEW i \in 1 .. Len(FilteredHosts(a)), NEW n \in Nat, Far(a, i) <= n, NEW f, IsWalk(f, a, n)
  PROVE  \E k \in 0 .. n : FilteredHosts(a)[i] \in ToSet(WindowHosts(f[k]))
<1> SUFFICES ASSUME \A k \in 0 .. n : FilteredHosts(a)[i] \notin ToSet(WindowHosts(f[k]))
             PROVE  FALSE
  OBVIOUS
<1> DEFINE T == {t \in Nat : \E k \in 0 .. n : Walks(a, f[k]) /\ Far(f[k], i) = t /\ k + t <= n}
<1>1. T \subseteq Nat
  OBVIOUS
<1>2. Far(a, i) \in T
  <2>1. Walks(a, f[0]) /\ f[0] = a
    BY DEF Walks, IsWalk
  <2>2. Far(a, i) \in Nat
    BY FarBounded
  <2>3. 0 \in 0 .. n /\ 0 + Far(a, i) <= n
    BY <2>2
  <2> QED
    BY <2>1, <2>2, <2>3
<1> HIDE DEF T
<1>3. PICK t \in T : \A u \in T : t <= u
  BY <1>1, <1>2, LeastNat
<1>4. t \in Nat /\ \E k \in 0 .. n : Walks(a, f[k]) /\ Far(f[k], i) = t /\ k + t <= n
  BY <1>3 DEF T
<1>5. PICK k \in 0 .. n : Walks(a, f[k]) /\ Far(f[k], i) = t /\ k + t <= n
  BY <1>4
<1> DEFINE v == f[k]
           w == Update(StepView(v, 1))
<1>6. /\ AppOK(v) /\ LaidOut(v) /\ v.main.w > 0 /\ FilteredHosts(v) = FilteredHosts(a)
      /\ FilteredHosts(v)[i] \notin ToSet(WindowHosts(v))
  BY <1>5 DEF Walks
<1> HIDE DEF v
<1>7. Walks(v, w) /\ Far(w, i) < Far(v, i)
  BY <1>6, StepsCloser
<1>8. Walks(a, w) /\ Far(w, i) \in Nat
  <2>1. Walks(a, w)
    BY <1>6, <1>7 DEF Walks
  <2>2. AppOK(w) /\ w.main.w > 0 /\ FilteredHosts(w) = FilteredHosts(a)
    BY <2>1 DEF Walks
  <2> HIDE DEF w
  <2>3. Far(w, i) \in Nat
    BY <2>2, FarBounded
  <2> QED
    BY <2>1, <2>3
<1> HIDE DEF w
<1>9. Far(v, i) = t
  BY <1>5 DEF v
<1>10. k + 1 \in 1 .. n /\ k + 1 \in 0 .. n /\ (k + 1) + Far(w, i) <= n /\ (k + 1) - 1 = k
  BY <1>4, <1>5, <1>7, <1>8, <1>9
<1>11. f[k + 1] = w
  BY <1>10 DEF IsWalk, w, v
<1>12. Far(w, i) \in T
  BY <1>8, <1>10, <1>11 DEF T
<1> QED
  BY <1>3, <1>4, <1>7, <1>8, <1>9, <1>12

(* Stepping the view brings every host of the session on screen, through   *)
(* pages, chunks, holes and filters, in no more steps than the grid has    *)
(* slots and the list has hosts; and what is drawn is found by a click.    *)
(* (stepView, TileGrid, cells and paneAt.)                                 *)
THEOREM PanesReached == PanesSpec => []EveryPaneReachable
<1>1. ASSUME PanesInv PROVE EveryHostSteppedTo
  <2> SUFFICES ASSUME Sized, NEW h \in Real(FilteredHosts(app))
               PROVE  \E k \in 0 .. Rounds : h \in Real(WindowHosts(Views[k]))
    BY DEF EveryHostSteppedTo
  <2> DEFINE list == FilteredHosts(app)
  <2>1. AppOK(app) /\ LaidOut(app) /\ app.main.w > 0
    BY <1>1 DEF PanesInv, ScreenOK, Sized
  <2>2. list \in Seq(NoLimit)
    BY <2>1, FilteredHostsTyped
  <2>3. GridSlots(app) \in Nat
    BY <2>1, GridSlotsTyped
  <2> HIDE DEF list
  <2>4. h # Hole /\ h \in ToSet(list)
    BY DEF Real, list
  <2>5. PICK i \in 1 .. Len(list) : list[i] = h
    BY <2>2, <2>4 DEF ToSet
  <2>6. list # <<>> /\ Len(list) \in Nat
    BY <2>2, <2>5
  <2>7. Rounds \in Nat /\ Rounds = GridSlots(app) + Len(list)
    BY <2>3, <2>6 DEF Rounds, list
  <2>8. Far(app, i) <= Rounds
    BY <2>1, <2>5, <2>6, <2>7, FarBounded DEF list
  <2>9. IsWalk(Views, app, Rounds)
    BY <2>7, ViewsWalk
  <2>10. \E k \in 0 .. Rounds : list[i] \in ToSet(WindowHosts(Views[k]))
    BY <2>1, <2>5, <2>6, <2>7, <2>8, <2>9, WalkShows DEF list
  <2> QED
    BY <2>4, <2>5, <2>10 DEF Real
<1>2. PanesInv => EveryHostSteppedTo
  BY <1>1
<1> QED
  BY <1>2, PanesInvInductive, ClicksHit, PTL DEF EveryPaneReachable
=============================================================================
