---------------------------- MODULE LoginProofs ----------------------------
(***************************************************************************)
(* Two facts about what the dials of a run share, for any sessions on any  *)
(* machines, any number of attempts and any number of edits: the verifier  *)
(* knows what the files hold whenever it claims to be as new as they are,  *)
(* and a confirmed key is not asked about again.                           *)
(***************************************************************************)
EXTENDS Login, TLAPS

(* A stamp is never used twice, and only files that are there have one.    *)
StampInv ==
  /\ file.stamp <= changes /\ known.stamp <= changes
  /\ \A d \in Dial : stamp[d] <= changes
  /\ file.stamp = Missing => file.keys = NoKeys
  /\ known.stamp = Missing => known.keys = NoKeys

(* What Add has recorded is accepted, and stays so.                        *)
AcceptedInv ==
  /\ confirmed \subseteq accepted
  /\ \A d \in Dial : settled[d] \subseteq confirmed

IInv == EditsAreNoticed /\ StampInv /\ AcceptedInv /\ ConfirmedStays

LEMMA InitIInv == Init => IInv
<1> SUFFICES ASSUME Init PROVE IInv
  OBVIOUS
<1>1. NoKeys \in [Machine -> Record]
  BY DEF NoKeys, Record
<1>2. file \in [stamp : Nat, keys : [Machine -> Record]] /\ (file.stamp = Missing => file.keys = NoKeys)
  <2>1. CASE file = [stamp |-> Missing, keys |-> NoKeys]
    BY <1>1, <2>1 DEF Missing
  <2>2. CASE file \in {[stamp |-> 1, keys |-> [m \in Machine |-> k]] : k \in Record}
    BY <2>2 DEF Missing
  <2> QED
    BY <2>1, <2>2 DEF Init
<1>3. TypeOK
  BY <1>2, SetupsAssumption DEF Init, TypeOK, Missing, Secret
<1>4. EditsAreNoticed
  BY <1>3 DEF Init, EditsAreNoticed
<1>5. StampInv
  BY <1>2 DEF Init, StampInv, Missing
<1>6. AcceptedInv /\ ConfirmedStays
  BY DEF Init, AcceptedInv, ConfirmedStays
<1> QED
  BY <1>4, <1>5, <1>6 DEF IInv

-----------------------------------------------------------------------------
(* Steps that leave the keys alone and ask about none.                     *)
Quiet(d) ==
  /\ UNCHANGED <<setup, machine, keyVars, settled>>
  /\ secrets' \in [phrase : Secret, word : [Machine -> Secret]]
  /\ method' \in [Dial -> {"password", "interactive"}]
  /\ held' \in [Dial -> Secret]
  /\ stamp' \in [Dial -> Nat] /\ \A e \in Dial : stamp'[e] \in {stamp[e], file.stamp}
  /\ pc' \in [Dial -> Key \cup Auth \cup Asking \cup Ended \cup {"off"}]
  /\ \A e \in Dial : pc'[e] = "askkey" => pc[e] = "askkey"

LEMMA QuietKeepsIInv ==
  ASSUME NEW d \in Dial, IInv, Quiet(d)
  PROVE  IInv'
<1>1. TypeOK'
  BY DEF IInv, EditsAreNoticed, TypeOK, Quiet, keyVars
<1>2. EditsAreNoticed'
  BY <1>1 DEF IInv, EditsAreNoticed, Quiet, keyVars
<1>3. StampInv'
  BY DEF IInv, StampInv, EditsAreNoticed, TypeOK, Quiet, keyVars, NoKeys
<1>4. AcceptedInv' /\ ConfirmedStays'
  BY DEF IInv, AcceptedInv, ConfirmedStays, Quiet, keyVars
<1> QED
  BY <1>1, <1>2, <1>3, <1>4 DEF IInv

LEMMA ControlIsQuiet ==
  ASSUME NEW d \in Dial, TypeOK,
         \/ Breaks(d) \/ Stats(d) \/ Compares(d) \/ Snaps(d) \/ LoadFails(d) \/ SnapsAgain(d)
         \/ AnswersKey(d) \/ AnswersPhrase(d) \/ AnswersOther(d) \/ AnswersSecret(d)
         \/ Identity(d) \/ KeepsPhrase(d) \/ Decrypts(d) \/ Forgets(d)
         \/ Offers(d) \/ LooksUp(d) \/ Stores(d) \/ Tries(d)
  PROVE  Quiet(d)
<1> USE DEF TypeOK, Quiet, Goes, Reads, Key, Auth, Asking, Ended, keyVars
<1>1. CASE Breaks(d)
  BY <1>1 DEF Breaks, Secret
<1>2. CASE Stats(d) \/ Snaps(d) \/ SnapsAgain(d)
  BY <1>2 DEF Stats, Snaps, SnapsAgain
<1>3. CASE Compares(d)
  BY <1>3 DEF Compares
<1>4. CASE LoadFails(d)
  BY <1>4 DEF LoadFails
<1>5. CASE AnswersKey(d)
  BY <1>5 DEF AnswersKey
<1>6. CASE AnswersPhrase(d)
  BY <1>6 DEF AnswersPhrase
<1>7. CASE AnswersOther(d)
  BY <1>7 DEF AnswersOther
<1>8. CASE AnswersSecret(d)
  BY <1>8 DEF AnswersSecret, NextMethod
<1>9. CASE Identity(d)
  BY <1>9 DEF Identity
<1>10. CASE KeepsPhrase(d)
  BY <1>10 DEF KeepsPhrase
<1>11. CASE Decrypts(d)
  BY <1>11 DEF Decrypts, Secret
<1>12. CASE Forgets(d)
  BY <1>12 DEF Forgets, Secret
<1>13. CASE Offers(d)
  BY <1>13 DEF Offers, NextMethod
<1>14. CASE LooksUp(d)
  BY <1>14 DEF LooksUp
<1>15. CASE Stores(d)
  BY <1>15 DEF Stores
<1>16. CASE Tries(d)
  BY <1>16 DEF Tries, NextMethod, Secret
<1> QED
  BY <1>1, <1>2, <1>3, <1>4, <1>5, <1>6, <1>7, <1>8, <1>9, <1>10, <1>11, <1>12, <1>13, <1>14, <1>15, <1>16

-----------------------------------------------------------------------------
(* A new attempt takes note of what is confirmed by now.                   *)
LEMMA DialsKeepIInv ==
  ASSUME NEW d \in Dial, IInv, Dials(d)
  PROVE  IInv'
<1> USE DEF IInv
<1>1. EditsAreNoticed'
  BY DEF EditsAreNoticed, TypeOK, Dials, keyVars, Key, Auth, Asking, Ended
<1>2. StampInv'
  BY DEF StampInv, Dials, keyVars, NoKeys
<1>3. AcceptedInv'
  BY DEF AcceptedInv, EditsAreNoticed, TypeOK, Dials, keyVars
<1>4. ConfirmedStays'
  BY DEF ConfirmedStays, EditsAreNoticed, TypeOK, Dials, keyVars
<1> QED
  BY <1>1, <1>2, <1>3, <1>4

(* A reload takes the stamp read before with the keys that are there now:  *)
(* if that stamp is still the files', so are the keys.                     *)
LEMMA RebuildsKeepEdits ==
  ASSUME NEW d \in Dial, EditsAreNoticed, StampInv, Rebuilds(d), UNCHANGED <<file, changes>>
  PROVE  /\ known' \in [stamp : Nat, keys : [Machine -> Record]]
         /\ known'.stamp = file.stamp => known'.keys = file.keys
         /\ known'.stamp <= changes
         /\ known'.stamp = Missing => known'.keys = NoKeys
<1>1. NoKeys \in [Machine -> Record]
  BY DEF NoKeys, Record
<1>2. CASE stamp[d] = Missing
  BY <1>1, <1>2 DEF EditsAreNoticed, TypeOK, StampInv, Rebuilds, Missing
<1>3. CASE stamp[d] # Missing
  BY <1>3 DEF EditsAreNoticed, TypeOK, StampInv, Rebuilds, Missing
<1> QED
  BY <1>2, <1>3

LEMMA LoadsKeepIInv ==
  ASSUME NEW d \in Dial, IInv, Loads(d) \/ LoadsAgain(d)
  PROVE  IInv'
<1> USE DEF IInv
<1>1. Rebuilds(d) /\ UNCHANGED <<file, changes>>
  BY DEF Loads, LoadsAgain
<1>2. /\ known' \in [stamp : Nat, keys : [Machine -> Record]]
      /\ known'.stamp = file.stamp => known'.keys = file.keys
      /\ known'.stamp <= changes
      /\ known'.stamp = Missing => known'.keys = NoKeys
  BY <1>1, RebuildsKeepEdits
<1>3. pc' \in [Dial -> Key \cup Auth \cup Asking \cup Ended \cup {"off"}]
  BY DEF EditsAreNoticed, TypeOK, Loads, LoadsAgain, Goes, Key, Auth
<1>4. UNCHANGED <<setup, machine, tries, stamp, method, held, file, changes, accepted, confirmed, edits, secrets, settled>>
  BY DEF Loads, LoadsAgain
<1>5. EditsAreNoticed'
  BY <1>2, <1>3, <1>4 DEF EditsAreNoticed, TypeOK
<1>6. StampInv'
  BY <1>2, <1>4 DEF StampInv, NoKeys
<1>7. \A e \in Dial : pc'[e] = "askkey" => pc[e] = "askkey"
  BY DEF EditsAreNoticed, TypeOK, Loads, LoadsAgain, Goes
<1>8. AcceptedInv' /\ ConfirmedStays'
  BY <1>4, <1>7 DEF AcceptedInv, ConfirmedStays
<1> QED
  BY <1>5, <1>6, <1>8

(* Only a key that was not accepted is asked about, and what was confirmed *)
(* before the attempt began has been accepted since.                       *)
LEMMA LooksKeepsIInv ==
  ASSUME NEW d \in Dial, IInv, Looks(d)
  PROVE  IInv'
<1> USE DEF IInv
<1>1. EditsAreNoticed'
  BY DEF EditsAreNoticed, TypeOK, Looks, Goes, keyVars, Key, Auth, Asking, Ended
<1>2. StampInv'
  BY DEF StampInv, Looks, keyVars, NoKeys
<1>3. AcceptedInv'
  BY DEF AcceptedInv, Looks, keyVars
<1>4. ConfirmedStays'
  <2> SUFFICES ASSUME NEW e \in Dial, pc'[e] = "askkey"
               PROVE  machine[e] \notin settled[e]
    BY DEF ConfirmedStays, Looks
  <2>1. CASE e = d
    BY <2>1 DEF AcceptedInv, EditsAreNoticed, TypeOK, Looks, Goes
  <2>2. CASE e # d
    BY <2>2 DEF ConfirmedStays, EditsAreNoticed, TypeOK, Looks, Goes
  <2> QED
    BY <2>1, <2>2
<1> QED
  BY <1>1, <1>2, <1>3, <1>4

(* What is written gets a stamp the verifier cannot have.                  *)
LEMMA ChangesKeepEdits ==
  ASSUME NEW keys \in [Machine -> Record], EditsAreNoticed, StampInv, Changes(keys),
         UNCHANGED <<known, stamp>>
  PROVE  /\ file' \in [stamp : Nat, keys : [Machine -> Record]] /\ changes' \in Nat
         /\ known.stamp # file'.stamp
         /\ StampInv'
  BY DEF EditsAreNoticed, TypeOK, StampInv, Changes, Missing, NoKeys

LEMMA AppendsKeepsIInv ==
  ASSUME NEW d \in Dial, IInv, Appends(d)
  PROVE  IInv'
<1> USE DEF IInv
<1>1. pc' \in [Dial -> Key \cup Auth \cup Asking \cup Ended \cup {"off"}]
  BY DEF EditsAreNoticed, TypeOK, Appends, Goes, Key, Ended
<1>2. \A e \in Dial : pc'[e] = "askkey" => pc[e] = "askkey"
  BY DEF EditsAreNoticed, TypeOK, Appends, Goes
<1>3. EditsAreNoticed' /\ StampInv'
  <2>1. CASE UNCHANGED <<file, changes>>
    BY <1>1, <2>1 DEF EditsAreNoticed, StampInv, TypeOK, Appends, NoKeys
  <2>2. CASE Changes([file.keys EXCEPT ![machine[d]] = "this"])
    <3>1. [file.keys EXCEPT ![machine[d]] = "this"] \in [Machine -> Record]
      BY DEF EditsAreNoticed, TypeOK, Record
    <3>2. /\ file' \in [stamp : Nat, keys : [Machine -> Record]] /\ changes' \in Nat
          /\ known.stamp # file'.stamp
          /\ StampInv'
      BY <2>2, <3>1, ChangesKeepEdits DEF Appends
    <3> QED
      BY <1>1, <3>2 DEF EditsAreNoticed, TypeOK, Appends
  <2> QED
    BY <2>1, <2>2 DEF Appends
<1>4. AcceptedInv' /\ ConfirmedStays'
  BY <1>2 DEF AcceptedInv, ConfirmedStays, Appends
<1> QED
  BY <1>3, <1>4

LEMMA AcceptsKeepsIInv ==
  ASSUME NEW d \in Dial, IInv, Accepts(d)
  PROVE  IInv'
<1> USE DEF IInv
<1>1. EditsAreNoticed'
  BY DEF EditsAreNoticed, TypeOK, Accepts, Goes, Key
<1>2. StampInv'
  BY DEF StampInv, Accepts, NoKeys
<1>3. AcceptedInv'
  BY DEF AcceptedInv, Accepts
<1>4. ConfirmedStays'
  BY DEF ConfirmedStays, EditsAreNoticed, TypeOK, Accepts, Goes
<1> QED
  BY <1>1, <1>2, <1>3, <1>4

LEMMA EditsKeepIInv ==
  ASSUME IInv, Edits
  PROVE  IInv'
<1> USE DEF IInv
<1>1. EditsAreNoticed' /\ StampInv'
  <2>1. CASE \E m \in Machine, r \in Record : Changes([file.keys EXCEPT ![m] = r])
    <3>1. PICK m \in Machine, r \in Record : Changes([file.keys EXCEPT ![m] = r])
      BY <2>1
    <3>2. [file.keys EXCEPT ![m] = r] \in [Machine -> Record]
      BY DEF EditsAreNoticed, TypeOK
    <3>3. /\ file' \in [stamp : Nat, keys : [Machine -> Record]] /\ changes' \in Nat
          /\ known.stamp # file'.stamp
          /\ StampInv'
      BY <3>1, <3>2, ChangesKeepEdits DEF Edits, dialVars
    <3> QED
      BY <3>3 DEF EditsAreNoticed, TypeOK, Edits, dialVars
  <2>2. CASE file' = [stamp |-> Missing, keys |-> NoKeys] /\ UNCHANGED changes
    <3>1. NoKeys \in [Machine -> Record] /\ NoKeys' = NoKeys
      BY DEF NoKeys, Record
    <3> QED
      BY <2>2, <3>1 DEF EditsAreNoticed, TypeOK, StampInv, Edits, dialVars, Missing
  <2> QED
    BY <2>1, <2>2 DEF Edits
<1>2. AcceptedInv' /\ ConfirmedStays'
  BY DEF AcceptedInv, ConfirmedStays, Edits, dialVars
<1> QED
  BY <1>1, <1>2

-----------------------------------------------------------------------------
LEMMA NextIInv == IInv /\ [Next]_vars => IInv'
<1> SUFFICES ASSUME IInv, [Next]_vars PROVE IInv'
  OBVIOUS
<1>1. TypeOK
  BY DEF IInv, EditsAreNoticed
<1>2. CASE UNCHANGED vars
  BY <1>2 DEF IInv, EditsAreNoticed, TypeOK, StampInv, AcceptedInv, ConfirmedStays,
              vars, dialVars, keyVars, NoKeys
<1>3. CASE Edits
  BY <1>3, EditsKeepIInv
<1>4. ASSUME NEW d \in Dial, User(d) \/ Works(d)
      PROVE  IInv'
  <2>1. CASE Dials(d)
    BY <2>1, DialsKeepIInv
  <2>2. CASE Loads(d) \/ LoadsAgain(d)
    BY <2>2, LoadsKeepIInv
  <2>3. CASE Looks(d)
    BY <2>3, LooksKeepsIInv
  <2>4. CASE Appends(d)
    BY <2>4, AppendsKeepsIInv
  <2>5. CASE Accepts(d)
    BY <2>5, AcceptsKeepsIInv
  <2>6. CASE \/ Breaks(d) \/ Stats(d) \/ Compares(d) \/ Snaps(d) \/ LoadFails(d) \/ SnapsAgain(d)
             \/ AnswersKey(d) \/ AnswersPhrase(d) \/ AnswersOther(d) \/ AnswersSecret(d)
             \/ Identity(d) \/ KeepsPhrase(d) \/ Decrypts(d) \/ Forgets(d)
             \/ Offers(d) \/ LooksUp(d) \/ Stores(d) \/ Tries(d)
    <3>1. Quiet(d)
      BY <1>1, <2>6, ControlIsQuiet
    <3> QED
      BY <3>1, QuietKeepsIInv
  <2> QED
    BY <1>4, <2>1, <2>2, <2>3, <2>4, <2>5, <2>6 DEF User, Works
<1> QED
  BY <1>2, <1>3, <1>4 DEF Next

LEMMA AlwaysIInv == Spec => []IInv
  BY InitIInv, NextIInv, PTL DEF Spec

(* An edit of the known_hosts files by another program is never missed,    *)
(* however the reloads of several dials overlap: the verifier that claims  *)
(* to be as new as the files knows what they hold (refreshIfChanged,       *)
(* reload).                                                                *)
THEOREM NoEditIsMissed == Spec => []EditsAreNoticed
<1>1. IInv => EditsAreNoticed
  BY DEF IInv
<1> QED
  BY <1>1, AlwaysIInv, PTL

(* What the user has confirmed is asked by no attempt that begins          *)
(* afterwards, whatever is reloaded or edited meanwhile (Callback, Add).   *)
THEOREM ConfirmedOnceIsEnough == Spec => []ConfirmedStays
<1>1. IInv => ConfirmedStays
  BY DEF IInv
<1> QED
  BY <1>1, AlwaysIInv, PTL
=============================================================================
