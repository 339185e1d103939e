------------------------------- MODULE Login -------------------------------
(***************************************************************************)
(* What the dials of a run share while they log in: the verifier built     *)
(* from the known_hosts files and the keys accepted in this run            *)
(* (internal/ssh/knownhosts.go), and the passphrases and passwords the     *)
(* user has typed (internal/ssh/auth.go).  Every access takes a lock of    *)
(* its own and no lock is held while the user reads a question, so the     *)
(* dials interleave between the accesses, and another program edits the    *)
(* files meanwhile.                                                        *)
(*                                                                         *)
(* How a question reaches the screen and its answer comes back is module   *)
(* Prompts; here a question is a place where a dial waits for the user.    *)
(***************************************************************************)
EXTENDS Integers, FiniteSets

CONSTANTS
  Dial,      \* the sessions that are dialled, each again and again
  Machine,   \* the machines they may be on: a clone shares its host's
  Setups,    \* the ways a run may be set up
  MaxTries,  \* bound of the model: attempts of one session
  MaxEdits   \* bound of the model: edits of the files by other programs

ASSUME DialAssumption == Dial # {} /\ IsFiniteSet(Dial)
ASSUME MachineAssumption == Machine # {}

(* Host keys are verified, or --insecure-ignore-host-key is given; an      *)
(* agent holds a key the hosts take, or the user is needed.                *)
ASSUME SetupsAssumption == Setups \subseteq [verify : BOOLEAN, agent : BOOLEAN]

VARIABLES
  setup,     \* how this run is set up
  machine,   \* machine[d]: what dial d connects to
  pc,        \* pc[d]: how far the attempt of d has come
  tries,     \* tries[d]: attempts made so far
  stamp,     \* stamp[d]: the time of change and size that d read off the files
  method,    \* method[d]: the interactive method d is at
  held,      \* held[d]: the secret d has in hand
  file,      \* the known_hosts files: their stamp, and the key recorded for each machine
  changes,   \* how often the files were written: the next stamp
  known,     \* the verifier: the stamp it was loaded at, and the keys it knows
  accepted,  \* the machines whose key was accepted in this run
  secrets,   \* the caches: the passphrase of the key file, a password per machine
  edits,     \* edits of the files by other programs
  confirmed, \* history: the machines whose key the user has confirmed and Add recorded
  settled    \* history: of those, what was recorded before the attempt of d began

dialVars == <<setup, machine, pc, tries, stamp, method, held>>
keyVars == <<file, changes, known, accepted, confirmed, edits>>
vars == <<dialVars, keyVars, secrets, settled>>

(* A host offers one key; the files record it, another one, or none.       *)
Record == {"none", "this", "other"}
Secret == {"none", "right", "wrong"}
Missing == 0
NoKeys == [m \in Machine |-> "none"]

Key == {"stat", "compare", "resnap", "load", "look", "append", "accept", "resave", "reread"}
Auth == {"identity", "keep", "decrypt", "forget", "offer", "secret", "store", "try"}
Asking == {"askkey", "askphrase", "asksecret", "askother"}
Ended == {"up", "failed"}

TypeOK ==
  /\ setup \in Setups
  /\ machine \in [Dial -> Machine]
  /\ pc \in [Dial -> Key \cup Auth \cup Asking \cup Ended \cup {"off"}]
  /\ stamp \in [Dial -> Nat]
  /\ method \in [Dial -> {"password", "interactive"}]
  /\ held \in [Dial -> Secret]
  /\ file \in [stamp : Nat, keys : [Machine -> Record]] /\ changes \in Nat
  /\ known \in [stamp : Nat, keys : [Machine -> Record]]
  /\ accepted \subseteq Machine /\ confirmed \subseteq Machine
  /\ secrets \in [phrase : Secret, word : [Machine -> Secret]]
  /\ settled \in [Dial -> SUBSET Machine]

(* NewKnownHosts reads the files before anything is dialled.               *)
Init ==
  /\ setup \in Setups
  /\ machine \in [Dial -> Machine]
  /\ pc = [d \in Dial |-> "off"]
  /\ tries = [d \in Dial |-> 0]
  /\ stamp = [d \in Dial |-> Missing]
  /\ method = [d \in Dial |-> "password"]
  /\ held = [d \in Dial |-> "none"]
  /\ file \in {[stamp |-> Missing, keys |-> NoKeys]} \cup
              {[stamp |-> 1, keys |-> [m \in Machine |-> k]] : k \in Record}
  /\ changes = file.stamp
  /\ known = file
  /\ accepted = {} /\ confirmed = {}
  /\ secrets = [phrase |-> "none", word |-> [m \in Machine |-> "none"]]
  /\ edits = 0
  /\ settled = [d \in Dial |-> {}]

-----------------------------------------------------------------------------
Goes(d, from, to) == pc[d] = from /\ pc' = [pc EXCEPT ![d] = to]
Reads(d, from, to) ==
  /\ Goes(d, from, to)
  /\ stamp' = [stamp EXCEPT ![d] = file.stamp]
  /\ UNCHANGED <<setup, machine, tries, method, held, keyVars, secrets, settled>>

(* Start, up to the host's key; a reconnect is another attempt.            *)
Dials(d) ==
  /\ pc[d] \in {"off"} \cup Ended /\ tries[d] < MaxTries
  /\ pc' = [pc EXCEPT ![d] = IF setup.verify THEN "stat" ELSE "identity"]
  /\ tries' = [tries EXCEPT ![d] = @ + 1]
  /\ settled' = [settled EXCEPT ![d] = confirmed]
  /\ method' = [method EXCEPT ![d] = "password"]
  /\ UNCHANGED <<setup, machine, stamp, held, keyVars, secrets>>

(* The network: the host goes away, or the deadline of the handshake, which *)
(* runs while the user reads a question, has passed.                       *)
Breaks(d) ==
  /\ pc[d] \in {"stat", "identity", "offer", "try"}
  /\ pc' = [pc EXCEPT ![d] = "failed"]
  /\ held' = [held EXCEPT ![d] = "none"]
  /\ UNCHANGED <<setup, machine, tries, stamp, method, keyVars, secrets, settled>>

(* refreshIfChanged: stat the files, compare under the lock, reload.       *)
Stats(d) == Reads(d, "stat", "compare")

(* Defect: the files count as read as soon as the difference is seen.      *)
Compares_MarksRead(d) ==
  /\ Goes(d, "compare", IF known.stamp = stamp[d] THEN "look" ELSE "resnap")
  /\ known' = [known EXCEPT !.stamp = stamp[d]]
  /\ UNCHANGED <<setup, machine, tries, stamp, method, held, file, changes, accepted, confirmed, edits, secrets, settled>>

Compares(d) ==
  /\ Goes(d, "compare", IF known.stamp = stamp[d] THEN "look" ELSE "resnap")
  /\ UNCHANGED <<setup, machine, tries, stamp, method, held, keyVars, secrets, settled>>

Snaps(d) == Reads(d, "resnap", "load")

(* reload, under the lock: what was there is read again, whatever it is by *)
(* now; a file that has gone meanwhile is an error.                        *)
Rebuilds(d) ==
  IF stamp[d] = Missing THEN known' = [stamp |-> Missing, keys |-> NoKeys]
  ELSE file.stamp # Missing /\ known' = [stamp |-> stamp[d], keys |-> file.keys]

Loads(d) ==
  /\ Rebuilds(d) /\ Goes(d, "load", "look")
  /\ UNCHANGED <<setup, machine, tries, stamp, method, held, file, changes, accepted, confirmed, edits, secrets, settled>>

(* ... as are a line that is malformed and a file that cannot be opened:   *)
(* unlike what they hold, whether the files can be read is left open.      *)
LoadFails(d) ==
  /\ stamp[d] # Missing
  /\ \E from \in {"load", "reread"} : Goes(d, from, "failed")
  /\ UNCHANGED <<setup, machine, tries, stamp, method, held, keyVars, secrets, settled>>

(* Callback, under the lock: accepted in this run, known, recorded with    *)
(* another key (or as revoked, which fails as well), or unknown.           *)
Looks(d) ==
  LET m == machine[d]
  IN  /\ Goes(d, "look", IF m \in accepted \/ known.keys[m] = "this" THEN "identity"
                         ELSE IF known.keys[m] = "other" THEN "failed" ELSE "askkey")
      /\ UNCHANGED <<setup, machine, tries, stamp, method, held, keyVars, secrets, settled>>

(* confirm: the user says yes or no, or the question is withdrawn.         *)
AnswersKey(d) ==
  /\ \E to \in {"append", "failed"} : Goes(d, "askkey", to)
  /\ UNCHANGED <<setup, machine, tries, stamp, method, held, keyVars, secrets, settled>>

(* Add: a line is appended, the key accepted for the run, the files read   *)
(* again.                                                                  *)
Changes(keys) == file' = [stamp |-> changes + 1, keys |-> keys] /\ changes' = changes + 1

Appends(d) ==
  /\ \/ /\ Goes(d, "append", "accept")
        /\ Changes([file.keys EXCEPT ![machine[d]] = "this"])
     \/ Goes(d, "append", "failed") /\ UNCHANGED <<file, changes>>
  /\ UNCHANGED <<setup, machine, tries, stamp, method, held, known, accepted, confirmed, edits, secrets, settled>>

(* Defect: the key is in the file, so nothing else remembers it.           *)
Accepts_InFileOnly(d) ==
  /\ Goes(d, "accept", "resave")
  /\ confirmed' = confirmed \cup {machine[d]}
  /\ UNCHANGED <<setup, machine, tries, stamp, method, held, file, changes, known, accepted, edits, secrets, settled>>

Accepts(d) ==
  /\ Goes(d, "accept", "resave")
  /\ accepted' = accepted \cup {machine[d]}
  /\ confirmed' = confirmed \cup {machine[d]}
  /\ UNCHANGED <<setup, machine, tries, stamp, method, held, file, changes, known, edits, secrets, settled>>

SnapsAgain(d) == Reads(d, "resave", "reread")

LoadsAgain(d) ==
  /\ Rebuilds(d) /\ Goes(d, "reread", "identity")
  /\ UNCHANGED <<setup, machine, tries, stamp, method, held, file, changes, accepted, confirmed, edits, secrets, settled>>

(* Another program adds, changes or removes a line, or the file itself.    *)
Edits ==
  /\ edits < MaxEdits /\ edits' = edits + 1
  /\ \/ \E m \in Machine, r \in Record : Changes([file.keys EXCEPT ![m] = r])
     \/ /\ file.stamp # Missing
        /\ file' = [stamp |-> Missing, keys |-> NoKeys] /\ UNCHANGED changes
  /\ UNCHANGED <<dialVars, known, accepted, confirmed, secrets, settled>>

-----------------------------------------------------------------------------
(* The methods, in order: what the host offers and takes is its business.  *)

(* The agent gets in, no key file is there, or it needs its passphrase:    *)
(* cached, or asked for.                                                   *)
Identity(d) ==
  /\ \/ Goes(d, "identity", IF setup.agent THEN "up" ELSE "offer") /\ UNCHANGED held
     \/ ~setup.agent /\ secrets.phrase = "none" /\ Goes(d, "identity", "askphrase") /\ UNCHANGED held
     \/ /\ ~setup.agent /\ secrets.phrase # "none" /\ Goes(d, "identity", "decrypt")
        /\ held' = [held EXCEPT ![d] = secrets.phrase]
  /\ UNCHANGED <<setup, machine, tries, stamp, method, keyVars, secrets, settled>>

(* The user answers, or cancels, which leaves the methods that follow.     *)
AnswersPhrase(d) ==
  /\ \/ Goes(d, "askphrase", "offer") /\ UNCHANGED held
     \/ /\ Goes(d, "askphrase", "keep")
        /\ \E s \in Secret \ {"none"} : held' = [held EXCEPT ![d] = s]
  /\ UNCHANGED <<setup, machine, tries, stamp, method, keyVars, secrets, settled>>

KeepsPhrase(d) ==
  /\ Goes(d, "keep", "decrypt")
  /\ secrets' = [secrets EXCEPT !.phrase = held[d]]
  /\ UNCHANGED <<setup, machine, tries, stamp, method, held, keyVars, settled>>

(* loadIdentity: the key opens, and the host takes it or not; or it does   *)
(* not open, and the passphrase is forgotten.                              *)
Decrypts(d) ==
  /\ IF held[d] = "right" THEN \E to \in {"up", "offer"} : Goes(d, "decrypt", to)
     ELSE Goes(d, "decrypt", "forget")
  /\ held' = [held EXCEPT ![d] = "none"]
  /\ UNCHANGED <<setup, machine, tries, stamp, method, keyVars, secrets, settled>>

(* Defect: a wrong passphrase is kept.                                     *)
Forgets_Nothing(d) ==
  /\ Goes(d, "forget", "offer")
  /\ UNCHANGED <<setup, machine, tries, stamp, method, held, keyVars, secrets, settled>>

Forgets(d) ==
  /\ Goes(d, "forget", "offer")
  /\ secrets' = [secrets EXCEPT !.phrase = "none"]
  /\ UNCHANGED <<setup, machine, tries, stamp, method, held, keyVars, settled>>

(* password: the machine's, cached or asked for; keyboard-interactive asks *)
(* for the same, unless its question is another one.                       *)
NextMethod(d) ==
  IF method[d] = "password"
  THEN method' = [method EXCEPT ![d] = "interactive"] /\ pc' = [pc EXCEPT ![d] = "offer"]
  ELSE pc' = [pc EXCEPT ![d] = "failed"] /\ UNCHANGED method

(* The host offers the method or not, and may ask something else.          *)
Offers(d) ==
  /\ \/ Goes(d, "offer", "secret") /\ UNCHANGED method
     \/ method[d] = "interactive" /\ Goes(d, "offer", "askother") /\ UNCHANGED method
     \/ pc[d] = "offer" /\ NextMethod(d)
  /\ UNCHANGED <<setup, machine, tries, stamp, held, keyVars, secrets, settled>>

(* Defect: the lock is held while the user is asked.                       *)
LooksUp_Locked(d) ==
  LET word == secrets.word[machine[d]]
  IN  /\ \A e \in Dial : pc[e] # "asksecret"
      /\ IF word = "none" THEN Goes(d, "secret", "asksecret") /\ UNCHANGED held
         ELSE Goes(d, "secret", "try") /\ held' = [held EXCEPT ![d] = word]
      /\ UNCHANGED <<setup, machine, tries, stamp, method, keyVars, secrets, settled>>

LooksUp(d) ==
  LET word == secrets.word[machine[d]]
  IN  /\ IF word = "none" THEN Goes(d, "secret", "asksecret") /\ UNCHANGED held
         ELSE Goes(d, "secret", "try") /\ held' = [held EXCEPT ![d] = word]
      /\ UNCHANGED <<setup, machine, tries, stamp, method, keyVars, secrets, settled>>

AnswersOther(d) ==
  /\ \E to \in {"up", "failed"} : Goes(d, "askother", to)
  /\ UNCHANGED <<setup, machine, tries, stamp, method, held, keyVars, secrets, settled>>

AnswersSecret(d) ==
  /\ pc[d] = "asksecret"
  /\ \/ NextMethod(d) /\ UNCHANGED held
     \/ /\ pc' = [pc EXCEPT ![d] = "store"]
        /\ \E s \in Secret \ {"none"} : held' = [held EXCEPT ![d] = s]
        /\ UNCHANGED method
  /\ UNCHANGED <<setup, machine, tries, stamp, keyVars, secrets, settled>>

Stores(d) ==
  /\ Goes(d, "store", "try")
  /\ secrets' = [secrets EXCEPT !.word[machine[d]] = held[d]]
  /\ UNCHANGED <<setup, machine, tries, stamp, method, held, keyVars, settled>>

Tries(d) ==
  /\ pc[d] = "try"
  /\ IF held[d] = "right" THEN pc' = [pc EXCEPT ![d] = "up"] /\ UNCHANGED method ELSE NextMethod(d)
  /\ held' = [held EXCEPT ![d] = "none"]
  /\ UNCHANGED <<setup, machine, tries, stamp, keyVars, secrets, settled>>

-----------------------------------------------------------------------------
Works(d) ==
  \/ Breaks(d)
  \/ Stats(d) \/ Compares(d) \/ Snaps(d) \/ Loads(d) \/ LoadFails(d) \/ Looks(d)
  \/ Appends(d) \/ Accepts(d) \/ SnapsAgain(d) \/ LoadsAgain(d)
  \/ Identity(d) \/ KeepsPhrase(d) \/ Decrypts(d) \/ Forgets(d)
  \/ Offers(d) \/ LooksUp(d) \/ Stores(d) \/ Tries(d)

User(d) ==
  \/ Dials(d)
  \/ AnswersKey(d) \/ AnswersPhrase(d) \/ AnswersOther(d) \/ AnswersSecret(d)

Next == (\E d \in Dial : User(d) \/ Works(d)) \/ Edits

Spec == Init /\ [][Next]_vars

(* The dial goroutines run; nothing is assumed of the user.                *)
Fairness == \A d \in Dial : WF_vars(Works(d))
FairSpec == Spec /\ Fairness

-----------------------------------------------------------------------------
(* An edit of the known_hosts files by another program is never missed:    *)
(* whenever the verifier claims to be as new as the files, it knows what   *)
(* they hold, so the next dial to compare them reloads it if it does not   *)
(* (refreshIfChanged, reload; several dials reload at once).               *)
EditsAreNoticed == TypeOK /\ (known.stamp = file.stamp => known.keys = file.keys)

(* A key the user has confirmed is not asked about again by a dial that    *)
(* began afterwards, whatever reload or edit has come in between (confirm, *)
(* Add: "makes it immediately effective for the rest of the run").         *)
ConfirmedStays == \A d \in Dial : pc[d] = "askkey" => machine[d] \notin settled[d]

(* A question that nobody answers holds only the dial that asks it.        *)
QuestionsHoldNobody ==
  \A d \in Dial : pc[d] \in Key \cup Auth ~> pc[d] \in Asking \cup Ended

(* A wrong passphrase does not stay: "forget it so the next attempt can    *)
(* ask again rather than failing every remaining host silently"            *)
(* (loadIdentity), however many dials read it meanwhile.                   *)
WrongPhraseLeaves == secrets.phrase = "wrong" ~> secrets.phrase # "wrong"

(* "ForgetPassword does the same for a password" (authentication.md:39).   *)
WrongPasswordLeaves ==
  \A m \in Machine : secrets.word[m] = "wrong" ~> secrets.word[m] # "wrong"

(* "prompting once per encrypted key however many hosts use it"            *)
(* (identitySigners).                                                      *)
OnePromptPerKey == Cardinality({d \in Dial : pc[d] = "askphrase"}) <= 1

(* What opened the key is not asked for again.                             *)
RightPhraseStays == [][secrets.phrase = "right" => secrets.phrase' = "right"]_vars

(* A reload is "not a race: each reload only ever reads files"             *)
(* (host-keys.md:75): a dial that saw the files as they are now does not   *)
(* ask about a key they hold.                                              *)
CurrentFileIsUsed ==
  \A d \in Dial :
    pc[d] = "askkey" /\ stamp[d] = file.stamp => file.keys[machine[d]] # "this"
=============================================================================
