------------------------------ MODULE MCLogin ------------------------------
(* Two kinds of run: the agent logs in and the keys have to be verified,   *)
(* or the keys are ignored and the user logs in.  The caches and the       *)
(* verifier share nothing, so what they do together is what each does.     *)
EXTENDS Login

KeysOrSecrets == {[verify |-> TRUE, agent |-> TRUE], [verify |-> FALSE, agent |-> FALSE]}
=============================================================================
