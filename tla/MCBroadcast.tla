---------------------------- MODULE MCBroadcast ----------------------------
(***************************************************************************)
(* Broadcast for TLC: the identifiers are interchangeable, because no      *)
(* definition names one and the host lists start empty.                    *)
(***************************************************************************)
EXTENDS Broadcast, TLC

Interchangeable == Permutations(Host)
=============================================================================
