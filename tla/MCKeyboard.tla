---------------------------- MODULE MCKeyboard ----------------------------
(* Few panes, and the keys and clicks that tell the modes of the keyboard  *)
(* apart.                                                                  *)
EXTENDS Keyboard

CONSTANTS h1, h2, h3

TwoPanes == <<h1, h2>>
ThreePanes == <<h1, h2, h3>>
FewClicks == {[at |-> h1, drag |-> TRUE]} \cup
             {[at |-> p, drag |-> FALSE] : p \in {"sessions", "log", "bar"}}
=============================================================================
