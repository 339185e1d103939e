----------------------------- MODULE MCGroups -----------------------------
(* Two hosts, one of them reached by a glob as well, and two names.        *)
EXTENDS Groups

TwoHosts == [a |-> <<"a">>, b |-> <<"b">>, g |-> <<"a", "b">>]
Alone == <<"a">>
OneGroup == [x |-> <<"g", "b">>]
Connect == {<<"b">>}
Type == {<<"b">>}
=============================================================================
