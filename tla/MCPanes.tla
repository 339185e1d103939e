------------------------------ MODULE MCPanes ------------------------------
(***************************************************************************)
(* Values for the model of the panes.  The terminal fits one pane beside   *)
(* the sidebar, and two when half screen makes the sidebar narrow.         *)
(***************************************************************************)
EXTENDS Panes

TwoHosts == <<"web1", "web2">>
ThreeHosts == <<"web1", "web2", "web3">>
All == ToSet(ThreeHosts)
(* One group lists a host once, the other one lists it twice.              *)
Small == [prod |-> <<"web2">>, twice |-> <<"web2", "web2">>]
Second == [h \in PaneHost |-> IF h = "web2" THEN PaneHost \cap {"web2-2"} ELSE {}]
Between == {<<116, 24>>}
=============================================================================
