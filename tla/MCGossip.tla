------------------------------ MODULE MCGossip ------------------------------
(***************************************************************************)
(* Instances of Gossip for TLC: four nodes, a triangle with a tail.  The   *)
(* walk can go in circles or end in the tail; the tail is reached through  *)
(* one node only.  Or the originator is inside a line.                     *)
(***************************************************************************)
EXTENDS Gossip

MCNode == {"me", "ann", "bob", "eve"}

Line == {{"ann", "me"}, {"me", "bob"}, {"bob", "eve"}}
Tail == {{"me", "ann"}, {"ann", "bob"}, {"bob", "me"}, {"bob", "eve"}}
MCGraphs == {Tail, Line}

\* Nobody finds it invalid, or a neighbour of the originator does.
MCRefusals == {{}, {"ann"}}
=============================================================================
