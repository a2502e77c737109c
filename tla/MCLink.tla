------------------------------- MODULE MCLink -------------------------------
(***************************************************************************)
(* Instances of Link for TLC: two broadcasts of two datagrams and one of   *)
(* one, or a request whose answer has two or three datagrams.              *)
(***************************************************************************)
EXTENDS Link

MCCarries == [m \in Push |-> IF m = "tx" THEN "small" ELSE "two"]
MCChunks  == [b \in Body |-> CASE b = "small" -> 1 [] b = "two" -> 2 [] OTHER -> 3]
MCWorlds  == {{"block", "other"}, {"tx", "block"}, {"page"}}
=============================================================================
