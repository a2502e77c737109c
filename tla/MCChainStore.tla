---------------------------- MODULE MCChainStore ----------------------------
(***************************************************************************)
(* Instances of ChainStore for TLC.  Four branches: "a" and "b" from       *)
(* genesis, "c" leaving "b" at height 2 and winning by key, "d" leaving    *)
(* "b" at height 2 with one block that outweighs two.                      *)
(***************************************************************************)
EXTENDS ChainStore

B(br, h) == [br |-> br, h |-> h]
MCGenesis == B("g", 0)
MCBlock == {MCGenesis, B("a", 1), B("a", 2), B("b", 1), B("b", 2), B("b", 3),
            B("c", 2), B("d", 2)}
MCParent == [b \in MCBlock \ {MCGenesis} |->
               IF b.h = 1 THEN MCGenesis
               ELSE IF b.br \in {"c", "d"} THEN B("b", 1) ELSE B(b.br, b.h - 1)]
MCHeight == [b \in MCBlock |-> b.h]
MCKey    == [b \in MCBlock |-> CASE b.br = "a" -> 4 [] b.br = "b" -> 3
                                 [] b.br = "c" -> 1 [] OTHER -> 2]
MCIters  == [b \in MCBlock |-> IF b.br = "d" THEN 3 ELSE 1]
MCDigest ==
  [s \in UNION {[1..n -> 1..4] : n \in 0..3} |->
     MapThenSumSet(LAMBDA i : s[i] * (31 * i * i + 6), DOMAIN s) % 97]

\* Each branch has a builder; "b" and "c" also pay one another.
MCAddr  == {"ann", "bob", "cat"}
MCTouch == [b \in MCBlock |-> CASE b.br = "g" -> {}
                                [] b.br = "a" -> {"ann"}
                                [] b.br = "b" -> {"bob", "cat"}
                                [] b.br = "c" -> {"cat"}
                                [] OTHER -> {"ann", "bob"}]
=============================================================================
