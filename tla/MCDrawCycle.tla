---------------------------- MODULE MCDrawCycle ----------------------------
(***************************************************************************)
(* Instances of DrawCycle for TLC: the full tree of three builders, two    *)
(* heights deep, so that every block has siblings on both heights.         *)
(***************************************************************************)
EXTENDS DrawCycle

MCNode    == {"me", "ann", "bob"}
MCGenesis == << >>
\* A block is the sequence of the builders down to it.
MCBlock   == UNION {[1..n -> MCNode] : n \in 0..2}
MCParent  == [b \in MCBlock \ {MCGenesis} |-> Front(b)]
MCHeight  == [b \in MCBlock |-> Len(b)]
MCBuilder == [b \in MCBlock \ {MCGenesis} |-> Last(b)]

\* We win the second height on our own block, ann the first and bob the rest.
Rank(n)   == CASE n = "ann" -> 1 [] n = "me" -> 2 [] OTHER -> 3
MCKey     == [b \in MCBlock |->
                IF b = MCGenesis THEN 0
                ELSE IF Len(b) = 1 THEN Rank(b[1])
                ELSE ((Rank(b[1]) + Rank(b[2])) % 3) + 1]
MCIters   == [b \in MCBlock |-> 1]
MCDigest  ==
  [s \in UNION {[1..n -> 0..3] : n \in 0..2} |->
     MapThenSumSet(LAMBDA i : s[i] * (31 * i * i + 6), DOMAIN s) % 97]
=============================================================================
