------------------------------- MODULE MCSync -------------------------------
(***************************************************************************)
(* Instances of Sync for TLC.  Blocks are records so that a                *)
(* counterexample names them: br is the branch, h the height.              *)
(***************************************************************************)
EXTENDS Sync

CONSTANTS n1, n2, n3

B(br, h) == [br |-> br, h |-> h]
MCGenesis == B("g", 0)

\* sha256 over a sequence of keys: any value of its own per sequence will do.
MCDigest ==
  [s \in UNION {[1..n -> 0..9] : n \in 0..3} |->
     MapThenSumSet(LAMBDA i : s[i] * 10^i, DOMAIN s) * 577 % 1009]

-----------------------------------------------------------------------------
\* Branch a of n1 and b of n2 part above genesis, and b ties with the longer a:
\* its second block counts twice.  n3 has the wallet of n1, and its block aa is
\* on the proof of the second block of a.
RaceBlock ==
  {MCGenesis, B("a", 1), B("a", 2), B("a", 3), B("aa", 2), B("b", 1), B("b", 2)}
RaceParent == [b \in RaceBlock \ {MCGenesis} |->
                 IF b.h = 1 THEN MCGenesis
                 ELSE B(IF b.br = "aa" THEN "a" ELSE b.br, b.h - 1)]
RaceHeight == [b \in RaceBlock |-> b.h]
RaceKey == [b \in RaceBlock |->
              CASE b = B("a", 1) -> 5 [] b = B("b", 1) -> 3
                [] b = B("b", 2) -> 6 [] b.h = 2 -> 2 [] OTHER -> 1]
RaceIters == [b \in RaceBlock |-> IF b = B("b", 2) THEN 2 ELSE 1]
RaceBuilder == [b \in RaceBlock \ {MCGenesis} |->
                  CASE b.br = "a" -> n1 [] b.br = "b" -> n2 [] b.br = "aa" -> n3]
RaceWallet == [n \in {n1, n2, n3} |-> IF n = n2 THEN "second" ELSE "first"]
=============================================================================
