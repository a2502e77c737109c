----------------------------- MODULE MCProducer -----------------------------
(***************************************************************************)
(* Instances of Producer for TLC.  Transactions are records that name      *)
(* themselves: who pays whom, the nonce, the amount, the fee, the size and *)
(* whether it is a board post.  Four rewards are minted, 2, 2, 1 and 1     *)
(* ticks, then none, so the number of ledgers is finite.                   *)
(***************************************************************************)
EXTENDS Producer

T(from, to, nonce, amount, fee, size, board) ==
  [from |-> from, to |-> to, nonce |-> nonce, amount |-> amount, fee |-> fee,
   size |-> size, board |-> board]

MCAddr   == {"me", "ann", "bob"}
MCFrom   == [t \in Tx |-> t.from]
MCTo     == [t \in Tx |-> t.to]
MCNonce  == [t \in Tx |-> t.nonce]
MCAmount == [t \in Tx |-> t.amount]
MCFee    == [t \in Tx |-> t.fee]
MCSize   == [t \in Tx |-> t.size]
MCBoard  == {t \in Tx : t.board}

\* ann's second transaction pays best, her first, a large one, worst.
CalmTx == {T("ann", "bob", 1, 1, 1, 13, FALSE), T("ann", "bob", 2, 1, 1, 5, FALSE),
           T("bob", "ann", 1, 1, 1, 10, FALSE)}

\* Two of ann's have the same nonce, bob posts on the board; the pool has room
\* for two of them.
HardTx == {T("ann", "bob", 1, 1, 0, 10, FALSE), T("ann", "me", 1, 2, 0, 10, FALSE),
           T("ann", "bob", 2, 1, 1, 10, FALSE), T("bob", "ann", 1, 1, 1, 10, TRUE)}

MCTx      == CalmTx \cup HardTx
MCWallets == [w \in BOOLEAN |-> IF w THEN CalmTx ELSE HardTx]
=============================================================================
