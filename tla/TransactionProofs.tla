------------------------- MODULE TransactionProofs -------------------------
(***************************************************************************)
(* A transaction on the ledger, on its way to every node, and on one link. *)
(* On whatever chain a node comes to hold, ticks are conserved and no      *)
(* transaction is replayed; the pool stays within its limit and loses      *)
(* nothing without a reason, and in a calm world what is built from it is  *)
(* valid (Producer, by the rules of Ledger).  Whoever holds a transaction  *)
(* has flooded it (Gossip); a broadcast is handed to the node once at      *)
(* most, and what the sender takes for received is there (Link).  All for  *)
(* any addresses, transactions, nodes, messages, bounds and faults.  The   *)
(* three share no name.                                                    *)
(***************************************************************************)
EXTENDS Producer, Gossip, Link, Numbers

-----------------------------------------------------------------------------
(* Ledger: transactions one by one *)

\* A valid transaction leaves a ledger: nobody spends what he has not got.
LEMMA ApplyTxType ==
  ASSUME NEW l \in LedgerType, NEW t \in Tx, NEW floor, ValidTx(t, l, floor)
  PROVE  ApplyTx(t, l) \in LedgerType
<1> USE LedgerAssumption
<1>1. /\ From[t] \in Addr /\ To[t] \in Addr /\ From[t] # To[t] /\ Nonce[t] \in Nat
      /\ Amount[t] \in Nat /\ Cost(t) \in Nat
  BY DEF Cost
<1>2. /\ l.bal \in [Addr -> Nat] /\ l.nonce \in [Addr -> Nat]
      /\ l.minted \in 0..SupplyCap /\ l.posts \in Nat /\ l.spent \in SUBSET Tx
  BY DEF LedgerType
<1>3. Cost(t) <= l.bal[From[t]]
  BY DEF ValidTx
<1>4. ASSUME NEW a \in Addr
      PROVE  l.bal[a] - (IF a = From[t] THEN Cost(t) ELSE 0)
                      + (IF a = To[t] THEN Amount[t] ELSE 0) \in Nat
  <2>1. l.bal[a] \in Nat
    BY <1>2
  <2> QED BY <1>1, <1>3, <2>1
<1>5. [l.nonce EXCEPT ![From[t]] = Nonce[t]] \in [Addr -> Nat]
  BY <1>1, <1>2
<1>6. l.posts + (IF t \in Board THEN 1 ELSE 0) \in Nat
  BY <1>2
<1>7. l.spent \cup {t} \in SUBSET Tx
  BY <1>2
<1> QED BY <1>2, <1>4, <1>5, <1>6, <1>7 DEF ApplyTx, LedgerType

\* ApplyTxs goes from transaction to transaction.
Acc == [ok : BOOLEAN, l : LedgerType]
TxStep(acc, t, floor) ==
  IF acc.ok /\ ValidTx(t, acc.l, floor)
  THEN [ok |-> TRUE, l |-> ApplyTx(t, acc.l)]
  ELSE [ok |-> FALSE, l |-> acc.l]

LEMMA TxStepType ==
  ASSUME NEW acc \in Acc, NEW t \in Tx, NEW floor
  PROVE  TxStep(acc, t, floor) \in Acc
<1>1. acc.l \in LedgerType
  BY DEF Acc
<1>2. ValidTx(t, acc.l, floor) => ApplyTx(t, acc.l) \in LedgerType
  BY <1>1, ApplyTxType
<1> QED BY <1>1, <1>2 DEF Acc, TxStep

TxFold(g, txs, l) ==
  g = [S \in SUBSET DOMAIN txs |->
         IF S = {} THEN [ok |-> TRUE, l |-> l]
         ELSE LET x == Max(S) IN TxStep(g[S \ {x}], txs[x], BoardFeeFloor(l.posts))]

LEMMA ApplyTxsIsFold ==
  ASSUME NEW txs, NEW l
  PROVE  ApplyTxs(txs, l) = (CHOOSE g : TxFold(g, txs, l))[DOMAIN txs]
BY DEF ApplyTxs, TxStep, FoldLeft, MapThenFoldSet, TxFold

LEMMA ApplyTxsRuns ==
  ASSUME NEW txs \in Seq(Tx), NEW l \in LedgerType
  PROVE  \E r \in [0 .. Len(txs) -> Acc] :
           /\ r[0] = [ok |-> TRUE, l |-> l] /\ r[Len(txs)] = ApplyTxs(txs, l)
           /\ \A i \in 1 .. Len(txs) : r[i] = TxStep(r[i - 1], txs[i], BoardFeeFloor(l.posts))
<1>1. PICK X, b : X = Acc /\ b = [ok |-> TRUE, l |-> l]
  OBVIOUS
<1>2. PICK F : F = [p \in X \X Tx |-> TxStep(p[1], p[2], BoardFeeFloor(l.posts))]
  OBVIOUS
<1>3. ASSUME NEW a \in X, NEW y \in Tx
      PROVE  F[<<a, y>>] = TxStep(a, y, BoardFeeFloor(l.posts)) /\ F[<<a, y>>] \in X
  <2>1. TxStep(a, y, BoardFeeFloor(l.posts)) \in X
    BY <1>1, TxStepType DEF Acc
  <2> QED BY <1>2, <2>1
<1>4. b \in X /\ F \in [X \X Tx -> X]
  <2>1. b \in X
    BY <1>1 DEF Acc
  <2>2. \A p \in X \X Tx : TxStep(p[1], p[2], BoardFeeFloor(l.posts)) \in X
    BY <1>2, <1>3
  <2> QED BY <1>2, <2>1, <2>2
<1>5. PICK g : g = CHOOSE h : TxFold(h, txs, l)
  OBVIOUS
<1>6. TxFold(g, txs, l)
  <2>1. PICK h : Computes(h, F, b, txs, X, Tx)
    BY <1>4, FoldComputes
  <2>2. ASSUME NEW S \in SUBSET DOMAIN txs, S # {}
        PROVE  h[S] = TxStep(h[S \ {Max(S)}], txs[Max(S)], BoardFeeFloor(l.posts))
    <3>1. /\ h[S \ {Max(S)}] \in X /\ txs[Max(S)] \in Tx
          /\ h[S] = F[<<h[S \ {Max(S)}], txs[Max(S)]>>]
      BY <2>1, <2>2 DEF Computes
    <3> QED BY <1>3, <3>1
  <2>3. TxFold(h, txs, l)
    BY <1>1, <2>1, <2>2 DEF Computes, TxFold
  <2> QED BY <1>5, <2>3
<1>7. RunsTo(F, b, txs, X, ApplyTxs(txs, l))
  <2>1. g[{}] = b
    BY <1>1, <1>6 DEF TxFold
  <2>2. ASSUME NEW S \in SUBSET DOMAIN txs, S # {},
               g[S \ {Max(S)}] \in X, txs[Max(S)] \in Tx
        PROVE  g[S] = F[<<g[S \ {Max(S)}], txs[Max(S)]>>]
    <3>1. g[S] = TxStep(g[S \ {Max(S)}], txs[Max(S)], BoardFeeFloor(l.posts))
      BY <1>6, <2>2 DEF TxFold
    <3> QED BY <1>3, <2>2, <3>1
  <2>3. RunsTo(F, b, txs, X, g[DOMAIN txs])
    BY <1>4, <2>1, <2>2, FoldGoes
  <2> QED BY <1>5, <2>3, ApplyTxsIsFold
<1>8. PICK r \in [0 .. Len(txs) -> X] : Runs(r, F, b, txs) /\ r[Len(txs)] = ApplyTxs(txs, l)
  BY <1>7 DEF RunsTo
<1>9. ASSUME NEW i \in 1 .. Len(txs)
      PROVE  r[i] = TxStep(r[i - 1], txs[i], BoardFeeFloor(l.posts))
  <2>1. i - 1 \in 0 .. Len(txs) /\ txs[i] \in Tx
    OBVIOUS
  <2>2. r[i - 1] \in X
    BY <2>1
  <2> QED BY <1>3, <1>8, <2>1, <2>2 DEF Runs
<1> QED BY <1>1, <1>8, <1>9 DEF Runs

\* So do the fees.
FeeFold(g, txs) ==
  g = [S \in SUBSET DOMAIN txs |->
         IF S = {} THEN 0
         ELSE LET x == Max(S) IN g[S \ {x}] + Fee[txs[x]]]

LEMMA FeesIsFold ==
  ASSUME NEW txs
  PROVE  Fees(txs) = (CHOOSE g : FeeFold(g, txs))[DOMAIN txs]
BY DEF Fees, FoldLeft, MapThenFoldSet, FeeFold

LEMMA FeesRuns ==
  ASSUME NEW txs \in Seq(Tx)
  PROVE  \E r \in [0 .. Len(txs) -> Nat] :
           /\ r[0] = 0 /\ r[Len(txs)] = Fees(txs)
           /\ \A i \in 1 .. Len(txs) : r[i] = r[i - 1] + Fee[txs[i]]
<1>1. PICK X, b : X = Nat /\ b = 0
  OBVIOUS
<1>2. PICK F : F = [p \in X \X Tx |-> p[1] + Fee[p[2]]]
  OBVIOUS
<1>3. ASSUME NEW a \in X, NEW y \in Tx
      PROVE  F[<<a, y>>] = a + Fee[y] /\ F[<<a, y>>] \in X
  <2>1. a + Fee[y] \in X
    BY <1>1, LedgerAssumption
  <2> QED BY <1>2, <2>1
<1>4. b \in X /\ F \in [X \X Tx -> X]
  <2>1. b \in X
    BY <1>1
  <2>2. \A p \in X \X Tx : p[1] + Fee[p[2]] \in X
    BY <1>2, <1>3
  <2> QED BY <1>2, <2>1, <2>2
<1>5. PICK g : g = CHOOSE h : FeeFold(h, txs)
  OBVIOUS
<1>6. FeeFold(g, txs)
  <2>1. PICK h : Computes(h, F, b, txs, X, Tx)
    BY <1>4, FoldComputes
  <2>2. ASSUME NEW S \in SUBSET DOMAIN txs, S # {}
        PROVE  h[S] = h[S \ {Max(S)}] + Fee[txs[Max(S)]]
    <3>1. /\ h[S \ {Max(S)}] \in X /\ txs[Max(S)] \in Tx
          /\ h[S] = F[<<h[S \ {Max(S)}], txs[Max(S)]>>]
      BY <2>1, <2>2 DEF Computes
    <3> QED BY <1>3, <3>1
  <2>3. FeeFold(h, txs)
    BY <1>1, <2>1, <2>2 DEF Computes, FeeFold
  <2> QED BY <1>5, <2>3
<1>7. RunsTo(F, b, txs, X, Fees(txs))
  <2>1. g[{}] = b
    BY <1>1, <1>6 DEF FeeFold
  <2>2. ASSUME NEW S \in SUBSET DOMAIN txs, S # {},
               g[S \ {Max(S)}] \in X, txs[Max(S)] \in Tx
        PROVE  g[S] = F[<<g[S \ {Max(S)}], txs[Max(S)]>>]
    <3>1. g[S] = g[S \ {Max(S)}] + Fee[txs[Max(S)]]
      BY <1>6, <2>2 DEF FeeFold
    <3> QED BY <1>3, <2>2, <3>1
  <2>3. RunsTo(F, b, txs, X, g[DOMAIN txs])
    BY <1>4, <2>1, <2>2, FoldGoes
  <2> QED BY <1>5, <2>3, FeesIsFold
<1>8. PICK r \in [0 .. Len(txs) -> X] : Runs(r, F, b, txs) /\ r[Len(txs)] = Fees(txs)
  BY <1>7 DEF RunsTo
<1>9. ASSUME NEW i \in 1 .. Len(txs)
      PROVE  r[i] = r[i - 1] + Fee[txs[i]]
  <2>1. i - 1 \in 0 .. Len(txs) /\ txs[i] \in Tx
    OBVIOUS
  <2>2. r[i - 1] \in X
    BY <2>1
  <2> QED BY <1>3, <1>8, <2>1, <2>2 DEF Runs
<1> QED BY <1>1, <1>8, <1>9 DEF Runs

\* Rewards do not go beyond the cap.
LEMMA RewardBound ==
  ASSUME NEW m \in 0..SupplyCap
  PROVE  Reward(m) \in Nat /\ m + Reward(m) <= SupplyCap
<1>1. PICK a : a = SupplyCap - m
  OBVIOUS
<1>2. a \in Nat /\ SupplyCap \in Nat /\ m \in Nat
  BY <1>1, LedgerAssumption
<1>3. PICK p, q : p = DecayNumerator /\ q = DecayDenominator
  OBVIOUS
<1>4. p \in Nat /\ q \in Nat /\ q > 0 /\ p <= q
  BY <1>3, LedgerAssumption
<1>5. a * p <= a * q /\ a * p \in Nat
  BY <1>2, <1>4
<1>6. (a * p) \div q \in Nat /\ (a * p) \div q <= a
  BY <1>2, <1>4, <1>5
<1> QED BY <1>1, <1>2, <1>3, <1>6 DEF Reward

\* A transaction takes its fee from the balances, and nothing else.
LEMMA ApplyTxSum ==
  ASSUME NEW l \in LedgerType, NEW t \in Tx, NEW floor, ValidTx(t, l, floor)
  PROVE  SumOver(ApplyTx(t, l).bal, Addr) + Fee[t] = SumOver(l.bal, Addr)
<1> DEFINE f == l.bal
           k == ApplyTx(t, l).bal
           x == From[t]
           y == To[t]
           R == (Addr \ {x}) \ {y}
<1>1. /\ x \in Addr /\ y \in Addr /\ x # y /\ y \in Addr \ {x}
      /\ Amount[t] \in Nat /\ Fee[t] \in Nat /\ IsFiniteSet(Addr)
  BY LedgerAssumption
<1>2. f \in [Addr -> Nat] /\ k \in [Addr -> Nat]
  BY ApplyTxType DEF LedgerType
<1>3. \A a \in Addr : k[a] = f[a] - (IF a = x THEN Cost(t) ELSE 0)
                                  + (IF a = y THEN Amount[t] ELSE 0)
  BY DEF ApplyTx
<1>4. k[x] = f[x] - Cost(t) /\ k[y] = f[y] + Amount[t] /\ \A a \in R : k[a] = f[a]
  <2>1. \A a \in Addr : f[a] \in Nat
    BY <1>2
  <2> QED BY <1>1, <1>3, <2>1 DEF Cost
<1> HIDE DEF f, k
<1>5. \A a \in Addr : f[a] \in Int /\ k[a] \in Int
  BY <1>2
<1>6. IsFiniteSet(Addr \ {x}) /\ IsFiniteSet(R)
  BY <1>1, FS_RemoveElement
<1>7. /\ SumOver(f, Addr) = f[x] + SumOver(f, Addr \ {x})
      /\ SumOver(k, Addr) = k[x] + SumOver(k, Addr \ {x})
  BY <1>1, <1>5, SumWithout
<1>8. /\ SumOver(f, Addr \ {x}) = f[y] + SumOver(f, R)
      /\ SumOver(k, Addr \ {x}) = k[y] + SumOver(k, R)
  BY <1>1, <1>5, <1>6, SumWithout
<1>9. SumOver(f, R) = SumOver(k, R) /\ SumOver(f, R) \in Int
  <2>1. \A a \in R : f[a] \in Int /\ f[a] = k[a]
    BY <1>4, <1>5
  <2> QED BY <1>6, <2>1, SumSame, SumType
<1>10. SumOver(k, Addr) + Fee[t] = SumOver(f, Addr)
  BY <1>1, <1>4, <1>5, <1>7, <1>8, <1>9 DEF Cost
<1> QED BY <1>10 DEF f, k

-----------------------------------------------------------------------------
(* Nonces *)

\* What an address has confirmed, and that it did so in order.
ConfirmedBy(l, a) == {t \in l.spent : From[t] = a}
InOrder(l) ==
  \A a \in Addr :
    /\ {Nonce[t] : t \in ConfirmedBy(l, a)} = 1 .. Cardinality(ConfirmedBy(l, a))
    /\ l.nonce[a] = Cardinality(ConfirmedBy(l, a))

\* A valid transaction is new, and the next of its sender.
LEMMA ApplyTxOrder ==
  ASSUME NEW l \in LedgerType, IsFiniteSet(l.spent), InOrder(l),
         NEW t \in Tx, NEW floor, ValidTx(t, l, floor)
  PROVE  InOrder(ApplyTx(t, l)) /\ IsFiniteSet(ApplyTx(t, l).spent)
<1> DEFINE k == ApplyTx(t, l)
           x == From[t]
           C == ConfirmedBy(l, x)
<1>1. /\ k.spent = l.spent \cup {t}
      /\ k.nonce = [l.nonce EXCEPT ![x] = Nonce[t]]
  BY DEF ApplyTx
<1>2. x \in Addr /\ l.nonce \in [Addr -> Nat] /\ l.spent \subseteq Tx
  BY LedgerAssumption DEF LedgerType
<1>3. PICK n : n = l.nonce[x]
  OBVIOUS
<1>4. /\ n \in Nat /\ Nonce[t] = n + 1 /\ Cardinality(C) = n
      /\ {Nonce[s] : s \in C} = 1 .. n /\ IsFiniteSet(C)
  <2>1. C \subseteq l.spent
    BY DEF ConfirmedBy
  <2> QED BY <1>2, <1>3, <2>1, FS_Subset DEF ValidTx, InOrder
<1>5. t \notin C
  BY <1>4
<1>6. ConfirmedBy(k, x) = C \cup {t}
  BY <1>1 DEF ConfirmedBy
<1>7. Cardinality(C \cup {t}) = n + 1
  BY <1>4, <1>5, FS_AddElement
<1>8. {Nonce[s] : s \in C \cup {t}} = 1 .. (n + 1)
  <2>1. {Nonce[s] : s \in C \cup {t}} = {Nonce[s] : s \in C} \cup {Nonce[t]}
    OBVIOUS
  <2>2. {Nonce[s] : s \in C \cup {t}} = (1 .. n) \cup {n + 1}
    BY <1>4, <2>1
  <2> QED BY <1>4, <2>2
<1>9. ASSUME NEW a \in Addr, a # x
      PROVE  ConfirmedBy(k, a) = ConfirmedBy(l, a) /\ k.nonce[a] = l.nonce[a]
  BY <1>1, <1>2, <1>9 DEF ConfirmedBy
<1>10. k.nonce[x] = n + 1
  BY <1>1, <1>2, <1>4
<1>11. IsFiniteSet(k.spent)
  BY <1>1, FS_AddElement
<1> HIDE DEF k
<1>12. InOrder(k)
  <2> SUFFICES ASSUME NEW a \in Addr
               PROVE  /\ {Nonce[s] : s \in ConfirmedBy(k, a)} = 1 .. Cardinality(ConfirmedBy(k, a))
                      /\ k.nonce[a] = Cardinality(ConfirmedBy(k, a))
    BY DEF InOrder
  <2>1. CASE a = x
    BY <1>6, <1>7, <1>8, <1>10, <2>1
  <2>2. CASE a # x
    BY <1>9, <2>2 DEF InOrder
  <2> QED BY <2>1, <2>2
<1> QED BY <1>11, <1>12 DEF k

-----------------------------------------------------------------------------
(* Blocks *)

\* Transactions that are all valid have all been applied.
LEMMA ApplyTxsOk ==
  ASSUME NEW n \in Nat, NEW r \in [0 .. n -> Acc], NEW txs, NEW floor,
         \A i \in 1 .. n : r[i] = TxStep(r[i - 1], txs[i], floor), r[n].ok
  PROVE  \A i \in 0 .. n : r[i].ok
<1> SUFFICES ASSUME NEW k \in 0 .. n, ~ r[k].ok PROVE FALSE
  OBVIOUS
<1>1. PICK G : G = {i \in 0 .. n : i >= k => ~ r[i].ok}
  OBVIOUS
<1>2. 0 \in G
  BY <1>1
<1>3. ASSUME NEW i \in 1 .. n, i - 1 \in G PROVE i \in G
  <2>1. i \in 0 .. n /\ i - 1 \in 0 .. n
    OBVIOUS
  <2>2. CASE i = k
    BY <1>1, <2>1, <2>2
  <2>3. CASE i # k
    <3>1. i >= k => ~ r[i - 1].ok
      BY <1>1, <1>3, <2>3
    <3>2. r[i] = TxStep(r[i - 1], txs[i], floor)
      OBVIOUS
    <3>3. ~ r[i - 1].ok => ~ r[i].ok
      BY <3>2 DEF TxStep
    <3> QED BY <1>1, <2>1, <3>1, <3>3
  <2> QED BY <2>2, <2>3
<1>4. \A i \in 0 .. n : i \in G
  BY <1>2, <1>3, UpTo
<1>5. n \in 0 .. n /\ n >= k
  OBVIOUS
<1> QED BY <1>1, <1>4, <1>5

\* Between blocks, every tick that was minted is on a balance.
Sound(l) ==
  /\ l \in LedgerType /\ IsFiniteSet(l.spent) /\ InOrder(l)
  /\ SumOver(l.bal, Addr) = l.minted

\* Inside one, the fees of the transactions so far are missing.
LEMMA TxsKeep ==
  ASSUME NEW l, Sound(l), NEW txs \in Seq(Tx), ApplyTxs(txs, l).ok
  PROVE  LET k == ApplyTxs(txs, l).l
         IN  /\ k \in LedgerType /\ IsFiniteSet(k.spent) /\ InOrder(k)
             /\ k.minted = l.minted /\ SumOver(k.bal, Addr) + Fees(txs) = l.minted
<1>1. l \in LedgerType /\ IsFiniteSet(l.spent) /\ InOrder(l) /\ SumOver(l.bal, Addr) = l.minted
  BY DEF Sound
<1>2. PICK n \in Nat : n = Len(txs)
  OBVIOUS
<1>3. PICK floor : floor = BoardFeeFloor(l.posts)
  OBVIOUS
<1>4. PICK r \in [0 .. n -> Acc] :
        /\ r[0] = [ok |-> TRUE, l |-> l] /\ r[n] = ApplyTxs(txs, l)
        /\ \A i \in 1 .. n : r[i] = TxStep(r[i - 1], txs[i], floor)
  BY <1>1, <1>2, <1>3, ApplyTxsRuns
<1>5. PICK f \in [0 .. n -> Nat] :
        f[0] = 0 /\ f[n] = Fees(txs) /\ \A i \in 1 .. n : f[i] = f[i - 1] + Fee[txs[i]]
  BY <1>2, FeesRuns
<1>6. \A i \in 0 .. n : r[i].ok
  <2>1. r[n].ok
    BY <1>4
  <2>2. \A i \in 1 .. n : r[i] = TxStep(r[i - 1], txs[i], floor)
    BY <1>4
  <2> QED BY <2>1, <2>2, ApplyTxsOk
<1> DEFINE Mid(k, fees) ==
             /\ k \in LedgerType /\ IsFiniteSet(k.spent) /\ InOrder(k)
             /\ k.minted = l.minted /\ SumOver(k.bal, Addr) + fees = l.minted
<1>7. PICK G : G = {i \in 0 .. n : Mid(r[i].l, f[i])}
  OBVIOUS
<1>8. 0 \in G
  <2>1. l.minted \in Int
    BY <1>1, LedgerAssumption DEF LedgerType
  <2>2. Mid(l, 0)
    BY <1>1, <2>1
  <2> HIDE DEF Mid
  <2> QED BY <1>4, <1>5, <1>7, <2>2
<1>9. ASSUME NEW i \in 1 .. n, i - 1 \in G PROVE i \in G
  <2>1. i \in 0 .. n /\ i - 1 \in 0 .. n /\ txs[i] \in Tx
    BY <1>2
  <2>2. PICK k, t : k = r[i - 1].l /\ t = txs[i]
    OBVIOUS
  <2>3. Mid(k, f[i - 1]) /\ t \in Tx
    BY <1>7, <1>9, <2>1, <2>2
  <2>4. r[i - 1].ok /\ r[i].ok
    BY <1>6, <2>1
  <2>5. ValidTx(t, k, floor) /\ r[i].l = ApplyTx(t, k)
    <3>1. r[i] = TxStep(r[i - 1], t, floor)
      BY <1>4, <2>2
    <3>2. ValidTx(t, k, floor)
      BY <2>2, <2>4, <3>1 DEF TxStep
    <3> QED BY <2>2, <2>4, <3>1, <3>2 DEF TxStep
  <2>6. ApplyTx(t, k) \in LedgerType /\ ApplyTx(t, k).minted = l.minted
    BY <2>3, <2>5, ApplyTxType DEF ApplyTx
  <2>7. InOrder(ApplyTx(t, k)) /\ IsFiniteSet(ApplyTx(t, k).spent)
    BY <2>3, <2>5, ApplyTxOrder
  <2>8. SumOver(ApplyTx(t, k).bal, Addr) + f[i] = l.minted
    <3>1. SumOver(ApplyTx(t, k).bal, Addr) + Fee[t] = SumOver(k.bal, Addr)
      BY <2>3, <2>5, ApplyTxSum
    <3>2. SumOver(k.bal, Addr) + f[i - 1] = l.minted /\ f[i] = f[i - 1] + Fee[t]
      BY <1>5, <2>2, <2>3
    <3>3. SumOver(ApplyTx(t, k).bal, Addr) \in Int
      <4>1. ApplyTx(t, k).bal \in [Addr -> Nat]
        BY <2>6 DEF LedgerType
      <4>2. \A a \in Addr : ApplyTx(t, k).bal[a] \in Int
        BY <4>1
      <4> QED BY <4>2, SumType, LedgerAssumption
    <3>4. Fee[t] \in Nat /\ f[i - 1] \in Nat
      BY <2>1, <2>3, LedgerAssumption
    <3> QED BY <3>1, <3>2, <3>3, <3>4
  <2>9. Mid(r[i].l, f[i])
    BY <2>5, <2>6, <2>7, <2>8
  <2> HIDE DEF Mid
  <2> QED BY <1>7, <2>1, <2>9
<1>10. Mid(r[n].l, f[n])
  <2> HIDE DEF Mid
  <2>1. \A i \in 0 .. n : i \in G
    BY <1>8, <1>9, UpTo
  <2> QED BY <1>7, <2>1
<1> QED BY <1>4, <1>5, <1>10

\* What the two changes of a payment make of a ledger.
LEMMA PaidLedger ==
  ASSUME NEW k \in LedgerType, NEW x, NEW c, NEW m
  PROVE  [k EXCEPT !.bal[x] = c, !.minted = m]
           = [bal |-> [k.bal EXCEPT ![x] = c], nonce |-> k.nonce, minted |-> m,
              posts |-> k.posts, spent |-> k.spent]
<1>1. PICK B : B = [k.bal EXCEPT ![x] = c]
  OBVIOUS
<1>2. [k EXCEPT !.bal[x] = c, !.minted = m] = [[k EXCEPT !.bal[x] = c] EXCEPT !.minted = m]
  BY DEF LedgerType
<1>3. PICK d : d = [k EXCEPT !.bal[x] = c]
  OBVIOUS
<1>4. d = [bal |-> B, nonce |-> k.nonce, minted |-> k.minted, posts |-> k.posts,
           spent |-> k.spent]
  BY <1>1, <1>3 DEF LedgerType
<1>5. [d EXCEPT !.minted = m]
        = [bal |-> B, nonce |-> k.nonce, minted |-> m, posts |-> k.posts,
           spent |-> k.spent]
  BY <1>4
<1> QED BY <1>1, <1>2, <1>3, <1>5

\* The builder gets all of them, and the reward.
LEMMA PayBuilderSum ==
  ASSUME NEW k \in LedgerType, NEW builder \in Builder, NEW txs \in Seq(Tx)
  PROVE  /\ PayBuilder(builder, txs, k) \in LedgerType
         /\ SumOver(PayBuilder(builder, txs, k).bal, Addr)
              = SumOver(k.bal, Addr) + Fees(txs) + Reward(k.minted)
<1> DEFINE p == PayBuilder(builder, txs, k)
<1>1. Fees(txs) \in Nat
  <2>1. PICK f \in [0 .. Len(txs) -> Nat] : f[Len(txs)] = Fees(txs)
    BY FeesRuns
  <2>2. Len(txs) \in 0 .. Len(txs)
    OBVIOUS
  <2> QED BY <2>1, <2>2
<1>2. builder \in Addr /\ IsFiniteSet(Addr) /\ SupplyCap \in Nat
  BY LedgerAssumption, ProducerAssumption
<1>3. /\ k.bal \in [Addr -> Nat] /\ k.nonce \in [Addr -> Nat]
      /\ k.minted \in 0..SupplyCap /\ k.posts \in Nat /\ k.spent \in SUBSET Tx
      /\ k = [bal |-> k.bal, nonce |-> k.nonce, minted |-> k.minted,
              posts |-> k.posts, spent |-> k.spent]
  BY DEF LedgerType
<1>4. Reward(k.minted) \in Nat /\ k.minted + Reward(k.minted) <= SupplyCap
  BY <1>3, RewardBound
<1>5. PICK new : new = [k.bal EXCEPT ![builder] = @ + Fees(txs) + Reward(k.minted)]
  OBVIOUS
<1>6. p = [bal |-> new, nonce |-> k.nonce, minted |-> k.minted + Reward(k.minted),
           posts |-> k.posts, spent |-> k.spent]
  BY <1>5, PaidLedger DEF PayBuilder
<1>7. /\ new \in [Addr -> Nat] /\ new[builder] = k.bal[builder] + Fees(txs) + Reward(k.minted)
      /\ \A a \in Addr : a # builder => new[a] = k.bal[a]
  BY <1>1, <1>2, <1>3, <1>4, <1>5
<1>8. k.minted + Reward(k.minted) \in 0..SupplyCap
  BY <1>2, <1>3, <1>4
<1>9. p \in LedgerType
  BY <1>3, <1>6, <1>7, <1>8 DEF LedgerType
<1>10. SumOver(new, Addr) = SumOver(k.bal, Addr) + Fees(txs) + Reward(k.minted)
  <2>1. \A a \in Addr : new[a] \in Int /\ k.bal[a] \in Int
    BY <1>3, <1>7
  <2>2. PICK R : R = Addr \ {builder}
    OBVIOUS
  <2>3. IsFiniteSet(R)
    BY <1>2, <2>2, FS_RemoveElement
  <2>4. SumOver(new, Addr) = new[builder] + SumOver(new, R)
    BY <1>2, <2>1, <2>2, SumWithout
  <2>5. SumOver(k.bal, Addr) = k.bal[builder] + SumOver(k.bal, R)
    BY <1>2, <2>1, <2>2, SumWithout
  <2>6. SumOver(new, R) = SumOver(k.bal, R) /\ SumOver(new, R) \in Int
    <3>1. \A a \in R : new[a] \in Int /\ new[a] = k.bal[a]
      BY <1>7, <2>1, <2>2
    <3> QED BY <2>3, <3>1, SumSame, SumType
  <2>7. k.bal[builder] \in Nat
    BY <1>2, <1>3
  <2> QED BY <1>1, <1>4, <1>7, <2>4, <2>5, <2>6, <2>7
<1>11. p.bal = new
  BY <1>6
<1> QED BY <1>9, <1>10, <1>11

LEMMA ApplyTxsType ==
  ASSUME NEW txs \in Seq(Tx), NEW l \in LedgerType
  PROVE  ApplyTxs(txs, l) \in Acc
<1>1. PICK r \in [0 .. Len(txs) -> Acc] : r[Len(txs)] = ApplyTxs(txs, l)
  BY ApplyTxsRuns
<1>2. Len(txs) \in 0 .. Len(txs)
  OBVIOUS
<1> QED BY <1>1, <1>2

\* Whatever is in a block, it leaves a ledger.
LEMMA AfterBlockType ==
  ASSUME NEW l \in LedgerType, NEW b \in Block
  PROVE  AfterBlock(b, l) \in LedgerType
<1>1. b.builder \in Builder /\ b.txs \in Seq(Tx)
  BY DEF Block
<1>2. ApplyTxs(b.txs, l).l \in LedgerType
  <2>1. ApplyTxs(b.txs, l) \in Acc
    BY <1>1, ApplyTxsType
  <2> QED BY <2>1 DEF Acc
<1> QED BY <1>1, <1>2, PayBuilderSum DEF AfterBlock

\* If it is valid, a sound one.
LEMMA AfterBlockSound ==
  ASSUME NEW l, Sound(l), NEW b \in Block, ApplyTxs(b.txs, l).ok
  PROVE  Sound(AfterBlock(b, l))
<1>1. b.builder \in Builder /\ b.txs \in Seq(Tx)
  BY DEF Block
<1>2. PICK k : k = ApplyTxs(b.txs, l).l
  OBVIOUS
<1>3. /\ k \in LedgerType /\ IsFiniteSet(k.spent) /\ InOrder(k)
      /\ k.minted = l.minted /\ SumOver(k.bal, Addr) + Fees(b.txs) = l.minted
  BY <1>1, <1>2, TxsKeep
<1>4. PICK p : p = PayBuilder(b.builder, b.txs, k)
  OBVIOUS
<1>5. /\ p \in LedgerType
      /\ SumOver(p.bal, Addr) = SumOver(k.bal, Addr) + Fees(b.txs) + Reward(k.minted)
  BY <1>1, <1>3, <1>4, PayBuilderSum
<1>6. /\ p.spent = k.spent /\ p.nonce = k.nonce
      /\ p.minted = k.minted + Reward(k.minted)
  <2>1. k = [bal |-> k.bal, nonce |-> k.nonce, minted |-> k.minted,
              posts |-> k.posts, spent |-> k.spent]
    BY <1>3 DEF LedgerType
  <2> QED BY <1>4, <2>1 DEF PayBuilder
<1>7. SumOver(p.bal, Addr) = p.minted
  BY <1>3, <1>5, <1>6
<1>8. InOrder(p)
  BY <1>3, <1>6 DEF InOrder, ConfirmedBy
<1> QED BY <1>2, <1>3, <1>4, <1>5, <1>6, <1>7, <1>8 DEF AfterBlock, Sound

-----------------------------------------------------------------------------
(* Chains of blocks *)

\* r goes from ledger l along the blocks bs.
Along(r, bs, l) ==
  r[0] = l /\ \A i \in 1 .. Len(bs) : r[i] = AfterBlock(bs[i], r[i - 1])

BlockFold(g, bs, l) ==
  g = [S \in SUBSET DOMAIN bs |->
         IF S = {} THEN l
         ELSE LET x == Max(S) IN AfterBlock(bs[x], g[S \ {x}])]

LEMMA AfterBlocksIsFold ==
  ASSUME NEW bs, NEW l
  PROVE  AfterBlocks(bs, l) = (CHOOSE g : BlockFold(g, bs, l))[DOMAIN bs]
BY DEF AfterBlocks, FoldLeft, MapThenFoldSet, BlockFold

LEMMA AfterBlocksRuns ==
  ASSUME NEW bs \in Seq(Block), NEW l \in LedgerType
  PROVE  \E r \in [0 .. Len(bs) -> LedgerType] :
           Along(r, bs, l) /\ r[Len(bs)] = AfterBlocks(bs, l)
<1>1. PICK X, b : X = LedgerType /\ b = l
  OBVIOUS
<1>2. PICK F : F = [p \in X \X Block |-> AfterBlock(p[2], p[1])]
  OBVIOUS
<1>3. ASSUME NEW a \in X, NEW y \in Block
      PROVE  F[<<a, y>>] = AfterBlock(y, a) /\ F[<<a, y>>] \in X
  <2>1. AfterBlock(y, a) \in X
    BY <1>1, AfterBlockType
  <2> QED BY <1>2, <2>1
<1>4. b \in X /\ F \in [X \X Block -> X]
  <2>1. b \in X
    BY <1>1
  <2>2. \A p \in X \X Block : AfterBlock(p[2], p[1]) \in X
    BY <1>2, <1>3
  <2> QED BY <1>2, <2>1, <2>2
<1>5. PICK g : g = CHOOSE h : BlockFold(h, bs, l)
  OBVIOUS
<1>6. BlockFold(g, bs, l)
  <2>1. PICK h : Computes(h, F, b, bs, X, Block)
    BY <1>4, FoldComputes
  <2>2. ASSUME NEW S \in SUBSET DOMAIN bs, S # {}
        PROVE  h[S] = AfterBlock(bs[Max(S)], h[S \ {Max(S)}])
    <3>1. /\ h[S \ {Max(S)}] \in X /\ bs[Max(S)] \in Block
          /\ h[S] = F[<<h[S \ {Max(S)}], bs[Max(S)]>>]
      BY <2>1, <2>2 DEF Computes
    <3> QED BY <1>3, <3>1
  <2>3. BlockFold(h, bs, l)
    BY <1>1, <2>1, <2>2 DEF Computes, BlockFold
  <2> QED BY <1>5, <2>3
<1>7. RunsTo(F, b, bs, X, AfterBlocks(bs, l))
  <2>1. g[{}] = b
    BY <1>1, <1>6 DEF BlockFold
  <2>2. ASSUME NEW S \in SUBSET DOMAIN bs, S # {},
               g[S \ {Max(S)}] \in X, bs[Max(S)] \in Block
        PROVE  g[S] = F[<<g[S \ {Max(S)}], bs[Max(S)]>>]
    <3>1. g[S] = AfterBlock(bs[Max(S)], g[S \ {Max(S)}])
      BY <1>6, <2>2 DEF BlockFold
    <3> QED BY <1>3, <2>2, <3>1
  <2>3. RunsTo(F, b, bs, X, g[DOMAIN bs])
    BY <1>4, <2>1, <2>2, FoldGoes
  <2> QED BY <1>5, <2>3, AfterBlocksIsFold
<1>8. PICK r \in [0 .. Len(bs) -> X] : Runs(r, F, b, bs) /\ r[Len(bs)] = AfterBlocks(bs, l)
  BY <1>7 DEF RunsTo
<1>9. ASSUME NEW i \in 1 .. Len(bs)
      PROVE  r[i] = AfterBlock(bs[i], r[i - 1])
  <2>1. i - 1 \in 0 .. Len(bs) /\ bs[i] \in Block
    OBVIOUS
  <2>2. r[i - 1] \in X
    BY <2>1
  <2> QED BY <1>3, <1>8, <2>1, <2>2 DEF Runs
<1> QED BY <1>1, <1>8, <1>9 DEF Runs, Along

\* Whatever goes along the blocks ends where AfterBlocks does.
LEMMA AlongEnds ==
  ASSUME NEW l \in LedgerType, NEW bs \in Seq(Block), NEW q, Along(q, bs, l)
  PROVE  q[Len(bs)] = AfterBlocks(bs, l)
<1>1. PICK r : Along(r, bs, l) /\ r[Len(bs)] = AfterBlocks(bs, l)
  BY AfterBlocksRuns
<1>2. PICK n \in Nat : n = Len(bs)
  OBVIOUS
<1>3. PICK G : G = {i \in 0 .. n : r[i] = q[i]}
  OBVIOUS
<1>4. 0 \in G
  BY <1>1, <1>3 DEF Along
<1>5. ASSUME NEW i \in 1 .. n, i - 1 \in G PROVE i \in G
  <2>1. r[i - 1] = q[i - 1] /\ i \in 0 .. n
    BY <1>3, <1>5
  <2>2. r[i] = AfterBlock(bs[i], r[i - 1]) /\ q[i] = AfterBlock(bs[i], q[i - 1])
    BY <1>1, <1>2 DEF Along
  <2> QED BY <1>3, <2>1, <2>2
<1>6. \A i \in 0 .. n : i \in G
  BY <1>4, <1>5, UpTo
<1>7. n \in 0 .. n
  OBVIOUS
<1> QED BY <1>1, <1>2, <1>3, <1>6, <1>7

-----------------------------------------------------------------------------
(* The invariant *)

\* The blocks bs are valid, one after the other, from a sound ledger l.
ValidFrom(r, bs, l) ==
  /\ Sound(l) /\ bs \in Seq(Block) /\ Along(r, bs, l)
  /\ \A i \in 1 .. Len(bs) : ApplyTxs(bs[i].txs, r[i - 1]).ok

\* So every ledger on the way is sound, and so is the one they lead to.
LEMMA ValidSound ==
  ASSUME NEW l, NEW bs, NEW r, ValidFrom(r, bs, l)
  PROVE  /\ \A i \in 0 .. Len(bs) : Sound(r[i])
         /\ r[Len(bs)] = AfterBlocks(bs, l) /\ Sound(AfterBlocks(bs, l))
<1>1. PICK n \in Nat : n = Len(bs)
  BY DEF ValidFrom
<1>2. PICK G : G = {i \in 0 .. n : Sound(r[i])}
  OBVIOUS
<1>3. 0 \in G
  BY <1>2 DEF ValidFrom, Along
<1>4. ASSUME NEW i \in 1 .. n, i - 1 \in G PROVE i \in G
  <2>1. bs[i] \in Block
    BY <1>1 DEF ValidFrom
  <2>2. Sound(r[i - 1]) /\ ApplyTxs(bs[i].txs, r[i - 1]).ok
    BY <1>1, <1>2, <1>4 DEF ValidFrom
  <2>3. Sound(AfterBlock(bs[i], r[i - 1]))
    BY <2>1, <2>2, AfterBlockSound
  <2>4. r[i] = AfterBlock(bs[i], r[i - 1])
    BY <1>1 DEF ValidFrom, Along
  <2>5. i \in 0 .. n
    OBVIOUS
  <2> QED BY <1>2, <2>3, <2>4, <2>5
<1>5. \A i \in 0 .. n : Sound(r[i])
  <2>1. \A i \in 0 .. n : i \in G
    BY <1>3, <1>4, UpTo
  <2> QED BY <1>2, <2>1
<1>6. r[n] = AfterBlocks(bs, l)
  <2>1. l \in LedgerType
    BY DEF ValidFrom, Sound
  <2> QED BY <1>1, <2>1, AlongEnds DEF ValidFrom
<1>7. n \in 0 .. n
  OBVIOUS
<1> QED BY <1>1, <1>5, <1>6, <1>7

\* A chain that is valid stays so with a valid block more,
LEMMA ValidLonger ==
  ASSUME NEW l, NEW bs, NEW r, ValidFrom(r, bs, l),
         NEW b \in Block, ApplyTxs(b.txs, AfterBlocks(bs, l)).ok
  PROVE  /\ \E q : ValidFrom(q, Append(bs, b), l)
         /\ AfterBlocks(Append(bs, b), l) = AfterBlock(b, AfterBlocks(bs, l))
<1>1. PICK n \in Nat : n = Len(bs)
  BY DEF ValidFrom
<1>2. PICK longer : longer = Append(bs, b)
  OBVIOUS
<1>3. /\ bs \in Seq(Block) /\ longer \in Seq(Block) /\ Len(longer) = n + 1
      /\ longer[n + 1] = b /\ \A i \in 1 .. n : longer[i] = bs[i]
  BY <1>1, <1>2 DEF ValidFrom
<1>4. PICK q : q = [i \in 0 .. (n + 1) |-> IF i = n + 1 THEN AfterBlock(b, r[n]) ELSE r[i]]
  OBVIOUS
<1>5. q[0] = l
  BY <1>4 DEF ValidFrom, Along
<1>6. r[n] = AfterBlocks(bs, l)
  BY <1>1, ValidSound
<1>7. ASSUME NEW i \in 1 .. (n + 1)
      PROVE  q[i] = AfterBlock(longer[i], q[i - 1]) /\ ApplyTxs(longer[i].txs, q[i - 1]).ok
  <2>1. i \in 0 .. (n + 1) /\ i - 1 \in 0 .. (n + 1) /\ i - 1 # n + 1
    OBVIOUS
  <2>2. q[i - 1] = r[i - 1]
    BY <1>4, <2>1
  <2>3. CASE i = n + 1
    <3>1. q[i] = AfterBlock(b, r[n]) /\ i - 1 = n
      BY <1>4, <2>1, <2>3
    <3> QED BY <1>3, <1>6, <2>2, <2>3, <3>1
  <2>4. CASE i # n + 1
    <3>1. i \in 1 .. n /\ q[i] = r[i]
      BY <1>4, <2>1, <2>4
    <3>2. r[i] = AfterBlock(bs[i], r[i - 1]) /\ ApplyTxs(bs[i].txs, r[i - 1]).ok
      BY <1>1, <3>1 DEF ValidFrom, Along
    <3> QED BY <1>3, <2>2, <3>1, <3>2
  <2> QED BY <2>3, <2>4
<1>8. ValidFrom(q, longer, l)
  BY <1>3, <1>5, <1>7 DEF ValidFrom, Along
<1>9. q[n + 1] = AfterBlocks(longer, l)
  BY <1>3, <1>8, ValidSound
<1>10. q[n + 1] = AfterBlock(b, r[n])
  BY <1>1, <1>4
<1> QED BY <1>2, <1>6, <1>8, <1>9, <1>10

\* with its last blocks gone,
LEMMA ValidShorter ==
  ASSUME NEW l, NEW bs, NEW r, ValidFrom(r, bs, l), NEW m \in 0 .. Len(bs)
  PROVE  ValidFrom(r, SubSeq(bs, 1, m), l)
<1>1. PICK shorter : shorter = SubSeq(bs, 1, m)
  OBVIOUS
<1>2. /\ Len(bs) \in Nat /\ shorter \in Seq(Block) /\ Len(shorter) = m
      /\ \A i \in 1 .. m : shorter[i] = bs[i]
  BY <1>1 DEF ValidFrom
<1>3. \A i \in 1 .. m : i \in 1 .. Len(bs)
  BY <1>2
<1> QED BY <1>1, <1>2, <1>3 DEF ValidFrom, Along

\* or with its first block counted into the ledger below.
LEMMA ValidLater ==
  ASSUME NEW l, NEW bs, NEW r, ValidFrom(r, bs, l), bs # << >>
  PROVE  /\ \E q : ValidFrom(q, Tail(bs), AfterBlock(bs[1], l))
         /\ AfterBlocks(Tail(bs), AfterBlock(bs[1], l)) = AfterBlocks(bs, l)
<1>1. PICK n \in Nat : n = Len(bs) - 1
  <2>1. bs \in Seq(Block) /\ bs # << >>
    BY DEF ValidFrom
  <2>2. Len(bs) \in Nat /\ Len(bs) # 0
    BY <2>1
  <2> QED BY <2>2
<1>2. PICK rest : rest = Tail(bs)
  OBVIOUS
<1>3. /\ bs \in Seq(Block) /\ Len(bs) = n + 1 /\ rest \in Seq(Block) /\ Len(rest) = n
      /\ \A i \in 1 .. n : rest[i] = bs[i + 1]
  BY <1>1, <1>2 DEF ValidFrom
<1>4. PICK q : q = [i \in 0 .. n |-> r[i + 1]]
  OBVIOUS
<1>5. 1 \in 0 .. Len(bs) /\ 1 \in 1 .. Len(bs)
  BY <1>3
<1>6. Sound(r[1]) /\ r[1] = AfterBlock(bs[1], r[0]) /\ r[0] = l
  BY <1>5, ValidSound DEF ValidFrom, Along
<1>7. q[0] = r[1]
  BY <1>4
<1>8. ASSUME NEW i \in 1 .. n
      PROVE  q[i] = AfterBlock(rest[i], q[i - 1]) /\ ApplyTxs(rest[i].txs, q[i - 1]).ok
  <2>1. i \in 0 .. n /\ i - 1 \in 0 .. n /\ i + 1 \in 1 .. Len(bs)
    BY <1>3
  <2>2. q[i] = r[i + 1] /\ q[i - 1] = r[i]
    BY <1>4, <2>1
  <2>3. r[i + 1] = AfterBlock(bs[i + 1], r[i]) /\ ApplyTxs(bs[i + 1].txs, r[i]).ok
    <3>1. PICK j \in 1 .. Len(bs) : j = i + 1
      BY <2>1
    <3>2. r[j] = AfterBlock(bs[j], r[j - 1]) /\ ApplyTxs(bs[j].txs, r[j - 1]).ok
      BY DEF ValidFrom, Along
    <3>3. j - 1 = i
      BY <3>1
    <3> QED BY <3>1, <3>2, <3>3
  <2> QED BY <1>3, <2>2, <2>3
<1>9. ValidFrom(q, rest, AfterBlock(bs[1], l))
  BY <1>3, <1>6, <1>7, <1>8 DEF ValidFrom, Along
<1>10. q[n] = AfterBlocks(rest, AfterBlock(bs[1], l))
  BY <1>3, <1>9, ValidSound
<1>11. r[n + 1] = AfterBlocks(bs, l)
  BY <1>3, ValidSound
<1>12. q[n] = r[n + 1]
  BY <1>1, <1>4
<1> QED BY <1>2, <1>9, <1>10, <1>11, <1>12

\* The chain of the node is such a chain, no longer than it has to be.
ChainInv ==
  /\ \E r : ValidFrom(r, recent, base)
  /\ Len(recent) <= MaxDepth

LEMMA GrowKeeps ==
  ASSUME ChainInv, NEW b \in Block, ApplyTxs(b.txs, ledger).ok, Grow(b)
  PROVE  ChainInv'
<1>1. PICK r : ValidFrom(r, recent, base)
  BY DEF ChainInv
<1>2. PICK longer : longer = Append(recent, b)
  OBVIOUS
<1>3. PICK q : ValidFrom(q, longer, base)
  BY <1>1, <1>2, ValidLonger DEF ledger
<1>4. recent \in Seq(Block) /\ MaxDepth \in Nat /\ Len(longer) = Len(recent) + 1
  BY <1>1, <1>2, ProducerAssumption DEF ValidFrom
<1>5. CASE Len(recent) < MaxDepth
  <2>1. base' = base /\ recent' = longer
    BY <1>2, <1>5 DEF Grow
  <2>2. Len(longer) <= MaxDepth
    BY <1>4, <1>5
  <2> QED BY <1>3, <2>1, <2>2 DEF ChainInv
<1>6. CASE ~ (Len(recent) < MaxDepth)
  <2>1. base' = AfterBlock(longer[1], base) /\ recent' = Tail(longer)
    BY <1>2, <1>6 DEF Grow
  <2>2. longer # << >> /\ Len(Tail(longer)) = Len(recent)
    BY <1>2, <1>4
  <2>3. PICK p : ValidFrom(p, Tail(longer), AfterBlock(longer[1], base))
    BY <1>3, <2>2, ValidLater
  <2> QED BY <2>1, <2>2, <2>3 DEF ChainInv
<1> QED BY <1>5, <1>6

\* A block that is found valid, of this node or of another.
LEMMA OwnBlock ==
  ASSUME NEW l, BlockValid(Candidate, l)
  PROVE  Candidate \in Block /\ ApplyTxs(Candidate.txs, l).ok
BY ProducerAssumption DEF BlockValid, Candidate, Block

LEMMA OthersBlock ==
  ASSUME NEW l, NEW b \in PeerBlocks(l)
  PROVE  b \in Block /\ ApplyTxs(b.txs, l).ok
<1>1. /\ b \in [builder : Builder \ {Me}, txs : TxLists]
      /\ b.txs \in Seq(Tx) /\ ApplyTxs(b.txs, l).ok
  BY DEF PeerBlocks, BlockValid
<1> HIDE DEF TxLists
<1> QED BY <1>1 DEF Block

LEMMA ProduceKeeps ==
  ASSUME ChainInv, Produce
  PROVE  ChainInv'
<1>1. CASE BlockValid(Candidate, ledger)
  <2>1. Grow(Candidate)
    BY <1>1 DEF Produce, Commit
  <2> QED BY <1>1, <2>1, OwnBlock, GrowKeeps
<1>2. CASE ~ BlockValid(Candidate, ledger)
  BY <1>2 DEF Produce, ChainInv
<1> QED BY <1>1, <1>2

LEMMA PeerBlockKeeps ==
  ASSUME ChainInv, PeerBlock
  PROVE  ChainInv'
<1>1. PICK b \in PeerBlocks(ledger) : Grow(b)
  BY DEF PeerBlock, Commit
<1> QED BY <1>1, OthersBlock, GrowKeeps

LEMMA ReorganiseKeeps ==
  ASSUME ChainInv, NEW depth \in 1 .. Len(recent), Reorganise(depth)
  PROVE  ChainInv'
<1>1. PICK b \in PeerBlocks(AfterBlocks(Kept(depth), base)) : recent' = Append(Kept(depth), b)
  BY DEF Reorganise
<1>2. base' = base
  BY DEF Reorganise
<1>3. PICK r : ValidFrom(r, recent, base)
  BY DEF ChainInv
<1>4. PICK m : m = Len(recent) - depth
  OBVIOUS
<1>5. m \in 0 .. Len(recent) /\ m < Len(recent) /\ Kept(depth) = SubSeq(recent, 1, m)
  BY <1>3, <1>4 DEF ValidFrom, Kept
<1>6. ValidFrom(r, Kept(depth), base)
  BY <1>3, <1>5, ValidShorter
<1>7. b \in Block /\ ApplyTxs(b.txs, AfterBlocks(Kept(depth), base)).ok
  BY <1>1, OthersBlock
<1>8. PICK q : ValidFrom(q, recent', base)
  BY <1>1, <1>6, <1>7, ValidLonger
<1>9. Len(recent') <= MaxDepth
  <2>1. recent \in Seq(Block) /\ Len(recent) <= MaxDepth /\ MaxDepth \in Nat
    BY <1>3, ProducerAssumption DEF ChainInv, ValidFrom
  <2>2. Kept(depth) \in Seq(Block) /\ Len(Kept(depth)) = m
    BY <1>5, <2>1
  <2>3. Len(recent') = m + 1
    BY <1>1, <2>2
  <2> QED BY <1>4, <1>5, <2>1, <2>3
<1> QED BY <1>2, <1>8, <1>9 DEF ChainInv

-----------------------------------------------------------------------------
LEMMA ChainStart == ProducerInit => ChainInv
<1> SUFFICES ASSUME ProducerInit PROVE ChainInv
  OBVIOUS
<1>1. base = NewLedger /\ recent = << >>
  BY DEF ProducerInit
<1>2. NewLedger \in LedgerType /\ IsFiniteSet(NewLedger.spent)
  BY LedgerAssumption, FS_EmptySet DEF NewLedger, LedgerType
<1>3. InOrder(NewLedger)
  <2> SUFFICES ASSUME NEW a \in Addr
               PROVE  /\ {Nonce[t] : t \in ConfirmedBy(NewLedger, a)}
                           = 1 .. Cardinality(ConfirmedBy(NewLedger, a))
                      /\ NewLedger.nonce[a] = Cardinality(ConfirmedBy(NewLedger, a))
    BY DEF InOrder
  <2>1. ConfirmedBy(NewLedger, a) = {} /\ NewLedger.nonce[a] = 0
    BY DEF NewLedger, ConfirmedBy
  <2>2. Cardinality({}) = 0
    BY FS_EmptySet
  <2> QED BY <2>1, <2>2
<1>4. SumOver(NewLedger.bal, Addr) = NewLedger.minted
  <2>1. \A a \in Addr : NewLedger.bal[a] = 0
    BY DEF NewLedger
  <2>2. SumOver(NewLedger.bal, Addr) = 0
    BY <2>1, SumOfZeros, LedgerAssumption
  <2> QED BY <2>2 DEF NewLedger
<1>5. Sound(base)
  BY <1>1, <1>2, <1>3, <1>4 DEF Sound
<1>6. PICK r : r = [i \in 0 .. 0 |-> base]
  OBVIOUS
<1>7. ValidFrom(r, recent, base)
  BY <1>1, <1>5, <1>6 DEF ValidFrom, Along
<1> QED BY <1>1, <1>7, ProducerAssumption DEF ChainInv

LEMMA ChainStep == ChainInv /\ [ProducerNext]_producerVars => ChainInv'
<1> SUFFICES ASSUME ChainInv, [ProducerNext]_producerVars PROVE ChainInv'
  OBVIOUS
<1>1. CASE UNCHANGED <<base, recent>>
  BY <1>1 DEF ChainInv
<1>2. CASE Produce
  BY <1>2, ProduceKeeps
<1>3. CASE PeerBlock
  BY <1>3, PeerBlockKeeps
<1>4. ASSUME NEW depth \in 1 .. Len(recent), Reorganise(depth) PROVE ChainInv'
  BY <1>4, ReorganiseKeeps
<1>5. \A t : Submit(t) => UNCHANGED <<base, recent>>
  BY DEF Submit
<1>6. \A e : StartCycle(e) => UNCHANGED <<base, recent>>
  BY DEF StartCycle
<1>7. \A d : RejectFork(d) => UNCHANGED <<base, recent>>
  BY DEF RejectFork
<1>8. UNCHANGED producerVars => UNCHANGED <<base, recent>>
  BY DEF producerVars
<1> QED BY <1>1, <1>2, <1>3, <1>4, <1>5, <1>6, <1>7, <1>8 DEF ProducerNext

\* What the node holds for its ledger is one, and a sound one.
LEMMA LedgerSound == ChainInv => Sound(ledger)
BY ValidSound DEF ChainInv, ledger

\* On every chain the node comes to hold, the balances add up to what was
\* minted, and no more than the cap ever is.
THEOREM ConservedAlways == ProducerSpec => []Conserved
<1>1. ASSUME ChainInv PROVE Conserved
  <2>1. Sound(ledger)
    BY <1>1, LedgerSound
  <2>2. SumOver(ledger.bal, Addr) = MapThenSumSet(LAMBDA a : ledger.bal[a], Addr)
    BY DEF SumOver
  <2>3. ledger.minted <= SupplyCap
    BY <2>1, LedgerAssumption DEF Sound, LedgerType
  <2> QED BY <2>1, <2>2, <2>3 DEF Sound, Conserved
<1> QED BY <1>1, ChainStart, ChainStep, PTL DEF ProducerSpec

\* On every such chain an address has confirmed the nonces 1 to n, each once.
THEOREM NoReplayAlways == ProducerSpec => []NoReplay
<1>1. ASSUME ChainInv PROVE NoReplay
  <2>1. InOrder(ledger)
    BY <1>1, LedgerSound DEF Sound
  <2> QED BY <2>1 DEF InOrder, ConfirmedBy, NoReplay
<1> QED BY <1>1, ChainStart, ChainStep, PTL DEF ProducerSpec

-----------------------------------------------------------------------------
(* The pool: lines of transactions, and what goes through them *)

\* A line has no transaction twice; the first i of one.
Lines == {txs \in Seq(Tx) : IsInjective(txs)}
FirstOf(txs, i) == {txs[j] : j \in 1 .. i}

LEMMA FirstGrows ==
  ASSUME NEW txs \in Lines, NEW i \in 1 .. Len(txs)
  PROVE  /\ txs[i] \in Tx /\ txs[i] \notin FirstOf(txs, i - 1)
         /\ FirstOf(txs, i) = FirstOf(txs, i - 1) \cup {txs[i]}
<1>1. /\ txs \in Seq(Tx) /\ DOMAIN txs = 1 .. Len(txs) /\ Len(txs) \in Nat
      /\ \A j, k \in 1 .. Len(txs) : txs[j] = txs[k] => j = k
  BY DEF Lines, IsInjective
<1>2. \A j \in 1 .. (i - 1) : j \in 1 .. Len(txs) /\ j # i
  BY <1>1
<1>3. txs[i] \notin FirstOf(txs, i - 1)
  BY <1>1, <1>2 DEF FirstOf
<1>4. \A j : j \in 1 .. i <=> j \in 1 .. (i - 1) \/ j = i
  BY <1>1
<1>5. FirstOf(txs, i) = FirstOf(txs, i - 1) \cup {txs[i]}
  BY <1>4 DEF FirstOf
<1> QED BY <1>1, <1>3, <1>5

LEMMA FirstEnds ==
  ASSUME NEW txs \in Lines
  PROVE  FirstOf(txs, 0) = {} /\ FirstOf(txs, Len(txs)) = ToSet(txs)
BY DEF Lines, FirstOf, ToSet

LEMMA LongerIn ==
  ASSUME NEW S, NEW txs \in Seq(S), IsInjective(txs), NEW t \in S, t \notin ToSet(txs)
  PROVE  /\ Append(txs, t) \in Seq(S) /\ IsInjective(Append(txs, t))
         /\ ToSet(Append(txs, t)) = ToSet(txs) \cup {t}
<1>1. PICK u, n : u = Append(txs, t) /\ n = Len(txs)
  OBVIOUS
<1>2. /\ u \in Seq(S) /\ n \in Nat /\ DOMAIN u = 1 .. (n + 1) /\ u[n + 1] = t
      /\ DOMAIN txs = 1 .. n /\ \A i \in 1 .. n : u[i] = txs[i]
  BY <1>1
<1>3. \A i \in 1 .. n : txs[i] # t
  BY <1>2 DEF ToSet
<1>4. \A i, j \in 1 .. n : txs[i] = txs[j] => i = j
  BY <1>2 DEF IsInjective
<1>5. \A i \in 1 .. (n + 1) : i \in 1 .. n \/ i = n + 1
  BY <1>2
<1>6. IsInjective(u)
  BY <1>2, <1>3, <1>4, <1>5 DEF IsInjective
<1>7. ToSet(u) = ToSet(txs) \cup {t}
  <2>1. \A i \in 1 .. n : i \in 1 .. (n + 1)
    BY <1>2
  <2>2. n + 1 \in 1 .. (n + 1)
    BY <1>2
  <2> QED BY <1>2, <1>5, <2>1, <2>2 DEF ToSet
<1> QED BY <1>1, <1>2, <1>6, <1>7

LEMMA LineLonger ==
  ASSUME NEW txs \in Lines, NEW t \in Tx, t \notin ToSet(txs)
  PROVE  Append(txs, t) \in Lines /\ ToSet(Append(txs, t)) = ToSet(txs) \cup {t}
BY LongerIn DEF Lines

\* A place for one more in a sequence of n: behind some of them.
LEMMA PlaceBehind ==
  ASSUME NEW n \in Nat, NEW S \in SUBSET (1 .. n)
  PROVE  IsFiniteSet(S) /\ 1 + Cardinality(S) \in 1 .. (n + 1)
<1>1. IsFiniteSet(1 .. n) /\ Cardinality(1 .. n) = n
  <2>1. 1 \in Int /\ n \in Int
    OBVIOUS
  <2>2. /\ IsFiniteSet(1 .. n)
        /\ Cardinality(1 .. n) = IF 1 > n THEN 0 ELSE n - 1 + 1
    BY <2>1, FS_Interval
  <2> QED BY <2>2
<1>2. IsFiniteSet(S) /\ Cardinality(S) <= n
  BY <1>1, FS_Subset
<1>3. Cardinality(S) \in Nat
  BY <1>2, FS_CardinalityType
<1> QED BY <1>2, <1>3

\* Where SortedBy puts a transaction, and what becomes of the line.
Place(txs, t) == 1 + Cardinality({i \in DOMAIN txs : ~ PaysLess(t, txs[i])})

LEMMA PlaceType ==
  ASSUME NEW txs \in Seq(Tx), NEW t
  PROVE  Place(txs, t) \in 1 .. (Len(txs) + 1)
<1>1. PICK n \in Nat : n = Len(txs) /\ DOMAIN txs = 1 .. n
  OBVIOUS
<1>2. PICK S : S = {i \in DOMAIN txs : ~ PaysLess(t, txs[i])}
  OBVIOUS
<1>3. 1 + Cardinality(S) \in 1 .. (n + 1)
  BY <1>1, <1>2, PlaceBehind
<1> QED BY <1>1, <1>2, <1>3 DEF Place

\* What an insertion makes of any sequence.
LEMMA InsertedIn ==
  ASSUME NEW S, NEW txs \in Seq(S), NEW k \in 1 .. (Len(txs) + 1), NEW t \in S
  PROVE  /\ InsertAt(txs, k, t) \in Seq(S) /\ Len(InsertAt(txs, k, t)) = Len(txs) + 1
         /\ \A i \in 1 .. (Len(txs) + 1) :
              InsertAt(txs, k, t)[i]
                = IF i < k THEN txs[i] ELSE IF i = k THEN t ELSE txs[i - 1]
         /\ IsInjective(txs) /\ t \notin ToSet(txs)
              => /\ IsInjective(InsertAt(txs, k, t))
                 /\ ToSet(InsertAt(txs, k, t)) = ToSet(txs) \cup {t}
<1>1. PICK n \in Nat : n = Len(txs) /\ DOMAIN txs = 1 .. n
  OBVIOUS
<1>2. PICK u : u = InsertAt(txs, k, t)
  OBVIOUS
<1>3. /\ u \in Seq(S) /\ Len(u) = n + 1 /\ DOMAIN u = 1 .. (n + 1)
      /\ \A i \in 1 .. (n + 1) :
           u[i] = IF i < k THEN txs[i] ELSE IF i = k THEN t ELSE txs[i - 1]
  <2>1. PICK a : a = SubSeq(txs, 1, k - 1)
    OBVIOUS
  <2>2. PICK c : c = SubSeq(txs, k, n)
    OBVIOUS
  <2>3. /\ a \in Seq(S) /\ Len(a) = k - 1 /\ \A i \in 1 .. (k - 1) : a[i] = txs[i]
    BY <1>1, <2>1
  <2>4. /\ c \in Seq(S) /\ Len(c) = n - k + 1
        /\ \A i \in 1 .. (n - k + 1) : c[i] = txs[k + i - 1]
    BY <1>1, <2>2
  <2>5. PICK d : d = <<t>>
    OBVIOUS
  <2>6. PICK e : e = a \o d
    OBVIOUS
  <2>7. /\ e \in Seq(S) /\ Len(e) = k /\ e[k] = t
        /\ \A i \in 1 .. (k - 1) : e[i] = txs[i]
    <3>1. PICK m \in Nat : m = k - 1 /\ k = m + 1
      BY <1>1
    <3>2. a \in Seq(S) /\ Len(a) = m
      BY <2>3, <3>1
    <3>3. e = Append(a, t)
      BY <2>5, <2>6, <3>2
    <3>4. /\ e \in Seq(S) /\ Len(e) = m + 1 /\ e[m + 1] = t
          /\ \A i \in 1 .. m : e[i] = a[i]
      BY <3>2, <3>3
    <3> QED BY <2>3, <3>1, <3>4
  <2>8. u = e \o c
    BY <1>1, <1>2, <2>1, <2>2, <2>5, <2>6 DEF InsertAt
  <2>9. u \in Seq(S) /\ Len(u) = n + 1
    <3>1. e \in Seq(S) /\ c \in Seq(S)
      BY <2>4, <2>7
    <3>2. u \in Seq(S) /\ Len(u) = Len(e) + Len(c)
      BY <2>8, <3>1
    <3> QED BY <1>1, <2>4, <2>7, <3>2
  <2>10. ASSUME NEW i \in 1 .. (n + 1)
         PROVE  u[i] = IF i < k THEN txs[i] ELSE IF i = k THEN t ELSE txs[i - 1]
    <3>1. CASE i <= k
      <4>1. i \in 1 .. Len(e)
        BY <1>1, <2>7, <3>1
      <4>2. u[i] = e[i]
        BY <2>4, <2>7, <2>8, <4>1
      <4> QED BY <1>1, <2>7, <3>1, <4>2
    <3>2. CASE ~ (i <= k)
      <4>1. i - k \in 1 .. Len(c) /\ i = Len(e) + (i - k)
        BY <1>1, <2>4, <2>7, <3>2
      <4>2. u[i] = c[i - k]
        BY <2>4, <2>7, <2>8, <4>1
      <4>3. c[i - k] = txs[i - 1]
        <5>1. PICK j : j = i - k
          OBVIOUS
        <5>2. j \in 1 .. (n - k + 1) /\ k + j - 1 = i - 1
          BY <1>1, <2>4, <4>1, <5>1
        <5> QED BY <2>4, <5>1, <5>2
      <4> QED BY <1>1, <3>2, <4>2, <4>3
    <3> QED BY <3>1, <3>2
  <2> QED BY <1>1, <2>9, <2>10
<1>4. ASSUME IsInjective(txs), t \notin ToSet(txs)
      PROVE  IsInjective(u) /\ ToSet(u) = ToSet(txs) \cup {t}
  <2>1. \A i \in 1 .. n : txs[i] # t
    BY <1>1, <1>4 DEF ToSet
  <2>2. \A i, j \in 1 .. n : txs[i] = txs[j] => i = j
    BY <1>1, <1>4 DEF IsInjective
  <2>3. PICK from : from = [i \in 1 .. (n + 1) |-> IF i < k THEN i ELSE i - 1]
    OBVIOUS
  <2>4. \A i \in 1 .. (n + 1) : i # k => from[i] \in 1 .. n /\ u[i] = txs[from[i]]
    BY <1>1, <1>3, <2>3
  <2>5. \A i, j \in 1 .. (n + 1) : i # k /\ j # k /\ from[i] = from[j] => i = j
    BY <1>1, <2>3
  <2>6. k \in 1 .. (n + 1) /\ u[k] = t
    BY <1>1, <1>3
  <2>7. IsInjective(u)
    <3> SUFFICES ASSUME NEW i \in 1 .. (n + 1), NEW j \in 1 .. (n + 1), u[i] = u[j]
                 PROVE  i = j
      BY <1>3 DEF IsInjective
    <3>1. CASE i # k /\ j # k
      <4>1. /\ from[i] \in 1 .. n /\ from[j] \in 1 .. n
            /\ u[i] = txs[from[i]] /\ u[j] = txs[from[j]]
        BY <2>4, <3>1
      <4>2. from[i] = from[j]
        BY <2>2, <4>1
      <4> QED BY <2>5, <3>1, <4>2
    <3>2. ASSUME NEW h \in 1 .. (n + 1), h # k PROVE u[h] # t
      <4>1. from[h] \in 1 .. n /\ u[h] = txs[from[h]]
        BY <2>4, <3>2
      <4> QED BY <2>1, <4>1
    <3>3. CASE i = k
      BY <2>6, <3>2, <3>3
    <3>4. CASE j = k
      BY <2>6, <3>2, <3>4
    <3> QED BY <3>1, <3>3, <3>4
  <2>8. \A i \in 1 .. n : \E j \in 1 .. (n + 1) : u[j] = txs[i]
    <3> TAKE i \in 1 .. n
    <3>1. CASE i < k
      BY <1>1, <1>3, <3>1
    <3>2. CASE ~ (i < k)
      <4>1. /\ i + 1 \in 1 .. (n + 1) /\ ~ (i + 1 < k) /\ i + 1 # k /\ (i + 1) - 1 = i
        BY <1>1, <3>2
      <4> QED BY <1>3, <4>1
    <3> QED BY <3>1, <3>2
  <2>9. ToSet(u) = ToSet(txs) \cup {t}
    <3>1. ToSet(u) = {u[j] : j \in 1 .. (n + 1)} /\ ToSet(txs) = {txs[i] : i \in 1 .. n}
      BY <1>1, <1>3 DEF ToSet
    <3>2. \A j \in 1 .. (n + 1) : u[j] = t \/ \E i \in 1 .. n : u[j] = txs[i]
      BY <2>4, <2>6
    <3> QED BY <2>6, <2>8, <3>1, <3>2
  <2> QED BY <2>7, <2>9
<1> QED BY <1>1, <1>2, <1>3, <1>4

LEMMA Inserted ==
  ASSUME NEW txs \in Seq(Tx), NEW k \in 1 .. (Len(txs) + 1), NEW t \in Tx
  PROVE  /\ InsertAt(txs, k, t) \in Seq(Tx)
         /\ txs \in Lines /\ t \notin ToSet(txs)
              => /\ InsertAt(txs, k, t) \in Lines
                 /\ ToSet(InsertAt(txs, k, t)) = ToSet(txs) \cup {t}
BY InsertedIn DEF Lines

LEMMA NoLine == << >> \in Lines /\ ToSet(<< >>) = {}
BY DEF Lines, IsInjective, ToSet

LEMMA LineOfTx ==
  ASSUME NEW txs \in Lines
  PROVE  ToSet(txs) \subseteq Tx
BY DEF Lines, ToSet

-----------------------------------------------------------------------------
(* What is made of a line *)

\* The bytes of a line.
BytesFold(g, txs) ==
  g = [S \in SUBSET DOMAIN txs |->
         IF S = {} THEN 0
         ELSE LET x == Max(S) IN g[S \ {x}] + Size[txs[x]]]

LEMMA BytesIsFold ==
  ASSUME NEW txs
  PROVE  Bytes(txs) = (CHOOSE g : BytesFold(g, txs))[DOMAIN txs]
BY DEF Bytes, FoldLeft, MapThenFoldSet, BytesFold

LEMMA BytesRuns ==
  ASSUME NEW txs \in Seq(Tx)
  PROVE  \E r \in [0 .. Len(txs) -> Nat] :
           /\ r[0] = 0 /\ r[Len(txs)] = Bytes(txs)
           /\ \A i \in 1 .. Len(txs) : r[i] = r[i - 1] + Size[txs[i]]
<1>1. PICK X, b : X = Nat /\ b = 0
  OBVIOUS
<1>2. PICK F : F = [p \in X \X Tx |-> p[1] + Size[p[2]]]
  OBVIOUS
<1>3. ASSUME NEW a \in X, NEW y \in Tx
      PROVE  F[<<a, y>>] = a + Size[y] /\ F[<<a, y>>] \in X
  <2>1. a + Size[y] \in X
    BY <1>1, ProducerAssumption
  <2> QED BY <1>2, <2>1
<1>4. b \in X /\ F \in [X \X Tx -> X]
  <2>1. b \in X
    BY <1>1
  <2>2. \A p \in X \X Tx : p[1] + Size[p[2]] \in X
    BY <1>2, <1>3
  <2> QED BY <1>2, <2>1, <2>2
<1>5. PICK g : g = CHOOSE h : BytesFold(h, txs)
  OBVIOUS
<1>6. BytesFold(g, txs)
  <2>1. PICK h : Computes(h, F, b, txs, X, Tx)
    BY <1>4, FoldComputes
  <2>2. ASSUME NEW S \in SUBSET DOMAIN txs, S # {}
        PROVE  h[S] = h[S \ {Max(S)}] + Size[txs[Max(S)]]
    <3>1. /\ h[S \ {Max(S)}] \in X /\ txs[Max(S)] \in Tx
          /\ h[S] = F[<<h[S \ {Max(S)}], txs[Max(S)]>>]
      BY <2>1, <2>2 DEF Computes
    <3> QED BY <1>3, <3>1
  <2>3. BytesFold(h, txs)
    BY <1>1, <2>1, <2>2 DEF Computes, BytesFold
  <2> QED BY <1>5, <2>3
<1>7. RunsTo(F, b, txs, X, Bytes(txs))
  <2>1. g[{}] = b
    BY <1>1, <1>6 DEF BytesFold
  <2>2. ASSUME NEW S \in SUBSET DOMAIN txs, S # {},
               g[S \ {Max(S)}] \in X, txs[Max(S)] \in Tx
        PROVE  g[S] = F[<<g[S \ {Max(S)}], txs[Max(S)]>>]
    <3>1. g[S] = g[S \ {Max(S)}] + Size[txs[Max(S)]]
      BY <1>6, <2>2 DEF BytesFold
    <3> QED BY <1>3, <2>2, <3>1
  <2>3. RunsTo(F, b, txs, X, g[DOMAIN txs])
    BY <1>4, <2>1, <2>2, FoldGoes
  <2> QED BY <1>5, <2>3, BytesIsFold
<1>8. PICK r \in [0 .. Len(txs) -> X] : Runs(r, F, b, txs) /\ r[Len(txs)] = Bytes(txs)
  BY <1>7 DEF RunsTo
<1>9. ASSUME NEW i \in 1 .. Len(txs)
      PROVE  r[i] = r[i - 1] + Size[txs[i]]
  <2>1. i - 1 \in 0 .. Len(txs) /\ txs[i] \in Tx
    OBVIOUS
  <2>2. r[i - 1] \in X
    BY <2>1
  <2> QED BY <1>3, <1>8, <2>1, <2>2 DEF Runs
<1> QED BY <1>1, <1>8, <1>9 DEF Runs

\* They are the sum of the sizes, whatever the order.
LEMMA BytesSum ==
  ASSUME NEW txs \in Lines
  PROVE  IsFiniteSet(ToSet(txs)) /\ Bytes(txs) = SumOver(Size, ToSet(txs))
<1>1. PICK n \in Nat : n = Len(txs)
  BY DEF Lines
<1>2. PICK r \in [0 .. n -> Nat] :
        r[0] = 0 /\ r[n] = Bytes(txs) /\ \A i \in 1 .. n : r[i] = r[i - 1] + Size[txs[i]]
  BY <1>1, BytesRuns DEF Lines
<1>3. PICK G : G = {i \in 0 .. n : /\ IsFiniteSet(FirstOf(txs, i)) /\ FirstOf(txs, i) \subseteq Tx
                                   /\ r[i] = SumOver(Size, FirstOf(txs, i))}
  OBVIOUS
<1>4. 0 \in G
  <2>1. FirstOf(txs, 0) = {} /\ IsFiniteSet({}) /\ SumOver(Size, {}) = 0
    BY FirstEnds, FS_EmptySet, SumOfNone
  <2>2. 0 \in 0 .. n
    OBVIOUS
  <2> QED BY <1>2, <1>3, <2>1, <2>2
<1>5. ASSUME NEW i \in 1 .. n, i - 1 \in G PROVE i \in G
  <2>1. PICK f, y : f = FirstOf(txs, i - 1) /\ y = txs[i]
    OBVIOUS
  <2>2. y \in Tx /\ y \notin f /\ FirstOf(txs, i) = f \cup {y}
    BY <1>1, <2>1, FirstGrows
  <2>3. IsFiniteSet(f) /\ f \subseteq Tx /\ r[i - 1] = SumOver(Size, f)
    BY <1>3, <1>5, <2>1
  <2>4. IsFiniteSet(f \cup {y}) /\ \A x \in f \cup {y} : Size[x] \in Int
    BY <2>2, <2>3, FS_AddElement, ProducerAssumption
  <2>5. (f \cup {y}) \ {y} = f /\ y \in f \cup {y}
    BY <2>2
  <2>6. SumOver(Size, f \cup {y}) = Size[y] + SumOver(Size, f)
    BY <2>4, <2>5, SumWithout
  <2>7. r[i] = r[i - 1] + Size[y] /\ r[i - 1] \in Nat /\ Size[y] \in Nat
    <3>1. i - 1 \in 0 .. n
      OBVIOUS
    <3> QED BY <1>2, <2>1, <2>2, <3>1, ProducerAssumption
  <2>8. r[i] = SumOver(Size, f \cup {y})
    BY <2>3, <2>6, <2>7
  <2>9. i \in 0 .. n
    OBVIOUS
  <2> QED BY <1>3, <2>2, <2>3, <2>4, <2>8, <2>9
<1>6. n \in G
  <2>1. \A i \in 0 .. n : i \in G
    BY <1>4, <1>5, UpTo
  <2> QED BY <2>1
<1> QED BY <1>1, <1>2, <1>3, <1>6, FirstEnds

Keep(acc, t, wanted) == IF t \in wanted THEN Append(acc, t) ELSE acc

\* Those of a line that are wanted.
OnlyFold(g, txs, wanted) ==
  g = [S \in SUBSET DOMAIN txs |->
         IF S = {} THEN << >>
         ELSE LET x == Max(S) IN Keep(g[S \ {x}], txs[x], wanted)]

LEMMA OnlyIsFold ==
  ASSUME NEW txs, NEW wanted
  PROVE  Only(txs, wanted) = (CHOOSE g : OnlyFold(g, txs, wanted))[DOMAIN txs]
BY DEF Only, Keep, FoldLeft, MapThenFoldSet, OnlyFold

LEMMA OnlyRuns ==
  ASSUME NEW txs \in Seq(Tx), NEW wanted
  PROVE  \E r \in [0 .. Len(txs) -> Seq(Tx)] :
           /\ r[0] = << >> /\ r[Len(txs)] = Only(txs, wanted)
           /\ \A i \in 1 .. Len(txs) : r[i] = Keep(r[i - 1], txs[i], wanted)
<1>1. PICK X, b : X = Seq(Tx) /\ b = << >>
  OBVIOUS
<1>2. PICK F : F = [p \in X \X Tx |-> Keep(p[1], p[2], wanted)]
  OBVIOUS
<1>3. ASSUME NEW a \in X, NEW y \in Tx
      PROVE  F[<<a, y>>] = Keep(a, y, wanted) /\ F[<<a, y>>] \in X
  <2>1. Keep(a, y, wanted) \in X
    BY <1>1 DEF Keep
  <2> QED BY <1>2, <2>1
<1>4. b \in X /\ F \in [X \X Tx -> X]
  <2>1. b \in X
    BY <1>1 DEF Keep
  <2>2. \A p \in X \X Tx : Keep(p[1], p[2], wanted) \in X
    BY <1>2, <1>3
  <2> QED BY <1>2, <2>1, <2>2
<1>5. PICK g : g = CHOOSE h : OnlyFold(h, txs, wanted)
  OBVIOUS
<1>6. OnlyFold(g, txs, wanted)
  <2>1. PICK h : Computes(h, F, b, txs, X, Tx)
    BY <1>4, FoldComputes
  <2>2. ASSUME NEW S \in SUBSET DOMAIN txs, S # {}
        PROVE  h[S] = Keep(h[S \ {Max(S)}], txs[Max(S)], wanted)
    <3>1. /\ h[S \ {Max(S)}] \in X /\ txs[Max(S)] \in Tx
          /\ h[S] = F[<<h[S \ {Max(S)}], txs[Max(S)]>>]
      BY <2>1, <2>2 DEF Computes
    <3> QED BY <1>3, <3>1
  <2>3. OnlyFold(h, txs, wanted)
    BY <1>1, <2>1, <2>2 DEF Computes, OnlyFold
  <2> QED BY <1>5, <2>3
<1>7. RunsTo(F, b, txs, X, Only(txs, wanted))
  <2>1. g[{}] = b
    BY <1>1, <1>6 DEF OnlyFold
  <2>2. ASSUME NEW S \in SUBSET DOMAIN txs, S # {},
               g[S \ {Max(S)}] \in X, txs[Max(S)] \in Tx
        PROVE  g[S] = F[<<g[S \ {Max(S)}], txs[Max(S)]>>]
    <3>1. g[S] = Keep(g[S \ {Max(S)}], txs[Max(S)], wanted)
      BY <1>6, <2>2 DEF OnlyFold
    <3> QED BY <1>3, <2>2, <3>1
  <2>3. RunsTo(F, b, txs, X, g[DOMAIN txs])
    BY <1>4, <2>1, <2>2, FoldGoes
  <2> QED BY <1>5, <2>3, OnlyIsFold
<1>8. PICK r \in [0 .. Len(txs) -> X] : Runs(r, F, b, txs) /\ r[Len(txs)] = Only(txs, wanted)
  BY <1>7 DEF RunsTo
<1>9. ASSUME NEW i \in 1 .. Len(txs)
      PROVE  r[i] = Keep(r[i - 1], txs[i], wanted)
  <2>1. i - 1 \in 0 .. Len(txs) /\ txs[i] \in Tx
    OBVIOUS
  <2>2. r[i - 1] \in X
    BY <2>1
  <2> QED BY <1>3, <1>8, <2>1, <2>2 DEF Runs
<1> QED BY <1>1, <1>8, <1>9 DEF Runs

\* They are a line.
LEMMA OnlyKeeps ==
  ASSUME NEW txs \in Lines, NEW wanted
  PROVE  Only(txs, wanted) \in Lines /\ ToSet(Only(txs, wanted)) = ToSet(txs) \cap wanted
<1>1. PICK n \in Nat : n = Len(txs)
  BY DEF Lines
<1>2. PICK r \in [0 .. n -> Seq(Tx)] :
        /\ r[0] = << >> /\ r[n] = Only(txs, wanted)
        /\ \A i \in 1 .. n : r[i] = Keep(r[i - 1], txs[i], wanted)
  BY <1>1, OnlyRuns DEF Lines
<1>3. PICK G : G = {i \in 0 .. n : r[i] \in Lines /\ ToSet(r[i]) = FirstOf(txs, i) \cap wanted}
  OBVIOUS
<1>4. 0 \in G
  <2>1. FirstOf(txs, 0) = {} /\ r[0] \in Lines /\ ToSet(r[0]) = {}
    BY <1>2, FirstEnds, NoLine
  <2>2. 0 \in 0 .. n
    OBVIOUS
  <2> QED BY <1>3, <2>1, <2>2
<1>5. ASSUME NEW i \in 1 .. n, i - 1 \in G PROVE i \in G
  <2>1. PICK f, y, a : f = FirstOf(txs, i - 1) /\ y = txs[i] /\ a = r[i - 1]
    OBVIOUS
  <2>2. y \in Tx /\ y \notin f /\ FirstOf(txs, i) = f \cup {y} /\ i \in 0 .. n
    BY <1>1, <2>1, FirstGrows
  <2>3. a \in Lines /\ ToSet(a) = f \cap wanted
    BY <1>3, <1>5, <2>1
  <2>4. CASE y \in wanted
    <3>1. r[i] = Append(a, y) /\ y \notin ToSet(a)
      BY <1>2, <2>1, <2>2, <2>3, <2>4 DEF Keep
    <3>2. r[i] \in Lines /\ ToSet(r[i]) = ToSet(a) \cup {y}
      BY <2>2, <2>3, <3>1, LineLonger
    <3> QED BY <1>3, <2>2, <2>3, <2>4, <3>2
  <2>5. CASE y \notin wanted
    <3>1. r[i] = a
      BY <1>2, <2>1, <2>5 DEF Keep
    <3> QED BY <1>3, <2>2, <2>3, <2>5, <3>1
  <2> QED BY <2>4, <2>5
<1>6. n \in G
  <2>1. \A i \in 0 .. n : i \in G
    BY <1>4, <1>5, UpTo
  <2> QED BY <2>1
<1> QED BY <1>1, <1>2, <1>3, <1>6, FirstEnds

\* A line in the order of what it pays.
SortFold(g, txs) ==
  g = [S \in SUBSET DOMAIN txs |->
         IF S = {} THEN << >>
         ELSE LET x == Max(S) IN InsertAt(g[S \ {x}], Place(g[S \ {x}], txs[x]), txs[x])]

LEMMA SortIsFold ==
  ASSUME NEW txs
  PROVE  SortedBy(txs, PaysLess) = (CHOOSE g : SortFold(g, txs))[DOMAIN txs]
BY DEF SortedBy, Place, FoldLeft, MapThenFoldSet, SortFold

LEMMA SortRuns ==
  ASSUME NEW txs \in Seq(Tx)
  PROVE  \E r \in [0 .. Len(txs) -> Seq(Tx)] :
           /\ r[0] = << >> /\ r[Len(txs)] = SortedBy(txs, PaysLess)
           /\ \A i \in 1 .. Len(txs) : r[i] = InsertAt(r[i - 1], Place(r[i - 1], txs[i]), txs[i])
<1>1. PICK X, b : X = Seq(Tx) /\ b = << >>
  OBVIOUS
<1>2. PICK F : F = [p \in X \X Tx |-> InsertAt(p[1], Place(p[1], p[2]), p[2])]
  OBVIOUS
<1>3. ASSUME NEW a \in X, NEW y \in Tx
      PROVE  F[<<a, y>>] = InsertAt(a, Place(a, y), y) /\ F[<<a, y>>] \in X
  <2>1. InsertAt(a, Place(a, y), y) \in X
    BY <1>1, PlaceType, Inserted
  <2> QED BY <1>2, <2>1
<1>4. b \in X /\ F \in [X \X Tx -> X]
  <2>1. b \in X
    BY <1>1
  <2>2. \A p \in X \X Tx : InsertAt(p[1], Place(p[1], p[2]), p[2]) \in X
    BY <1>2, <1>3
  <2> QED BY <1>2, <2>1, <2>2
<1>5. PICK g : g = CHOOSE h : SortFold(h, txs)
  OBVIOUS
<1>6. SortFold(g, txs)
  <2>1. PICK h : Computes(h, F, b, txs, X, Tx)
    BY <1>4, FoldComputes
  <2>2. ASSUME NEW S \in SUBSET DOMAIN txs, S # {}
        PROVE  h[S] = InsertAt(h[S \ {Max(S)}], Place(h[S \ {Max(S)}], txs[Max(S)]), txs[Max(S)])
    <3>1. /\ h[S \ {Max(S)}] \in X /\ txs[Max(S)] \in Tx
          /\ h[S] = F[<<h[S \ {Max(S)}], txs[Max(S)]>>]
      BY <2>1, <2>2 DEF Computes
    <3> QED BY <1>3, <3>1
  <2>3. SortFold(h, txs)
    BY <1>1, <2>1, <2>2 DEF Computes, SortFold
  <2> QED BY <1>5, <2>3
<1>7. RunsTo(F, b, txs, X, SortedBy(txs, PaysLess))
  <2>1. g[{}] = b
    BY <1>1, <1>6 DEF SortFold
  <2>2. ASSUME NEW S \in SUBSET DOMAIN txs, S # {},
               g[S \ {Max(S)}] \in X, txs[Max(S)] \in Tx
        PROVE  g[S] = F[<<g[S \ {Max(S)}], txs[Max(S)]>>]
    <3>1. g[S] = InsertAt(g[S \ {Max(S)}], Place(g[S \ {Max(S)}], txs[Max(S)]), txs[Max(S)])
      BY <1>6, <2>2 DEF SortFold
    <3> QED BY <1>3, <2>2, <3>1
  <2>3. RunsTo(F, b, txs, X, g[DOMAIN txs])
    BY <1>4, <2>1, <2>2, FoldGoes
  <2> QED BY <1>5, <2>3, SortIsFold
<1>8. PICK r \in [0 .. Len(txs) -> X] : Runs(r, F, b, txs) /\ r[Len(txs)] = SortedBy(txs, PaysLess)
  BY <1>7 DEF RunsTo
<1>9. ASSUME NEW i \in 1 .. Len(txs)
      PROVE  r[i] = InsertAt(r[i - 1], Place(r[i - 1], txs[i]), txs[i])
  <2>1. i - 1 \in 0 .. Len(txs) /\ txs[i] \in Tx
    OBVIOUS
  <2>2. r[i - 1] \in X
    BY <2>1
  <2> QED BY <1>3, <1>8, <2>1, <2>2 DEF Runs
<1> QED BY <1>1, <1>8, <1>9 DEF Runs

\* It is the same transactions.
LEMMA SortKeeps ==
  ASSUME NEW txs \in Lines
  PROVE  SortedBy(txs, PaysLess) \in Lines /\ ToSet(SortedBy(txs, PaysLess)) = ToSet(txs)
<1>1. PICK n \in Nat : n = Len(txs)
  BY DEF Lines
<1>2. PICK r \in [0 .. n -> Seq(Tx)] :
        /\ r[0] = << >> /\ r[n] = SortedBy(txs, PaysLess)
        /\ \A i \in 1 .. n : r[i] = InsertAt(r[i - 1], Place(r[i - 1], txs[i]), txs[i])
  BY <1>1, SortRuns DEF Lines
<1>3. PICK G : G = {i \in 0 .. n : r[i] \in Lines /\ ToSet(r[i]) = FirstOf(txs, i)}
  OBVIOUS
<1>4. 0 \in G
  <2>1. FirstOf(txs, 0) = {} /\ r[0] \in Lines /\ ToSet(r[0]) = {}
    BY <1>2, FirstEnds, NoLine
  <2>2. 0 \in 0 .. n
    OBVIOUS
  <2> QED BY <1>3, <2>1, <2>2
<1>5. ASSUME NEW i \in 1 .. n, i - 1 \in G PROVE i \in G
  <2>1. PICK f, y, a : f = FirstOf(txs, i - 1) /\ y = txs[i] /\ a = r[i - 1]
    OBVIOUS
  <2>2. y \in Tx /\ y \notin f /\ FirstOf(txs, i) = f \cup {y} /\ i \in 0 .. n
    BY <1>1, <2>1, FirstGrows
  <2>3. a \in Lines /\ ToSet(a) = f /\ a \in Seq(Tx)
    BY <1>3, <1>5, <2>1 DEF Lines
  <2>4. r[i] = InsertAt(a, Place(a, y), y)
    BY <1>2, <2>1
  <2>5. r[i] \in Lines /\ ToSet(r[i]) = ToSet(a) \cup {y}
    BY <2>2, <2>3, <2>4, PlaceType, Inserted
  <2> QED BY <1>3, <2>2, <2>3, <2>5
<1>6. n \in G
  <2>1. \A i \in 0 .. n : i \in G
    BY <1>4, <1>5, UpTo
  <2> QED BY <2>1
<1> QED BY <1>1, <1>2, <1>3, <1>6, FirstEnds

-----------------------------------------------------------------------------
(* Mempool.add *)

\* Evicted's choice, as a fold over any line.
Picked == [gone : SUBSET Tx, freed : Nat, open : BOOLEAN]
PickOut(acc, s, t, room) ==
  IF acc.open /\ acc.freed < room /\ PaysLess(s, t)
  THEN [gone |-> acc.gone \cup {s}, freed |-> acc.freed + Size[s], open |-> TRUE]
  ELSE [acc EXCEPT !.open = FALSE]
Taking(txs, t, room) ==
  FoldLeft(LAMBDA acc, s : PickOut(acc, s, t, room),
           [gone |-> {}, freed |-> 0, open |-> TRUE], txs)

LEMMA EvictedTakes ==
  ASSUME NEW txs, NEW t
  PROVE  LET room == Bytes(txs) + Size[t] - PoolLimit
             all == Taking(SortedBy(txs, PaysLess), t, room)
         IN  Evicted(txs, t) = [gone |-> all.gone, fits |-> all.freed >= room]
BY DEF Evicted, Taking, PickOut, FoldLeft, MapThenFoldSet

LEMMA PickOutType ==
  ASSUME NEW acc \in Picked, NEW s \in Tx, NEW t, NEW room
  PROVE  PickOut(acc, s, t, room) \in Picked
<1>1. acc.gone \in SUBSET Tx /\ acc.freed \in Nat /\ Size[s] \in Nat
  BY ProducerAssumption DEF Picked
<1>2. [acc EXCEPT !.open = FALSE] \in Picked
  BY DEF Picked
<1>3. [gone |-> acc.gone \cup {s}, freed |-> acc.freed + Size[s], open |-> TRUE] \in Picked
  BY <1>1 DEF Picked
<1> QED BY <1>2, <1>3 DEF PickOut

\* What add takes out of a line, from its beginning, until there is room for t.
PickOutFold(g, txs, t, room) ==
  g = [S \in SUBSET DOMAIN txs |->
         IF S = {} THEN [gone |-> {}, freed |-> 0, open |-> TRUE]
         ELSE LET x == Max(S) IN PickOut(g[S \ {x}], txs[x], t, room)]

LEMMA TakingIsFold ==
  ASSUME NEW txs, NEW t, NEW room
  PROVE  Taking(txs, t, room) = (CHOOSE g : PickOutFold(g, txs, t, room))[DOMAIN txs]
BY DEF Taking, FoldLeft, MapThenFoldSet, PickOutFold

LEMMA TakingRuns ==
  ASSUME NEW txs \in Seq(Tx), NEW t \in Tx, NEW room
  PROVE  \E r \in [0 .. Len(txs) -> Picked] :
           /\ r[0] = [gone |-> {}, freed |-> 0, open |-> TRUE] /\ r[Len(txs)] = Taking(txs, t, room)
           /\ \A i \in 1 .. Len(txs) : r[i] = PickOut(r[i - 1], txs[i], t, room)
<1>1. PICK X, b : X = Picked /\ b = [gone |-> {}, freed |-> 0, open |-> TRUE]
  OBVIOUS
<1>2. PICK F : F = [p \in X \X Tx |-> PickOut(p[1], p[2], t, room)]
  OBVIOUS
<1>3. ASSUME NEW a \in X, NEW y \in Tx
      PROVE  F[<<a, y>>] = PickOut(a, y, t, room) /\ F[<<a, y>>] \in X
  <2>1. PickOut(a, y, t, room) \in X
    BY <1>1, PickOutType DEF Picked
  <2> QED BY <1>2, <2>1
<1>4. b \in X /\ F \in [X \X Tx -> X]
  <2>1. b \in X
    BY <1>1 DEF Picked
  <2>2. \A p \in X \X Tx : PickOut(p[1], p[2], t, room) \in X
    BY <1>2, <1>3
  <2> QED BY <1>2, <2>1, <2>2
<1>5. PICK g : g = CHOOSE h : PickOutFold(h, txs, t, room)
  OBVIOUS
<1>6. PickOutFold(g, txs, t, room)
  <2>1. PICK h : Computes(h, F, b, txs, X, Tx)
    BY <1>4, FoldComputes
  <2>2. ASSUME NEW S \in SUBSET DOMAIN txs, S # {}
        PROVE  h[S] = PickOut(h[S \ {Max(S)}], txs[Max(S)], t, room)
    <3>1. /\ h[S \ {Max(S)}] \in X /\ txs[Max(S)] \in Tx
          /\ h[S] = F[<<h[S \ {Max(S)}], txs[Max(S)]>>]
      BY <2>1, <2>2 DEF Computes
    <3> QED BY <1>3, <3>1
  <2>3. PickOutFold(h, txs, t, room)
    BY <1>1, <2>1, <2>2 DEF Computes, PickOutFold
  <2> QED BY <1>5, <2>3
<1>7. RunsTo(F, b, txs, X, Taking(txs, t, room))
  <2>1. g[{}] = b
    BY <1>1, <1>6 DEF PickOutFold
  <2>2. ASSUME NEW S \in SUBSET DOMAIN txs, S # {},
               g[S \ {Max(S)}] \in X, txs[Max(S)] \in Tx
        PROVE  g[S] = F[<<g[S \ {Max(S)}], txs[Max(S)]>>]
    <3>1. g[S] = PickOut(g[S \ {Max(S)}], txs[Max(S)], t, room)
      BY <1>6, <2>2 DEF PickOutFold
    <3> QED BY <1>3, <2>2, <3>1
  <2>3. RunsTo(F, b, txs, X, g[DOMAIN txs])
    BY <1>4, <2>1, <2>2, FoldGoes
  <2> QED BY <1>5, <2>3, TakingIsFold
<1>8. PICK r \in [0 .. Len(txs) -> X] : Runs(r, F, b, txs) /\ r[Len(txs)] = Taking(txs, t, room)
  BY <1>7 DEF RunsTo
<1>9. ASSUME NEW i \in 1 .. Len(txs)
      PROVE  r[i] = PickOut(r[i - 1], txs[i], t, room)
  <2>1. i - 1 \in 0 .. Len(txs) /\ txs[i] \in Tx
    OBVIOUS
  <2>2. r[i - 1] \in X
    BY <2>1
  <2> QED BY <1>3, <1>8, <2>1, <2>2 DEF Runs
<1> QED BY <1>1, <1>8, <1>9 DEF Runs

\* The bytes it counts as freed are those of what it takes out, all of which
\* pays less than t.
LEMMA TakingSum ==
  ASSUME NEW txs \in Lines, NEW t \in Tx, NEW room
  PROVE  /\ Taking(txs, t, room).gone \subseteq ToSet(txs)
         /\ Taking(txs, t, room).freed = SumOver(Size, Taking(txs, t, room).gone)
         /\ \A s \in Taking(txs, t, room).gone : PaysLess(s, t)
<1>1. PICK n \in Nat : n = Len(txs)
  BY DEF Lines
<1>2. PICK r \in [0 .. n -> Picked] :
        /\ r[0] = [gone |-> {}, freed |-> 0, open |-> TRUE] /\ r[n] = Taking(txs, t, room)
        /\ \A i \in 1 .. n : r[i] = PickOut(r[i - 1], txs[i], t, room)
  BY <1>1, TakingRuns DEF Lines
<1>3. PICK G : G = {i \in 0 .. n : /\ r[i].gone \subseteq FirstOf(txs, i) /\ IsFiniteSet(r[i].gone)
                                   /\ r[i].freed = SumOver(Size, r[i].gone)
                                   /\ \A s \in r[i].gone : PaysLess(s, t)}
  OBVIOUS
<1>4. 0 \in G
  <2>1. IsFiniteSet({}) /\ SumOver(Size, {}) = 0
    BY FS_EmptySet, SumOfNone
  <2>2. 0 \in 0 .. n /\ r[0].gone = {} /\ r[0].freed = 0
    BY <1>2
  <2> QED BY <1>3, <2>1, <2>2
<1>5. ASSUME NEW i \in 1 .. n, i - 1 \in G PROVE i \in G
  <2>1. PICK f, y, a : f = FirstOf(txs, i - 1) /\ y = txs[i] /\ a = r[i - 1]
    OBVIOUS
  <2>2. y \in Tx /\ y \notin f /\ FirstOf(txs, i) = f \cup {y} /\ i \in 0 .. n
    BY <1>1, <2>1, FirstGrows
  <2>3. a.gone \subseteq f /\ IsFiniteSet(a.gone) /\ a.freed = SumOver(Size, a.gone)
    BY <1>3, <1>5, <2>1
  <2>4. \A s \in a.gone : PaysLess(s, t)
    BY <1>3, <1>5, <2>1
  <2>5. a \in Picked /\ r[i] = PickOut(a, y, t, room)
    <3>1. i - 1 \in 0 .. n
      OBVIOUS
    <3> QED BY <1>2, <2>1, <3>1
  <2>6. CASE r[i].gone = a.gone /\ r[i].freed = a.freed
    BY <1>3, <2>2, <2>3, <2>4, <2>6
  <2>7. CASE /\ r[i].gone = a.gone \cup {y} /\ r[i].freed = a.freed + Size[y]
             /\ PaysLess(y, t)
    <3>1. PICK k : k = a.gone \cup {y}
      OBVIOUS
    <3>2. y \in k /\ IsFiniteSet(k) /\ k \ {y} = a.gone
      BY <2>2, <2>3, <3>1, FS_AddElement
    <3>3. \A x \in k : Size[x] \in Int
      BY <2>2, <2>5, <3>1, ProducerAssumption DEF Picked
    <3>4. SumOver(Size, k) = Size[y] + SumOver(Size, a.gone)
      BY <3>2, <3>3, SumWithout
    <3>5. a.freed \in Nat /\ Size[y] \in Nat
      BY <2>2, <2>5, ProducerAssumption DEF Picked
    <3>6. r[i].freed = SumOver(Size, k)
      BY <2>3, <2>7, <3>4, <3>5
    <3>7. \A s \in k : PaysLess(s, t)
      BY <2>4, <2>7, <3>1
    <3>8. r[i].gone = k /\ k \subseteq FirstOf(txs, i)
      BY <2>2, <2>3, <2>7, <3>1
    <3> QED BY <1>3, <2>2, <3>2, <3>6, <3>7, <3>8
  <2>8. \/ r[i].gone = a.gone /\ r[i].freed = a.freed
        \/ /\ r[i].gone = a.gone \cup {y} /\ r[i].freed = a.freed + Size[y]
           /\ PaysLess(y, t)
    BY <2>5 DEF PickOut, Picked
  <2> QED BY <2>6, <2>7, <2>8
<1>6. n \in G
  <2>1. \A i \in 0 .. n : i \in G
    BY <1>4, <1>5, UpTo
  <2> QED BY <2>1
<1> QED BY <1>1, <1>2, <1>3, <1>6, FirstEnds

\* A pool that keeps the limit.
Pool == {txs \in Lines : Bytes(txs) <= PoolLimit}

\* Without some of its transactions it still does,
LEMMA WithoutKeeps ==
  ASSUME NEW txs \in Pool, NEW out
  PROVE  Without(txs, out) \in Pool
<1>1. PICK u : u = Without(txs, out)
  OBVIOUS
<1>2. txs \in Lines /\ Bytes(txs) <= PoolLimit /\ PoolLimit \in Nat
  BY ProducerAssumption DEF Pool
<1>3. u \in Lines /\ ToSet(u) \in SUBSET ToSet(txs)
  BY <1>1, <1>2, OnlyKeeps DEF Without
<1>4. /\ Bytes(txs) = SumOver(Size, ToSet(txs)) /\ Bytes(u) = SumOver(Size, ToSet(u))
      /\ IsFiniteSet(ToSet(txs)) /\ IsFiniteSet(ToSet(u))
  BY <1>2, <1>3, BytesSum
<1>5. \A x \in ToSet(txs) : Size[x] \in Nat
  BY <1>2, LineOfTx, ProducerAssumption
<1>6. SumOver(Size, ToSet(u)) <= SumOver(Size, ToSet(txs))
  BY <1>3, <1>4, <1>5, SumOfPart
<1>7. SumOver(Size, ToSet(u)) \in Int /\ SumOver(Size, ToSet(txs)) \in Int
  BY <1>3, <1>4, <1>5, SumType
<1> QED BY <1>1, <1>2, <1>3, <1>4, <1>6, <1>7 DEF Pool

LEMMA WithoutSet ==
  ASSUME NEW txs \in Pool, NEW out
  PROVE  ToSet(Without(txs, out)) = ToSet(txs) \ out
BY OnlyKeeps DEF Without, Pool

\* and with what add lets in.
LEMMA AddKeeps ==
  ASSUME NEW txs \in Pool, NEW t \in Tx
  PROVE  Add(txs, t) \in Pool
<1>1. PICK room, line : room = Bytes(txs) + Size[t] - PoolLimit /\ line = SortedBy(txs, PaysLess)
  OBVIOUS
<1>2. PICK all : all = Taking(line, t, room)
  OBVIOUS
<1>3. Evicted(txs, t).gone = all.gone /\ (Evicted(txs, t).fits <=> all.freed >= room)
  <2>1. PICK enough : enough = (all.freed >= room)
    OBVIOUS
  <2>2. Evicted(txs, t) = [gone |-> all.gone, fits |-> enough]
    BY <1>1, <1>2, <2>1, EvictedTakes
  <2>3. Evicted(txs, t).gone = all.gone /\ Evicted(txs, t).fits = enough
    BY <2>2
  <2> QED BY <2>1, <2>3
<1>4. txs \in Lines /\ Bytes(txs) <= PoolLimit /\ PoolLimit \in Nat /\ Size[t] \in Nat
  <2>1. PoolLimit \in Nat /\ Size[t] \in Nat
    BY ProducerAssumption
  <2> QED BY <2>1 DEF Pool
<1>5. CASE t \in ToSet(txs) \/ ~ (all.freed >= room)
  BY <1>3, <1>5 DEF Add
<1>6. CASE t \notin ToSet(txs) /\ all.freed >= room
  <2>1. PICK u, v : u = Without(txs, all.gone) /\ v = Append(u, t)
    OBVIOUS
  <2>2. Add(txs, t) = v
    BY <1>3, <1>6, <2>1 DEF Add
  <2>3. line \in Lines /\ ToSet(line) = ToSet(txs)
    BY <1>1, <1>4, SortKeeps
  <2>4. all.gone \subseteq ToSet(txs) /\ all.freed = SumOver(Size, all.gone)
    BY <1>2, <2>3, TakingSum
  <2>5. u \in Lines /\ ToSet(u) = ToSet(txs) \ all.gone
    BY <1>4, <2>1, OnlyKeeps DEF Without
  <2>6. v \in Lines /\ ToSet(v) = ToSet(u) \cup {t}
    BY <1>6, <2>1, <2>5, LineLonger
  <2>7. PICK S, T : S = ToSet(txs) /\ T = all.gone
    OBVIOUS
  <2>8. IsFiniteSet(S) /\ IsFiniteSet(S \ T) /\ \A x \in S : Size[x] \in Int
    BY <1>4, <2>7, BytesSum, LineOfTx, FS_Subset, ProducerAssumption
  <2>9. SumOver(Size, S) = SumOver(Size, T) + SumOver(Size, S \ T)
    BY <2>4, <2>7, <2>8, SumSplit
  <2>10. t \in (S \ T) \cup {t} /\ ((S \ T) \cup {t}) \ {t} = S \ T
    BY <1>6, <2>7
  <2>11. SumOver(Size, (S \ T) \cup {t}) = Size[t] + SumOver(Size, S \ T)
    <3>1. IsFiniteSet((S \ T) \cup {t}) /\ \A x \in (S \ T) \cup {t} : Size[x] \in Int
      BY <1>4, <2>8, FS_AddElement
    <3> QED BY <2>10, <3>1, SumWithout
  <2>12. Bytes(v) = Size[t] + SumOver(Size, S \ T)
    BY <2>5, <2>6, <2>7, <2>11, BytesSum
  <2>13. SumOver(Size, S) = Bytes(txs) /\ SumOver(Size, T) = all.freed
    BY <1>4, <2>4, <2>7, BytesSum
  <2>14. SumOver(Size, S) \in Int /\ SumOver(Size, T) \in Int /\ SumOver(Size, S \ T) \in Int
    <3>1. IsFiniteSet(T) /\ \A x \in T : Size[x] \in Int
      BY <2>4, <2>7, <2>8, FS_Subset
    <3> QED BY <2>8, <3>1, SumType
  <2>15. Bytes(v) <= PoolLimit
    <3>1. SumOver(Size, T) >= SumOver(Size, S) + Size[t] - PoolLimit
      BY <1>1, <1>6, <2>13
    <3> QED BY <1>4, <2>9, <2>12, <2>14, <3>1
  <2> QED BY <2>2, <2>6, <2>15 DEF Pool
<1> QED BY <1>5, <1>6

\* Readded, one by one.
TakeBack(acc, t, confirmed, l) ==
  IF t \notin confirmed /\ ValidTx(t, l, BoardFeeFloor(l.posts)) THEN Add(acc, t) ELSE acc

\* A pool that takes transactions back.
ReaddFold(g, all, txs, confirmed, l) ==
  g = [S \in SUBSET DOMAIN all |->
         IF S = {} THEN txs
         ELSE LET x == Max(S) IN TakeBack(g[S \ {x}], all[x], confirmed, l)]

LEMMA ReaddedIsFold ==
  ASSUME NEW all, NEW txs, NEW confirmed, NEW l
  PROVE  Readded(txs, all, confirmed, l) = (CHOOSE g : ReaddFold(g, all, txs, confirmed, l))[DOMAIN all]
BY DEF Readded, TakeBack, FoldLeft, MapThenFoldSet, ReaddFold

TakesBack(r, all, txs, confirmed, l) ==
  /\ r[0] = txs
  /\ \A i \in 1 .. Len(all) : r[i] = TakeBack(r[i - 1], all[i], confirmed, l)

LEMMA ReaddedRuns ==
  ASSUME NEW all \in Seq(Tx), NEW txs \in Pool, NEW confirmed, NEW l
  PROVE  \E r \in [0 .. Len(all) -> Pool] :
           /\ r[Len(all)] = Readded(txs, all, confirmed, l)
           /\ TakesBack(r, all, txs, confirmed, l)
<1>1. PICK X, b : X = Pool /\ b = txs
  OBVIOUS
<1>2. PICK F : F = [p \in X \X Tx |-> TakeBack(p[1], p[2], confirmed, l)]
  OBVIOUS
<1>3. ASSUME NEW a \in X, NEW y \in Tx
      PROVE  F[<<a, y>>] = TakeBack(a, y, confirmed, l) /\ F[<<a, y>>] \in X
  <2>1. TakeBack(a, y, confirmed, l) \in X
    BY <1>1, AddKeeps DEF TakeBack
  <2> QED BY <1>2, <2>1
<1>4. b \in X /\ F \in [X \X Tx -> X]
  <2>1. b \in X
    BY <1>1 DEF TakeBack
  <2>2. \A p \in X \X Tx : TakeBack(p[1], p[2], confirmed, l) \in X
    BY <1>2, <1>3
  <2> QED BY <1>2, <2>1, <2>2
<1>5. PICK g : g = CHOOSE h : ReaddFold(h, all, txs, confirmed, l)
  OBVIOUS
<1>6. ReaddFold(g, all, txs, confirmed, l)
  <2>1. PICK h : Computes(h, F, b, all, X, Tx)
    BY <1>4, FoldComputes
  <2>2. ASSUME NEW S \in SUBSET DOMAIN all, S # {}
        PROVE  h[S] = TakeBack(h[S \ {Max(S)}], all[Max(S)], confirmed, l)
    <3>1. /\ h[S \ {Max(S)}] \in X /\ all[Max(S)] \in Tx
          /\ h[S] = F[<<h[S \ {Max(S)}], all[Max(S)]>>]
      BY <2>1, <2>2 DEF Computes
    <3> QED BY <1>3, <3>1
  <2>3. ReaddFold(h, all, txs, confirmed, l)
    BY <1>1, <2>1, <2>2 DEF Computes, ReaddFold
  <2> QED BY <1>5, <2>3
<1>7. RunsTo(F, b, all, X, Readded(txs, all, confirmed, l))
  <2>1. g[{}] = b
    BY <1>1, <1>6 DEF ReaddFold
  <2>2. ASSUME NEW S \in SUBSET DOMAIN all, S # {},
               g[S \ {Max(S)}] \in X, all[Max(S)] \in Tx
        PROVE  g[S] = F[<<g[S \ {Max(S)}], all[Max(S)]>>]
    <3>1. g[S] = TakeBack(g[S \ {Max(S)}], all[Max(S)], confirmed, l)
      BY <1>6, <2>2 DEF ReaddFold
    <3> QED BY <1>3, <2>2, <3>1
  <2>3. RunsTo(F, b, all, X, g[DOMAIN all])
    BY <1>4, <2>1, <2>2, FoldGoes
  <2> QED BY <1>5, <2>3, ReaddedIsFold
<1>8. PICK r \in [0 .. Len(all) -> X] : Runs(r, F, b, all) /\ r[Len(all)] = Readded(txs, all, confirmed, l)
  BY <1>7 DEF RunsTo
<1>9. ASSUME NEW i \in 1 .. Len(all)
      PROVE  r[i] = TakeBack(r[i - 1], all[i], confirmed, l)
  <2>1. i - 1 \in 0 .. Len(all) /\ all[i] \in Tx
    OBVIOUS
  <2>2. r[i - 1] \in X
    BY <2>1
  <2> QED BY <1>3, <1>8, <2>1, <2>2 DEF Runs
<1> QED BY <1>1, <1>8, <1>9 DEF Runs, TakesBack

\* The transactions of some blocks.
JoinFold(g, bs) ==
  g = [S \in SUBSET DOMAIN bs |->
         IF S = {} THEN << >>
         ELSE LET x == Max(S) IN (g[S \ {x}] \o bs[x].txs)]

LEMMA TxsOfIsFold ==
  ASSUME NEW bs
  PROVE  TxsOf(bs) = (CHOOSE g : JoinFold(g, bs))[DOMAIN bs]
BY DEF TxsOf, FoldLeft, MapThenFoldSet, JoinFold

LEMMA TxsOfRuns ==
  ASSUME NEW bs \in Seq(Block)
  PROVE  \E r \in [0 .. Len(bs) -> Seq(Tx)] :
           /\ r[0] = << >> /\ r[Len(bs)] = TxsOf(bs)
           /\ \A i \in 1 .. Len(bs) : r[i] = (r[i - 1] \o bs[i].txs)
<1>1. PICK X, b : X = Seq(Tx) /\ b = << >>
  OBVIOUS
<1>2. PICK F : F = [p \in X \X Block |-> (p[1] \o p[2].txs)]
  OBVIOUS
<1>3. ASSUME NEW a \in X, NEW y \in Block
      PROVE  F[<<a, y>>] = (a \o y.txs) /\ F[<<a, y>>] \in X
  <2>1. (a \o y.txs) \in X
    BY <1>1 DEF Block
  <2> QED BY <1>2, <2>1
<1>4. b \in X /\ F \in [X \X Block -> X]
  <2>1. b \in X
    BY <1>1 DEF Block
  <2>2. \A p \in X \X Block : (p[1] \o p[2].txs) \in X
    BY <1>2, <1>3
  <2> QED BY <1>2, <2>1, <2>2
<1>5. PICK g : g = CHOOSE h : JoinFold(h, bs)
  OBVIOUS
<1>6. JoinFold(g, bs)
  <2>1. PICK h : Computes(h, F, b, bs, X, Block)
    BY <1>4, FoldComputes
  <2>2. ASSUME NEW S \in SUBSET DOMAIN bs, S # {}
        PROVE  h[S] = (h[S \ {Max(S)}] \o bs[Max(S)].txs)
    <3>1. /\ h[S \ {Max(S)}] \in X /\ bs[Max(S)] \in Block
          /\ h[S] = F[<<h[S \ {Max(S)}], bs[Max(S)]>>]
      BY <2>1, <2>2 DEF Computes
    <3> QED BY <1>3, <3>1
  <2>3. JoinFold(h, bs)
    BY <1>1, <2>1, <2>2 DEF Computes, JoinFold
  <2> QED BY <1>5, <2>3
<1>7. RunsTo(F, b, bs, X, TxsOf(bs))
  <2>1. g[{}] = b
    BY <1>1, <1>6 DEF JoinFold
  <2>2. ASSUME NEW S \in SUBSET DOMAIN bs, S # {},
               g[S \ {Max(S)}] \in X, bs[Max(S)] \in Block
        PROVE  g[S] = F[<<g[S \ {Max(S)}], bs[Max(S)]>>]
    <3>1. g[S] = (g[S \ {Max(S)}] \o bs[Max(S)].txs)
      BY <1>6, <2>2 DEF JoinFold
    <3> QED BY <1>3, <2>2, <3>1
  <2>3. RunsTo(F, b, bs, X, g[DOMAIN bs])
    BY <1>4, <2>1, <2>2, FoldGoes
  <2> QED BY <1>5, <2>3, TxsOfIsFold
<1>8. PICK r \in [0 .. Len(bs) -> X] : Runs(r, F, b, bs) /\ r[Len(bs)] = TxsOf(bs)
  BY <1>7 DEF RunsTo
<1>9. ASSUME NEW i \in 1 .. Len(bs)
      PROVE  r[i] = (r[i - 1] \o bs[i].txs)
  <2>1. i - 1 \in 0 .. Len(bs) /\ bs[i] \in Block
    OBVIOUS
  <2>2. r[i - 1] \in X
    BY <2>1
  <2> QED BY <1>3, <1>8, <2>1, <2>2 DEF Runs
<1> QED BY <1>1, <1>8, <1>9 DEF Runs

LEMMA ReaddedKeeps ==
  ASSUME NEW txs \in Pool, NEW all \in Seq(Tx), NEW confirmed, NEW l
  PROVE  Readded(txs, all, confirmed, l) \in Pool
<1>1. PICK r \in [0 .. Len(all) -> Pool] : r[Len(all)] = Readded(txs, all, confirmed, l)
  BY ReaddedRuns
<1>2. Len(all) \in 0 .. Len(all)
  OBVIOUS
<1> QED BY <1>1, <1>2

LEMMA TxsOfType ==
  ASSUME NEW bs \in Seq(Block)
  PROVE  TxsOf(bs) \in Seq(Tx)
<1>1. PICK r \in [0 .. Len(bs) -> Seq(Tx)] : r[Len(bs)] = TxsOf(bs)
  BY TxsOfRuns
<1>2. Len(bs) \in 0 .. Len(bs)
  OBVIOUS
<1> QED BY <1>1, <1>2

-----------------------------------------------------------------------------
(* The invariant: whatever is added to the pool is a transaction, for the  *)
(* blocks of the chain are typed.                                          *)

PoolInv ==
  /\ ChainInv
  /\ pool \in Pool
  /\ pc \in {"idle", "building"} /\ calm \in Calms

LEMMA SubmitKeeps ==
  ASSUME PoolInv, NEW t \in Wallets[calm], Submit(t)
  PROVE  pool' \in Pool /\ pc' \in {"idle", "building"} /\ calm' = calm
<1>1. t \in Tx
  <2>1. Wallets[calm] \in SUBSET Tx
    BY ProducerAssumption DEF PoolInv
  <2> QED BY <2>1
<1>2. pool \in Pool /\ pc \in {"idle", "building"}
  BY DEF PoolInv
<1>3. Add(pool, t) \in Pool
  BY <1>1, <1>2, AddKeeps
<1> QED BY <1>2, <1>3 DEF Submit

LEMMA StartCycleKeeps ==
  ASSUME PoolInv, NEW expired, StartCycle(expired)
  PROVE  pool' \in Pool /\ pc' \in {"idle", "building"} /\ calm' = calm
<1>1. PICK S : Pruned(expired) = Without(pool, S)
  BY DEF Pruned
<1>2. Pruned(expired) \in Pool
  BY <1>1, WithoutKeeps DEF PoolInv
<1> QED BY <1>2 DEF StartCycle

LEMMA CommitKeeps ==
  ASSUME PoolInv, NEW b, Commit(b)
  PROVE  pool' \in Pool /\ pc' \in {"idle", "building"}
BY WithoutKeeps DEF PoolInv, Commit

LEMMA ReorganisePool ==
  ASSUME PoolInv, NEW depth \in 1 .. Len(recent), Reorganise(depth)
  PROVE  pool' \in Pool /\ pc' \in {"idle", "building"} /\ calm' = calm
<1>1. recent \in Seq(Block)
  BY DEF PoolInv, ChainInv, ValidFrom
<1>2. Taken(depth) \in Seq(Block)
  BY <1>1 DEF Taken
<1>3. TxsOf(Taken(depth)) \in Seq(Tx)
  BY <1>2, TxsOfType
<1>4. PICK kept, confirmed, l :
        pool' = Readded(Without(pool, kept), TxsOf(Taken(depth)), confirmed, l)
  BY DEF Reorganise
<1>5. Without(pool, kept) \in Pool
  BY WithoutKeeps DEF PoolInv
<1>6. pool' \in Pool
  BY <1>3, <1>4, <1>5, ReaddedKeeps
<1> QED BY <1>6 DEF Reorganise

LEMMA RejectForkPool ==
  ASSUME PoolInv, NEW depth, RejectFork(depth)
  PROVE  pool' \in Pool /\ pc' = pc /\ calm' = calm
<1>1. PICK b \in PeerBlocks(AfterBlocks(Kept(depth), base)) :
        pool' = Readded(pool, b.txs, ToSet(TxsOf(Taken(depth))), ledger)
  BY DEF RejectFork
<1>2. b.txs \in Seq(Tx)
  BY OthersBlock DEF Block
<1>3. pool' \in Pool
  BY <1>1, <1>2, ReaddedKeeps DEF PoolInv
<1> QED BY <1>3 DEF RejectFork

LEMMA PoolStart == ProducerInit => PoolInv
<1> SUFFICES ASSUME ProducerInit PROVE PoolInv
  OBVIOUS
<1>1. << >> \in Lines /\ ToSet(<< >>) = {}
  BY NoLine
<1>2. Bytes(<< >>) = 0
  BY <1>1, BytesSum, SumOfNone
<1>3. << >> \in Pool
  BY <1>1, <1>2, ProducerAssumption DEF Pool
<1> QED BY <1>3, ChainStart DEF ProducerInit, PoolInv

LEMMA PoolStep == PoolInv /\ [ProducerNext]_producerVars => PoolInv'
<1> SUFFICES ASSUME PoolInv, [ProducerNext]_producerVars PROVE PoolInv'
  OBVIOUS
<1>1. ChainInv'
  BY ChainStep DEF PoolInv
<1>2. pool' \in Pool /\ pc' \in {"idle", "building"} /\ calm' = calm
  <2>1. ASSUME NEW t \in Wallets[calm], Submit(t)
        PROVE  pool' \in Pool /\ pc' \in {"idle", "building"} /\ calm' = calm
    BY <2>1, SubmitKeeps
  <2>2. ASSUME NEW expired, StartCycle(expired)
        PROVE  pool' \in Pool /\ pc' \in {"idle", "building"} /\ calm' = calm
    BY <2>2, StartCycleKeeps
  <2>3. ASSUME Produce
        PROVE  pool' \in Pool /\ pc' \in {"idle", "building"} /\ calm' = calm
    <3>1. CASE BlockValid(Candidate, ledger)
      BY <2>3, <3>1, CommitKeeps DEF Produce
    <3>2. CASE ~ BlockValid(Candidate, ledger)
      BY <2>3, <3>2 DEF Produce, PoolInv
    <3> QED BY <3>1, <3>2
  <2>4. ASSUME PeerBlock
        PROVE  pool' \in Pool /\ pc' \in {"idle", "building"} /\ calm' = calm
    BY <2>4, CommitKeeps DEF PeerBlock
  <2>5. ASSUME NEW depth \in 1 .. Len(recent), Reorganise(depth)
        PROVE  pool' \in Pool /\ pc' \in {"idle", "building"} /\ calm' = calm
    BY <2>5, ReorganisePool
  <2>6. ASSUME NEW depth, RejectFork(depth)
        PROVE  pool' \in Pool /\ pc' \in {"idle", "building"} /\ calm' = calm
    BY <2>6, RejectForkPool DEF PoolInv
  <2>7. CASE UNCHANGED producerVars
    BY <2>7 DEF producerVars, PoolInv
  <2> QED BY <2>1, <2>2, <2>3, <2>4, <2>5, <2>6, <2>7 DEF ProducerNext
<1> QED BY <1>1, <1>2 DEF PoolInv

\* Every variable keeps its type: the ledger below the last blocks is one, they
\* are blocks, and no transaction is in the pool twice.
THEOREM ProducerTypes == ProducerSpec => []ProducerTypeOK
<1>1. ASSUME PoolInv PROVE ProducerTypeOK
  <2>1. base \in LedgerType /\ recent \in Seq(Block) /\ Len(recent) <= MaxDepth
    BY <1>1 DEF PoolInv, ChainInv, ValidFrom, Sound
  <2>2. pool \in Seq(Tx) /\ IsInjective(pool)
    BY <1>1 DEF PoolInv, Pool, Lines
  <2> QED BY <1>1, <2>1, <2>2 DEF PoolInv, ProducerTypeOK
<1> QED BY <1>1, PoolStart, PoolStep, PTL DEF ProducerSpec

\* However transactions come in, submitted, taken back from an abandoned branch
\* or salvaged from a rejected one, the pool stays within its limit.
THEOREM PoolBoundedAlways == ProducerSpec => []PoolBounded
<1>1. ASSUME PoolInv PROVE PoolBounded
  BY <1>1 DEF PoolInv, Pool, PoolBounded
<1> QED BY <1>1, PoolStart, PoolStep, PTL DEF ProducerSpec

-----------------------------------------------------------------------------
(* What leaves the pool *)

\* Rates are in order: a / b < c / d < e / f, multiplied out.
LEMMA Crosswise ==
  ASSUME NEW a \in Nat, NEW b \in Nat \ {0}, NEW c \in Nat, NEW d \in Nat \ {0},
         NEW e \in Nat, NEW f \in Nat \ {0}, a * d < c * b, c * f < e * d
  PROVE  a * f < e * b
<1>1. (a * d) * f < (c * b) * f /\ (c * f) * b < (e * d) * b
  OBVIOUS
<1>2. (c * b) * f = (c * f) * b /\ (a * d) * f = (a * f) * d /\ (e * d) * b = (e * b) * d
  OBVIOUS
<1>3. (a * f) * d < (e * b) * d
  BY <1>1, <1>2
<1> QED BY <1>3

LEMMA RatesInOrder ==
  ASSUME NEW s \in Tx, NEW t \in Tx, PaysLess(s, t)
  PROVE  ~ PaysLess(t, s) /\ \A u \in Tx : PaysLess(t, u) => PaysLess(s, u)
<1>1. /\ \A x \in Tx : Fee[x] \in Nat /\ Size[x] \in Nat \ {0}
      /\ Fee[s] * Size[t] < Fee[t] * Size[s]
  BY LedgerAssumption, ProducerAssumption DEF PaysLess
<1>2. ~ PaysLess(t, s)
  <2>1. PICK x, y : x = Fee[s] * Size[t] /\ y = Fee[t] * Size[s]
    OBVIOUS
  <2>2. x \in Nat /\ y \in Nat /\ x < y
    BY <1>1, <2>1
  <2> QED BY <2>1, <2>2 DEF PaysLess
<1>3. ASSUME NEW u \in Tx, PaysLess(t, u) PROVE PaysLess(s, u)
  <2>1. Fee[t] * Size[u] < Fee[u] * Size[t]
    BY <1>3 DEF PaysLess
  <2>2. Fee[s] * Size[u] < Fee[u] * Size[s]
    BY <1>1, <2>1, Crosswise
  <2> QED BY <2>2 DEF PaysLess
<1> QED BY <1>2, <1>3

\* Whatever of P is not in Q any more has been outbid by something new.
Outbid(P, Q) == \A t \in P \ Q : \E s \in Q \ P : PaysLess(t, s)

\* The one that outbids may itself come back after it had to go: it was outbid
\* by something better then, which outbids all it drives out now.
LEMMA OutbidStep ==
  ASSUME NEW P \in SUBSET Tx, NEW Q \in SUBSET Tx, Outbid(P, Q),
         NEW t \in Tx, t \notin Q, NEW E \in SUBSET Q, \A s \in E : PaysLess(s, t)
  PROVE  Outbid(P, (Q \ E) \cup {t})
<1> DEFINE R == (Q \ E) \cup {t}
<1>1. ASSUME t \notin P, NEW x \in P \ R PROVE \E s \in R \ P : PaysLess(x, s)
  <2>1. t \in R \ P
    BY <1>1
  <2>2. CASE x \in E
    BY <2>1, <2>2
  <2>3. CASE x \notin E
    <3>1. PICK s \in Q \ P : PaysLess(x, s)
      BY <1>1, <2>3 DEF Outbid
    <3>2. CASE s \in E
      <4>1. PaysLess(x, t)
        BY <1>1, <3>1, <3>2, RatesInOrder
      <4> QED BY <2>1, <4>1
    <3>3. CASE s \notin E
      <4>1. s \in R \ P
        BY <3>3
      <4> QED BY <3>1, <4>1
    <3> QED BY <3>2, <3>3
  <2> QED BY <2>2, <2>3
<1>2. ASSUME t \in P, NEW x \in P \ R PROVE \E s \in R \ P : PaysLess(x, s)
  <2>1. PICK s \in Q \ P : PaysLess(t, s)
    BY <1>2 DEF Outbid
  <2>2. ASSUME NEW u \in Q \ P, u \in E PROVE PaysLess(u, s)
    BY <2>1, <2>2, RatesInOrder
  <2>3. s \in R \ P
    <3>1. s \notin E
      BY <2>1, RatesInOrder
    <3> QED BY <3>1
  <2>4. CASE x \in E
    <3>1. PaysLess(x, s)
      BY <1>2, <2>1, <2>4, RatesInOrder
    <3> QED BY <2>3, <3>1
  <2>5. CASE x \notin E
    <3>1. PICK u \in Q \ P : PaysLess(x, u)
      BY <1>2, <2>5 DEF Outbid
    <3>2. CASE u \in E
      <4>1. PaysLess(x, s)
        BY <1>2, <2>2, <3>1, <3>2, RatesInOrder
      <4> QED BY <2>3, <4>1
    <3>3. CASE u \notin E
      <4>1. u \in R \ P
        BY <3>3
      <4> QED BY <3>1, <4>1
    <3> QED BY <3>2, <3>3
  <2> QED BY <2>4, <2>5
<1>3. \A x \in P \ R : \E s \in R \ P : PaysLess(x, s)
  BY <1>1, <1>2
<1> QED BY <1>3 DEF Outbid

\* What add does to a pool.
LEMMA AddOutbids ==
  ASSUME NEW txs \in Lines, NEW t \in Tx
  PROVE  \/ Add(txs, t) = txs
         \/ /\ t \notin ToSet(txs)
            /\ \E E \in SUBSET ToSet(txs) : /\ ToSet(Add(txs, t)) = (ToSet(txs) \ E) \cup {t}
                                            /\ \A s \in E : PaysLess(s, t)
<1>1. PICK room, line : room = Bytes(txs) + Size[t] - PoolLimit /\ line = SortedBy(txs, PaysLess)
  OBVIOUS
<1>2. PICK E : E = Taking(line, t, room).gone
  OBVIOUS
<1>3. Evicted(txs, t).gone = E
  BY <1>1, <1>2, EvictedTakes
<1>4. line \in Lines /\ ToSet(line) = ToSet(txs)
  BY <1>1, SortKeeps
<1>5. E \subseteq ToSet(txs) /\ \A s \in E : PaysLess(s, t)
  BY <1>2, <1>4, TakingSum
<1>6. CASE Add(txs, t) # txs
  <2>1. PICK u : u = Without(txs, E)
    OBVIOUS
  <2>2. t \notin ToSet(txs) /\ Add(txs, t) = Append(u, t)
    BY <1>3, <1>6, <2>1 DEF Add
  <2>3. u \in Lines /\ ToSet(u) = ToSet(txs) \ E
    BY <2>1, OnlyKeeps DEF Without
  <2>4. ToSet(Add(txs, t)) = (ToSet(txs) \ E) \cup {t}
    BY <2>2, <2>3, LineLonger
  <2> QED BY <1>5, <2>2, <2>4
<1> QED BY <1>6

\* What taking transactions back does, one after the other.
LEMMA ReaddedOutbids ==
  ASSUME NEW txs \in Pool, NEW all \in Seq(Tx), NEW confirmed, NEW l
  PROVE  LET P == ToSet(txs)
             Q == ToSet(Readded(txs, all, confirmed, l))
         IN  Outbid(P, Q) /\ \A s \in Q \ P : s \notin confirmed
<1>1. PICK r \in [0 .. Len(all) -> Pool] :
        r[Len(all)] = Readded(txs, all, confirmed, l) /\ TakesBack(r, all, txs, confirmed, l)
  BY ReaddedRuns
<1>2. PICK n, P : n = Len(all) /\ P = ToSet(txs)
  OBVIOUS
<1>3. n \in Nat /\ P \in SUBSET Tx
  BY <1>2, LineOfTx DEF Pool
<1>4. /\ r \in [0 .. n -> Pool] /\ r[0] = txs /\ r[n] = Readded(txs, all, confirmed, l)
      /\ \A i \in 1 .. n : r[i] = TakeBack(r[i - 1], all[i], confirmed, l)
  BY <1>1, <1>2 DEF TakesBack
<1> DEFINE Good(Q) == Outbid(P, Q) /\ \A s \in Q \ P : s \notin confirmed
<1>5. PICK G : G = {i \in 0 .. n : Good(ToSet(r[i]))}
  OBVIOUS
<1>6. 0 \in G
  <2>1. Good(P)
    BY DEF Outbid
  <2>2. ToSet(r[0]) = P /\ 0 \in 0 .. n
    BY <1>2, <1>3, <1>4
  <2> HIDE DEF Good
  <2> QED BY <1>5, <2>1, <2>2
<1>7. ASSUME NEW i \in 1 .. n, i - 1 \in G PROVE i \in G
  <2>1. PICK a, t, Q : a = r[i - 1] /\ t = all[i] /\ Q = ToSet(a)
    OBVIOUS
  <2>2. a \in Lines /\ t \in Tx /\ i \in 0 .. n
    <3>1. i - 1 \in 0 .. n /\ i \in 1 .. Len(all)
      BY <1>2, <1>3
    <3>2. r[i - 1] \in Pool /\ all[i] \in Tx
      BY <1>4, <3>1
    <3> QED BY <2>1, <3>2 DEF Pool
  <2>3. Good(Q)
    BY <1>5, <1>7, <2>1
  <2>4. r[i] = TakeBack(a, t, confirmed, l)
    BY <1>4, <2>1
  <2>5. CASE r[i] = a
    <3> HIDE DEF Good
    <3> QED BY <1>5, <2>1, <2>2, <2>3, <2>5
  <2>6. CASE r[i] # a
    <3>1. t \notin confirmed /\ r[i] = Add(a, t)
      BY <2>4, <2>6 DEF TakeBack
    <3>2. PICK E \in SUBSET Q : /\ ToSet(r[i]) = (Q \ E) \cup {t} /\ t \notin Q
                                /\ \A s \in E : PaysLess(s, t)
      <4>1. \/ Add(a, t) = a
            \/ /\ t \notin ToSet(a)
               /\ \E E \in SUBSET ToSet(a) : /\ ToSet(Add(a, t)) = (ToSet(a) \ E) \cup {t}
                                             /\ \A s \in E : PaysLess(s, t)
        BY <2>2, AddOutbids
      <4> QED BY <2>1, <2>6, <3>1, <4>1
    <3>3. Q \in SUBSET Tx
      BY <2>1, <2>2, LineOfTx
    <3>4. Outbid(P, ToSet(r[i]))
      BY <1>3, <2>2, <2>3, <3>2, <3>3, OutbidStep
    <3>5. \A s \in ToSet(r[i]) \ P : s \notin confirmed
      BY <2>3, <3>1, <3>2
    <3>6. Good(ToSet(r[i]))
      BY <3>4, <3>5
    <3> HIDE DEF Good
    <3> QED BY <1>5, <2>2, <3>6
  <2> QED BY <2>5, <2>6
<1>8. Good(ToSet(r[n]))
  <2> HIDE DEF Good
  <2>1. \A i \in 0 .. n : i \in G
    BY <1>3, <1>6, <1>7, UpTo
  <2>2. n \in 0 .. n
    BY <1>3
  <2> QED BY <1>5, <2>1, <2>2
<1> QED BY <1>2, <1>4, <1>8

\* A block's transactions are confirmed when it is on the chain.
LEMMA BlockSpends ==
  ASSUME NEW l \in LedgerType, NEW b \in Block, ApplyTxs(b.txs, l).ok
  PROVE  ToSet(b.txs) \subseteq AfterBlock(b, l).spent
<1>1. PICK txs, n : txs = b.txs /\ n = Len(txs)
  OBVIOUS
<1>2. txs \in Seq(Tx) /\ n \in Nat /\ DOMAIN txs = 1 .. n
  BY <1>1 DEF Block
<1>3. PICK floor : floor = BoardFeeFloor(l.posts)
  OBVIOUS
<1>4. PICK r \in [0 .. n -> Acc] :
        /\ r[n] = ApplyTxs(txs, l)
        /\ \A i \in 1 .. n : r[i] = TxStep(r[i - 1], txs[i], floor)
  <2>1. \E r \in [0 .. Len(txs) -> Acc] :
          /\ r[0] = [ok |-> TRUE, l |-> l] /\ r[Len(txs)] = ApplyTxs(txs, l)
          /\ \A i \in 1 .. Len(txs) : r[i] = TxStep(r[i - 1], txs[i], BoardFeeFloor(l.posts))
    BY <1>2, ApplyTxsRuns
  <2> QED BY <1>1, <1>3, <2>1
<1>5. \A i \in 0 .. n : r[i].ok
  <2>1. r[n].ok /\ \A i \in 1 .. n : r[i] = TxStep(r[i - 1], txs[i], floor)
    BY <1>1, <1>4
  <2> QED BY <1>2, <2>1, ApplyTxsOk
<1>6. PICK G : G = {i \in 0 .. n : \A j \in 1 .. i : txs[j] \in r[i].l.spent}
  OBVIOUS
<1>7. 0 \in G
  <2>1. 0 \in 0 .. n /\ 1 .. 0 = {}
    BY <1>2
  <2> QED BY <1>6, <2>1
<1>8. ASSUME NEW i \in 1 .. n, i - 1 \in G PROVE i \in G
  <2>1. i \in 0 .. n /\ r[i].ok /\ r[i] = TxStep(r[i - 1], txs[i], floor)
    BY <1>2, <1>4, <1>5
  <2>2. r[i].l = ApplyTx(txs[i], r[i - 1].l)
    BY <2>1 DEF TxStep
  <2>3. r[i].l.spent = r[i - 1].l.spent \cup {txs[i]}
    BY <2>2 DEF ApplyTx
  <2>4. ASSUME NEW j \in 1 .. i PROVE txs[j] \in r[i].l.spent
    <3>1. CASE j = i
      BY <2>3, <3>1
    <3>2. CASE j # i
      <4>1. j \in 1 .. (i - 1)
        BY <3>2
      <4> QED BY <1>6, <1>8, <2>3, <4>1
    <3> QED BY <3>1, <3>2
  <2> QED BY <1>6, <2>1, <2>4
<1>9. \A j \in 1 .. n : txs[j] \in r[n].l.spent
  <2>1. \A i \in 0 .. n : i \in G
    BY <1>2, <1>7, <1>8, UpTo
  <2>2. n \in 0 .. n
    BY <1>2
  <2> QED BY <1>6, <2>1, <2>2
<1>10. AfterBlock(b, l).spent = r[n].l.spent
  BY <1>1, <1>4 DEF AfterBlock, PayBuilder
<1> QED BY <1>1, <1>2, <1>9, <1>10 DEF ToSet

LEMMA GrowLedger ==
  ASSUME ChainInv, NEW b \in Block, ApplyTxs(b.txs, ledger).ok, Grow(b)
  PROVE  ledger' = AfterBlock(b, ledger)
<1>1. PICK r : ValidFrom(r, recent, base)
  BY DEF ChainInv
<1>2. PICK longer : longer = Append(recent, b)
  OBVIOUS
<1>3. PICK q : ValidFrom(q, longer, base)
  BY <1>1, <1>2, ValidLonger DEF ledger
<1>4. AfterBlocks(longer, base) = AfterBlock(b, ledger)
  BY <1>1, <1>2, ValidLonger DEF ledger
<1>5. AfterBlocks(recent', base') = AfterBlocks(longer, base)
  <2>1. CASE Len(recent) < MaxDepth
    BY <1>2, <2>1 DEF Grow
  <2>2. CASE ~ (Len(recent) < MaxDepth)
    <3>1. base' = AfterBlock(longer[1], base) /\ recent' = Tail(longer)
      BY <1>2, <2>2 DEF Grow
    <3>2. longer # << >>
      BY <1>1, <1>2 DEF ValidFrom
    <3> QED BY <1>3, <3>1, <3>2, ValidLater
  <2> QED BY <2>1, <2>2
<1> QED BY <1>4, <1>5 DEF ledger

LEMMA GrowSpends ==
  ASSUME ChainInv, NEW b \in Block, ApplyTxs(b.txs, ledger).ok, Grow(b)
  PROVE  ToSet(b.txs) \subseteq ledger'.spent
<1>1. ledger \in LedgerType
  BY LedgerSound DEF Sound
<1> QED BY <1>1, GrowLedger, BlockSpends

LEMMA CommitSpends ==
  ASSUME PoolInv, NEW b \in Block, ApplyTxs(b.txs, ledger).ok, Commit(b)
  PROVE  ToSet(pool) \ ToSet(pool') \subseteq ledger'.spent
<1>1. ToSet(b.txs) \subseteq ledger'.spent
  BY GrowSpends DEF PoolInv, Commit
<1>2. ToSet(pool') = ToSet(pool) \ ToSet(b.txs)
  BY WithoutSet DEF PoolInv, Commit
<1> QED BY <1>1, <1>2

LEMMA ReorganiseOutbids ==
  ASSUME PoolInv, NEW depth \in 1 .. Len(recent), Reorganise(depth),
         NEW t \in ToSet(pool) \ ToSet(pool')
  PROVE  t \in ledger'.spent \/ \E s \in ToSet(pool') \ ToSet(pool) : PaysLess(t, s)
<1>1. PICK b \in PeerBlocks(AfterBlocks(Kept(depth), base)) :
        /\ recent' = Append(Kept(depth), b)
        /\ pool' = Readded(Without(pool, ToSet(b.txs)), TxsOf(Taken(depth)), ToSet(b.txs),
                           AfterBlocks(Append(Kept(depth), b), base))
  BY DEF Reorganise
<1>2. base' = base
  BY DEF Reorganise
<1>3. PICK r : ValidFrom(r, recent, base)
  BY DEF PoolInv, ChainInv
<1>4. recent \in Seq(Block)
  BY <1>3 DEF ValidFrom
<1>5. PICK m : m = Len(recent) - depth
  OBVIOUS
<1>6. m \in 0 .. Len(recent) /\ Kept(depth) = SubSeq(recent, 1, m)
  BY <1>4, <1>5 DEF Kept
<1>7. ValidFrom(r, Kept(depth), base)
  BY <1>3, <1>6, ValidShorter
<1>8. b \in Block /\ ApplyTxs(b.txs, AfterBlocks(Kept(depth), base)).ok
  BY <1>1, OthersBlock
<1>9. ledger' = AfterBlock(b, AfterBlocks(Kept(depth), base))
  <2>1. AfterBlocks(Append(Kept(depth), b), base) = AfterBlock(b, AfterBlocks(Kept(depth), base))
    BY <1>7, <1>8, ValidLonger
  <2> QED BY <1>1, <1>2, <2>1 DEF ledger
<1>10. ToSet(b.txs) \subseteq ledger'.spent
  <2>1. AfterBlocks(Kept(depth), base) \in LedgerType
    BY <1>7, ValidSound DEF Sound
  <2> QED BY <1>8, <1>9, <2>1, BlockSpends
<1>11. PICK S, kept : S = ToSet(b.txs) /\ kept = Without(pool, S)
  OBVIOUS
<1>12. kept \in Pool /\ ToSet(kept) = ToSet(pool) \ S
  BY <1>11, WithoutKeeps, WithoutSet DEF PoolInv
<1>13. TxsOf(Taken(depth)) \in Seq(Tx)
  <2>1. Taken(depth) \in Seq(Block)
    BY <1>4 DEF Taken
  <2> QED BY <2>1, TxsOfType
<1>14. /\ Outbid(ToSet(kept), ToSet(pool'))
       /\ \A s \in ToSet(pool') \ ToSet(kept) : s \notin S
  <2>1. PICK all, l : all = TxsOf(Taken(depth)) /\ l = AfterBlocks(Append(Kept(depth), b), base)
    OBVIOUS
  <2>2. pool' = Readded(kept, all, S, l) /\ all \in Seq(Tx)
    BY <1>1, <1>11, <1>13, <2>1
  <2>3. /\ Outbid(ToSet(kept), ToSet(Readded(kept, all, S, l)))
        /\ \A s \in ToSet(Readded(kept, all, S, l)) \ ToSet(kept) : s \notin S
    BY <1>12, <2>2, ReaddedOutbids
  <2> QED BY <2>2, <2>3
<1>15. CASE t \in S
  BY <1>10, <1>11, <1>15
<1>16. CASE t \notin S
  <2>1. PICK s \in ToSet(pool') \ ToSet(kept) : PaysLess(t, s)
    BY <1>12, <1>14, <1>16 DEF Outbid
  <2>2. s \notin ToSet(pool)
    BY <1>12, <1>14, <2>1
  <2> QED BY <2>1, <2>2
<1> QED BY <1>15, <1>16

LEMMA RejectForkOutbids ==
  ASSUME PoolInv, NEW depth, RejectFork(depth)
  PROVE  Outbid(ToSet(pool), ToSet(pool'))
<1>1. PICK b \in PeerBlocks(AfterBlocks(Kept(depth), base)) :
        pool' = Readded(pool, b.txs, ToSet(TxsOf(Taken(depth))), ledger)
  BY DEF RejectFork
<1>2. b.txs \in Seq(Tx)
  BY OthersBlock DEF Block
<1> QED BY <1>1, <1>2, ReaddedOutbids DEF PoolInv

LEMMA SubmitOutbids ==
  ASSUME PoolInv, NEW t \in Wallets[calm], Submit(t)
  PROVE  Outbid(ToSet(pool), ToSet(pool'))
<1>1. t \in Tx
  <2>1. Wallets[calm] \in SUBSET Tx
    BY ProducerAssumption DEF PoolInv
  <2> QED BY <2>1
<1>2. PICK P : P = ToSet(pool)
  OBVIOUS
<1>3. pool \in Lines /\ P \in SUBSET Tx /\ Outbid(P, P)
  <2>1. pool \in Lines
    BY DEF PoolInv, Pool
  <2> QED BY <1>2, <2>1, LineOfTx DEF Outbid
<1>4. CASE pool' = pool
  BY <1>2, <1>3, <1>4
<1>5. CASE pool' # pool
  <2>1. pool' = Add(pool, t)
    BY <1>5 DEF Submit
  <2>2. PICK E \in SUBSET P : /\ ToSet(pool') = (P \ E) \cup {t} /\ t \notin P
                              /\ \A s \in E : PaysLess(s, t)
    BY <1>1, <1>2, <1>3, <1>5, <2>1, AddOutbids
  <2> QED BY <1>1, <1>2, <1>3, <2>2, OutbidStep
<1> QED BY <1>4, <1>5

\* A pending transaction leaves the pool when it is confirmed, can never be
\* again, has expired, or when one that pays better per byte takes its place.
THEOREM LeavesForReasonAlways == ProducerSpec => LeavesForReason
<1> DEFINE Reason(t) == \/ t \in ledger'.spent
                        \/ pc = "idle" /\ pc' = "building"
                        \/ \E s \in ToSet(pool') \ ToSet(pool) : PaysLess(t, s)
<1>1. PoolInv /\ [ProducerNext]_producerVars
        => [\A t \in ToSet(pool) \ ToSet(pool') : Reason(t)]_producerVars
  <2> SUFFICES ASSUME PoolInv, ProducerNext, NEW t \in ToSet(pool) \ ToSet(pool')
               PROVE  Reason(t)
    OBVIOUS
  <2>1. ASSUME NEW s \in Wallets[calm], Submit(s) PROVE Reason(t)
    BY <2>1, SubmitOutbids DEF Outbid
  <2>2. ASSUME NEW expired, StartCycle(expired) PROVE Reason(t)
    BY <2>2 DEF StartCycle
  <2>3. ASSUME Produce PROVE Reason(t)
    <3>1. CASE BlockValid(Candidate, ledger)
      BY <2>3, <3>1, OwnBlock, CommitSpends DEF Produce
    <3>2. CASE ~ BlockValid(Candidate, ledger)
      BY <2>3, <3>2 DEF Produce
    <3> QED BY <3>1, <3>2
  <2>4. ASSUME PeerBlock PROVE Reason(t)
    BY <2>4, OthersBlock, CommitSpends DEF PeerBlock
  <2>5. ASSUME NEW depth \in 1 .. Len(recent), Reorganise(depth) PROVE Reason(t)
    BY <2>5, ReorganiseOutbids
  <2>6. ASSUME NEW depth, RejectFork(depth) PROVE Reason(t)
    BY <2>6, RejectForkOutbids DEF Outbid
  <2> HIDE DEF Reason
  <2> QED BY <2>1, <2>2, <2>3, <2>4, <2>5, <2>6 DEF ProducerNext
<1> QED BY <1>1, PoolStart, PoolStep, PTL DEF ProducerSpec, LeavesForReason

-----------------------------------------------------------------------------
(* A calm world: what is pending is due                                    *)

\* Its transactions, what they cost and weigh in a block, and a sender's.
CalmTxs == Wallets[TRUE]
Costs == [t \in Tx |-> Cost(t)]
Weights == [t \in Tx |-> Size[t] + SigSize]
Of(P, a) == {t \in P : From[t] = a}

\* What is in P is what its senders have to confirm next, and they can pay for
\* all of it.
Due(P, l) ==
  /\ P \subseteq CalmTxs
  /\ \A a \in Addr :
       /\ \E k \in Nat : {Nonce[t] : t \in Of(P, a)} = (l.nonce[a] + 1) .. (l.nonce[a] + k)
       /\ SumOver(Costs, Of(P, a)) <= l.bal[a]

LEMMA CalmWorld ==
  ASSUME TRUE \in Calms
  PROVE  /\ CalmTxs \subseteq Tx /\ IsFiniteSet(CalmTxs) /\ CalmTxs \cap Board = {}
         /\ SumOver(Size, CalmTxs) <= PoolLimit
         /\ \A s, t \in CalmTxs : From[s] = From[t] /\ Nonce[s] = Nonce[t] => s = t
         /\ \A P \in SUBSET CalmTxs :
              SumOver(Weights, P) <= BlockLimit => SumOver(Weights, P) + ProofSize <= BlockLimit
<1>1. CalmTxs \subseteq Tx
  BY ProducerAssumption DEF CalmTxs
<1>2. SumOver(Size, CalmTxs) = MapThenSumSet(LAMBDA t : Size[t], CalmTxs)
  BY DEF SumOver
<1>3. \A P : SumOver(Weights, P) = MapThenSumSet(LAMBDA t : Weights[t], P)
  BY DEF SumOver
<1> QED BY <1>1, <1>2, <1>3, CalmAssumption DEF CalmTxs, Weights

LEMMA CalmCosts ==
  ASSUME TRUE \in Calms, NEW P \in SUBSET CalmTxs
  PROVE  /\ P \subseteq Tx /\ IsFiniteSet(P)
         /\ \A t \in P : Costs[t] = Cost(t) /\ Costs[t] \in Nat /\ Nonce[t] \in Nat
                         /\ Size[t] \in Nat /\ Weights[t] \in Nat /\ From[t] \in Addr
         /\ SumOver(Costs, P) \in Nat /\ SumOver(Size, P) \in Nat /\ SumOver(Weights, P) \in Nat
<1>1. P \subseteq Tx /\ IsFiniteSet(P)
  BY CalmWorld, FS_Subset
<1>2. \A t \in P : /\ Costs[t] = Cost(t) /\ Costs[t] \in Nat /\ Nonce[t] \in Nat
                   /\ Size[t] \in Nat /\ Weights[t] \in Nat /\ From[t] \in Addr
  BY <1>1, LedgerAssumption, ProducerAssumption DEF Costs, Cost, Weights
<1> QED BY <1>1, <1>2, SumNatural

\* A transaction that is confirmed leaves the others due.
LEMMA DueStep ==
  ASSUME TRUE \in Calms, NEW l \in LedgerType, NEW P, Due(P, l),
         NEW t \in CalmTxs, NEW floor, ValidTx(t, l, floor)
  PROVE  Due(P \ {t}, ApplyTx(t, l))
<1>1. PICK k, Q, x : k = ApplyTx(t, l) /\ Q = P \ {t} /\ x = From[t]
  OBVIOUS
<1>2. P \in SUBSET CalmTxs /\ P \in SUBSET Tx /\ IsFiniteSet(P) /\ t \in Tx
  BY CalmCosts, CalmWorld DEF Due
<1>3. /\ l.nonce \in [Addr -> Nat] /\ l.bal \in [Addr -> Nat] /\ x \in Addr /\ To[t] # x
      /\ Nonce[t] = l.nonce[x] + 1 /\ Cost(t) <= l.bal[x] /\ Cost(t) \in Nat /\ Amount[t] \in Nat
  BY <1>1, <1>2, LedgerAssumption DEF LedgerType, ValidTx, Cost
<1>4. k.nonce = [l.nonce EXCEPT ![x] = Nonce[t]]
  BY <1>1 DEF ApplyTx
<1>5. \A a \in Addr : k.bal[a] = l.bal[a] - (IF a = x THEN Cost(t) ELSE 0)
                                 + (IF a = To[t] THEN Amount[t] ELSE 0)
  BY <1>1 DEF ApplyTx
<1>6. ASSUME NEW a \in Addr
      PROVE  /\ \E j \in Nat : {Nonce[s] : s \in Of(Q, a)} = (k.nonce[a] + 1) .. (k.nonce[a] + j)
             /\ SumOver(Costs, Of(Q, a)) <= k.bal[a]
  <2>1. PICK n, m : n = l.nonce[a] /\ m \in Nat /\ {Nonce[s] : s \in Of(P, a)} = (n + 1) .. (n + m)
    BY DEF Due
  <2>2. SumOver(Costs, Of(P, a)) <= l.bal[a] /\ n \in Nat /\ l.bal[a] \in Nat
    BY <1>3, <2>1 DEF Due
  <2>3. Of(P, a) \in SUBSET CalmTxs
    BY <1>2 DEF Of
  <2>4. SumOver(Costs, Of(P, a)) \in Nat /\ IsFiniteSet(Of(P, a))
        /\ \A s \in Of(P, a) : Costs[s] = Cost(s) /\ Costs[s] \in Nat /\ Nonce[s] \in Nat
    BY <2>3, CalmCosts
  <2>5. CASE a # x
    <3>1. Of(Q, a) = Of(P, a)
      BY <1>1, <2>5 DEF Of
    <3>2. k.nonce[a] = n
      BY <1>3, <1>4, <2>1, <2>5
    <3>3. k.bal[a] >= l.bal[a] /\ k.bal[a] \in Nat
      BY <1>3, <1>5, <2>2, <2>5
    <3> QED BY <2>1, <2>2, <2>4, <3>1, <3>2, <3>3
  <2>6. CASE a = x
    <3>1. k.nonce[a] = n + 1 /\ Nonce[t] = n + 1
      BY <1>3, <1>4, <2>1, <2>6
    <3>2. k.bal[a] = l.bal[a] - Cost(t) /\ k.bal[a] \in Nat
      BY <1>3, <1>5, <2>2, <2>6
    <3>3. \A s \in Of(P, a) : Nonce[s] = n + 1 => s = t
      BY <1>1, <2>3, <2>6, <3>1, CalmWorld DEF Of
    <3>4. Of(Q, a) = Of(P, a) \ {t}
      BY <1>1 DEF Of
    <3>5. CASE t \in P
      <4>1. t \in Of(P, a)
        BY <1>1, <2>6, <3>5 DEF Of
      <4>2. SumOver(Costs, Of(P, a)) = Cost(t) + SumOver(Costs, Of(Q, a))
        <5>1. \A s \in Of(P, a) : Costs[s] \in Int
          BY <2>4
        <5> QED BY <2>4, <3>4, <4>1, <5>1, SumWithout
      <4>3. SumOver(Costs, Of(Q, a)) \in Nat
        <5>1. Of(Q, a) \in SUBSET CalmTxs
          BY <2>3, <3>4
        <5> QED BY <5>1, CalmCosts
      <4>4. SumOver(Costs, Of(Q, a)) <= k.bal[a]
        BY <1>3, <2>2, <2>4, <3>2, <4>2, <4>3
      <4>5. n + 1 \in (n + 1) .. (n + m)
        BY <2>1, <3>1, <4>1
      <4>6. {Nonce[s] : s \in Of(P, a) \ {t}} = {Nonce[s] : s \in Of(P, a)} \ {n + 1}
        BY <3>1, <3>3, <4>1
      <4>7. m - 1 \in Nat /\ ((n + 1) .. (n + m)) \ {n + 1} = (n + 1 + 1) .. (n + 1 + (m - 1))
        BY <2>1, <2>2, <4>5
      <4>8. {Nonce[s] : s \in Of(Q, a)} = (k.nonce[a] + 1) .. (k.nonce[a] + (m - 1))
        BY <2>1, <3>1, <3>4, <4>6, <4>7
      <4> QED BY <4>4, <4>7, <4>8
    <3>6. CASE t \notin P
      <4>1. t \notin Of(P, a)
        BY <3>6 DEF Of
      <4>2. n + 1 \notin (n + 1) .. (n + m)
        BY <2>1, <3>3, <4>1
      <4>3. m = 0 /\ (n + 1) .. (n + m) = {}
        BY <2>1, <2>2, <4>2
      <4>4. Of(P, a) = {}
        BY <2>1, <4>3
      <4>5. Of(Q, a) = {} /\ (n + 1 + 1) .. (n + 1 + 0) = {}
        BY <2>2, <3>4, <4>4
      <4>6. SumOver(Costs, {}) = 0
        BY SumOfNone
      <4> QED BY <3>1, <3>2, <4>5, <4>6
    <3> QED BY <3>5, <3>6
  <2> QED BY <2>5, <2>6
<1>7. Q \subseteq CalmTxs
  BY <1>1, <1>2
<1> QED BY <1>1, <1>6, <1>7 DEF Due

\* So do all that a block confirms,
LEMMA DueTxs ==
  ASSUME TRUE \in Calms, NEW l \in LedgerType, NEW P, Due(P, l),
         NEW txs \in Seq(CalmTxs), ApplyTxs(txs, l).ok
  PROVE  /\ ApplyTxs(txs, l).l \in LedgerType
         /\ Due(P \ ToSet(txs), ApplyTxs(txs, l).l)
<1>1. PICK n, floor : n = Len(txs) /\ floor = BoardFeeFloor(l.posts)
  OBVIOUS
<1>2. txs \in Seq(Tx) /\ n \in Nat /\ DOMAIN txs = 1 .. n /\ \A i \in 1 .. n : txs[i] \in CalmTxs
  BY <1>1, CalmWorld
<1>3. PICK r \in [0 .. n -> Acc] :
        /\ r[0] = [ok |-> TRUE, l |-> l] /\ r[n] = ApplyTxs(txs, l)
        /\ \A i \in 1 .. n : r[i] = TxStep(r[i - 1], txs[i], floor)
  <2>1. \E r \in [0 .. Len(txs) -> Acc] :
          /\ r[0] = [ok |-> TRUE, l |-> l] /\ r[Len(txs)] = ApplyTxs(txs, l)
          /\ \A i \in 1 .. Len(txs) : r[i] = TxStep(r[i - 1], txs[i], BoardFeeFloor(l.posts))
    BY <1>2, ApplyTxsRuns
  <2> QED BY <1>1, <2>1
<1>4. \A i \in 0 .. n : r[i].ok
  <2>1. r[n].ok /\ \A i \in 1 .. n : r[i] = TxStep(r[i - 1], txs[i], floor)
    BY <1>3
  <2> QED BY <1>2, <2>1, ApplyTxsOk
<1>5. PICK G : G = {i \in 0 .. n : Due(P \ FirstOf(txs, i), r[i].l)}
  OBVIOUS
<1>6. 0 \in G
  <2>1. 0 \in 0 .. n /\ FirstOf(txs, 0) = {} /\ r[0].l = l
    BY <1>2, <1>3 DEF FirstOf
  <2>2. P \ FirstOf(txs, 0) = P
    BY <2>1
  <2> QED BY <1>5, <2>1, <2>2
<1>7. ASSUME NEW i \in 1 .. n, i - 1 \in G PROVE i \in G
  <2>1. PICK t, k, Q : t = txs[i] /\ k = r[i - 1].l /\ Q = P \ FirstOf(txs, i - 1)
    OBVIOUS
  <2>2. i \in 0 .. n /\ i - 1 \in 0 .. n /\ t \in CalmTxs
    BY <1>2, <2>1
  <2>3. Due(Q, k) /\ k \in LedgerType
    BY <1>3, <1>5, <1>7, <2>1, <2>2 DEF Acc
  <2>4. r[i - 1].ok /\ r[i].ok /\ r[i] = TxStep(r[i - 1], t, floor)
    BY <1>3, <1>4, <2>1, <2>2
  <2>5. ValidTx(t, k, floor)
    BY <2>1, <2>4 DEF TxStep
  <2>6. r[i].l = ApplyTx(t, k)
    BY <2>1, <2>4, <2>5 DEF TxStep
  <2>7. Due(Q \ {t}, r[i].l)
    BY <2>2, <2>3, <2>5, <2>6, DueStep
  <2>8. FirstOf(txs, i) = FirstOf(txs, i - 1) \cup {t}
    <3>1. \A j : j \in 1 .. i <=> j \in 1 .. (i - 1) \/ j = i
      BY <1>2
    <3> QED BY <2>1, <3>1 DEF FirstOf
  <2>9. P \ FirstOf(txs, i) = Q \ {t}
    BY <2>1, <2>8
  <2> QED BY <1>5, <2>2, <2>7, <2>9
<1>8. Due(P \ FirstOf(txs, n), r[n].l)
  <2>1. \A i \in 0 .. n : i \in G
    BY <1>2, <1>6, <1>7, UpTo
  <2>2. n \in 0 .. n
    BY <1>2
  <2> QED BY <1>5, <2>1, <2>2
<1>9. FirstOf(txs, n) = ToSet(txs)
  BY <1>2 DEF FirstOf, ToSet
<1>10. r[n] \in Acc
  <2>1. n \in 0 .. n
    BY <1>2
  <2> QED BY <1>3, <2>1
<1> QED BY <1>3, <1>8, <1>9, <1>10 DEF Acc

\* and what the builder gets makes nobody poorer.
LEMMA DueBlock ==
  ASSUME TRUE \in Calms, NEW l \in LedgerType, NEW P, Due(P, l),
         NEW b \in Block, b.txs \in Seq(CalmTxs), ApplyTxs(b.txs, l).ok
  PROVE  Due(P \ ToSet(b.txs), AfterBlock(b, l))
<1>1. PICK k, Q : k = ApplyTxs(b.txs, l).l /\ Q = P \ ToSet(b.txs)
  OBVIOUS
<1>2. k \in LedgerType /\ Due(Q, k)
  BY <1>1, DueTxs
<1>3. Fees(b.txs) \in Nat /\ Reward(k.minted) \in Nat /\ b.builder \in Addr
  <2>1. b.txs \in Seq(Tx) /\ b.builder \in Addr
    BY ProducerAssumption DEF Block
  <2>2. PICK f \in [0 .. Len(b.txs) -> Nat] : f[Len(b.txs)] = Fees(b.txs)
    BY <2>1, FeesRuns
  <2>3. Len(b.txs) \in 0 .. Len(b.txs)
    BY <2>1
  <2>4. k.minted \in 0 .. SupplyCap
    BY <1>2 DEF LedgerType
  <2>5. Reward(k.minted) \in Nat
    BY <2>4, RewardBound
  <2> QED BY <2>1, <2>2, <2>3, <2>5
<1>4. PICK d : d = AfterBlock(b, l)
  OBVIOUS
<1>5. d.nonce = k.nonce /\ \A a \in Addr : d.bal[a] \in Nat /\ d.bal[a] >= k.bal[a]
  <2>1. k.bal \in [Addr -> Nat]
    BY <1>2 DEF LedgerType
  <2>2. PICK c : c = k.bal[b.builder] + Fees(b.txs) + Reward(k.minted)
    OBVIOUS
  <2>3. d = [k EXCEPT !.bal[b.builder] = c, !.minted = k.minted + Reward(k.minted)]
    BY <1>1, <1>4, <2>2 DEF AfterBlock, PayBuilder
  <2>4. d.bal = [k.bal EXCEPT ![b.builder] = c] /\ d.nonce = k.nonce
    BY <1>2, <2>3, PaidLedger
  <2>5. c \in Nat /\ c >= k.bal[b.builder]
    BY <1>1, <1>3, <2>1, <2>2
  <2> QED BY <1>3, <2>1, <2>4, <2>5
<1>6. ASSUME NEW a \in Addr PROVE SumOver(Costs, Of(Q, a)) <= d.bal[a]
  <2>1. SumOver(Costs, Of(Q, a)) <= k.bal[a] /\ Of(Q, a) \in SUBSET CalmTxs
    BY <1>2 DEF Due, Of
  <2>2. SumOver(Costs, Of(Q, a)) \in Nat /\ k.bal[a] \in Nat
    BY <1>2, <2>1, CalmCosts DEF LedgerType
  <2> QED BY <1>5, <2>1, <2>2
<1> QED BY <1>1, <1>2, <1>4, <1>5, <1>6 DEF Due

-----------------------------------------------------------------------------
(* The pool of a calm world *)

Charge(t, who) == IF From[t] = who THEN Cost(t) ELSE 0

\* What a sender's pending transactions cost.
PendingFold(g, txs, who) ==
  g = [S \in SUBSET DOMAIN txs |->
         IF S = {} THEN 0
         ELSE LET x == Max(S) IN g[S \ {x}] + Charge(txs[x], who)]

LEMMA PendingIsFold ==
  ASSUME NEW txs, NEW who
  PROVE  PendingCost(txs, who) = (CHOOSE g : PendingFold(g, txs, who))[DOMAIN txs]
BY DEF PendingCost, Charge, FoldLeft, MapThenFoldSet, PendingFold

LEMMA PendingRuns ==
  ASSUME NEW txs \in Seq(Tx), NEW who
  PROVE  \E r \in [0 .. Len(txs) -> Nat] :
           /\ r[0] = 0 /\ r[Len(txs)] = PendingCost(txs, who)
           /\ \A i \in 1 .. Len(txs) : r[i] = r[i - 1] + Charge(txs[i], who)
<1>1. PICK X, b : X = Nat /\ b = 0
  OBVIOUS
<1>2. PICK F : F = [p \in X \X Tx |-> p[1] + Charge(p[2], who)]
  OBVIOUS
<1>3. ASSUME NEW a \in X, NEW y \in Tx
      PROVE  F[<<a, y>>] = a + Charge(y, who) /\ F[<<a, y>>] \in X
  <2>1. a + Charge(y, who) \in X
    BY <1>1, LedgerAssumption DEF Charge, Cost
  <2> QED BY <1>2, <2>1
<1>4. b \in X /\ F \in [X \X Tx -> X]
  <2>1. b \in X
    BY <1>1 DEF Charge, Cost
  <2>2. \A p \in X \X Tx : p[1] + Charge(p[2], who) \in X
    BY <1>2, <1>3
  <2> QED BY <1>2, <2>1, <2>2
<1>5. PICK g : g = CHOOSE h : PendingFold(h, txs, who)
  OBVIOUS
<1>6. PendingFold(g, txs, who)
  <2>1. PICK h : Computes(h, F, b, txs, X, Tx)
    BY <1>4, FoldComputes
  <2>2. ASSUME NEW S \in SUBSET DOMAIN txs, S # {}
        PROVE  h[S] = h[S \ {Max(S)}] + Charge(txs[Max(S)], who)
    <3>1. /\ h[S \ {Max(S)}] \in X /\ txs[Max(S)] \in Tx
          /\ h[S] = F[<<h[S \ {Max(S)}], txs[Max(S)]>>]
      BY <2>1, <2>2 DEF Computes
    <3> QED BY <1>3, <3>1
  <2>3. PendingFold(h, txs, who)
    BY <1>1, <2>1, <2>2 DEF Computes, PendingFold
  <2> QED BY <1>5, <2>3
<1>7. RunsTo(F, b, txs, X, PendingCost(txs, who))
  <2>1. g[{}] = b
    BY <1>1, <1>6 DEF PendingFold
  <2>2. ASSUME NEW S \in SUBSET DOMAIN txs, S # {},
               g[S \ {Max(S)}] \in X, txs[Max(S)] \in Tx
        PROVE  g[S] = F[<<g[S \ {Max(S)}], txs[Max(S)]>>]
    <3>1. g[S] = g[S \ {Max(S)}] + Charge(txs[Max(S)], who)
      BY <1>6, <2>2 DEF PendingFold
    <3> QED BY <1>3, <2>2, <3>1
  <2>3. RunsTo(F, b, txs, X, g[DOMAIN txs])
    BY <1>4, <2>1, <2>2, FoldGoes
  <2> QED BY <1>5, <2>3, PendingIsFold
<1>8. PICK r \in [0 .. Len(txs) -> X] : Runs(r, F, b, txs) /\ r[Len(txs)] = PendingCost(txs, who)
  BY <1>7 DEF RunsTo
<1>9. ASSUME NEW i \in 1 .. Len(txs)
      PROVE  r[i] = r[i - 1] + Charge(txs[i], who)
  <2>1. i - 1 \in 0 .. Len(txs) /\ txs[i] \in Tx
    OBVIOUS
  <2>2. r[i - 1] \in X
    BY <2>1
  <2> QED BY <1>3, <1>8, <2>1, <2>2 DEF Runs
<1> QED BY <1>1, <1>8, <1>9 DEF Runs

LEMMA PendingCostSum ==
  ASSUME TRUE \in Calms, NEW txs \in Lines, ToSet(txs) \subseteq CalmTxs, NEW who
  PROVE  PendingCost(txs, who) = SumOver(Costs, Of(ToSet(txs), who))
<1>1. PICK n \in Nat : n = Len(txs)
  BY DEF Lines
<1>2. PICK r \in [0 .. n -> Nat] :
        /\ r[0] = 0 /\ r[n] = PendingCost(txs, who)
        /\ \A i \in 1 .. n : r[i] = r[i - 1] + Charge(txs[i], who)
  BY <1>1, PendingRuns DEF Lines
<1>3. PICK G : G = {i \in 0 .. n : r[i] = SumOver(Costs, Of(FirstOf(txs, i), who))}
  OBVIOUS
<1>4. 0 \in G
  <2>1. Of(FirstOf(txs, 0), who) = {} /\ SumOver(Costs, {}) = 0
    BY FirstEnds, SumOfNone DEF Of
  <2>2. 0 \in 0 .. n
    OBVIOUS
  <2> QED BY <1>2, <1>3, <2>1, <2>2
<1>5. ASSUME NEW i \in 1 .. n, i - 1 \in G PROVE i \in G
  <2>1. PICK f, y, V, U : /\ f = FirstOf(txs, i - 1) /\ y = txs[i]
                          /\ V = Of(f, who) /\ U = Of(f \cup {y}, who)
    OBVIOUS
  <2>2. y \in Tx /\ y \notin f /\ FirstOf(txs, i) = f \cup {y} /\ i \in 0 .. n
    BY <1>1, <2>1, FirstGrows
  <2>3. FirstOf(txs, i) \subseteq ToSet(txs)
    <3>1. \A j \in 1 .. i : j \in DOMAIN txs
      BY <1>1 DEF Lines
    <3> QED BY <3>1 DEF FirstOf, ToSet
  <2>4. V \in SUBSET CalmTxs /\ U \in SUBSET CalmTxs
    BY <2>1, <2>2, <2>3 DEF Of
  <2>5. /\ IsFiniteSet(U) /\ SumOver(Costs, V) \in Nat
        /\ \A t \in U : Costs[t] = Cost(t) /\ Costs[t] \in Int
    <3>1. IsFiniteSet(U) /\ \A t \in U : Costs[t] = Cost(t) /\ Costs[t] \in Nat
      BY <2>4, CalmCosts
    <3>2. SumOver(Costs, V) \in Nat
      BY <2>4, CalmCosts
    <3> QED BY <3>1, <3>2
  <2>6. r[i - 1] = SumOver(Costs, V) /\ r[i] = r[i - 1] + Charge(y, who)
    BY <1>2, <1>3, <1>5, <2>1
  <2>7. r[i] = SumOver(Costs, U)
    <3>1. CASE From[y] = who
      <4>1. y \in U /\ U \ {y} = V
        BY <2>1, <2>2, <3>1 DEF Of
      <4>2. SumOver(Costs, U) = Costs[y] + SumOver(Costs, V)
        BY <2>5, <4>1, SumWithout
      <4>3. Charge(y, who) = Costs[y] /\ Costs[y] \in Int
        BY <2>5, <3>1, <4>1 DEF Charge
      <4> QED BY <2>5, <2>6, <4>2, <4>3
    <3>2. CASE From[y] # who
      <4>1. U = V
        BY <2>1, <3>2 DEF Of
      <4> QED BY <2>5, <2>6, <3>2, <4>1 DEF Charge
    <3> QED BY <3>1, <3>2
  <2> QED BY <1>3, <2>1, <2>2, <2>7
<1>6. n \in G
  <2>1. \A i \in 0 .. n : i \in G
    BY <1>4, <1>5, UpTo
  <2> QED BY <2>1
<1> QED BY <1>1, <1>2, <1>3, <1>6, FirstEnds

\* Where no room is missing nothing is taken out for a new transaction.
LEMMA TakingNone ==
  ASSUME NEW txs \in Lines, NEW t \in Tx, NEW room \in Int, room <= 0
  PROVE  Taking(txs, t, room).gone = {} /\ Taking(txs, t, room).freed = 0
<1>1. PICK n \in Nat : n = Len(txs)
  BY DEF Lines
<1>2. PICK r \in [0 .. n -> Picked] :
        /\ r[0] = [gone |-> {}, freed |-> 0, open |-> TRUE] /\ r[n] = Taking(txs, t, room)
        /\ \A i \in 1 .. n : r[i] = PickOut(r[i - 1], txs[i], t, room)
  BY <1>1, TakingRuns DEF Lines
<1>3. PICK G : G = {i \in 0 .. n : r[i].gone = {} /\ r[i].freed = 0}
  OBVIOUS
<1>4. 0 \in G
  BY <1>2, <1>3
<1>5. ASSUME NEW i \in 1 .. n, i - 1 \in G PROVE i \in G
  <2>1. PICK a : a = r[i - 1]
    OBVIOUS
  <2>2. i \in 0 .. n /\ a \in Picked /\ a.gone = {} /\ a.freed = 0
    BY <1>2, <1>3, <1>5, <2>1
  <2>3. r[i] = [a EXCEPT !.open = FALSE]
    <3>1. r[i] = PickOut(a, txs[i], t, room) /\ ~ (a.freed < room)
      BY <1>2, <2>1, <2>2
    <3> QED BY <3>1 DEF PickOut
  <2> QED BY <1>3, <2>2, <2>3 DEF Picked
<1>6. n \in G
  <2>1. \A i \in 0 .. n : i \in G
    BY <1>4, <1>5, UpTo
  <2> QED BY <2>1
<1> QED BY <1>2, <1>3, <1>6

\* So in a calm world a new transaction drives none out.
LEMMA AddCalm ==
  ASSUME TRUE \in Calms, NEW txs \in Pool, ToSet(txs) \subseteq CalmTxs, NEW t \in CalmTxs
  PROVE  \/ Add(txs, t) = txs
         \/ t \notin ToSet(txs) /\ ToSet(Add(txs, t)) = ToSet(txs) \cup {t}
<1>1. PICK room, line : room = Bytes(txs) + Size[t] - PoolLimit /\ line = SortedBy(txs, PaysLess)
  OBVIOUS
<1>2. txs \in Lines /\ t \in Tx
  BY CalmWorld DEF Pool
<1>3. CASE t \in ToSet(txs)
  BY <1>3 DEF Add
<1>4. CASE t \notin ToSet(txs)
  <2>1. PICK P, Q : P = ToSet(txs) /\ Q = ToSet(txs) \cup {t}
    OBVIOUS
  <2>2. Q \in SUBSET CalmTxs /\ P \in SUBSET CalmTxs /\ t \in Q /\ Q \ {t} = P
    BY <1>4, <2>1
  <2>3. /\ IsFiniteSet(Q) /\ SumOver(Size, P) \in Nat /\ SumOver(Size, Q) \in Nat
        /\ \A s \in Q : Size[s] \in Nat
    BY <2>2, CalmCosts
  <2>4. SumOver(Size, Q) = Size[t] + SumOver(Size, P)
    <3>1. \A s \in Q : Size[s] \in Int
      BY <2>3
    <3> QED BY <2>2, <2>3, <3>1, SumWithout
  <2>5. SumOver(Size, Q) <= SumOver(Size, CalmTxs) /\ SumOver(Size, CalmTxs) <= PoolLimit
        /\ SumOver(Size, CalmTxs) \in Nat /\ PoolLimit \in Nat
    <3>1. IsFiniteSet(CalmTxs) /\ \A s \in CalmTxs : Size[s] \in Nat
      BY CalmWorld, CalmCosts
    <3>2. SumOver(Size, CalmTxs) \in Nat
      BY CalmCosts
    <3> QED BY <2>2, <3>1, <3>2, SumOfPart, CalmWorld, ProducerAssumption
  <2>6. Bytes(txs) = SumOver(Size, P)
    BY <1>2, <2>1, BytesSum
  <2>7. room \in Int /\ room <= 0
    BY <1>1, <2>2, <2>3, <2>4, <2>5, <2>6
  <2>8. line \in Lines /\ ToSet(line) = ToSet(txs)
    BY <1>1, <1>2, SortKeeps
  <2>9. Evicted(txs, t).gone = {}
    <3>1. Taking(line, t, room).gone = {}
      BY <1>2, <2>7, <2>8, TakingNone
    <3> QED BY <1>1, <3>1, EvictedTakes
  <2>10. PICK u : u = Without(txs, {})
    OBVIOUS
  <2>11. u \in Lines /\ ToSet(u) = ToSet(txs)
    BY <1>2, <2>10, OnlyKeeps DEF Without
  <2>12. CASE Add(txs, t) # txs
    <3>1. Add(txs, t) = Append(u, t)
      BY <2>9, <2>10, <2>12 DEF Add
    <3> QED BY <1>2, <1>4, <2>11, <3>1, LineLonger
  <2> QED BY <2>12
<1> QED BY <1>3, <1>4

\* What the two changes of a probe make of a ledger.
LEMMA ProbedLedger ==
  ASSUME NEW k \in LedgerType, NEW x \in Addr, NEW c, NEW m
  PROVE  LET p == [k EXCEPT !.bal[x] = c, !.nonce[x] = m]
         IN  p.bal[x] = c /\ p.nonce[x] = m
<1>1. PICK B, N : B = [k.bal EXCEPT ![x] = c] /\ N = [k.nonce EXCEPT ![x] = m]
  OBVIOUS
<1>2. [k EXCEPT !.bal[x] = c, !.nonce[x] = m] = [[k EXCEPT !.bal[x] = c] EXCEPT !.nonce[x] = m]
  BY DEF LedgerType
<1>3. PICK d : d = [k EXCEPT !.bal[x] = c]
  OBVIOUS
<1>4. d = [bal |-> B, nonce |-> k.nonce, minted |-> k.minted, posts |-> k.posts,
           spent |-> k.spent]
  BY <1>1, <1>3 DEF LedgerType
<1>5. [d EXCEPT !.nonce[x] = m]
        = [bal |-> B, nonce |-> N, minted |-> k.minted, posts |-> k.posts,
           spent |-> k.spent]
  BY <1>1, <1>4
<1>6. B[x] = c /\ N[x] = m
  BY <1>1 DEF LedgerType
<1> QED BY <1>2, <1>3, <1>5, <1>6

\* The nonce the probe finds.
Latest(nonces, n) == IF nonces = {} THEN n ELSE CHOOSE k \in nonces : \A m \in nonces : m <= k

LastNonce(a) == Latest({Nonce[t] : t \in PendingOf(pool, a)}, ledger.nonce[a])

LEMMA ProbeFinds ==
  ASSUME ledger \in LedgerType, NEW a \in Addr
  PROVE  /\ Probe(a).bal[a] = ledger.bal[a] - PendingCost(pool, a)
         /\ Probe(a).nonce[a] = LastNonce(a)
<1>1. PICK c, m : c = ledger.bal[a] - PendingCost(pool, a) /\ m = LastNonce(a)
  OBVIOUS
<1>2. Probe(a) = [ledger EXCEPT !.bal[a] = c, !.nonce[a] = m]
  BY <1>1 DEF Probe, LastNonce, Latest
<1> QED BY <1>1, <1>2, ProbedLedger

\* A transaction that is valid after all its sender's pending ones is due with
\* them.
LEMMA DueMore ==
  ASSUME TRUE \in Calms, ledger \in LedgerType, pool \in Lines, Due(ToSet(pool), ledger),
         NEW t \in CalmTxs, NEW floor, ValidTx(t, Probe(From[t]), floor), t \notin ToSet(pool)
  PROVE  Due(ToSet(pool) \cup {t}, ledger)
<1>1. PICK P, Q, x, k : P = ToSet(pool) /\ Q = P \cup {t} /\ x = From[t] /\ k = Probe(x)
  OBVIOUS
<1>2. P \in SUBSET CalmTxs /\ Q \in SUBSET CalmTxs /\ x \in Addr /\ Cost(t) \in Nat
  <2>1. t \in Tx
    BY CalmWorld
  <2> QED BY <1>1, <2>1, LedgerAssumption DEF Due, Cost
<1>3. PICK n, m : /\ n = ledger.nonce[x] /\ m \in Nat
                  /\ {Nonce[s] : s \in Of(P, x)} = (n + 1) .. (n + m)
  BY <1>1, <1>2 DEF Due
<1>4. /\ n \in Nat /\ ledger.bal[x] \in Nat
      /\ SumOver(Costs, Of(P, x)) <= ledger.bal[x] /\ SumOver(Costs, Of(P, x)) \in Nat
  <2>1. Of(P, x) \in SUBSET CalmTxs
    BY <1>2 DEF Of
  <2> QED BY <1>1, <1>2, <1>3, <2>1, CalmCosts DEF Due, LedgerType
<1>5. k.bal[x] = ledger.bal[x] - PendingCost(pool, x) /\ k.nonce[x] = LastNonce(x)
  BY <1>1, <1>2, ProbeFinds
<1>6. PICK S : S = (n + 1) .. (n + m)
  OBVIOUS
<1>7. LastNonce(x) = n + m
  <2>1. PendingOf(pool, x) = Of(P, x)
    BY <1>1 DEF PendingOf, Of
  <2>2. LastNonce(x) = Latest(S, n)
    BY <1>3, <1>6, <2>1 DEF LastNonce
  <2>3. CASE m = 0
    <3>1. S = {}
      BY <1>3, <1>4, <1>6, <2>3
    <3> QED BY <1>3, <1>4, <2>2, <2>3, <3>1 DEF Latest
  <2>4. CASE m # 0
    <3>1. n + m \in S /\ \A h \in S : h <= n + m
      BY <1>3, <1>4, <1>6, <2>4
    <3>2. Latest(S, n) \in S /\ \A h \in S : h <= Latest(S, n)
      BY <3>1 DEF Latest
    <3>3. n + m <= LastNonce(x) /\ LastNonce(x) <= n + m /\ LastNonce(x) \in Int /\ n + m \in Int
      BY <1>3, <1>4, <1>6, <2>2, <3>1, <3>2
    <3> QED BY <3>3
  <2> QED BY <2>3, <2>4
<1>8. Nonce[t] = n + m + 1 /\ SumOver(Costs, Of(P, x)) + Cost(t) <= ledger.bal[x]
  <2>1. PendingCost(pool, x) = SumOver(Costs, Of(P, x))
    BY <1>1, PendingCostSum DEF Due
  <2>2. Nonce[t] = k.nonce[x] + 1 /\ Cost(t) <= k.bal[x]
    BY <1>1 DEF ValidTx
  <2> QED BY <1>2, <1>4, <1>5, <1>7, <2>1, <2>2
<1>9. ASSUME NEW a \in Addr
      PROVE  /\ \E j \in Nat : {Nonce[s] : s \in Of(Q, a)}
                                 = (ledger.nonce[a] + 1) .. (ledger.nonce[a] + j)
             /\ SumOver(Costs, Of(Q, a)) <= ledger.bal[a]
  <2>1. CASE a # x
    <3>1. Of(Q, a) = Of(P, a)
      BY <1>1, <2>1 DEF Of
    <3> QED BY <1>1, <3>1 DEF Due
  <2>2. CASE a = x
    <3>1. Of(Q, a) = Of(P, a) \cup {t} /\ t \notin Of(P, a)
      BY <1>1, <2>2 DEF Of
    <3>2. Of(Q, a) \in SUBSET CalmTxs /\ t \in Of(Q, a) /\ Of(Q, a) \ {t} = Of(P, a)
      BY <1>2, <3>1 DEF Of
    <3>3. SumOver(Costs, Of(Q, a)) = Cost(t) + SumOver(Costs, Of(P, a))
      <4>1. IsFiniteSet(Of(Q, a)) /\ \A s \in Of(Q, a) : Costs[s] = Cost(s) /\ Costs[s] \in Int
        BY <3>2, CalmCosts
      <4> QED BY <3>2, <4>1, SumWithout
    <3>4. {Nonce[s] : s \in Of(Q, a)} = {Nonce[s] : s \in Of(P, a)} \cup {n + m + 1}
      BY <1>8, <3>1
    <3>5. ((n + 1) .. (n + m)) \cup {n + m + 1} = (n + 1) .. (n + (m + 1))
      BY <1>3, <1>4
    <3>6. m + 1 \in Nat
      BY <1>3
    <3> QED BY <1>2, <1>3, <1>4, <1>8, <2>2, <3>3, <3>4, <3>5, <3>6
  <2> QED BY <2>1, <2>2
<1> QED BY <1>1, <1>2, <1>9 DEF Due

-----------------------------------------------------------------------------
(* What block.assemble makes of such a pool *)

\* The first of a range, as many as there are.
LEMMA LowerPart ==
  ASSUME NEW n \in Nat, NEW S \in SUBSET (1 .. n),
         \A i \in S : \A j \in 1 .. n : j < i => j \in S
  PROVE  S = 1 .. Cardinality(S) /\ Cardinality(S) \in Nat
<1>1. CASE S = {}
  <2>1. Cardinality(S) = 0
    BY <1>1, FS_EmptySet
  <2> QED BY <1>1, <2>1
<1>2. CASE S # {}
  <2>1. PICK m : m = Max(S)
    OBVIOUS
  <2>2. m \in S /\ \A i \in S : i <= m
    BY <1>2, <2>1, LastPlace
  <2>3. m \in Nat /\ m >= 1
    BY <2>2
  <2>4. S = 1 .. m
    <3>1. \A i \in S : i \in 1 .. m
      BY <2>2, <2>3
    <3>2. \A i \in 1 .. m : i \in S
      <4> TAKE i \in 1 .. m
      <4>1. i \in 1 .. n /\ (i < m \/ i = m)
        BY <2>2, <2>3
      <4> QED BY <2>2, <4>1
    <3> QED BY <3>1, <3>2
  <2>5. Cardinality(1 .. m) = m
    <3>1. 1 \in Int /\ m \in Int
      BY <2>3
    <3>2. Cardinality(1 .. m) = IF 1 > m THEN 0 ELSE m - 1 + 1
      BY <3>1, FS_Interval
    <3> QED BY <2>3, <3>2
  <2> QED BY <2>3, <2>4, <2>5
<1> QED BY <1>1, <1>2

\* The sort of a sender's transactions, and where it puts one.
ByNonce(txs) == SortedBy(txs, LAMBDA s, t : Nonce[s] < Nonce[t])
Rank(txs, t) == 1 + Cardinality({i \in DOMAIN txs : ~ (Nonce[t] < Nonce[txs[i]])})
Rising(txs) == \A i, j \in DOMAIN txs : i < j => Nonce[txs[i]] <= Nonce[txs[j]]

LEMMA RankType ==
  ASSUME NEW txs \in Seq(Tx), NEW t
  PROVE  Rank(txs, t) \in 1 .. (Len(txs) + 1)
<1>1. PICK n \in Nat : n = Len(txs) /\ DOMAIN txs = 1 .. n
  OBVIOUS
<1>2. PICK S : S = {i \in DOMAIN txs : ~ (Nonce[t] < Nonce[txs[i]])}
  OBVIOUS
<1>3. 1 + Cardinality(S) \in 1 .. (n + 1)
  BY <1>1, <1>2, PlaceBehind
<1> QED BY <1>1, <1>2, <1>3 DEF Rank

LEMMA StillRising ==
  ASSUME NEW txs \in Seq(Tx), Rising(txs), NEW t \in Tx
  PROVE  Rising(InsertAt(txs, Rank(txs, t), t))
<1>0. PICK n \in Nat : n = Len(txs) /\ DOMAIN txs = 1 .. n
  OBVIOUS
<1>1. PICK k, u : k = Rank(txs, t) /\ u = InsertAt(txs, k, t)
  OBVIOUS
<1>2. k \in 1 .. (n + 1)
  BY <1>0, <1>1, RankType
<1>3. /\ DOMAIN u = 1 .. (n + 1)
      /\ \A i \in 1 .. (n + 1) :
           u[i] = IF i < k THEN txs[i] ELSE IF i = k THEN t ELSE txs[i - 1]
  <2>1. u \in Seq(Tx) /\ Len(u) = n + 1
    BY <1>0, <1>1, <1>2, InsertedIn
  <2>2. k \in 1 .. (Len(txs) + 1)
    BY <1>0, <1>1, <1>2
  <2>3. \A i \in 1 .. (Len(txs) + 1) :
          InsertAt(txs, k, t)[i] = IF i < k THEN txs[i] ELSE IF i = k THEN t ELSE txs[i - 1]
    BY <2>2, InsertedIn
  <2> QED BY <1>0, <1>1, <2>1, <2>3
<1>4. PICK v : v = [i \in 1 .. n |-> Nonce[txs[i]]]
  OBVIOUS
<1>5. /\ v \in [1 .. n -> Nat] /\ Nonce[t] \in Nat
      /\ \A i, j \in 1 .. n : i <= j => v[i] <= v[j]
  <2>1. v \in [1 .. n -> Nat] /\ Nonce[t] \in Nat
    BY <1>0, <1>1, <1>4, LedgerAssumption
  <2>2. \A i, j \in 1 .. n : i < j => v[i] <= v[j]
    BY <1>0, <1>1, <1>4 DEF Rising
  <2> QED BY <2>1, <2>2
<1>6. PICK S : S = {i \in 1 .. n : ~ (Nonce[t] < v[i])}
  OBVIOUS
<1>7. k = 1 + Cardinality(S)
  <2>1. S = {i \in DOMAIN txs : ~ (Nonce[t] < Nonce[txs[i]])}
    BY <1>0, <1>1, <1>4, <1>6
  <2> QED BY <1>0, <1>1, <2>1 DEF Rank
<1>8. S = 1 .. Cardinality(S) /\ Cardinality(S) \in Nat
  <2>1. S \in SUBSET (1 .. n)
    BY <1>6
  <2>2. ASSUME NEW i \in S, NEW j \in 1 .. n, j < i PROVE j \in S
    <3>1. i \in 1 .. n /\ ~ (Nonce[t] < v[i]) /\ v[j] <= v[i]
      BY <1>5, <1>6, <2>2
    <3>2. v[i] \in Nat /\ v[j] \in Nat
      BY <1>5, <3>1
    <3>3. ~ (Nonce[t] < v[j])
      BY <1>5, <3>1, <3>2
    <3> QED BY <1>6, <3>3
  <2> QED BY <2>1, <2>2, LowerPart
<1>9. \A i \in 1 .. n : (i < k => v[i] <= Nonce[t]) /\ (i >= k => Nonce[t] <= v[i])
  <2> TAKE i \in 1 .. n
  <2>1. v[i] \in Nat
    BY <1>5
  <2>2. i < k <=> i \in S
    BY <1>2, <1>7, <1>8
  <2> QED BY <1>2, <1>5, <1>6, <2>1, <2>2
<1>10. PICK w : w = [i \in 1 .. (n + 1) |->
                      IF i < k THEN v[i] ELSE IF i = k THEN Nonce[t] ELSE v[i - 1]]
  OBVIOUS
<1>11. \A i \in 1 .. (n + 1) : Nonce[u[i]] = w[i]
  <2> TAKE i \in 1 .. (n + 1)
  <2>1. (i < k => i \in 1 .. n) /\ (i > k => i - 1 \in 1 .. n)
    BY <1>2
  <2> QED BY <1>2, <1>3, <1>4, <1>10, <2>1
<1>12. ASSUME NEW i \in 1 .. (n + 1), NEW j \in 1 .. (n + 1), i < j PROVE w[i] <= w[j]
  <2>1. CASE j < k
    <3>1. i \in 1 .. n /\ j \in 1 .. n /\ i < k
      BY <1>2, <1>12, <2>1
    <3> QED BY <1>5, <1>10, <1>12, <2>1, <3>1
  <2>2. CASE j = k
    <3>1. i \in 1 .. n /\ i < k
      BY <1>2, <1>12, <2>2
    <3> QED BY <1>9, <1>10, <2>2, <3>1
  <2>3. CASE j > k
    <3>1. j - 1 \in 1 .. n /\ j - 1 >= k /\ w[j] = v[j - 1]
      BY <1>2, <1>10, <2>3
    <3>2. CASE i < k
      <4>1. i \in 1 .. n /\ w[i] = v[i] /\ i <= j - 1
        BY <1>2, <1>10, <1>12, <3>2
      <4> QED BY <1>5, <3>1, <4>1
    <3>3. CASE i = k
      <4>1. w[i] = Nonce[t]
        BY <1>10, <3>3
      <4> QED BY <1>9, <3>1, <4>1
    <3>4. CASE i > k
      <4>1. i - 1 \in 1 .. n /\ w[i] = v[i - 1] /\ i - 1 <= j - 1
        BY <1>2, <1>10, <1>12, <3>4
      <4> QED BY <1>5, <3>1, <4>1
    <3> QED BY <1>2, <3>2, <3>3, <3>4
  <2> QED BY <1>2, <2>1, <2>2, <2>3
<1> QED BY <1>0, <1>1, <1>3, <1>11, <1>12 DEF Rising

\* A line in the order of its nonces.
NonceFold(g, txs) ==
  g = [S \in SUBSET DOMAIN txs |->
         IF S = {} THEN << >>
         ELSE LET x == Max(S) IN InsertAt(g[S \ {x}], Rank(g[S \ {x}], txs[x]), txs[x])]

LEMMA ByNonceIsFold ==
  ASSUME NEW txs
  PROVE  ByNonce(txs) = (CHOOSE g : NonceFold(g, txs))[DOMAIN txs]
BY DEF ByNonce, SortedBy, Rank, FoldLeft, MapThenFoldSet, NonceFold

LEMMA ByNonceRuns ==
  ASSUME NEW txs \in Seq(Tx)
  PROVE  \E r \in [0 .. Len(txs) -> Seq(Tx)] :
           /\ r[0] = << >> /\ r[Len(txs)] = ByNonce(txs)
           /\ \A i \in 1 .. Len(txs) : r[i] = InsertAt(r[i - 1], Rank(r[i - 1], txs[i]), txs[i])
<1>1. PICK X, b : X = Seq(Tx) /\ b = << >>
  OBVIOUS
<1>2. PICK F : F = [p \in X \X Tx |-> InsertAt(p[1], Rank(p[1], p[2]), p[2])]
  OBVIOUS
<1>3. ASSUME NEW a \in X, NEW y \in Tx
      PROVE  F[<<a, y>>] = InsertAt(a, Rank(a, y), y) /\ F[<<a, y>>] \in X
  <2>1. InsertAt(a, Rank(a, y), y) \in X
    BY <1>1, RankType, InsertedIn
  <2> QED BY <1>2, <2>1
<1>4. b \in X /\ F \in [X \X Tx -> X]
  <2>1. b \in X
    BY <1>1
  <2>2. \A p \in X \X Tx : InsertAt(p[1], Rank(p[1], p[2]), p[2]) \in X
    BY <1>2, <1>3
  <2> QED BY <1>2, <2>1, <2>2
<1>5. PICK g : g = CHOOSE h : NonceFold(h, txs)
  OBVIOUS
<1>6. NonceFold(g, txs)
  <2>1. PICK h : Computes(h, F, b, txs, X, Tx)
    BY <1>4, FoldComputes
  <2>2. ASSUME NEW S \in SUBSET DOMAIN txs, S # {}
        PROVE  h[S] = InsertAt(h[S \ {Max(S)}], Rank(h[S \ {Max(S)}], txs[Max(S)]), txs[Max(S)])
    <3>1. /\ h[S \ {Max(S)}] \in X /\ txs[Max(S)] \in Tx
          /\ h[S] = F[<<h[S \ {Max(S)}], txs[Max(S)]>>]
      BY <2>1, <2>2 DEF Computes
    <3> QED BY <1>3, <3>1
  <2>3. NonceFold(h, txs)
    BY <1>1, <2>1, <2>2 DEF Computes, NonceFold
  <2> QED BY <1>5, <2>3
<1>7. RunsTo(F, b, txs, X, ByNonce(txs))
  <2>1. g[{}] = b
    BY <1>1, <1>6 DEF NonceFold
  <2>2. ASSUME NEW S \in SUBSET DOMAIN txs, S # {},
               g[S \ {Max(S)}] \in X, txs[Max(S)] \in Tx
        PROVE  g[S] = F[<<g[S \ {Max(S)}], txs[Max(S)]>>]
    <3>1. g[S] = InsertAt(g[S \ {Max(S)}], Rank(g[S \ {Max(S)}], txs[Max(S)]), txs[Max(S)])
      BY <1>6, <2>2 DEF NonceFold
    <3> QED BY <1>3, <2>2, <3>1
  <2>3. RunsTo(F, b, txs, X, g[DOMAIN txs])
    BY <1>4, <2>1, <2>2, FoldGoes
  <2> QED BY <1>5, <2>3, ByNonceIsFold
<1>8. PICK r \in [0 .. Len(txs) -> X] : Runs(r, F, b, txs) /\ r[Len(txs)] = ByNonce(txs)
  BY <1>7 DEF RunsTo
<1>9. ASSUME NEW i \in 1 .. Len(txs)
      PROVE  r[i] = InsertAt(r[i - 1], Rank(r[i - 1], txs[i]), txs[i])
  <2>1. i - 1 \in 0 .. Len(txs) /\ txs[i] \in Tx
    OBVIOUS
  <2>2. r[i - 1] \in X
    BY <2>1
  <2> QED BY <1>3, <1>8, <2>1, <2>2 DEF Runs
<1> QED BY <1>1, <1>8, <1>9 DEF Runs

\* A sender's transactions in the order of their nonces are the same ones.
LEMMA ByNonceKeeps ==
  ASSUME NEW txs \in Lines
  PROVE  ByNonce(txs) \in Lines /\ ToSet(ByNonce(txs)) = ToSet(txs) /\ Rising(ByNonce(txs))
<1>1. PICK n \in Nat : n = Len(txs)
  BY DEF Lines
<1>2. PICK r \in [0 .. n -> Seq(Tx)] :
        /\ r[0] = << >> /\ r[n] = ByNonce(txs)
        /\ \A i \in 1 .. n : r[i] = InsertAt(r[i - 1], Rank(r[i - 1], txs[i]), txs[i])
  BY <1>1, ByNonceRuns DEF Lines
<1>3. PICK G : G = {i \in 0 .. n : r[i] \in Lines /\ ToSet(r[i]) = FirstOf(txs, i) /\ Rising(r[i])}
  OBVIOUS
<1>4. 0 \in G
  <2>1. FirstOf(txs, 0) = {} /\ r[0] \in Lines /\ ToSet(r[0]) = {}
    BY <1>2, FirstEnds, NoLine
  <2>2. Rising(r[0])
    BY <1>2 DEF Rising
  <2>3. 0 \in 0 .. n
    OBVIOUS
  <2> QED BY <1>3, <2>1, <2>2, <2>3
<1>5. ASSUME NEW i \in 1 .. n, i - 1 \in G PROVE i \in G
  <2>1. PICK f, y, a : f = FirstOf(txs, i - 1) /\ y = txs[i] /\ a = r[i - 1]
    OBVIOUS
  <2>2. y \in Tx /\ y \notin f /\ FirstOf(txs, i) = f \cup {y} /\ i \in 0 .. n
    BY <1>1, <2>1, FirstGrows
  <2>3. a \in Lines /\ ToSet(a) = f /\ Rising(a) /\ a \in Seq(Tx)
    BY <1>3, <1>5, <2>1 DEF Lines
  <2>4. r[i] = InsertAt(a, Rank(a, y), y)
    BY <1>2, <2>1
  <2>5. r[i] \in Lines /\ ToSet(r[i]) = ToSet(a) \cup {y}
    BY <2>2, <2>3, <2>4, RankType, Inserted
  <2>6. Rising(r[i])
    BY <2>2, <2>3, <2>4, StillRising
  <2> QED BY <1>3, <2>2, <2>3, <2>5, <2>6
<1>6. n \in G
  <2>1. \A i \in 0 .. n : i \in G
    BY <1>4, <1>5, UpTo
  <2> QED BY <2>1
<1> QED BY <1>1, <1>2, <1>3, <1>6, FirstEnds

\* A queue is what one sender has in P, by nonce.
Queues(P) == {g \in Lines : Rising(g) /\ \E a \in Addr : ToSet(g) = Of(P, a)}

LEMMA GroupQueues ==
  ASSUME NEW txs \in Lines, NEW a \in Addr
  PROVE  Group(txs, a) \in Queues(ToSet(txs)) /\ ToSet(Group(txs, a)) = Of(ToSet(txs), a)
<1>1. PICK u : u = Only(txs, PendingOf(txs, a))
  OBVIOUS
<1>2. Group(txs, a) = ByNonce(u)
  BY <1>1 DEF Group, ByNonce
<1>3. u \in Lines /\ ToSet(u) = ToSet(txs) \cap PendingOf(txs, a)
  BY <1>1, OnlyKeeps
<1>4. ToSet(u) = Of(ToSet(txs), a)
  BY <1>3 DEF PendingOf, Of
<1> QED BY <1>2, <1>3, <1>4, ByNonceKeeps DEF Queues

\* by_sender names every sender once.
WithSender(senders, t) ==
  IF From[t] \in ToSet(senders) THEN senders ELSE Append(senders, From[t])

\* The senders of a line.
SenderFold(g, txs) ==
  g = [S \in SUBSET DOMAIN txs |->
         IF S = {} THEN << >>
         ELSE LET x == Max(S) IN WithSender(g[S \ {x}], txs[x])]

LEMMA SendersIsFold ==
  ASSUME NEW txs
  PROVE  Senders(txs) = (CHOOSE g : SenderFold(g, txs))[DOMAIN txs]
BY DEF Senders, WithSender, FoldLeft, MapThenFoldSet, SenderFold

LEMMA SendersRuns ==
  ASSUME NEW txs \in Seq(Tx)
  PROVE  \E r \in [0 .. Len(txs) -> Seq(Addr)] :
           /\ r[0] = << >> /\ r[Len(txs)] = Senders(txs)
           /\ \A i \in 1 .. Len(txs) : r[i] = WithSender(r[i - 1], txs[i])
<1>1. PICK X, b : X = Seq(Addr) /\ b = << >>
  OBVIOUS
<1>2. PICK F : F = [p \in X \X Tx |-> WithSender(p[1], p[2])]
  OBVIOUS
<1>3. ASSUME NEW a \in X, NEW y \in Tx
      PROVE  F[<<a, y>>] = WithSender(a, y) /\ F[<<a, y>>] \in X
  <2>1. WithSender(a, y) \in X
    BY <1>1, LedgerAssumption DEF WithSender
  <2> QED BY <1>2, <2>1
<1>4. b \in X /\ F \in [X \X Tx -> X]
  <2>1. b \in X
    BY <1>1 DEF WithSender
  <2>2. \A p \in X \X Tx : WithSender(p[1], p[2]) \in X
    BY <1>2, <1>3
  <2> QED BY <1>2, <2>1, <2>2
<1>5. PICK g : g = CHOOSE h : SenderFold(h, txs)
  OBVIOUS
<1>6. SenderFold(g, txs)
  <2>1. PICK h : Computes(h, F, b, txs, X, Tx)
    BY <1>4, FoldComputes
  <2>2. ASSUME NEW S \in SUBSET DOMAIN txs, S # {}
        PROVE  h[S] = WithSender(h[S \ {Max(S)}], txs[Max(S)])
    <3>1. /\ h[S \ {Max(S)}] \in X /\ txs[Max(S)] \in Tx
          /\ h[S] = F[<<h[S \ {Max(S)}], txs[Max(S)]>>]
      BY <2>1, <2>2 DEF Computes
    <3> QED BY <1>3, <3>1
  <2>3. SenderFold(h, txs)
    BY <1>1, <2>1, <2>2 DEF Computes, SenderFold
  <2> QED BY <1>5, <2>3
<1>7. RunsTo(F, b, txs, X, Senders(txs))
  <2>1. g[{}] = b
    BY <1>1, <1>6 DEF SenderFold
  <2>2. ASSUME NEW S \in SUBSET DOMAIN txs, S # {},
               g[S \ {Max(S)}] \in X, txs[Max(S)] \in Tx
        PROVE  g[S] = F[<<g[S \ {Max(S)}], txs[Max(S)]>>]
    <3>1. g[S] = WithSender(g[S \ {Max(S)}], txs[Max(S)])
      BY <1>6, <2>2 DEF SenderFold
    <3> QED BY <1>3, <2>2, <3>1
  <2>3. RunsTo(F, b, txs, X, g[DOMAIN txs])
    BY <1>4, <2>1, <2>2, FoldGoes
  <2> QED BY <1>5, <2>3, SendersIsFold
<1>8. PICK r \in [0 .. Len(txs) -> X] : Runs(r, F, b, txs) /\ r[Len(txs)] = Senders(txs)
  BY <1>7 DEF RunsTo
<1>9. ASSUME NEW i \in 1 .. Len(txs)
      PROVE  r[i] = WithSender(r[i - 1], txs[i])
  <2>1. i - 1 \in 0 .. Len(txs) /\ txs[i] \in Tx
    OBVIOUS
  <2>2. r[i - 1] \in X
    BY <2>1
  <2> QED BY <1>3, <1>8, <2>1, <2>2 DEF Runs
<1> QED BY <1>1, <1>8, <1>9 DEF Runs

LEMMA SendersOnce ==
  ASSUME NEW txs \in Seq(Tx)
  PROVE  Senders(txs) \in Seq(Addr) /\ IsInjective(Senders(txs))
<1>1. PICK n \in Nat : n = Len(txs) /\ DOMAIN txs = 1 .. n
  OBVIOUS
<1>2. PICK r \in [0 .. n -> Seq(Addr)] :
        /\ r[0] = << >> /\ r[n] = Senders(txs)
        /\ \A i \in 1 .. n : r[i] = WithSender(r[i - 1], txs[i])
  BY <1>1, SendersRuns
<1>3. PICK G : G = {i \in 0 .. n : IsInjective(r[i])}
  OBVIOUS
<1>4. 0 \in G
  <2>1. IsInjective(r[0]) /\ 0 \in 0 .. n
    BY <1>2 DEF IsInjective
  <2> QED BY <1>3, <2>1
<1>5. ASSUME NEW i \in 1 .. n, i - 1 \in G PROVE i \in G
  <2>1. PICK a, x : a = r[i - 1] /\ x = From[txs[i]]
    OBVIOUS
  <2>2. i \in 0 .. n /\ i - 1 \in 0 .. n /\ x \in Addr
    BY <1>1, <2>1, LedgerAssumption
  <2>3. a \in Seq(Addr) /\ IsInjective(a)
    BY <1>2, <1>3, <1>5, <2>1, <2>2
  <2>4. r[i] = IF x \in ToSet(a) THEN a ELSE Append(a, x)
    BY <1>2, <2>1 DEF WithSender
  <2>5. x \notin ToSet(a) => IsInjective(Append(a, x))
    BY <2>2, <2>3, LongerIn
  <2> QED BY <1>3, <2>2, <2>3, <2>4, <2>5
<1>6. n \in G
  <2>1. \A i \in 0 .. n : i \in G
    BY <1>4, <1>5, UpTo
  <2> QED BY <2>1
<1>7. Senders(txs) \in Seq(Addr)
  <2>1. n \in 0 .. n
    OBVIOUS
  <2> QED BY <1>2, <2>1
<1> QED BY <1>2, <1>3, <1>6, <1>7

\* So no two queues share a transaction,
Apart(queues) ==
  \A i, j \in DOMAIN queues : i # j => ToSet(queues[i]) \cap ToSet(queues[j]) = {}
Grouped(senders, txs) ==
  FoldLeft(LAMBDA queues, a : Append(queues, Group(txs, a)), << >>, senders)

\* The queues of some senders.
GroupedFold(g, senders, txs) ==
  g = [S \in SUBSET DOMAIN senders |->
         IF S = {} THEN << >>
         ELSE LET x == Max(S) IN Append(g[S \ {x}], Group(txs, senders[x]))]

LEMMA GroupedIsFold ==
  ASSUME NEW senders, NEW txs
  PROVE  Grouped(senders, txs) = (CHOOSE g : GroupedFold(g, senders, txs))[DOMAIN senders]
BY DEF Grouped, FoldLeft, MapThenFoldSet, GroupedFold

LEMMA GroupedRuns ==
  ASSUME NEW senders \in Seq(Addr), NEW txs \in Lines
  PROVE  \E r \in [0 .. Len(senders) -> Seq(Queues(ToSet(txs)))] :
           /\ r[0] = << >> /\ r[Len(senders)] = Grouped(senders, txs)
           /\ \A i \in 1 .. Len(senders) : r[i] = Append(r[i - 1], Group(txs, senders[i]))
<1>1. PICK X, b : X = Seq(Queues(ToSet(txs))) /\ b = << >>
  OBVIOUS
<1>2. PICK F : F = [p \in X \X Addr |-> Append(p[1], Group(txs, p[2]))]
  OBVIOUS
<1>3. ASSUME NEW a \in X, NEW y \in Addr
      PROVE  F[<<a, y>>] = Append(a, Group(txs, y)) /\ F[<<a, y>>] \in X
  <2>1. Append(a, Group(txs, y)) \in X
    BY <1>1, GroupQueues
  <2> QED BY <1>2, <2>1
<1>4. b \in X /\ F \in [X \X Addr -> X]
  <2>1. b \in X
    BY <1>1
  <2>2. \A p \in X \X Addr : Append(p[1], Group(txs, p[2])) \in X
    BY <1>2, <1>3
  <2> QED BY <1>2, <2>1, <2>2
<1>5. PICK g : g = CHOOSE h : GroupedFold(h, senders, txs)
  OBVIOUS
<1>6. GroupedFold(g, senders, txs)
  <2>1. PICK h : Computes(h, F, b, senders, X, Addr)
    BY <1>4, FoldComputes
  <2>2. ASSUME NEW S \in SUBSET DOMAIN senders, S # {}
        PROVE  h[S] = Append(h[S \ {Max(S)}], Group(txs, senders[Max(S)]))
    <3>1. /\ h[S \ {Max(S)}] \in X /\ senders[Max(S)] \in Addr
          /\ h[S] = F[<<h[S \ {Max(S)}], senders[Max(S)]>>]
      BY <2>1, <2>2 DEF Computes
    <3> QED BY <1>3, <3>1
  <2>3. GroupedFold(h, senders, txs)
    BY <1>1, <2>1, <2>2 DEF Computes, GroupedFold
  <2> QED BY <1>5, <2>3
<1>7. RunsTo(F, b, senders, X, Grouped(senders, txs))
  <2>1. g[{}] = b
    BY <1>1, <1>6 DEF GroupedFold
  <2>2. ASSUME NEW S \in SUBSET DOMAIN senders, S # {},
               g[S \ {Max(S)}] \in X, senders[Max(S)] \in Addr
        PROVE  g[S] = F[<<g[S \ {Max(S)}], senders[Max(S)]>>]
    <3>1. g[S] = Append(g[S \ {Max(S)}], Group(txs, senders[Max(S)]))
      BY <1>6, <2>2 DEF GroupedFold
    <3> QED BY <1>3, <2>2, <3>1
  <2>3. RunsTo(F, b, senders, X, g[DOMAIN senders])
    BY <1>4, <2>1, <2>2, FoldGoes
  <2> QED BY <1>5, <2>3, GroupedIsFold
<1>8. PICK r \in [0 .. Len(senders) -> X] : Runs(r, F, b, senders) /\ r[Len(senders)] = Grouped(senders, txs)
  BY <1>7 DEF RunsTo
<1>9. ASSUME NEW i \in 1 .. Len(senders)
      PROVE  r[i] = Append(r[i - 1], Group(txs, senders[i]))
  <2>1. i - 1 \in 0 .. Len(senders) /\ senders[i] \in Addr
    OBVIOUS
  <2>2. r[i - 1] \in X
    BY <2>1
  <2> QED BY <1>3, <1>8, <2>1, <2>2 DEF Runs
<1> QED BY <1>1, <1>8, <1>9 DEF Runs

LEMMA GroupedApart ==
  ASSUME NEW txs \in Lines, NEW senders \in Seq(Addr), IsInjective(senders)
  PROVE  Grouped(senders, txs) \in Seq(Queues(ToSet(txs))) /\ Apart(Grouped(senders, txs))
<1>0. PICK n \in Nat : n = Len(senders) /\ DOMAIN senders = 1 .. n
  OBVIOUS
<1>1. PICK P : P = ToSet(txs)
  OBVIOUS
<1>2. PICK r \in [0 .. n -> Seq(Queues(P))] :
        /\ r[0] = << >> /\ r[n] = Grouped(senders, txs)
        /\ \A i \in 1 .. n : r[i] = Append(r[i - 1], Group(txs, senders[i]))
  BY <1>0, <1>1, GroupedRuns
<1>3. PICK G : G = {i \in 0 .. n : /\ Len(r[i]) = i
                                   /\ \A j \in 1 .. i : r[i][j] = Group(txs, senders[j])}
  OBVIOUS
<1>4. 0 \in G
  <2>1. 0 \in 0 .. n /\ Len(r[0]) = 0 /\ 1 .. 0 = {}
    BY <1>2
  <2> QED BY <1>3, <2>1
<1>5. ASSUME NEW i \in 1 .. n, i - 1 \in G PROVE i \in G
  <2>1. PICK a, x : a = r[i - 1] /\ x = Group(txs, senders[i])
    OBVIOUS
  <2>2. i \in 0 .. n /\ i - 1 \in 0 .. n
    OBVIOUS
  <2>3. a \in Seq(Queues(P)) /\ Len(a) = i - 1
        /\ \A j \in 1 .. (i - 1) : a[j] = Group(txs, senders[j])
    BY <1>2, <1>3, <1>5, <2>1, <2>2
  <2>4. r[i] = Append(a, x)
    BY <1>2, <2>1
  <2>5. Len(Append(a, x)) = i /\ Append(a, x)[i] = x
        /\ \A j \in 1 .. (i - 1) : Append(a, x)[j] = a[j]
    BY <2>3
  <2>6. \A j \in 1 .. i : j \in 1 .. (i - 1) \/ j = i
    OBVIOUS
  <2> QED BY <1>3, <2>1, <2>2, <2>3, <2>4, <2>5, <2>6
<1>6. n \in G /\ n \in 0 .. n
  <2>1. \A i \in 0 .. n : i \in G
    BY <1>4, <1>5, UpTo
  <2> QED BY <2>1
<1>7. PICK q : q = Grouped(senders, txs)
  OBVIOUS
<1>8. q \in Seq(Queues(P)) /\ DOMAIN q = 1 .. n
      /\ \A j \in 1 .. n : q[j] = Group(txs, senders[j])
  BY <1>2, <1>3, <1>6, <1>7
<1>9. ASSUME NEW i \in 1 .. n, NEW j \in 1 .. n, i # j
      PROVE  ToSet(q[i]) \cap ToSet(q[j]) = {}
  <2>1. senders[i] \in Addr /\ senders[j] \in Addr /\ senders[i] # senders[j]
    BY <1>0, <1>1, <1>9 DEF IsInjective
  <2>2. ToSet(q[i]) = Of(P, senders[i]) /\ ToSet(q[j]) = Of(P, senders[j])
    BY <1>0, <1>1, <1>8, <2>1, GroupQueues
  <2> QED BY <2>1, <2>2 DEF Of
<1> QED BY <1>0, <1>1, <1>7, <1>8, <1>9 DEF Apart

\* in whatever order they are taken.
ByLead(queues) == SortedBy(queues, LAMBDA g, h : PaysLess(h[1], g[1]))
LeadRank(queues, g) ==
  1 + Cardinality({i \in DOMAIN queues : ~ PaysLess(queues[i][1], g[1])})

LEMMA LeadRankType ==
  ASSUME NEW Kind, NEW queues \in Seq(Kind), NEW g
  PROVE  LeadRank(queues, g) \in 1 .. (Len(queues) + 1)
<1>1. PICK n \in Nat : n = Len(queues) /\ DOMAIN queues = 1 .. n
  OBVIOUS
<1>2. PICK Q : Q = {i \in DOMAIN queues : ~ PaysLess(queues[i][1], g[1])}
  OBVIOUS
<1>3. 1 + Cardinality(Q) \in 1 .. (n + 1)
  BY <1>1, <1>2, PlaceBehind
<1> QED BY <1>1, <1>2, <1>3 DEF LeadRank

Clear(queues, g) == \A i \in DOMAIN queues : ToSet(queues[i]) \cap ToSet(g) = {}

LEMMA StillApart ==
  ASSUME NEW Kind, NEW queues \in Seq(Kind), Apart(queues), NEW k \in 1 .. (Len(queues) + 1),
         NEW g \in Kind, Clear(queues, g)
  PROVE  LET u == InsertAt(queues, k, g)
         IN  /\ u \in Seq(Kind) /\ Apart(u)
             /\ \A i \in DOMAIN u : u[i] = g \/ \E j \in DOMAIN queues : u[i] = queues[j]
<1>0. PICK n \in Nat : n = Len(queues) /\ DOMAIN queues = 1 .. n
  OBVIOUS
<1>1. PICK u : u = InsertAt(queues, k, g)
  OBVIOUS
<1>2. /\ u \in Seq(Kind) /\ Len(u) = n + 1
      /\ \A i \in 1 .. (n + 1) :
           u[i] = IF i < k THEN queues[i] ELSE IF i = k THEN g ELSE queues[i - 1]
  <2>1. u \in Seq(Kind) /\ Len(u) = n + 1
    BY <1>0, <1>1, InsertedIn
  <2>2. \A i \in 1 .. (Len(queues) + 1) :
          InsertAt(queues, k, g)[i]
            = IF i < k THEN queues[i] ELSE IF i = k THEN g ELSE queues[i - 1]
    BY InsertedIn
  <2> QED BY <1>0, <1>1, <2>1, <2>2
<1>3. PICK from : from = [i \in 1 .. (n + 1) |-> IF i < k THEN i ELSE i - 1]
  OBVIOUS
<1>4. \A i \in 1 .. (n + 1) : i # k => from[i] \in 1 .. n /\ u[i] = queues[from[i]]
  BY <1>0, <1>1, <1>2, <1>3
<1>5. \A i, j \in 1 .. (n + 1) : i # k /\ j # k /\ i # j => from[i] # from[j]
  BY <1>0, <1>1, <1>3
<1>6. DOMAIN u = 1 .. (n + 1) /\ u[k] = g /\ k \in 1 .. (n + 1)
  BY <1>0, <1>1, <1>2
<1>7. ASSUME NEW i \in 1 .. (n + 1), NEW j \in 1 .. (n + 1), i # j
      PROVE  ToSet(u[i]) \cap ToSet(u[j]) = {}
  <2>1. \A h \in 1 .. (n + 1) : h # k => ToSet(u[h]) \cap ToSet(g) = {}
    BY <1>0, <1>1, <1>4 DEF Clear
  <2>2. CASE i # k /\ j # k
    <3>1. from[i] # from[j] /\ from[i] \in DOMAIN queues /\ from[j] \in DOMAIN queues
      BY <1>0, <1>1, <1>4, <1>5, <1>7, <2>2
    <3> QED BY <1>4, <2>2, <3>1 DEF Apart
  <2>3. CASE i = k
    BY <1>6, <1>7, <2>1, <2>3
  <2>4. CASE j = k
    BY <1>6, <1>7, <2>1, <2>4
  <2> QED BY <2>2, <2>3, <2>4
<1>8. Apart(u)
  BY <1>6, <1>7 DEF Apart
<1>9. \A i \in DOMAIN u : u[i] = g \/ \E j \in DOMAIN queues : u[i] = queues[j]
  BY <1>0, <1>1, <1>4, <1>6
<1> QED BY <1>0, <1>1, <1>2, <1>8, <1>9

\* Queues in the order of what the first in each pays.
LeadFold(g, queues) ==
  g = [S \in SUBSET DOMAIN queues |->
         IF S = {} THEN << >>
         ELSE LET x == Max(S) IN InsertAt(g[S \ {x}], LeadRank(g[S \ {x}], queues[x]), queues[x])]

LEMMA ByLeadIsFold ==
  ASSUME NEW queues
  PROVE  ByLead(queues) = (CHOOSE g : LeadFold(g, queues))[DOMAIN queues]
BY DEF ByLead, SortedBy, LeadRank, FoldLeft, MapThenFoldSet, LeadFold

LEMMA ByLeadRuns ==
  ASSUME NEW Kind, NEW queues \in Seq(Kind)
  PROVE  \E r \in [0 .. Len(queues) -> Seq(Kind)] :
           /\ r[0] = << >> /\ r[Len(queues)] = ByLead(queues)
           /\ \A i \in 1 .. Len(queues) : r[i] = InsertAt(r[i - 1], LeadRank(r[i - 1], queues[i]), queues[i])
<1>1. PICK X, b : X = Seq(Kind) /\ b = << >>
  OBVIOUS
<1>2. PICK F : F = [p \in X \X Kind |-> InsertAt(p[1], LeadRank(p[1], p[2]), p[2])]
  OBVIOUS
<1>3. ASSUME NEW a \in X, NEW y \in Kind
      PROVE  F[<<a, y>>] = InsertAt(a, LeadRank(a, y), y) /\ F[<<a, y>>] \in X
  <2>1. InsertAt(a, LeadRank(a, y), y) \in X
    BY <1>1, LeadRankType, InsertedIn
  <2> QED BY <1>2, <2>1
<1>4. b \in X /\ F \in [X \X Kind -> X]
  <2>1. b \in X
    BY <1>1
  <2>2. \A p \in X \X Kind : InsertAt(p[1], LeadRank(p[1], p[2]), p[2]) \in X
    BY <1>2, <1>3
  <2> QED BY <1>2, <2>1, <2>2
<1>5. PICK g : g = CHOOSE h : LeadFold(h, queues)
  OBVIOUS
<1>6. LeadFold(g, queues)
  <2>1. PICK h : Computes(h, F, b, queues, X, Kind)
    BY <1>4, FoldComputes
  <2>2. ASSUME NEW S \in SUBSET DOMAIN queues, S # {}
        PROVE  h[S] = InsertAt(h[S \ {Max(S)}], LeadRank(h[S \ {Max(S)}], queues[Max(S)]), queues[Max(S)])
    <3>1. /\ h[S \ {Max(S)}] \in X /\ queues[Max(S)] \in Kind
          /\ h[S] = F[<<h[S \ {Max(S)}], queues[Max(S)]>>]
      BY <2>1, <2>2 DEF Computes
    <3> QED BY <1>3, <3>1
  <2>3. LeadFold(h, queues)
    BY <1>1, <2>1, <2>2 DEF Computes, LeadFold
  <2> QED BY <1>5, <2>3
<1>7. RunsTo(F, b, queues, X, ByLead(queues))
  <2>1. g[{}] = b
    BY <1>1, <1>6 DEF LeadFold
  <2>2. ASSUME NEW S \in SUBSET DOMAIN queues, S # {},
               g[S \ {Max(S)}] \in X, queues[Max(S)] \in Kind
        PROVE  g[S] = F[<<g[S \ {Max(S)}], queues[Max(S)]>>]
    <3>1. g[S] = InsertAt(g[S \ {Max(S)}], LeadRank(g[S \ {Max(S)}], queues[Max(S)]), queues[Max(S)])
      BY <1>6, <2>2 DEF LeadFold
    <3> QED BY <1>3, <2>2, <3>1
  <2>3. RunsTo(F, b, queues, X, g[DOMAIN queues])
    BY <1>4, <2>1, <2>2, FoldGoes
  <2> QED BY <1>5, <2>3, ByLeadIsFold
<1>8. PICK r \in [0 .. Len(queues) -> X] : Runs(r, F, b, queues) /\ r[Len(queues)] = ByLead(queues)
  BY <1>7 DEF RunsTo
<1>9. ASSUME NEW i \in 1 .. Len(queues)
      PROVE  r[i] = InsertAt(r[i - 1], LeadRank(r[i - 1], queues[i]), queues[i])
  <2>1. i - 1 \in 0 .. Len(queues) /\ queues[i] \in Kind
    OBVIOUS
  <2>2. r[i - 1] \in X
    BY <2>1
  <2> QED BY <1>3, <1>8, <2>1, <2>2 DEF Runs
<1> QED BY <1>1, <1>8, <1>9 DEF Runs

LEMMA ByLeadApart ==
  ASSUME NEW Kind, NEW queues \in Seq(Kind), Apart(queues)
  PROVE  ByLead(queues) \in Seq(Kind) /\ Apart(ByLead(queues))
<1>1. PICK n \in Nat : n = Len(queues) /\ DOMAIN queues = 1 .. n
  OBVIOUS
<1>2. PICK r \in [0 .. n -> Seq(Kind)] :
        /\ r[0] = << >> /\ r[n] = ByLead(queues)
        /\ \A i \in 1 .. n : r[i] = InsertAt(r[i - 1], LeadRank(r[i - 1], queues[i]), queues[i])
  BY <1>1, ByLeadRuns
<1>3. PICK G : G = {i \in 0 .. n : /\ Apart(r[i])
                                   /\ \A j \in DOMAIN r[i] : \E h \in 1 .. i : r[i][j] = queues[h]}
  OBVIOUS
<1>4. 0 \in G
  <2>1. 0 \in 0 .. n /\ DOMAIN r[0] = {}
    BY <1>2
  <2> QED BY <1>3, <2>1 DEF Apart
<1>5. ASSUME NEW i \in 1 .. n, i - 1 \in G PROVE i \in G
  <2>1. PICK a, g, k, u : a = r[i - 1] /\ g = queues[i] /\ k = LeadRank(a, g) /\ u = r[i]
    OBVIOUS
  <2>2. i \in 0 .. n /\ i - 1 \in 0 .. n /\ g \in Kind
    BY <1>1, <2>1
  <2>3. a \in Seq(Kind) /\ Apart(a) /\ \A j \in DOMAIN a : \E h \in 1 .. (i - 1) : a[j] = queues[h]
    BY <1>2, <1>3, <1>5, <2>1, <2>2
  <2>4. Clear(a, g)
    <3> SUFFICES ASSUME NEW j \in DOMAIN a PROVE ToSet(a[j]) \cap ToSet(g) = {}
      BY DEF Clear
    <3>1. PICK h \in 1 .. (i - 1) : a[j] = queues[h]
      BY <2>3
    <3>2. h \in DOMAIN queues /\ i \in DOMAIN queues /\ h # i
      BY <1>1
    <3> QED BY <2>1, <3>1, <3>2 DEF Apart
  <2>5. k \in 1 .. (Len(a) + 1)
    BY <2>1, <2>3, LeadRankType
  <2>6. u = InsertAt(a, k, g)
    BY <1>2, <2>1
  <2>7. Apart(u) /\ \A j \in DOMAIN u : u[j] = g \/ \E h \in DOMAIN a : u[j] = a[h]
    BY <2>2, <2>3, <2>4, <2>5, <2>6, StillApart
  <2>8. \A j \in DOMAIN u : \E h \in 1 .. i : u[j] = queues[h]
    <3> TAKE j \in DOMAIN u
    <3>1. i \in 1 .. i /\ \A h \in 1 .. (i - 1) : h \in 1 .. i
      OBVIOUS
    <3> QED BY <2>1, <2>3, <2>7, <3>1
  <2> QED BY <1>3, <2>1, <2>2, <2>7, <2>8
<1>6. n \in G /\ n \in 0 .. n
  <2>1. \A i \in 0 .. n : i \in G
    BY <1>4, <1>5, UpTo
  <2> QED BY <2>1
<1> QED BY <1>2, <1>3, <1>6

LEMMA GroupsApart ==
  ASSUME NEW txs \in Lines
  PROVE  Groups(txs) \in Seq(Queues(ToSet(txs))) /\ Apart(Groups(txs))
<1>1. PICK senders : senders = Senders(txs)
  OBVIOUS
<1>2. senders \in Seq(Addr) /\ IsInjective(senders)
  BY <1>1, SendersOnce DEF Lines
<1>3. PICK q : q = Grouped(senders, txs)
  OBVIOUS
<1>4. q \in Seq(Queues(ToSet(txs))) /\ Apart(q)
  BY <1>2, <1>3, GroupedApart
<1>5. Groups(txs) = ByLead(q)
  BY <1>1, <1>3 DEF Groups, ByLead, Grouped
<1> QED BY <1>4, <1>5, ByLeadApart

-----------------------------------------------------------------------------
(* What the queues fill a block with *)

Parcel == [txs : Seq(Tx), bytes : Nat]
Loading == [txs : Seq(Tx), bytes : Nat, open : BOOLEAN]
Load(acc, t) ==
  IF acc.open /\ acc.bytes + InBlock(t) <= BlockLimit
  THEN [txs |-> Append(acc.txs, t), bytes |-> acc.bytes + InBlock(t), open |-> TRUE]
  ELSE [acc EXCEPT !.open = FALSE]
Loaded(packed, queue) ==
  FoldLeft(LAMBDA acc, t : Load(acc, t),
           [txs |-> packed.txs, bytes |-> packed.bytes, open |-> TRUE], queue)
Packed(queues) == FoldLeft(PackGroup, [txs |-> << >>, bytes |-> 0], queues)

LEMMA LoadType ==
  ASSUME NEW acc \in Loading, NEW t \in Tx
  PROVE  Load(acc, t) \in Loading
<1>1. acc.txs \in Seq(Tx) /\ acc.bytes \in Nat /\ InBlock(t) \in Nat
  BY ProducerAssumption DEF Loading, InBlock
<1>2. [acc EXCEPT !.open = FALSE] \in Loading
  BY DEF Loading
<1>3. Append(acc.txs, t) \in Seq(Tx) /\ acc.bytes + InBlock(t) \in Nat
  BY <1>1
<1>4. [txs |-> Append(acc.txs, t), bytes |-> acc.bytes + InBlock(t), open |-> TRUE] \in Loading
  BY <1>3 DEF Loading
<1> QED BY <1>2, <1>4 DEF Load

\* What PackGroup puts in.
LoadFold(g, queue, packed) ==
  g = [S \in SUBSET DOMAIN queue |->
         IF S = {} THEN [txs |-> packed.txs, bytes |-> packed.bytes, open |-> TRUE]
         ELSE LET x == Max(S) IN Load(g[S \ {x}], queue[x])]

LEMMA LoadedIsFold ==
  ASSUME NEW queue, NEW packed
  PROVE  Loaded(packed, queue) = (CHOOSE g : LoadFold(g, queue, packed))[DOMAIN queue]
BY DEF Loaded, FoldLeft, MapThenFoldSet, LoadFold

LEMMA LoadedRuns ==
  ASSUME NEW queue \in Seq(Tx), NEW packed \in Parcel
  PROVE  \E r \in [0 .. Len(queue) -> Loading] :
           /\ r[0] = [txs |-> packed.txs, bytes |-> packed.bytes, open |-> TRUE] /\ r[Len(queue)] = Loaded(packed, queue)
           /\ \A i \in 1 .. Len(queue) : r[i] = Load(r[i - 1], queue[i])
<1>1. PICK X, b : X = Loading /\ b = [txs |-> packed.txs, bytes |-> packed.bytes, open |-> TRUE]
  OBVIOUS
<1>2. PICK F : F = [p \in X \X Tx |-> Load(p[1], p[2])]
  OBVIOUS
<1>3. ASSUME NEW a \in X, NEW y \in Tx
      PROVE  F[<<a, y>>] = Load(a, y) /\ F[<<a, y>>] \in X
  <2>1. Load(a, y) \in X
    BY <1>1, LoadType DEF Parcel, Loading
  <2> QED BY <1>2, <2>1
<1>4. b \in X /\ F \in [X \X Tx -> X]
  <2>1. b \in X
    BY <1>1 DEF Parcel, Loading
  <2>2. \A p \in X \X Tx : Load(p[1], p[2]) \in X
    BY <1>2, <1>3
  <2> QED BY <1>2, <2>1, <2>2
<1>5. PICK g : g = CHOOSE h : LoadFold(h, queue, packed)
  OBVIOUS
<1>6. LoadFold(g, queue, packed)
  <2>1. PICK h : Computes(h, F, b, queue, X, Tx)
    BY <1>4, FoldComputes
  <2>2. ASSUME NEW S \in SUBSET DOMAIN queue, S # {}
        PROVE  h[S] = Load(h[S \ {Max(S)}], queue[Max(S)])
    <3>1. /\ h[S \ {Max(S)}] \in X /\ queue[Max(S)] \in Tx
          /\ h[S] = F[<<h[S \ {Max(S)}], queue[Max(S)]>>]
      BY <2>1, <2>2 DEF Computes
    <3> QED BY <1>3, <3>1
  <2>3. LoadFold(h, queue, packed)
    BY <1>1, <2>1, <2>2 DEF Computes, LoadFold
  <2> QED BY <1>5, <2>3
<1>7. RunsTo(F, b, queue, X, Loaded(packed, queue))
  <2>1. g[{}] = b
    BY <1>1, <1>6 DEF LoadFold
  <2>2. ASSUME NEW S \in SUBSET DOMAIN queue, S # {},
               g[S \ {Max(S)}] \in X, queue[Max(S)] \in Tx
        PROVE  g[S] = F[<<g[S \ {Max(S)}], queue[Max(S)]>>]
    <3>1. g[S] = Load(g[S \ {Max(S)}], queue[Max(S)])
      BY <1>6, <2>2 DEF LoadFold
    <3> QED BY <1>3, <2>2, <3>1
  <2>3. RunsTo(F, b, queue, X, g[DOMAIN queue])
    BY <1>4, <2>1, <2>2, FoldGoes
  <2> QED BY <1>5, <2>3, LoadedIsFold
<1>8. PICK r \in [0 .. Len(queue) -> X] : Runs(r, F, b, queue) /\ r[Len(queue)] = Loaded(packed, queue)
  BY <1>7 DEF RunsTo
<1>9. ASSUME NEW i \in 1 .. Len(queue)
      PROVE  r[i] = Load(r[i - 1], queue[i])
  <2>1. i - 1 \in 0 .. Len(queue) /\ queue[i] \in Tx
    OBVIOUS
  <2>2. r[i - 1] \in X
    BY <2>1
  <2> QED BY <1>3, <1>8, <2>1, <2>2 DEF Runs
<1> QED BY <1>1, <1>8, <1>9 DEF Runs

LEMMA PackGroupLoads ==
  ASSUME NEW packed, NEW queue
  PROVE  PackGroup(packed, queue)
           = [txs |-> Loaded(packed, queue).txs, bytes |-> Loaded(packed, queue).bytes]
BY DEF PackGroup, Loaded, Load

LEMMA PackGroupType ==
  ASSUME NEW packed \in Parcel, NEW queue \in Lines
  PROVE  PackGroup(packed, queue) \in Parcel
<1>1. PICK n \in Nat : n = Len(queue)
  BY DEF Lines
<1>2. PICK r \in [0 .. n -> Loading] : r[n] = Loaded(packed, queue)
  BY <1>1, LoadedRuns DEF Lines
<1>3. n \in 0 .. n
  OBVIOUS
<1>4. Loaded(packed, queue) \in Loading
  BY <1>2, <1>3
<1> QED BY <1>4, PackGroupLoads DEF Loading, Parcel

\* What assemble puts in, queue by queue.
PackFold(g, queues) ==
  g = [S \in SUBSET DOMAIN queues |->
         IF S = {} THEN [txs |-> << >>, bytes |-> 0]
         ELSE LET x == Max(S) IN PackGroup(g[S \ {x}], queues[x])]

LEMMA PackedIsFold ==
  ASSUME NEW queues
  PROVE  Packed(queues) = (CHOOSE g : PackFold(g, queues))[DOMAIN queues]
BY DEF Packed, FoldLeft, MapThenFoldSet, PackFold

LEMMA PackedRuns ==
  ASSUME NEW queues \in Seq(Lines)
  PROVE  \E r \in [0 .. Len(queues) -> Parcel] :
           /\ r[0] = [txs |-> << >>, bytes |-> 0] /\ r[Len(queues)] = Packed(queues)
           /\ \A i \in 1 .. Len(queues) : r[i] = PackGroup(r[i - 1], queues[i])
<1>1. PICK X, b : X = Parcel /\ b = [txs |-> << >>, bytes |-> 0]
  OBVIOUS
<1>2. PICK F : F = [p \in X \X Lines |-> PackGroup(p[1], p[2])]
  OBVIOUS
<1>3. ASSUME NEW a \in X, NEW y \in Lines
      PROVE  F[<<a, y>>] = PackGroup(a, y) /\ F[<<a, y>>] \in X
  <2>1. PackGroup(a, y) \in X
    BY <1>1, PackGroupType DEF Parcel
  <2> QED BY <1>2, <2>1
<1>4. b \in X /\ F \in [X \X Lines -> X]
  <2>1. b \in X
    BY <1>1 DEF Parcel
  <2>2. \A p \in X \X Lines : PackGroup(p[1], p[2]) \in X
    BY <1>2, <1>3
  <2> QED BY <1>2, <2>1, <2>2
<1>5. PICK g : g = CHOOSE h : PackFold(h, queues)
  OBVIOUS
<1>6. PackFold(g, queues)
  <2>1. PICK h : Computes(h, F, b, queues, X, Lines)
    BY <1>4, FoldComputes
  <2>2. ASSUME NEW S \in SUBSET DOMAIN queues, S # {}
        PROVE  h[S] = PackGroup(h[S \ {Max(S)}], queues[Max(S)])
    <3>1. /\ h[S \ {Max(S)}] \in X /\ queues[Max(S)] \in Lines
          /\ h[S] = F[<<h[S \ {Max(S)}], queues[Max(S)]>>]
      BY <2>1, <2>2 DEF Computes
    <3> QED BY <1>3, <3>1
  <2>3. PackFold(h, queues)
    BY <1>1, <2>1, <2>2 DEF Computes, PackFold
  <2> QED BY <1>5, <2>3
<1>7. RunsTo(F, b, queues, X, Packed(queues))
  <2>1. g[{}] = b
    BY <1>1, <1>6 DEF PackFold
  <2>2. ASSUME NEW S \in SUBSET DOMAIN queues, S # {},
               g[S \ {Max(S)}] \in X, queues[Max(S)] \in Lines
        PROVE  g[S] = F[<<g[S \ {Max(S)}], queues[Max(S)]>>]
    <3>1. g[S] = PackGroup(g[S \ {Max(S)}], queues[Max(S)])
      BY <1>6, <2>2 DEF PackFold
    <3> QED BY <1>3, <2>2, <3>1
  <2>3. RunsTo(F, b, queues, X, g[DOMAIN queues])
    BY <1>4, <2>1, <2>2, FoldGoes
  <2> QED BY <1>5, <2>3, PackedIsFold
<1>8. PICK r \in [0 .. Len(queues) -> X] : Runs(r, F, b, queues) /\ r[Len(queues)] = Packed(queues)
  BY <1>7 DEF RunsTo
<1>9. ASSUME NEW i \in 1 .. Len(queues)
      PROVE  r[i] = PackGroup(r[i - 1], queues[i])
  <2>1. i - 1 \in 0 .. Len(queues) /\ queues[i] \in Lines
    OBVIOUS
  <2>2. r[i - 1] \in X
    BY <2>1
  <2> QED BY <1>3, <1>8, <2>1, <2>2 DEF Runs
<1> QED BY <1>1, <1>8, <1>9 DEF Runs

\* A block confirms one transaction more.
LEMMA ApplyOneMore ==
  ASSUME NEW l \in LedgerType, NEW txs \in Seq(Tx), NEW t \in Tx
  PROVE  ApplyTxs(Append(txs, t), l) = TxStep(ApplyTxs(txs, l), t, BoardFeeFloor(l.posts))
<1>1. PICK n, u, floor : n = Len(txs) /\ u = Append(txs, t) /\ floor = BoardFeeFloor(l.posts)
  OBVIOUS
<1>2. /\ n \in Nat /\ u \in Seq(Tx) /\ Len(u) = n + 1 /\ u[n + 1] = t /\ \A i \in 1 .. n : u[i] = txs[i]
  BY <1>1
<1>3. PICK r \in [0 .. n -> Acc] :
        /\ r[0] = [ok |-> TRUE, l |-> l] /\ r[n] = ApplyTxs(txs, l)
        /\ \A i \in 1 .. n : r[i] = TxStep(r[i - 1], txs[i], floor)
  <2>1. \E r \in [0 .. Len(txs) -> Acc] :
          /\ r[0] = [ok |-> TRUE, l |-> l] /\ r[Len(txs)] = ApplyTxs(txs, l)
          /\ \A i \in 1 .. Len(txs) : r[i] = TxStep(r[i - 1], txs[i], BoardFeeFloor(l.posts))
    BY ApplyTxsRuns
  <2> QED BY <1>1, <2>1
<1>4. PICK q \in [0 .. (n + 1) -> Acc] :
        /\ q[0] = [ok |-> TRUE, l |-> l] /\ q[n + 1] = ApplyTxs(u, l)
        /\ \A i \in 1 .. (n + 1) : q[i] = TxStep(q[i - 1], u[i], floor)
  <2>1. \E s \in [0 .. Len(u) -> Acc] :
          /\ s[0] = [ok |-> TRUE, l |-> l] /\ s[Len(u)] = ApplyTxs(u, l)
          /\ \A i \in 1 .. Len(u) : s[i] = TxStep(s[i - 1], u[i], BoardFeeFloor(l.posts))
    BY <1>2, ApplyTxsRuns
  <2> QED BY <1>1, <1>2, <2>1
<1>5. PICK G : G = {i \in 0 .. n : q[i] = r[i]}
  OBVIOUS
<1>6. 0 \in G
  <2>1. 0 \in 0 .. n
    BY <1>2
  <2> QED BY <1>3, <1>4, <1>5, <2>1
<1>7. ASSUME NEW i \in 1 .. n, i - 1 \in G PROVE i \in G
  <2>1. i \in 0 .. n /\ i \in 1 .. (n + 1)
    BY <1>2
  <2>2. q[i] = TxStep(q[i - 1], u[i], floor) /\ r[i] = TxStep(r[i - 1], txs[i], floor)
    BY <1>3, <1>4, <2>1
  <2>3. q[i - 1] = r[i - 1] /\ u[i] = txs[i]
    BY <1>2, <1>5, <1>7
  <2> QED BY <1>5, <2>1, <2>2, <2>3
<1>8. n \in G
  <2>1. \A i \in 0 .. n : i \in G
    BY <1>2, <1>6, <1>7, UpTo
  <2> QED BY <1>2, <2>1
<1>9. q[n + 1] = TxStep(q[n], t, floor)
  <2>1. n + 1 \in 1 .. (n + 1) /\ (n + 1) - 1 = n
    BY <1>2
  <2> QED BY <1>2, <1>4, <2>1
<1> QED BY <1>1, <1>3, <1>4, <1>5, <1>8, <1>9

\* Of what is due, what comes first among its sender's is valid.
LEMMA NextValid ==
  ASSUME TRUE \in Calms, NEW l \in LedgerType, NEW P, Due(P, l), NEW t \in P, NEW floor,
         \A s \in Of(P, From[t]) : Nonce[t] <= Nonce[s]
  PROVE  ValidTx(t, l, floor)
<1>1. PICK a, R : a = From[t] /\ R = Of(P, a)
  OBVIOUS
<1>2. P \in SUBSET CalmTxs
  BY DEF Due
<1>3. t \in R /\ R \in SUBSET CalmTxs /\ R \ {t} \in SUBSET CalmTxs
  BY <1>1, <1>2 DEF Of
<1>4. /\ IsFiniteSet(R) /\ a \in Addr
      /\ \A s \in R : Costs[s] = Cost(s) /\ Costs[s] \in Nat /\ Nonce[s] \in Nat
  <2>1. IsFiniteSet(R) /\ From[t] \in Addr
        /\ \A s \in R : Costs[s] = Cost(s) /\ Costs[s] \in Nat /\ Nonce[s] \in Nat
    BY <1>3, CalmCosts
  <2> QED BY <1>1, <2>1
<1>5. PICK n, m \in Nat : n = l.nonce[a] /\ {Nonce[s] : s \in R} = (n + 1) .. (n + m)
  <2>1. l.nonce[a] \in Nat
    BY <1>4 DEF LedgerType
  <2>2. \E m \in Nat : {Nonce[s] : s \in R} = (l.nonce[a] + 1) .. (l.nonce[a] + m)
    BY <1>1, <1>4 DEF Due
  <2> QED BY <2>1, <2>2
<1>6. n \in Nat /\ l.bal[a] \in Nat
  BY <1>4, <1>5 DEF LedgerType
<1>7. Nonce[t] = n + 1
  <2>1. Nonce[t] \in (n + 1) .. (n + m)
    BY <1>3, <1>5
  <2>2. n + 1 \in (n + 1) .. (n + m)
    BY <1>5, <1>6, <2>1
  <2>3. PICK s \in R : Nonce[s] = n + 1
    BY <1>5, <2>2
  <2>4. Nonce[t] <= n + 1
    BY <1>1, <2>3
  <2> QED BY <1>5, <1>6, <2>1, <2>4
<1>8. Cost(t) <= l.bal[a]
  <2>1. \A s \in R : Costs[s] \in Int
    BY <1>4
  <2>2. SumOver(Costs, R) = Costs[t] + SumOver(Costs, R \ {t})
    BY <1>3, <1>4, <2>1, SumWithout
  <2>3. SumOver(Costs, R \ {t}) \in Nat /\ SumOver(Costs, R) \in Nat
    BY <1>3, CalmCosts
  <2>4. SumOver(Costs, R) <= l.bal[a]
    BY <1>1, <1>4 DEF Due
  <2> QED BY <1>3, <1>4, <1>6, <2>2, <2>3, <2>4
<1>9. t \notin Board
  BY <1>2, CalmWorld
<1> QED BY <1>1, <1>5, <1>7, <1>8, <1>9 DEF ValidTx

\* What is packed of P is of the size it is taken for, and valid as it stands.
Fits(packed, P, l) ==
  /\ packed.txs \in Lines /\ ToSet(packed.txs) \subseteq P
  /\ packed.bytes = SumOver(Weights, ToSet(packed.txs)) /\ packed.bytes <= BlockLimit
  /\ ApplyTxs(packed.txs, l).ok

LEMMA LoadFits ==
  ASSUME TRUE \in Calms, NEW l \in LedgerType, NEW P, Due(P, l),
         NEW acc \in Loading, Fits(acc, P, l), NEW t \in P, t \notin ToSet(acc.txs),
         \A s \in Of(P \ ToSet(acc.txs), From[t]) : Nonce[t] <= Nonce[s]
  PROVE  Fits(Load(acc, t), P, l)
<1>1. CASE ~ (acc.open /\ acc.bytes + InBlock(t) <= BlockLimit)
  <2>1. Load(acc, t).txs = acc.txs /\ Load(acc, t).bytes = acc.bytes
    BY <1>1 DEF Load, Loading
  <2> QED BY <2>1 DEF Fits
<1>2. CASE acc.open /\ acc.bytes + InBlock(t) <= BlockLimit
  <2>1. PICK txs, u : txs = acc.txs /\ u = Append(txs, t)
    OBVIOUS
  <2>2. Load(acc, t).txs = u /\ Load(acc, t).bytes = acc.bytes + InBlock(t)
    BY <1>2, <2>1 DEF Load
  <2>3. /\ txs \in Lines /\ ToSet(txs) \subseteq P /\ acc.bytes = SumOver(Weights, ToSet(txs))
        /\ ApplyTxs(txs, l).ok /\ P \in SUBSET CalmTxs /\ t \in Tx
    BY <2>1, CalmWorld DEF Fits, Due
  <2>4. u \in Lines /\ ToSet(u) = ToSet(txs) \cup {t}
    BY <2>1, <2>3, LineLonger
  <2>5. SumOver(Weights, ToSet(u)) = acc.bytes + InBlock(t)
    <3>1. PICK U, T : U = ToSet(u) /\ T = ToSet(txs)
      OBVIOUS
    <3>2. U \in SUBSET CalmTxs /\ T \in SUBSET CalmTxs /\ t \in U /\ U \ {t} = T
      BY <2>1, <2>3, <2>4, <3>1
    <3>3. IsFiniteSet(U) /\ \A s \in U : Weights[s] \in Nat
      BY <3>2, CalmCosts
    <3>4. \A s \in U : Weights[s] \in Int
      BY <3>3
    <3>5. SumOver(Weights, U) = Weights[t] + SumOver(Weights, T)
      BY <3>2, <3>3, <3>4, SumWithout
    <3>6. Weights[t] = InBlock(t)
      BY <2>3 DEF Weights, InBlock
    <3>7. SumOver(Weights, T) \in Nat /\ Weights[t] \in Nat
      BY <3>2, <3>3, CalmCosts
    <3> QED BY <2>3, <3>1, <3>5, <3>6, <3>7
  <2>6. ApplyTxs(u, l).ok
    <3>1. PICK k, floor : k = ApplyTxs(txs, l).l /\ floor = BoardFeeFloor(l.posts)
      OBVIOUS
    <3>2. txs \in Seq(Tx) /\ DOMAIN txs = 1 .. Len(txs) /\ \A i \in 1 .. Len(txs) : txs[i] \in CalmTxs
      BY <2>3 DEF Lines, ToSet
    <3>3. txs \in Seq(CalmTxs)
      BY <3>2
    <3>4. k \in LedgerType /\ Due(P \ ToSet(txs), k)
      BY <2>3, <3>1, <3>3, DueTxs
    <3>5. ValidTx(t, k, floor)
      <4>1. t \in P \ ToSet(txs) /\ \A s \in Of(P \ ToSet(txs), From[t]) : Nonce[t] <= Nonce[s]
        BY <2>1
      <4> QED BY <3>4, <4>1, NextValid
    <3>6. ApplyTxs(u, l) = TxStep(ApplyTxs(txs, l), t, floor)
      BY <2>1, <2>3, <3>1, <3>2, ApplyOneMore
    <3> QED BY <2>3, <3>1, <3>5, <3>6 DEF TxStep
  <2> QED BY <1>2, <2>2, <2>3, <2>4, <2>5, <2>6 DEF Fits
<1> QED BY <1>1, <1>2

\* So is a queue,
LEMMA QueueFits ==
  ASSUME TRUE \in Calms, NEW l \in LedgerType, NEW P, Due(P, l),
         NEW packed \in Parcel, Fits(packed, P, l), NEW queue \in Queues(P),
         ToSet(packed.txs) \cap ToSet(queue) = {}
  PROVE  /\ Fits(PackGroup(packed, queue), P, l)
         /\ ToSet(PackGroup(packed, queue).txs) \subseteq ToSet(packed.txs) \cup ToSet(queue)
<1>1. PICK n, before : n = Len(queue) /\ before = ToSet(packed.txs)
  OBVIOUS
<1>2. /\ queue \in Lines /\ queue \in Seq(Tx) /\ n \in Nat /\ DOMAIN queue = 1 .. n
      /\ ToSet(queue) = {queue[j] : j \in 1 .. n} /\ Rising(queue)
  BY <1>1 DEF Queues, Lines, ToSet
<1>3. PICK a \in Addr : ToSet(queue) = Of(P, a)
  BY DEF Queues
<1>4. PICK r \in [0 .. n -> Loading] :
        /\ r[0] = [txs |-> packed.txs, bytes |-> packed.bytes, open |-> TRUE]
        /\ r[n] = Loaded(packed, queue)
        /\ \A i \in 1 .. n : r[i] = Load(r[i - 1], queue[i])
  BY <1>1, <1>2, LoadedRuns
<1> DEFINE Good(i) == /\ Fits(r[i], P, l)
                      /\ ToSet(r[i].txs) \subseteq before \cup FirstOf(queue, i)
                      /\ r[i].open => FirstOf(queue, i) \subseteq ToSet(r[i].txs)
<1>5. PICK G : G = {i \in 0 .. n : Good(i)}
  OBVIOUS
<1>6. 0 \in G
  <2>1. r[0].txs = packed.txs /\ r[0].bytes = packed.bytes
    BY <1>4
  <2>2. Fits(r[0], P, l)
    BY <2>1 DEF Fits
  <2>3. FirstOf(queue, 0) = {}
    BY <1>2, FirstEnds
  <2>4. Good(0)
    BY <1>1, <2>1, <2>2, <2>3
  <2>5. 0 \in 0 .. n
    BY <1>2
  <2> HIDE DEF Good
  <2> QED BY <1>5, <2>4, <2>5
<1>7. ASSUME NEW i \in 1 .. n, i - 1 \in G PROVE i \in G
  <2>1. PICK t, acc, D : t = queue[i] /\ acc = r[i - 1] /\ D = FirstOf(queue, i - 1)
    OBVIOUS
  <2>2. i \in 0 .. n /\ i - 1 \in 0 .. n
    BY <1>2
  <2>3. t \in Tx /\ t \notin D /\ FirstOf(queue, i) = D \cup {t} /\ t \in ToSet(queue)
    BY <1>1, <1>2, <2>1, FirstGrows
  <2>4. /\ acc \in Loading /\ Fits(acc, P, l) /\ ToSet(acc.txs) \subseteq before \cup D
        /\ acc.open => D \subseteq ToSet(acc.txs)
    BY <1>4, <1>5, <1>7, <2>1, <2>2
  <2>5. r[i] = Load(acc, t)
    BY <1>4, <2>1
  <2>6. t \notin ToSet(acc.txs)
    BY <1>1, <2>3, <2>4
  <2>7. t \in P /\ From[t] = a
    BY <1>3, <2>3 DEF Of
  <2>8. CASE ~ acc.open
    <3>1. r[i] = [acc EXCEPT !.open = FALSE]
      BY <2>5, <2>8 DEF Load
    <3>2. r[i].txs = acc.txs /\ r[i].bytes = acc.bytes /\ r[i].open = FALSE
      BY <2>4, <3>1 DEF Loading
    <3>3. Good(i)
      BY <2>3, <2>4, <3>2 DEF Fits
    <3> HIDE DEF Good
    <3> QED BY <1>5, <2>2, <3>3
  <2>9. CASE acc.open
    <3>1. ASSUME NEW s \in Of(P \ ToSet(acc.txs), a) PROVE Nonce[t] <= Nonce[s]
      <4>1. s \in ToSet(queue) /\ s \notin D
        BY <1>3, <2>4, <2>9, <3>1 DEF Of
      <4>2. PICK j \in 1 .. n : s = queue[j]
        BY <1>2, <4>1
      <4>3. ~ (j < i)
        <5>1. j < i => j \in 1 .. (i - 1)
          BY <1>2
        <5> QED BY <2>1, <4>1, <4>2, <5>1 DEF FirstOf
      <4>4. CASE i < j
        BY <1>2, <2>1, <4>2, <4>4 DEF Rising
      <4>5. CASE i = j
        <5>1. Nonce[t] \in Nat
          BY <2>3, LedgerAssumption
        <5> QED BY <2>1, <4>2, <4>5, <5>1
      <4> QED BY <1>2, <4>3, <4>4, <4>5
    <3>2. Fits(r[i], P, l)
      <4>1. \A s \in Of(P \ ToSet(acc.txs), From[t]) : Nonce[t] <= Nonce[s]
        BY <2>7, <3>1
      <4>2. Fits(Load(acc, t), P, l)
        BY <2>4, <2>6, <2>7, <4>1, LoadFits
      <4> QED BY <2>5, <4>2
    <3>3. CASE acc.bytes + InBlock(t) <= BlockLimit
      <4>1. r[i].txs = Append(acc.txs, t)
        BY <2>5, <2>9, <3>3 DEF Load
      <4>2. ToSet(r[i].txs) = ToSet(acc.txs) \cup {t}
        <5>1. acc.txs \in Lines
          BY <2>4 DEF Fits
        <5> QED BY <2>3, <2>6, <4>1, <5>1, LineLonger
      <4>3. Good(i)
        BY <2>3, <2>4, <2>9, <3>2, <4>2
      <4> HIDE DEF Good
      <4> QED BY <1>5, <2>2, <4>3
    <3>4. CASE ~ (acc.bytes + InBlock(t) <= BlockLimit)
      <4>1. r[i] = [acc EXCEPT !.open = FALSE]
        BY <2>5, <3>4 DEF Load
      <4>2. r[i].txs = acc.txs /\ r[i].open = FALSE
        BY <2>4, <4>1 DEF Loading
      <4>3. Good(i)
        BY <2>3, <2>4, <3>2, <4>2
      <4> HIDE DEF Good
      <4> QED BY <1>5, <2>2, <4>3
    <3> QED BY <3>3, <3>4
  <2> QED BY <2>4, <2>8, <2>9 DEF Loading
<1>8. Good(n)
  <2> HIDE DEF Good
  <2>1. \A i \in 0 .. n : i \in G
    BY <1>2, <1>6, <1>7, UpTo
  <2>2. n \in 0 .. n
    BY <1>2
  <2> QED BY <1>5, <2>1, <2>2
<1>9. PICK q : q = PackGroup(packed, queue)
  OBVIOUS
<1>10. q.txs = r[n].txs /\ q.bytes = r[n].bytes
  BY <1>4, <1>9, PackGroupLoads
<1>11. FirstOf(queue, n) = ToSet(queue)
  BY <1>1, <1>2, FirstEnds
<1>12. Fits(q, P, l) /\ ToSet(q.txs) \subseteq before \cup ToSet(queue)
  BY <1>8, <1>10, <1>11 DEF Fits
<1> QED BY <1>1, <1>9, <1>12

\* and all of them, one after the other.
LEMMA QueuesFit ==
  ASSUME TRUE \in Calms, NEW l \in LedgerType, NEW P, Due(P, l),
         NEW queues \in Seq(Queues(P)), Apart(queues)
  PROVE  Fits(Packed(queues), P, l)
<1>1. PICK n \in Nat : n = Len(queues) /\ DOMAIN queues = 1 .. n
  OBVIOUS
<1>2. queues \in Seq(Lines) /\ \A i \in 1 .. n : queues[i] \in Queues(P)
  <2>1. Queues(P) \subseteq Lines
    BY DEF Queues
  <2> QED BY <1>1, <2>1
<1>3. PICK r \in [0 .. n -> Parcel] :
        /\ r[0] = [txs |-> << >>, bytes |-> 0] /\ r[n] = Packed(queues)
        /\ \A i \in 1 .. n : r[i] = PackGroup(r[i - 1], queues[i])
  BY <1>1, <1>2, PackedRuns
<1>4. PICK G : G = {i \in 0 .. n : /\ Fits(r[i], P, l)
                                   /\ \A t \in ToSet(r[i].txs) :
                                        \E j \in 1 .. i : t \in ToSet(queues[j])}
  OBVIOUS
<1>5. 0 \in G
  <2>1. r[0].txs = << >> /\ r[0].bytes = 0 /\ << >> \in Lines /\ ToSet(<< >>) = {}
    BY <1>3, NoLine
  <2>2. SumOver(Weights, {}) = 0 /\ BlockLimit \in Nat
    BY SumOfNone, ProducerAssumption
  <2>3. ApplyTxs(<< >>, l).ok
    <3>1. PICK none : none = << >>
      OBVIOUS
    <3>2. none \in Seq(Tx) /\ Len(none) = 0
      BY <3>1
    <3>3. PICK q \in [0 .. Len(none) -> Acc] :
            q[0] = [ok |-> TRUE, l |-> l] /\ q[Len(none)] = ApplyTxs(none, l)
      BY <3>2, ApplyTxsRuns
    <3> QED BY <3>1, <3>2, <3>3
  <2>4. Fits(r[0], P, l)
    BY <2>1, <2>2, <2>3 DEF Fits
  <2>5. 0 \in 0 .. n
    OBVIOUS
  <2> QED BY <1>4, <2>1, <2>4, <2>5
<1>6. ASSUME NEW i \in 1 .. n, i - 1 \in G PROVE i \in G
  <2>1. PICK p, g, q : p = r[i - 1] /\ g = queues[i] /\ q = r[i]
    OBVIOUS
  <2>2. i \in 0 .. n /\ i - 1 \in 0 .. n /\ g \in Queues(P)
    BY <1>2, <2>1
  <2>3. /\ p \in Parcel /\ Fits(p, P, l)
        /\ \A t \in ToSet(p.txs) : \E j \in 1 .. (i - 1) : t \in ToSet(queues[j])
    BY <1>3, <1>4, <1>6, <2>1, <2>2
  <2>4. \A j \in 1 .. (i - 1) : ToSet(queues[j]) \cap ToSet(g) = {}
    <3> TAKE j \in 1 .. (i - 1)
    <3>1. j \in DOMAIN queues /\ i \in DOMAIN queues /\ j # i
      BY <1>1
    <3> QED BY <2>1, <3>1 DEF Apart
  <2>5. ToSet(p.txs) \cap ToSet(g) = {}
    BY <2>3, <2>4
  <2>6. q = PackGroup(p, g)
    BY <1>3, <2>1
  <2>7. Fits(q, P, l) /\ ToSet(q.txs) \subseteq ToSet(p.txs) \cup ToSet(g)
    BY <2>2, <2>3, <2>5, <2>6, QueueFits
  <2>8. \A t \in ToSet(q.txs) : \E j \in 1 .. i : t \in ToSet(queues[j])
    <3>1. i \in 1 .. i /\ \A j \in 1 .. (i - 1) : j \in 1 .. i
      OBVIOUS
    <3> QED BY <2>1, <2>3, <2>7, <3>1
  <2> QED BY <1>4, <2>1, <2>2, <2>7, <2>8
<1>7. n \in G
  <2>1. \A i \in 0 .. n : i \in G
    BY <1>5, <1>6, UpTo
  <2> QED BY <2>1
<1> QED BY <1>3, <1>4, <1>7

Weight(txs) == FoldLeft(LAMBDA n, t : n + InBlock(t), ProofSize, txs)

\* The size validate finds.
WeightFold(g, txs) ==
  g = [S \in SUBSET DOMAIN txs |->
         IF S = {} THEN ProofSize
         ELSE LET x == Max(S) IN g[S \ {x}] + InBlock(txs[x])]

LEMMA WeightIsFold ==
  ASSUME NEW txs
  PROVE  Weight(txs) = (CHOOSE g : WeightFold(g, txs))[DOMAIN txs]
BY DEF Weight, FoldLeft, MapThenFoldSet, WeightFold

LEMMA WeightRuns ==
  ASSUME NEW txs \in Seq(Tx)
  PROVE  \E r \in [0 .. Len(txs) -> Nat] :
           /\ r[0] = ProofSize /\ r[Len(txs)] = Weight(txs)
           /\ \A i \in 1 .. Len(txs) : r[i] = r[i - 1] + InBlock(txs[i])
<1>1. PICK X, b : X = Nat /\ b = ProofSize
  OBVIOUS
<1>2. PICK F : F = [p \in X \X Tx |-> p[1] + InBlock(p[2])]
  OBVIOUS
<1>3. ASSUME NEW a \in X, NEW y \in Tx
      PROVE  F[<<a, y>>] = a + InBlock(y) /\ F[<<a, y>>] \in X
  <2>1. a + InBlock(y) \in X
    BY <1>1, ProducerAssumption DEF InBlock
  <2> QED BY <1>2, <2>1
<1>4. b \in X /\ F \in [X \X Tx -> X]
  <2>1. b \in X
    BY <1>1, ProducerAssumption
  <2>2. \A p \in X \X Tx : p[1] + InBlock(p[2]) \in X
    BY <1>2, <1>3
  <2> QED BY <1>2, <2>1, <2>2
<1>5. PICK g : g = CHOOSE h : WeightFold(h, txs)
  OBVIOUS
<1>6. WeightFold(g, txs)
  <2>1. PICK h : Computes(h, F, b, txs, X, Tx)
    BY <1>4, FoldComputes
  <2>2. ASSUME NEW S \in SUBSET DOMAIN txs, S # {}
        PROVE  h[S] = h[S \ {Max(S)}] + InBlock(txs[Max(S)])
    <3>1. /\ h[S \ {Max(S)}] \in X /\ txs[Max(S)] \in Tx
          /\ h[S] = F[<<h[S \ {Max(S)}], txs[Max(S)]>>]
      BY <2>1, <2>2 DEF Computes
    <3> QED BY <1>3, <3>1
  <2>3. WeightFold(h, txs)
    BY <1>1, <2>1, <2>2 DEF Computes, WeightFold
  <2> QED BY <1>5, <2>3
<1>7. RunsTo(F, b, txs, X, Weight(txs))
  <2>1. g[{}] = b
    BY <1>1, <1>6 DEF WeightFold
  <2>2. ASSUME NEW S \in SUBSET DOMAIN txs, S # {},
               g[S \ {Max(S)}] \in X, txs[Max(S)] \in Tx
        PROVE  g[S] = F[<<g[S \ {Max(S)}], txs[Max(S)]>>]
    <3>1. g[S] = g[S \ {Max(S)}] + InBlock(txs[Max(S)])
      BY <1>6, <2>2 DEF WeightFold
    <3> QED BY <1>3, <2>2, <3>1
  <2>3. RunsTo(F, b, txs, X, g[DOMAIN txs])
    BY <1>4, <2>1, <2>2, FoldGoes
  <2> QED BY <1>5, <2>3, WeightIsFold
<1>8. PICK r \in [0 .. Len(txs) -> X] : Runs(r, F, b, txs) /\ r[Len(txs)] = Weight(txs)
  BY <1>7 DEF RunsTo
<1>9. ASSUME NEW i \in 1 .. Len(txs)
      PROVE  r[i] = r[i - 1] + InBlock(txs[i])
  <2>1. i - 1 \in 0 .. Len(txs) /\ txs[i] \in Tx
    OBVIOUS
  <2>2. r[i - 1] \in X
    BY <2>1
  <2> QED BY <1>3, <1>8, <2>1, <2>2 DEF Runs
<1> QED BY <1>1, <1>8, <1>9 DEF Runs

LEMMA WeightSum ==
  ASSUME TRUE \in Calms, NEW txs \in Lines, ToSet(txs) \subseteq CalmTxs
  PROVE  Weight(txs) = ProofSize + SumOver(Weights, ToSet(txs))
<1>1. PICK n \in Nat : n = Len(txs)
  BY DEF Lines
<1>2. PICK r \in [0 .. n -> Nat] :
        /\ r[0] = ProofSize /\ r[n] = Weight(txs)
        /\ \A i \in 1 .. n : r[i] = r[i - 1] + InBlock(txs[i])
  BY <1>1, WeightRuns DEF Lines
<1>3. PICK G : G = {i \in 0 .. n : r[i] = ProofSize + SumOver(Weights, FirstOf(txs, i))}
  OBVIOUS
<1>4. 0 \in G
  <2>1. FirstOf(txs, 0) = {} /\ SumOver(Weights, {}) = 0 /\ ProofSize \in Nat
    BY FirstEnds, SumOfNone, ProducerAssumption
  <2>2. 0 \in 0 .. n
    OBVIOUS
  <2>3. SumOver(Weights, FirstOf(txs, 0)) = 0
    BY <2>1
  <2>4. r[0] = ProofSize + SumOver(Weights, FirstOf(txs, 0))
    BY <1>2, <2>1, <2>3
  <2> QED BY <1>3, <2>2, <2>4
<1>5. ASSUME NEW i \in 1 .. n, i - 1 \in G PROVE i \in G
  <2>1. PICK f, y, U : f = FirstOf(txs, i - 1) /\ y = txs[i] /\ U = f \cup {y}
    OBVIOUS
  <2>2. y \in Tx /\ y \notin f /\ FirstOf(txs, i) = U /\ i \in 0 .. n
    BY <1>1, <2>1, FirstGrows
  <2>3. U \subseteq ToSet(txs)
    <3>1. \A j \in 1 .. i : j \in DOMAIN txs
      BY <1>1 DEF Lines
    <3> QED BY <2>2, <3>1 DEF FirstOf, ToSet
  <2>4. U \in SUBSET CalmTxs /\ f \in SUBSET CalmTxs /\ y \in U /\ U \ {y} = f
    BY <2>1, <2>2, <2>3
  <2>5. IsFiniteSet(U) /\ \A t \in U : Weights[t] \in Nat
    BY <2>4, CalmCosts
  <2>6. \A t \in U : Weights[t] \in Int
    BY <2>5
  <2>7. SumOver(Weights, U) = Weights[y] + SumOver(Weights, f)
    BY <2>4, <2>5, <2>6, SumWithout
  <2>8. SumOver(Weights, f) \in Nat /\ Weights[y] \in Nat /\ ProofSize \in Nat
    BY <2>4, <2>5, CalmCosts, ProducerAssumption
  <2>9. r[i] = r[i - 1] + Weights[y] /\ r[i - 1] = ProofSize + SumOver(Weights, f)
    <3>1. Weights[y] = InBlock(y)
      BY <2>2 DEF Weights, InBlock
    <3> QED BY <1>2, <1>3, <1>5, <2>1, <3>1
  <2>10. r[i] = ProofSize + SumOver(Weights, U)
    BY <2>7, <2>8, <2>9
  <2> QED BY <1>3, <2>2, <2>10
<1>6. n \in G
  <2>1. \A i \in 0 .. n : i \in G
    BY <1>4, <1>5, UpTo
  <2> QED BY <2>1
<1> QED BY <1>1, <1>2, <1>3, <1>6, FirstEnds

\* What the node would publish is valid, and comes from the pool.
LEMMA CandidateValid ==
  ASSUME TRUE \in Calms, ledger \in LedgerType, pool \in Lines, Due(ToSet(pool), ledger)
  PROVE  BlockValid(Candidate, ledger) /\ Candidate.txs \in Seq(CalmTxs)
<1>1. PICK P, floor : P = ToSet(pool) /\ floor = BoardFeeFloor(ledger.posts)
  OBVIOUS
<1>2. P \in SUBSET CalmTxs /\ P \cap Board = {}
  BY <1>1, CalmWorld DEF Due
<1>3. PICK offered : offered = Offered(pool, floor)
  OBVIOUS
<1>4. offered \in Lines /\ ToSet(offered) = P
  <2>1. PICK low : low = {t \in Board : Fee[t] < floor}
    OBVIOUS
  <2>2. offered = Only(pool, ToSet(pool) \ low)
    BY <1>3, <2>1 DEF Offered, Without
  <2>3. offered \in Lines /\ ToSet(offered) = ToSet(pool) \cap (ToSet(pool) \ low)
    BY <2>2, OnlyKeeps
  <2>4. P \ low = P
    BY <1>2, <2>1
  <2> QED BY <1>1, <2>3, <2>4
<1>5. PICK packed : packed = Packed(Groups(offered))
  OBVIOUS
<1>6. Fits(packed, P, ledger)
  <2>1. Groups(offered) \in Seq(Queues(P)) /\ Apart(Groups(offered))
    BY <1>4, GroupsApart
  <2> QED BY <1>1, <1>5, <2>1, QueuesFit
<1>7. Candidate.txs = packed.txs
  BY <1>1, <1>3, <1>5 DEF Candidate, Assembled, Packed
<1>8. PICK txs : txs = packed.txs
  OBVIOUS
<1>9. /\ txs \in Lines /\ ToSet(txs) \in SUBSET CalmTxs /\ ApplyTxs(txs, ledger).ok
      /\ SumOver(Weights, ToSet(txs)) <= BlockLimit
  BY <1>2, <1>6, <1>8 DEF Fits
<1>10. Weight(txs) <= BlockLimit
  <2>1. SumOver(Weights, ToSet(txs)) + ProofSize <= BlockLimit
    BY <1>9, CalmWorld
  <2>2. SumOver(Weights, ToSet(txs)) \in Nat /\ ProofSize \in Nat
    BY <1>9, CalmCosts, ProducerAssumption
  <2>3. Weight(txs) = ProofSize + SumOver(Weights, ToSet(txs))
    BY <1>9, WeightSum
  <2> QED BY <2>1, <2>2, <2>3
<1>11. txs \in Seq(Tx) /\ txs \in Seq(CalmTxs)
  <2>1. txs \in Seq(Tx) /\ DOMAIN txs = 1 .. Len(txs) /\ \A i \in 1 .. Len(txs) : txs[i] \in CalmTxs
    BY <1>9 DEF Lines, ToSet
  <2> QED BY <2>1
<1> QED BY <1>7, <1>8, <1>9, <1>10, <1>11 DEF BlockValid, Weight

-----------------------------------------------------------------------------
(* The invariant of a calm world *)

CalmInv ==
  /\ PoolInv
  /\ calm => Due(ToSet(pool), ledger)

LEMMA CalmFacts ==
  ASSUME CalmInv, calm
  PROVE  /\ TRUE \in Calms /\ ledger \in LedgerType /\ pool \in Lines /\ pool \in Pool
         /\ Due(ToSet(pool), ledger) /\ ToSet(pool) \subseteq CalmTxs
         /\ Wallets[calm] = CalmTxs
<1>1. calm = TRUE
  BY ProducerAssumption DEF CalmInv, PoolInv
<1>2. TRUE \in Calms /\ Wallets[calm] = CalmTxs
  BY <1>1 DEF CalmInv, PoolInv, CalmTxs
<1>3. ledger \in LedgerType
  BY LedgerSound DEF CalmInv, PoolInv, Sound
<1> QED BY <1>2, <1>3 DEF CalmInv, PoolInv, Pool, Due

LEMMA CalmStart == ProducerInit => CalmInv
<1> SUFFICES ASSUME ProducerInit PROVE CalmInv
  OBVIOUS
<1>1. PoolInv
  BY PoolStart
<1>2. ledger \in LedgerType
  BY <1>1, LedgerSound DEF PoolInv, Sound
<1>3. ToSet(pool) = {}
  BY NoLine DEF ProducerInit
<1>4. ASSUME NEW a \in Addr
      PROVE  /\ \E k \in Nat : {Nonce[t] : t \in Of({}, a)} = (ledger.nonce[a] + 1) .. (ledger.nonce[a] + k)
             /\ SumOver(Costs, Of({}, a)) <= ledger.bal[a]
  <2>1. PICK n : n = ledger.nonce[a]
    OBVIOUS
  <2>2. n \in Nat /\ ledger.bal[a] \in Nat
    BY <1>2, <2>1 DEF LedgerType
  <2>3. Of({}, a) = {}
    BY DEF Of
  <2>4. (n + 1) .. (n + 0) = {}
    BY <2>2
  <2>5. SumOver(Costs, {}) = 0
    BY SumOfNone
  <2> QED BY <2>1, <2>2, <2>3, <2>4, <2>5
<1>5. Due({}, ledger)
  BY <1>4 DEF Due
<1> QED BY <1>1, <1>3, <1>5 DEF CalmInv

\* A block of transactions of that world takes nothing from what is due.
LEMMA CommitCalm ==
  ASSUME CalmInv, calm, NEW b \in Block, b.txs \in Seq(CalmTxs),
         ApplyTxs(b.txs, ledger).ok, Commit(b)
  PROVE  Due(ToSet(pool'), ledger')
<1>1. ledger' = AfterBlock(b, ledger)
  BY GrowLedger DEF CalmInv, PoolInv, Commit
<1>2. ToSet(pool') = ToSet(pool) \ ToSet(b.txs)
  BY WithoutSet DEF CalmInv, PoolInv, Commit
<1> QED BY <1>1, <1>2, CalmFacts, DueBlock

LEMMA SubmitCalm ==
  ASSUME CalmInv, calm, NEW t \in Wallets[calm], Submit(t)
  PROVE  Due(ToSet(pool'), ledger')
<1>1. ledger' = ledger
  BY DEF Submit, ledger
<1>2. CASE pool' = pool
  BY <1>1, <1>2, CalmFacts
<1>3. CASE pool' # pool
  <2>1. ValidTx(t, Probe(From[t]), BoardFeeFloor(ledger.posts)) /\ pool' = Add(pool, t)
    BY <1>3 DEF Submit
  <2>2. t \in CalmTxs
    BY CalmFacts
  <2>3. t \notin ToSet(pool) /\ ToSet(pool') = ToSet(pool) \cup {t}
    BY <1>3, <2>1, <2>2, CalmFacts, AddCalm
  <2>4. Due(ToSet(pool) \cup {t}, ledger)
    BY <2>1, <2>2, <2>3, CalmFacts, DueMore
  <2> QED BY <1>1, <2>3, <2>4
<1> QED BY <1>2, <1>3

\* Nothing that is due is stale.
LEMMA StartCycleCalm ==
  ASSUME CalmInv, calm, StartCycle(0)
  PROVE  Due(ToSet(pool'), ledger')
<1>1. ledger' = ledger
  BY DEF StartCycle, ledger
<1>2. PICK stale : stale = {t \in ToSet(pool) : Nonce[t] <= ledger.nonce[From[t]]}
  OBVIOUS
<1>3. stale = {}
  <2> SUFFICES ASSUME NEW t \in ToSet(pool), Nonce[t] <= ledger.nonce[From[t]] PROVE FALSE
    BY <1>2
  <2>1. PICK a, n : a = From[t] /\ n = ledger.nonce[a]
    OBVIOUS
  <2>2. a \in Addr /\ Nonce[t] \in Nat
    <3>1. ToSet(pool) \in SUBSET CalmTxs /\ TRUE \in Calms
      BY CalmFacts
    <3> QED BY <2>1, <3>1, CalmCosts
  <2>3. n \in Nat
    BY <2>1, <2>2, CalmFacts DEF LedgerType
  <2>4. PICK k \in Nat : {Nonce[s] : s \in Of(ToSet(pool), a)} = (n + 1) .. (n + k)
    BY <2>1, <2>2, CalmFacts DEF Due
  <2>5. Nonce[t] \in (n + 1) .. (n + k)
    BY <2>1, <2>4 DEF Of
  <2> QED BY <2>1, <2>2, <2>3, <2>5
<1>4. pool' = Without(pool, {pool[i] : i \in 1 .. 0} \cup stale)
  BY <1>2 DEF StartCycle, Pruned
<1>5. {pool[i] : i \in 1 .. 0} \cup stale = {}
  BY <1>3
<1>6. ToSet(pool') = ToSet(pool) \ {}
  BY <1>4, <1>5, CalmFacts, WithoutSet
<1> QED BY <1>1, <1>6, CalmFacts

LEMMA ProduceCalm ==
  ASSUME CalmInv, calm, Produce
  PROVE  Due(ToSet(pool'), ledger')
<1>1. BlockValid(Candidate, ledger) /\ Candidate.txs \in Seq(CalmTxs)
  BY CalmFacts, CandidateValid
<1>2. Candidate \in Block /\ ApplyTxs(Candidate.txs, ledger).ok
  BY <1>1, OwnBlock
<1>3. Commit(Candidate)
  BY <1>1 DEF Produce
<1> QED BY <1>1, <1>2, <1>3, CommitCalm

LEMMA PeerBlockCalm ==
  ASSUME CalmInv, calm, PeerBlock
  PROVE  Due(ToSet(pool'), ledger')
<1>1. PICK b \in PeerBlocks(ledger) : Commit(b)
  BY DEF PeerBlock
<1>2. b \in Block /\ ApplyTxs(b.txs, ledger).ok
  BY OthersBlock
<1>3. b.txs \in Seq(CalmTxs)
  <2>1. b.txs \in TxLists
    BY DEF PeerBlocks
  <2>2. PICK n \in 0 .. MaxTxs : b.txs \in [1 .. n -> Wallets[calm]]
    BY <2>1 DEF TxLists
  <2>3. MaxTxs \in Nat
    BY ProducerAssumption
  <2>4. Wallets[calm] = CalmTxs
    BY CalmFacts
  <2>5. n \in Nat /\ b.txs \in [1 .. n -> CalmTxs]
    BY <2>2, <2>3, <2>4
  <2> QED BY <2>5
<1> QED BY <1>1, <1>2, <1>3, CommitCalm

LEMMA CalmStep == CalmInv /\ [ProducerNext]_producerVars => CalmInv'
<1> SUFFICES ASSUME CalmInv, [ProducerNext]_producerVars PROVE CalmInv'
  OBVIOUS
<1>1. PoolInv'
  BY PoolStep DEF CalmInv
<1>2. calm' = calm
  BY DEF ProducerNext, producerVars, Submit, StartCycle, Produce, PeerBlock, Reorganise, RejectFork
<1>3. ASSUME calm PROVE Due(ToSet(pool'), ledger')
  <2>1. ASSUME NEW t \in Wallets[calm], Submit(t) PROVE Due(ToSet(pool'), ledger')
    BY <1>3, <2>1, SubmitCalm
  <2>2. CASE StartCycle(0)
    BY <1>3, <2>2, StartCycleCalm
  <2>3. CASE Produce
    BY <1>3, <2>3, ProduceCalm
  <2>4. CASE PeerBlock
    BY <1>3, <2>4, PeerBlockCalm
  <2>5. CASE UNCHANGED producerVars
    <3>1. pool' = pool /\ ledger' = ledger
      BY <2>5 DEF producerVars, ledger
    <3> QED BY <1>3, <3>1, CalmFacts
  <2> QED BY <1>3, <2>1, <2>2, <2>3, <2>4, <2>5 DEF ProducerNext
<1> QED BY <1>1, <1>2, <1>3 DEF CalmInv

\* A block this node builds is valid, whatever competes for the space in it, as
\* long as nothing expires and no branch comes up.
THEOREM OwnBlockValidAlways == ProducerSpec => []OwnBlockValid
<1>1. ASSUME CalmInv PROVE OwnBlockValid
  BY <1>1, CalmFacts, CandidateValid DEF OwnBlockValid
<1> QED BY <1>1, CalmStart, CalmStep, PTL DEF ProducerSpec

\* Every sender can pay for all it has pending, so the probe goes through.
THEOREM ProbesPassAlways == ProducerSpec => []ProbesPass
<1>1. ASSUME CalmInv PROVE ProbesPass
  <2> SUFFICES ASSUME calm, NEW a \in Addr, ProbeRaises(a) PROVE FALSE
    BY DEF ProbesPass
  <2>1. PendingCost(pool, a) > ledger.bal[a]
    BY DEF ProbeRaises
  <2>2. PendingCost(pool, a) = SumOver(Costs, Of(ToSet(pool), a))
    BY <1>1, CalmFacts, PendingCostSum
  <2>3. SumOver(Costs, Of(ToSet(pool), a)) <= ledger.bal[a] /\ ledger.bal[a] \in Nat
    BY <1>1, CalmFacts DEF Due, LedgerType
  <2>4. SumOver(Costs, Of(ToSet(pool), a)) \in Nat
    <3>1. Of(ToSet(pool), a) \in SUBSET CalmTxs /\ TRUE \in Calms
      BY <1>1, CalmFacts DEF Of
    <3> QED BY <3>1, CalmCosts
  <2> QED BY <2>1, <2>2, <2>3, <2>4
<1> QED BY <1>1, CalmStart, CalmStep, PTL DEF ProducerSpec

-----------------------------------------------------------------------------
(* Gossip: the inductive invariant, and what its operators make of types *)

GossipInv == GossipTypeOK /\ HeldIsFlooded

\* Datagrams of a node to some of the nodes are messages.
LEMMA DatagramsAreMessages ==
  ASSUME NEW n \in Node, NEW peers \in SUBSET Node, NEW stem \in BOOLEAN
  PROVE  Datagrams(n, peers, stem) \subseteq Message
BY DEF Datagrams, Message

\* A flood adds messages and marks the node.
LEMMA FluffTypes ==
  ASSUME GossipTypeOK, NEW n \in Node, NEW exclude,
         NEW rest \in SUBSET Message, Fluff(n, exclude, rest)
  PROVE  /\ mail' \subseteq Message
         /\ cache' \subseteq flooded' /\ flooded' = flooded \cup {n}
<1>1. Peers(n) \ {exclude} \in SUBSET Node
  BY DEF Peers
<1>2. Datagrams(n, Peers(n) \ {exclude}, FALSE) \subseteq Message
  BY <1>1, DatagramsAreMessages
<1> QED BY <1>2 DEF Fluff, GossipTypeOK

\* One hop of the walk adds a message, or is a flood.
LEMMA ForwardTypes ==
  ASSUME GossipTypeOK, NEW n \in Node, NEW next, NEW predecessor,
         next \in Hops(n, predecessor),
         NEW rest \in SUBSET Message, Forward(n, next, rest)
  PROVE  /\ mail' \subseteq Message
         /\ cache' \subseteq flooded'
         /\ flooded' = IF next = NoPeer THEN flooded \cup {n} ELSE flooded
<1>1. CASE next = NoPeer
  BY <1>1, FluffTypes DEF Forward
<1>2. CASE next # NoPeer
  <2>1. {next} \in SUBSET Node
    BY <1>2 DEF Hops, Peers
  <2>2. Datagrams(n, {next}, TRUE) \subseteq Message
    BY <2>1, DatagramsAreMessages
  <2> QED BY <1>2, <2>2 DEF Forward, GossipTypeOK
<1> QED BY <1>1, <1>2

\* A relayed message goes on as a message; that it went public is remembered.
LEMMA RelayTypes ==
  ASSUME GossipTypeOK, NEW m \in Message, NEW next,
         next \in IF m.stem THEN Hops(m.to, m.from) ELSE {NoPeer},
         NEW rest \in SUBSET Message, Relay(m, next, rest)
  PROVE  /\ mail' \subseteq Message
         /\ cache' \subseteq flooded'
         /\ flooded \subseteq flooded' /\ flooded' \subseteq Node
         /\ WentPublic(m, next) => m.to \in flooded'
<1>1. m.to \in Node /\ m.stem \in BOOLEAN
  BY DEF Message
<1>2. CASE m.stem
  BY <1>1, <1>2, ForwardTypes DEF Relay, WentPublic, GossipTypeOK
<1>3. CASE ~ m.stem
  BY <1>1, <1>3, FluffTypes DEF Relay, WentPublic, GossipTypeOK
<1> QED BY <1>2, <1>3

\* The item is originated.
LEMMA OriginateKeeps ==
  ASSUME GossipInv, NEW next \in Node \cup {NoPeer}, Originate(next)
  PROVE  GossipInv'
<1> USE GossipAssumption
<1>1. /\ mail' \subseteq Message /\ cache' \subseteq flooded'
      /\ flooded' \subseteq Node
  BY ForwardTypes DEF Originate, GossipInv, GossipTypeOK
<1>2. got' = {Origin} /\ UNCHANGED <<peering, place, gone, lapses>>
  BY DEF Originate
<1>3. GossipTypeOK'
  BY <1>1, <1>2 DEF GossipInv, GossipTypeOK, Originate, peering
<1> QED BY <1>2, <1>3 DEF GossipInv, HeldIsFlooded

\* The echo did not come.
LEMMA RetryKeeps ==
  ASSUME GossipInv, Retry
  PROVE  GossipInv'
<1> USE GossipAssumption
<1>1. Peers(Origin) \in SUBSET Node
  BY DEF Peers
<1>2. Datagrams(Origin, Peers(Origin), FALSE) \subseteq Message
  BY <1>1, DatagramsAreMessages
<1> QED BY <1>2 DEF GossipInv, GossipTypeOK, HeldIsFlooded, Retry, peering

\* A message arrives.
LEMMA ReceiveKeeps ==
  ASSUME GossipInv, NEW m \in mail, NEW next \in Node \cup {NoPeer}, Receive(m, next)
  PROVE  GossipInv'
<1> DEFINE rest == mail \ {m}
<1>1. /\ m \in Message /\ m.to \in Node /\ rest \in SUBSET Message
      /\ next \in IF m.stem THEN Hops(m.to, m.from) ELSE {NoPeer}
  BY DEF GossipInv, GossipTypeOK, Message, Receive
<1>2. UNCHANGED <<peering, spread, target, gone, lapses>>
  BY DEF Receive
<1>3. CASE InboundTx(m, next, rest)
  <2>1. CASE m.to \in refuses \cup got
    BY <1>1, <1>2, <1>3, <2>1 DEF InboundTx, Ignore, GossipInv, GossipTypeOK, HeldIsFlooded, peering
  <2>2. CASE m.to \notin refuses \cup got
    <3>1. /\ NoteEcho(m) /\ Relay(m, next, rest) /\ UNCHANGED place
          /\ got' = IF WentPublic(m, next) THEN got \cup {m.to} ELSE got
      BY <1>3, <2>2 DEF InboundTx
    <3>2. /\ mail' \subseteq Message /\ cache' \subseteq flooded'
          /\ flooded \subseteq flooded' /\ flooded' \subseteq Node
          /\ WentPublic(m, next) => m.to \in flooded'
      BY <1>1, <3>1, RelayTypes DEF GossipInv
    <3>3. GossipTypeOK'
      BY <1>1, <1>2, <3>1, <3>2 DEF GossipInv, GossipTypeOK, NoteEcho, peering
    <3> QED BY <1>2, <3>1, <3>2, <3>3 DEF GossipInv, HeldIsFlooded, peering
  <2> QED BY <2>1, <2>2
<1>4. CASE InboundOrder(m, next, rest)
  <2>1. CASE m.to \in refuses
    BY <1>1, <1>2, <1>4, <2>1 DEF InboundOrder, NoteEcho, GossipInv, GossipTypeOK, HeldIsFlooded, peering
  <2>2. CASE m.to \notin refuses
    <3>1. /\ NoteEcho(m) /\ Relay(m, next, rest) /\ UNCHANGED place
          /\ got' = got \cup {m.to} /\ kind = "order"
      BY <1>4, <2>2 DEF InboundOrder
    <3>2. /\ mail' \subseteq Message /\ cache' \subseteq flooded' /\ flooded' \subseteq Node
      BY <1>1, <3>1, RelayTypes DEF GossipInv
    <3> QED BY <1>1, <1>2, <3>1, <3>2 DEF GossipInv, GossipTypeOK, HeldIsFlooded, NoteEcho, peering
  <2> QED BY <2>1, <2>2
<1>5. CASE InboundBlock(m, next, rest)
  <2>1. CASE m.to \in refuses \/ place[m.to] = "past"
    BY <1>1, <1>2, <1>5, <2>1 DEF InboundBlock, Ignore, GossipInv, GossipTypeOK, HeldIsFlooded, peering
  <2>2. CASE ~ (m.to \in refuses \/ place[m.to] = "past")
    <3>1. /\ Relay(m, next, rest) /\ UNCHANGED place
          /\ got' = got \cup {m.to} /\ kind = "block"
          /\ waiting' \in BOOLEAN
      BY <1>5, <2>2 DEF InboundBlock, NoteEcho, GossipInv, GossipTypeOK
    <3>2. /\ mail' \subseteq Message /\ cache' \subseteq flooded' /\ flooded' \subseteq Node
      BY <1>1, <3>1, RelayTypes DEF GossipInv
    <3> QED BY <1>1, <1>2, <3>1, <3>2 DEF GossipInv, GossipTypeOK, HeldIsFlooded, peering
  <2> QED BY <2>1, <2>2
<1> QED BY <1>3, <1>4, <1>5 DEF Receive

\* Blocks move on, datagrams are lost, caches forget.
LEMMA WorldKeeps ==
  ASSUME GossipInv, \/ \E m \in mail : LoseMail(m)
                    \/ \E n \in Node : Settle(n) \/ Overtake(n) \/ Forget(n)
  PROVE  GossipInv'
<1> USE GossipAssumption
<1>1. ASSUME NEW m \in mail, LoseMail(m) PROVE GossipInv'
  BY <1>1 DEF GossipInv, GossipTypeOK, HeldIsFlooded, LoseMail, Fault, peering
<1>2. ASSUME NEW n \in Node, Settle(n) PROVE GossipInv'
  BY <1>2 DEF GossipInv, GossipTypeOK, HeldIsFlooded, Settle, peering
<1>3. ASSUME NEW n \in Node, Overtake(n) PROVE GossipInv'
  BY <1>3 DEF GossipInv, GossipTypeOK, HeldIsFlooded, Overtake, Fault, peering
<1>4. ASSUME NEW n \in Node, Forget(n) PROVE GossipInv'
  BY <1>4 DEF GossipInv, GossipTypeOK, HeldIsFlooded, Forget, Fault, peering
<1> QED BY <1>1, <1>2, <1>3, <1>4

-----------------------------------------------------------------------------
\* The invariant holds at the start and in every step.
LEMMA GossipStart ==
  ASSUME GossipInit
  PROVE  GossipInv
<1>1. place \in [Node -> {"next", "tip", "past"}]
  BY DEF GossipInit
<1>2. lapses \in 0..MaxLapses
  BY GossipAssumption DEF GossipInit
<1> QED BY <1>1, <1>2, GossipAssumption DEF GossipInit, GossipInv, GossipTypeOK, HeldIsFlooded

LEMMA GossipStep ==
  ASSUME GossipInv, [GossipNext]_gossipVars
  PROVE  GossipInv'
<1>1. CASE UNCHANGED gossipVars
  BY <1>1 DEF GossipInv, GossipTypeOK, HeldIsFlooded, gossipVars, peering
<1>2. ASSUME NEW next \in Node \cup {NoPeer}, Originate(next) PROVE GossipInv'
  BY <1>2, OriginateKeeps
<1>3. ASSUME NEW m \in mail, NEW next \in Node \cup {NoPeer}, Receive(m, next)
      PROVE  GossipInv'
  BY <1>3, ReceiveKeeps
<1> QED BY <1>1, <1>2, <1>3, RetryKeeps, WorldKeeps DEF GossipNext

\* Type correctness of the spreading of an item.
THEOREM GossipTypes ==
  GossipSpec => []GossipTypeOK
<1>1. GossipInit => GossipInv
  BY GossipStart
<1>2. GossipInv /\ [GossipNext]_gossipVars => GossipInv'
  BY GossipStep
<1>3. GossipInv => GossipTypeOK
  BY DEF GossipInv
<1> QED BY <1>1, <1>2, <1>3, PTL DEF GossipSpec

\* Whatever the peerings, whoever refuses it and whatever is lost: a node that
\* keeps somebody else's transaction has put it before all it knows.
THEOREM HeldIsFloodedEver ==
  GossipSpec => []HeldIsFlooded
<1>1. GossipInit => GossipInv
  BY GossipStart
<1>2. GossipInv /\ [GossipNext]_gossipVars => GossipInv'
  BY GossipStep
<1>3. GossipInv => HeldIsFlooded
  BY DEF GossipInv
<1> QED BY <1>1, <1>2, <1>3, PTL DEF GossipSpec

-----------------------------------------------------------------------------
(* Link *)

USE LinkAssumption DEF Jobs

\* What of a message is in the receiver's hands.
There(j, part) ==
  \/ j \in Push /\ (j \in seen \/ part \subseteq Holding(j))
  \/ j \in Ask /\ (open[j] = None \/ part \subseteq open[j].has)

SenderShape ==
  /\ tasks \in [Jobs -> Int] /\ confirming \in Ask \cup {None}
  /\ sends \in [Jobs -> [body : Body, acked : SUBSET Nat] \cup {None}]
  /\ \A m \in Push : sends[m] # None => sends[m].body = Carries[m]
  /\ \A w \in waits : /\ w = [job |-> w.job, nr |-> w.nr, of |-> w.of, round |-> w.round]
                      /\ w.job \in Jobs
                      /\ w.job \in Push => w.of = Chunks[Carries[w.job]]

DatagramShape(d) ==
  /\ d.job \in Jobs
  /\ d.kind \in {"ask", "ping", "pong"} => d.job \in Ask
  /\ d.kind = "chunk" => /\ d.body \in Body /\ d.idx \in 1..Chunks[d.body]
                         /\ d.job \in Push => d.body = Carries[d.job] /\ d.of = Chunks[d.body]
  /\ d.kind = "ack" => d.held \in SUBSET Nat

NetShape == \A d \in net : DatagramShape(d)

ReceiverShape ==
  /\ partial \in [Push -> (SUBSET Nat) \cup {None}]
  /\ \A m \in Push : Holding(m) \subseteq 1..Chunks[Carries[m]]
  /\ seen \subseteq Push /\ handed \in [Push -> Nat]
  /\ open \in [Ask -> [has : SUBSET Nat, done : BOOLEAN] \cup {None}]

Shape == SenderShape /\ NetShape /\ ReceiverShape

\* A msg_id is seen as soon as its message is handed up.
Once == \A m \in Push : handed[m] = IF m \in seen THEN 1 ELSE 0

\* A record has somebody who will drop it.
Waited == \A j \in Jobs : sends[j] # None => \E w \in waits : w.job = j

\* Nothing is known of a request that is still to come.
Fresh ==
  \A q \in Ask \cap ahead :
    /\ tasks[q] = 0 /\ sends[q] = None
    /\ \A w \in waits : w.job # q
    /\ \A d \in net : d.job # q

\* An acknowledgement under way is true.
AcksTrue == \A d \in net : d.kind = "ack" => There(d.job, d.held)

\* So is what was acknowledged.
AckedThere == \A j \in Jobs : sends[j] # None => There(j, sends[j].acked)

IInv == Shape /\ Once /\ Waited /\ Fresh /\ AcksTrue /\ AckedThere

-----------------------------------------------------------------------------
(* What the steps have in common *)

\* A payload has a number of chunks.
LEMMA ChunkCount == \A b \in Body : Chunks[b] \in Nat /\ Chunks[b] > 0
OBVIOUS

\* What the receiver holds does not get less when it takes something.
LEMMA ThereStays ==
  ASSUME NEW j, NEW part, There(j, part),
         seen \subseteq seen',
         j \in Push => j \in seen' \/ Holding(j) \subseteq Holding(j)',
         j \in Ask => \/ open[j]' = None
                      \/ open[j] # None /\ open[j].has \subseteq open[j].has'
  PROVE  There(j, part)'
BY DEF There

\* A step that leaves the receiver alone.
LEMMA ThereSame ==
  ASSUME UNCHANGED receiver, NEW j, NEW part
  PROVE  There(j, part)' <=> There(j, part)
BY DEF There, Holding, receiver

\* Sending a payload in chunks.
LEMMA Sending ==
  ASSUME IInv, NEW j \in Jobs, NEW b \in Body, j \in Push => b = Carries[j],
         SendChunked(j, b), j \notin Ask \cap ahead,
         ahead' \subseteq ahead, UNCHANGED <<receiver, confirming>>,
         tasks' \in [Jobs -> Int], \A q \in Ask \cap ahead : tasks'[q] = tasks[q]
  PROVE  IInv'
<1> DEFINE C == {Chunk(j, b, i, Chunks[b], <<NextSend(j), 0>>) : i \in 1..Chunks[b]}
           record == [body |-> b, acked |-> {}]
           w0 == [job |-> j, nr |-> NextSend(j), of |-> Chunks[b], round |-> 0]
<1>1. /\ net' = net \cup C
      /\ \A d \in C : /\ d.kind = "chunk" /\ d.job = j /\ d.body = b
                      /\ d.idx \in 1..Chunks[b] /\ d.of = Chunks[b]
  BY DEF SendChunked, Chunk
<1>2. \/ sends' = [sends EXCEPT ![j] = record] /\ waits' = waits \cup {w0}
      \/ UNCHANGED <<sends, waits>>
  BY DEF SendChunked
<1>3. record \in [body : Body, acked : SUBSET Nat]
  OBVIOUS
<1>4. SenderShape'
  BY <1>2, <1>3 DEF IInv, Shape, SenderShape
<1>5. NetShape'
  BY <1>1 DEF IInv, Shape, NetShape, DatagramShape
<1>6. ReceiverShape' /\ Once'
  BY DEF IInv, Shape, ReceiverShape, Once, Holding, receiver
<1>7. Waited'
  <2>1. w0.job = j
    OBVIOUS
  <2>2. \A k \in Jobs : k # j => sends'[k] = sends[k]
    BY <1>2 DEF IInv, Shape, SenderShape
  <2>3. CASE sends' = [sends EXCEPT ![j] = record] /\ waits' = waits \cup {w0}
    BY <2>1, <2>2, <2>3 DEF IInv, Waited
  <2>4. CASE UNCHANGED <<sends, waits>>
    BY <2>4 DEF IInv, Waited
  <2> QED BY <1>2, <2>3, <2>4
<1>8. Fresh'
  BY <1>1, <1>2 DEF IInv, Shape, SenderShape, Fresh
<1>9. AcksTrue'
  BY <1>1, ThereSame DEF IInv, AcksTrue
<1>10. AckedThere'
  <2> SUFFICES ASSUME NEW k \in Jobs, sends'[k] # None
               PROVE  There(k, sends'[k].acked)
    BY ThereSame DEF AckedThere
  <2>1. CASE sends'[k] = sends[k]
    BY <2>1 DEF IInv, AckedThere
  <2>2. CASE sends'[k] = record
    BY <2>2 DEF There
  <2> QED BY <1>2, <2>1, <2>2 DEF IInv, Shape, SenderShape
<1> QED BY <1>4, <1>5, <1>6, <1>7, <1>8, <1>9, <1>10 DEF IInv, Shape

\* A task more in the queue.
LEMMA Queued ==
  ASSUME SenderShape, NEW j \in Jobs, Queue(j)
  PROVE  /\ tasks' \in [Jobs -> Int]
         /\ \A k \in Jobs : k # j => tasks'[k] = tasks[k]
BY DEF SenderShape, Queue

-----------------------------------------------------------------------------
(* The sender's steps *)

\* A broadcast goes out, or has to queue.
LEMMA BroadcastKeeps ==
  ASSUME IInv, NEW m \in Push, Broadcast(m)
  PROVE  IInv'
<1>1. /\ ahead' \subseteq ahead /\ UNCHANGED <<receiver, confirming>>
      /\ m \notin Ask
  BY DEF Broadcast
<1>2. CASE Chunks[Carries[m]] = 1
  <2>1. SendChunked(m, Carries[m]) /\ UNCHANGED tasks
    BY <1>2 DEF Broadcast
  <2>2. Carries[m] \in Body /\ tasks' \in [Jobs -> Int]
    BY <2>1 DEF IInv, Shape, SenderShape
  <2> QED BY <1>1, <2>1, <2>2, Sending
<1>3. CASE Chunks[Carries[m]] # 1
  <2>1. Queue(m) /\ UNCHANGED <<sends, waits, net>>
    BY <1>3 DEF Broadcast
  <2>2. /\ tasks' \in [Jobs -> Int]
        /\ \A k \in Jobs : k # m => tasks'[k] = tasks[k]
    BY <2>1, Queued DEF IInv, Shape
  <2>3. Shape' /\ Once' /\ Waited'
    BY <1>1, <2>1, <2>2 DEF IInv, Shape, SenderShape, NetShape, DatagramShape,
       ReceiverShape, Once, Waited, Holding, receiver
  <2>4. Fresh'
    BY <1>1, <2>1, <2>2 DEF IInv, Fresh
  <2>5. AcksTrue' /\ AckedThere'
    BY <1>1, <2>1, ThereSame DEF IInv, AcksTrue, AckedThere
  <2> QED BY <2>3, <2>4, <2>5 DEF IInv
<1> QED BY <1>2, <1>3

\* A worker sends what was queued.
LEMMA WorkKeeps ==
  ASSUME IInv, NEW j \in Jobs, Work(j)
  PROVE  IInv'
<1>1. PICK b \in (IF j \in Push THEN {Carries[j]} ELSE Pages) : SendChunked(j, b)
  BY DEF Work
<1>2. b \in Body /\ (j \in Push => b = Carries[j])
  OBVIOUS
<1>3. /\ tasks[j] > 0 /\ tasks' = [tasks EXCEPT ![j] = @ - 1]
      /\ UNCHANGED <<ahead, receiver, confirming>>
  BY DEF Work
<1>4. j \notin Ask \cap ahead
  BY <1>3 DEF IInv, Fresh
<1>5. /\ tasks' \in [Jobs -> Int]
      /\ \A q \in Ask \cap ahead : tasks'[q] = tasks[q]
  BY <1>3, <1>4 DEF IInv, Shape, SenderShape
<1> QED BY <1>1, <1>2, <1>3, <1>4, <1>5, Sending

\* What is missing goes out again.
LEMMA ResendIsKept ==
  ASSUME IInv, NEW w \in waits, Resend(w)
  PROVE  IInv'
<1> DEFINE j == w.job
           C == {Chunk(j, sends[j].body, i, w.of, <<w.nr, w.round + 1>>) : i \in Missing(j)}
           w1 == [w EXCEPT !.round = @ + 1]
<1>1. /\ j \in Jobs /\ w1.job = j
      /\ w1 = [job |-> w1.job, nr |-> w1.nr, of |-> w1.of, round |-> w1.round] /\ w1.of = w.of
      /\ j \in Push => w.of = Chunks[Carries[j]]
  BY DEF IInv, Shape, SenderShape
<1>2. /\ sends[j] # None /\ net' = net \cup C
      /\ UNCHANGED <<ahead, tasks, confirming, receiver>>
  BY DEF Resend
<1>3. /\ sends[j].body \in Body /\ (j \in Push => sends[j].body = Carries[j])
      /\ Missing(j) \subseteq 1..Chunks[sends[j].body]
  BY <1>1, <1>2 DEF IInv, Shape, SenderShape, Missing
<1>4. /\ \A d \in C : d.kind = "chunk" /\ d.job = j /\ d.body = sends[j].body
                      /\ d.idx \in 1..Chunks[sends[j].body] /\ d.of = w.of
  BY <1>3 DEF Chunk
<1>5. \/ waits' = (waits \ {w}) \cup {w1} /\ UNCHANGED sends
      \/ waits' = waits \ {w} /\ sends' = [sends EXCEPT ![j] = None]
  BY DEF Resend
<1>6. SenderShape'
  BY <1>1, <1>2, <1>5 DEF IInv, Shape, SenderShape
<1>7. NetShape'
  BY <1>1, <1>2, <1>3, <1>4 DEF IInv, Shape, NetShape, DatagramShape
<1>8. ReceiverShape' /\ Once'
  BY <1>2 DEF IInv, Shape, ReceiverShape, Once, Holding, receiver
<1>9. Waited'
  <2>1. CASE waits' = (waits \ {w}) \cup {w1} /\ UNCHANGED sends
    BY <1>1, <2>1 DEF IInv, Waited
  <2>2. CASE waits' = waits \ {w} /\ sends' = [sends EXCEPT ![j] = None]
    BY <1>1, <2>2 DEF IInv, Waited, Shape, SenderShape
  <2> QED BY <1>5, <2>1, <2>2
<1>10. j \notin Ask \cap ahead
  BY <1>2 DEF IInv, Fresh
<1>11. Fresh'
  BY <1>1, <1>2, <1>4, <1>5, <1>10 DEF IInv, Fresh, Shape, SenderShape
<1>12. AcksTrue'
  BY <1>2, <1>4, ThereSame DEF IInv, AcksTrue
<1>13. AckedThere'
  BY <1>1, <1>2, <1>5, ThereSame DEF IInv, AckedThere, Shape, SenderShape
<1> QED BY <1>6, <1>7, <1>8, <1>9, <1>11, <1>12, <1>13 DEF IInv, Shape

\* A waiter is done.
LEMMA StopKeeps ==
  ASSUME IInv, NEW w \in waits, StopWaiting(w)
  PROVE  IInv'
<1>1. /\ w.job \in Jobs
      /\ sends' = [sends EXCEPT ![w.job] = None] /\ waits' = waits \ {w}
      /\ UNCHANGED <<ahead, tasks, confirming, net, receiver>>
  BY DEF IInv, Shape, SenderShape, StopWaiting
<1>2. Shape' /\ Once'
  BY <1>1 DEF IInv, Shape, SenderShape, NetShape, DatagramShape, ReceiverShape,
     Once, Holding, receiver
<1>3. Waited' /\ Fresh'
  BY <1>1 DEF IInv, Shape, SenderShape, Waited, Fresh
<1>4. AcksTrue' /\ AckedThere'
  BY <1>1, ThereSame DEF IInv, Shape, SenderShape, AcksTrue, AckedThere
<1> QED BY <1>2, <1>3, <1>4 DEF IInv

\* The asker does not answer the ping.
LEMMA ConfirmFailsKeeps ==
  ASSUME IInv, ConfirmFails
  PROVE  IInv'
<1>1. /\ confirming' = None
      /\ UNCHANGED <<ahead, tasks, sends, waits, net, receiver>>
  BY DEF ConfirmFails
<1>2. Shape' /\ Once' /\ Waited'
  BY <1>1 DEF IInv, Shape, SenderShape, NetShape, DatagramShape, ReceiverShape,
     Once, Holding, receiver, Waited
<1>3. Fresh'
  BY <1>1 DEF IInv, Fresh
<1>4. AcksTrue' /\ AckedThere'
  BY <1>1, ThereSame DEF IInv, AcksTrue, AckedThere
<1> QED BY <1>2, <1>3, <1>4 DEF IInv

-----------------------------------------------------------------------------
(* The receiver's steps *)

\* What is under way after something has arrived.
LEMMA Arrived ==
  ASSUME NEW d, NEW keep \in BOOLEAN, NEW out, Arrives(d, keep, out)
  PROVE  d \in net /\ net' \subseteq net \cup out
BY DEF Arrives

\* The node asks for a page.
LEMMA RequestKeeps ==
  ASSUME IInv, NEW q \in Ask, Request(q)
  PROVE  IInv'
<1> DEFINE empty == [has |-> {}, done |-> FALSE]
<1>1. /\ q \in ahead /\ ahead' = ahead \ {q}
      /\ open' = [open EXCEPT ![q] = empty]
      /\ net' = net \cup {Word("ask", q)}
      /\ UNCHANGED <<sender, partial, seen, handed>>
  BY DEF Request
<1>2. Word("ask", q).kind = "ask" /\ Word("ask", q).job = q
  BY DEF Word
<1>3. Shape'
  BY <1>1, <1>2 DEF IInv, Shape, SenderShape, NetShape, DatagramShape,
     ReceiverShape, Holding, sender
<1>4. Once' /\ Waited' /\ Fresh'
  BY <1>1, <1>2 DEF IInv, Once, Waited, Fresh, sender
<1>5. ASSUME NEW j \in Jobs, NEW part, There(j, part), j # q
      PROVE  There(j, part)'
  BY <1>1, <1>5 DEF There, Holding, IInv, Shape, ReceiverShape
<1>6. AcksTrue'
  BY <1>1, <1>2, <1>5 DEF IInv, AcksTrue, Fresh, Shape, NetShape, DatagramShape
<1>7. AckedThere'
  BY <1>1, <1>5 DEF IInv, AckedThere, Fresh, sender
<1> QED BY <1>3, <1>4, <1>6, <1>7 DEF IInv

\* A request is over.
LEMMA ReturnKeeps ==
  ASSUME IInv, NEW q \in Ask, Return(q)
  PROVE  IInv'
<1>1. /\ open' = [open EXCEPT ![q] = None]
      /\ UNCHANGED <<ahead, sender, net, partial, seen, handed>>
  BY DEF Return
<1>2. Shape'
  BY <1>1 DEF IInv, Shape, SenderShape, NetShape, DatagramShape,
     ReceiverShape, Holding, sender
<1>3. Once' /\ Waited' /\ Fresh'
  BY <1>1 DEF IInv, Once, Waited, Fresh, sender
<1>4. ASSUME NEW j \in Jobs, NEW part, There(j, part)
      PROVE  There(j, part)'
  BY <1>1, <1>4 DEF There, Holding, IInv, Shape, ReceiverShape
<1>5. AcksTrue' /\ AckedThere'
  BY <1>1, <1>4 DEF IInv, AcksTrue, AckedThere, sender, Shape, NetShape, DatagramShape
<1> QED BY <1>2, <1>3, <1>5 DEF IInv

\* Half messages are dropped: nobody waits for an acknowledgement then.
LEMMA EvictKeeps ==
  ASSUME IInv, Evict
  PROVE  IInv'
<1>1. /\ net = {} /\ waits = {} /\ partial' = [m \in Push |-> None]
      /\ UNCHANGED <<ahead, sender, net, seen, handed, open>>
  BY DEF Evict
<1>2. Shape'
  BY <1>1 DEF IInv, Shape, SenderShape, NetShape, ReceiverShape, Holding, sender
<1>3. Once' /\ Waited' /\ Fresh'
  BY <1>1 DEF IInv, Once, Waited, Fresh, sender
<1>4. AcksTrue' /\ AckedThere'
  BY <1>1 DEF IInv, Waited, AcksTrue, AckedThere, sender
<1> QED BY <1>2, <1>3, <1>4 DEF IInv

\* A chunk of a broadcast: it is held, refused, or completes the message.
LEMMA TakePushedKeeps ==
  ASSUME IInv, NEW d \in net, NEW keep \in BOOLEAN, TakePushed(d, keep)
  PROVE  IInv'
<1> DEFINE m == d.job
           of == d.of
           refused == of > 1 /\ Held + 1 > Room
           has == Holding(m) \cup {i \in {d.idx} : ~ refused}
           whole == has = 1..of
           out == {a \in {Ack(m, Listed(has, whole, of))} : ShouldAck(d.idx, of, whole)}
<1>1. /\ m \in Push /\ m \in Jobs /\ m \notin Ask
      /\ d.body \in Body /\ d.body = Carries[m] /\ of = Chunks[d.body] /\ d.idx \in 1..of
  BY DEF TakePushed, IInv, Shape, NetShape, DatagramShape
<1>2. /\ partial' = IF refused THEN partial
                    ELSE [partial EXCEPT ![m] = IF whole THEN None ELSE has]
      /\ Arrives(d, keep, out)
      /\ IF whole THEN HandUp(m) ELSE UNCHANGED <<seen, handed>>
      /\ UNCHANGED <<ahead, sender, open>>
  BY DEF TakePushed
<1>3. has \in SUBSET (1..of) /\ has # None /\ has \in SUBSET Nat
  <2>1. Holding(m) \subseteq 1..of
    BY <1>1 DEF IInv, Shape, ReceiverShape
  <2>2. has \in SUBSET (1..of)
    BY <1>1, <2>1
  <2>3. 1..of \subseteq Nat
    BY <1>1
  <2> QED BY <1>1, <2>2, <2>3
<1>4. /\ seen \subseteq seen' /\ seen' \subseteq Push
      /\ handed' \in [Push -> Nat] /\ Once'
  <2>1. CASE whole
    <3>1. HandUp(m)
      BY <1>2, <2>1
    <3> HIDE DEF whole, out, has, of, refused, m
    <3> QED BY <1>1, <3>1 DEF HandUp, IInv, Once, Shape, ReceiverShape
  <2>2. CASE ~ whole
    <3>1. UNCHANGED <<seen, handed>>
      BY <1>2, <2>2
    <3> HIDE DEF whole, out, has, of, refused, m
    <3> QED BY <3>1 DEF IInv, Once, Shape, ReceiverShape
  <2> QED BY <2>1, <2>2
<1>5. \A k \in Push : k # m => Holding(k)' = Holding(k)
  BY <1>1, <1>2 DEF Holding, IInv, Shape, ReceiverShape
<1>6. m \in seen' \/ Holding(m)' = has
  <2>1. CASE whole
    BY <1>2, <2>1 DEF HandUp
  <2>2. CASE ~ whole /\ refused
    BY <1>2, <2>2 DEF Holding
  <2>3. CASE ~ whole /\ ~ refused
    BY <1>1, <1>2, <1>3, <2>3 DEF Holding, IInv, Shape, ReceiverShape
  <2> QED BY <2>1, <2>2, <2>3
<1>7. ReceiverShape'
  <2>1. partial' \in [Push -> (SUBSET Nat) \cup {None}]
    BY <1>2, <1>3 DEF IInv, Shape, ReceiverShape
  <2>2. Holding(m)' \subseteq 1..of
    <3>1. CASE refused
      BY <1>1, <1>2, <3>1 DEF Holding, IInv, Shape, ReceiverShape
    <3>2. CASE ~ refused
      BY <1>1, <1>2, <1>3, <3>2 DEF Holding, IInv, Shape, ReceiverShape
    <3> QED BY <3>1, <3>2
  <2>3. \A k \in Push : Holding(k)' \subseteq 1..Chunks[Carries[k]]
    BY <1>1, <1>5, <2>2 DEF IInv, Shape, ReceiverShape
  <2> QED BY <1>2, <1>4, <2>1, <2>3 DEF IInv, Shape, ReceiverShape
<1>8. ASSUME NEW j \in Jobs, NEW part, There(j, part)
      PROVE  There(j, part)'
  BY <1>2, <1>4, <1>5, <1>6, <1>8 DEF There
<1>9. \A a \in out : /\ a.kind = "ack" /\ a.job = m /\ a.held \in SUBSET Nat
                     /\ There(m, a.held)'
  <2>1. Listed(has, whole, of) = has
    BY DEF Listed
  <2>2. \A a \in out : a.kind = "ack" /\ a.job = m /\ a.held = has
    BY <2>1 DEF Ack
  <2> HIDE DEF out
  <2> QED BY <1>1, <1>3, <1>6, <2>2 DEF There
<1>10. net' \subseteq net \cup out
  BY <1>2 DEF Arrives
<1>11. SenderShape' /\ NetShape'
  BY <1>1, <1>2, <1>9, <1>10 DEF IInv, Shape, SenderShape, NetShape, DatagramShape, sender
<1>12. Waited' /\ Fresh'
  <2>1. \A a \in net' : a \in net \/ a.job \notin Ask
    BY <1>1, <1>9, <1>10
  <2> QED BY <1>2, <2>1 DEF IInv, Waited, Fresh, sender
<1>13. AcksTrue'
  BY <1>8, <1>9, <1>10 DEF IInv, AcksTrue, Shape, NetShape, DatagramShape
<1>14. AckedThere'
  BY <1>2, <1>8 DEF IInv, AckedThere, sender
<1> QED BY <1>4, <1>7, <1>11, <1>12, <1>13, <1>14 DEF IInv, Shape

\* A chunk of an answer.
LEMMA TakeAnswerKeeps ==
  ASSUME IInv, NEW d \in net, NEW keep \in BOOLEAN, TakeAnswer(d, keep)
  PROVE  IInv'
<1> DEFINE q == d.job
           of == d.of
           fits == d.idx <= of
           has == open[q].has \cup {i \in {d.idx} : fits}
           done == open[q].done \/ (fits /\ has = 1..of)
           raises == fits /\ Cardinality(has) = of /\ has # 1..of
           out == {a \in {Ack(q, has)} : ~ raises /\ ShouldAck(d.idx, of, done)}
<1>1. /\ q \in Ask /\ q \in Jobs /\ q \notin Push
      /\ d.body \in Body /\ d.idx \in Nat
  BY DEF TakeAnswer, IInv, Shape, NetShape, DatagramShape
<1>2. UNCHANGED <<ahead, sender, partial, seen, handed>>
  BY DEF TakeAnswer
<1>3. \/ Arrives(d, keep, {}) /\ UNCHANGED open
      \/ /\ open[q] # None
         /\ open' = [open EXCEPT ![q] = [has |-> has, done |-> done]]
         /\ Arrives(d, keep, out)
  BY DEF TakeAnswer
<1>4. net' \subseteq net \cup out
  BY <1>3 DEF Arrives
<1>5. \A a \in out : a.kind = "ack" /\ a.job = q /\ a.held = has
  BY DEF Ack
<1>6. CASE Arrives(d, keep, {}) /\ UNCHANGED open
  <2>1. net' \subseteq net
    BY <1>6, Arrived
  <2>2. ASSUME NEW j \in Jobs, NEW part, There(j, part)
        PROVE  There(j, part)'
    BY <1>2, <1>6, <2>2 DEF There, Holding
  <2>3. Shape' /\ Once' /\ Waited' /\ Fresh'
    BY <1>2, <1>6, <2>1 DEF IInv, Shape, SenderShape, NetShape, DatagramShape,
       ReceiverShape, Holding, Once, Waited, Fresh, sender
  <2>4. AcksTrue' /\ AckedThere'
    BY <1>2, <2>1, <2>2 DEF IInv, AcksTrue, AckedThere, sender, Shape, NetShape, DatagramShape
  <2> QED BY <2>3, <2>4 DEF IInv
<1>7. CASE /\ open[q] # None
           /\ open' = [open EXCEPT ![q] = [has |-> has, done |-> done]]
  <2>1. open[q] \in [has : SUBSET Nat, done : BOOLEAN]
    BY <1>1, <1>7 DEF IInv, Shape, ReceiverShape
  <2>2. [has |-> has, done |-> done] \in [has : SUBSET Nat, done : BOOLEAN]
    BY <1>1, <2>1
  <2>3. ReceiverShape'
    BY <1>2, <1>7, <2>2 DEF IInv, Shape, ReceiverShape, Holding
  <2>4. open[q]'.has = has
    BY <1>1, <1>7 DEF IInv, Shape, ReceiverShape
  <2>5. ASSUME NEW j \in Jobs, NEW part, There(j, part)
        PROVE  There(j, part)'
    <3>1. CASE j = q
      BY <1>1, <1>7, <2>4, <2>5, <3>1 DEF There
    <3>2. CASE j # q
      BY <1>2, <1>7, <2>5, <3>2 DEF There, Holding, IInv, Shape, ReceiverShape
    <3> QED BY <3>1, <3>2
  <2>6. ASSUME NEW part, part = has PROVE There(q, part)'
    BY <1>1, <2>4, <2>6 DEF There
  <2>7. SenderShape' /\ NetShape'
    BY <1>1, <1>2, <1>4, <1>5, <2>2 DEF IInv, Shape, SenderShape, NetShape,
       DatagramShape, sender
  <2>8. Once' /\ Waited' /\ Fresh'
    BY <1>2, <1>4, <1>5 DEF IInv, Once, Waited, Fresh, sender
  <2>9. AcksTrue'
    <3> SUFFICES ASSUME NEW a \in net', a.kind = "ack"
                 PROVE  There(a.job, a.held)'
      BY DEF AcksTrue
    <3>1. CASE a \in net
      BY <2>5, <3>1 DEF IInv, AcksTrue, Shape, NetShape, DatagramShape
    <3>2. CASE a \in out
      BY <1>5, <2>6, <3>2
    <3> QED BY <1>4, <3>1, <3>2
  <2>10. AckedThere'
    BY <1>2, <2>5 DEF IInv, AckedThere, sender
  <2> QED BY <2>3, <2>7, <2>8, <2>9, <2>10 DEF IInv, Shape
<1> QED BY <1>3, <1>6, <1>7

\* Something arrives that is no chunk: the receiver stays as it is.
LEMMA OtherArrives ==
  ASSUME IInv, NEW d \in net, NEW keep \in BOOLEAN, NEW out,
         Arrives(d, keep, out), UNCHANGED <<ahead, receiver>>,
         \A a \in out : a.kind \in {"ping", "pong"} /\ a.job = d.job /\ d.job \in Ask
  PROVE  /\ NetShape' /\ ReceiverShape' /\ Once' /\ AcksTrue'
         /\ \A a \in net' : \E b \in net : a.job = b.job
<1>1. net' \subseteq net \cup out
  BY Arrived
<1>2. \A a \in out : a.kind # "ack" /\ a.kind # "chunk"
  OBVIOUS
<1>3. NetShape'
  BY <1>1, <1>2 DEF IInv, Shape, NetShape, DatagramShape
<1>4. ReceiverShape' /\ Once'
  BY DEF IInv, Shape, ReceiverShape, Holding, Once, receiver
<1>5. AcksTrue'
  BY <1>1, <1>2, ThereSame DEF IInv, AcksTrue
<1> QED BY <1>1, <1>3, <1>4, <1>5

\* A record with other chunks acknowledged.
LEMMA OtherAcked ==
  ASSUME NEW s \in [body : Body, acked : SUBSET Nat], NEW held
  PROVE  [s EXCEPT !.acked = held] = [body |-> s.body, acked |-> held]
OBVIOUS

\* A ping, an acknowledgement, a request, or the answer to a ping.
LEMMA TakeOtherKeeps ==
  ASSUME IInv, NEW d \in net, NEW keep \in BOOLEAN,
         TakePing(d, keep) \/ TakeAck(d, keep) \/ TakeRequest(d, keep) \/ TakePong(d, keep)
  PROVE  IInv'
<1>1. d.job \in Jobs /\ (d.kind \in {"ask", "ping", "pong"} => d.job \in Ask)
  BY DEF IInv, Shape, NetShape, DatagramShape
<1>2. d.job \notin Ask \cap ahead
  BY DEF IInv, Fresh
<1>3. ASSUME TakePing(d, keep) PROVE IInv'
  <2>1. /\ d.kind = "ping" /\ UNCHANGED <<ahead, sender, receiver>>
        /\ Arrives(d, keep, {Word("pong", d.job)})
    BY <1>3 DEF TakePing
  <2>2. Word("pong", d.job).kind = "pong" /\ Word("pong", d.job).job = d.job
    BY DEF Word
  <2>3. /\ NetShape' /\ ReceiverShape' /\ Once' /\ AcksTrue'
        /\ \A a \in net' : \E b \in net : a.job = b.job
    BY <1>1, <2>1, <2>2, OtherArrives
  <2>4. SenderShape' /\ Waited' /\ Fresh'
    BY <2>1, <2>3 DEF IInv, Shape, SenderShape, Waited, Fresh, sender
  <2>5. AckedThere'
    BY <2>1, ThereSame DEF IInv, AckedThere, sender
  <2> QED BY <2>3, <2>4, <2>5 DEF IInv, Shape
<1>4. ASSUME TakeAck(d, keep) PROVE IInv'
  <2>1. /\ d.kind = "ack" /\ Arrives(d, keep, {})
        /\ UNCHANGED <<ahead, tasks, waits, confirming, receiver>>
        /\ sends' = IF sends[d.job] = None THEN sends
                    ELSE [sends EXCEPT ![d.job].acked = @ \cup d.held]
    BY <1>4 DEF TakeAck
  <2>2. /\ NetShape' /\ ReceiverShape' /\ Once' /\ AcksTrue'
        /\ \A a \in net' : \E b \in net : a.job = b.job
    BY <2>1, OtherArrives
  <2>3. d.held \in SUBSET Nat /\ There(d.job, d.held)
    BY <2>1 DEF IInv, Shape, NetShape, DatagramShape, AcksTrue
  <2>4. CASE sends[d.job] = None
    <3>1. SenderShape' /\ Waited' /\ Fresh'
      BY <2>1, <2>2, <2>4 DEF IInv, Shape, SenderShape, Waited, Fresh
    <3>2. AckedThere'
      BY <2>1, <2>4, ThereSame DEF IInv, AckedThere
    <3> QED BY <2>2, <3>1, <3>2 DEF IInv, Shape
  <2>5. CASE sends[d.job] # None
    <3> DEFINE s == sends[d.job]
               more == [body |-> s.body, acked |-> s.acked \cup d.held]
    <3>1. s \in [body : Body, acked : SUBSET Nat]
      BY <1>1, <2>5 DEF IInv, Shape, SenderShape
    <3>2. sends' = [sends EXCEPT ![d.job] = more]
      <4>1. [s EXCEPT !.acked = @ \cup d.held] = more
        BY <3>1, OtherAcked
      <4>2. sends' = [sends EXCEPT ![d.job] = [s EXCEPT !.acked = @ \cup d.held]]
        BY <2>1, <2>5
      <4> QED BY <4>1, <4>2
    <3>3. more \in [body : Body, acked : SUBSET Nat]
      BY <2>3, <3>1
    <3>4. SenderShape'
      BY <1>1, <2>1, <2>5, <3>1, <3>2, <3>3 DEF IInv, Shape, SenderShape
    <3>5. Waited' /\ Fresh'
      BY <1>1, <1>2, <2>1, <2>2, <2>5, <3>2 DEF IInv, Shape, SenderShape, Waited, Fresh
    <3>6. There(d.job, s.acked)
      BY <1>1, <2>5 DEF IInv, AckedThere
    <3>7. There(d.job, s.acked \cup d.held)
      BY <2>3, <3>6 DEF There
    <3>8. AckedThere'
      <4> SUFFICES ASSUME NEW k \in Jobs, sends'[k] # None
                   PROVE  There(k, sends'[k].acked)
        BY <2>1, ThereSame DEF AckedThere
      <4>1. CASE k = d.job
        BY <3>2, <3>7, <4>1 DEF IInv, Shape, SenderShape
      <4>2. CASE k # d.job
        BY <3>2, <4>2 DEF IInv, Shape, SenderShape, AckedThere
      <4> QED BY <4>1, <4>2
    <3> QED BY <2>2, <3>4, <3>5, <3>8 DEF IInv, Shape
  <2> QED BY <2>4, <2>5
<1>5. ASSUME TakeRequest(d, keep) \/ TakePong(d, keep) PROVE IInv'
  <2> DEFINE out == {p \in {Word("ping", d.job)} : confirming = None}
  <2>1. /\ d.job \in Ask
        /\ UNCHANGED <<ahead, sends, waits, receiver>>
        /\ confirming' \in {confirming, d.job, None}
        /\ Queue(d.job) \/ UNCHANGED tasks
        /\ Arrives(d, keep, {}) \/ Arrives(d, keep, out)
    BY <1>1, <1>5 DEF TakeRequest, TakePong
  <2>2. \A a \in out : a.kind = "ping" /\ a.job = d.job
    BY DEF Word
  <2>3. /\ NetShape' /\ ReceiverShape' /\ Once' /\ AcksTrue'
        /\ \A a \in net' : \E b \in net : a.job = b.job
    <3>1. CASE Arrives(d, keep, {})
      BY <2>1, <3>1, OtherArrives
    <3>2. CASE Arrives(d, keep, out)
      BY <2>1, <2>2, <3>2, OtherArrives
    <3> QED BY <2>1, <3>1, <3>2
  <2>4. /\ tasks' \in [Jobs -> Int]
        /\ \A k \in Jobs : k # d.job => tasks'[k] = tasks[k]
    BY <1>1, <2>1, Queued DEF IInv, Shape, SenderShape
  <2>5. SenderShape'
    BY <2>1, <2>4 DEF IInv, Shape, SenderShape
  <2>6. Waited' /\ Fresh'
    BY <1>2, <2>1, <2>3, <2>4 DEF IInv, Waited, Fresh
  <2>7. AckedThere'
    BY <2>1, ThereSame DEF IInv, AckedThere
  <2> QED BY <2>3, <2>5, <2>6, <2>7 DEF IInv, Shape
<1> QED BY <1>3, <1>4, <1>5

\* A datagram is lost.
LEMMA LoseKeeps ==
  ASSUME IInv, NEW d \in net, Lose(d)
  PROVE  IInv'
<1>1. net' = net \ {d} /\ UNCHANGED <<ahead, sender, receiver>>
  BY DEF Lose
<1>2. Shape' /\ Once' /\ Waited' /\ Fresh'
  BY <1>1 DEF IInv, Shape, SenderShape, NetShape, DatagramShape, ReceiverShape,
     Holding, Once, Waited, Fresh, sender, receiver
<1>3. AcksTrue' /\ AckedThere'
  BY <1>1, ThereSame DEF IInv, AcksTrue, AckedThere, sender
<1> QED BY <1>2, <1>3 DEF IInv

-----------------------------------------------------------------------------
(* The theorems *)

\* It holds at the start.
LEMMA IInvInit == Init => IInv
<1> SUFFICES ASSUME Init PROVE IInv
  OBVIOUS
<1>1. Shape
  BY DEF Init, Shape, SenderShape, NetShape, ReceiverShape, Holding
<1>2. Once /\ Waited /\ Fresh /\ AcksTrue /\ AckedThere
  BY DEF Init, Once, Waited, Fresh, AcksTrue, AckedThere
<1> QED BY <1>1, <1>2 DEF IInv

\* Every step keeps it.
LEMMA IInvStep == IInv /\ [Next]_vars => IInv'
<1> SUFFICES ASSUME IInv, [Next]_vars PROVE IInv'
  OBVIOUS
<1>1. CASE UNCHANGED vars
  <2>1. UNCHANGED <<ahead, sender, net, receiver>>
    BY <1>1 DEF vars
  <2>2. Shape' /\ Once' /\ Waited' /\ Fresh'
    BY <2>1 DEF IInv, Shape, SenderShape, NetShape, DatagramShape, ReceiverShape,
       Holding, Once, Waited, Fresh, sender, receiver
  <2>3. AcksTrue' /\ AckedThere'
    BY <2>1, ThereSame DEF IInv, AcksTrue, AckedThere, sender
  <2> QED BY <2>2, <2>3 DEF IInv
<1>2. CASE Next
  <2>1. CASE \/ \E m \in Push : Broadcast(m)
             \/ \E q \in Ask : Request(q) \/ Return(q)
             \/ \E j \in Jobs : Work(j)
    BY <2>1, BroadcastKeeps, RequestKeeps, ReturnKeeps, WorkKeeps
  <2>2. CASE \/ \E w \in waits : Resend(w) \/ StopWaiting(w)
             \/ ConfirmFails \/ Evict
    BY <2>2, ResendIsKept, StopKeeps, ConfirmFailsKeeps, EvictKeeps
  <2>3. CASE \E d \in net : Lose(d) \/ (\E keep \in BOOLEAN : Take(d, keep))
    BY <2>3, LoseKeeps, TakePushedKeeps, TakeAnswerKeeps, TakeOtherKeeps DEF Take
  <2> QED BY <1>2, <2>1, <2>2, <2>3 DEF Next
<1> QED BY <1>1, <1>2

\* Whatever is lost, doubled or overtaken, and however often it is resent: the
\* node gets a broadcast once at most.
THEOREM HandedOnceEver == Spec => []HandedOnce
<1>1. IInv => HandedOnce
  BY DEF IInv, Once, HandedOnce, Shape, ReceiverShape
<1> QED BY <1>1, IInvInit, IInvStep, PTL DEF Spec

\* A chunk that is acknowledged, and so not sent again, is with the receiver.
THEOREM AckedIsThereEver == Spec => []AckedIsThere
<1>1. IInv => AckedIsThere
  BY DEF IInv, AckedThere, There, AckedIsThere
<1> QED BY <1>1, IInvInit, IInvStep, PTL DEF Spec
=============================================================================
