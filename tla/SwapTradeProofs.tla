--------------------------- MODULE SwapTradeProofs ---------------------------
(***************************************************************************)
(* Type correctness of SwapTrade, that settled is final, the bound on what *)
(* an honest trader risks, and that no step is paid twice, for every       *)
(* number of steps, depth and bound and for every counterparty.            *)
(***************************************************************************)
EXTENDS SwapTrade, Numbers, TLAPS

USE SwapAssumption DEF Traders, Peer

Busy == {"find", "resend", "consumed", "build", "submit", "after"}

\* The peer has paid step m on a ledger that will not take it back.
PaidFor(t, m) ==
    \E s \in 1 .. MaxSeq : Confirmed(Peer(t), [step |-> m, seq |-> s])

\* A row that says settled is right.
SettledIsFinal ==
    \A t \in Traders : Honest(t) => \A n \in 1 .. Steps :
        /\ rows[t][n].out = "SETTLED" => Confirmed(t, [step |-> n, seq |-> rows[t][n].hash])
        /\ rows[t][n].in # 0 => Confirmed(Peer(t), [step |-> n, seq |-> rows[t][n].in])

\* Exposure, with payments that are final in the place of payments on a ledger.
ExposureFinal ==
    \A t \in Traders : Honest(t) => \A n \in Sent(t) :
        \A m \in 1 .. n : (m < n \/ ~MovesFirst(t, n)) => PaidFor(t, m)

\* A worker in a pass has a step to work on, and may send on it.
BusyOnStep ==
    \A t \in Traders : Honest(t) /\ pc[t] \in Busy =>
        /\ Open(t) # {}
        /\ MaySend(t, Current(t), rows[t][Current(t)])
        /\ pc[t] \in {"resend", "consumed", "submit"} => rows[t][Current(t)].env # 0

\* What of an honest seller is on the chain has been published by him.
ChainGossiped == Honest("seller") => Applied("seller") \subseteq gossiped

IInv == TypeOK /\ SettledIsFinal /\ ExposureFinal /\ BusyOnStep /\ ChainGossiped

-----------------------------------------------------------------------------
(* The operators *)

\* The highest sequence number of a set of payments bounds it and, unless 0, is in it.
LEMMA HighestSeqIs ==
    ASSUME NEW S, S \subseteq Payment
    PROVE  /\ HighestSeq(S) \in 0 .. MaxSeq
           /\ \A p \in S : p.seq <= HighestSeq(S)
           /\ HighestSeq(S) # 0 => \E p \in S : p.seq = HighestSeq(S)
<1> DEFINE T == {p.seq : p \in S} \cup {0}
<1>1. T \subseteq 0 .. MaxSeq /\ T # {}
  BY DEF Payment
<1>2. Max(T) \in T /\ \A y \in T : y <= Max(T)
  BY <1>1, MaxIsGreatest
<1>3. HighestSeq(S) = Max(T)
  BY DEF HighestSeq
<1> HIDE DEF T
<1>4. Max(T) # 0 => \E p \in S : p.seq = Max(T)
  BY <1>2 DEF T
<1>5. \A p \in S : p.seq \in T
  BY DEF T
<1> QED BY <1>1, <1>2, <1>3, <1>4, <1>5

\* What a ledger holds are payments.
LEMMA AppliedType ==
    ASSUME TypeOK, NEW t \in Traders
    PROVE  Applied(t) \subseteq Payment
BY DEF TypeOK, Applied, Plain, Payment

\* A trader's last sequence number is within its bound.
LEMMA LastSeqType ==
    ASSUME TypeOK, NEW t \in Traders
    PROVE  LastSeq(t) \in 0 .. MaxSeq
BY AppliedType, HighestSeqIs DEF LastSeq

\* The next nonce is positive, and past the bound by one at most.
LEMMA NextNonceType ==
    ASSUME TypeOK
    PROVE  NextNonce \in 1 .. MaxSeq + 1
<1>1. pool \subseteq Payment
  BY DEF TypeOK
<1>2. {LastSeq("seller"), HighestSeq(pool)} \subseteq 0 .. MaxSeq
  BY <1>1, HighestSeqIs, LastSeqType
<1>3. Max({LastSeq("seller"), HighestSeq(pool)}) \in 0 .. MaxSeq
  BY <1>2, MaxIsGreatest
<1> QED BY <1>3 DEF NextNonce

\* A search finds a sequence number, or 0.
LEMMA FoundType ==
    ASSUME TypeOK, NEW t \in Traders, NEW n \in 1 .. Steps
    PROVE  Found(t, n) \in 0 .. MaxSeq
BY AppliedType, HighestSeqIs DEF Found

\* find_payment sees payments of the ledger; all of them, for a careful trader.
LEMMA FindSees ==
    ASSUME TypeOK, NEW t \in Traders, Find(t)
    PROVE  \E seen \in SUBSET Applied(t) :
             /\ FindIn(t, seen) /\ (t = "buyer" \/ calm => seen = Applied(t))
             /\ faults' \in 0 .. MaxFaults
<1>1. CASE FindIn(t, Applied(t)) /\ UNCHANGED faults
  BY <1>1 DEF TypeOK
<1>2. CASE /\ ~calm /\ t = "seller" /\ Fault
           /\ FindIn(t, {Plain(x) : x \in {y \in chain : y.depth > 1}})
  <2>1. {Plain(x) : x \in {y \in chain : y.depth > 1}} \subseteq Applied(t)
    BY <1>2 DEF Applied
  <2>2. faults' \in 0 .. MaxFaults
    BY <1>2 DEF Fault, TypeOK
  <2> QED BY <1>2, <2>1, <2>2
<1> QED BY <1>1, <1>2 DEF Find

\* What is confirmed is on the ledger, and found.
LEMMA ConfirmedIsApplied ==
    ASSUME TypeOK, NEW t \in Traders, NEW p, Confirmed(t, p)
    PROVE  p \in Applied(t)
BY DEF Confirmed, Applied, Traders

\* A step that is paid for is found paid.
LEMMA ConfirmedIsFound ==
    ASSUME TypeOK, NEW t \in Traders, NEW n \in 1 .. Steps, PaidFor(t, n)
    PROVE  Found(Peer(t), n) # 0
<1>1. PICK s \in 1 .. MaxSeq : Confirmed(Peer(t), [step |-> n, seq |-> s])
  BY DEF PaidFor
<1> DEFINE S == {p \in Applied(Peer(t)) : p.step = n}
<1>2. [step |-> n, seq |-> s] \in S
  BY <1>1, ConfirmedIsApplied
<1>3. S \subseteq Payment
  BY AppliedType
<1>4. s <= HighestSeq(S)
  <2> HIDE DEF S
  <2> QED BY <1>2, <1>3, HighestSeqIs
<1> QED BY <1>4, <1>3, HighestSeqIs DEF Found

\* A row is one, and right in what it says is settled.
OutRight(t, n, r) == r.out = "SETTLED" => Confirmed(t, [step |-> n, seq |-> r.hash])
InRight(t, n, r) == r.in # 0 => Confirmed(Peer(t), [step |-> n, seq |-> r.in])
RowRight(t, n, r) == r \in Row /\ OutRight(t, n, r) /\ InRight(t, n, r)

\* Looking up the own leg makes a row right about it.
LEMMA CheckOutboundRight ==
    ASSUME TypeOK, NEW t \in Traders, NEW n \in 1 .. Steps, NEW r \in Row,
           InRight(t, n, r), r.hash # 0 \/ OutRight(t, n, r)
    PROVE  LET c == CheckOutbound(t, n, r)
           IN  /\ RowRight(t, n, c)
               /\ c.in = r.in /\ c.env = r.env /\ c.hash = r.hash
BY DEF CheckOutbound, Row, RowRight, OutRight, InRight

\* Looking up the peer's leg makes it right about that one.
LEMMA CheckInboundRight ==
    ASSUME TypeOK, NEW t \in Traders, NEW n \in 1 .. Steps, NEW r \in Row,
           OutRight(t, n, r)
    PROVE  LET c == CheckInbound(t, n, r)
           IN  /\ RowRight(t, n, c)
               /\ c.out = r.out /\ c.env = r.env /\ c.hash = r.hash
<1>1. Found(Peer(t), n) \in 0 .. MaxSeq
  BY FoundType
<1> QED BY <1>1 DEF CheckInbound, Row, RowRight, OutRight, InRight

\* The looks before ensure_sent keep a row right.
LEMMA BeforeRight ==
    ASSUME TypeOK, NEW t \in Traders, NEW n \in 1 .. Steps, NEW r, RowRight(t, n, r)
    PROVE  RowRight(t, n, Before(t, n, r))
<1>1. CASE MovesFirst(t, n)
  BY <1>1, CheckOutboundRight DEF Before, RowRight
<1>2. CASE ~MovesFirst(t, n)
  <2> DEFINE c == CheckInbound(t, n, r)
  <2>1. RowRight(t, n, c)
    BY CheckInboundRight DEF RowRight
  <2> HIDE DEF c
  <2>2. RowRight(t, n, CheckOutbound(t, n, c))
    BY <2>1, CheckOutboundRight DEF RowRight
  <2> QED BY <1>2, <2>1, <2>2 DEF Before, c
<1> QED BY <1>1, <1>2

\* So do those after it, of a row with a payment to look up.
LEMMA AfterRight ==
    ASSUME TypeOK, NEW t \in Traders, NEW n \in 1 .. Steps, NEW r \in Row,
           InRight(t, n, r), r.hash # 0 \/ OutRight(t, n, r)
    PROVE  RowRight(t, n, After(t, n, r))
<1> DEFINE c == CheckOutbound(t, n, r)
<1>1. RowRight(t, n, c)
  BY CheckOutboundRight
<1> HIDE DEF c
<1>2. RowRight(t, n, CheckInbound(t, n, c))
  BY <1>1, CheckInboundRight DEF RowRight
<1> QED BY <1>1, <1>2 DEF After, c

\* So does what recovery does to the own leg.
LEMMA ReconciledRight ==
    ASSUME TypeOK, NEW t \in Traders, NEW n \in 1 .. Steps, NEW r, RowRight(t, n, r)
    PROVE  RowRight(t, n, Reconciled(t, n, r))
<1> DEFINE c == IF r.hash = 0 THEN [r EXCEPT !.hash = Found(t, n)] ELSE r
<1>1. Found(t, n) \in 0 .. MaxSeq
  BY FoundType
<1>2. c \in Row /\ InRight(t, n, c)
  BY <1>1 DEF RowRight, InRight, Row
<1>3. c.hash # 0 \/ c = r
  BY <1>1 DEF RowRight, Row
<1> HIDE DEF c
<1>4. RowRight(t, n, CheckOutbound(t, n, c))
  BY <1>2, <1>3, CheckOutboundRight DEF RowRight
<1> QED BY <1>4 DEF Reconciled, c

-----------------------------------------------------------------------------
(* The steps *)

\* What the lemmas about a step need of the ledgers: final stays final.
FinalStays == \A t \in Traders : \A p \in Payment : Confirmed(t, p) => Confirmed(t, p)'

\* What a trader has sent are steps of the trade.
LEMMA SentType ==
    ASSUME TypeOK, NEW t \in Traders
    PROVE  Sent(t) \subseteq 1 .. Steps
<1>1. Applied(t) \subseteq Payment /\ InFlight(t) \subseteq Payment
  BY AppliedType DEF TypeOK, InFlight
<1> QED BY <1>1 DEF Sent, Payment

\* A step that is paid for stays so.
LEMMA PaidForStays ==
    ASSUME FinalStays, NEW t \in Traders, NEW m \in 1 .. Steps, PaidFor(t, m)
    PROVE  PaidFor(t, m)'
<1>1. PICK s \in 1 .. MaxSeq : Confirmed(Peer(t), [step |-> m, seq |-> s])
  BY DEF PaidFor
<1>2. [step |-> m, seq |-> s] \in Payment
  BY DEF Payment
<1> QED BY <1>1, <1>2 DEF FinalStays, PaidFor

\* A right row stays right.
LEMMA RightStays ==
    ASSUME TypeOK, FinalStays, NEW t \in Traders, NEW n \in 1 .. Steps, NEW r,
           RowRight(t, n, r)
    PROVE  RowRight(t, n, r)'
<1>1. r \in Row
  BY DEF RowRight
<1>2. r.out = "SETTLED" => [step |-> n, seq |-> r.hash] \in Applied(t)
  BY ConfirmedIsApplied DEF RowRight, OutRight
<1>3. r.out = "SETTLED" => [step |-> n, seq |-> r.hash] \in Payment
  BY <1>2, AppliedType
<1>4. r.in # 0 => [step |-> n, seq |-> r.in] \in Payment
  BY <1>1 DEF Row, Payment
<1> QED BY <1>1, <1>3, <1>4 DEF RowRight, OutRight, InRight, FinalStays

\* The step a worker stands on: the first open one; what is below is settled.
LEMMA CurrentIsFirst ==
    ASSUME TypeOK, NEW t \in Traders, Open(t) # {}
    PROVE  /\ Current(t) \in 1 .. Steps /\ Current(t) \in Open(t)
           /\ \A m \in 1 .. Steps : m < Current(t) => Settled(rows[t][m])
<1>1. Open(t) \subseteq Nat
  BY DEF Open
<1>2. Current(t) \in Open(t) /\ \A m \in Open(t) : Current(t) <= m
  BY <1>1, MinIsLeast DEF Current
<1> QED BY <1>2 DEF Open

\* A step of the ledgers, or one that ends a pass.
LEMMA LedgerStep ==
    ASSUME IInv, FinalStays, UNCHANGED <<world, rows>>,
           \A t \in Traders : Honest(t) => Sent(t)' \subseteq Sent(t),
           \A t \in Traders : pc'[t] = pc[t] \/ pc'[t] \notin Busy
    PROVE  SettledIsFinal' /\ ExposureFinal' /\ BusyOnStep'
<1>1. SettledIsFinal'
  <2> SUFFICES ASSUME NEW t \in Traders, Honest(t), NEW n \in 1 .. Steps
               PROVE  RowRight(t, n, rows[t][n])'
    BY DEF SettledIsFinal, RowRight, OutRight, InRight, Honest, world
  <2>1. RowRight(t, n, rows[t][n])
    BY DEF IInv, TypeOK, SettledIsFinal, RowRight, OutRight, InRight
  <2> QED BY <2>1, RightStays DEF IInv, RowRight, OutRight, InRight
<1>2. ExposureFinal'
  <2> SUFFICES ASSUME NEW t \in Traders, Honest(t), NEW n \in Sent(t),
                      NEW m \in 1 .. n, m < n \/ ~MovesFirst(t, n)
               PROVE  PaidFor(t, m)'
    BY DEF ExposureFinal, Honest, MovesFirst, world
  <2>1. n \in 1 .. Steps
    BY SentType DEF IInv
  <2>2. PaidFor(t, m)
    BY DEF IInv, ExposureFinal
  <2> QED BY <2>1, <2>2, PaidForStays
<1>3. BusyOnStep'
  BY DEF IInv, BusyOnStep, Honest, Open, Current, MaySend, MovesFirst, world
<1> QED BY <1>1, <1>2, <1>3

\* A worker that does not move, with rows that do not change, stays on its step.
LEMMA SameWork ==
    ASSUME IInv, UNCHANGED world, NEW u \in Traders, Honest(u), pc[u] \in Busy,
           pc'[u] = pc[u], rows'[u] = rows[u]
    PROVE  /\ Open(u)' # {}
           /\ MaySend(u, Current(u), rows[u][Current(u)])'
           /\ pc'[u] \in {"resend", "consumed", "submit"} => rows'[u][Current(u)'].env # 0
<1>1. Open(u)' = Open(u)
  BY DEF Open
<1>2. Current(u)' = Current(u)
  BY <1>1 DEF Current
<1>3. PICK c, d : c = Current(u) /\ d = rows[u][c]
  OBVIOUS
<1>4. MaySend(u, c, d) /\ Open(u) # {} /\ (pc[u] \in {"resend", "consumed", "submit"} => d.env # 0)
  BY <1>3 DEF IInv, BusyOnStep
<1>5. rows'[u][Current(u)'] = d
  BY <1>2, <1>3
<1>6. MaySend(u, Current(u), rows[u][Current(u)])'
  BY <1>2, <1>3, <1>4, <1>5 DEF MaySend, MovesFirst, world
<1> QED BY <1>1, <1>4, <1>5, <1>6

\* A step of trader t's worker on the step it stands on: r is the row after it.
LEMMA PassStep ==
    ASSUME IInv, FinalStays, UNCHANGED world,
           NEW t \in Traders, Honest(t), Open(t) # {}, NEW n, n = Current(t),
           NEW r \in Row, NEW q \in Points,
           rows' = [rows EXCEPT ![t][n] = r], pc' = [pc EXCEPT ![t] = q],
           RowRight(t, n, r)',
           q \in Busy => MaySend(t, n, r),
           q \in {"resend", "consumed", "submit"} => r.env # 0,
           \A u \in Traders \ {t} : Honest(u) => Sent(u)' \subseteq Sent(u),
           \/ Sent(t)' \subseteq Sent(t)
           \/ /\ Sent(t)' \subseteq Sent(t) \cup {n}
              /\ MaySend(t, n, rows[t][n])
    PROVE  SettledIsFinal' /\ ExposureFinal' /\ BusyOnStep' /\ rows' \in [Traders -> [1 .. Steps -> Row]]
<1>n. n \in 1 .. Steps /\ n \in Open(t) /\ \A m \in 1 .. Steps : m < n => Settled(rows[t][m])
  BY CurrentIsFirst DEF IInv
<1>r. rows' = [rows EXCEPT ![t][n] = r] /\ rows' \in [Traders -> [1 .. Steps -> Row]]
  BY <1>n DEF IInv, TypeOK
<1>o. \A u \in Traders, k \in 1 .. Steps : rows'[u][k] = IF u = t /\ k = n THEN r ELSE rows[u][k]
  BY <1>n, <1>r DEF IInv, TypeOK
<1>1. SettledIsFinal'
  <2> SUFFICES ASSUME NEW u \in Traders, Honest(u), NEW k \in 1 .. Steps
               PROVE  OutRight(u, k, rows[u][k])' /\ InRight(u, k, rows[u][k])'
    BY DEF SettledIsFinal, OutRight, InRight, Honest, world
  <2>1. CASE u = t /\ k = n
    BY <2>1, <1>o DEF RowRight, OutRight, InRight
  <2>2. CASE ~(u = t /\ k = n)
    <3>1. PICK c : c = rows[u][k]
      OBVIOUS
    <3>2. RowRight(u, k, c)
      BY <3>1 DEF IInv, TypeOK, SettledIsFinal, RowRight, OutRight, InRight
    <3>3. RowRight(u, k, c)'
      BY <3>2, RightStays DEF IInv
    <3>4. rows'[u][k] = c
      BY <2>2, <3>1, <1>o
    <3> QED BY <3>3, <3>4 DEF RowRight, OutRight, InRight
  <2> QED BY <2>1, <2>2
<1>2. ExposureFinal'
  <2> SUFFICES ASSUME NEW u \in Traders, Honest(u), NEW k \in Sent(u)',
                      NEW m \in 1 .. k, m < k \/ ~MovesFirst(u, k)
               PROVE  PaidFor(u, m)'
    BY DEF ExposureFinal, Honest, MovesFirst, world
  <2>1. CASE k \in Sent(u)
    <3>1. k \in 1 .. Steps /\ PaidFor(u, m)
      BY <2>1, SentType DEF IInv, ExposureFinal
    <3> QED BY <3>1, PaidForStays
  <2>2. CASE k \notin Sent(u)
    <3>1. u = t /\ k = n /\ MaySend(t, n, rows[t][n])
      BY <2>2
    <3>2. rows[t][m].in # 0 /\ m \in 1 .. Steps
      BY <3>1, <1>n DEF Settled, MaySend
    <3>3. rows[t][m].in \in 1 .. MaxSeq
      <4>1. rows[t][m] \in Row
        BY <3>2 DEF IInv, TypeOK
      <4> QED BY <3>2, <4>1 DEF Row
    <3>4. PaidFor(t, m)
      BY <3>2, <3>3 DEF IInv, SettledIsFinal, PaidFor
    <3> QED BY <3>1, <3>2, <3>4, PaidForStays
  <2> QED BY <2>1, <2>2
<1>3. BusyOnStep'
  <2> SUFFICES ASSUME NEW u \in Traders, Honest(u), pc'[u] \in Busy
               PROVE  /\ Open(u)' # {}
                      /\ MaySend(u, Current(u), rows[u][Current(u)])'
                      /\ pc'[u] \in {"resend", "consumed", "submit"} => rows'[u][Current(u)'].env # 0
    BY DEF BusyOnStep, Honest, world
  <2>1. CASE u # t
    <3>0. pc'[u] = pc[u]
      <4>1. pc \in [Traders -> Points]
        BY DEF IInv, TypeOK
      <4> QED BY <2>1, <4>1
    <3>1. pc'[u] = pc[u] /\ rows'[u] = rows[u]
      <4>1. rows \in [Traders -> [1 .. Steps -> Row]]
        BY DEF IInv, TypeOK
      <4>2. rows' = [rows EXCEPT ![t] = [rows[t] EXCEPT ![n] = r]]
        BY <1>r
      <4> QED BY <2>1, <3>0, <4>1, <4>2
    <3> QED BY <3>1, SameWork
  <2>2. CASE u = t
    <3>1. q \in Busy /\ pc'[u] = q
      BY <2>2 DEF IInv, TypeOK
    <3>2. ~Settled(r) /\ MaySend(t, n, r)
      BY <3>1 DEF MaySend, Settled
    <3>3. \A k \in 1 .. Steps : Settled(rows'[t][k]) <=> Settled(rows[t][k])
      BY <3>2, <1>o, <1>n DEF Open
    <3>4. Open(t)' = Open(t)
      BY <3>3 DEF Open
    <3>5. Current(t)' = n
      BY <3>4 DEF Current
    <3>6. rows'[t][n] = r
      BY <1>o, <1>n
    <3> QED BY <2>2, <3>1, <3>2, <3>4, <3>5, <3>6 DEF MaySend, MovesFirst, world
  <2> QED BY <2>1, <2>2
<1> QED BY <1>1, <1>2, <1>3, <1>r

-----------------------------------------------------------------------------
(* What a step does to the ledgers *)

\* A chain that only ages and grows, and a Stellar ledger that only grows, keep
\* what is final; so does a reorganisation, which cannot reach that deep.
LEMMA GrowthIsFinal ==
    ASSUME TypeOK, stellar \subseteq stellar',
           \A x \in chain : x.depth >= Depth => x \in chain'
    PROVE  FinalStays
<1> SUFFICES ASSUME NEW t \in Traders, NEW p \in Payment, Confirmed(t, p)
             PROVE  Confirmed(t, p)'
  BY DEF FinalStays
<1> QED BY DEF Confirmed, Traders, Plain

\* Ageing leaves the payments what they are, and those that are deep enough alone.
LEMMA AgedKeeps ==
    ASSUME TypeOK
    PROVE  /\ Aged(chain) \subseteq [step : 0 .. Steps, seq : 1 .. MaxSeq, depth : 1 .. Depth]
           /\ {Plain(x) : x \in Aged(chain)} = {Plain(x) : x \in chain}
           /\ \A x \in chain : x.depth >= Depth => x \in Aged(chain)
<1> DEFINE Kept == [step : 0 .. Steps, seq : 1 .. MaxSeq, depth : 1 .. Depth]
           age(x) == [x EXCEPT !.depth = IF @ < Depth THEN @ + 1 ELSE @]
<1>1. \A x \in Kept : /\ age(x) \in Kept /\ age(x).step = x.step /\ age(x).seq = x.seq
                      /\ x.depth >= Depth => age(x) = x
  OBVIOUS
<1>2. chain \subseteq Kept /\ Aged(chain) = {age(x) : x \in chain}
  BY DEF TypeOK, Aged
<1> HIDE DEF age, Kept
<1>3. Aged(chain) \subseteq Kept
  BY <1>1, <1>2
<1>4. \A x \in chain : Plain(age(x)) = Plain(x)
  BY <1>1, <1>2 DEF Plain
<1>5. {Plain(x) : x \in Aged(chain)} = {Plain(x) : x \in chain}
  BY <1>2, <1>4
<1>6. \A x \in chain : x.depth >= Depth => x \in Aged(chain)
  BY <1>1, <1>2
<1> QED BY <1>3, <1>5, <1>6 DEF Kept

\* A trader's steps are those of what he has on a ledger or under way.
LEMMA SentShrinks ==
    ASSUME NEW t \in Traders,
           (Applied(t) \cup InFlight(t))' \subseteq Applied(t) \cup InFlight(t)
                                         \cup {p \in Payment : p.step = 0}
    PROVE  Sent(t)' \subseteq Sent(t)
BY DEF Sent

-----------------------------------------------------------------------------
(* The ledgers' own steps *)

\* A block with a payment keeps the invariant: an honest seller's was published.
LEMMA MineStep ==
    ASSUME IInv, NEW p \in Payment, Mine(p)
    PROVE  IInv'
<1>1. TypeOK
  BY DEF IInv
<1>2. TypeOK' /\ Applied("seller")' = Applied("seller") \cup {p} /\ FinalStays
  <2> DEFINE x == [step |-> p.step, seq |-> p.seq, depth |-> 1]
  <2>1. x \in [step : 0 .. Steps, seq : 1 .. MaxSeq, depth : 1 .. Depth] /\ Plain(x) = p
    BY DEF Payment, Plain
  <2>2. chain' = Aged(chain) \cup {x}
    BY DEF Mine
  <2> HIDE DEF x
  <2>3. chain' \subseteq [step : 0 .. Steps, seq : 1 .. MaxSeq, depth : 1 .. Depth]
    BY <1>1, <2>1, <2>2, AgedKeeps
  <2>4. TypeOK'
    BY <1>1, <2>3 DEF TypeOK, Mine, world, stellarVars
  <2>5. Applied("seller")' = Applied("seller") \cup {p}
    BY <1>1, <2>1, <2>2, AgedKeeps DEF Applied
  <2>6. FinalStays
    BY <1>1, <2>2, AgedKeeps, GrowthIsFinal DEF Mine, stellarVars
  <2> QED BY <2>4, <2>5, <2>6
<1>3. Honest("seller") => p \in gossiped
  BY DEF Mine, Honest
<1>4. \A t \in Traders : Honest(t) => Sent(t)' \subseteq Sent(t)
  BY <1>2, <1>3, SentShrinks DEF InFlight, Applied, Mine, stellarVars, Traders
<1>5. ChainGossiped'
  BY <1>2, <1>3 DEF IInv, ChainGossiped, Mine, Honest, world
<1> QED BY <1>2, <1>4, <1>5, LedgerStep DEF IInv, Mine

\* So does one without.
LEMMA MineEmptyStep ==
    ASSUME IInv, MineEmpty
    PROVE  IInv'
<1>1. TypeOK
  BY DEF IInv
<1>2. TypeOK'
  BY <1>1, AgedKeeps DEF TypeOK, MineEmpty, world, stellarVars
<1>3. Applied("seller")' = Applied("seller")
  BY <1>1, AgedKeeps DEF Applied, MineEmpty
<1>4. FinalStays
  BY <1>1, AgedKeeps, GrowthIsFinal DEF MineEmpty, stellarVars
<1>5. \A t \in Traders : Sent(t)' \subseteq Sent(t)
  BY <1>3, SentShrinks DEF InFlight, Applied, MineEmpty, stellarVars, Traders
<1>6. ChainGossiped'
  BY <1>3 DEF IInv, ChainGossiped, MineEmpty, Honest, world
<1> QED BY <1>2, <1>4, <1>5, <1>6, LedgerStep DEF IInv, MineEmpty

\* So does a reorganisation, which reaches less deep than Depth.
LEMMA ReorgStep ==
    ASSUME IInv, NEW k \in 1 .. MaxReorg, Reorg(k)
    PROVE  IInv'
<1>1. TypeOK /\ chain' \subseteq chain
  BY DEF IInv, Reorg
<1>2. Applied("seller")' \subseteq Applied("seller")
  BY <1>1 DEF Applied
<1>3. pool' \subseteq gossiped
  <2>1. CASE UNCHANGED pool
    BY <1>1, <2>1 DEF TypeOK
  <2>2. CASE Honest("seller") /\ pool' = pool \cup {Plain(x) : x \in {y \in chain : y.depth <= k}}
    BY <1>1, <2>2 DEF TypeOK, IInv, ChainGossiped, Applied
  <2> QED BY <2>1, <2>2 DEF Reorg
<1>4. TypeOK'
  BY <1>1, <1>3 DEF TypeOK, Reorg, Fault, world, stellarVars
<1>5. FinalStays
  <2>1. \A x \in chain : x.depth >= Depth => x \in chain'
    BY <1>1 DEF TypeOK, Reorg
  <2> QED BY <1>1, <2>1, GrowthIsFinal DEF Reorg, stellarVars
<1>6. \A t \in Traders : Sent(t)' \subseteq Sent(t)
  BY <1>2, SentShrinks DEF InFlight, Applied, Reorg, stellarVars, Traders
<1>7. ChainGossiped'
  BY <1>2 DEF IInv, ChainGossiped, Reorg, Honest, world
<1> QED BY <1>4, <1>5, <1>6, <1>7, LedgerStep DEF IInv, Reorg

\* The other steps leave the chain alone.
LEMMA ChainKeptStep ==
    ASSUME IInv, TypeOK', UNCHANGED <<world, chain, rows>>,
           gossiped \subseteq gossiped', stellar \subseteq stellar',
           Honest("seller") => \A p \in gossiped' \ gossiped : p.step = 0,
           Honest("buyer") => \A p \in (stellar \cup flying)' \ (stellar \cup flying) : p.step = 0,
           \A t \in Traders : pc'[t] = pc[t] \/ pc'[t] \notin Busy
    PROVE  IInv'
<1>1. FinalStays
  BY GrowthIsFinal DEF IInv
<1>2. Applied("seller")' = Applied("seller")
  BY DEF Applied
<1>3. gossiped' \subseteq Payment /\ (stellar \cup flying)' \subseteq Payment
  BY DEF TypeOK
<1>4. \A t \in Traders : Honest(t) => Sent(t)' \subseteq Sent(t)
  BY <1>2, <1>3, SentShrinks DEF InFlight, Applied, Traders
<1>5. ChainGossiped'
  BY <1>2 DEF IInv, ChainGossiped, Honest, world
<1> QED BY <1>1, <1>4, <1>5, LedgerStep DEF IInv

\* So do the other steps of the ledgers and spendings outside the trade.
LEMMA QuietLedgers ==
    ASSUME IInv, NEW x,
           \/ Drop(x) \/ Decide(x)
           \/ x \in 1 .. Steps /\ (Expire(x) \/ RoguePays(x))
           \/ x \in Traders /\ OtherSpend(x)
    PROVE  IInv'
<1>0. TypeOK
  BY DEF IInv
<1>1. CASE Drop(x)
  <2>1. TypeOK'
    BY <1>0, <1>1 DEF TypeOK, Drop, Fault, world, stellarVars
  <2> QED BY <1>1, <2>1, ChainKeptStep DEF Drop, stellarVars
<1>2. CASE Decide(x)
  <2>1. TypeOK'
    BY <1>0, <1>2 DEF TypeOK, Decide, world, lapseVars
  <2> QED BY <1>2, <2>1, ChainKeptStep DEF Decide, lapseVars
<1>3. CASE x \in 1 .. Steps /\ Expire(x)
  <2>1. rows["buyer"][x] \in Row
    BY <1>0, <1>3 DEF TypeOK
  <2>2. rows["buyer"][x].env # 0 => [step |-> x, seq |-> rows["buyer"][x].env] \in Payment
    BY <1>3, <2>1 DEF Row, Payment
  <2>3. TypeOK'
    BY <1>0, <1>3, <2>2 DEF TypeOK, Expire, Fault, world, lapseVars
  <2> QED BY <1>3, <2>3, ChainKeptStep DEF Expire, lapseVars
<1>4. CASE x \in 1 .. Steps /\ RoguePays(x)
  <2>1. LastSeq("buyer") \in 0 .. MaxSeq
    BY <1>0, LastSeqType
  <2>2. [step |-> x, seq |-> LastSeq("buyer") + 1] \in Payment
    BY <1>4, <2>1 DEF RoguePays, Payment
  <2>3. TypeOK'
    BY <1>0, <1>4, <2>2 DEF TypeOK, RoguePays, world, lapseVars
  <2> QED BY <1>4, <2>3, ChainKeptStep DEF RoguePays, Honest, lapseVars
<1>5. CASE x \in Traders /\ OtherSpend(x)
  <2>1. others' \in 0 .. MaxOther
    BY <1>0, <1>5 DEF TypeOK, OtherSpend
  <2>2. CASE x = "seller"
    <3>1. [step |-> 0, seq |-> NextNonce] \in Payment
      BY <1>0, <1>5, <2>2, NextNonceType DEF OtherSpend, Payment
    <3>2. TypeOK'
      BY <1>0, <1>5, <2>1, <2>2, <3>1 DEF TypeOK, OtherSpend, world
    <3> QED BY <1>5, <2>2, <3>2, ChainKeptStep DEF OtherSpend
  <2>3. CASE x = "buyer"
    <3>1. LastSeq("buyer") \in 0 .. MaxSeq
      BY <1>0, LastSeqType
    <3>2. [step |-> 0, seq |-> LastSeq(x) + 1] \in Payment
      BY <1>5, <2>3, <3>1 DEF OtherSpend, Payment
    <3>3. TypeOK'
      BY <1>0, <1>5, <2>1, <2>3, <3>2 DEF TypeOK, OtherSpend, world
    <3> QED BY <1>5, <2>3, <3>3, ChainKeptStep DEF OtherSpend
  <2> QED BY <1>5, <2>2, <2>3 DEF Traders
<1> QED BY <1>1, <1>2, <1>3, <1>4, <1>5

\* So do an aborted pass and a crash.
LEMMA StopStep ==
    ASSUME IInv, NEW t \in Traders, Abort(t) \/ Crash(t)
    PROVE  IInv'
<1>0. TypeOK /\ pc \in [Traders -> Points]
  BY DEF IInv, TypeOK
<1>1. CASE Abort(t)
  <2>1. pc' = [pc EXCEPT ![t] = "idle"]
    BY <1>1 DEF Abort, Goto
  <2>2. TypeOK'
    BY <1>0, <1>1, <2>1 DEF TypeOK, Points, Abort, Fault, world, lapseVars, stellarVars
  <2> QED BY <1>0, <1>1, <2>1, <2>2, ChainKeptStep DEF Abort, Busy, lapseVars, stellarVars
<1>2. CASE Crash(t)
  <2>1. pc' = [pc EXCEPT ![t] = "down"]
    BY <1>2 DEF Crash, Goto
  <2>2. TypeOK'
    BY <1>0, <1>2, <2>1 DEF TypeOK, Points, Crash, Fault, world, stellarVars
  <2> QED BY <1>0, <1>2, <2>1, <2>2, ChainKeptStep DEF Crash, Busy, stellarVars
<1> QED BY <1>1, <1>2

-----------------------------------------------------------------------------
(* The worker's steps *)

\* What is known of the row a worker in a pass stands on.
LEMMA RowOfPass ==
    ASSUME IInv, NEW t \in Traders, Honest(t), pc[t] \in Busy, NEW n, n = Current(t)
    PROVE  /\ n \in 1 .. Steps /\ Open(t) # {}
           /\ RowRight(t, n, rows[t][n]) /\ MaySend(t, n, rows[t][n])
           /\ pc[t] \in {"resend", "consumed", "submit"} => rows[t][n].env # 0
<1>1. Open(t) # {} /\ MaySend(t, n, rows[t][n])
      /\ (pc[t] \in {"resend", "consumed", "submit"} => rows[t][n].env # 0)
  BY DEF IInv, BusyOnStep
<1>2. n \in 1 .. Steps
  BY <1>1, CurrentIsFirst DEF IInv
<1>3. rows[t][n] \in Row
  BY <1>2 DEF IInv, TypeOK
<1>4. OutRight(t, n, rows[t][n]) /\ InRight(t, n, rows[t][n])
  BY <1>2 DEF IInv, SettledIsFinal, OutRight, InRight
<1> QED BY <1>1, <1>2, <1>3, <1>4 DEF RowRight

\* Writing back the row that is there changes nothing.
LEMMA SameRow ==
    ASSUME TypeOK, NEW t \in Traders, NEW n \in 1 .. Steps
    PROVE  rows = [rows EXCEPT ![t][n] = rows[t][n]]
<1>1. rows \in [Traders -> [1 .. Steps -> Row]]
  BY DEF TypeOK
<1> QED BY <1>1

\* Rows as Consumed, Build and the answers to a payment leave them are rows.
LEMMA RowMade ==
    ASSUME NEW o \in Row, NEW seq \in 0 .. MaxSeq
    PROVE  /\ [o EXCEPT !.out = "DEAD", !.env = 0] \in Row
           /\ [o EXCEPT !.env = seq, !.hash = seq, !.out = "INTENT"] \in Row
           /\ [o EXCEPT !.out = "SUBMITTED"] \in Row
<1>1. [o EXCEPT !.out = "DEAD"] \in Row /\ [o EXCEPT !.out = "SUBMITTED"] \in Row
      /\ [o EXCEPT !.env = seq] \in Row
  BY DEF Row
<1>2. [o EXCEPT !.out = "DEAD", !.env = 0] \in Row
  <2>1. 0 \in 0 .. MaxSeq
    OBVIOUS
  <2>2. \A z \in 0 .. MaxSeq : [o EXCEPT !.out = "DEAD", !.env = z] \in Row
    BY DEF Row
  <2> QED BY <2>1, <2>2
<1>3. [o EXCEPT !.env = seq, !.hash = seq, !.out = "INTENT"] \in Row
  BY DEF Row
<1> QED BY <1>1, <1>2, <1>3

\* A step of a worker that leaves the ledgers alone, r being the row after it.
LEMMA QuietPass ==
    ASSUME IInv, UNCHANGED <<world, lapseVars, stellar, flying, others>>,
           late' \subseteq Payment, faults' = faults \/ faults' \in 0 .. MaxFaults,
           NEW t \in Traders, Honest(t), Open(t) # {}, NEW n, n = Current(t),
           NEW r, NEW q \in Points,
           rows' = [rows EXCEPT ![t][n] = r], pc' = [pc EXCEPT ![t] = q],
           RowRight(t, n, r),
           q \in Busy => MaySend(t, n, r),
           q \in {"resend", "consumed", "submit"} => r.env # 0
    PROVE  IInv'
<1>1. TypeOK /\ r \in Row /\ n \in 1 .. Steps
  BY CurrentIsFirst DEF IInv, RowRight
<1>2. FinalStays
  BY <1>1, GrowthIsFinal DEF lapseVars
<1>3. RowRight(t, n, r)'
  BY <1>1, <1>2, RightStays
<1>4. \A u \in Traders : Sent(u)' \subseteq Sent(u)
  BY SentShrinks DEF Applied, InFlight, lapseVars
<1>5. SettledIsFinal' /\ ExposureFinal' /\ BusyOnStep' /\ rows' \in [Traders -> [1 .. Steps -> Row]]
  BY <1>1, <1>2, <1>3, <1>4, PassStep
<1>6. pc' \in [Traders -> Points]
  BY <1>1 DEF TypeOK
<1>7. TypeOK'
  BY <1>1, <1>5, <1>6 DEF TypeOK, world, lapseVars
<1>8. ChainGossiped'
  BY DEF IInv, ChainGossiped, Applied, Honest, world, lapseVars
<1> QED BY <1>5, <1>7, <1>8 DEF IInv

\* So does the start of a pass.
LEMMA BeginStep ==
    ASSUME IInv, NEW t \in Traders, Begin(t)
    PROVE  IInv'
<1>1. PICK n : n = Current(t)
  OBVIOUS
<1>2. TypeOK /\ Honest(t) /\ Open(t) # {} /\ n \in 1 .. Steps
  BY <1>1, CurrentIsFirst DEF IInv, Begin, At
<1>3. RowRight(t, n, rows[t][n])
  <2>1. rows[t][n] \in Row
    BY <1>2 DEF TypeOK
  <2> QED BY <1>2, <2>1 DEF IInv, SettledIsFinal, RowRight, OutRight, InRight
<1>4. PICK r : r = Before(t, n, rows[t][n])
  OBVIOUS
<1>5. RowRight(t, n, r)
  BY <1>2, <1>3, <1>4, BeforeRight
<1>6. late' \subseteq Payment /\ UNCHANGED <<world, lapseVars, stellar, flying, others, faults>>
  BY <1>2 DEF TypeOK, Begin, stellarVars
<1>7. CASE MaySend(t, n, r)
  <2>1. rows' = [rows EXCEPT ![t][n] = r] /\ pc' = [pc EXCEPT ![t] = "find"]
    BY <1>1, <1>4, <1>7 DEF Begin, Write, Goto
  <2> QED BY <1>1, <1>2, <1>5, <1>6, <1>7, <2>1, QuietPass DEF Points
<1>8. CASE ~MaySend(t, n, r)
  <2>1. PICK c : c = IF MovesFirst(t, n) THEN CheckInbound(t, n, r) ELSE r
    OBVIOUS
  <2>2. rows' = [rows EXCEPT ![t][n] = c] /\ pc' = [pc EXCEPT ![t] = "idle"]
    BY <1>1, <1>4, <1>8, <2>1 DEF Begin, Write, Goto
  <2>3. RowRight(t, n, c)
    BY <1>2, <1>5, <2>1, CheckInboundRight DEF RowRight
  <2> QED BY <1>1, <1>2, <1>6, <2>2, <2>3, QuietPass DEF Points, Busy
<1> QED BY <1>7, <1>8

\* So does the search for the own payment.
LEMMA FindStep ==
    ASSUME IInv, NEW t \in Traders, Find(t)
    PROVE  IInv'
<1>0. PICK seen \in SUBSET Applied(t) : FindIn(t, seen) /\ faults' \in 0 .. MaxFaults
  BY FindSees DEF IInv
<1>1. PICK n : n = Current(t)
  OBVIOUS
<1>2. TypeOK /\ Honest(t) /\ pc[t] = "find"
  BY <1>0 DEF IInv, FindIn, At
<1>3. /\ n \in 1 .. Steps /\ Open(t) # {}
      /\ RowRight(t, n, rows[t][n]) /\ MaySend(t, n, rows[t][n])
  BY <1>1, <1>2, RowOfPass DEF Busy
<1>4. late' \subseteq Payment /\ UNCHANGED <<world, lapseVars, stellar, flying, others>>
  BY <1>0, <1>2 DEF TypeOK, FindIn, stellarVars
<1>5. PICK pending : pending = IF t = "seller" THEN {p \in pool : p.step = n} ELSE {}
  OBVIOUS
<1>6. PICK found : found = HighestSeq(IF pending # {} THEN pending ELSE {p \in seen : p.step = n})
  OBVIOUS
<1>7. found \in 0 .. MaxSeq
  <2>1. pending \subseteq Payment /\ {p \in seen : p.step = n} \subseteq Payment
    BY <1>2, <1>5, AppliedType DEF TypeOK
  <2> QED BY <1>6, <2>1, HighestSeqIs
<1>8. CASE found # 0
  <2>1. PICK c : c = [rows[t][n] EXCEPT !.hash = found]
    OBVIOUS
  <2>2. PICK r : r = After(t, n, c)
    OBVIOUS
  <2>3. rows' = [rows EXCEPT ![t][n] = r] /\ pc' = [pc EXCEPT ![t] = "idle"]
    BY <1>0, <1>1, <1>5, <1>6, <1>8, <2>1, <2>2 DEF FindIn, Write, Goto
  <2>4. c \in Row /\ InRight(t, n, c) /\ c.hash # 0
    BY <1>3, <1>7, <1>8, <2>1 DEF RowRight, InRight, Row
  <2>5. RowRight(t, n, r)
    BY <1>2, <1>3, <2>2, <2>4, AfterRight
  <2> QED BY <1>0, <1>1, <1>2, <1>3, <1>4, <2>3, <2>5, QuietPass DEF Points, Busy
<1>9. CASE found = 0
  <2>1. PICK q : q = IF rows[t][n].env # 0 /\ rows[t][n].out \in {"INTENT", "SUBMITTED"}
                       THEN "resend" ELSE "build"
    OBVIOUS
  <2>2. UNCHANGED rows /\ pc' = [pc EXCEPT ![t] = q]
    BY <1>0, <1>1, <1>5, <1>6, <1>9, <2>1 DEF FindIn, Goto
  <2>3. rows' = [rows EXCEPT ![t][n] = rows[t][n]]
    BY <1>2, <1>3, <2>2, SameRow
  <2>4. q \in Points /\ (q \in {"resend", "consumed", "submit"} => rows[t][n].env # 0)
    BY <2>1 DEF Points
  <2> QED BY <1>0, <1>1, <1>2, <1>3, <1>4, <2>2, <2>3, <2>4, QuietPass
<1> QED BY <1>7, <1>8, <1>9

\* So does giving up an envelope.
LEMMA ConsumedStep ==
    ASSUME IInv, NEW t \in Traders, Consumed(t)
    PROVE  IInv'
<1>1. PICK n : n = Current(t)
  OBVIOUS
<1>2. TypeOK /\ Honest(t) /\ pc[t] = "consumed"
  BY DEF IInv, Consumed, At
<1>3. /\ n \in 1 .. Steps /\ Open(t) # {}
      /\ RowRight(t, n, rows[t][n]) /\ MaySend(t, n, rows[t][n])
  BY <1>1, <1>2, RowOfPass DEF Busy
<1>4. late' \subseteq Payment /\ UNCHANGED <<world, lapseVars, stellar, flying, others, faults>>
  BY <1>2 DEF TypeOK, Consumed, stellarVars
<1>5. PICK r : r = [rows[t][n] EXCEPT !.out = "DEAD", !.env = 0]
  OBVIOUS
<1>6. RowRight(t, n, r) /\ MaySend(t, n, r)
  <2>1. rows[t][n] \in Row
    BY <1>3 DEF RowRight
  <2>2. r \in Row /\ r.out = "DEAD" /\ r.in = rows[t][n].in
    BY <1>5, <2>1, RowMade DEF Row
  <2> QED BY <1>3, <2>2 DEF RowRight, OutRight, InRight, MaySend
<1>7. CASE rows' = [rows EXCEPT ![t][n] = r] /\ pc' = [pc EXCEPT ![t] = "build"]
  BY <1>1, <1>2, <1>3, <1>4, <1>6, <1>7, QuietPass DEF Points
<1>8. CASE UNCHANGED rows /\ pc' = [pc EXCEPT ![t] = "after"]
  <2>1. rows' = [rows EXCEPT ![t][n] = rows[t][n]]
    BY <1>2, <1>3, <1>8, SameRow
  <2> QED BY <1>1, <1>2, <1>3, <1>4, <1>8, <2>1, QuietPass DEF Points
<1> QED BY <1>1, <1>5, <1>7, <1>8 DEF Consumed, Write, Goto

\* So does writing down a new one.
LEMMA BuildStep ==
    ASSUME IInv, NEW t \in Traders, Build(t)
    PROVE  IInv'
<1>1. PICK n : n = Current(t)
  OBVIOUS
<1>2. TypeOK /\ Honest(t) /\ pc[t] = "build"
  BY DEF IInv, Build, At
<1>3. /\ n \in 1 .. Steps /\ Open(t) # {}
      /\ RowRight(t, n, rows[t][n]) /\ MaySend(t, n, rows[t][n])
  BY <1>1, <1>2, RowOfPass DEF Busy
<1>4. late' \subseteq Payment /\ UNCHANGED <<world, lapseVars, stellar, flying, others, faults>>
  BY <1>2 DEF TypeOK, Build
<1>5. PICK seq : seq = IF t = "seller" THEN NextNonce ELSE LastSeq(t) + 1
  OBVIOUS
<1>6. PICK r : r = [rows[t][n] EXCEPT !.env = seq, !.hash = seq, !.out = "INTENT"]
  OBVIOUS
<1>7. /\ seq <= MaxSeq
      /\ rows' = [rows EXCEPT ![t][n] = r] /\ pc' = [pc EXCEPT ![t] = "submit"]
  BY <1>1, <1>5, <1>6 DEF Build, Write, Goto
<1>8. seq \in 1 .. MaxSeq
  BY <1>2, <1>5, <1>7, NextNonceType, LastSeqType
<1>9. RowRight(t, n, r) /\ MaySend(t, n, r) /\ r.env # 0
  <2>1. rows[t][n] \in Row
    BY <1>3 DEF RowRight
  <2>2. r \in Row /\ r.out = "INTENT" /\ r.in = rows[t][n].in /\ r.env = seq
    <3>1. seq \in 0 .. MaxSeq
      BY <1>8
    <3>2. r \in Row
      BY <1>6, <2>1, <3>1, RowMade
    <3> QED BY <1>6, <2>1, <3>2 DEF Row
  <2> QED BY <1>3, <1>8, <2>2 DEF RowRight, OutRight, InRight, MaySend
<1> QED BY <1>1, <1>2, <1>3, <1>4, <1>7, <1>9, QuietPass DEF Points

\* So does the last look of a pass.
LEMMA FinishStep ==
    ASSUME IInv, NEW t \in Traders, Finish(t)
    PROVE  IInv'
<1>1. PICK n : n = Current(t)
  OBVIOUS
<1>2. TypeOK /\ Honest(t) /\ pc[t] = "after"
  BY DEF IInv, Finish, At
<1>3. /\ n \in 1 .. Steps /\ Open(t) # {}
      /\ RowRight(t, n, rows[t][n]) /\ MaySend(t, n, rows[t][n])
  BY <1>1, <1>2, RowOfPass DEF Busy
<1>4. late' \subseteq Payment /\ UNCHANGED <<world, lapseVars, stellar, flying, others, faults>>
  BY <1>2 DEF TypeOK, Finish, stellarVars
<1>5. PICK r : r = After(t, n, rows[t][n])
  OBVIOUS
<1>6. RowRight(t, n, r)
  BY <1>2, <1>3, <1>5, AfterRight DEF RowRight
<1>7. rows' = [rows EXCEPT ![t][n] = r] /\ pc' = [pc EXCEPT ![t] = "idle"]
  BY <1>1, <1>5 DEF Finish, Write, Goto
<1> QED BY <1>1, <1>2, <1>3, <1>4, <1>6, <1>7, QuietPass DEF Points, Busy

\* What handing a payment of step n to the network or to Stellar does.
LEMMA SubmitDoes ==
    ASSUME TypeOK, ChainGossiped, UNCHANGED world,
           NEW t \in Traders, NEW n \in 1 .. Steps, NEW p \in Payment, p.step = n,
           NEW reply, Submit(t, p, reply)
    PROVE  /\ pool' \subseteq gossiped' /\ gossiped' \subseteq gossiped \cup {p}
           /\ stellar' \subseteq stellar \cup {p} /\ flying' \subseteq flying \cup {p}
           /\ late' = late /\ chain' = chain /\ faults' \in 0 .. MaxFaults
           /\ FinalStays /\ ChainGossiped'
           /\ \A u \in Traders \ {t} : Sent(u)' \subseteq Sent(u)
           /\ Sent(t)' \subseteq Sent(t) \cup {n}
<1>1. CASE t = "seller"
  <2>1. /\ UNCHANGED <<chain, stellar, flying, late>>
        /\ \/ UNCHANGED <<pool, gossiped>>
           \/ pool' = pool \cup {p} /\ gossiped' = gossiped \cup {p}
    BY <1>1 DEF Submit, SubmitLapse, stellarVars
  <2>2. pool' \subseteq gossiped' /\ gossiped' \subseteq gossiped \cup {p} /\ gossiped \subseteq gossiped'
    BY <2>1 DEF TypeOK
  <2>3. faults' \in 0 .. MaxFaults
    BY <1>1 DEF Submit, SubmitLapse, Fault, TypeOK
  <2>4. FinalStays
    BY <2>1, GrowthIsFinal
  <2>5. \A u \in Traders : Applied(u)' = Applied(u)
    BY <2>1 DEF Applied
  <2>6. ChainGossiped'
    BY <2>2, <2>5 DEF ChainGossiped, Honest, world, Traders
  <2>7. Sent("buyer")' \subseteq Sent("buyer")
    BY <2>1, <2>5, SentShrinks DEF InFlight, Traders
  <2>8. Sent("seller")' \subseteq Sent("seller") \cup {n}
    BY <2>2, <2>5 DEF Sent, InFlight, Traders
  <2> QED BY <1>1, <2>1, <2>2, <2>3, <2>4, <2>6, <2>7, <2>8 DEF Traders
<1>2. CASE t = "buyer"
  <2>1. UNCHANGED <<chain, pool, gossiped, late>>
    BY <1>2 DEF Submit, SubmitXLM, lapseVars
  <2>2. /\ stellar \subseteq stellar' /\ stellar' \subseteq stellar \cup {p}
        /\ flying' \subseteq flying \cup {p}
    BY <1>2 DEF Submit, SubmitXLM
  <2>3. faults' \in 0 .. MaxFaults
    BY <1>2 DEF Submit, SubmitXLM, Fault, TypeOK
  <2>4. FinalStays
    BY <2>1, <2>2, GrowthIsFinal
  <2>5. Applied("seller")' = Applied("seller")
    BY <2>1 DEF Applied
  <2>6. ChainGossiped'
    BY <2>1, <2>5 DEF ChainGossiped, Honest, world
  <2>7. Sent("seller")' \subseteq Sent("seller")
    BY <2>1, <2>5, SentShrinks DEF InFlight, Traders
  <2>8. Sent("buyer")' \subseteq Sent("buyer") \cup {n}
    BY <2>2 DEF Sent, InFlight, Applied
  <2>9. pool' \subseteq gossiped' /\ gossiped' \subseteq gossiped \cup {p}
    BY <2>1 DEF TypeOK
  <2> QED BY <1>2, <2>1, <2>2, <2>3, <2>4, <2>6, <2>7, <2>8, <2>9 DEF Traders
<1> QED BY <1>1, <1>2 DEF Traders

\* Both ways of sending: the stored envelope again, or the one just built.
LEMMA SendStep ==
    ASSUME IInv, NEW t \in Traders, NEW reply, Resend(t, reply) \/ Send(t, reply)
    PROVE  IInv'
<1>1. PICK n : n = Current(t)
  OBVIOUS
<1>2. TypeOK /\ ChainGossiped /\ Honest(t) /\ pc[t] \in {"resend", "submit"}
  BY DEF IInv, Resend, Send, At
<1>3. /\ n \in 1 .. Steps /\ Open(t) # {} /\ rows[t][n].env # 0
      /\ RowRight(t, n, rows[t][n]) /\ MaySend(t, n, rows[t][n])
  BY <1>1, <1>2, RowOfPass DEF Busy
<1>4. PICK p : p = Envelope(t, n)
  OBVIOUS
<1>5. p \in Payment /\ p.step = n
  <2>1. rows[t][n].env \in 1 .. MaxSeq
    BY <1>3 DEF RowRight, Row
  <2> QED BY <1>3, <1>4, <2>1 DEF Envelope, Payment
<1>6. Submit(t, p, reply) /\ UNCHANGED <<world, others>>
  BY <1>1, <1>4 DEF Resend, Send
<1>7. /\ pool' \subseteq gossiped' /\ gossiped' \subseteq gossiped \cup {p}
      /\ stellar' \subseteq stellar \cup {p} /\ flying' \subseteq flying \cup {p}
      /\ late' = late /\ chain' = chain /\ faults' \in 0 .. MaxFaults
      /\ FinalStays /\ ChainGossiped'
      /\ \A u \in Traders \ {t} : Sent(u)' \subseteq Sent(u)
      /\ Sent(t)' \subseteq Sent(t) \cup {n}
  BY <1>2, <1>3, <1>5, <1>6, SubmitDoes
<1>8. PICK r : r = IF reply = "ok" THEN [rows[t][n] EXCEPT !.out = "SUBMITTED"] ELSE rows[t][n]
  OBVIOUS
<1>9. PICK q \in {"after", "consumed", "idle"} : pc' = [pc EXCEPT ![t] = q]
  BY DEF Resend, Send, Goto
<1>10. rows' = [rows EXCEPT ![t][n] = r]
  <2>1. rows = [rows EXCEPT ![t][n] = rows[t][n]]
    BY <1>2, <1>3, SameRow
  <2> QED BY <1>1, <1>8, <2>1 DEF Resend, Send, Write
<1>11. RowRight(t, n, r) /\ MaySend(t, n, r) /\ r.env # 0
  <2>1. rows[t][n] \in Row
    BY <1>3 DEF RowRight
  <2>2. [rows[t][n] EXCEPT !.out = "SUBMITTED"] \in Row
    <3>1. 0 \in 0 .. MaxSeq
      OBVIOUS
    <3> QED BY <2>1, <3>1, RowMade
  <2>3. CASE reply = "ok"
    <3>1. r \in Row /\ r.out = "SUBMITTED" /\ r.in = rows[t][n].in /\ r.env = rows[t][n].env
      BY <1>8, <2>1, <2>2, <2>3 DEF Row
    <3> QED BY <1>3, <3>1 DEF RowRight, OutRight, InRight, MaySend
  <2>4. CASE reply # "ok"
    BY <1>3, <1>8, <2>4
  <2> QED BY <2>3, <2>4
<1>12. RowRight(t, n, r)'
  BY <1>2, <1>3, <1>7, <1>11, RightStays
<1>13. SettledIsFinal' /\ ExposureFinal' /\ BusyOnStep' /\ rows' \in [Traders -> [1 .. Steps -> Row]]
  <2>1. q \in Points /\ r \in Row
    BY <1>11 DEF Points, RowRight
  <2> QED BY <1>1, <1>2, <1>3, <1>6, <1>7, <1>9, <1>10, <1>11, <1>12, <2>1, PassStep
<1>14. pc' \in [Traders -> Points]
  BY <1>2, <1>9 DEF TypeOK, Points
<1>15. gossiped' \subseteq Payment /\ stellar' \subseteq Payment /\ flying' \subseteq Payment
  BY <1>2, <1>5, <1>7 DEF TypeOK
<1>16. TypeOK'
  BY <1>2, <1>6, <1>7, <1>13, <1>14, <1>15 DEF TypeOK, world
<1> QED BY <1>7, <1>13, <1>16 DEF IInv

\* So does recovery, which rewrites every row of a trader with what the ledgers say.
LEMMA RestartStep ==
    ASSUME IInv, NEW t \in Traders, NEW lost, Restart(t, lost)
    PROVE  IInv'
<1>1. TypeOK /\ Honest(t) /\ pc[t] = "down" /\ pc' = [pc EXCEPT ![t] = "idle"]
      /\ UNCHANGED <<world, lapseVars, stellarVars, others, faults>>
  BY DEF IInv, Restart, At, Goto
<1> DEFINE back(n) ==
        IF n \notin lost THEN CheckInbound(t, n, Reconciled(t, n, rows[t][n]))
        ELSE IF t = "seller" THEN Reconciled(t, n, rows[t][n]) ELSE rows[t][n]
<1>2. \A n \in 1 .. Steps : RowRight(t, n, back(n))
  <2> TAKE n \in 1 .. Steps
  <2>1. RowRight(t, n, rows[t][n])
    <3>1. rows[t][n] \in Row
      BY <1>1 DEF TypeOK
    <3> QED BY <1>1, <3>1 DEF IInv, SettledIsFinal, RowRight, OutRight, InRight
  <2>2. RowRight(t, n, Reconciled(t, n, rows[t][n]))
    BY <1>1, <2>1, ReconciledRight
  <2>3. RowRight(t, n, CheckInbound(t, n, Reconciled(t, n, rows[t][n])))
    BY <1>1, <2>2, CheckInboundRight DEF RowRight
  <2> QED BY <2>1, <2>2, <2>3
<1>3. rows' = [rows EXCEPT ![t] = [n \in 1 .. Steps |-> back(n)]]
  BY DEF Restart
<1> HIDE DEF back
<1>4. rows' \in [Traders -> [1 .. Steps -> Row]]
  BY <1>1, <1>2, <1>3 DEF TypeOK, RowRight
<1>5. FinalStays
  BY <1>1, GrowthIsFinal DEF lapseVars, stellarVars
<1>6. SettledIsFinal'
  <2> SUFFICES ASSUME NEW u \in Traders, Honest(u), NEW k \in 1 .. Steps
               PROVE  OutRight(u, k, rows[u][k])' /\ InRight(u, k, rows[u][k])'
    BY <1>1 DEF SettledIsFinal, OutRight, InRight, Honest, world
  <2>1. PICK c : c = rows'[u][k]
    OBVIOUS
  <2>2. RowRight(u, k, c)
    <3>1. rows[u][k] \in Row
      BY <1>1 DEF TypeOK
    <3>2. CASE u = t
      BY <1>1, <1>2, <1>3, <2>1, <3>2 DEF TypeOK
    <3>3. CASE u # t
      BY <1>1, <1>3, <2>1, <3>1, <3>3 DEF TypeOK, IInv, SettledIsFinal, RowRight, OutRight, InRight
    <3> QED BY <3>2, <3>3
  <2>3. RowRight(u, k, c)'
    BY <1>1, <1>5, <2>2, RightStays
  <2> QED BY <2>1, <2>3 DEF RowRight, OutRight, InRight
<1>7. \A u \in Traders : Sent(u)' = Sent(u)
  BY <1>1 DEF Sent, Applied, InFlight, lapseVars, stellarVars
<1>8. ExposureFinal'
  <2> SUFFICES ASSUME NEW u \in Traders, Honest(u), NEW k \in Sent(u),
                      NEW m \in 1 .. k, m < k \/ ~MovesFirst(u, k)
               PROVE  PaidFor(u, m)'
    BY <1>1, <1>7 DEF ExposureFinal, Honest, MovesFirst, world
  <2>1. k \in 1 .. Steps /\ PaidFor(u, m)
    BY <1>1, SentType DEF IInv, ExposureFinal
  <2> QED BY <1>5, <2>1, PaidForStays
<1>9. BusyOnStep'
  <2> SUFFICES ASSUME NEW u \in Traders, Honest(u), pc'[u] \in Busy
               PROVE  /\ Open(u)' # {}
                      /\ MaySend(u, Current(u), rows[u][Current(u)])'
                      /\ pc'[u] \in {"resend", "consumed", "submit"} => rows'[u][Current(u)'].env # 0
    BY <1>1 DEF BusyOnStep, Honest, world
  <2>1. u # t
    BY <1>1 DEF TypeOK, Busy
  <2>2. pc'[u] = pc[u] /\ rows'[u] = rows[u]
    <3>1. pc'[u] = pc[u]
      BY <1>1, <2>1 DEF TypeOK
    <3> QED BY <1>1, <1>3, <2>1, <3>1 DEF TypeOK
  <2> QED BY <2>2, <1>1, SameWork
<1>10. ChainGossiped'
  BY <1>1 DEF IInv, ChainGossiped, Applied, Honest, world, lapseVars
<1>11. TypeOK'
  BY <1>1, <1>4 DEF TypeOK, Points, world, lapseVars, stellarVars
<1> QED BY <1>6, <1>8, <1>9, <1>10, <1>11 DEF IInv

-----------------------------------------------------------------------------
(* The theorems *)

\* The invariant holds at the start.
LEMMA InitIInv == Init => IInv
<1> SUFFICES ASSUME Init PROVE IInv
  OBVIOUS
<1>1. NewRow \in Row
  BY DEF NewRow, Row
<1>2. TypeOK
  BY <1>1 DEF Init, TypeOK, Points
<1>3. \A t \in Traders, n \in 1 .. Steps : rows[t][n] = NewRow
  BY DEF Init
<1>4. SettledIsFinal
  BY <1>3 DEF SettledIsFinal, NewRow
<1>5. \A t \in Traders : Sent(t) = {}
  BY DEF Init, Sent, Applied, InFlight
<1>6. BusyOnStep
  BY DEF Init, BusyOnStep, Busy
<1>7. ChainGossiped
  BY DEF Init, ChainGossiped, Applied
<1> QED BY <1>2, <1>4, <1>5, <1>6, <1>7 DEF IInv, ExposureFinal

\* Every step keeps the invariant.
LEMMA StepIInv == IInv /\ [Next]_vars => IInv'
<1> SUFFICES ASSUME IInv, [Next]_vars PROVE IInv'
  OBVIOUS
<1>1. CASE UNCHANGED vars
  <2>1. TypeOK'
    BY <1>1 DEF IInv, TypeOK, vars, world, lapseVars, stellarVars
  <2> QED BY <1>1, <2>1, ChainKeptStep DEF vars, lapseVars, stellarVars
<1>2. CASE Ledgers
  <2>1. ASSUME NEW p \in Payment, Mine(p) \/ Drop(p) \/ Decide(p) PROVE IInv'
    BY <2>1, MineStep, QuietLedgers
  <2>2. ASSUME NEW n \in 1 .. Steps, Expire(n) \/ RoguePays(n) PROVE IInv'
    BY <2>2, QuietLedgers
  <2> QED BY <1>2, <2>1, <2>2, MineEmptyStep, ReorgStep DEF Ledgers
<1>3. ASSUME NEW t \in Traders, Pass(t) \/ Abort(t) \/ Crash(t) \/ OtherSpend(t) PROVE IInv'
  BY <1>3, BeginStep, FindStep, ConsumedStep, BuildStep, FinishStep, SendStep, RestartStep,
     StopStep, QuietLedgers DEF Pass
<1> QED BY <1>1, <1>2, <1>3 DEF Next

\* Type correctness: the bounds on rows and workers hold for every number of
\* steps, and a row never names a payment that cannot exist.
THEOREM TypeCorrect == Spec => []TypeOK
<1>1. IInv => TypeOK
  BY DEF IInv
<1> QED BY InitIInv, StepIInv, <1>1, PTL DEF Spec

\* A trader that calls a trade done has paid and been paid on ledgers that will
\* not take it back, whatever crashes, reorganisations of less than the required
\* depth, or a rogue counterparty do (advance returns "done", swap_engine.py).
THEOREM DoneIsDoneAlways == Spec => []DoneIsDone
<1>1. IInv => DoneIsDone
  <2> SUFFICES ASSUME IInv, NEW t \in Traders, Honest(t), Open(t) = {}, NEW n \in 1 .. Steps
               PROVE  /\ Confirmed(t, [step |-> n, seq |-> rows[t][n].hash])
                      /\ Confirmed(Peer(t), [step |-> n, seq |-> rows[t][n].in])
    BY DEF DoneIsDone
  <2>1. Settled(rows[t][n])
    BY DEF Open
  <2> QED BY <2>1 DEF Settled, IInv, SettledIsFinal
<1> QED BY InitIInv, StepIInv, <1>1, PTL DEF Spec

\* An honest trader never risks more than one step: whatever it has sent, the
\* peer has paid for, but for the last step if it moves first in that one.
THEOREM ExposureBound == Spec => []Exposure
<1>1. IInv => Exposure
  <2> SUFFICES ASSUME IInv, NEW t \in Traders, Honest(t), NEW n \in Sent(t),
                      NEW m \in 1 .. n, m < n \/ ~MovesFirst(t, n)
               PROVE  Found(Peer(t), m) # 0
    BY DEF Exposure
  <2>1. n \in 1 .. Steps
    BY SentType DEF IInv
  <2>2. PaidFor(t, m)
    BY DEF IInv, ExposureFinal
  <2> QED BY <2>1, <2>2, ConfirmedIsFound DEF IInv
<1> QED BY InitIInv, StepIInv, <1>1, PTL DEF Spec

-----------------------------------------------------------------------------
(* Paid once: the strengthening *)

\* A trader for whom the code keeps a step from being paid twice.
Careful(t) == Honest(t) /\ (t = "buyer" \/ calm)

\* Everything of a trader that is on a ledger or may get there.
Out(t) == Applied(t) \cup InFlight(t)

\* Another spending has taken the payment's sequence number.
Dead(t, p) == \E q \in Applied(t) : q.seq = p.seq /\ q.step = 0

\* A ledger takes sequence numbers in order, without gaps, each once.
SeqsInOrder(t) ==
    /\ \A p, q \in Applied(t) : p.seq = q.seq => p = q
    /\ \A p \in Applied(t) : \A s \in 1 .. p.seq : \E q \in Applied(t) : q.seq = s

\* On the LAPSE chain the older payment is the deeper one.
DepthsInOrder(C) ==
    \A x, y \in C : /\ x.seq = y.seq => x = y
                    /\ x.seq < y.seq => x.depth >= y.depth

\* What waits in an honest seller's pool may still be mined.
PoolAhead == Honest("seller") => \A p \in pool : p.seq > LastSeq("seller")

\* What is late is not on its way; no envelope of the buyer's skips a number.
LateIsOut ==
    Honest("buyer") =>
        /\ late \cap Out("buyer") = {}
        /\ \A p \in late : p.step # 0
        /\ \A n \in 1 .. Steps : rows["buyer"][n].env <= LastSeq("buyer") + 1

LedgersInOrder ==
    SeqsInOrder("seller") /\ SeqsInOrder("buyer") /\ DepthsInOrder(chain) /\ PoolAhead /\ LateIsOut

\* The row names every payment of the step that can still be applied.
HashNames(t) ==
    \A p \in Out(t) : p.step # 0 => p.seq = rows[t][p.step].hash \/ Dead(t, p)

\* The envelope is of the transaction recorded; without one, none can be applied.
EnvIsHash(t) ==
    \A n \in 1 .. Steps :
        /\ rows[t][n].env # 0 => rows[t][n].env = rows[t][n].hash
        /\ rows[t][n].env = 0 => \A p \in Out(t) : p.step = n => Dead(t, p)
        /\ rows[t][n].out \in {"PENDING", "DEAD"} => rows[t][n].env = 0

\* A transaction is recorded when every step below is settled, by another one.
StepByStep(t) ==
    \A n \in 1 .. Steps : rows[t][n].hash # 0 =>
        \A m \in 1 .. n - 1 : Settled(rows[t][m]) /\ rows[t][m].hash # rows[t][n].hash

\* What the worker's place in its pass says of the answers it was given.
Asked(t) ==
    /\ pc[t] = "build" => rows[t][Current(t)].env = 0
    /\ t = "seller" /\ pc[t] \in {"resend", "consumed"} =>
          \A p \in Applied(t) : p.step # Current(t)
    /\ t = "buyer" /\ pc[t] = "consumed" =>
          Envelope(t, Current(t)) \in late \/ Dead(t, Envelope(t, Current(t)))

Rows(t) == HashNames(t) /\ EnvIsHash(t) /\ StepByStep(t)
Written == \A t \in Traders : Careful(t) => Rows(t) /\ Asked(t)

OnceInv == IInv /\ LedgersInOrder /\ Written

-----------------------------------------------------------------------------
(* The ledgers in order *)

\* What a row holds.
LEMMA RowType ==
    ASSUME TypeOK, NEW t \in Traders, NEW n \in 1 .. Steps
    PROVE  /\ rows[t][n] \in Row
           /\ rows[t][n].env \in 0 .. MaxSeq /\ rows[t][n].hash \in 0 .. MaxSeq
<1>1. rows[t][n] \in Row
  BY DEF TypeOK
<1> QED BY <1>1 DEF Row

\* Every number up to a trader's last one is taken.
LEMMA SeqTaken ==
    ASSUME TypeOK, NEW t \in Traders, SeqsInOrder(t), NEW s \in 1 .. LastSeq(t)
    PROVE  \E q \in Applied(t) : q.seq = s
<1>1. Applied(t) \subseteq Payment
  BY AppliedType
<1>2. LastSeq(t) \in 0 .. MaxSeq /\ (LastSeq(t) # 0 => \E p \in Applied(t) : p.seq = LastSeq(t))
  BY <1>1, HighestSeqIs DEF LastSeq
<1>3. LastSeq(t) # 0
  BY <1>2
<1> QED BY <1>2, <1>3 DEF SeqsInOrder

\* No payment on a ledger has a number above the last one.
LEMMA SeqsUpToLast ==
    ASSUME TypeOK, NEW t \in Traders, NEW p \in Applied(t)
    PROVE  p \in Payment /\ p.seq \in 1 .. MaxSeq /\ p.seq <= LastSeq(t)
<1>1. Applied(t) \subseteq Payment
  BY AppliedType
<1> QED BY <1>1, HighestSeqIs DEF LastSeq, Payment

\* The nonce of a new payment is above everything on the chain.
LEMMA NonceIsNew ==
    ASSUME TypeOK
    PROVE  NextNonce > LastSeq("seller")
<1>1. pool \subseteq Payment
  BY DEF TypeOK
<1>2. PICK L, H : L = LastSeq("seller") /\ H = HighestSeq(pool)
  OBVIOUS
<1>3. L \in 0 .. MaxSeq /\ H \in 0 .. MaxSeq
  BY <1>1, <1>2, HighestSeqIs, LastSeqType
<1>4. {L, H} \subseteq 0 .. MaxSeq /\ L \in {L, H}
  BY <1>3
<1>5. Max({L, H}) \in {L, H} /\ L <= Max({L, H})
  BY <1>4, MaxIsGreatest
<1>6. NextNonce = Max({L, H}) + 1
  BY <1>2 DEF NextNonce
<1> QED BY <1>2, <1>3, <1>5, <1>6

\* A payment with the next number keeps the order.
LEMMA NextSeqInOrder ==
    ASSUME TypeOK, NEW t \in Traders, SeqsInOrder(t), NEW p \in Payment,
           p.seq = LastSeq(t) + 1, Applied(t)' = Applied(t) \cup {p}
    PROVE  SeqsInOrder(t)' /\ LastSeq(t)' = p.seq
<1>1. PICK A, L : A = Applied(t) /\ L = LastSeq(t)
  OBVIOUS
<1>2. A \subseteq Payment /\ L \in 0 .. MaxSeq /\ \A q \in A : q.seq <= L
  BY <1>1, AppliedType, LastSeqType, SeqsUpToLast
<1>3. \A s \in 1 .. L : \E q \in A : q.seq = s
  BY <1>1, SeqTaken
<1>4. \A q \in A : q.seq \in 1 .. MaxSeq /\ q.seq # p.seq
  BY <1>1, <1>2 DEF Payment
<1>5. \A q, r \in A \cup {p} : q.seq = r.seq => q = r
  BY <1>1, <1>4 DEF SeqsInOrder
<1>6. \A q \in A \cup {p} : \A s \in 1 .. q.seq : \E r \in A \cup {p} : r.seq = s
  BY <1>1, <1>2, <1>3, <1>4
<1>7. SeqsInOrder(t)'
  BY <1>1, <1>5, <1>6 DEF SeqsInOrder
<1>8. HighestSeq(A \cup {p}) = p.seq
  <2>1. PICK h : h = HighestSeq(A \cup {p})
    OBVIOUS
  <2>2. A \cup {p} \subseteq Payment
    BY <1>2
  <2>3. h \in 0 .. MaxSeq /\ p.seq <= h /\ (h # 0 => \E q \in A \cup {p} : q.seq = h)
    BY <2>1, <2>2, HighestSeqIs
  <2>4. p.seq \in 1 .. MaxSeq
    BY DEF Payment
  <2>5. h # 0
    BY <2>3, <2>4
  <2>6. PICK q \in A \cup {p} : q.seq = h
    BY <2>3, <2>5
  <2>7. q.seq <= p.seq
    BY <1>1, <1>2, <1>4, <2>4
  <2> QED BY <2>1, <2>3, <2>4, <2>6, <2>7
<1> QED BY <1>1, <1>7, <1>8 DEF LastSeq

\* So does ageing, and a block with the next payment.
LEMMA AgedInOrder ==
    ASSUME TypeOK, DepthsInOrder(chain)
    PROVE  DepthsInOrder(Aged(chain))
<1> DEFINE Kept == [step : 0 .. Steps, seq : 1 .. MaxSeq, depth : 1 .. Depth]
           age(x) == [x EXCEPT !.depth = IF @ < Depth THEN @ + 1 ELSE @]
<1>1. \A x \in Kept : /\ age(x).seq = x.seq
                      /\ age(x).depth = IF x.depth < Depth THEN x.depth + 1 ELSE x.depth
  OBVIOUS
<1>2. chain \subseteq Kept /\ Aged(chain) = {age(x) : x \in chain}
  BY DEF TypeOK, Aged
<1>3. \A x \in Kept : x.seq \in 1 .. MaxSeq /\ x.depth \in 1 .. Depth
  OBVIOUS
<1> HIDE DEF age, Kept
<1>4. ASSUME NEW x \in chain, NEW y \in chain
      PROVE  /\ age(x).seq = age(y).seq => age(x) = age(y)
             /\ age(x).seq < age(y).seq => age(x).depth >= age(y).depth
  BY <1>1, <1>2, <1>3 DEF DepthsInOrder
<1> QED BY <1>2, <1>4 DEF DepthsInOrder

\* A ledger with the same payments is in the same order.
LEMMA SameSeqs ==
    ASSUME NEW t \in Traders, Applied(t)' = Applied(t)
    PROVE  LastSeq(t)' = LastSeq(t) /\ (SeqsInOrder(t) => SeqsInOrder(t)')
BY DEF LastSeq, SeqsInOrder

\* What a block with a payment does to the chain.
LEMMA MineApplies ==
    ASSUME TypeOK, NEW p \in Payment, Mine(p)
    PROVE  LET x == [step |-> p.step, seq |-> p.seq, depth |-> 1]
           IN  /\ chain' = Aged(chain) \cup {x} /\ Plain(x) = p
               /\ Applied("seller")' = Applied("seller") \cup {p}
               /\ Applied("buyer")' = Applied("buyer")
<1> DEFINE x == [step |-> p.step, seq |-> p.seq, depth |-> 1]
<1>1. Plain(x) = p
  BY DEF Payment, Plain
<1>2. chain' = Aged(chain) \cup {x}
  BY DEF Mine
<1> HIDE DEF x
<1>3. Applied("seller")' = Applied("seller") \cup {p}
  BY <1>1, <1>2, AgedKeeps DEF Applied
<1>4. Applied("buyer")' = Applied("buyer")
  BY DEF Applied, Mine, stellarVars
<1> QED BY <1>1, <1>2, <1>3, <1>4 DEF x

\* A block with a payment keeps the ledgers in order.
LEMMA MineOrder ==
    ASSUME IInv, LedgersInOrder, NEW p \in Payment, Mine(p)
    PROVE  LedgersInOrder'
<1>0. TypeOK /\ UNCHANGED <<rogue, stellar, flying, late, rows>>
  BY DEF IInv, Mine, stellarVars, world
<1> DEFINE x == [step |-> p.step, seq |-> p.seq, depth |-> 1]
<1>1. /\ chain' = Aged(chain) \cup {x} /\ Plain(x) = p
      /\ Applied("seller")' = Applied("seller") \cup {p}
      /\ Applied("buyer")' = Applied("buyer")
  BY <1>0, MineApplies
<1>2. p.seq = LastSeq("seller") + 1 /\ pool' = {q \in pool : q.seq > p.seq}
  BY DEF Mine
<1>3. SeqsInOrder("seller")' /\ LastSeq("seller")' = p.seq
  BY <1>0, <1>1, <1>2, NextSeqInOrder DEF LedgersInOrder
<1>4. SeqsInOrder("buyer")' /\ LastSeq("buyer")' = LastSeq("buyer")
  BY <1>1, SameSeqs DEF LedgersInOrder
<1>5. DepthsInOrder(chain')
  <2>1. DepthsInOrder(Aged(chain))
    BY <1>0, AgedInOrder DEF LedgersInOrder
  <2>2. \A y \in Aged(chain) : y.seq < p.seq /\ y.depth >= 1
    <3> TAKE y \in Aged(chain)
    <3>1. y \in [step : 0 .. Steps, seq : 1 .. MaxSeq, depth : 1 .. Depth]
      BY <1>0, AgedKeeps
    <3>2. Plain(y) \in Applied("seller")
      BY <1>0, AgedKeeps DEF Applied
    <3>3. Plain(y).seq <= LastSeq("seller")
      BY <1>0, <3>2, SeqsUpToLast
    <3>4. LastSeq("seller") \in 0 .. MaxSeq
      BY <1>0, LastSeqType
    <3> QED BY <1>2, <3>1, <3>3, <3>4 DEF Plain
  <2>3. x.seq = p.seq /\ x.depth = 1 /\ p.seq \in Int
    BY DEF Payment
  <2> HIDE DEF x
  <2>4. \A y \in Aged(chain) : y.seq \in Int
    BY <1>0, AgedKeeps
  <2> QED BY <1>1, <2>1, <2>2, <2>3, <2>4 DEF DepthsInOrder
<1>6. PoolAhead'
  BY <1>2, <1>3 DEF PoolAhead
<1>7. LateIsOut'
  BY <1>0, <1>1, <1>4 DEF LedgersInOrder, LateIsOut, Honest, Out, InFlight
<1> QED BY <1>3, <1>4, <1>5, <1>6, <1>7 DEF LedgersInOrder

\* So does one without.
LEMMA MineEmptyOrder ==
    ASSUME IInv, LedgersInOrder, MineEmpty
    PROVE  LedgersInOrder'
<1>0. TypeOK /\ UNCHANGED <<rogue, pool, stellar, flying, late, rows>>
  BY DEF IInv, MineEmpty, stellarVars, world
<1>1. chain' = Aged(chain)
  BY DEF MineEmpty
<1>2. \A t \in Traders : Applied(t)' = Applied(t)
  BY <1>0, <1>1, AgedKeeps DEF Applied
<1>3. \A t \in Traders : LastSeq(t)' = LastSeq(t) /\ SeqsInOrder(t)'
  BY <1>2, SameSeqs DEF LedgersInOrder
<1>4. DepthsInOrder(chain')
  BY <1>0, <1>1, AgedInOrder DEF LedgersInOrder
<1>5. PoolAhead'
  BY <1>0, <1>3 DEF LedgersInOrder, PoolAhead, Honest
<1>6. LateIsOut'
  BY <1>0, <1>2, <1>3 DEF LedgersInOrder, LateIsOut, Honest, Out, InFlight
<1> QED BY <1>3, <1>4, <1>5, <1>6 DEF LedgersInOrder

\* So does a reorganisation: it takes back the highest numbers.
LEMMA ReorgOrder ==
    ASSUME IInv, LedgersInOrder, NEW k \in 1 .. MaxReorg, Reorg(k)
    PROVE  LedgersInOrder'
<1>0. TypeOK /\ UNCHANGED <<rogue, stellar, flying, late, rows>>
  BY DEF IInv, Reorg, stellarVars, world
<1>1. PICK gone : gone = {x \in chain : x.depth <= k}
  OBVIOUS
<1>2. chain' = chain \ gone /\ (pool' = pool \/ pool' = pool \cup {Plain(x) : x \in gone})
  BY <1>1 DEF Reorg
<1>3. \A x \in chain : x.seq \in 1 .. MaxSeq /\ x.depth \in 1 .. Depth /\ (x \in gone <=> x.depth <= k)
  BY <1>0, <1>1 DEF TypeOK
<1>4. \A x \in gone, y \in chain' : x.seq > y.seq
  <2> TAKE x \in gone, y \in chain'
  <2>1. x \in chain /\ y \in chain /\ x.depth < y.depth /\ x # y
    BY <1>1, <1>2, <1>3
  <2> QED BY <1>3, <2>1 DEF LedgersInOrder, DepthsInOrder
<1>5. SeqsInOrder("seller")'
  <2>1. \A p, q \in Applied("seller")' : p.seq = q.seq => p = q
    BY <1>2 DEF LedgersInOrder, SeqsInOrder, Applied
  <2>2. ASSUME NEW p \in Applied("seller")', NEW s \in 1 .. p.seq
        PROVE  \E q \in Applied("seller")' : q.seq = s
    <3>1. PICK y \in chain' : p = Plain(y)
      BY DEF Applied
    <3>2. p \in Applied("seller") /\ p.seq = y.seq
      BY <1>2, <3>1 DEF Applied, Plain
    <3>3. PICK q \in Applied("seller") : q.seq = s
      BY <3>2 DEF LedgersInOrder, SeqsInOrder
    <3>4. PICK x \in chain : q = Plain(x)
      BY <3>3 DEF Applied
    <3>5. x.seq = s /\ s <= y.seq
      BY <3>2, <3>3, <3>4 DEF Plain
    <3>6. x \notin gone
      BY <1>2, <1>3, <1>4, <3>5
    <3>7. x \in chain'
      BY <1>2, <3>6
    <3> QED BY <3>3, <3>4, <3>7 DEF Applied
  <2> QED BY <2>1, <2>2 DEF SeqsInOrder
<1>6. DepthsInOrder(chain')
  BY <1>2 DEF LedgersInOrder, DepthsInOrder
<1>7. Applied("buyer")' = Applied("buyer")
  BY <1>0 DEF Applied
<1>8. SeqsInOrder("buyer")' /\ LastSeq("buyer")' = LastSeq("buyer")
  BY <1>7, SameSeqs DEF LedgersInOrder
<1>9. PoolAhead'
  <2>1. Applied("seller")' \subseteq Applied("seller") /\ Applied("seller") \subseteq Payment
    BY <1>0, <1>2, AppliedType DEF Applied
  <2>2. PICK L, M : L = LastSeq("seller") /\ M = LastSeq("seller")'
    OBVIOUS
  <2>3. M = HighestSeq(Applied("seller")')
    BY <2>2 DEF LastSeq
  <2>4. L \in 0 .. MaxSeq /\ M \in 0 .. MaxSeq /\ (M # 0 => \E q \in Applied("seller")' : q.seq = M)
    BY <1>0, <2>1, <2>2, <2>3, LastSeqType, HighestSeqIs
  <2>5. \A q \in Applied("seller")' : q.seq <= L
    BY <1>0, <2>1, <2>2, SeqsUpToLast
  <2>6. M <= L
    BY <2>4, <2>5
  <2>7. \A x \in gone : Plain(x).seq > M
    <3> TAKE x \in gone
    <3>1. Plain(x).seq = x.seq /\ x.seq \in 1 .. MaxSeq
      BY <1>1, <1>3 DEF Plain
    <3>2. CASE M # 0
      <4>1. PICK q \in Applied("seller")' : q.seq = M
        BY <2>4, <3>2
      <4>2. PICK y \in chain' : q = Plain(y)
        BY <4>1 DEF Applied
      <4> QED BY <1>4, <3>1, <4>1, <4>2 DEF Plain
    <3> QED BY <3>1, <3>2
  <2>8. Honest("seller") => \A p \in pool : p.seq > M
    <3>1. \A p \in pool : p.seq \in Int
      BY <1>0 DEF TypeOK, Payment
    <3> QED BY <2>2, <2>4, <2>6, <3>1 DEF LedgersInOrder, PoolAhead
  <2> QED BY <1>0, <1>2, <2>2, <2>7, <2>8 DEF PoolAhead, Honest
<1>10. LateIsOut'
  BY <1>0, <1>7, <1>8 DEF LedgersInOrder, LateIsOut, Honest, Out, InFlight
<1> QED BY <1>5, <1>6, <1>8, <1>9, <1>10 DEF LedgersInOrder

\* So does a payment that Stellar takes.
LEMMA PaidOrder ==
    ASSUME TypeOK, LedgersInOrder, UNCHANGED <<world, chain, pool, late>>,
           NEW p \in Payment, p.seq = LastSeq("buyer") + 1, stellar' = stellar \cup {p},
           flying' \subseteq flying, Honest("buyer") => p \notin late,
           \A n \in 1 .. Steps : rows'["buyer"][n].env = rows["buyer"][n].env
    PROVE  LedgersInOrder'
<1>1. Applied("buyer")' = Applied("buyer") \cup {p} /\ Applied("seller")' = Applied("seller")
  BY DEF Applied
<1>2. SeqsInOrder("buyer")' /\ LastSeq("buyer")' = p.seq
  BY <1>1, NextSeqInOrder DEF LedgersInOrder
<1>3. SeqsInOrder("seller")' /\ LastSeq("seller")' = LastSeq("seller")
  BY <1>1, SameSeqs DEF LedgersInOrder
<1>4. PoolAhead'
  BY <1>3 DEF LedgersInOrder, PoolAhead, Honest, world
<1>5. LateIsOut'
  <2>1. LastSeq("buyer") \in 0 .. MaxSeq
    BY LastSeqType
  <2>2. \A n \in 1 .. Steps : rows["buyer"][n].env \in Int
    BY RowType
  <2>3. Out("buyer")' \subseteq Out("buyer") \cup {p}
    BY <1>1 DEF Out, InFlight
  <2>4. (\A n \in 1 .. Steps : rows["buyer"][n].env <= LastSeq("buyer") + 1)
        => \A n \in 1 .. Steps : rows'["buyer"][n].env <= LastSeq("buyer")' + 1
    BY <1>2, <2>1, <2>2
  <2> QED BY <2>3, <2>4 DEF LedgersInOrder, LateIsOut, Honest, world
<1> QED BY <1>2, <1>3, <1>4, <1>5 DEF LedgersInOrder

\* So does any step that leaves what the ledgers have decided alone.
LEMMA UndecidedOrder ==
    ASSUME TypeOK, LedgersInOrder, UNCHANGED <<world, chain, stellar>>,
           Honest("seller") => \A p \in pool' : p \in pool \/ p.seq > LastSeq("seller"),
           Honest("buyer") => /\ late' \cap Out("buyer")' = {}
                              /\ \A p \in late' : p.step # 0
                              /\ \A n \in 1 .. Steps : rows'["buyer"][n].env <= LastSeq("buyer") + 1
    PROVE  LedgersInOrder'
<1>1. \A t \in Traders : Applied(t)' = Applied(t)
  BY DEF Applied
<1>2. \A t \in Traders : SeqsInOrder(t)' /\ LastSeq(t)' = LastSeq(t)
  BY <1>1, SameSeqs DEF LedgersInOrder
<1>3. PoolAhead'
  BY <1>2 DEF LedgersInOrder, PoolAhead, Honest, world
<1>4. LateIsOut'
  BY <1>2 DEF LateIsOut, Honest, world
<1> QED BY <1>2, <1>3, <1>4 DEF LedgersInOrder

-----------------------------------------------------------------------------
(* What the rows name *)

\* What is on a ledger, or may still get there, the row names.
LEMMA AliveIsHash ==
    ASSUME TypeOK, NEW t \in Traders, SeqsInOrder(t), HashNames(t),
           NEW p \in Out(t), p.step # 0, p \in Applied(t) \/ p.seq > LastSeq(t)
    PROVE  p.seq = rows[t][p.step].hash
<1> SUFFICES ASSUME Dead(t, p) PROVE FALSE
  BY DEF HashNames
<1>1. PICK q \in Applied(t) : q.seq = p.seq /\ q.step = 0
  BY DEF Dead
<1>2. CASE p \in Applied(t)
  BY <1>1, <1>2 DEF SeqsInOrder
<1>3. CASE p.seq > LastSeq(t)
  <2>1. q.seq <= LastSeq(t) /\ q.seq \in Int /\ LastSeq(t) \in Int
    BY SeqsUpToLast, LastSeqType
  <2> QED BY <1>1, <1>3, <2>1
<1> QED BY <1>2, <1>3

\* So a search of the ledger finds the transaction recorded, or nothing.
LEMMA FoundIsHash ==
    ASSUME TypeOK, NEW t \in Traders, SeqsInOrder(t), HashNames(t), NEW n \in 1 .. Steps,
           Found(t, n) # 0
    PROVE  Found(t, n) = rows[t][n].hash
<1>1. PICK p \in Applied(t) : p.step = n /\ p.seq = Found(t, n)
  <2>1. PICK S : S = {p \in Applied(t) : p.step = n}
    OBVIOUS
  <2>2. S \subseteq Payment
    BY <2>1, AppliedType
  <2>3. Found(t, n) = HighestSeq(S)
    BY <2>1 DEF Found
  <2> QED BY <2>1, <2>2, <2>3, HighestSeqIs
<1> QED BY <1>1, AliveIsHash DEF Out

\* One that finds nothing has missed nothing.
LEMMA NothingFound ==
    ASSUME TypeOK, NEW t \in Traders, NEW n \in 1 .. Steps, Found(t, n) = 0
    PROVE  \A p \in Applied(t) : p.step # n
<1>1. PICK S : S = {p \in Applied(t) : p.step = n}
  OBVIOUS
<1>2. S \subseteq Payment /\ HighestSeq(S) = 0
  BY <1>1, AppliedType DEF Found
<1>3. \A p \in S : p.seq <= 0 /\ p.seq \in 1 .. MaxSeq
  BY <1>2, HighestSeqIs DEF Payment
<1> QED BY <1>1, <1>3

\* Above the step a worker stands on nothing is recorded.
LEMMA NoneAbove ==
    ASSUME TypeOK, NEW t \in Traders, Open(t) # {}, NEW n, n = Current(t), StepByStep(t),
           NEW m \in 1 .. Steps, m > n
    PROVE  rows[t][m].hash = 0
<1>1. n \in 1 .. Steps /\ ~Settled(rows[t][n])
  BY CurrentIsFirst DEF Open
<1> QED BY <1>1 DEF StepByStep

\* An envelope whose number another payment has was not overtaken by a step of
\* the trade: those below have other numbers, and there are none above.
LEMMA TakenIsDead ==
    ASSUME TypeOK, NEW t \in Traders, SeqsInOrder(t), Rows(t), Open(t) # {},
           NEW n, n = Current(t), rows[t][n].env \in 1 .. LastSeq(t),
           Envelope(t, n) \notin Applied(t)
    PROVE  Dead(t, Envelope(t, n))
<1>1. n \in 1 .. Steps
  BY CurrentIsFirst
<1>2. PICK q \in Applied(t) : q.seq = rows[t][n].env
  BY SeqTaken
<1>3. q \in Payment
  BY SeqsUpToLast
<1>4. q.step # n
  BY <1>2, <1>3 DEF Envelope, Payment
<1>5. q.step = 0
  <2> SUFFICES ASSUME q.step # 0 PROVE FALSE
    OBVIOUS
  <2>1. PICK m : m = q.step
    OBVIOUS
  <2>2. m \in 1 .. Steps /\ m # n
    BY <1>3, <1>4, <2>1 DEF Payment
  <2>3. rows[t][m].hash = rows[t][n].env
    BY <1>2, <2>1, AliveIsHash DEF Out, Rows
  <2>4. rows[t][n].hash = rows[t][n].env /\ rows[t][n].env # 0
    BY <1>1 DEF Rows, EnvIsHash
  <2>5. ~(m < n)
    BY <1>1, <2>2, <2>3, <2>4 DEF Rows, StepByStep
  <2>6. ~(m > n)
    BY <2>2, <2>3, <2>4, NoneAbove DEF Rows
  <2> QED BY <1>1, <2>2, <2>5, <2>6
<1> QED BY <1>2, <1>5 DEF Dead, Envelope

\* When the envelope is dead, everything of its step is.
LEMMA AllDead ==
    ASSUME NEW t \in Traders, NEW n \in 1 .. Steps, Rows(t), rows[t][n].env # 0,
           Dead(t, Envelope(t, n)), NEW p \in Out(t), p.step = n
    PROVE  Dead(t, p)
<1>1. rows[t][n].env = rows[t][n].hash
  BY DEF Rows, EnvIsHash
<1> QED BY <1>1 DEF Rows, HashNames, Dead, Envelope

\* A spending outside the trade that is on a ledger stays there.
OthersStay(t) == \A q \in Applied(t) : q.step = 0 => q \in Applied(t)'

\* A step that is not the trader's worker's.
LEMMA WrittenStays ==
    ASSUME NEW t \in Traders, Rows(t), Asked(t), rows'[t] = rows[t],
           Out(t)' \subseteq Out(t) \cup {p \in Payment : p.step = 0}, OthersStay(t),
           t = "buyer" => late \subseteq late',
           pc'[t] = pc[t] \/ pc'[t] \notin {"resend", "consumed", "build"},
           pc'[t] = pc[t] /\ t = "seller" /\ pc[t] \in {"resend", "consumed"} =>
               Applied(t)' \subseteq Applied(t)
    PROVE  Rows(t)' /\ Asked(t)'
<1>1. \A p : Dead(t, p) => Dead(t, p)'
  BY DEF Dead, OthersStay
<1>2. HashNames(t)'
  BY <1>1 DEF Rows, HashNames
<1>3. EnvIsHash(t)'
  <2> SUFFICES ASSUME NEW n \in 1 .. Steps
               PROVE  /\ rows[t][n].env # 0 => rows[t][n].env = rows[t][n].hash
                      /\ rows[t][n].env = 0 => \A p \in Out(t)' : p.step = n => Dead(t, p)'
                      /\ rows[t][n].out \in {"PENDING", "DEAD"} => rows[t][n].env = 0
    BY DEF EnvIsHash
  <2>1. \A p \in Out(t)' : p.step = n => p \in Out(t)
    OBVIOUS
  <2> QED BY <1>1, <2>1 DEF Rows, EnvIsHash
<1>4. StepByStep(t)'
  BY DEF Rows, StepByStep
<1>5. Current(t)' = Current(t) /\ Envelope(t, Current(t))' = Envelope(t, Current(t))
  BY DEF Current, Open, Envelope
<1>6. Asked(t)'
  <2>1. CASE pc'[t] = pc[t]
    BY <1>1, <1>5, <2>1 DEF Asked
  <2>2. CASE pc'[t] \notin {"resend", "consumed", "build"}
    BY <2>2 DEF Asked
  <2> QED BY <2>1, <2>2
<1> QED BY <1>2, <1>3, <1>4, <1>6 DEF Rows

\* What the looks at the ledgers leave of a row.
Kept(o, r) ==
    /\ r.hash = o.hash /\ r.env = o.env
    /\ r.out \in {"PENDING", "DEAD"} => r.out = o.out

\* Rows that keep what they name, and what is settled, when nothing goes out
\* but envelopes.
LEMMA HashesKept ==
    ASSUME TypeOK, NEW t \in Traders, Rows(t), OthersStay(t),
           \A k \in 1 .. Steps : /\ Kept(rows[t][k], rows'[t][k])
                                 /\ Settled(rows[t][k]) => Settled(rows'[t][k]),
           \A p \in Out(t)' : \/ p \in Out(t)
                              \/ \E k \in 1 .. Steps : p = Envelope(t, k) /\ rows[t][k].env # 0
    PROVE  Rows(t)'
<1>1. \A k \in 1 .. Steps : rows'[t][k].hash = rows[t][k].hash /\ rows'[t][k].env = rows[t][k].env
  BY DEF Kept
<1>2. \A p : Dead(t, p) => Dead(t, p)'
  BY DEF Dead, OthersStay
<1>3. HashNames(t)'
  <2> SUFFICES ASSUME NEW p \in Out(t)', p.step # 0
               PROVE  p.seq = rows'[t][p.step].hash \/ Dead(t, p)'
    BY DEF HashNames
  <2>1. CASE p \in Out(t)
    <3>1. p.step \in 1 .. Steps
      BY <2>1, AppliedType DEF TypeOK, Out, InFlight, Payment
    <3> QED BY <1>1, <1>2, <2>1, <3>1 DEF Rows, HashNames
  <2>2. ASSUME NEW k \in 1 .. Steps, p = Envelope(t, k), rows[t][k].env # 0
        PROVE  p.seq = rows'[t][p.step].hash
    BY <1>1, <2>2 DEF Envelope, Rows, EnvIsHash
  <2> QED BY <2>1, <2>2
<1>4. EnvIsHash(t)'
  <2> SUFFICES ASSUME NEW k \in 1 .. Steps
               PROVE  /\ rows'[t][k].env # 0 => rows'[t][k].env = rows'[t][k].hash
                      /\ rows'[t][k].env = 0 => \A p \in Out(t)' : p.step = k => Dead(t, p)'
                      /\ rows'[t][k].out \in {"PENDING", "DEAD"} => rows'[t][k].env = 0
    BY DEF EnvIsHash
  <2>1. rows'[t][k].env # 0 => rows'[t][k].env = rows'[t][k].hash
    BY <1>1 DEF Rows, EnvIsHash
  <2>2. ASSUME rows'[t][k].env = 0, NEW p \in Out(t)', p.step = k
        PROVE  Dead(t, p)'
    <3>1. rows[t][k].env = 0
      BY <1>1, <2>2
    <3>2. p \in Out(t)
      BY <2>2, <3>1 DEF Envelope
    <3> QED BY <1>2, <2>2, <3>1, <3>2 DEF Rows, EnvIsHash
  <2>3. rows'[t][k].out \in {"PENDING", "DEAD"} => rows'[t][k].env = 0
    BY <1>1 DEF Kept, Rows, EnvIsHash
  <2> QED BY <2>1, <2>2, <2>3
<1>5. StepByStep(t)'
  <2> SUFFICES ASSUME NEW k \in 1 .. Steps, rows'[t][k].hash # 0, NEW m \in 1 .. k - 1
               PROVE  Settled(rows'[t][m]) /\ rows'[t][m].hash # rows'[t][k].hash
    BY DEF StepByStep
  <2>1. m \in 1 .. Steps
    OBVIOUS
  <2>2. Settled(rows[t][m]) /\ rows[t][m].hash # rows[t][k].hash
    BY <1>1 DEF Rows, StepByStep
  <2> QED BY <1>1, <2>1, <2>2
<1> QED BY <1>3, <1>4, <1>5 DEF Rows

\* A step of the worker that writes one row, and may have sent its envelope.
LEMMA HashKept ==
    ASSUME TypeOK, NEW t \in Traders, Rows(t), Open(t) # {}, NEW n, n = Current(t),
           NEW r \in Row, rows' = [rows EXCEPT ![t][n] = r], Kept(rows[t][n], r),
           OthersStay(t), Out(t)' \subseteq Out(t) \cup {Envelope(t, n)},
           rows[t][n].env = 0 => Out(t)' \subseteq Out(t)
    PROVE  Rows(t)'
<1>1. n \in 1 .. Steps /\ ~Settled(rows[t][n])
  BY CurrentIsFirst DEF Open
<1>2. \A k \in 1 .. Steps : rows'[t][k] = IF k = n THEN r ELSE rows[t][k]
  BY <1>1 DEF TypeOK
<1>3. \A k \in 1 .. Steps : /\ Kept(rows[t][k], rows'[t][k])
                            /\ Settled(rows[t][k]) => Settled(rows'[t][k])
  BY <1>1, <1>2 DEF Kept
<1>4. \A p \in Out(t)' : p \in Out(t) \/ (p = Envelope(t, n) /\ rows[t][n].env # 0)
  OBVIOUS
<1> QED BY <1>1, <1>3, <1>4, HashesKept

\* A step of the worker that replaces a row none of whose payments can apply.
LEMMA RowReset ==
    ASSUME TypeOK, NEW t \in Traders, Rows(t), Open(t) # {}, NEW n, n = Current(t),
           NEW r \in Row, rows' = [rows EXCEPT ![t][n] = r],
           Applied(t)' = Applied(t), Out(t)' = Out(t),
           \A p \in Out(t) : p.step = n => Dead(t, p),
           r.env # 0 => r.env = r.hash, r.out \in {"PENDING", "DEAD"} => r.env = 0,
           r.hash # 0 => \A m \in 1 .. n - 1 : rows[t][m].hash # r.hash
    PROVE  Rows(t)'
<1>1. n \in 1 .. Steps /\ \A m \in 1 .. Steps : m < n => Settled(rows[t][m])
  BY CurrentIsFirst
<1>2. \A k \in 1 .. Steps : rows'[t][k] = IF k = n THEN r ELSE rows[t][k]
  BY <1>1 DEF TypeOK
<1>3. \A p : Dead(t, p) => Dead(t, p)'
  BY DEF Dead
<1>4. HashNames(t)'
  <2> SUFFICES ASSUME NEW p \in Out(t), p.step # 0
               PROVE  p.seq = rows'[t][p.step].hash \/ Dead(t, p)'
    BY DEF HashNames
  <2>1. p.step \in 1 .. Steps
    BY AppliedType DEF TypeOK, Out, InFlight, Payment
  <2> QED BY <1>2, <1>3, <2>1 DEF Rows, HashNames
<1>5. EnvIsHash(t)'
  <2> SUFFICES ASSUME NEW k \in 1 .. Steps
               PROVE  /\ rows'[t][k].env # 0 => rows'[t][k].env = rows'[t][k].hash
                      /\ rows'[t][k].env = 0 => \A p \in Out(t) : p.step = k => Dead(t, p)'
                      /\ rows'[t][k].out \in {"PENDING", "DEAD"} => rows'[t][k].env = 0
    BY DEF EnvIsHash
  <2> QED BY <1>2, <1>3 DEF Rows, EnvIsHash
<1>6. StepByStep(t)'
  <2> SUFFICES ASSUME NEW k \in 1 .. Steps, rows'[t][k].hash # 0, NEW m \in 1 .. k - 1
               PROVE  Settled(rows'[t][m]) /\ rows'[t][m].hash # rows'[t][k].hash
    BY DEF StepByStep
  <2>1. k <= n
    BY <1>1, <1>2, NoneAbove DEF Rows
  <2>2. m \in 1 .. Steps /\ m < n /\ rows'[t][m] = rows[t][m]
    BY <1>1, <1>2, <2>1
  <2>3. CASE k = n
    BY <1>1, <1>2, <2>2, <2>3
  <2>4. CASE k # n
    BY <1>2, <2>2, <2>4 DEF Rows, StepByStep
  <2> QED BY <2>3, <2>4
<1> QED BY <1>4, <1>5, <1>6 DEF Rows

-----------------------------------------------------------------------------
(* The steps, for what is written down *)

\* What a step that is not a worker's leaves of what is written.
LEMMA LedgerWritten ==
    ASSUME Written, UNCHANGED <<world, rows>>, late \subseteq late',
           \A t \in Traders : pc'[t] = pc[t] \/ pc'[t] \notin {"resend", "consumed", "build"},
           \A t \in Traders : Careful(t) =>
               /\ Out(t)' \subseteq Out(t) \cup {p \in Payment : p.step = 0}
               /\ OthersStay(t),
           Careful("seller") /\ pc["seller"] \in {"resend", "consumed"} =>
               Applied("seller")' \subseteq Applied("seller")
    PROVE  Written'
<1> SUFFICES ASSUME NEW t \in Traders, Careful(t)'
             PROVE  Rows(t)' /\ Asked(t)'
  BY DEF Written
<1>1. Careful(t)
  BY DEF Careful, Honest, world
<1> QED BY <1>1, WrittenStays DEF Written

\* A block with a payment.
LEMMA MineOnce ==
    ASSUME OnceInv, NEW p \in Payment, Mine(p)
    PROVE  LedgersInOrder' /\ Written'
<1>0. TypeOK /\ UNCHANGED <<world, gossiped, stellar, flying, late, rows, pc>>
  BY DEF OnceInv, IInv, Mine, stellarVars
<1>1. Applied("seller")' = Applied("seller") \cup {p} /\ Applied("buyer")' = Applied("buyer")
  BY <1>0, MineApplies
<1>2. Honest("seller") => p \in gossiped
  BY DEF Mine, Honest
<1>3. \A t \in Traders : Careful(t) =>
          /\ Out(t)' \subseteq Out(t) \cup {q \in Payment : q.step = 0}
          /\ OthersStay(t)
  BY <1>0, <1>1, <1>2 DEF Careful, Out, InFlight, OthersStay
<1>4. ~(Careful("seller") /\ pc["seller"] \in {"resend", "consumed"})
  BY DEF Mine, Undisturbed, MidPass, Careful
<1>5. Written'
  BY <1>0, <1>3, <1>4, LedgerWritten DEF OnceInv
<1> QED BY <1>5, MineOrder DEF OnceInv

\* A block without.
LEMMA MineEmptyOnce ==
    ASSUME OnceInv, MineEmpty
    PROVE  LedgersInOrder' /\ Written'
<1>0. TypeOK /\ UNCHANGED <<world, gossiped, stellar, flying, late, rows, pc>>
  BY DEF OnceInv, IInv, MineEmpty, stellarVars
<1>1. \A t \in Traders : Applied(t)' = Applied(t)
  BY <1>0, AgedKeeps DEF Applied, MineEmpty
<1>2. \A t \in Traders : Out(t)' = Out(t) /\ OthersStay(t)
  BY <1>0, <1>1 DEF Out, InFlight, OthersStay
<1>3. Written'
  BY <1>0, <1>1, <1>2, LedgerWritten DEF OnceInv
<1> QED BY <1>3, MineEmptyOrder DEF OnceInv

\* A reorganisation: in a calm world it takes back payments of the trade only.
LEMMA ReorgOnce ==
    ASSUME OnceInv, NEW k \in 1 .. MaxReorg, Reorg(k)
    PROVE  LedgersInOrder' /\ Written'
<1>0. TypeOK /\ UNCHANGED <<world, gossiped, stellar, flying, late, rows, pc>>
  BY DEF OnceInv, IInv, Reorg, stellarVars
<1>1. PICK gone : gone = {x \in chain : x.depth <= k}
  OBVIOUS
<1>2. chain' = chain \ gone /\ (calm => \A x \in gone : x.step # 0)
  BY <1>1 DEF Reorg
<1>3. Applied("seller")' \subseteq Applied("seller") /\ Applied("buyer")' = Applied("buyer")
  BY <1>0, <1>2 DEF Applied
<1>4. \A t \in Traders : Out(t)' \subseteq Out(t)
  BY <1>0, <1>3 DEF Out, InFlight
<1>5. OthersStay("buyer") /\ (calm => OthersStay("seller"))
  BY <1>2, <1>3 DEF OthersStay, Applied, Plain
<1>6. \A t \in Traders : Careful(t) => OthersStay(t)
  BY <1>5 DEF Careful
<1>7. Written'
  BY <1>0, <1>3, <1>4, <1>6, LedgerWritten DEF OnceInv
<1> QED BY <1>7, ReorgOrder DEF OnceInv

\* What leaves a pool, a decision of Stellar's, a time bound, a rogue's payment.
LEMMA LedgersOnce ==
    ASSUME OnceInv, NEW x,
           \/ x \in Payment /\ (Drop(x) \/ Decide(x))
           \/ x \in 1 .. Steps /\ (Expire(x) \/ RoguePays(x))
    PROVE  LedgersInOrder' /\ Written'
<1>0. TypeOK
  BY DEF OnceInv, IInv
<1>1. CASE x \in Payment /\ Drop(x)
  <2>1. UNCHANGED <<world, chain, gossiped, stellar, flying, late, rows, pc>> /\ pool' \subseteq pool
    BY <1>1 DEF Drop, stellarVars
  <2>2. \A t \in Traders : Applied(t)' = Applied(t) /\ Out(t)' = Out(t)
    BY <2>1 DEF Applied, Out, InFlight
  <2>3. Written'
    BY <2>1, <2>2, LedgerWritten DEF OnceInv, OthersStay
  <2>4. LedgersInOrder'
    BY <1>0, <2>1, <2>2, UndecidedOrder DEF OnceInv, LedgersInOrder, LateIsOut
  <2> QED BY <2>3, <2>4
<1>2. CASE x \in Payment /\ Decide(x)
  <2>1. /\ UNCHANGED <<world, chain, pool, gossiped, late, rows, pc>>
        /\ stellar' = stellar \cup {x} /\ flying' \subseteq flying
        /\ x \in flying /\ x.seq = LastSeq("buyer") + 1
    BY <1>2 DEF Decide, lapseVars
  <2>2. \A t \in Traders : Out(t)' \subseteq Out(t) /\ OthersStay(t)
    BY <2>1 DEF Applied, Out, InFlight, OthersStay
  <2>3. Applied("seller")' = Applied("seller")
    BY <2>1 DEF Applied
  <2>4. Written'
    BY <2>1, <2>2, <2>3, LedgerWritten DEF OnceInv
  <2>5. Honest("buyer") => x \notin late
    BY <2>1 DEF OnceInv, LedgersInOrder, LateIsOut, Out, InFlight
  <2>6. LedgersInOrder'
    BY <1>0, <1>2, <2>1, <2>5, PaidOrder DEF OnceInv
  <2> QED BY <2>4, <2>6
<1>3. CASE x \in 1 .. Steps /\ Expire(x)
  <2>1. PICK p : p = [step |-> x, seq |-> rows["buyer"][x].env]
    OBVIOUS
  <2>2. /\ UNCHANGED <<world, chain, pool, gossiped, stellar, rows, pc>>
        /\ p \notin stellar /\ late' = late \cup {p} /\ flying' = flying \ {p}
    BY <1>3, <2>1 DEF Expire, lapseVars
  <2>3. \A t \in Traders : Applied(t)' = Applied(t) /\ Out(t)' \subseteq Out(t)
    BY <2>2 DEF Applied, Out, InFlight
  <2>4. Written'
    BY <2>2, <2>3, LedgerWritten DEF OnceInv, OthersStay
  <2>5. p.step # 0 /\ p \notin Out("buyer")'
    BY <1>3, <2>1, <2>2 DEF Out, Applied, InFlight
  <2>6. LedgersInOrder'
    BY <1>0, <2>2, <2>3, <2>5, UndecidedOrder DEF OnceInv, LedgersInOrder, LateIsOut
  <2> QED BY <2>4, <2>6
<1>4. CASE x \in 1 .. Steps /\ RoguePays(x)
  <2>1. PICK p : p = [step |-> x, seq |-> LastSeq("buyer") + 1]
    OBVIOUS
  <2>2. /\ UNCHANGED <<world, chain, pool, gossiped, flying, late, rows, pc>>
        /\ rogue = "buyer" /\ stellar' = stellar \cup {p} /\ LastSeq("buyer") < MaxSeq
    BY <1>4, <2>1 DEF RoguePays, lapseVars
  <2>3. Applied("seller")' = Applied("seller") /\ Out("seller")' = Out("seller")
    BY <2>2 DEF Applied, Out, InFlight
  <2>4. ~Careful("buyer")
    BY <2>2 DEF Careful, Honest
  <2>5. Written'
    BY <2>2, <2>3, <2>4, LedgerWritten DEF OnceInv, OthersStay
  <2>6. LastSeq("buyer") \in 0 .. MaxSeq
    BY <1>0, LastSeqType
  <2>7. p \in Payment /\ p.seq = LastSeq("buyer") + 1
    BY <1>4, <2>1, <2>2, <2>6 DEF Payment
  <2>8. ~Honest("buyer")
    BY <2>2 DEF Honest
  <2>9. LedgersInOrder'
    BY <1>0, <2>2, <2>7, <2>8, PaidOrder DEF OnceInv
  <2> QED BY <2>5, <2>9
<1> QED BY <1>1, <1>2, <1>3, <1>4

\* A spending outside the trade takes the next number.
LEMMA OtherSpendOnce ==
    ASSUME OnceInv, NEW t \in Traders, OtherSpend(t)
    PROVE  LedgersInOrder' /\ Written'
<1>0. TypeOK /\ UNCHANGED <<world, chain, flying, late, rows, pc>>
  BY DEF OnceInv, IInv, OtherSpend
<1>1. CASE t = "seller"
  <2>1. PICK p : p = [step |-> 0, seq |-> NextNonce]
    OBVIOUS
  <2>2. pool' = pool \cup {p} /\ gossiped' = gossiped \cup {p} /\ stellar' = stellar
        /\ NextNonce <= MaxSeq
    BY <1>1, <2>1 DEF OtherSpend
  <2>3. p \in Payment /\ p.step = 0
    BY <1>0, <2>1, <2>2, NextNonceType DEF Payment
  <2>4. \A u \in Traders : Applied(u)' = Applied(u) /\ Out(u)' \subseteq Out(u) \cup {p}
    BY <1>0, <2>2 DEF Applied, Out, InFlight
  <2>5. Written'
    BY <1>0, <2>3, <2>4, LedgerWritten DEF OnceInv, OthersStay
  <2>6. p.seq > LastSeq("seller")
    BY <1>0, <2>1, NonceIsNew
  <2>7. Out("buyer")' = Out("buyer")
    BY <1>0, <2>2 DEF Applied, Out, InFlight
  <2>8. LedgersInOrder'
    BY <1>0, <2>2, <2>6, <2>7, UndecidedOrder DEF OnceInv, LedgersInOrder, LateIsOut
  <2> QED BY <2>5, <2>8
<1>2. CASE t = "buyer"
  <2>1. PICK p : p = [step |-> 0, seq |-> LastSeq("buyer") + 1]
    OBVIOUS
  <2>2. pool' = pool /\ gossiped' = gossiped /\ stellar' = stellar \cup {p}
        /\ LastSeq("buyer") < MaxSeq
    BY <1>2, <2>1 DEF OtherSpend
  <2>3. LastSeq("buyer") \in 0 .. MaxSeq
    BY <1>0, LastSeqType
  <2>4. p \in Payment /\ p.step = 0 /\ p.seq = LastSeq("buyer") + 1
    BY <2>1, <2>2, <2>3 DEF Payment
  <2>5. \A u \in Traders : Out(u)' \subseteq Out(u) \cup {p} /\ OthersStay(u)
    BY <1>0, <2>2 DEF Applied, Out, InFlight, OthersStay
  <2>6. Applied("seller")' = Applied("seller")
    BY <1>0 DEF Applied
  <2>7. Written'
    BY <1>0, <2>4, <2>5, <2>6, LedgerWritten DEF OnceInv
  <2>8. Honest("buyer") => p \notin late
    BY <2>4 DEF OnceInv, LedgersInOrder, LateIsOut
  <2>9. LedgersInOrder'
    BY <1>0, <2>2, <2>4, <2>8, PaidOrder DEF OnceInv
  <2> QED BY <2>7, <2>9
<1> QED BY <1>1, <1>2

\* An aborted pass and a crash.
LEMMA StopOnce ==
    ASSUME OnceInv, NEW t \in Traders, Abort(t) \/ Crash(t)
    PROVE  LedgersInOrder' /\ Written'
<1>0. /\ TypeOK /\ UNCHANGED <<world, chain, gossiped, stellar, flying, late, rows>>
      /\ pool' \subseteq pool
  BY DEF OnceInv, IInv, Abort, Crash, lapseVars, stellarVars
<1>1. \A u \in Traders : pc'[u] = pc[u] \/ pc'[u] \notin {"resend", "consumed", "build"}
  BY <1>0 DEF Abort, Crash, Goto, TypeOK
<1>2. \A u \in Traders : Applied(u)' = Applied(u) /\ Out(u)' = Out(u)
  BY <1>0 DEF Applied, Out, InFlight
<1>3. Written'
  BY <1>0, <1>1, <1>2, LedgerWritten DEF OnceInv, OthersStay
<1>4. LedgersInOrder'
  BY <1>0, <1>2, UndecidedOrder DEF OnceInv, LedgersInOrder, LateIsOut
<1> QED BY <1>3, <1>4

\* Looking up either leg keeps what a row names.
LEMMA LookKeeps ==
    ASSUME TypeOK, NEW t \in Traders, NEW n \in 1 .. Steps, NEW r \in Row
    PROVE  /\ CheckOutbound(t, n, r) \in Row /\ Kept(r, CheckOutbound(t, n, r))
           /\ CheckInbound(t, n, r) \in Row /\ Kept(r, CheckInbound(t, n, r))
<1>1. Found(Peer(t), n) \in 0 .. MaxSeq
  BY FoundType
<1>2. CheckOutbound(t, n, r) \in Row /\ Kept(r, CheckOutbound(t, n, r))
  BY DEF CheckOutbound, Row, Kept
<1>3. CheckInbound(t, n, r) \in Row /\ Kept(r, CheckInbound(t, n, r))
  BY <1>1 DEF CheckInbound, Row, Kept
<1> QED BY <1>2, <1>3

\* So do the looks of a pass.
LEMMA LooksKeep ==
    ASSUME TypeOK, NEW t \in Traders, NEW n \in 1 .. Steps, NEW r \in Row
    PROVE  /\ Before(t, n, r) \in Row /\ Kept(r, Before(t, n, r))
           /\ After(t, n, r) \in Row /\ Kept(r, After(t, n, r))
<1>1. PICK out, in : out = CheckOutbound(t, n, r) /\ in = CheckInbound(t, n, r)
  OBVIOUS
<1>2. out \in Row /\ Kept(r, out) /\ in \in Row /\ Kept(r, in)
  BY <1>1, LookKeeps
<1>3. /\ CheckOutbound(t, n, in) \in Row /\ Kept(in, CheckOutbound(t, n, in))
      /\ CheckInbound(t, n, out) \in Row /\ Kept(out, CheckInbound(t, n, out))
  BY <1>2, LookKeeps
<1>4. Kept(r, CheckOutbound(t, n, in)) /\ Kept(r, CheckInbound(t, n, out))
  BY <1>2, <1>3 DEF Kept
<1>5. Before(t, n, r) \in {out, in, CheckOutbound(t, n, in)}
  BY <1>1 DEF Before
<1>6. After(t, n, r) \in {out, CheckInbound(t, n, out)}
  BY <1>1 DEF After
<1> QED BY <1>2, <1>3, <1>4, <1>5, <1>6

\* A step of a worker is one of its own trader's only.
LEMMA PassWritten ==
    ASSUME OnceInv, UNCHANGED world, NEW t \in Traders,
           NEW new, rows' = [rows EXCEPT ![t] = new], NEW q, pc' = [pc EXCEPT ![t] = q],
           Applied(Peer(t))' = Applied(Peer(t)), InFlight(Peer(t))' = InFlight(Peer(t)),
           t = "seller" => late \subseteq late',
           Careful(t) => Rows(t)' /\ Asked(t)'
    PROVE  Written'
<1> SUFFICES ASSUME NEW u \in Traders, Careful(u)'
             PROVE  Rows(u)' /\ Asked(u)'
  BY DEF Written
<1>1. Careful(u)
  BY DEF Careful, Honest, world
<1>2. CASE u = t
  BY <1>1, <1>2
<1>3. CASE u # t
  <2>1. u = Peer(t) /\ (u = "buyer" => t = "seller")
    BY <1>3
  <2>2. rows'[u] = rows[u] /\ pc'[u] = pc[u]
    BY <1>3 DEF OnceInv, IInv, TypeOK
  <2>3. Out(u)' = Out(u) /\ Applied(u)' = Applied(u)
    BY <2>1 DEF Out
  <2> QED BY <1>1, <2>1, <2>2, <2>3, WrittenStays DEF OnceInv, Written, OthersStay
<1> QED BY <1>2, <1>3

\* A step of a worker that leaves the ledgers alone keeps them in order.
LEMMA QuietOrder ==
    ASSUME OnceInv, UNCHANGED <<world, lapseVars, stellar, flying>>,
           late' \subseteq late, NEW t \in Traders,
           NEW new, rows' = [rows EXCEPT ![t] = new],
           t = "buyer" /\ Honest(t) => \A k \in 1 .. Steps : new[k].env <= LastSeq("buyer") + 1
    PROVE  LedgersInOrder'
<1>1. TypeOK /\ Out("buyer")' = Out("buyer")
  BY DEF OnceInv, IInv, Out, Applied, InFlight
<1>2. Honest("buyer") => \A k \in 1 .. Steps : rows'["buyer"][k].env <= LastSeq("buyer") + 1
  <2>1. rows \in [Traders -> [1 .. Steps -> Row]]
    BY <1>1 DEF TypeOK
  <2> QED BY <2>1 DEF OnceInv, LedgersInOrder, LateIsOut
<1> QED BY <1>1, <1>2, UndecidedOrder DEF OnceInv, LedgersInOrder, LateIsOut, lapseVars

\* A step of a worker that writes one row, keeps what it names, and leaves the
\* ledgers alone.
LEMMA LookOnce ==
    ASSUME OnceInv, UNCHANGED <<world, lapseVars, stellarVars>>,
           NEW t \in Traders, Honest(t), Open(t) # {}, NEW n, n = Current(t),
           NEW r \in Row, NEW q,
           rows' = [rows EXCEPT ![t][n] = r], pc' = [pc EXCEPT ![t] = q],
           Careful(t) => Kept(rows[t][n], r) /\ Asked(t)'
    PROVE  LedgersInOrder' /\ Written'
<1>0. TypeOK /\ n \in 1 .. Steps
  BY CurrentIsFirst DEF OnceInv, IInv
<1>1. PICK new : new = [rows[t] EXCEPT ![n] = r]
  OBVIOUS
<1>2. rows' = [rows EXCEPT ![t] = new]
  BY <1>1
<1>3. \A u \in Traders : Applied(u)' = Applied(u) /\ InFlight(u)' = InFlight(u) /\ Out(u)' = Out(u)
  BY DEF Applied, InFlight, Out, lapseVars, stellarVars
<1>4. Careful(t) => Rows(t)'
  <2> SUFFICES ASSUME Careful(t) PROVE Rows(t)'
    OBVIOUS
  <2> QED BY <1>0, <1>3, HashKept DEF OnceInv, Written, OthersStay
<1>5. Written'
  BY <1>2, <1>3, <1>4, PassWritten DEF stellarVars
<1>6. t = "buyer" /\ Honest(t) => \A k \in 1 .. Steps : new[k].env <= LastSeq("buyer") + 1
  <2> SUFFICES ASSUME t = "buyer", NEW k \in 1 .. Steps
               PROVE  new[k].env <= LastSeq("buyer") + 1
    OBVIOUS
  <2>1. rows[t] \in [1 .. Steps -> Row]
    BY <1>0 DEF TypeOK
  <2>2. new[k] = IF k = n THEN r ELSE rows[t][k]
    BY <1>1, <2>1
  <2>3. rows["buyer"][k].env <= LastSeq("buyer") + 1 /\ LastSeq("buyer") \in 0 .. MaxSeq
    BY <1>0, LastSeqType DEF OnceInv, LedgersInOrder, LateIsOut
  <2>4. Kept(rows[t][n], r)
    BY DEF Careful
  <2> QED BY <2>2, <2>3, <2>4 DEF Kept
<1>7. LedgersInOrder'
  BY <1>2, <1>6, QuietOrder DEF stellarVars
<1> QED BY <1>4, <1>5, <1>7

\* The start of a pass.
LEMMA BeginOnce ==
    ASSUME OnceInv, NEW t \in Traders, Begin(t)
    PROVE  LedgersInOrder' /\ Written'
<1>1. PICK n, o : n = Current(t) /\ o = rows[t][n]
  OBVIOUS
<1>2. TypeOK /\ Honest(t) /\ Open(t) # {} /\ n \in 1 .. Steps /\ o \in Row
  BY <1>1, CurrentIsFirst, RowType DEF OnceInv, IInv, Begin, At
<1>3. PICK r : r = Before(t, n, o)
  OBVIOUS
<1>4. r \in Row /\ Kept(o, r)
  BY <1>2, <1>3, LooksKeep
<1>5. CheckInbound(t, n, r) \in Row /\ Kept(r, CheckInbound(t, n, r))
  BY <1>2, <1>4, LookKeeps
<1>6. PICK c, q : /\ c \in {r, CheckInbound(t, n, r)} /\ q \in {"find", "idle"}
                  /\ rows' = [rows EXCEPT ![t][n] = c] /\ pc' = [pc EXCEPT ![t] = q]
  <2>1. CASE MaySend(t, n, r)
    BY <1>1, <1>3, <2>1 DEF Begin, Write, Goto
  <2>2. CASE ~MaySend(t, n, r)
    BY <1>1, <1>3, <2>2 DEF Begin, Write, Goto
  <2> QED BY <2>1, <2>2
<1>7. c \in Row /\ Kept(o, c)
  BY <1>4, <1>5, <1>6 DEF Kept
<1>8. Asked(t)'
  BY <1>2, <1>6 DEF Asked, TypeOK
<1> QED BY <1>1, <1>2, <1>6, <1>7, <1>8, LookOnce DEF Begin

\* The search for the own payment finds the one the row names.
LEMMA FindOnce ==
    ASSUME OnceInv, NEW t \in Traders, Find(t)
    PROVE  LedgersInOrder' /\ Written'
<1>0. PICK seen \in SUBSET Applied(t) :
        FindIn(t, seen) /\ (t = "buyer" \/ calm => seen = Applied(t))
  BY FindSees DEF OnceInv, IInv
<1>1. PICK n, o : n = Current(t) /\ o = rows[t][n]
  OBVIOUS
<1>2. TypeOK /\ Honest(t) /\ pc[t] = "find"
  BY <1>0 DEF OnceInv, IInv, FindIn, At
<1>3. n \in 1 .. Steps /\ Open(t) # {} /\ o \in Row /\ MaySend(t, n, o)
  BY <1>1, <1>2, RowOfPass DEF Busy, OnceInv, RowRight
<1>4. PICK pending : pending = IF t = "seller" THEN {p \in pool : p.step = n} ELSE {}
  OBVIOUS
<1>5. PICK found : found = HighestSeq(IF pending # {} THEN pending ELSE {p \in seen : p.step = n})
  OBVIOUS
<1>6. Careful(t) => SeqsInOrder(t) /\ Rows(t)
  BY DEF OnceInv, LedgersInOrder, Written
<1>7. pending \subseteq Payment /\ pending \subseteq Out(t) /\ \A p \in pending : p.step = n
  BY <1>2, <1>4 DEF TypeOK, Out, InFlight
<1>8. \A p \in pending : p.seq > LastSeq(t)
  BY <1>2, <1>4 DEF OnceInv, LedgersInOrder, PoolAhead
<1>9. Careful(t) => (found # 0 => found = o.hash) /\ (found = 0 => \A p \in Applied(t) : p.step # n)
  <2> SUFFICES ASSUME Careful(t)
               PROVE  /\ found # 0 => found = o.hash
                      /\ found = 0 => \A p \in Applied(t) : p.step # n
    OBVIOUS
  <2>1. CASE pending # {}
    <3>1. found = HighestSeq(pending)
      BY <1>5, <2>1
    <3>2. \A p \in pending : p.seq <= found /\ p.seq \in 1 .. MaxSeq
      BY <1>7, <3>1, HighestSeqIs DEF Payment
    <3>3. found # 0
      BY <2>1, <3>2
    <3>4. PICK p \in pending : p.seq = found
      BY <1>7, <3>1, <3>3, HighestSeqIs
    <3>5. p.seq = rows[t][n].hash
      BY <1>2, <1>3, <1>6, <1>7, <1>8, AliveIsHash DEF Rows
    <3> QED BY <1>1, <3>3, <3>4, <3>5
  <2>2. CASE pending = {}
    <3>1. seen = Applied(t)
      BY <1>0 DEF Careful
    <3>2. found = Found(t, n)
      BY <1>5, <2>2, <3>1 DEF Found
    <3> QED BY <1>1, <1>2, <1>3, <1>6, <3>2, FoundIsHash, NothingFound DEF Rows
  <2> QED BY <2>1, <2>2
<1>10. found \in 0 .. MaxSeq
  <2>1. {p \in seen : p.step = n} \subseteq Payment
    BY <1>2, AppliedType
  <2> QED BY <1>5, <1>7, <2>1, HighestSeqIs
<1>11. CASE found # 0
  <2>1. PICK c : c = [o EXCEPT !.hash = found]
    OBVIOUS
  <2>2. c \in Row /\ (Careful(t) => Kept(o, c))
    BY <1>3, <1>9, <1>10, <1>11, <2>1 DEF Row, Kept
  <2>3. PICK r : r = After(t, n, c)
    OBVIOUS
  <2>4. r \in Row /\ Kept(c, r)
    BY <1>2, <1>3, <2>2, <2>3, LooksKeep
  <2>5. Careful(t) => Kept(o, r)
    BY <2>2, <2>4 DEF Kept
  <2>6. rows' = [rows EXCEPT ![t][n] = r] /\ pc' = [pc EXCEPT ![t] = "idle"]
    BY <1>0, <1>1, <1>4, <1>5, <1>11, <2>1, <2>3 DEF FindIn, Write, Goto
  <2>7. Asked(t)'
    BY <1>2, <2>6 DEF Asked, TypeOK
  <2> QED BY <1>1, <1>2, <1>3, <2>4, <2>5, <2>6, <2>7, LookOnce, <1>0 DEF FindIn
<1>12. CASE found = 0
  <2>1. PICK q : q = IF o.env # 0 /\ o.out \in {"INTENT", "SUBMITTED"} THEN "resend" ELSE "build"
    OBVIOUS
  <2>2. UNCHANGED rows /\ pc' = [pc EXCEPT ![t] = q]
    BY <1>0, <1>1, <1>4, <1>5, <1>12, <2>1 DEF FindIn, Goto
  <2>3. rows' = [rows EXCEPT ![t][n] = o]
    BY <1>1, <1>2, <1>3, <2>2, SameRow
  <2>4. q = "build" => o.env = 0 \/ o.out \in {"PENDING", "DEAD"}
    BY <1>3, <2>1 DEF Row, MaySend
  <2>5. Careful(t) /\ q = "build" => o.env = 0
    BY <1>1, <1>3, <1>6, <2>4 DEF Rows, EnvIsHash
  <2>6. Current(t)' = n /\ pc'[t] = q /\ q \in {"resend", "build"} /\ rows'[t][n] = o
    BY <1>1, <1>2, <2>1, <2>2 DEF Current, Open, TypeOK
  <2>7. Applied(t)' = Applied(t)
    BY <1>0 DEF FindIn, Applied, lapseVars, stellarVars
  <2>8. Careful(t) => Asked(t)'
    BY <1>9, <1>12, <2>5, <2>6, <2>7 DEF Asked
  <2>9. Kept(o, o)
    BY DEF Kept
  <2>10. UNCHANGED <<world, lapseVars, stellarVars>>
    BY <1>0 DEF FindIn
  <2>11. Kept(rows[t][n], o)
    BY <1>1, <2>9
  <2>12. o \in Row
    BY <1>3
  <2>13. pc' = [pc EXCEPT ![t] = q]
    BY <2>2
  <2> QED BY <1>1, <1>2, <1>3, <2>3, <2>8, <2>10, <2>11, <2>12, <2>13, LookOnce
<1> QED BY <1>11, <1>12

\* The last look of a pass.
LEMMA FinishOnce ==
    ASSUME OnceInv, NEW t \in Traders, Finish(t)
    PROVE  LedgersInOrder' /\ Written'
<1>1. PICK n, o : n = Current(t) /\ o = rows[t][n]
  OBVIOUS
<1>2. TypeOK /\ Honest(t) /\ pc[t] = "after"
  BY DEF OnceInv, IInv, Finish, At
<1>3. n \in 1 .. Steps /\ Open(t) # {} /\ o \in Row
  BY <1>1, <1>2, RowOfPass DEF Busy, OnceInv, RowRight
<1>4. PICK r : r = After(t, n, o)
  OBVIOUS
<1>5. r \in Row /\ Kept(o, r)
  BY <1>2, <1>3, <1>4, LooksKeep
<1>6. rows' = [rows EXCEPT ![t][n] = r] /\ pc' = [pc EXCEPT ![t] = "idle"]
  BY <1>1, <1>4 DEF Finish, Write, Goto
<1>7. Asked(t)'
  BY <1>2, <1>6 DEF Asked, TypeOK
<1> QED BY <1>1, <1>2, <1>3, <1>5, <1>6, <1>7, LookOnce DEF Finish

\* An envelope is given up when its number is another spending's, or it is late.
LEMMA ConsumedOnce ==
    ASSUME OnceInv, NEW t \in Traders, Consumed(t)
    PROVE  LedgersInOrder' /\ Written'
<1>1. PICK n, o : n = Current(t) /\ o = rows[t][n]
  OBVIOUS
<1>2. TypeOK /\ Honest(t) /\ pc[t] = "consumed" /\ UNCHANGED <<world, lapseVars, stellarVars>>
  BY DEF OnceInv, IInv, Consumed, At
<1>3. n \in 1 .. Steps /\ Open(t) # {} /\ o \in Row /\ o.env # 0
  BY <1>1, <1>2, RowOfPass DEF Busy, OnceInv, RowRight
<1>4. Careful(t) => SeqsInOrder(t) /\ Rows(t) /\ Asked(t)
  BY DEF OnceInv, LedgersInOrder, Written
<1>5. CASE UNCHANGED rows /\ pc' = [pc EXCEPT ![t] = "after"]
  <2>1. rows' = [rows EXCEPT ![t][n] = o] /\ Kept(rows[t][n], o)
    BY <1>1, <1>2, <1>3, <1>5, SameRow DEF Kept
  <2>2. Asked(t)'
    BY <1>2, <1>5 DEF Asked, TypeOK
  <2>3. pc' = [pc EXCEPT ![t] = "after"]
    BY <1>5
  <2> QED BY <1>1, <1>2, <1>3, <2>1, <2>2, <2>3, LookOnce
<1>6. CASE LastSeq(t) >= OutSeq(t, o.env) /\ pc' = [pc EXCEPT ![t] = "build"]
           /\ rows' = [rows EXCEPT ![t][n] = [o EXCEPT !.out = "DEAD", !.env = 0]]
  <2>1. PICK r : r = [o EXCEPT !.out = "DEAD", !.env = 0]
    OBVIOUS
  <2>2. r \in Row /\ r.out = "DEAD" /\ r.env = 0 /\ r.hash = o.hash /\ r.in = o.in
    <3>1. 0 \in 0 .. MaxSeq
      OBVIOUS
    <3>2. r \in Row
      BY <1>3, <2>1, <3>1, RowMade
    <3> QED BY <1>3, <2>1, <3>2 DEF Row
  <2>3. \A u \in Traders : Applied(u)' = Applied(u) /\ InFlight(u)' = InFlight(u) /\ Out(u)' = Out(u)
    BY <1>2 DEF Applied, InFlight, Out, lapseVars, stellarVars
  <2>4. ASSUME Careful(t), NEW p \in Out(t), p.step = n
        PROVE  Dead(t, p)
    <3>1. CASE Dead(t, Envelope(t, n))
      BY <1>1, <1>3, <1>4, <2>4, <3>1, AllDead
    <3>2. CASE t = "seller"
      <4>1. Envelope(t, n) \notin Applied(t)
        BY <1>1, <1>2, <1>4, <2>4, <3>2 DEF Asked, Envelope
      <4>2. o.env \in 1 .. LastSeq(t)
        BY <1>2, <1>3, <1>6, <3>2, LastSeqType DEF OutSeq, Row
      <4>3. Dead(t, Envelope(t, n))
        BY <1>1, <1>2, <1>3, <1>4, <2>4, <4>1, <4>2, TakenIsDead
      <4> QED BY <3>1, <4>3
    <3>3. CASE t = "buyer" /\ Envelope(t, n) \in late
      <4>1. p.seq = o.hash \/ Dead(t, p)
        BY <1>1, <1>3, <1>4, <2>4 DEF Rows, HashNames
      <4>2. o.hash = o.env
        BY <1>1, <1>3, <1>4, <2>4 DEF Rows, EnvIsHash
      <4>3. p \in Payment
        BY <1>2, AppliedType DEF TypeOK, Out, InFlight
      <4>4. p.seq = o.env => p = Envelope(t, n)
        BY <1>1, <2>4, <4>3 DEF Envelope, Payment
      <4>5. p \notin late
        BY <1>2, <3>3 DEF OnceInv, LedgersInOrder, LateIsOut
      <4> QED BY <3>3, <4>1, <4>2, <4>4, <4>5
    <3> QED BY <1>1, <1>2, <1>4, <2>4, <3>1, <3>2, <3>3 DEF Asked
  <2>5. rows' = [rows EXCEPT ![t][n] = r]
    BY <1>6, <2>1
  <2>6. PICK new : new = [rows[t] EXCEPT ![n] = r]
    OBVIOUS
  <2>7. rows' = [rows EXCEPT ![t] = new]
    BY <2>5, <2>6
  <2>8. \A k \in 1 .. Steps : new[k] = IF k = n THEN r ELSE rows[t][k]
    BY <1>2, <2>6 DEF TypeOK
  <2>9. Careful(t) => Rows(t)'
    <3> SUFFICES ASSUME Careful(t) PROVE Rows(t)'
      OBVIOUS
    <3>1. r.hash # 0 => \A m \in 1 .. n - 1 : rows[t][m].hash # r.hash
      BY <1>1, <1>3, <1>4, <2>2 DEF Rows, StepByStep
    <3>2. (r.env # 0 => r.env = r.hash) /\ (r.out \in {"PENDING", "DEAD"} => r.env = 0)
      BY <2>2
    <3>3. TypeOK /\ Rows(t) /\ Open(t) # {} /\ n = Current(t) /\ r \in Row
      BY <1>1, <1>2, <1>3, <1>4, <2>2
    <3>4. /\ rows' = [rows EXCEPT ![t][n] = r] /\ Applied(t)' = Applied(t) /\ Out(t)' = Out(t)
          /\ \A p \in Out(t) : p.step = n => Dead(t, p)
      BY <2>3, <2>4, <2>5
    <3> QED BY <3>1, <3>2, <3>3, <3>4, RowReset
  <2>10. Asked(t)'
    <3>1. \A k \in 1 .. Steps : Settled(rows'[t][k]) <=> Settled(rows[t][k])
      BY <1>1, <1>2, <1>3, <2>2, <2>7, <2>8, CurrentIsFirst DEF TypeOK, Open, Settled
    <3>2. Current(t)' = n
      BY <1>1, <3>1 DEF Current, Open
    <3>3. rows'[t][n] = r /\ pc'[t] = "build"
      BY <1>2, <1>3, <1>6, <2>7, <2>8 DEF TypeOK
    <3> QED BY <2>2, <3>2, <3>3 DEF Asked
  <2>11. Written'
    BY <1>2, <1>6, <2>3, <2>7, <2>9, <2>10, PassWritten DEF stellarVars
  <2>12. t = "buyer" => \A k \in 1 .. Steps : new[k].env <= LastSeq("buyer") + 1
    <3>1. LastSeq("buyer") \in 0 .. MaxSeq
      BY <1>2, LastSeqType
    <3> QED BY <1>2, <2>2, <2>8, <3>1 DEF OnceInv, LedgersInOrder, LateIsOut
  <2>13. LedgersInOrder'
    BY <1>2, <2>7, <2>12, QuietOrder DEF stellarVars
  <2> QED BY <2>11, <2>13
<1> QED BY <1>1, <1>5, <1>6 DEF Consumed, Write, Goto

\* A new transaction takes a number above those of all the settled steps.
LEMMA BuildOnce ==
    ASSUME OnceInv, NEW t \in Traders, Build(t)
    PROVE  LedgersInOrder' /\ Written'
<1>1. PICK n, o : n = Current(t) /\ o = rows[t][n]
  OBVIOUS
<1>2. /\ TypeOK /\ Honest(t) /\ pc[t] = "build"
      /\ UNCHANGED <<world, lapseVars, stellar, flying>>
  BY DEF OnceInv, IInv, Build, At
<1>3. n \in 1 .. Steps /\ Open(t) # {} /\ o \in Row
  BY <1>1, <1>2, RowOfPass DEF Busy, OnceInv, RowRight
<1>4. PICK seq : seq = IF t = "seller" THEN NextNonce ELSE LastSeq(t) + 1
  OBVIOUS
<1>5. PICK r : r = [o EXCEPT !.env = seq, !.hash = seq, !.out = "INTENT"]
  OBVIOUS
<1>6. /\ seq <= MaxSeq /\ pc' = [pc EXCEPT ![t] = "submit"]
      /\ rows' = [rows EXCEPT ![t][n] = r]
      /\ late' \subseteq late /\ (t = "seller" => late' = late)
  BY <1>1, <1>4, <1>5 DEF Build, Write, Goto
<1>7. seq \in 1 .. MaxSeq /\ seq > LastSeq(t)
  BY <1>2, <1>4, <1>6, NextNonceType, LastSeqType, NonceIsNew
<1>8. r \in Row /\ r.env = seq /\ r.hash = seq /\ r.out = "INTENT"
  <2>1. seq \in 0 .. MaxSeq
    BY <1>7
  <2>2. r \in Row
    BY <1>3, <1>5, <2>1, RowMade
  <2> QED BY <1>3, <1>5, <2>2 DEF Row
<1>9. \A u \in Traders : Applied(u)' = Applied(u) /\ InFlight(u)' = InFlight(u) /\ Out(u)' = Out(u)
  BY <1>2 DEF Applied, InFlight, Out, lapseVars
<1>10. PICK new : new = [rows[t] EXCEPT ![n] = r]
  OBVIOUS
<1>11. rows' = [rows EXCEPT ![t] = new]
  BY <1>6, <1>10
<1>12. Careful(t) => Rows(t)'
  <2> SUFFICES ASSUME Careful(t) PROVE Rows(t)'
    OBVIOUS
  <2>1. Rows(t) /\ o.env = 0
    BY <1>1, <1>2 DEF OnceInv, Written, Asked
  <2>2. \A p \in Out(t) : p.step = n => Dead(t, p)
    BY <1>1, <1>3, <2>1 DEF Rows, EnvIsHash
  <2>3. \A m \in 1 .. n - 1 : rows[t][m].hash # seq
    <3> TAKE m \in 1 .. n - 1
    <3>1. m \in 1 .. Steps /\ Settled(rows[t][m])
      BY <1>1, <1>2, <1>3, CurrentIsFirst
    <3>2. Confirmed(t, [step |-> m, seq |-> rows[t][m].hash])
      BY <1>2, <3>1 DEF OnceInv, IInv, SettledIsFinal, Settled
    <3>3. rows[t][m].hash <= LastSeq(t)
      BY <1>2, <3>2, ConfirmedIsApplied, SeqsUpToLast
    <3>4. rows[t][m].hash \in Int /\ LastSeq(t) \in Int
      BY <1>2, <3>1, RowType, LastSeqType
    <3> QED BY <1>7, <3>3, <3>4
  <2>4. /\ r.env # 0 => r.env = r.hash
        /\ r.out \in {"PENDING", "DEAD"} => r.env = 0
        /\ r.hash # 0 => \A m \in 1 .. n - 1 : rows[t][m].hash # r.hash
    BY <1>8, <2>3
  <2>5. TypeOK /\ Rows(t) /\ Open(t) # {} /\ n = Current(t) /\ r \in Row
    BY <1>1, <1>2, <1>3, <1>8, <2>1
  <2>6. rows' = [rows EXCEPT ![t][n] = r] /\ Applied(t)' = Applied(t) /\ Out(t)' = Out(t)
    BY <1>6, <1>9
  <2> QED BY <2>2, <2>4, <2>5, <2>6, RowReset
<1>13. Asked(t)'
  BY <1>2, <1>6 DEF Asked, TypeOK
<1>14. Written'
  BY <1>2, <1>6, <1>9, <1>11, <1>12, <1>13, PassWritten
<1>15. t = "buyer" => \A k \in 1 .. Steps : new[k].env <= LastSeq("buyer") + 1
  <2>1. LastSeq("buyer") \in 0 .. MaxSeq
    BY <1>2, LastSeqType
  <2>2. \A k \in 1 .. Steps : new[k] = IF k = n THEN r ELSE rows[t][k]
    BY <1>2, <1>10 DEF TypeOK
  <2> QED BY <1>2, <1>4, <1>8, <2>1, <2>2 DEF OnceInv, LedgersInOrder, LateIsOut
<1>16. LedgersInOrder'
  BY <1>2, <1>6, <1>11, <1>15, QuietOrder
<1> QED BY <1>14, <1>16

\* What handing the envelope of the current step over does to the ledgers.
LEMMA SubmitOnce ==
    ASSUME OnceInv, UNCHANGED world, NEW t \in Traders, Honest(t),
           NEW n \in 1 .. Steps, NEW p \in Payment, p = Envelope(t, n),
           NEW reply, Submit(t, p, reply),
           \A k \in 1 .. Steps : rows'["buyer"][k].env = rows["buyer"][k].env
    PROVE  /\ LedgersInOrder' /\ late' = late
           /\ OthersStay(t) /\ Out(t)' \subseteq Out(t) \cup {p}
           /\ Applied(Peer(t))' = Applied(Peer(t)) /\ InFlight(Peer(t))' = InFlight(Peer(t))
           /\ reply = "refused" =>
                 /\ Applied(t)' = Applied(t)
                 /\ t = "buyer" => p \in late \/ (p \notin Applied(t) /\ p.seq \in 1 .. LastSeq(t))
<1>0. TypeOK /\ LastSeq("buyer") \in 0 .. MaxSeq /\ p.seq \in 1 .. MaxSeq
  BY LastSeqType DEF OnceInv, IInv, Payment
<1>1. CASE t = "seller"
  <2>1. /\ UNCHANGED <<chain, stellar, flying, late>>
        /\ \/ UNCHANGED <<pool, gossiped>>
           \/ p.seq = NextNonce /\ pool' = pool \cup {p} /\ gossiped' = gossiped \cup {p}
    BY <1>1 DEF Submit, SubmitLapse, stellarVars
  <2>2. \A u \in Traders : Applied(u)' = Applied(u)
    BY <2>1 DEF Applied
  <2>3. InFlight("buyer")' = InFlight("buyer") /\ Out("buyer")' = Out("buyer")
    BY <2>1, <2>2 DEF Out, InFlight
  <2>4. InFlight("seller")' \subseteq InFlight("seller") \cup {p}
    BY <2>1 DEF InFlight
  <2>5. \A q \in pool' : q \in pool \/ q.seq > LastSeq("seller")
    BY <1>0, <2>1, NonceIsNew
  <2>6. LedgersInOrder'
    BY <1>0, <2>1, <2>3, <2>5, UndecidedOrder DEF OnceInv, LedgersInOrder, LateIsOut
  <2> QED BY <1>1, <2>1, <2>2, <2>3, <2>4, <2>6 DEF OthersStay, Out
<1>2. CASE t = "buyer"
  <2>1. UNCHANGED <<chain, pool, gossiped, late>>
    BY <1>2 DEF Submit, SubmitXLM, lapseVars
  <2>2. Applied("seller")' = Applied("seller") /\ InFlight("seller")' = InFlight("seller")
    BY <2>1 DEF Applied, InFlight
  <2>3. PICK applicable : applicable = (p.seq = LastSeq("buyer") + 1 /\ p \notin late)
    OBVIOUS
  <2>4. \/ reply = "ok" /\ (p \in stellar \/ applicable) /\ stellar' = stellar \cup {p}
           /\ flying' = flying \ {p}
        \/ reply = "refused" /\ p \notin stellar /\ ~applicable /\ UNCHANGED <<stellar, flying>>
        \/ reply = "unreachable" /\ UNCHANGED stellar
           /\ (flying' = flying \/ (applicable /\ flying' = flying \cup {p}))
    BY <1>2, <2>3 DEF Submit, SubmitXLM
  <2>5. stellar \subseteq stellar' /\ (stellar \cup flying)' \subseteq stellar \cup flying \cup {p}
    BY <2>4
  <2>6. p.step # 0 /\ p.seq <= LastSeq("buyer") + 1
    BY <1>2 DEF OnceInv, LedgersInOrder, LateIsOut, Envelope
  <2>7. LedgersInOrder'
    <3>1. CASE stellar' = stellar \cup {p} /\ flying' \subseteq flying /\ applicable
      BY <1>0, <2>1, <2>3, <3>1, PaidOrder DEF OnceInv
    <3>2. CASE stellar' = stellar /\ (flying' \subseteq flying \/ (applicable /\ flying' = flying \cup {p}))
      <4>1. Out("buyer")' \subseteq Out("buyer") \/ (p \notin late /\ Out("buyer")' \subseteq Out("buyer") \cup {p})
        BY <2>3, <3>2 DEF Out, Applied, InFlight
      <4> QED BY <1>0, <2>1, <3>2, <4>1, UndecidedOrder DEF OnceInv, LedgersInOrder, LateIsOut
    <3>3. CASE p \in stellar /\ stellar' = stellar \cup {p} /\ flying' \subseteq flying
      BY <3>2, <3>3
    <3> QED BY <2>4, <3>1, <3>2, <3>3
  <2>8. reply = "refused" =>
            stellar' = stellar /\ (p \in late \/ (p \notin stellar /\ p.seq \in 1 .. LastSeq("buyer")))
    <3> SUFFICES ASSUME reply = "refused", p \notin late
                 PROVE  stellar' = stellar /\ p \notin stellar /\ p.seq \in 1 .. LastSeq("buyer")
      BY <2>4
    <3>1. stellar' = stellar /\ p \notin stellar /\ ~applicable
      BY <2>4
    <3>2. p.seq # LastSeq("buyer") + 1
      BY <2>3, <3>1
    <3> QED BY <1>0, <2>6, <3>1, <3>2
  <2>9. OthersStay(t) /\ Out(t)' \subseteq Out(t) \cup {p}
    BY <1>2, <2>5 DEF OthersStay, Out, Applied, InFlight
  <2> QED BY <1>2, <2>1, <2>2, <2>7, <2>8, <2>9 DEF Applied
<1> QED BY <1>1, <1>2

\* Both ways of sending.
LEMMA SendOnce ==
    ASSUME OnceInv, NEW t \in Traders, NEW reply, Resend(t, reply) \/ Send(t, reply)
    PROVE  LedgersInOrder' /\ Written'
<1>1. PICK n, o : n = Current(t) /\ o = rows[t][n]
  OBVIOUS
<1>2. TypeOK /\ Honest(t) /\ pc[t] \in {"resend", "submit"} /\ UNCHANGED world
  BY DEF OnceInv, IInv, Resend, Send, At
<1>3. n \in 1 .. Steps /\ Open(t) # {} /\ o \in Row /\ o.env # 0
  BY <1>1, <1>2, RowOfPass DEF Busy, OnceInv, RowRight
<1>4. PICK p : p = Envelope(t, n)
  OBVIOUS
<1>5. p \in Payment /\ p.seq = o.env
  BY <1>1, <1>3, <1>4 DEF Envelope, Payment, Row
<1>6. PICK r : r = IF reply = "ok" THEN [o EXCEPT !.out = "SUBMITTED"] ELSE o
  OBVIOUS
<1>7. r \in Row /\ Kept(o, r)
  <2>1. [o EXCEPT !.out = "SUBMITTED"] \in Row
    <3>1. 0 \in 0 .. MaxSeq
      OBVIOUS
    <3> QED BY <1>3, <3>1, RowMade
  <2>2. Kept(o, [o EXCEPT !.out = "SUBMITTED"]) /\ Kept(o, o)
    BY <1>3 DEF Kept, Row
  <2> QED BY <1>3, <1>6, <2>1, <2>2
<1>8. rows' = [rows EXCEPT ![t][n] = r]
  <2>1. rows = [rows EXCEPT ![t][n] = rows[t][n]]
    BY <1>2, <1>3, SameRow
  <2> QED BY <1>1, <1>6, <2>1 DEF Resend, Send, Write
<1>9. PICK new : new = [rows[t] EXCEPT ![n] = r]
  OBVIOUS
<1>10. rows' = [rows EXCEPT ![t] = new] /\ \A k \in 1 .. Steps : new[k].env = rows[t][k].env
  BY <1>1, <1>2, <1>7, <1>8, <1>9 DEF TypeOK, Kept
<1>11. \A k \in 1 .. Steps : rows'["buyer"][k].env = rows["buyer"][k].env
  BY <1>2, <1>10 DEF TypeOK
<1>12. Submit(t, p, reply)
  BY <1>1, <1>4 DEF Resend, Send
<1>13. /\ LedgersInOrder' /\ late' = late
       /\ OthersStay(t) /\ Out(t)' \subseteq Out(t) \cup {p}
       /\ Applied(Peer(t))' = Applied(Peer(t)) /\ InFlight(Peer(t))' = InFlight(Peer(t))
       /\ reply = "refused" =>
             /\ Applied(t)' = Applied(t)
             /\ t = "buyer" => p \in late \/ (p \notin Applied(t) /\ p.seq \in 1 .. LastSeq(t))
  BY <1>2, <1>3, <1>4, <1>5, <1>11, <1>12, SubmitOnce
<1>14. PICK q : pc' = [pc EXCEPT ![t] = q] /\ q \in {"after", "consumed", "idle"}
                /\ (q = "consumed" => reply = "refused" /\ pc[t] = "resend")
  BY DEF Resend, Send, Goto, At
<1>15. Careful(t) => Rows(t)'
  <2> SUFFICES ASSUME Careful(t) PROVE Rows(t)'
    OBVIOUS
  <2>1. Rows(t) /\ rows[t][n].env # 0 /\ Kept(rows[t][n], r)
    BY <1>1, <1>3, <1>7 DEF OnceInv, Written
  <2> QED BY <1>1, <1>2, <1>3, <1>4, <1>7, <1>8, <1>13, <2>1, HashKept
<1>16. Careful(t) => Asked(t)'
  <2> SUFFICES ASSUME Careful(t) PROVE Asked(t)'
    OBVIOUS
  <2>1. pc'[t] = q
    BY <1>2, <1>14 DEF TypeOK
  <2>2. CASE q # "consumed"
    BY <1>14, <2>1, <2>2 DEF Asked
  <2>3. CASE q = "consumed"
    <3>1. reply = "refused" /\ pc[t] = "resend" /\ Applied(t)' = Applied(t)
      BY <1>13, <1>14, <2>3
    <3>2. rows' = rows
      <4>1. rows = [rows EXCEPT ![t][n] = rows[t][n]]
        BY <1>2, <1>3, SameRow
      <4> QED BY <1>1, <1>6, <1>8, <3>1, <4>1
    <3>3. Current(t)' = n /\ Envelope(t, Current(t))' = p
      BY <1>1, <1>4, <3>2 DEF Current, Open, Envelope
    <3>4. SeqsInOrder(t) /\ Rows(t) /\ Asked(t)
      BY DEF OnceInv, LedgersInOrder, Written
    <3>5. CASE t = "seller"
      BY <1>1, <2>1, <2>3, <3>1, <3>3, <3>4, <3>5 DEF Asked
    <3>6. CASE t = "buyer"
      <4>1. p \in late \/ Dead(t, p)
        BY <1>1, <1>2, <1>3, <1>4, <1>5, <1>13, <3>1, <3>4, <3>6, TakenIsDead
      <4>2. p \in late' \/ Dead(t, p)'
        BY <1>13, <3>1, <4>1 DEF Dead
      <4> QED BY <2>1, <2>3, <3>3, <3>6, <4>2 DEF Asked
    <3> QED BY <3>5, <3>6
  <2> QED BY <2>2, <2>3
<1>17. Written'
  BY <1>2, <1>10, <1>13, <1>14, <1>15, <1>16, PassWritten
<1> QED BY <1>13, <1>17

\* Recovery keeps what a row names, and what it says is settled.
LEMMA BackKeeps ==
    ASSUME TypeOK, NEW t \in Traders, NEW n \in 1 .. Steps, NEW r, RowRight(t, n, r),
           r.hash = 0 => Found(t, n) = 0,
           NEW c, c \in {r, Reconciled(t, n, r), CheckInbound(t, n, Reconciled(t, n, r))}
    PROVE  Kept(r, c) /\ (Settled(r) => Settled(c))
<1>1. r \in Row
  BY DEF RowRight
<1>2. PICK d : d = CheckOutbound(t, n, r)
  OBVIOUS
<1>3. Reconciled(t, n, r) = d
  <2>1. r.hash = 0 => [r EXCEPT !.hash = Found(t, n)] = r
    BY <1>1 DEF Row
  <2> QED BY <1>2, <2>1 DEF Reconciled
<1>4. d \in Row /\ Kept(r, d) /\ CheckInbound(t, n, d) \in Row /\ Kept(d, CheckInbound(t, n, d))
  BY <1>1, <1>2, LookKeeps
<1>5. Settled(r) => d = r
  <2>1. r.out = "SETTLED" => d = r
    BY <1>1, <1>2 DEF CheckOutbound, RowRight, OutRight, Row
  <2> QED BY <2>1 DEF Settled
<1>6. Settled(r) => CheckInbound(t, n, r) = r
  BY <1>1 DEF CheckInbound, RowRight, InRight, Settled, Row
<1>7. Kept(r, r) /\ Kept(r, CheckInbound(t, n, d))
  BY <1>4 DEF Kept
<1> QED BY <1>3, <1>4, <1>5, <1>6, <1>7

\* So what is written down survives a restart.
LEMMA RestartOnce ==
    ASSUME OnceInv, NEW t \in Traders, NEW lost, Restart(t, lost)
    PROVE  LedgersInOrder' /\ Written'
<1>1. /\ TypeOK /\ Honest(t) /\ pc[t] = "down" /\ pc' = [pc EXCEPT ![t] = "idle"]
      /\ UNCHANGED <<world, lapseVars, stellarVars>>
  BY DEF OnceInv, IInv, Restart, At, Goto
<1> DEFINE back(n) ==
        IF n \notin lost THEN CheckInbound(t, n, Reconciled(t, n, rows[t][n]))
        ELSE IF t = "seller" THEN Reconciled(t, n, rows[t][n]) ELSE rows[t][n]
<1>2. rows' = [rows EXCEPT ![t] = [n \in 1 .. Steps |-> back(n)]]
  BY DEF Restart
<1>3. \A n \in 1 .. Steps : back(n) \in {rows[t][n], Reconciled(t, n, rows[t][n]),
                                         CheckInbound(t, n, Reconciled(t, n, rows[t][n]))}
  OBVIOUS
<1> HIDE DEF back
<1>4. PICK new : new = [n \in 1 .. Steps |-> back(n)]
  OBVIOUS
<1>5. rows' = [rows EXCEPT ![t] = new] /\ rows'[t] = new
  BY <1>1, <1>2, <1>4 DEF TypeOK
<1>6. ASSUME Careful(t), NEW n \in 1 .. Steps
      PROVE  Kept(rows[t][n], new[n]) /\ (Settled(rows[t][n]) => Settled(new[n]))
  <2>1. RowRight(t, n, rows[t][n])
    BY <1>1, RowType DEF OnceInv, IInv, SettledIsFinal, RowRight, OutRight, InRight
  <2>2. SeqsInOrder(t) /\ HashNames(t)
    BY <1>6 DEF OnceInv, LedgersInOrder, Written, Rows
  <2>3. rows[t][n].hash = 0 => Found(t, n) = 0
    BY <1>1, <2>2, FoundIsHash
  <2>4. new[n] = back(n)
    BY <1>4
  <2> QED BY <1>1, <1>3, <2>1, <2>3, <2>4, BackKeeps
<1>7. \A u \in Traders : Applied(u)' = Applied(u) /\ InFlight(u)' = InFlight(u) /\ Out(u)' = Out(u)
  BY <1>1 DEF Applied, InFlight, Out, lapseVars, stellarVars
<1>8. Careful(t) => Rows(t)'
  <2> SUFFICES ASSUME Careful(t) PROVE Rows(t)'
    OBVIOUS
  <2>1. Rows(t) /\ OthersStay(t)
    BY <1>7 DEF OnceInv, Written, OthersStay
  <2> QED BY <1>1, <1>5, <1>6, <1>7, <2>1, HashesKept
<1>9. Asked(t)'
  BY <1>1 DEF Asked, TypeOK
<1>10. Written'
  BY <1>1, <1>5, <1>7, <1>8, <1>9, PassWritten DEF stellarVars
<1>11. t = "buyer" => \A k \in 1 .. Steps : new[k].env <= LastSeq("buyer") + 1
  BY <1>1, <1>6 DEF OnceInv, LedgersInOrder, LateIsOut, Careful, Kept
<1>12. LedgersInOrder'
  BY <1>1, <1>5, <1>11, QuietOrder DEF stellarVars
<1> QED BY <1>10, <1>12

-----------------------------------------------------------------------------

\* The strengthening holds at the start.
LEMMA InitOnce == Init => OnceInv
<1> SUFFICES ASSUME Init PROVE OnceInv
  OBVIOUS
<1>1. IInv
  BY InitIInv
<1>2. \A t \in Traders : Applied(t) = {} /\ Out(t) = {} /\ pc[t] = "idle"
  BY DEF Init, Applied, InFlight, Out
<1>3. \A t \in Traders, n \in 1 .. Steps : rows[t][n] = NewRow
  BY DEF Init
<1>4. LedgersInOrder
  <2>1. \A n \in 1 .. Steps : rows["buyer"][n].env <= LastSeq("buyer") + 1
    <3>1. LastSeq("buyer") \in 0 .. MaxSeq
      BY <1>1, LastSeqType DEF IInv
    <3> QED BY <1>3, <3>1 DEF NewRow
  <2> QED BY <1>2, <2>1 DEF LedgersInOrder, SeqsInOrder, DepthsInOrder, PoolAhead, LateIsOut, Init
<1>5. Written
  BY <1>2, <1>3 DEF Written, Rows, HashNames, EnvIsHash, StepByStep, Asked, NewRow
<1> QED BY <1>1, <1>4, <1>5 DEF OnceInv

\* Every step keeps it.
LEMMA StepOnce == OnceInv /\ [Next]_vars => OnceInv'
<1> SUFFICES ASSUME OnceInv, [Next]_vars PROVE OnceInv'
  OBVIOUS
<1>1. IInv'
  BY StepIInv DEF OnceInv
<1>2. CASE UNCHANGED vars
  <2>1. \A t \in Traders : Applied(t)' = Applied(t) /\ Out(t)' = Out(t)
    BY <1>2 DEF vars, lapseVars, stellarVars, Applied, Out, InFlight
  <2>2. Written'
    BY <1>2, <2>1, LedgerWritten DEF OnceInv, OthersStay, vars, lapseVars, stellarVars
  <2>3. LedgersInOrder'
    BY <1>2, <2>1, UndecidedOrder
       DEF OnceInv, IInv, LedgersInOrder, LateIsOut, vars, lapseVars, stellarVars
  <2> QED BY <1>1, <2>2, <2>3 DEF OnceInv
<1>3. CASE Ledgers
  <2>1. ASSUME NEW p \in Payment, Mine(p) \/ Drop(p) \/ Decide(p)
        PROVE  LedgersInOrder' /\ Written'
    <3>1. CASE Mine(p)
      BY <3>1, MineOnce
    <3>2. CASE Drop(p) \/ Decide(p)
      BY <3>2, LedgersOnce
    <3> QED BY <2>1, <3>1, <3>2
  <2>2. ASSUME NEW n \in 1 .. Steps, Expire(n) \/ RoguePays(n)
        PROVE  LedgersInOrder' /\ Written'
    BY <2>2, LedgersOnce
  <2>3. LedgersInOrder' /\ Written'
    BY <1>3, <2>1, <2>2, MineEmptyOnce, ReorgOnce DEF Ledgers
  <2> QED BY <1>1, <2>3 DEF OnceInv
<1>4. ASSUME NEW t \in Traders, Pass(t) \/ Abort(t) \/ Crash(t) \/ OtherSpend(t) PROVE OnceInv'
  BY <1>1, <1>4, BeginOnce, FindOnce, ConsumedOnce, BuildOnce, FinishOnce, SendOnce, RestartOnce,
     StopOnce, OtherSpendOnce DEF Pass, OnceInv
<1> QED BY <1>2, <1>3, <1>4 DEF Next

\* For every payment of the trade that may still be applied, the trader's row
\* names it: it is found again, sent again or waited for, never built anew
\* (ensure_sent and _resend, swap_engine.py).
THEOREM RowAlwaysKnows == Spec => []RowKnows
<1>1. OnceInv => RowKnows
  <2> SUFFICES ASSUME OnceInv, NEW t \in Traders, Careful(t), NEW p \in InFlight(t),
                      p.step # 0, p.seq > LastSeq(t)
               PROVE  rows[t][p.step].hash = p.seq
    BY DEF RowKnows, Careful
  <2> QED BY AliveIsHash DEF OnceInv, IInv, LedgersInOrder, Written, Rows, Out
<1> QED BY InitOnce, StepOnce, <1>1, PTL DEF Spec

\* No step of a trade is paid twice: not by an honest buyer, whatever happens,
\* nor by an honest seller in a calm world (swap_engine.py:16-20).
THEOREM StepPaidOnce == Spec => []PaidOnceIfCalm
<1>1. OnceInv => PaidOnceIfCalm
  <2> SUFFICES ASSUME OnceInv, NEW t \in Traders, Careful(t),
                      NEW p \in Applied(t), NEW q \in Applied(t), p.step = q.step, p.step # 0
               PROVE  p = q
    BY DEF PaidOnceIfCalm, PaysOnce, Careful
  <2>1. p.seq = rows[t][p.step].hash /\ q.seq = rows[t][q.step].hash
    BY AliveIsHash DEF OnceInv, IInv, LedgersInOrder, Written, Rows, Out
  <2> QED BY <2>1 DEF OnceInv, LedgersInOrder, SeqsInOrder
<1> QED BY InitOnce, StepOnce, <1>1, PTL DEF Spec

===============================================================================
