------------------------------ MODULE SwapTrade ------------------------------
(***************************************************************************)
(* One swap of LAPSE against XLM, carried out in steps by two engines      *)
(* (swap_engine.py) over two ledgers.  The seller sends LAPSE, the buyer   *)
(* XLM; in each step one of them moves first, alternating, and nobody      *)
(* moves on a step before the one below it is settled on both ledgers.     *)
(*                                                                         *)
(* A payment is [step, seq]: the memo names the step, seq is the sender's  *)
(* nonce or sequence number.  Step 0 is any other spending of the wallet.  *)
(* A ledger takes payments of one sender in the order of seq, without      *)
(* gaps.  Stellar is final on inclusion; the LAPSE chain keeps a depth     *)
(* with each payment and may take back the last MaxReorg blocks.  Both     *)
(* nodes are taken to follow the same LAPSE chain.                         *)
(*                                                                         *)
(* One trader may be rogue: it then follows no rule and publishes what it  *)
(* likes.  Amounts, prices and deadlines are left out: a payment is one    *)
(* that meets the agreed terms.                                            *)
(***************************************************************************)
EXTENDS Integers, FiniteSetsExt

CONSTANTS
    Steps,        \* number of steps of the trade
    Depth,        \* blocks that settle a LAPSE payment (_required_depth)
    MaxReorg,     \* blocks one reorganisation may take back
    MaxSeq,       \* bound on nonces and sequence numbers
    MaxOther,     \* bound on spendings outside the trade
    MaxFaults,    \* bound on crashes, outages, losses, expiries, reorganisations and
                  \* questions put to a view that is behind
    Worlds        \* which worlds to look at: calm ones (TRUE, see Undisturbed), others, both

ASSUME SwapAssumption ==
    /\ Steps \in Nat \ {0} /\ Depth \in Nat \ {0}
    /\ MaxReorg \in Nat /\ MaxReorg < Depth
    /\ MaxSeq \in Nat /\ MaxOther \in Nat /\ MaxFaults \in Nat
    /\ Worlds \subseteq BOOLEAN

Traders == {"seller", "buyer"}
Peer(t) == IF t = "seller" THEN "buyer" ELSE "seller"
Payment == [step : 0 .. Steps, seq : 1 .. MaxSeq]

VARIABLES
    opener,     \* who moves first in step 1 (swap.i_open)
    rogue,      \* the trader that follows no rule, or "nobody"
    calm,       \* whether the disturbances named at Undisturbed are left out
    chain,      \* the seller's payments on the LAPSE chain, with their depth
    pool,       \* the seller's mempool: his own payments in it
    gossiped,   \* every LAPSE payment that ever left a node: peers may mine it
    stellar,    \* the buyer's payments on the Stellar ledger
    flying,     \* the buyer's payments that Stellar has got and not decided
    late,       \* the buyer's payments past their time bound
    rows,       \* the Increment rows of both traders
    pc,         \* where each worker stands in its pass
    others,     \* spendings outside the trade, so far
    faults      \* faults so far

world == <<opener, rogue, calm>>
lapseVars == <<chain, pool, gossiped>>
stellarVars == <<stellar, flying, late>>
vars == <<world, lapseVars, stellarVars, rows, pc, others, faults>>

\* A row of Increment, as far as decisions depend on it.  env is the sequence
\* number of the stored envelope (0: none), hash that of the last transaction
\* recorded (out_tx_hash), in that of the payment that settled the peer's leg.
Row == [out : {"PENDING", "INTENT", "SUBMITTED", "SETTLED", "DEAD"},
        env : 0 .. MaxSeq, hash : 0 .. MaxSeq, in : 0 .. MaxSeq]
NewRow == [out |-> "PENDING", env |-> 0, hash |-> 0, in |-> 0]

Points == {"idle", "find", "resend", "consumed", "build", "submit", "after", "down"}

Honest(t) == t # rogue
At(t, p) == Honest(t) /\ pc[t] = p

TypeOK ==
    /\ opener \in Traders /\ rogue \in Traders \cup {"nobody"} /\ calm \in Worlds
    /\ chain \subseteq [step : 0 .. Steps, seq : 1 .. MaxSeq, depth : 1 .. Depth]
    /\ pool \subseteq gossiped /\ gossiped \subseteq Payment
    /\ stellar \subseteq Payment /\ flying \subseteq Payment /\ late \subseteq Payment
    /\ rows \in [Traders -> [1 .. Steps -> Row]]
    /\ pc \in [Traders -> Points]
    /\ others \in 0 .. MaxOther /\ faults \in 0 .. MaxFaults

Init ==
    /\ opener \in Traders /\ rogue \in Traders \cup {"nobody"} /\ calm \in Worlds
    /\ chain = {} /\ pool = {} /\ gossiped = {}
    /\ stellar = {} /\ flying = {} /\ late = {}
    /\ rows = [t \in Traders |-> [n \in 1 .. Steps |-> NewRow]]
    /\ pc = [t \in Traders |-> "idle"]
    /\ others = 0 /\ faults = 0

-----------------------------------------------------------------------------
(* The two ledgers *)

Fault == faults < MaxFaults /\ faults' = faults + 1

Plain(x) == [step |-> x.step, seq |-> x.seq]
Applied(t) == IF t = "seller" THEN {Plain(x) : x \in chain} ELSE stellar
HighestSeq(S) == Max({p.seq : p \in S} \cup {0})
LastSeq(t) == HighestSeq(Applied(t))

\* The nonce _build_and_sign_tx_with_kek takes, and the only one the node accepts.
NextNonce == Max({LastSeq("seller"), HighestSeq(pool)}) + 1

\* Mutant: one block is enough.
ConfirmedAtOnce(t, p) == p \in Applied(t)

\* A payment that counts as settled: deep enough on the LAPSE chain, or on Stellar.
Confirmed(t, p) ==
    IF t = "seller" THEN \E x \in chain : Plain(x) = p /\ x.depth >= Depth
                    ELSE p \in stellar

\* find_payment asks for the memo and gets the newest match: its seq, or 0.
Found(t, n) == HighestSeq({p \in Applied(t) : p.step = n})

\* A settled payment is out of the reach of a reorganisation, so deeper depths are alike.
Aged(S) == {[x EXCEPT !.depth = IF @ < Depth THEN @ + 1 ELSE @] : x \in S}

\* The worker has asked its question and has not used the answer yet.
MidPass(t) == pc[t] \in {"resend", "consumed", "build"}

\* What a calm world excludes: the LAPSE chain moves while the seller's worker is
\* in its question or between it and the use of the answer; and a reorganisation takes
\* back a spending outside the trade whose nonce killed a payment of the trade.
Undisturbed == calm => ~MidPass("seller")

\* The network finds a block: with the next payment anybody published, or
\* without.  A rogue seller publishes whatever is mined.
Mine(p) ==
    /\ Undisturbed
    /\ p \in gossiped \/ rogue = "seller"
    /\ p.seq = LastSeq("seller") + 1
    /\ chain' = Aged(chain) \cup {[step |-> p.step, seq |-> p.seq, depth |-> 1]}
    /\ pool' = {q \in pool : q.seq > p.seq}
    /\ UNCHANGED <<world, gossiped, stellarVars, rows, pc, others, faults>>

MineEmpty ==
    /\ Undisturbed
    /\ chain' = Aged(chain) /\ chain' # chain
    /\ UNCHANGED <<world, pool, gossiped, stellarVars, rows, pc, others, faults>>

\* A branch takes the place of the last k blocks; what they held goes back to the
\* pool, unless the node is down and comes back with the new branch.
Reorg(k) ==
    LET gone == {x \in chain : x.depth <= k}
    IN  /\ Undisturbed /\ Fault
        /\ gone # {} /\ (calm => \A x \in gone : x.step # 0)
        /\ chain' = chain \ gone
        /\ \/ Honest("seller") /\ pool' = pool \cup {Plain(x) : x \in gone}
           \/ (~Honest("seller") \/ At("seller", "down")) /\ UNCHANGED pool
        /\ UNCHANGED <<world, gossiped, stellarVars, rows, pc, others>>

\* The seller's own node evicts or expires a payment; its peers may still hold it.
Drop(p) ==
    /\ Fault /\ p \in pool /\ pool' = pool \ {p}
    /\ UNCHANGED <<world, chain, gossiped, stellarVars, rows, pc, others>>

\* Stellar decides on a payment it has got; or its time bound passes.
Decide(p) ==
    /\ p \in flying /\ p.seq = LastSeq("buyer") + 1
    /\ stellar' = stellar \cup {p} /\ flying' = {q \in flying : q.seq > p.seq}
    /\ UNCHANGED <<world, lapseVars, late, rows, pc, others, faults>>

Expire(n) ==
    LET p == [step |-> n, seq |-> rows["buyer"][n].env]
    IN  /\ Fault /\ p.seq # 0 /\ p \notin stellar /\ p \notin late
        /\ late' = late \cup {p} /\ flying' = flying \ {p}
        /\ UNCHANGED <<world, lapseVars, stellar, rows, pc, others>>

\* A trader spends from the same wallet by hand.
OtherSpend(t) ==
    /\ t # rogue /\ others < MaxOther /\ others' = others + 1
    /\ \/ /\ t = "seller" /\ pc[t] # "down" /\ NextNonce <= MaxSeq
          /\ pool' = pool \cup {[step |-> 0, seq |-> NextNonce]}
          /\ gossiped' = gossiped \cup {[step |-> 0, seq |-> NextNonce]}
          /\ UNCHANGED stellar
       \/ /\ t = "buyer" /\ LastSeq(t) < MaxSeq
          /\ stellar' = stellar \cup {[step |-> 0, seq |-> LastSeq(t) + 1]}
          /\ UNCHANGED <<pool, gossiped>>
    /\ UNCHANGED <<world, chain, flying, late, rows, pc, faults>>

\* A rogue buyer pays what it likes; for a rogue seller see Mine.
RoguePays(n) ==
    /\ rogue = "buyer" /\ LastSeq("buyer") < MaxSeq
    /\ stellar' = stellar \cup {[step |-> n, seq |-> LastSeq("buyer") + 1]}
    /\ UNCHANGED <<world, lapseVars, flying, late, rows, pc, others, faults>>

-----------------------------------------------------------------------------
(* One pass of a worker: advance, _advance_step, ensure_sent *)

\* Mutant: a step is done with when the own leg is.
SettledByOwnLeg(r) == r.out = "SETTLED"

Settled(r) == r.out = "SETTLED" /\ r.in # 0
Open(t) == {n \in 1 .. Steps : ~Settled(rows[t][n])}
Current(t) == Min(Open(t))

\* Mutant: the peer of the opener moves first in no step.
MovesFirstIfOpener(t, n) == t = opener /\ n % 2 = 1

MovesFirst(t, n) == (t = opener) = (n % 2 = 1)

Envelope(t, n) == [step |-> n, seq |-> rows[t][n].env]

\* check_outbound: what the chain says of the last transaction recorded.
CheckOutbound(t, n, r) ==
    IF r.hash = 0 THEN r
    ELSE [r EXCEPT !.out = IF Confirmed(t, [step |-> n, seq |-> r.hash])
                             THEN "SETTLED" ELSE "SUBMITTED"]

\* check_inbound: a settled leg is looked up again, an open one searched for.
CheckInbound(t, n, r) ==
    LET seq == IF r.in # 0 THEN r.in ELSE Found(Peer(t), n)
    IN  [r EXCEPT !.in = IF Confirmed(Peer(t), [step |-> n, seq |-> seq])
                           THEN seq ELSE 0]

\* What _advance_step does on both sides of ensure_sent.
Before(t, n, r) ==
    IF MovesFirst(t, n) THEN CheckOutbound(t, n, r)
    ELSE LET r1 == CheckInbound(t, n, r)
         IN  IF r1.in # 0 THEN CheckOutbound(t, n, r1) ELSE r1
After(t, n, r) ==
    LET r1 == CheckOutbound(t, n, r)
    IN  IF MovesFirst(t, n) /\ r1.out = "SETTLED" THEN CheckInbound(t, n, r1) ELSE r1
MaySend(t, n, r) == r.out # "SETTLED" /\ (MovesFirst(t, n) \/ r.in # 0)

Goto(t, p) == pc' = [pc EXCEPT ![t] = p]
Write(t, n, r) == rows' = [rows EXCEPT ![t][n] = r]

\* advance picks the first step that is not settled on both sides.
Begin(t) ==
    /\ At(t, "idle") /\ Open(t) # {}
    /\ LET n == Current(t)
           r == Before(t, n, rows[t][n])
       IN  IF MaySend(t, n, r)
             THEN Write(t, n, r) /\ Goto(t, "find")
             ELSE /\ Write(t, n, IF MovesFirst(t, n) THEN CheckInbound(t, n, r) ELSE r)
                  /\ Goto(t, "idle")
    /\ UNCHANGED <<world, lapseVars, stellarVars, others, faults>>

\* ensure_sent asks the pool and the ledger, of which it sees `seen`, and then
\* looks for an envelope.
FindIn(t, seen) ==
    /\ At(t, "find")
    /\ LET n == Current(t)
           pending == IF t = "seller" THEN {p \in pool : p.step = n} ELSE {}
           found == HighestSeq(IF pending # {} THEN pending ELSE {p \in seen : p.step = n})
       IN  IF found # 0
             THEN /\ Write(t, n, After(t, n, [rows[t][n] EXCEPT !.hash = found]))
                  /\ Goto(t, "idle")
             ELSE /\ UNCHANGED rows
                  /\ Goto(t, IF rows[t][n].env # 0 /\ rows[t][n].out \in {"INTENT", "SUBMITTED"}
                               THEN "resend" ELSE "build")
    /\ UNCHANGED <<world, lapseVars, stellarVars, others>>

\* Mutant of Find: only the pool is asked whether the step is paid.
FindInPool(t) == FindIn(t, {}) /\ UNCHANGED faults

\* find_payment looks into the pool first and then at the view: between the two,
\* or while _commit has not published it yet, a block that has emptied the pool
\* is not in the view (node.py:1305).
Find(t) ==
    \/ FindIn(t, Applied(t)) /\ UNCHANGED faults
    \/ /\ ~calm /\ t = "seller" /\ Fault
       /\ FindIn(t, {Plain(x) : x \in {y \in chain : y.depth > 1}})

\* Mutant: the payment is kept and not spread.
SubmitLapseUnspread(p, reply) ==
    /\ pool' = IF reply = "ok" /\ p.seq = NextNonce THEN pool \cup {p} ELSE pool
    /\ reply = (IF p.seq = NextNonce THEN "ok" ELSE "refused")
    /\ UNCHANGED <<chain, gossiped, stellarVars, faults>>

\* The node's answer to a payment: admitted, refused, or none in time, which
\* reads as a refusal whether the node loop takes the payment or not.
SubmitLapse(p, reply) ==
    LET admitted == pool' = pool \cup {p} /\ gossiped' = gossiped \cup {p}
        left == UNCHANGED <<pool, gossiped>>
    IN  /\ \/ reply = "ok" /\ p.seq = NextNonce /\ admitted /\ UNCHANGED faults
           \/ reply = "refused" /\ p.seq # NextNonce /\ left /\ UNCHANGED faults
           \/ reply = "refused" /\ Fault /\ (left \/ (p.seq = NextNonce /\ admitted))
        /\ UNCHANGED <<chain, stellarVars>>

\* Horizon's answer: what is on the ledger already is a success; a transport
\* failure says nothing of whether the payment arrived.
SubmitXLM(p, reply) ==
    LET applicable == p.seq = LastSeq("buyer") + 1 /\ p \notin late
    IN  /\ \/ /\ reply = "ok" /\ (p \in stellar \/ applicable)
              /\ stellar' = stellar \cup {p} /\ flying' = flying \ {p} /\ UNCHANGED faults
           \/ /\ reply = "refused" /\ p \notin stellar /\ ~applicable
              /\ UNCHANGED <<stellar, flying, faults>>
           \/ /\ reply = "unreachable" /\ Fault
              /\ flying' \in {flying, flying \cup IF applicable THEN {p} ELSE {}}
              /\ UNCHANGED stellar
        /\ UNCHANGED <<lapseVars, late>>

Submit(t, p, reply) ==
    IF t = "seller" THEN SubmitLapse(p, reply) ELSE SubmitXLM(p, reply)

\* _resend: the stored envelope goes out again.
Resend(t, reply) ==
    /\ At(t, "resend")
    /\ LET n == Current(t)
       IN  /\ Submit(t, Envelope(t, n), reply)
           /\ IF reply = "ok" THEN Write(t, n, [rows[t][n] EXCEPT !.out = "SUBMITTED"])
                              ELSE UNCHANGED rows
    /\ Goto(t, CASE reply = "ok" -> "after" [] reply = "refused" -> "consumed" [] OTHER -> "idle")
    /\ UNCHANGED <<world, others>>

\* sequence_consumed: out_seq is the nonce for LAPSE, but for XLM what the
\* account's sequence number was before the envelope, which is one less than
\* the envelope's own.
OutSeq(t, seq) == IF t = "seller" THEN seq ELSE seq - 1

Consumed(t) ==
    /\ At(t, "consumed")
    /\ LET n == Current(t)
       IN  IF LastSeq(t) >= OutSeq(t, rows[t][n].env)
             THEN Write(t, n, [rows[t][n] EXCEPT !.out = "DEAD", !.env = 0]) /\ Goto(t, "build")
             ELSE UNCHANGED rows /\ Goto(t, "after")
    /\ UNCHANGED <<world, lapseVars, stellarVars, others, faults>>

\* _build_and_send: signed and written down before it is sent.  The number of an XLM
\* payment is read from the account: what SequenceAllocator remembers is left out.
Build(t) ==
    /\ At(t, "build")
    /\ LET n == Current(t)
           seq == IF t = "seller" THEN NextNonce ELSE LastSeq(t) + 1
       IN  /\ seq <= MaxSeq
           /\ Write(t, n, [rows[t][n] EXCEPT !.env = seq, !.hash = seq, !.out = "INTENT"])
           /\ late' = IF t = "buyer" THEN late \ {[step |-> n, seq |-> seq]} ELSE late
    /\ Goto(t, "submit")
    /\ UNCHANGED <<world, lapseVars, stellar, flying, others, faults>>

\* Mutant: no answer is taken for a failure, and the envelope forgotten.
SendForgetting(t, reply) ==
    /\ At(t, "submit")
    /\ LET n == Current(t)
       IN  /\ Submit(t, Envelope(t, n), reply)
           /\ Write(t, n, CASE reply = "ok" -> [rows[t][n] EXCEPT !.out = "SUBMITTED"]
                            [] reply = "unreachable" -> [NewRow EXCEPT !.in = rows[t][n].in]
                            [] OTHER -> rows[t][n])
    /\ Goto(t, IF reply = "unreachable" THEN "idle" ELSE "after")
    /\ UNCHANGED <<world, others>>

Send(t, reply) ==
    /\ At(t, "submit")
    /\ LET n == Current(t)
       IN  /\ Submit(t, Envelope(t, n), reply)
           /\ IF reply = "ok" THEN Write(t, n, [rows[t][n] EXCEPT !.out = "SUBMITTED"])
                              ELSE UNCHANGED rows
    /\ Goto(t, IF reply = "unreachable" THEN "idle" ELSE "after")
    /\ UNCHANGED <<world, others>>

Finish(t) ==
    /\ At(t, "after")
    /\ Write(t, Current(t), After(t, Current(t), rows[t][Current(t)]))
    /\ Goto(t, "idle")
    /\ UNCHANGED <<world, lapseVars, stellarVars, others, faults>>

\* Unreachable, a locked wallet or any other exception ends the pass.
Abort(t) ==
    /\ Honest(t) /\ pc[t] \in {"find", "consumed", "build", "after"}
    /\ Fault /\ Goto(t, "idle")
    /\ UNCHANGED <<world, lapseVars, stellarVars, rows, others>>

-----------------------------------------------------------------------------
(* Crash and recovery *)

\* The rows are in the database; the mempool is in memory only.
Crash(t) ==
    /\ Honest(t) /\ pc[t] # "down" /\ Fault /\ Goto(t, "down")
    /\ pool' = IF t = "seller" THEN {} ELSE pool
    /\ UNCHANGED <<world, chain, gossiped, stellarVars, rows, others>>

\* reconcile looks up every leg and sends nothing.
Reconciled(t, n, r) ==
    CheckOutbound(t, n, IF r.hash = 0 THEN [r EXCEPT !.hash = Found(t, n)] ELSE r)

\* For the steps in lost the question to Stellar gets no answer: the buyer's row stays,
\* the seller's has its own leg corrected already.
Restart(t, lost) ==
    /\ At(t, "down") /\ Goto(t, "idle")
    /\ rows' = [rows EXCEPT ![t] = [n \in 1 .. Steps |->
          IF n \notin lost THEN CheckInbound(t, n, Reconciled(t, n, rows[t][n]))
          ELSE IF t = "seller" THEN Reconciled(t, n, rows[t][n]) ELSE rows[t][n]]]
    /\ UNCHANGED <<world, lapseVars, stellarVars, others, faults>>

-----------------------------------------------------------------------------
Replies == {"ok", "refused", "unreachable"}

Pass(t) ==
    \/ Begin(t) \/ Find(t) \/ Consumed(t) \/ Build(t) \/ Finish(t)
    \/ \E reply \in Replies : Resend(t, reply) \/ Send(t, reply)
    \/ \E lost \in SUBSET (1 .. Steps) : Restart(t, lost)

Ledgers ==
    \/ \E p \in Payment : Mine(p) \/ Drop(p) \/ Decide(p)
    \/ MineEmpty
    \/ \E k \in 1 .. MaxReorg : Reorg(k)
    \/ \E n \in 1 .. Steps : Expire(n) \/ RoguePays(n)

Next ==
    \/ Ledgers
    \/ \E t \in Traders : Pass(t) \/ Abort(t) \/ Crash(t) \/ OtherSpend(t)

Spec == Init /\ [][Next]_vars

\* The worker's thread keeps making passes, miners take what pays, Stellar decides.
Fairness ==
    /\ \A t \in Traders : WF_vars(Pass(t))
    /\ WF_vars(\E p \in gossiped : Mine(p))
    /\ WF_vars(MineEmpty)
    /\ WF_vars(\E p \in flying : Decide(p))

FairSpec == Spec /\ Fairness

-----------------------------------------------------------------------------
(* What has to hold *)

\* A step is paid at most once by an honest trader: the envelope that is sent
\* again carries the sequence number it had, and a new one is built only when
\* the old one can no longer apply (swap_engine.py:16-20).
PaysOnce(t) == Honest(t) =>
    \A p, q \in Applied(t) : p.step = q.step /\ p.step # 0 => p = q
PaidOnce == \A t \in Traders : PaysOnce(t)

\* The same as far as the code keeps it: the buyer pays once in every world,
\* the seller in a calm one.
PaidOnceIfCalm == PaysOnce("buyer") /\ (calm => PaysOnce("seller"))

\* Whatever the peer does, everything an honest trader has sent out is paid for
\* on a ledger, but for the last step if it moves first in it: more than one
\* step is never at risk (swap.py, i_move_first; _advance_step).
InFlight(t) == IF t = "seller" THEN gossiped ELSE flying
Sent(t) == {p.step : p \in Applied(t) \cup InFlight(t)} \ {0}
Exposure ==
    \A t \in Traders : Honest(t) => \A n \in Sent(t) :
        \A m \in 1 .. n : (m < n \/ ~MovesFirst(t, n)) => Found(Peer(t), m) # 0

\* A trader whose rows are all settled has paid every step and been paid every
\* step, on ledgers that will not take it back.
DoneIsDone ==
    \A t \in Traders : Honest(t) /\ Open(t) = {} =>
        \A n \in 1 .. Steps :
            /\ Confirmed(t, [step |-> n, seq |-> rows[t][n].hash])
            /\ Confirmed(Peer(t), [step |-> n, seq |-> rows[t][n].in])

\* What may still be applied is written down: for every payment of the trade
\* that is out and whose sequence number is free, the row names it.
RowKnows ==
    \A t \in Traders : Honest(t) /\ (t = "buyer" \/ calm) => \A p \in InFlight(t) :
        p.step # 0 /\ p.seq > LastSeq(t) => rows[t][p.step].hash = p.seq

\* In a calm world two honest traders that spend on nothing else complete the trade.
Completion ==
    calm /\ rogue = "nobody" /\ [](others = 0) => <>(\A t \in Traders : Open(t) = {})
=============================================================================
