----------------------------- MODULE FillProofs -----------------------------
(***************************************************************************)
(* Proofs about Fill, for any nodes, orders and requests and whatever the  *)
(* bounds: no taker is alone with a trade, the maker's funds cover what it *)
(* promised, and a request has one answer as long as one thread answers.   *)
(***************************************************************************)
EXTENDS Fill, Numbers

USE FillAssumption DEF Node, Thread, Verdict

\* The maker has a trade for it on disk.
Known(r) == trade[Maker][r] # "none"

\* Past Trade.create with an acceptance.
Accepting(j) == j.at = "fill" \/ (j.at \in {"store", "publish"} /\ j.verdict = "accept")

\* Wherever there is an acceptance there is a trade of the maker.
Recorded ==
  /\ \A m \in net : m.what = "accept" => Known(m.req)
  /\ \A n \in Node, r \in Req : answer[n][r] = "accept" => Known(r)
  /\ \A w \in Thread : pc[w] # Idle /\ Accepting(pc[w]) => Known(pc[w].req)
  /\ \A t \in Taker, r \in Req : trade[t][r] # "none" => Known(r)

IInv == TypeOK /\ Recorded

-----------------------------------------------------------------------------
(* Jobs *)

\* Who is about to do something has a job.
LEMMA AtWork ==
  ASSUME TypeOK, NEW w \in Thread, pc[w].at # "idle"
  PROVE  pc[w] \in Job /\ pc[w] # Idle /\ pc[w].req \in Req /\ pc[w].verdict \in Verdict
<1>1. pc[w] \in Job \cup {Idle}
  BY DEF TypeOK
<1>2. pc[w] # Idle
  BY DEF Idle
<1> QED BY <1>1, <1>2 DEF Job

\* A step of a job leaves its request and its verdict.
LEMMA StepOf ==
  ASSUME TypeOK, NEW w \in Thread, pc[w].at # "idle",
         NEW at \in {"wait", "open", "fill", "store", "publish"}, Step(w, at)
  PROVE  /\ pc' \in [Thread -> Job \cup {Idle}]
         /\ pc'[w] = [at |-> at, req |-> pc[w].req, verdict |-> pc[w].verdict]
         /\ \A u \in Thread : u # w => pc'[u] = pc[u]
<1>1. pc[w] \in Job /\ pc \in [Thread -> Job \cup {Idle}]
  BY AtWork DEF TypeOK
<1>2. pc' = [pc EXCEPT ![w] = [pc[w] EXCEPT !.at = at]]
  BY DEF Step
<1>3. [pc[w] EXCEPT !.at = at] = [at |-> at, req |-> pc[w].req, verdict |-> pc[w].verdict]
  BY <1>1 DEF Job
<1>4. [at |-> at, req |-> pc[w].req, verdict |-> pc[w].verdict] \in Job
  BY <1>1 DEF Job
<1> QED BY <1>1, <1>2, <1>3, <1>4

\* A thread that stops is idle, the other one as it was.
LEMMA StopOf ==
  ASSUME TypeOK, NEW w \in Thread, Stop(w)
  PROVE  /\ pc' \in [Thread -> Job \cup {Idle}]
         /\ pc'[w] = Idle
         /\ \A u \in Thread : u # w => pc'[u] = pc[u]
BY DEF TypeOK, Stop

\* A trade that is opened, filled in or completed is of the type.
LEMMA TradeOf ==
  ASSUME TypeOK, NEW n \in Node, NEW r \in Req, NEW s \in {"bare", "open", "done"},
         trade' = [trade EXCEPT ![n][r] = s]
  PROVE  /\ trade' \in [Node -> [Req -> {"none", "bare", "open", "done"}]]
         /\ trade'[n][r] = s
         /\ \A p \in Node, q \in Req : p # n \/ q # r => trade'[p][q] = trade[p][q]
BY DEF TypeOK

\* A lock released is free, or somebody else's.
LEMMA ReleaseOf ==
  ASSUME TypeOK, NEW w \in Thread, Release(w)
  PROVE  lock' \in Thread \cup {None}
BY DEF TypeOK, Release

-----------------------------------------------------------------------------
(* Types *)

\* Types hold at the start.
LEMMA TypeInit == Init => TypeOK
BY DEF Init, TypeOK, Idle

\* A request is made or heard within the types.
LEMMA AskTypes ==
  ASSUME TypeOK, (\E r \in Req : Ask(r)) \/ (\E m \in net : HearAsk(m))
  PROVE  TypeOK'
<1>1. ASSUME NEW r \in Req, Ask(r) PROVE TypeOK'
  <2>1. asked' \in [Node -> SUBSET Req]
    BY <1>1 DEF TypeOK, Ask
  <2>2. net' \subseteq Message
    BY <1>1 DEF TypeOK, Ask, Message
  <2> QED BY <1>1, <2>1, <2>2 DEF TypeOK, Ask, world, deal
<1>2. ASSUME NEW m \in net, HearAsk(m) PROVE TypeOK'
  <2>1. asked' \in [Node -> SUBSET Req] /\ net' \subseteq Message
    BY <1>2 DEF TypeOK, HearAsk, Message
  <2> QED BY <1>2, <2>1 DEF TypeOK, HearAsk, world, deal
<1> QED BY <1>1, <1>2

\* So does a thread take a request up.
LEMMA LookTypes ==
  ASSUME TypeOK, NEW w \in Thread, NEW r \in Req, NEW v \in Verdict, Look(w, r, v)
  PROVE  TypeOK'
<1>1. [at |-> IF v = "accept" THEN "wait" ELSE "store", req |-> r, verdict |-> v] \in Job
  BY DEF Job
<1>2. pc' \in [Thread -> Job \cup {Idle}]
  BY <1>1 DEF TypeOK, Look
<1> QED BY <1>2 DEF TypeOK, Look, world, books, deal

\* What the jobs become when a thread decides.
LEMMA DecideOf ==
  ASSUME TypeOK, NEW w \in Thread, Decide(w)
  PROVE  /\ pc' \in [Thread -> Job \cup {Idle}]
         /\ pc'[w].at = "open" \/ (pc'[w].at = "store" /\ pc'[w].verdict = "decline")
         /\ \A u \in Thread : u # w => pc'[u] = pc[u]
<1>1. pc[w].at = "wait" /\ pc[w] \in Job /\ pc \in [Thread -> Job \cup {Idle}]
  BY AtWork DEF TypeOK, Decide
<1>2. CASE Acceptable(pc[w].req)
  <2>1. Step(w, "open")
    BY <1>2 DEF Decide
  <2> QED BY <1>1, <2>1, StepOf
<1>3. CASE ~ Acceptable(pc[w].req)
  <2> DEFINE j == [at |-> "store", req |-> pc[w].req, verdict |-> "decline"]
  <2>1. pc' = [pc EXCEPT ![w] = j]
    BY <1>3 DEF Decide
  <2>2. j \in Job
    BY <1>1 DEF Job
  <2> QED BY <1>1, <2>1, <2>2
<1> QED BY <1>2, <1>3

\* What is done under the lock, or past it, is within the types.
LEMMA AnsweringTypes ==
  ASSUME TypeOK, NEW w \in Thread, Answering(w)
  PROVE  TypeOK'
<1>1. CASE Decide(w)
  <2>1. lock' \in Thread \cup {None}
    BY <1>1 DEF Decide, Acquire
  <2>2. pc' \in [Thread -> Job \cup {Idle}]
    BY <1>1, DecideOf
  <2> QED BY <1>1, <2>1, <2>2 DEF TypeOK, Decide, world, books, deal
<1>2. CASE Open(w)
  <2>1. pc[w].at # "idle" /\ pc[w].req \in Req
    BY <1>2, AtWork DEF Open
  <2>2. CASE trade[Maker][pc[w].req] = "none"
    <3>1. trade' \in [Node -> [Req -> {"none", "bare", "open", "done"}]]
      BY <1>2, <2>1, <2>2, TradeOf DEF Open
    <3>2. Step(w, "fill") /\ lock' = lock
      BY <1>2, <2>2 DEF Open
    <3>3. pc' \in [Thread -> Job \cup {Idle}]
      BY <2>1, <3>2, StepOf
    <3> QED BY <1>2, <3>1, <3>2, <3>3 DEF TypeOK, Open, world, books
  <2>3. CASE trade[Maker][pc[w].req] # "none"
    <3>1. pc' \in [Thread -> Job \cup {Idle}] /\ lock' \in Thread \cup {None}
      BY <1>2, <2>3, StopOf, ReleaseOf DEF Open
    <3> QED BY <1>2, <2>3, <3>1 DEF TypeOK, Open, world, books
  <2> QED BY <2>2, <2>3
<1>3. CASE FillIn(w)
  <2>1. pc[w].at # "idle" /\ pc[w].req \in Req
    BY <1>3, AtWork DEF FillIn
  <2>2. pc' \in [Thread -> Job \cup {Idle}]
    BY <1>3, <2>1, StepOf DEF FillIn
  <2>3. trade' \in [Node -> [Req -> {"none", "bare", "open", "done"}]]
    BY <1>3, <2>1 DEF TypeOK, FillIn
  <2> QED BY <1>3, <2>2, <2>3 DEF TypeOK, FillIn, world, books
<1>4. CASE Store(w)
  <2>1. pc[w].at # "idle" /\ pc[w].req \in Req /\ pc[w].verdict \in Verdict
    BY <1>4, AtWork DEF Store
  <2>2. \/ Step(w, "publish") /\ UNCHANGED lock
        \/ Stop(w) /\ Release(w)
    BY <1>4 DEF Store
  <2>3. pc' \in [Thread -> Job \cup {Idle}] /\ lock' \in Thread \cup {None}
    <3>1. CASE Step(w, "publish") /\ UNCHANGED lock
      BY <2>1, <3>1, StepOf DEF TypeOK
    <3>2. CASE Stop(w) /\ Release(w)
      BY <3>2, StopOf, ReleaseOf
    <3> QED BY <2>2, <3>1, <3>2
  <2>4. answer' \in [Node -> [Req -> Verdict \cup {"none"}]]
    BY <1>4, <2>1 DEF TypeOK, Store
  <2> QED BY <1>4, <2>3, <2>4 DEF TypeOK, Store, world, deal
<1>5. CASE Publish(w)
  <2>1. pc[w].at # "idle" /\ pc[w].req \in Req /\ pc[w].verdict \in Verdict
    BY <1>5, AtWork DEF Publish
  <2>2. pc' \in [Thread -> Job \cup {Idle}] /\ lock' \in Thread \cup {None}
    BY <1>5, StopOf, ReleaseOf DEF Publish
  <2>3. net' \subseteq Message
    BY <1>5, <2>1 DEF TypeOK, Publish, Message
  <2> QED BY <1>5, <2>2, <2>3 DEF TypeOK, Publish, world, books, deal
<1> QED BY <1>1, <1>2, <1>3, <1>4, <1>5 DEF Answering

\* An answer is heard and a taker's trade opened within the types.
LEMMA TakerTypes ==
  ASSUME TypeOK, (\E m \in net : HearAnswer(m)) \/ (\E r \in Req : TakerOpen(r))
  PROVE  TypeOK'
<1>1. ASSUME NEW m \in net, HearAnswer(m) PROVE TypeOK'
  <2>1. m \in Message /\ m.to \in Node /\ m.req \in Req /\ m.what \in Verdict
    BY <1>1 DEF TypeOK, HearAnswer, Message
  <2>2. answer' \in [Node -> [Req -> Verdict \cup {"none"}]]
    BY <1>1, <2>1 DEF TypeOK, HearAnswer
  <2>3. net' \subseteq Message
    BY <1>1 DEF TypeOK, HearAnswer
  <2> QED BY <1>1, <2>2, <2>3 DEF TypeOK, HearAnswer, world, deal
<1>2. ASSUME NEW r \in Req, TakerOpen(r) PROVE TypeOK'
  <2>1. trade' \in [Node -> [Req -> {"none", "bare", "open", "done"}]]
    BY <1>2 DEF TypeOK, TakerOpen
  <2> QED BY <1>2, <2>1 DEF TypeOK, TakerOpen, world, books
<1> QED BY <1>1, <1>2

\* Trades go on and things get old within the types.
LEMMA OtherTypes ==
  ASSUME TypeOK,
         \/ \E r \in Req : Pay(r) \/ Complete(r) \/ Age(r)
         \/ \E o \in Order : Expire(o)
         \/ \E n \in Node, old \in SUBSET Req : Prune(n, old)
         \/ Crash
  PROVE  TypeOK'
<1>1. ASSUME NEW r \in Req, Pay(r) PROVE TypeOK'
  <2>1. paid' \in [Req -> Nat]
    BY <1>1 DEF TypeOK, Pay
  <2> QED BY <1>1, <2>1 DEF TypeOK, Pay, world, books
<1>2. ASSUME NEW r \in Req, Complete(r) PROVE TypeOK'
  <2>1. trade' \in [Node -> [Req -> {"none", "bare", "open", "done"}]]
    BY <1>2 DEF TypeOK, Complete
  <2> QED BY <1>2, <2>1 DEF TypeOK, Complete, world, books
<1>3. ASSUME NEW r \in Req, Age(r) PROVE TypeOK'
  BY <1>3 DEF TypeOK, Age, Fault, world, books
<1>4. ASSUME NEW o \in Order, Expire(o) PROVE TypeOK'
  BY <1>4 DEF TypeOK, Expire, Fault, world, books, deal
<1>5. ASSUME NEW n \in Node, NEW old \in SUBSET Req, Prune(n, old) PROVE TypeOK'
  <2>1. listed' \in [Node -> SUBSET Order]
    BY <1>5 DEF TypeOK, Prune
  <2>2. asked' \in [Node -> SUBSET Req]
    BY <1>5 DEF TypeOK, Prune
  <2>3. answer' \in [Node -> [Req -> Verdict \cup {"none"}]]
    BY <1>5 DEF TypeOK, Prune
  <2>4. faults' \in 0..MaxFaults
    BY <1>5 DEF TypeOK, Prune, Fault
  <2> QED BY <1>5, <2>1, <2>2, <2>3, <2>4 DEF TypeOK, Prune, world, deal
<1>6. ASSUME Crash PROVE TypeOK'
  BY <1>6 DEF TypeOK, Crash, Fault, world, books, deal
<1> QED BY <1>1, <1>2, <1>3, <1>4, <1>5, <1>6

\* Every step keeps the types.
LEMMA TypeStep == TypeOK /\ [Next]_vars => TypeOK'
<1> SUFFICES ASSUME TypeOK, [Next]_vars PROVE TypeOK'
  OBVIOUS
<1>1. CASE UNCHANGED vars
  BY <1>1 DEF TypeOK, vars, world, books, deal
<1>2. CASE Next
  BY <1>2, AskTypes, LookTypes, AnsweringTypes, TakerTypes, OtherTypes DEF Next
<1> QED BY <1>1, <1>2

\* Type correctness of the bargain between a maker and its takers.
THEOREM TypeCorrect == Spec => []TypeOK
<1> QED BY TypeInit, TypeStep, PTL DEF Spec

-----------------------------------------------------------------------------
(* Nobody is alone *)

\* Nothing is recorded at the start.
LEMMA RecordedInit == Init => Recorded
BY DEF Init, Recorded, Idle

\* A step that adds no acceptance, no job past Trade.create and no taker's trade,
\* and loses no trade, keeps the record.
LEMMA RecordKept ==
  ASSUME TypeOK, Recorded,
         \A r \in Req : Known(r) => Known(r)',
         \A m \in net' : m.what = "accept" => m \in net,
         \A n \in Node, r \in Req : answer'[n][r] = "accept" => answer[n][r] = "accept",
         \A w \in Thread : pc'[w] # Idle /\ Accepting(pc'[w]) => pc'[w] = pc[w],
         \A t \in Taker, r \in Req : trade'[t][r] # "none" => trade[t][r] # "none"
  PROVE  Recorded'
<1>1. \A m \in net' : m.what = "accept" => Known(m.req)'
  BY DEF TypeOK, Message, Recorded
<1>2. \A n \in Node, r \in Req : answer'[n][r] = "accept" => Known(r)'
  BY DEF Recorded
<1>3. ASSUME NEW w \in Thread, pc'[w] # Idle, Accepting(pc'[w]) PROVE trade'[Maker][pc'[w].req] # "none"
  <2>1. pc'[w] = pc[w] /\ pc[w] # Idle /\ Accepting(pc[w])
    BY <1>3
  <2>2. pc[w] \in Job /\ pc[w].req \in Req
    BY <2>1 DEF TypeOK, Job
  <2>3. Known(pc[w].req)
    BY <2>1 DEF Recorded
  <2> QED BY <2>1, <2>2, <2>3 DEF Known
<1>4. \A t \in Taker, r \in Req : trade'[t][r] # "none" => Known(r)'
  BY DEF Recorded
<1> QED BY <1>1, <1>2, <1>3, <1>4 DEF Recorded, Known, Accepting, Idle

\* Asking, and taking a request up, add no acceptance.
LEMMA AskRecorded ==
  ASSUME IInv,
         \/ \E r \in Req : Ask(r)
         \/ \E m \in net : HearAsk(m)
         \/ \E w \in Thread, r \in Req, v \in Verdict : Look(w, r, v)
  PROVE  Recorded'
<1> USE DEF IInv
<1>1. ASSUME NEW r \in Req, Ask(r) PROVE Recorded'
  <2>1. \A m \in net' : m.what = "accept" => m \in net
    BY <1>1 DEF Ask
  <2> QED BY <1>1, <2>1, RecordKept DEF Ask, Known, deal
<1>2. ASSUME NEW m \in net, HearAsk(m) PROVE Recorded'
  BY <1>2, RecordKept DEF HearAsk, Known, deal
<1>3. ASSUME NEW w \in Thread, NEW r \in Req, NEW v \in Verdict, Look(w, r, v)
      PROVE  Recorded'
  <2>1. \A u \in Thread : pc'[u] # Idle /\ Accepting(pc'[u]) => pc'[u] = pc[u]
    <3>1. ~ Accepting(pc'[w])
      BY <1>3 DEF Look, Accepting, TypeOK
    <3> QED BY <1>3, <3>1 DEF Look, TypeOK
  <2> QED BY <1>3, <2>1, RecordKept DEF Look, Known, books, deal
<1> QED BY <1>1, <1>2, <1>3

\* The maker's trade is there before it is spoken of.
LEMMA AnsweringRecorded ==
  ASSUME IInv, NEW w \in Thread, Answering(w)
  PROVE  Recorded'
<1> USE DEF IInv
<1>1. CASE Decide(w)
  <2>1. ~ Accepting(pc'[w]) /\ \A u \in Thread : u # w => pc'[u] = pc[u]
    BY <1>1, DecideOf DEF Accepting
  <2>2. \A u \in Thread : pc'[u] # Idle /\ Accepting(pc'[u]) => pc'[u] = pc[u]
    BY <2>1
  <2> QED BY <1>1, <2>2, RecordKept DEF Decide, Known, books, deal
<1>2. CASE Open(w)
  <2> DEFINE q == pc[w].req
  <2>1. pc[w].at # "idle" /\ q \in Req
    BY <1>2, AtWork DEF Open
  <2>2. CASE trade[Maker][q] = "none"
    <3>1. trade' = [trade EXCEPT ![Maker][q] = "bare"]
      BY <1>2, <2>2 DEF Open
    <3>2. /\ trade' \in [Node -> [Req -> {"none", "bare", "open", "done"}]]
          /\ trade'[Maker][q] = "bare"
          /\ \A p \in Node, r \in Req : p # Maker \/ r # q => trade'[p][r] = trade[p][r]
      <4> HIDE DEF q
      <4> TypeOK /\ Maker \in Node
        BY DEF Node
      <4> QED BY <3>1, <2>1, TradeOf
    <3>3. /\ pc'[w] = [at |-> "fill", req |-> q, verdict |-> pc[w].verdict]
          /\ \A u \in Thread : u # w => pc'[u] = pc[u]
      BY <1>2, <2>1, <2>2, StepOf DEF Open
    <3>4. \A r \in Req : Known(r) => Known(r)'
      BY <3>2 DEF Known
    <3>5. net' = net /\ answer' = answer
      BY <1>2 DEF Open, books
    <3>6. \A m \in net' : m.what = "accept" => Known(m.req)'
      BY <3>4, <3>5 DEF TypeOK, Message, Recorded
    <3>7. \A n \in Node, r \in Req : answer'[n][r] = "accept" => Known(r)'
      BY <3>4, <3>5 DEF Recorded
    <3>8. \A t \in Taker, r \in Req : trade'[t][r] # "none" => Known(r)'
      BY <3>2, <3>4 DEF Recorded
    <3>9. ASSUME NEW u \in Thread, pc'[u] # Idle, Accepting(pc'[u])
          PROVE  trade'[Maker][pc'[u].req] # "none"
      <4>1. CASE u = w
        BY <4>1, <3>2, <3>3
      <4>2. CASE u # w
        <5>1. pc'[u] = pc[u]
          BY <4>2, <3>3
        <5>2. pc[u] \in Job /\ Known(pc[u].req)
          BY <3>9, <5>1 DEF TypeOK, Recorded
        <5> QED BY <5>1, <5>2, <3>4 DEF Job, Known
      <4> QED BY <4>1, <4>2
    <3> QED BY <3>6, <3>7, <3>8, <3>9 DEF Recorded, Known, Accepting, Idle
  <2>3. CASE trade[Maker][q] # "none"
    <3>1. \A u \in Thread : pc'[u] # Idle /\ Accepting(pc'[u]) => pc'[u] = pc[u]
      BY <1>2, <2>3, StopOf DEF Open
    <3> QED BY <1>2, <2>3, <3>1, RecordKept DEF Open, Known, books
  <2> QED BY <2>2, <2>3
<1>3. CASE FillIn(w)
  <2> DEFINE q == pc[w].req
  <2>1. pc[w].at = "fill" /\ q \in Req /\ Known(q) /\ pc[w] \in Job
    BY <1>3, AtWork DEF FillIn, Recorded, Accepting
  <2>2. /\ pc'[w] = [at |-> "store", req |-> q, verdict |-> pc[w].verdict]
        /\ \A u \in Thread : u # w => pc'[u] = pc[u]
    BY <1>3, <2>1, StepOf DEF FillIn
  <2>3. \A p \in Node, r \in Req : trade'[p][r] = "none" <=> trade[p][r] = "none"
    BY <1>3, <2>1 DEF FillIn, TypeOK, Known
  <2>4. net' = net /\ answer' = answer
    BY <1>3 DEF FillIn, books
  <2>5. \A m \in net' : m.what = "accept" => Known(m.req)'
    BY <2>3, <2>4 DEF TypeOK, Message, Recorded, Known
  <2>6. \A n \in Node, r \in Req : answer'[n][r] = "accept" => Known(r)'
    BY <2>3, <2>4 DEF Recorded, Known
  <2>7. \A t \in Taker, r \in Req : trade'[t][r] # "none" => Known(r)'
    BY <2>3 DEF Recorded, Known
  <2>8. ASSUME NEW u \in Thread, pc'[u] # Idle, Accepting(pc'[u])
        PROVE  trade'[Maker][pc'[u].req] # "none"
    <3>1. CASE u = w
      BY <3>1, <2>1, <2>2, <2>3 DEF Known
    <3>2. CASE u # w
      <4>1. pc'[u] = pc[u] /\ pc[u] \in Job /\ Known(pc[u].req)
        BY <3>2, <2>2, <2>8 DEF TypeOK, Recorded
      <4> QED BY <4>1, <2>3 DEF Job, Known
    <3> QED BY <3>1, <3>2
  <2> QED BY <2>5, <2>6, <2>7, <2>8 DEF Recorded, Known, Accepting, Idle
<1>4. CASE Store(w)
  <2> DEFINE q == pc[w].req
  <2>1. pc[w].at = "store" /\ q \in Req /\ pc[w] \in Job /\ pc[w] # Idle
    BY <1>4, AtWork DEF Store
  <2>2. pc[w].verdict = "accept" => Known(q)
    BY <2>1 DEF Recorded, Accepting
  <2>3. net' = net /\ trade' = trade
    BY <1>4 DEF Store, deal
  <2>4. \A n \in Node, r \in Req : answer'[n][r] = "accept" => Known(r)
    BY <1>4, <2>1, <2>2 DEF Store, TypeOK, Recorded
  <2>5. ASSUME NEW u \in Thread, pc'[u] # Idle, Accepting(pc'[u])
        PROVE  Known(pc'[u].req)
    <3>1. CASE u # w
      <4>1. pc'[u] = pc[u]
        BY <1>4, <2>1, <3>1, StepOf, StopOf DEF Store
      <4> QED BY <4>1, <2>5 DEF Recorded
    <3>2. CASE u = w
      <4>1. pc'[w] = [at |-> "publish", req |-> q, verdict |-> pc[w].verdict]
        BY <1>4, <2>1, <2>5, <3>2, StepOf, StopOf DEF Store
      <4> QED BY <4>1, <2>2, <2>5, <3>2 DEF Accepting
    <3> QED BY <3>1, <3>2
  <2> QED BY <2>3, <2>4, <2>5 DEF Recorded, Known, Accepting, Idle
<1>5. CASE Publish(w)
  <2> DEFINE q == pc[w].req
  <2>1. pc[w].at = "publish" /\ q \in Req /\ pc[w] \in Job /\ pc[w] # Idle
    BY <1>5, AtWork DEF Publish
  <2>2. pc[w].verdict = "accept" => Known(q)
    BY <2>1 DEF Recorded, Accepting
  <2>3. answer' = answer /\ trade' = trade
    BY <1>5 DEF Publish, books, deal
  <2>4. \A m \in net' : m.what = "accept" => Known(m.req)
    BY <1>5, <2>2 DEF Publish, Recorded
  <2>5. \A u \in Thread : pc'[u] # Idle => pc'[u] = pc[u]
    BY <1>5, StopOf DEF Publish
  <2> QED BY <2>3, <2>4, <2>5 DEF Recorded, Known, Accepting, Idle
<1> QED BY <1>1, <1>2, <1>3, <1>4, <1>5 DEF Answering

\* A taker goes by an acceptance.
LEMMA TakerRecorded ==
  ASSUME IInv, (\E m \in net : HearAnswer(m)) \/ (\E r \in Req : TakerOpen(r))
  PROVE  Recorded'
<1> USE DEF IInv
<1>1. ASSUME NEW m \in net, HearAnswer(m) PROVE Recorded'
  <2>1. m \in Message /\ m.to \in Node /\ m.req \in Req
    BY <1>1 DEF TypeOK, Message
  <2>2. net' \subseteq net /\ trade' = trade /\ pc' = pc
    BY <1>1 DEF HearAnswer, deal
  <2>3. \A n \in Node, r \in Req : answer'[n][r] = "accept" => Known(r)
    BY <1>1, <2>1 DEF HearAnswer, TypeOK, Recorded
  <2> QED BY <2>2, <2>3 DEF Recorded, Known, Accepting, Idle
<1>2. ASSUME NEW r \in Req, TakerOpen(r) PROVE Recorded'
  <2>1. Known(r) /\ By[r] \in Taker
    BY <1>2 DEF TakerOpen, Agreed, Recorded
  <2>2. net' = net /\ answer' = answer /\ pc' = pc
    BY <1>2 DEF TakerOpen, books
  <2>3. /\ trade' \in [Node -> [Req -> {"none", "bare", "open", "done"}]]
        /\ \A p \in Node, q \in Req : p # By[r] \/ q # r => trade'[p][q] = trade[p][q]
    <3>1. trade' = [trade EXCEPT ![By[r]][r] = "open"]
      BY <1>2 DEF TakerOpen
    <3>2. By[r] \in Node /\ trade \in [Node -> [Req -> {"none", "bare", "open", "done"}]]
      BY <2>1 DEF TypeOK
    <3> HIDE DEF Node
    <3> QED BY <3>1, <3>2
  <2>4. trade'[Maker] = trade[Maker]
    BY <1>2, <2>1 DEF TakerOpen, TypeOK
  <2>5. \A t \in Taker, q \in Req : trade'[t][q] # "none" => Known(q)
    BY <2>1, <2>3 DEF Recorded
  <2> QED BY <2>2, <2>4, <2>5 DEF Recorded, Known, Accepting, Idle
<1> QED BY <1>1, <1>2

\* No trade is lost by going on, by age or by a crash.
LEMMA OtherRecorded ==
  ASSUME IInv,
         \/ \E r \in Req : Pay(r) \/ Complete(r) \/ Age(r)
         \/ \E o \in Order : Expire(o)
         \/ \E n \in Node, old \in SUBSET Req : Prune(n, old)
         \/ Crash
  PROVE  Recorded'
<1> USE DEF IInv
<1>1. ASSUME NEW r \in Req, Pay(r) \/ Age(r) PROVE Recorded'
  BY <1>1, RecordKept DEF Pay, Age, Known, books
<1>2. ASSUME NEW r \in Req, Complete(r) PROVE Recorded'
  <2>1. \A p \in Node, q \in Req : trade'[p][q] = "none" <=> trade[p][q] = "none"
    BY <1>2 DEF Complete, TypeOK
  <2> QED BY <1>2, <2>1, RecordKept DEF Complete, Known, books
<1>3. ASSUME NEW o \in Order, Expire(o) PROVE Recorded'
  BY <1>3, RecordKept DEF Expire, Known, books, deal
<1>4. ASSUME NEW n \in Node, NEW old \in SUBSET Req, Prune(n, old) PROVE Recorded'
  <2>1. \A p \in Node, r \in Req : answer'[p][r] = "accept" => answer[p][r] = "accept"
    BY <1>4 DEF Prune, TypeOK
  <2> QED BY <1>4, <2>1, RecordKept DEF Prune, Known, deal
<1>5. ASSUME Crash PROVE Recorded'
  BY <1>5, RecordKept DEF Crash, Known, books, deal
<1> QED BY <1>1, <1>2, <1>3, <1>4, <1>5

\* Every step keeps the record.
LEMMA RecordedStep == IInv /\ [Next]_vars => Recorded'
<1> SUFFICES ASSUME IInv, [Next]_vars PROVE Recorded'
  OBVIOUS
<1>1. CASE UNCHANGED vars
  BY <1>1, RecordKept DEF IInv, vars, books, deal, Known
<1>2. CASE Next
  BY <1>2, AskRecorded, AnsweringRecorded, TakerRecorded, OtherRecorded DEF Next
<1> QED BY <1>1, <1>2

\* Whatever crashes, whoever decides and whatever gets old: a taker with a trade
\* has a maker with the same trade, so nobody pays into one that is not there.
THEOREM NobodyAloneEver == Spec => []NobodyAlone
<1>1. Init => IInv
  BY TypeInit, RecordedInit DEF IInv
<1>2. IInv /\ [Next]_vars => IInv'
  BY TypeStep, RecordedStep DEF IInv
<1>3. IInv => NobodyAlone
  BY DEF IInv, Recorded, NobodyAlone, Trades, Known
<1> QED BY <1>1, <1>2, <1>3, PTL DEF Spec

-----------------------------------------------------------------------------
(* The maker's funds *)

\* Between the question whether the funds are there and Trade.create the lock
\* is held, so they still are.
FundInv ==
  /\ TypeOK
  /\ \A r \in Req : paid[r] <= Amount[r]
  /\ Owed <= Balance
  /\ \A w \in Thread :
       pc[w].at = "open" => lock = w /\ Owed + Amount[pc[w].req] <= Balance

\* What is owed, and what is left to pay it from, before and after a step.
LEMMA MoneyIsSum ==
  /\ Owed = SumOver(Due, Running) /\ Balance = Funds - SumOver(paid, Req)
  /\ Owed' = SumOver(Due', Running') /\ Balance' = Funds - SumOver(paid', Req)
<1>1. Owed = SumOver(Due, Running) /\ Owed' = SumOver(Due', Running')
  BY DEF Owed, SumOver, MapThenSumSet, MapThenFoldSet
<1>2. Balance = Funds - SumOver(paid, Req)
  BY DEF Balance, SumOver, MapThenSumSet, MapThenFoldSet
<1>3. Balance' = Funds - SumOver(paid', Req)
  BY DEF Balance, SumOver, MapThenSumSet, MapThenFoldSet
<1> QED BY <1>1, <1>2, <1>3

\* They are sums over finite sets of naturals.
LEMMA MoneyFacts ==
  ASSUME NEW p \in [Req -> Nat], \A r \in Req : p[r] <= Amount[r],
         NEW due, due = [r \in Req |-> Amount[r] - p[r]], NEW R, R \subseteq Req
  PROVE  /\ due \in [Req -> Nat] /\ \A r \in Req : due[r] = Amount[r] - p[r]
         /\ IsFiniteSet(R) /\ SumOver(due, R) \in Nat /\ SumOver(p, Req) \in Int
<1>1. due \in [Req -> Nat] /\ \A r \in Req : due[r] = Amount[r] - p[r]
  OBVIOUS
<1>2. IsFiniteSet(R)
  BY FiniteAssumption, FS_Subset
<1>3. SumOver(due, R) \in Nat
  <2>1. \A r \in R : due[r] \in Nat
    BY <1>1
  <2> QED BY <1>2, <2>1, SumNatural
<1>4. SumOver(p, Req) \in Int
  <2>1. \A r \in Req : p[r] \in Int
    OBVIOUS
  <2> QED BY <2>1, FiniteAssumption, SumType
<1> QED BY <1>1, <1>2, <1>3, <1>4

\* So they are in any state where nobody has paid too much.
LEMMA MoneyNow ==
  ASSUME TypeOK, \A r \in Req : paid[r] <= Amount[r]
  PROVE  /\ Due \in [Req -> Nat] /\ \A r \in Req : Due[r] = Amount[r] - paid[r]
         /\ Running \subseteq Req /\ IsFiniteSet(Running)
         /\ Owed = SumOver(Due, Running) /\ Owed \in Nat
         /\ Balance = Funds - SumOver(paid, Req) /\ Balance \in Int
<1>1. paid \in [Req -> Nat] /\ Running \subseteq Req
  BY DEF TypeOK, Running, Trades
<1>2. /\ Due \in [Req -> Nat] /\ \A r \in Req : Due[r] = Amount[r] - paid[r]
      /\ IsFiniteSet(Running) /\ SumOver(Due, Running) \in Nat /\ SumOver(paid, Req) \in Int
  BY <1>1, MoneyFacts DEF Due
<1> QED BY <1>1, <1>2, MoneyIsSum

\* And after a step that leads to one.
LEMMA MoneyThen ==
  ASSUME TypeOK', \A r \in Req : paid'[r] <= Amount[r]
  PROVE  /\ Due' \in [Req -> Nat] /\ \A r \in Req : Due'[r] = Amount[r] - paid'[r]
         /\ Running' \subseteq Req /\ IsFiniteSet(Running')
         /\ Owed' = SumOver(Due', Running') /\ Owed' \in Nat
         /\ Balance' = Funds - SumOver(paid', Req) /\ Balance' \in Int
<1>1. paid' \in [Req -> Nat] /\ Running' \subseteq Req
  BY DEF TypeOK, Running, Trades
<1>2. /\ Due' \in [Req -> Nat] /\ \A r \in Req : Due'[r] = Amount[r] - paid'[r]
      /\ IsFiniteSet(Running') /\ SumOver(Due', Running') \in Nat /\ SumOver(paid', Req) \in Int
  BY <1>1, MoneyFacts DEF Due
<1> QED BY <1>1, <1>2, MoneyIsSum

\* No payment is made, and no trade started.
LEMMA MoneyKept ==
  ASSUME FundInv, TypeOK', paid' = paid, Running' \subseteq Running
  PROVE  /\ \A r \in Req : paid'[r] <= Amount[r]
         /\ Owed' <= Owed /\ Balance' = Balance
         /\ Owed \in Nat /\ Owed' \in Nat /\ Balance \in Int
<1>1. \A r \in Req : paid[r] <= Amount[r] /\ paid'[r] <= Amount[r]
  BY DEF FundInv
<1>2. /\ Due \in [Req -> Nat] /\ Running \subseteq Req /\ IsFiniteSet(Running)
      /\ Owed = SumOver(Due, Running) /\ Owed \in Nat /\ Balance \in Int
  BY <1>1, MoneyNow DEF FundInv
<1>3. Due' = Due /\ Balance' = Balance
  BY MoneyIsSum DEF Due
<1>4. Owed' = SumOver(Due, Running')
  BY <1>3, MoneyIsSum
<1>5. SumOver(Due, Running') <= SumOver(Due, Running)
  <2>1. \A r \in Running : Due[r] \in Nat
    BY <1>2
  <2> QED BY <1>2, <2>1, SumOfPart
<1>6. SumOver(Due, Running') \in Nat
  <2>1. IsFiniteSet(Running') /\ \A r \in Running' : Due[r] \in Nat
    BY <1>2, FS_Subset
  <2> QED BY <2>1, SumNatural
<1> QED BY <1>1, <1>2, <1>3, <1>4, <1>5, <1>6

\* A step that pays nothing, starts no trade and sends nobody to Trade.create
\* leaves the funds as they are.
LEMMA FundKept ==
  ASSUME FundInv, TypeOK', paid' = paid, Running' \subseteq Running,
         \A w \in Thread : pc'[w].at = "open" => pc'[w] = pc[w] /\ lock' = lock
  PROVE  FundInv'
<1>1. /\ \A r \in Req : paid'[r] <= Amount[r]
      /\ Owed' <= Owed /\ Balance' = Balance
      /\ Owed \in Nat /\ Owed' \in Nat /\ Balance \in Int
  BY MoneyKept
<1>2. Owed <= Balance
  BY DEF FundInv
<1>3. Owed' <= Balance'
  BY <1>1, <1>2
<1>4. ASSUME NEW w \in Thread, pc'[w].at = "open"
      PROVE  lock' = w /\ Owed' + Amount[pc'[w].req] <= Balance'
  <2>1. pc'[w] = pc[w] /\ lock' = lock
    BY <1>4
  <2>2. lock = w /\ Owed + Amount[pc[w].req] <= Balance
    BY <1>4, <2>1 DEF FundInv
  <2>3. Amount[pc[w].req] \in Nat
    BY <1>4, <2>1, AtWork DEF FundInv
  <2> QED BY <1>1, <2>1, <2>2, <2>3
<1> QED BY <1>1, <1>3, <1>4 DEF FundInv

\* A thread past Trade.create, or idle, lets the lock go without another's
\* losing it there.
LEMMA OthersOpen ==
  ASSUME FundInv, NEW w \in Thread, lock' = lock \/ Release(w),
         \A u \in Thread : u # w => pc'[u] = pc[u], pc'[w].at # "open"
  PROVE  \A u \in Thread : pc'[u].at = "open" => pc'[u] = pc[u] /\ lock' = lock
<1> SUFFICES ASSUME NEW u \in Thread, pc'[u].at = "open"
             PROVE  pc'[u] = pc[u] /\ lock' = lock
  OBVIOUS
<1>1. u # w /\ pc'[u] = pc[u]
  OBVIOUS
<1>2. lock = u
  BY <1>1 DEF FundInv
<1> QED BY <1>1, <1>2 DEF Release

\* The books and the threads' other steps move no money.
LEMMA QuietFunds ==
  ASSUME FundInv, TypeOK',
         \/ \E r \in Req : Ask(r) \/ TakerOpen(r) \/ Age(r)
         \/ \E m \in net : HearAsk(m) \/ HearAnswer(m)
         \/ \E o \in Order : Expire(o)
         \/ \E n \in Node, old \in SUBSET Req : Prune(n, old)
  PROVE  FundInv'
<1>1. paid' = paid /\ pc' = pc /\ lock' = lock
  BY DEF Ask, TakerOpen, Age, HearAsk, HearAnswer, Expire, Prune, deal
<1>2. trade'[Maker] = trade[Maker]
  <2>1. CASE trade' = trade
    BY <2>1
  <2>2. ASSUME NEW r \in Req, TakerOpen(r) PROVE trade'[Maker] = trade[Maker]
    <3>1. By[r] \in Taker
      OBVIOUS
    <3> QED BY <2>2, <3>1 DEF TakerOpen, TypeOK, FundInv
  <2> QED BY <2>1, <2>2 DEF Ask, Age, HearAsk, HearAnswer, Expire, Prune, deal
<1>3. Running' \subseteq Running
  BY <1>2 DEF Running, Trades
<1> QED BY <1>1, <1>3, FundKept

\* A request is looked at by a thread that has no lock.
LEMMA LookFunds ==
  ASSUME FundInv, TypeOK', NEW w \in Thread, NEW r \in Req, NEW v \in Verdict, Look(w, r, v)
  PROVE  FundInv'
<1>1. paid' = paid /\ trade' = trade /\ lock' = lock
  BY DEF Look, deal
<1>2. pc'[w].at # "open" /\ \A u \in Thread : u # w => pc'[u] = pc[u]
  BY DEF Look, TypeOK, FundInv
<1>3. Running' \subseteq Running
  BY <1>1 DEF Running, Trades
<1>4. \A u \in Thread : pc'[u].at = "open" => pc'[u] = pc[u] /\ lock' = lock
  BY <1>1, <1>2, OthersOpen
<1> QED BY <1>1, <1>3, <1>4, FundKept

\* Who finds the funds there has the lock, and nobody else is on the way to
\* Trade.create.
LEMMA DecideFunds ==
  ASSUME FundInv, TypeOK', NEW w \in Thread, Decide(w)
  PROVE  FundInv'
<1>1. TypeOK /\ pc[w].at = "wait" /\ lock = None /\ lock' = w
  BY DEF Decide, Acquire, FundInv
<1>2. paid' = paid /\ trade' = trade
  BY DEF Decide, deal
<1>3. Running' \subseteq Running
  BY <1>2 DEF Running, Trades
<1>4. /\ \A r \in Req : paid'[r] <= Amount[r]
      /\ Owed' <= Owed /\ Balance' = Balance
      /\ Owed \in Nat /\ Owed' \in Nat /\ Balance \in Int
  BY <1>2, <1>3, MoneyKept
<1>5. \A u \in Thread : pc[u].at # "open"
  BY <1>1 DEF FundInv
<1>6. ASSUME NEW u \in Thread, pc'[u].at = "open"
      PROVE  lock' = u /\ Owed' + Amount[pc'[u].req] <= Balance'
  <2>1. u = w
    BY <1>1, <1>5, <1>6, DecideOf
  <2>2. Acceptable(pc[w].req)
    <3>1. ~ Acceptable(pc[w].req) => pc'[w].at = "store"
      BY <1>1 DEF Decide, TypeOK
    <3> QED BY <1>6, <2>1, <3>1
  <2>3. pc'[w].req = pc[w].req /\ pc[w].req \in Req
    <3>1. Step(w, "open")
      BY <2>2 DEF Decide
    <3> QED BY <1>1, <3>1, StepOf, AtWork
  <2>4. Balance - Owed >= Amount[pc[w].req] /\ Amount[pc[w].req] \in Nat
    BY <2>2, <2>3 DEF Acceptable
  <2> QED BY <1>1, <1>4, <2>1, <2>3, <2>4
<1>7. Owed <= Balance
  BY DEF FundInv
<1>8. Owed' <= Balance'
  BY <1>4, <1>7
<1> QED BY <1>4, <1>6, <1>8 DEF FundInv

\* Trade.create spends what was found to be there.
LEMMA OpenFunds ==
  ASSUME FundInv, TypeOK', NEW w \in Thread, Open(w)
  PROVE  FundInv'
<1>1. TypeOK /\ pc[w].at = "open" /\ paid' = paid
  BY DEF Open, FundInv
<1>2. PICK q \in Req : q = pc[w].req
  BY <1>1, AtWork
<1>3. CASE trade[Maker][q] # "none"
  <2>1. Stop(w) /\ Release(w) /\ trade' = trade
    BY <1>2, <1>3 DEF Open
  <2>2. pc'[w].at # "open" /\ \A u \in Thread : u # w => pc'[u] = pc[u]
    BY <1>1, <2>1, StopOf DEF Idle
  <2>3. Running' \subseteq Running
    BY <2>1 DEF Running, Trades
  <2>4. \A u \in Thread : pc'[u].at = "open" => pc'[u] = pc[u] /\ lock' = lock
    BY <2>1, <2>2, OthersOpen
  <2> QED BY <1>1, <2>3, <2>4, FundKept
<1>4. CASE trade[Maker][q] = "none"
  <2>1. /\ trade' = [trade EXCEPT ![Maker][q] = "bare"] /\ Step(w, "fill") /\ lock' = lock
    BY <1>2, <1>4 DEF Open
  <2>2. /\ trade'[Maker][q] = "bare"
        /\ \A r \in Req : r # q => trade'[Maker][r] = trade[Maker][r]
    <3>1. trade \in [Node -> [Req -> {"none", "bare", "open", "done"}]] /\ Maker \in Node
      BY <1>1 DEF TypeOK
    <3> HIDE DEF Node
    <3> QED BY <2>1, <3>1
  <2>3. Running' = Running \cup {q} /\ q \notin Running
    BY <1>4, <2>2 DEF Running, Trades
  <2>4. \A r \in Req : paid[r] <= Amount[r] /\ paid'[r] <= Amount[r]
    BY <1>1 DEF FundInv
  <2>5. /\ Due \in [Req -> Nat] /\ Due[q] = Amount[q] - paid[q]
        /\ Owed = SumOver(Due, Running) /\ Owed \in Nat /\ Balance \in Int
    BY <1>1, <2>4, MoneyNow
  <2>6. /\ Running' \subseteq Req /\ IsFiniteSet(Running')
        /\ Owed' = SumOver(Due', Running') /\ Owed' \in Nat
    BY <2>4, MoneyThen
  <2>7. Due' = Due /\ Balance' = Balance
    BY <1>1, MoneyIsSum DEF Due
  <2>8. Owed' = Due[q] + Owed
    <3>1. \A r \in Running' : Due[r] \in Int
      BY <2>5, <2>6
    <3>2. q \in Running' /\ Running' \ {q} = Running
      BY <2>3
    <3>3. SumOver(Due, Running') = Due[q] + SumOver(Due, Running' \ {q})
      BY <2>6, <3>1, <3>2, SumWithout
    <3> QED BY <2>5, <2>6, <2>7, <3>2, <3>3
  <2>9. lock = w /\ Owed + Amount[q] <= Balance
    BY <1>1, <1>2 DEF FundInv
  <2>10. Owed' <= Balance'
    <3>1. paid[q] \in Nat /\ Amount[q] \in Nat
      BY <1>1 DEF TypeOK
    <3> QED BY <2>5, <2>7, <2>8, <2>9, <3>1
  <2>11. pc'[w].at # "open" /\ \A u \in Thread : u # w => pc'[u] = pc[u]
    BY <1>1, <2>1, StepOf
  <2>12. \A u \in Thread : pc'[u].at # "open"
    BY <2>9, <2>11 DEF FundInv
  <2> QED BY <2>4, <2>10, <2>12 DEF FundInv
<1> QED BY <1>3, <1>4

\* What comes after Trade.create moves no money.
LEMMA AfterFunds ==
  ASSUME FundInv, TypeOK', NEW w \in Thread, FillIn(w) \/ Store(w) \/ Publish(w)
  PROVE  FundInv'
<1>1. TypeOK /\ paid' = paid /\ (lock' = lock \/ Release(w)) /\ pc[w].at # "idle"
  BY DEF FillIn, Store, Publish, FundInv, deal
<1>2. pc'[w].at # "open" /\ \A u \in Thread : u # w => pc'[u] = pc[u]
  BY <1>1, StepOf, StopOf DEF FillIn, Store, Publish, Idle
<1>3. \A r \in Req : trade'[Maker][r] \in {"none", "done"} <=> trade[Maker][r] \in {"none", "done"}
  <2>1. CASE trade' = trade
    BY <2>1
  <2>2. CASE FillIn(w)
    <3>1. pc[w].req \in Req
      BY <1>1, AtWork
    <3> QED BY <1>1, <2>2, <3>1 DEF FillIn, TypeOK
  <2> QED BY <2>1, <2>2 DEF Store, Publish, deal
<1>4. Running' \subseteq Running
  BY <1>3 DEF Running, Trades
<1>5. \A u \in Thread : pc'[u].at = "open" => pc'[u] = pc[u] /\ lock' = lock
  BY <1>1, <1>2, OthersOpen
<1> QED BY <1>1, <1>4, <1>5, FundKept

\* A payment is one less to pay and one less to pay it from.
LEMMA PayFunds ==
  ASSUME FundInv, TypeOK', NEW q \in Req, Pay(q)
  PROVE  FundInv'
<1>1. /\ TypeOK /\ trade[Maker][q] = "open" /\ paid[q] < Amount[q]
      /\ paid' = [paid EXCEPT ![q] = paid[q] + 1]
      /\ trade' = trade /\ pc' = pc /\ lock' = lock
  BY DEF Pay, FundInv
<1>2. paid \in [Req -> Nat]
  BY <1>1 DEF TypeOK
<1>3. paid'[q] = paid[q] + 1 /\ \A r \in Req : r # q => paid'[r] = paid[r]
  BY <1>1, <1>2
<1>4. \A r \in Req : paid[r] <= Amount[r] /\ paid'[r] <= Amount[r]
  <2>1. \A r \in Req : paid[r] <= Amount[r]
    BY DEF FundInv
  <2>2. paid'[q] <= Amount[q]
    BY <1>1, <1>2, <1>3
  <2> QED BY <1>3, <2>1, <2>2
<1>5. /\ Due \in [Req -> Nat] /\ \A r \in Req : Due[r] = Amount[r] - paid[r]
      /\ Running \subseteq Req /\ IsFiniteSet(Running)
      /\ Owed = SumOver(Due, Running) /\ Owed \in Nat
      /\ Balance = Funds - SumOver(paid, Req) /\ Balance \in Int
  BY <1>1, <1>4, MoneyNow
<1>6. /\ Due' \in [Req -> Nat] /\ \A r \in Req : Due'[r] = Amount[r] - paid'[r]
      /\ Owed' = SumOver(Due', Running') /\ Owed' \in Nat
      /\ Balance' = Funds - SumOver(paid', Req) /\ Balance' \in Int
  BY <1>4, MoneyThen
<1>7. Running' = Running /\ q \in Running
  BY <1>1 DEF Running, Trades
<1>8. Owed = Owed' + 1
  <2>1. \A r \in Running : Due[r] \in Int /\ Due'[r] \in Int
    BY <1>5, <1>6
  <2>2. Owed = Due[q] + SumOver(Due, Running \ {q})
    BY <1>5, <1>7, <2>1, SumWithout
  <2>3. Owed' = Due'[q] + SumOver(Due', Running \ {q})
    BY <1>5, <1>6, <1>7, <2>1, SumWithout
  <2>4. IsFiniteSet(Running \ {q}) /\ \A r \in Running \ {q} : Due[r] \in Int /\ Due[r] = Due'[r]
    BY <1>3, <1>5, <1>6, <2>1, FS_RemoveElement
  <2>5. SumOver(Due, Running \ {q}) = SumOver(Due', Running \ {q})
    BY <2>4, SumSame
  <2>6. SumOver(Due, Running \ {q}) \in Int
    BY <2>4, SumType
  <2>7. Due[q] = Due'[q] + 1 /\ Due'[q] \in Nat
    BY <1>2, <1>3, <1>5, <1>6
  <2> QED BY <2>2, <2>3, <2>5, <2>6, <2>7
<1>9. Balance = Balance' + 1
  <2>1. \A r \in Req : paid[r] \in Int /\ paid'[r] \in Int
    BY <1>2, <1>3
  <2>2. SumOver(paid, Req) = paid[q] + SumOver(paid, Req \ {q})
    BY <2>1, FiniteAssumption, SumWithout
  <2>3. SumOver(paid', Req) = paid'[q] + SumOver(paid', Req \ {q})
    BY <2>1, FiniteAssumption, SumWithout
  <2>4. IsFiniteSet(Req \ {q}) /\ \A r \in Req \ {q} : paid[r] \in Int /\ paid[r] = paid'[r]
    BY <1>3, <2>1, FiniteAssumption, FS_RemoveElement
  <2>5. SumOver(paid, Req \ {q}) = SumOver(paid', Req \ {q})
    BY <2>4, SumSame
  <2>6. SumOver(paid, Req \ {q}) \in Int
    BY <2>4, SumType
  <2>7. paid'[q] = paid[q] + 1 /\ paid[q] \in Nat
    BY <1>2, <1>3
  <2> QED BY <1>5, <1>6, <2>2, <2>3, <2>5, <2>6, <2>7
<1>10. ASSUME NEW u \in Thread, pc'[u].at = "open"
       PROVE  lock' = u /\ Owed' + Amount[pc'[u].req] <= Balance'
  <2>1. pc'[u] = pc[u] /\ lock' = lock
    BY <1>1
  <2>2. lock = u /\ Owed + Amount[pc[u].req] <= Balance /\ Amount[pc[u].req] \in Nat
    BY <1>1, <1>10, <2>1, AtWork DEF FundInv
  <2> QED BY <1>5, <1>6, <1>8, <1>9, <2>1, <2>2
<1>11. Owed' <= Balance'
  <2>1. Owed <= Balance
    BY DEF FundInv
  <2> QED BY <1>5, <1>6, <1>8, <1>9, <2>1
<1> QED BY <1>4, <1>10, <1>11 DEF FundInv

\* A trade that is done with has nothing left to pay; a crash forgets who was
\* on the way to one.
LEMMA EndFunds ==
  ASSUME FundInv, TypeOK', (\E r \in Req : Complete(r)) \/ Crash
  PROVE  FundInv'
<1>1. TypeOK /\ paid' = paid
  BY DEF FundInv, Complete, Crash, deal
<1>2. ASSUME NEW r \in Req, Complete(r) PROVE FundInv'
  <2>1. pc' = pc /\ lock' = lock
    BY <1>2 DEF Complete
  <2>2. \A q \in Req : trade'[Maker][q] = trade[Maker][q] \/ trade'[Maker][q] = "done"
    BY <1>1, <1>2 DEF Complete, TypeOK
  <2>3. Running' \subseteq Running
    BY <2>2 DEF Running, Trades
  <2> QED BY <1>1, <2>1, <2>3, FundKept
<1>3. CASE Crash
  <2>1. trade' = trade /\ \A w \in Thread : pc'[w].at # "open"
    BY <1>3 DEF Crash, deal, Idle
  <2>2. Running' \subseteq Running
    BY <2>1 DEF Running, Trades
  <2> QED BY <1>1, <2>1, <2>2, FundKept
<1> QED BY <1>2, <1>3

\* There is enough at the start, as nothing is owed.
LEMMA FundInit == Init => FundInv
<1> SUFFICES ASSUME Init PROVE FundInv
  OBVIOUS
<1>1. TypeOK /\ paid = [r \in Req |-> 0] /\ \A w \in Thread : pc[w].at # "open"
  BY TypeInit DEF Init, Idle
<1>2. \A r \in Req : paid[r] <= Amount[r]
  BY <1>1
<1>3. /\ Owed = SumOver(Due, Running)
      /\ Balance = Funds - SumOver(paid, Req)
  BY MoneyIsSum
<1>4. Running = {}
  BY DEF Init, Running, Trades
<1>5. Owed = 0
  BY <1>3, <1>4, SumOfNone
<1>6. SumOver(paid, Req) = 0
  <2>1. \A r \in Req : paid[r] = 0
    BY <1>1
  <2> QED BY <2>1, FiniteAssumption, SumOfZeros
<1>7. Owed <= Balance
  BY <1>3, <1>5, <1>6
<1> QED BY <1>1, <1>2, <1>7 DEF FundInv

\* Every step keeps the funds.
LEMMA FundStep == FundInv /\ [Next]_vars => FundInv'
<1> SUFFICES ASSUME FundInv, [Next]_vars PROVE FundInv'
  OBVIOUS
<1>1. TypeOK'
  BY TypeStep DEF FundInv
<1>2. CASE UNCHANGED vars
  <2>1. paid' = paid /\ pc' = pc /\ lock' = lock /\ trade' = trade
    BY <1>2 DEF vars, deal
  <2>2. Running' \subseteq Running
    BY <2>1 DEF Running, Trades
  <2> QED BY <1>1, <2>1, <2>2, FundKept
<1>3. CASE Next
  BY <1>1, <1>3, QuietFunds, LookFunds, DecideFunds, OpenFunds, AfterFunds, PayFunds,
     EndFunds DEF Next, Answering
<1> QED BY <1>2, <1>3

\* Two threads answer, processes die, trades go on: the maker never promises
\* more than it holds, because Trade.create is within _ACCEPT_LOCK with the
\* question whether the funds are there.
THEOREM FundedAlways == Spec => []Funded
<1>1. FundInv => Funded
  BY DEF FundInv, Funded
<1> QED BY <1>1, FundInit, FundStep, PTL DEF Spec

-----------------------------------------------------------------------------
(* One answer to a request *)

\* One thread answers, and nothing has got old or crashed.
Alone == (\E d \in Thread : deciders = {d}) /\ faults = 0

\* What goes to a taker is what the maker has on disk, or is about to have.
Agreeing ==
  /\ \A m \in net : m.what # "ask" => answer[Maker][m.req] = m.what
  /\ \A n \in Node, r \in Req : answer[n][r] # "none" => answer[Maker][r] = answer[n][r]
  /\ \A w \in Thread :
       pc[w] # Idle => answer[Maker][pc[w].req] =
                         IF pc[w].at = "publish" THEN pc[w].verdict ELSE "none"

\* The maker sends answers to takers, and only who may decide is at work.
AnswerInv ==
  /\ TypeOK
  /\ \A m \in net : m.what # "ask" => m.to # Maker
  /\ \A w \in Thread : pc[w] # Idle => w \in deciders
  /\ Alone => Agreeing

\* Who may answer is settled at the start.
LEMMA DecidersStay == Next => deciders' = deciders
BY DEF Next, Ask, TakerOpen, Pay, Complete, Age, HearAsk, HearAnswer, Look, Answering,
       Decide, Open, FillIn, Store, Publish, Expire, Prune, Crash, world

\* If it is so after a step, it was before.
LEMMA AloneBefore ==
  ASSUME TypeOK, Next, Alone'
  PROVE  Alone /\ faults' = faults
<1>1. faults \in Nat
  BY DEF TypeOK
<1>2. deciders' = deciders
  BY DecidersStay
<1>3. faults' = faults \/ \E b \in BOOLEAN : Fault(b)
  BY DEF Next, Ask, TakerOpen, Pay, Complete, Age, HearAsk, HearAnswer, Look, Answering,
         Decide, Open, FillIn, Store, Publish, Expire, Prune, Crash
<1>4. faults' = faults
  BY <1>1, <1>3 DEF Fault, Alone
<1> QED BY <1>2, <1>4 DEF Alone

\* The one at work.
LEMMA OneAtWork ==
  ASSUME AnswerInv, Alone, NEW w \in Thread, NEW u \in Thread, pc[w] # Idle, pc[u] # Idle
  PROVE  u = w
BY DEF AnswerInv, Alone

\* Nothing is answered, said or taken up.
LEMMA AgreeKept ==
  ASSUME AnswerInv, TypeOK', deciders' = deciders,
         Alone' => Alone /\ answer' = answer,
         \A m \in net' : m.what # "ask" => m \in net,
         \A w \in Thread : pc'[w] # Idle =>
            /\ pc[w] # Idle /\ pc'[w].req = pc[w].req
            /\ pc'[w] = pc[w] \/ "publish" \notin {pc[w].at, pc'[w].at}
  PROVE  AnswerInv'
<1>1. \A m \in net' : m.what # "ask" => m.to # Maker
  BY DEF AnswerInv
<1>2. \A w \in Thread : pc'[w] # Idle => w \in deciders'
  BY DEF AnswerInv
<1>3. ASSUME Alone' PROVE Agreeing'
  <2>1. Agreeing /\ answer' = answer
    BY <1>3 DEF AnswerInv
  <2>2. \A m \in net' : m.what # "ask" => answer'[Maker][m.req] = m.what
    BY <2>1 DEF Agreeing
  <2>3. \A n \in Node, r \in Req : answer'[n][r] # "none" => answer'[Maker][r] = answer'[n][r]
    BY <2>1 DEF Agreeing
  <2>4. ASSUME NEW w \in Thread, pc'[w] # Idle
        PROVE  answer'[Maker][pc'[w].req] =
                 IF pc'[w].at = "publish" THEN pc'[w].verdict ELSE "none"
    BY <2>1, <2>4 DEF Agreeing
  <2> QED BY <2>2, <2>3, <2>4 DEF Agreeing, Idle
<1> QED BY <1>1, <1>2, <1>3 DEF AnswerInv, Idle

\* What neither answers nor is at work for an answer.
LEMMA QuietAgrees ==
  ASSUME AnswerInv, TypeOK', Alone' => Alone, deciders' = deciders,
         \/ \E r \in Req : Ask(r) \/ TakerOpen(r) \/ Pay(r) \/ Complete(r) \/ Age(r)
         \/ \E m \in net : HearAsk(m)
         \/ \E o \in Order : Expire(o)
  PROVE  AnswerInv'
<1>1. pc' = pc /\ answer' = answer
  BY DEF Ask, TakerOpen, Pay, Complete, Age, HearAsk, Expire, books
<1>2. \A m \in net' : m.what # "ask" => m \in net
  <2>1. ASSUME NEW r \in Req, Ask(r) PROVE \A m \in net' : m.what # "ask" => m \in net
    BY <2>1 DEF Ask
  <2>2. ASSUME NEW k \in net, HearAsk(k) PROVE net' \subseteq net
    BY <2>2 DEF HearAsk
  <2>3. ASSUME NEW r \in Req, TakerOpen(r) \/ Pay(r) \/ Complete(r) \/ Age(r)
        PROVE  net' = net
    BY <2>3 DEF TakerOpen, Pay, Complete, Age
  <2>4. ASSUME NEW o \in Order, Expire(o) PROVE net' = net
    BY <2>4 DEF Expire
  <2> QED BY <2>1, <2>2, <2>3, <2>4
<1> QED BY <1>1, <1>2, AgreeKept

\* A crash leaves nobody at work, and what is pruned of answers is old.
LEMMA LossAgrees ==
  ASSUME AnswerInv, TypeOK', Alone' => Alone /\ faults' = faults, deciders' = deciders,
         Crash \/ \E n \in Node, old \in SUBSET Req : Prune(n, old)
  PROVE  AnswerInv'
<1>1. CASE Crash
  <2>1. answer' = answer /\ net' = net /\ \A w \in Thread : pc'[w] = Idle
    BY <1>1 DEF Crash, books
  <2> QED BY <2>1, AgreeKept
<1>2. ASSUME NEW n \in Node, NEW old \in SUBSET Req, Prune(n, old)
      PROVE  AnswerInv'
  <2>1. pc' = pc /\ net' = net
    BY <1>2 DEF Prune
  <2>2. ASSUME Alone' PROVE answer' = answer
    <3>1. old = {}
      BY <1>2, <2>2 DEF Prune, Fault, AnswerInv, TypeOK
    <3>2. answer \in [Node -> [Req -> Verdict \cup {"none"}]]
      BY DEF AnswerInv, TypeOK
    <3>3. answer' = [answer EXCEPT ![n] = [r \in Req |-> answer[n][r]]]
      BY <1>2, <3>1 DEF Prune
    <3>4. [r \in Req |-> answer[n][r]] = answer[n]
      BY <3>2
    <3> HIDE DEF Node, Verdict
    <3> QED BY <3>2, <3>3, <3>4
  <2> QED BY <2>1, <2>2, AgreeKept
<1> QED BY <1>1, <1>2

\* A request is taken up that has no answer.
LEMMA LookAgrees ==
  ASSUME AnswerInv, TypeOK', Alone' => Alone, deciders' = deciders,
         NEW w \in Thread, NEW r \in Req, NEW v \in Verdict, Look(w, r, v)
  PROVE  AnswerInv'
<1>1. /\ answer' = answer /\ net' = net /\ answer[Maker][r] = "none" /\ w \in deciders
      /\ \A u \in Thread : u # w => pc'[u] = pc[u]
      /\ pc'[w].req = r /\ pc'[w].at # "publish"
  BY DEF Look, Unanswered, books, AnswerInv, TypeOK
<1>2. \A u \in Thread : pc'[u] # Idle => u \in deciders'
  BY <1>1 DEF AnswerInv
<1>3. \A m \in net' : m.what # "ask" => m.to # Maker
  BY <1>1 DEF AnswerInv
<1>4. ASSUME Alone' PROVE Agreeing'
  <2>1. Agreeing
    BY <1>4 DEF AnswerInv
  <2>2. \A m \in net' : m.what # "ask" => answer'[Maker][m.req] = m.what
    BY <1>1, <2>1 DEF Agreeing
  <2>3. \A n \in Node, q \in Req : answer'[n][q] # "none" => answer'[Maker][q] = answer'[n][q]
    BY <1>1, <2>1 DEF Agreeing
  <2>4. ASSUME NEW u \in Thread, pc'[u] # Idle
        PROVE  answer'[Maker][pc'[u].req] =
                 IF pc'[u].at = "publish" THEN pc'[u].verdict ELSE "none"
    BY <1>1, <2>1, <2>4 DEF Agreeing
  <2> QED BY <2>2, <2>3, <2>4 DEF Agreeing, Idle
<1> QED BY <1>2, <1>3, <1>4 DEF AnswerInv, Idle

\* Up to the answer nothing is on disk of it.
LEMMA DecideAgrees ==
  ASSUME AnswerInv, TypeOK', Alone' => Alone, deciders' = deciders,
         NEW w \in Thread, Decide(w) \/ Open(w) \/ FillIn(w)
  PROVE  AnswerInv'
<1>1. TypeOK /\ answer' = answer /\ net' = net
  BY DEF Decide, Open, FillIn, books, AnswerInv
<1>2. pc[w].at \in {"wait", "open", "fill"}
  BY DEF Decide, Open, FillIn
<1>3. pc[w] \in Job /\ pc[w] # Idle /\ pc \in [Thread -> Job \cup {Idle}]
  BY <1>1, <1>2, AtWork DEF TypeOK
<1>4. /\ \A u \in Thread : u # w => pc'[u] = pc[u]
      /\ pc'[w] # Idle => pc'[w].req = pc[w].req /\ pc'[w].at # "publish"
  <2>1. CASE \E at \in {"open", "fill", "store"} : Step(w, at)
    BY <1>1, <1>2, <2>1, StepOf
  <2>2. CASE Stop(w)
    BY <1>1, <2>2, StopOf
  <2>3. CASE pc' = [pc EXCEPT ![w] = [at |-> "store", req |-> pc[w].req, verdict |-> "decline"]]
    BY <1>3, <2>3
  <2> QED BY <2>1, <2>2, <2>3 DEF Decide, Open, FillIn
<1> QED BY <1>1, <1>2, <1>3, <1>4, AgreeKept

\* The answer stored is the first, and the one that will be sent.
LEMMA StoreAgrees ==
  ASSUME AnswerInv, TypeOK', Alone' => Alone, deciders' = deciders,
         NEW w \in Thread, Store(w)
  PROVE  AnswerInv'
<1>1. /\ TypeOK /\ net' = net /\ pc[w].at = "store" /\ pc[w] # Idle
      /\ pc[w].req \in Req /\ pc[w].verdict \in Verdict
  BY AtWork DEF Store, AnswerInv
<1>2. /\ \A u \in Thread : u # w => pc'[u] = pc[u]
      /\ \/ Stop(w) /\ answer' = answer /\ pc'[w] = Idle
         \/ /\ pc'[w] = [at |-> "publish", req |-> pc[w].req, verdict |-> pc[w].verdict]
            /\ answer' = IF answer[Maker][pc[w].req] # "none" THEN answer
                         ELSE [answer EXCEPT ![Maker][pc[w].req] = pc[w].verdict]
  BY <1>1, StepOf, StopOf DEF Store
<1>3. \A u \in Thread : pc'[u] # Idle => u \in deciders'
  BY <1>1, <1>2 DEF AnswerInv
<1>4. \A m \in net' : m.what # "ask" => m.to # Maker
  BY <1>1 DEF AnswerInv
<1>5. ASSUME Alone' PROVE Agreeing'
  <2>1. Alone /\ Agreeing
    BY <1>5 DEF AnswerInv
  <2>2. answer[Maker][pc[w].req] = "none"
    BY <1>1, <2>1 DEF Agreeing
  <2>3. \A u \in Thread : u # w => pc'[u] = Idle
    BY <1>1, <1>2, <2>1, OneAtWork
  <2>4. CASE answer' = answer /\ pc'[w] = Idle
    <3>1. \A m \in net' : m.what # "ask" => answer'[Maker][m.req] = m.what
      BY <1>1, <2>1, <2>4 DEF Agreeing
    <3>2. \A n \in Node, q \in Req : answer'[n][q] # "none" => answer'[Maker][q] = answer'[n][q]
      BY <2>1, <2>4 DEF Agreeing
    <3>3. \A u \in Thread : pc'[u] = Idle
      BY <2>3, <2>4
    <3> QED BY <3>1, <3>2, <3>3 DEF Agreeing, Idle
  <2>5. CASE /\ pc'[w] = [at |-> "publish", req |-> pc[w].req, verdict |-> pc[w].verdict]
             /\ answer' = [answer EXCEPT ![Maker][pc[w].req] = pc[w].verdict]
    <3> DEFINE q == pc[w].req
    <3>1. /\ answer \in [Node -> [Req -> Verdict \cup {"none"}]]
          /\ Maker \in Node /\ q \in Req
      BY <1>1 DEF TypeOK
    <3>2. /\ answer'[Maker][q] = pc[w].verdict
          /\ \A n \in Node, r \in Req : n # Maker \/ r # q => answer'[n][r] = answer[n][r]
      <4> HIDE DEF q, Node, Verdict
      <4>1. answer' = [answer EXCEPT ![Maker][q] = pc[w].verdict]
        BY <2>5 DEF q
      <4> QED BY <3>1, <4>1
    <3>3. ASSUME NEW m \in net', m.what # "ask" PROVE answer'[Maker][m.req] = m.what
      <4>1. m \in Message /\ m.req \in Req /\ answer[Maker][m.req] = m.what /\ m.what \in Verdict
        BY <1>1, <2>1, <3>3 DEF TypeOK, Message, Agreeing
      <4>2. m.req # q
        BY <2>2, <4>1
      <4> QED BY <3>1, <3>2, <4>1, <4>2
    <3>4. ASSUME NEW n \in Node, NEW r \in Req, answer'[n][r] # "none"
          PROVE  answer'[Maker][r] = answer'[n][r]
      <4>1. CASE r = q /\ n # Maker
        <5>1. answer[n][r] # "none"
          BY <3>2, <3>4, <4>1
        <5>2. answer[Maker][r] = answer[n][r]
          BY <2>1, <5>1 DEF Agreeing
        <5> QED BY <2>2, <4>1, <5>1, <5>2
      <4>2. CASE r # q
        BY <2>1, <3>1, <3>2, <3>4, <4>2 DEF Agreeing
      <4> QED BY <4>1, <4>2
    <3>5. ASSUME NEW u \in Thread, pc'[u] # Idle
          PROVE  answer'[Maker][pc'[u].req] =
                   IF pc'[u].at = "publish" THEN pc'[u].verdict ELSE "none"
      <4>1. u = w
        BY <2>3, <3>5
      <4> QED BY <2>5, <3>2, <4>1
    <3> QED BY <3>3, <3>4, <3>5 DEF Agreeing, Idle
  <2> QED BY <1>2, <2>2, <2>4, <2>5
<1> QED BY <1>3, <1>4, <1>5 DEF AnswerInv, Idle

\* What is sent is what is stored.
LEMMA PublishAgrees ==
  ASSUME AnswerInv, TypeOK', Alone' => Alone, deciders' = deciders,
         NEW w \in Thread, Publish(w)
  PROVE  AnswerInv'
<1>1. /\ TypeOK /\ answer' = answer /\ pc[w].at = "publish" /\ pc[w] # Idle
      /\ pc'[w] = Idle /\ \A u \in Thread : u # w => pc'[u] = pc[u]
  BY AtWork, StopOf DEF Publish, AnswerInv, books
<1>2. \A m \in net' : m.what # "ask" =>
         m \in net \/ (m.to \in Taker /\ m.req = pc[w].req /\ m.what = pc[w].verdict)
  BY DEF Publish
<1>3. \A u \in Thread : pc'[u] # Idle => u \in deciders'
  BY <1>1 DEF AnswerInv
<1>4. \A m \in net' : m.what # "ask" => m.to # Maker
  BY <1>2 DEF AnswerInv
<1>5. ASSUME Alone' PROVE Agreeing'
  <2>1. Agreeing
    BY <1>5 DEF AnswerInv
  <2>2. answer[Maker][pc[w].req] = pc[w].verdict
    BY <1>1, <2>1 DEF Agreeing
  <2>3. \A m \in net' : m.what # "ask" => answer'[Maker][m.req] = m.what
    BY <1>1, <1>2, <2>1, <2>2 DEF Agreeing
  <2>4. \A n \in Node, q \in Req : answer'[n][q] # "none" => answer'[Maker][q] = answer'[n][q]
    BY <1>1, <2>1 DEF Agreeing
  <2>5. ASSUME NEW u \in Thread, pc'[u] # Idle
        PROVE  answer'[Maker][pc'[u].req] =
                 IF pc'[u].at = "publish" THEN pc'[u].verdict ELSE "none"
    BY <1>1, <2>1, <2>5 DEF Agreeing
  <2> QED BY <2>3, <2>4, <2>5 DEF Agreeing, Idle
<1> QED BY <1>3, <1>4, <1>5 DEF AnswerInv, Idle

\* What is heard is what the maker has.
LEMMA HearAgrees ==
  ASSUME AnswerInv, TypeOK', Alone' => Alone, deciders' = deciders,
         NEW m \in net, HearAnswer(m)
  PROVE  AnswerInv'
<1>1. /\ TypeOK /\ pc' = pc /\ net' \subseteq net /\ m.what # "ask"
      /\ m \in Message /\ m.to \in Node /\ m.to # Maker /\ m.req \in Req
  BY DEF HearAnswer, AnswerInv, TypeOK, Message
<1>2. /\ answer'[m.to][m.req] \in {answer[m.to][m.req], m.what}
      /\ \A n \in Node, r \in Req : n # m.to \/ r # m.req => answer'[n][r] = answer[n][r]
  <2>1. /\ answer \in [Node -> [Req -> Verdict \cup {"none"}]]
        /\ answer' = [answer EXCEPT ![m.to][m.req] =
             IF answer[m.to][m.req] = "none" /\ Verified(m.to, m.what)
             THEN m.what ELSE answer[m.to][m.req]]
    BY <1>1 DEF HearAnswer, TypeOK
  <2> HIDE DEF Node, Verdict
  <2> QED BY <1>1, <2>1
<1>3. \A u \in Thread : pc'[u] # Idle => u \in deciders'
  BY <1>1 DEF AnswerInv
<1>4. \A k \in net' : k.what # "ask" => k.to # Maker
  BY <1>1 DEF AnswerInv
<1>5. ASSUME Alone' PROVE Agreeing'
  <2>1. Agreeing
    BY <1>5 DEF AnswerInv
  <2>2. \A r \in Req : answer'[Maker][r] = answer[Maker][r]
    BY <1>1, <1>2
  <2>3. \A k \in net' : k.what # "ask" => answer'[Maker][k.req] = k.what
    BY <1>1, <2>1, <2>2 DEF Agreeing, TypeOK, Message
  <2>4. ASSUME NEW n \in Node, NEW r \in Req, answer'[n][r] # "none"
        PROVE  answer'[Maker][r] = answer'[n][r]
    <3>1. CASE answer'[n][r] = answer[n][r]
      BY <2>1, <2>2, <2>4, <3>1 DEF Agreeing
    <3>2. CASE r = m.req /\ answer'[n][r] = m.what
      BY <1>1, <2>1, <2>2, <3>2 DEF Agreeing
    <3> QED BY <1>2, <3>1, <3>2
  <2>5. ASSUME NEW u \in Thread, pc'[u] # Idle
        PROVE  answer'[Maker][pc'[u].req] =
                 IF pc'[u].at = "publish" THEN pc'[u].verdict ELSE "none"
    <3>1. pc[u].req \in Req
      BY <1>1, <2>5 DEF TypeOK, Job
    <3> QED BY <1>1, <2>1, <2>2, <2>5, <3>1 DEF Agreeing
  <2> QED BY <2>3, <2>4, <2>5 DEF Agreeing, Idle
<1> QED BY <1>3, <1>4, <1>5 DEF AnswerInv, Idle

\* Every step keeps the answers in agreement.
LEMMA AnswerStep == AnswerInv /\ [Next]_vars => AnswerInv'
<1> SUFFICES ASSUME AnswerInv, [Next]_vars PROVE AnswerInv'
  OBVIOUS
<1>1. TypeOK /\ TypeOK'
  BY TypeStep DEF AnswerInv
<1>2. CASE UNCHANGED vars
  <2>1. answer' = answer /\ net' = net /\ pc' = pc /\ deciders' = deciders /\ faults' = faults
    BY <1>2 DEF vars, books, world
  <2> QED BY <1>1, <2>1, AgreeKept DEF Alone
<1>3. CASE Next
  <2>1. (Alone' => Alone /\ faults' = faults) /\ deciders' = deciders
    BY <1>1, <1>3, AloneBefore, DecidersStay
  <2> QED BY <1>1, <1>3, <2>1, QuietAgrees, LossAgrees, LookAgrees, DecideAgrees, StoreAgrees,
             PublishAgrees, HearAgrees DEF Next, Answering
<1> QED BY <1>2, <1>3

\* As long as one thread answers and nothing old is pruned, all who have an
\* answer to a request have the same, whoever they are and however slow.
THEOREM AnsweredOnceAloneAlways == Spec => []AnsweredOnceAlone
<1>1. Init => AnswerInv
  <2>1. Init => TypeOK
    BY TypeInit
  <2> QED BY <2>1 DEF Init, AnswerInv, Agreeing, Idle
<1>2. AnswerInv => AnsweredOnceAlone
  <2> SUFFICES ASSUME AnswerInv, Cardinality(deciders) = 1, faults = 0
               PROVE  AnsweredOnce
    BY DEF AnsweredOnceAlone
  <2>1. deciders \subseteq Thread
    BY DEF AnswerInv, TypeOK
  <2>2. IsFiniteSet(deciders)
    <3>1. IsFiniteSet({"worker"}) /\ Thread = {"worker"} \cup {"person"}
      BY FS_Singleton
    <3>2. IsFiniteSet(Thread)
      BY <3>1, FS_AddElement
    <3> QED BY <2>1, <3>2, FS_Subset
  <2>3. \E d : deciders = {d}
    BY <2>2, FS_Singleton
  <2>4. Alone
    BY <2>1, <2>3 DEF Alone
  <2> QED BY <2>4 DEF AnswerInv, Agreeing, AnsweredOnce
<1> QED BY <1>1, <1>2, AnswerStep, PTL DEF Spec
=============================================================================
