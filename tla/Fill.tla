-------------------------------- MODULE Fill --------------------------------
(***************************************************************************)
(* How an order becomes trades (src/src/market.py and the maker's and      *)
(* taker's half of src/src/swap_engine.py): a taker asks for a part of an  *)
(* order, its maker says yes or no, and both open a trade on their own     *)
(* disk.  SwapTrade.tla models what a trade does then.                     *)
(*                                                                         *)
(* Two threads of the maker answer: the swap worker on its pass, and a     *)
(* person with a click.  _ACCEPT_LOCK keeps two acceptances apart; nothing *)
(* else does.  A cancelled order is not told from an open one by any step  *)
(* modelled here.                                                          *)
(***************************************************************************)
EXTENDS FiniteSetsExt, Integers

CONSTANTS Maker, Taker,      \* a node, a set of nodes
          Order, Req,        \* the maker's orders, the requests for them
          OrderOf, By, Amount, Size,  \* of each request and order
          Funds,             \* what the maker holds of what it sells
          AskLimit,          \* MAX_FILL_REQUESTS_PER_TAKER
          AnswerLimit,       \* MAX_ACCEPTED_RESPONSES_PER_MAKER
          Deciders,          \* the possible sets of threads that answer
          Doubts,            \* the possible sets of requests of strangers
          MaxFaults, None    \* bound on crashes and on what gets too old

Node == {Maker} \cup Taker
Thread == {"worker", "person"}
Verdict == {"accept", "decline"}

ASSUME FillAssumption ==
  /\ Maker \notin Taker /\ None \notin Thread
  /\ OrderOf \in [Req -> Order] /\ By \in [Req -> Taker]
  /\ Amount \in [Req -> Nat \ {0}] /\ Size \in [Order -> Nat]
  /\ Funds \in Nat /\ AskLimit \in Nat /\ AnswerLimit \in Nat
  /\ Deciders \subseteq SUBSET Thread /\ Doubts \subseteq SUBSET Req
  /\ MaxFaults \in Nat

ASSUME FiniteAssumption == IsFiniteSet(Req)

VARIABLES
  deciders, doubted,  \* the world, chosen once
  listed,    \* node -> orders it has on disk
  late,      \* orders the chain has grown past
  asked,     \* node -> requests it has on disk
  answer,    \* node -> request -> the answer it has on disk
  trade,     \* node -> request -> its trade: "bare" has no increments yet
  paid,      \* request -> what each has paid the other
  aged,      \* requests whose acceptance has passed trade_expired_by
  pc,        \* thread -> what it is about to do
  lock,      \* who holds _ACCEPT_LOCK
  net,       \* messages under way
  faults     \* how much of MaxFaults is used up

world == <<deciders, doubted>>
books == <<listed, asked, answer>>
deal  == <<trade, paid, aged>>
vars  == <<world, books, late, deal, pc, lock, net, faults>>

Idle == [at |-> "idle"]
Job  == [at : {"wait", "open", "fill", "store", "publish"},
         req : Req, verdict : Verdict]
Message == [to : Node, req : Req, what : Verdict \cup {"ask"}]

TypeOK ==
  /\ deciders \in Deciders /\ doubted \in Doubts
  /\ listed \in [Node -> SUBSET Order] /\ late \subseteq Order
  /\ asked \in [Node -> SUBSET Req]
  /\ answer \in [Node -> [Req -> Verdict \cup {"none"}]]
  /\ trade \in [Node -> [Req -> {"none", "bare", "open", "done"}]]
  /\ paid \in [Req -> Nat] /\ aged \subseteq Req
  /\ pc \in [Thread -> Job \cup {Idle}] /\ lock \in Thread \cup {None}
  /\ net \subseteq Message /\ faults \in 0..MaxFaults

Init ==
  /\ deciders \in Deciders /\ doubted \in Doubts
  /\ listed = [n \in Node |-> Order] /\ late = {}
  /\ asked = [n \in Node |-> {}]
  /\ answer = [n \in Node |-> [r \in Req |-> "none"]]
  /\ trade = [n \in Node |-> [r \in Req |-> "none"]]
  /\ paid = [r \in Req |-> 0] /\ aged = {}
  /\ pc = [w \in Thread |-> Idle] /\ lock = None
  /\ net = {} /\ faults = 0

Fault(b) == faults' = faults + (IF b THEN 1 ELSE 0) /\ faults' <= MaxFaults

-----------------------------------------------------------------------------
(* market.py: what is left of an order, as a node sees it *)

Trades(n)  == {r \in Req : trade[n][r] # "none"}
Answers(n, v) == {r \in Req : answer[n][r] = v}
Total(reqs) == MapThenSumSet(LAMBDA r : Amount[r], reqs)
On(o) == {r \in Req : OrderOf[r] = o}

\* delivered_ticks: of its own trades, the steps paid by both.
Delivered(n, o) == MapThenSumSet(LAMBDA r : paid[r], Trades(n) \cap On(o))

\* reserved_ticks: accepted, in time, and not a trade of its own.
Reserved(n, o) == Total((Answers(n, "accept") \cap On(o)) \ (Trades(n) \cup aged))

Remaining(n, o) == Size[o] - Delivered(n, o) - Reserved(n, o)

\* _pending_fill_request_query for the taker of r.
Pending(n, r) == {q \in asked[n] \ Answers(n, "accept") : By[q] = By[r]}

\* verify_fill_request of an honest one.
AskAdmitted(n, r) == Cardinality(Pending(n, r)) < AskLimit

\* _check_fill_response_admission of an acceptance.
Admitted(n) == Cardinality(Answers(n, "accept")) < AnswerLimit

\* verify_fill_response of an honest one.
Verified(n, v) == v = "accept" => Admitted(n)

\* _pending_send_total: what the maker has yet to pay in its trades that run.
Due     == [r \in Req |-> Amount[r] - paid[r]]
Running == {r \in Trades(Maker) : trade[Maker][r] # "done"}
Owed    == MapThenSumSet(LAMBDA r : Due[r], Running)
Balance == Funds - MapThenSumSet(LAMBDA r : paid[r], Req)

-----------------------------------------------------------------------------
(* The taker asks *)

\* What the auto-matcher looks at too; it takes fewer orders and smaller parts.
MayAsk(t, r) ==
  /\ OrderOf[r] \in listed[t] \ late
  /\ Amount[r] <= Remaining(t, OrderOf[r])

\* _open_trade: each request has a session of its own.
Ask(r) ==
  LET t == By[r] IN
  /\ r \notin asked[t] /\ answer[t][r] = "none" /\ trade[t][r] = "none"
  /\ MayAsk(t, r) /\ AskAdmitted(t, r)
  /\ asked' = [asked EXCEPT ![t] = @ \cup {r}]
  /\ net' = net \cup {[to |-> Maker, req |-> r, what |-> "ask"]}
  /\ UNCHANGED <<world, listed, answer, late, deal, pc, lock, faults>>

\* _handle_inbound_fill_request
HearAsk(m) ==
  /\ m \in net /\ m.what = "ask" /\ net' = net \ {m}
  /\ asked' = [asked EXCEPT ![Maker] =
       IF AskAdmitted(Maker, m.req) THEN @ \cup {m.req} ELSE @]
  /\ UNCHANGED <<world, listed, answer, late, deal, pc, lock, faults>>

-----------------------------------------------------------------------------
(* The maker answers *)

Step(w, at) == pc' = [pc EXCEPT ![w].at = at]
Stop(w)     == pc' = [pc EXCEPT ![w] = Idle]

\* Mutant of Release: a refusal keeps the lock.
ReleaseIfAccepted(w) ==
  lock' = IF lock = w /\ pc[w].verdict = "accept" THEN None ELSE lock

\* The end of the with block.
Release(w) == lock' = IF lock = w THEN None ELSE lock

\* Mutant of Unanswered: the stored answer is not looked for.
UnansweredByTrade(r) ==
  r \in asked[Maker] /\ trade[Maker][r] = "none" /\ OrderOf[r] \in listed[Maker]

\* The questions answer_fill_requests and decide_fill_request ask unlocked.
Unanswered(r) ==
  /\ r \in asked[Maker] /\ OrderOf[r] \in listed[Maker]
  /\ answer[Maker][r] = "none" /\ trade[Maker][r] = "none"

\* The worker takes a request up, or a person clicks; a refusal by hand
\* goes past the lock.
Look(w, r, v) ==
  /\ w \in deciders /\ pc[w] = Idle /\ Unanswered(r)
  /\ (w = "worker" => v = "accept" /\ r \notin doubted)
  /\ pc' = [pc EXCEPT ![w] = [at |-> IF v = "accept" THEN "wait" ELSE "store",
                              req |-> r, verdict |-> v]]
  /\ UNCHANGED <<world, books, late, deal, lock, net, faults>>

\* Mutant of Acquire: the lock excludes nobody.
AcquireAnyway(w) == lock' = w

Acquire(w) == lock = None /\ lock' = w

\* validate_fill, and the maker's funds.
Acceptable(r) ==
  /\ Amount[r] <= Remaining(Maker, OrderOf[r])
  /\ Balance - Owed >= Amount[r]

\* _answer_one_locked up to its verdict.
Decide(w) ==
  /\ pc[w].at = "wait" /\ Acquire(w)
  /\ IF Acceptable(pc[w].req)
     THEN Step(w, "open")
     ELSE pc' = [pc EXCEPT ![w] =
                   [at |-> "store", req |-> @.req, verdict |-> "decline"]]
  /\ UNCHANGED <<world, books, late, deal, net, faults>>

\* Mutant of Open: the answer goes out without a trade on disk.
OpenNothing(w) ==
  /\ pc[w].at = "open" /\ Step(w, "store")
  /\ UNCHANGED <<world, books, late, deal, lock, net, faults>>

\* Trade.create: an error if the session has one.
Open(w) ==
  /\ pc[w].at = "open"
  /\ IF trade[Maker][pc[w].req] = "none"
     THEN /\ trade' = [trade EXCEPT ![Maker][pc[w].req] = "bare"]
          /\ Step(w, "fill") /\ UNCHANGED lock
     ELSE Stop(w) /\ Release(w) /\ UNCHANGED trade
  /\ UNCHANGED <<world, books, late, paid, aged, net, faults>>

\* Increment.create, all of them.
FillIn(w) ==
  /\ pc[w].at = "fill" /\ Step(w, "store")
  /\ trade' = [trade EXCEPT ![Maker][pc[w].req] = IF @ = "bare" THEN "open" ELSE @]
  /\ UNCHANGED <<world, books, late, paid, aged, lock, net, faults>>

\* store_fill_response: the first one stays; an error at the limit.
Store(w) ==
  LET r == pc[w].req
      stays == answer[Maker][r] # "none" IN
  /\ pc[w].at = "store"
  /\ IF stays \/ Verified(Maker, pc[w].verdict)
     THEN /\ Step(w, "publish") /\ UNCHANGED lock
          /\ answer' = IF stays THEN answer
                       ELSE [answer EXCEPT ![Maker][r] = pc[w].verdict]
     ELSE Stop(w) /\ Release(w) /\ UNCHANGED answer
  /\ UNCHANGED <<world, listed, asked, late, deal, net, faults>>

\* publish_fill_response: what was decided here, stored or not.
Publish(w) ==
  /\ pc[w].at = "publish" /\ Stop(w) /\ Release(w)
  /\ net' = net \cup [to : Taker, req : {pc[w].req}, what : {pc[w].verdict}]
  /\ UNCHANGED <<world, books, late, deal, faults>>

Answering(w) == Decide(w) \/ Open(w) \/ FillIn(w) \/ Store(w) \/ Publish(w)

-----------------------------------------------------------------------------
(* The taker hears of it *)

\* _handle_inbound_fill_response, also of others' requests.
HearAnswer(m) ==
  /\ m \in net /\ m.what # "ask" /\ net' = net \ {m}
  /\ answer' = [answer EXCEPT ![m.to][m.req] =
       IF @ = "none" /\ Verified(m.to, m.what) THEN m.what ELSE @]
  /\ UNCHANGED <<world, listed, asked, late, deal, pc, lock, faults>>

\* check_fill_responses: what is stored is verified again, and counts itself
\* among those there.
Agreed(t, r) ==
  /\ r \in asked[t] /\ answer[t][r] = "accept" /\ trade[t][r] = "none"
  /\ OrderOf[r] \in listed[t] /\ Verified(t, "accept")

\* _open_taker_trade
TakerOpen(r) ==
  LET t == By[r] IN
  /\ Agreed(t, r)
  /\ trade' = [trade EXCEPT ![t][r] = "open"]
  /\ UNCHANGED <<world, books, late, paid, aged, pc, lock, net, faults>>

-----------------------------------------------------------------------------
(* The trades, and what time does *)

\* A step of SwapTrade that both have paid.
Pay(r) ==
  /\ trade[Maker][r] = "open" /\ trade[By[r]][r] = "open"
  /\ pc["worker"] = Idle /\ paid[r] < Amount[r]
  /\ paid' = [paid EXCEPT ![r] = @ + 1]
  /\ UNCHANGED <<world, books, late, trade, aged, pc, lock, net, faults>>

\* advance of a trade of the maker all of whose increments are settled.
Complete(r) ==
  /\ pc["worker"] = Idle
  /\ \/ trade[Maker][r] = "bare"
     \/ trade[Maker][r] = "open" /\ paid[r] = Amount[r]
  /\ trade' = [trade EXCEPT ![Maker][r] = "done"]
  /\ UNCHANGED <<world, books, late, paid, aged, pc, lock, net, faults>>

\* The chain grows past the order.
Expire(o) ==
  /\ o \notin late /\ Fault(TRUE) /\ late' = late \cup {o}
  /\ UNCHANGED <<world, books, deal, pc, lock, net>>

\* prune_expired, prune_fill_requests and prune_fill_responses, some requests
\* being old.
Prune(n, old) ==
  LET kept == asked[n] \ (old \ Answers(n, "accept")) IN
  /\ (n = Maker => pc["worker"] = Idle)
  /\ listed' = [listed EXCEPT ![n] = @ \ late]
  /\ asked' = [asked EXCEPT ![n] = kept]
  /\ answer' = [answer EXCEPT ![n] =
       [r \in Req |-> IF r \in old \ kept /\ @[r] = "decline" THEN "none" ELSE @[r]]]
  /\ <<listed, asked, answer>>' # <<listed, asked, answer>> /\ Fault(old # {})
  /\ UNCHANGED <<world, late, deal, pc, lock, net>>

\* trade_expired_by comes to hold of an acceptance.
Age(r) ==
  /\ \E n \in Node : answer[n][r] = "accept"
  /\ r \notin aged /\ Fault(TRUE) /\ aged' = aged \cup {r}
  /\ UNCHANGED <<world, books, late, trade, paid, pc, lock, net>>

\* The maker's process dies: what is on disk stays, what is not published
\* never will be.
Crash ==
  /\ \E w \in Thread : pc[w] # Idle
  /\ Fault(TRUE)
  /\ pc' = [w \in Thread |-> Idle] /\ lock' = None
  /\ UNCHANGED <<world, books, late, deal, net>>

Next ==
  \/ \E r \in Req : Ask(r) \/ TakerOpen(r) \/ Pay(r) \/ Complete(r) \/ Age(r)
  \/ \E m \in net : HearAsk(m) \/ HearAnswer(m)
  \/ \E w \in Thread, r \in Req, v \in Verdict : Look(w, r, v)
  \/ \E w \in Thread : Answering(w)
  \/ \E o \in Order : Expire(o)
  \/ \E n \in Node, old \in SUBSET Req : Prune(n, old)
  \/ Crash

Spec == Init /\ [][Next]_vars

\* Something goes on as long as it can: a message arrives, an answer is under
\* way, the maker's worker finds a request or a taker's an acceptance.
Progress ==
  \/ \E m \in net : HearAsk(m) \/ HearAnswer(m)
  \/ \E w \in Thread : Answering(w)
  \/ \E r \in Req : Look("worker", r, "accept") \/ TakerOpen(r)

Fairness == WF_vars(Progress)

FairSpec == Spec /\ Fairness

-----------------------------------------------------------------------------
\* Whoever decides, and whoever dies when: the maker never promises more than
\* it holds.  A completed trade has nothing left to pay.
Funded == Owed <= Balance

\* A taker never has a trade its maker does not have on disk: nobody pays
\* first to somebody who does not know of it.
NobodyAlone == \A t \in Taker : Trades(t) \subseteq Trades(Maker)

\* "Every request that gets an actual answer, accept or decline, gets it
\* exactly once" (swap_engine.py, _answer_one).
AnsweredOnce ==
  \A n, p \in Node, r \in Req :
    "none" \notin {answer[n][r], answer[p][r]} => answer[n][r] = answer[p][r]

\* It does as long as one of the two threads leaves the answering to the other
\* and nothing old is taken out of the maker's tables.
AnsweredOnceAlone == Cardinality(deciders) = 1 /\ faults = 0 => AnsweredOnce

\* A request that went out is heard of, unless something went wrong, or it is
\* left to a person, or the books are full.
Heard ==
  \A r \in Req :
    r \in asked[By[r]] ~>
      \/ answer[By[r]][r] = "decline" \/ trade[By[r]][r] # "none"
      \/ faults > 0 \/ r \in doubted \/ "worker" \notin deciders
      \/ ~ Admitted(By[r])

\* An order is not given away twice: "jointly promising more than [...] an
\* order's own lapse_total allows" is what the lock is for.
NeverOversold ==
  \A o \in Order : Total((Trades(Maker) \cap On(o)) \ aged) <= Size[o]
=============================================================================
