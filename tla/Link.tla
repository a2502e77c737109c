-------------------------------- MODULE Link --------------------------------
(***************************************************************************)
(* How one node gets a message of several datagrams to another one:        *)
(* UDPTransport (src/src/peer_udp.py).  A broadcast goes out unasked and   *)
(* is put together by the receiver's _Reassembler; a page of the chain or  *)
(* of the market answers a request and is put together by the _PendingSync *)
(* of whoever waits for it.  Both are resent until acknowledged.           *)
(*                                                                         *)
(* One node sends, one receives and asks.  A handler of a datagram is one  *)
(* step: what it touches is behind locks, and its answer can be late.  The *)
(* clocks are left out: a wait may end at any time, but a partial message  *)
(* is not called stale while datagrams of it are still to come (five paced *)
(* sends of the largest block and four waits take less than its minute).   *)
(***************************************************************************)
EXTENDS Integers, FiniteSets, FiniteSetsExt

CONSTANTS
  Push, Ask,   \* msg_ids of broadcasts, and of requests with their answers
  Body,        \* payloads
  Carries,     \* Carries[m]: the payload of broadcast m
  Pages,       \* payloads an answer may have: the chain as it is when read
  Chunks,      \* Chunks[b]: the number of datagrams payload b is split into
  Worlds,      \* the sets of messages to look at
  Rounds,      \* CHUNK_ACK_MAX_ROUNDS
  AckEvery,    \* ACK_EVERY_CHUNKS
  Slots,       \* FANOUT_PENDING_MAX, SYNC_SERVE_PENDING_MAX
  Room,        \* REASSEMBLY_MAX_BYTES, in datagrams
  MaxFaults,   \* bound: datagrams lost or duplicated
  MaxFlight,   \* bound: datagrams under way when some are resent
  None

Jobs == Push \cup Ask

ASSUME LinkAssumption ==
  /\ Push \cap Ask = {} /\ Worlds \subseteq SUBSET Jobs
  /\ Carries \in [Push -> Body] /\ Pages \subseteq Body
  /\ Chunks \in [Body -> Nat \ {0}]
  /\ {Rounds, AckEvery} \subseteq Nat \ {0}
  /\ {Slots, Room, MaxFaults, MaxFlight} \subseteq Nat
  /\ None \notin Body
  /\ \A b \in Body : \A part \in SUBSET (1..Chunks[b]) : part # None

VARIABLES
  world,       \* the messages this behaviour is about
  ahead,       \* those of them that are still to be sent or asked for
  \* the sender
  tasks,       \* how many sends of a message are queued, each with a slot
  sends,       \* _pending_chunked_sends: the payload and what is acked of it
  waits,       \* the waiters: a message, which send of it, the round
  known,       \* the asker may be served: pooled, or found routable
  confirming,  \* the request that is served when the asker answers our PING
  \* the network
  net, faults,
  \* the receiver
  partial,     \* _Reassembler._pending: the chunks held of a broadcast
  seen,        \* _seen_msg
  handed,      \* how often a broadcast was handed to the node (history)
  open,        \* _pending_sync, _pending_market: what a request has got
  full         \* a chunk was refused for want of room (history)

sender   == <<tasks, sends, waits, known, confirming>>
receiver == <<partial, seen, handed, open, full>>
vars     == <<world, ahead, sender, net, faults, receiver>>

Init ==
  /\ world \in Worlds /\ ahead = world
  /\ tasks = [j \in Jobs |-> 0] /\ sends = [j \in Jobs |-> None]
  /\ waits = {} /\ known \in BOOLEAN /\ confirming = None
  /\ net = {} /\ faults = 0
  /\ partial = [m \in Push |-> None] /\ seen = {}
  /\ handed = [m \in Push |-> 0] /\ open = [q \in Ask |-> None]
  /\ full = FALSE

-----------------------------------------------------------------------------
(* The sender *)

\* Datagrams.  A chunk names the number `of` chunks there are; a resent one is
\* another datagram, which is what `try` is for.
Chunk(j, b, i, of, try) ==
  [kind |-> "chunk", job |-> j, body |-> b, idx |-> i, of |-> of, try |-> try]
Ack(j, held) == [kind |-> "ack", job |-> j, held |-> held]
Word(kind, j) == [kind |-> kind, job |-> j]

\* Which send of the message this is; a request that arrives twice is served
\* twice, with the same msg_id.
NextSend(j) ==
  CHOOSE n \in 1..(MaxFaults + 1) : \A w \in waits : w.job = j => w.nr # n

\* _send_chunked: the chunks one after the other, and a waiter if there are
\* several.  The record of an earlier send of the message is overwritten.
SendChunked(j, b) ==
  /\ net' = net \cup {Chunk(j, b, i, Chunks[b], <<NextSend(j), 0>>) : i \in 1..Chunks[b]}
  /\ IF Chunks[b] > 1
     THEN /\ sends' = [sends EXCEPT ![j] = [body |-> b, acked |-> {}]]
          /\ waits' = waits \cup {[job |-> j, nr |-> NextSend(j), of |-> Chunks[b], round |-> 0]}
     ELSE UNCHANGED <<sends, waits>>

\* _fanout and _sync_serve have slots of their own.
SlotsTaken(j) ==
  MapThenSumSet(LAMBDA k : tasks[k], IF j \in Push THEN Push ELSE Ask)

\* _queue_sync_serve, and the end of _broadcast: dropped if all are taken.
Queue(j) ==
  tasks' = IF SlotsTaken(j) < Slots THEN [tasks EXCEPT ![j] = @ + 1] ELSE tasks

\* _broadcast: a small payload goes out at once, a large one has to queue.
Broadcast(m) ==
  /\ m \in ahead \cap Push /\ ahead' = ahead \ {m}
  /\ IF Chunks[Carries[m]] = 1
     THEN SendChunked(m, Carries[m]) /\ UNCHANGED tasks
     ELSE Queue(m) /\ UNCHANGED <<sends, waits, net>>
  /\ UNCHANGED <<world, known, confirming, faults, receiver>>

\* _fanout_send, _run_and_release_sync_slot: a worker takes a task, reads the
\* chain if it is an answer, and gives the slot back when all is sent.
Work(j) ==
  /\ tasks[j] > 0 /\ tasks' = [tasks EXCEPT ![j] = @ - 1]
  /\ \E b \in IF j \in Push THEN {Carries[j]} ELSE Pages : SendChunked(j, b)
  /\ UNCHANGED <<world, ahead, known, confirming, faults, receiver>>

\* Mutant of Missing: chunks below one that is acked are taken for received.
MissingTail(j) ==
  {i \in 1..Chunks[sends[j].body] : \A k \in sends[j].acked : i > k}

Missing(j) == 1..Chunks[sends[j].body] \ sends[j].acked

\* Mutant of Resend: the record stays when the rounds are over.
ResendKeeps(w) ==
  /\ sends[w.job] # None /\ Missing(w.job) # {}
  /\ Cardinality(net) <= MaxFlight
  /\ net' = net \cup {Chunk(w.job, sends[w.job].body, i, w.of, <<w.nr, w.round + 1>>) :
                        i \in Missing(w.job)}
  /\ waits' = (waits \ {w}) \cup {v \in {[w EXCEPT !.round = @ + 1]} :
                                    v.round < Rounds}
  /\ UNCHANGED <<world, ahead, sends, tasks, known, confirming, faults, receiver>>

\* A round of _retransmit_until_acked: what is still missing goes out again, of
\* the record that is there now and with the number of chunks of the waiter's
\* own send.  After the last one the record is dropped without another wait.
Resend(w) ==
  /\ sends[w.job] # None /\ Missing(w.job) # {}
  /\ Cardinality(net) <= MaxFlight
  /\ net' = net \cup {Chunk(w.job, sends[w.job].body, i, w.of, <<w.nr, w.round + 1>>) :
                        i \in Missing(w.job)}
  /\ IF w.round + 1 < Rounds
     THEN /\ waits' = (waits \ {w}) \cup {[w EXCEPT !.round = @ + 1]}
          /\ UNCHANGED sends
     ELSE /\ waits' = waits \ {w}
          /\ sends' = [sends EXCEPT ![w.job] = None]
  /\ UNCHANGED <<world, ahead, tasks, known, confirming, faults, receiver>>

\* The waiter finds everything acked, or the record gone.
StopWaiting(w) ==
  /\ sends[w.job] # None => Missing(w.job) = {}
  /\ sends' = [sends EXCEPT ![w.job] = None]
  /\ waits' = waits \ {w}
  /\ UNCHANGED <<world, ahead, tasks, known, confirming, net, faults, receiver>>

\* ping gives up on the asker: its request is forgotten.
ConfirmFails ==
  /\ confirming # None /\ confirming' = None
  /\ UNCHANGED <<world, ahead, tasks, sends, waits, known, net, faults, receiver>>

-----------------------------------------------------------------------------
(* The receiver *)

\* request_sync, request_market.
Request(q) ==
  /\ q \in ahead \cap Ask /\ ahead' = ahead \ {q}
  /\ open' = [open EXCEPT ![q] = [has |-> {}, done |-> FALSE]]
  /\ net' = net \cup {Word("ask", q)}
  /\ UNCHANGED <<world, sender, faults, partial, seen, handed, full>>

\* The event is set and the result read, or the wait is over without it.
Return(q) ==
  /\ open[q] # None /\ open' = [open EXCEPT ![q] = None]
  /\ UNCHANGED <<world, ahead, sender, net, faults, partial, seen, handed, full>>

\* _recv_loop: the socket was silent for RECV_TIMEOUT, and only then what is
\* incomplete for a minute is dropped.
Evict ==
  /\ net = {} /\ waits = {}
  /\ \E m \in Push : partial[m] # None
  /\ partial' = [m \in Push |-> None]
  /\ UNCHANGED <<world, ahead, sender, net, faults, seen, handed, open, full>>

\* Mutant of Listed: the whole message, whether it is there or not.
ListedAll(has, whole, of) == 1..of

\* The chunks an ACK for a broadcast names.
Listed(has, whole, of) == IF whole THEN 1..of ELSE has

\* _should_ack: when the message is complete, on its last chunk, on every so
\* manieth.
ShouldAck(i, of, whole) == of > 1 /\ (whole \/ i = of \/ i % AckEvery = 0)

\* A datagram arrives and `out` is answered.  The network may keep a copy.
Arrives(d, keep, out) ==
  /\ d \in net
  /\ keep => faults < MaxFaults
  /\ faults' = IF keep THEN faults + 1 ELSE faults
  /\ net' = (IF keep THEN net ELSE net \ {d}) \cup out

Holding(m) == IF partial[m] = None THEN {} ELSE partial[m]
Held == MapThenSumSet(LAMBDA m : Cardinality(Holding(m)), Push)

\* Mutant of HandUp: the msg_id is not looked up.
HandUpAgain(m) ==
  /\ seen' = seen \cup {m}
  /\ handed' = [handed EXCEPT ![m] = @ + 1]

\* _dispatch: a message is handed to the node unless its msg_id was seen.
HandUp(m) ==
  /\ seen' = seen \cup {m}
  /\ handed' = IF m \in seen THEN handed ELSE [handed EXCEPT ![m] = @ + 1]

\* _handle_datagram with a chunk of a broadcast: _Reassembler.feed, which
\* forgets a message as soon as it is complete, then the ACK, then _dispatch.
TakePushed(d, keep) ==
  /\ d.kind = "chunk" /\ d.job \in Push
  /\ LET m       == d.job
         of      == d.of
         refused == of > 1 /\ Held + 1 > Room
         has     == Holding(m) \cup {i \in {d.idx} : ~ refused}
         whole   == has = 1..of
     IN  /\ partial' = IF refused THEN partial
                       ELSE [partial EXCEPT ![m] = IF whole THEN None ELSE has]
         /\ full' = (full \/ refused)
         /\ Arrives(d, keep, {a \in {Ack(m, Listed(has, whole, of))} :
                                ShouldAck(d.idx, of, whole)})
         /\ IF whole THEN HandUp(m) ELSE UNCHANGED <<seen, handed>>
  /\ UNCHANGED <<world, ahead, sender, open>>

\* The same with a chunk of an answer: _PendingSync.feed, which passes over an
\* index that is not below the total.  Chunks of two sends are not told apart; if
\* they leave a gap, join raises and nothing is acked.
TakeAnswer(d, keep) ==
  /\ d.kind = "chunk" /\ d.job \in Ask
  /\ IF open[d.job] = None
     THEN Arrives(d, keep, {}) /\ UNCHANGED open
     ELSE LET of     == d.of
              fits   == d.idx <= of
              has    == open[d.job].has \cup {i \in {d.idx} : fits}
              raises == fits /\ Cardinality(has) = of /\ has # 1..of
              done   == open[d.job].done \/ (fits /\ has = 1..of)
          IN  /\ open' = [open EXCEPT ![d.job] = [has |-> has, done |-> done]]
              /\ Arrives(d, keep, {a \in {Ack(d.job, has)} :
                                     ~ raises /\ ShouldAck(d.idx, of, done)})
  /\ UNCHANGED <<world, ahead, sender, partial, seen, handed, full>>

\* The asker answers a PING.
TakePing(d, keep) ==
  /\ d.kind = "ping"
  /\ Arrives(d, keep, {Word("pong", d.job)})
  /\ UNCHANGED <<world, ahead, sender, receiver>>

-----------------------------------------------------------------------------
(* What comes back to the sender *)

\* _handle_ack.
TakeAck(d, keep) ==
  /\ d.kind = "ack"
  /\ sends' = IF sends[d.job] = None THEN sends
              ELSE [sends EXCEPT ![d.job].acked = @ \cup d.held]
  /\ Arrives(d, keep, {})
  /\ UNCHANGED <<world, ahead, tasks, waits, known, confirming, receiver>>

\* _handle_getsync, _handle_get_market: an asker we know nothing of is pinged
\* first, once at a time.
TakeRequest(d, keep) ==
  /\ d.kind = "ask"
  /\ IF known
     THEN Queue(d.job) /\ Arrives(d, keep, {}) /\ UNCHANGED confirming
     ELSE /\ confirming' = IF confirming = None THEN d.job ELSE confirming
          /\ Arrives(d, keep, {p \in {Word("ping", d.job)} : confirming = None})
          /\ UNCHANGED tasks
  /\ UNCHANGED <<world, ahead, sends, waits, known, receiver>>

\* The asker proved that it is where it says: _confirm_routable.
TakePong(d, keep) ==
  /\ d.kind = "pong"
  /\ IF confirming = d.job
     THEN known' = TRUE /\ confirming' = None /\ Queue(d.job)
     ELSE UNCHANGED <<known, confirming, tasks>>
  /\ Arrives(d, keep, {})
  /\ UNCHANGED <<world, ahead, sends, waits, receiver>>

-----------------------------------------------------------------------------
\* A datagram is lost on its way, or the receiver's _allow_rate refuses it.
Lose(d) ==
  /\ faults < MaxFaults /\ faults' = faults + 1
  /\ net' = net \ {d}
  /\ UNCHANGED <<world, ahead, sender, receiver>>

Take(d, keep) ==
  \/ TakePushed(d, keep) \/ TakeAnswer(d, keep) \/ TakePing(d, keep)
  \/ TakeAck(d, keep) \/ TakeRequest(d, keep) \/ TakePong(d, keep)

Next ==
  \/ \E m \in Push : Broadcast(m)
  \/ \E q \in Ask : Request(q) \/ Return(q)
  \/ \E j \in Jobs : Work(j)
  \/ \E w \in waits : Resend(w) \/ StopWaiting(w)
  \/ ConfirmFails \/ Evict
  \/ \E d \in net : Lose(d) \/ (\E keep \in BOOLEAN : Take(d, keep))

Spec == Init /\ [][Next]_vars

(***************************************************************************)
(* Workers and waiters run, waits have a time limit, and the network       *)
(* brings what it does not lose.  Nobody has to broadcast or to ask.       *)
(***************************************************************************)
Fairness ==
  /\ WF_vars(\E j \in Jobs : Work(j))
  /\ WF_vars(\E w \in waits : Resend(w) \/ StopWaiting(w))
  /\ WF_vars(\E q \in Ask : Return(q))
  /\ WF_vars(ConfirmFails) /\ WF_vars(Evict)
  /\ WF_vars(\E d \in net : Take(d, FALSE))

FairSpec == Spec /\ Fairness

-----------------------------------------------------------------------------
\* The state is well formed.
TypeOK ==
  /\ ahead \subseteq world /\ world \in Worlds
  /\ tasks \in [Jobs -> 0..Slots]
  /\ \A j \in Jobs : sends[j] # None => Chunks[sends[j].body] > 1
  /\ known \in BOOLEAN /\ confirming \in Ask \cup {None}
  /\ faults \in 0..MaxFaults
  /\ \A m \in Push : partial[m] # None => partial[m] \subseteq 1..Chunks[Carries[m]]
  /\ seen \subseteq Push /\ full \in BOOLEAN

\* A broadcast reaches the node once at most: not again when it is put together
\* a second time from what is resent after the acknowledgement was lost.
HandedOnce == \A m \in Push : handed[m] <= 1

\* What the sender takes for received is there: in the partial message, in the
\* message that was handed up, or in what the asker holds while it waits.  It
\* is not sent again, so nothing else would bring it.
AckedIsThere ==
  \A j \in Jobs : sends[j] # None =>
    \/ j \in Push /\ (j \in seen \/ sends[j].acked \subseteq Holding(j))
    \/ j \in Ask /\ (open[j] = None \/ sends[j].acked \subseteq open[j].has)

\* A broadcast of several datagrams arrives as long as the network loses no
\* more of them than there are rounds, whichever they are, acknowledgements
\* among them, and the receiver has room.
GetsThrough ==
  \A m \in Push : sends[m] # None ~> m \in seen \/ full

\* Whatever is lost or late, neither end keeps anything of a message for ever:
\* no slot, no record of a send, no waiter, no request, no confirmation; nor half
\* a message, once the socket has been silent (it is where evict_stale is called).
Released ==
  <>[](/\ tasks = [j \in Jobs |-> 0] /\ sends = [j \in Jobs |-> None]
       /\ waits = {} /\ confirming = None
       /\ partial = [m \in Push |-> None] /\ open = [q \in Ask |-> None])
=============================================================================
