------------------------------- MODULE Gossip -------------------------------
(***************************************************************************)
(* How one item gets to every node (src/src/gossip.py and its callers in   *)
(* src/src/node.py): a private walk from peer to peer, the stem, that ends *)
(* in a public flood, the fluff; and an originator that waits for an echo  *)
(* and floods the item itself when none comes.                             *)
(*                                                                         *)
(* A node handles one message at a time (net_in_q), so a handler is one    *)
(* action.  The orders, fill requests and fill responses of the market are *)
(* handled alike and are one kind here.                                    *)
(***************************************************************************)
EXTENDS FiniteSets, Naturals

CONSTANTS Node, Origin,
          Kinds,       \* subset of {"tx", "block", "order"}
          Graphs,      \* the possible peerings: sets of unordered pairs
          Refusals,    \* the possible sets of nodes that find the item invalid
          MaxLapses,   \* bound on losses, evictions and blocks built upon
          NoPeer

ASSUME GossipAssumption ==
  /\ Origin \in Node /\ NoPeer \notin Node
  /\ Kinds \subseteq {"tx", "block", "order"}
  /\ \A g \in Graphs : \A e \in g : e \subseteq Node /\ Cardinality(e) = 2
  /\ Refusals \subseteq SUBSET (Node \ {Origin})
  /\ MaxLapses \in Nat

VARIABLES
  kind, links, refuses,   \* the world, chosen once
  got,       \* nodes that hold the item: in the pool, the book, a candidate
  cache,     \* nodes whose cache says that they have flooded it
  flooded,   \* nodes that ever did (history)
  place,     \* a block against the node's chain: "next", "tip" or "past"
  spread,    \* the item was originated
  waiting,   \* _unconfirmed_spreads of the originator: is there an entry,
  target,    \* and the peer it was stemmed to
  mail,      \* datagrams under way
  gone,      \* what sorts were lost (history): "stem", "blind", "public"
  lapses     \* how much of MaxLapses is used up

peering == <<kind, links, refuses>>
gossipVars == <<peering, got, cache, flooded, place, spread, waiting, target, mail,
                gone, lapses>>

Message == [from : Node, to : Node, stem : BOOLEAN]

GossipTypeOK ==
  /\ kind \in Kinds /\ links \in Graphs /\ refuses \in Refusals
  /\ got \subseteq Node /\ cache \subseteq flooded /\ flooded \subseteq Node
  /\ place \in [Node -> {"next", "tip", "past"}]
  /\ spread \in BOOLEAN /\ waiting \in BOOLEAN /\ target \in Node \cup {NoPeer}
  /\ mail \subseteq Message
  /\ gone \subseteq {"stem", "blind", "public"} /\ lapses \in 0..MaxLapses

GossipInit ==
  /\ kind \in Kinds /\ links \in Graphs /\ refuses \in Refusals
  /\ got = {} /\ cache = {} /\ flooded = {}
  /\ place = [n \in Node |-> "next"]
  /\ spread = FALSE /\ waiting = FALSE /\ target = NoPeer
  /\ mail = {} /\ gone = {} /\ lapses = 0

-----------------------------------------------------------------------------
(* gossip.py.  rest is what stays under way of what was. *)

\* pool.get_all
Peers(n) == {p \in Node : {n, p} \in links}

Datagrams(n, peers, stem) == [from : {n}, to : peers, stem : {stem}]

\* Mutant of Fluff: what was flooded is not remembered.
FluffAgain(n, exclude, rest) ==
  /\ mail' = rest \cup Datagrams(n, Peers(n) \ {exclude}, FALSE)
  /\ flooded' = flooded \cup {n}
  /\ UNCHANGED cache

\* _fluff with mark_seen: to everybody else, at most once.
Fluff(n, exclude, rest) ==
  /\ mail' = rest \cup IF n \in cache THEN {}
                      ELSE Datagrams(n, Peers(n) \ {exclude}, FALSE)
  /\ cache' = cache \cup {n} /\ flooded' = flooded \cup {n}

\* _stem_peer: the walk may go on to these, or end here.
Hops(n, predecessor) == (Peers(n) \ {predecessor}) \cup {NoPeer}

\* _forward: on to the next hop, or the walk ends and nobody is left out.
Forward(n, next, rest) ==
  IF next = NoPeer
  THEN Fluff(n, NoPeer, rest)
  ELSE /\ mail' = rest \cup Datagrams(n, {next}, TRUE)
       /\ UNCHANGED <<cache, flooded>>

\* relay of message m: went public if it was, or if the walk ended.
WentPublic(m, next) == ~ m.stem \/ next = NoPeer

Relay(m, next, rest) ==
  IF m.stem THEN Forward(m.to, next, rest) ELSE Fluff(m.to, m.from, rest)

-----------------------------------------------------------------------------
(* The originator *)

\* submit_tx, publish_order, the spreading of an own block: _spread.
Originate(next) ==
  /\ ~ spread /\ next \in Hops(Origin, NoPeer)
  /\ Forward(Origin, next, mail)
  /\ got' = {Origin} /\ spread' = TRUE
  /\ waiting' = TRUE /\ target' = next
  /\ UNCHANGED <<peering, place, gone, lapses>>

\* _note_echo: the word of the peer it was stemmed to counts for nothing.
NoteEcho(m) ==
  waiting' = (waiting /\ ~ (m.to = Origin /\ m.from # target))

\* Mutant of Retry: the retry goes through the cache like any flood.
RetrySeen ==
  /\ waiting /\ waiting' = FALSE
  /\ Fluff(Origin, NoPeer, mail)
  /\ UNCHANGED <<peering, got, place, spread, target, gone, lapses>>

\* _retry_unconfirmed_spreads past the deadline, with force_fluff: once.
Retry ==
  /\ waiting /\ waiting' = FALSE
  /\ mail' = mail \cup Datagrams(Origin, Peers(Origin), FALSE)
  /\ flooded' = flooded \cup {Origin}
  /\ UNCHANGED <<peering, got, cache, place, spread, target, gone, lapses>>

-----------------------------------------------------------------------------
(* The inbound handlers: m arrives, and if it is passed on privately, then to  *)
(* next.                                                                       *)

Ignore(rest) == mail' = rest /\ UNCHANGED <<got, cache, flooded, place, waiting>>

\* Mutant of InboundTx: a relay of the walk keeps what it passes on.
InboundTxKeeps(m, next, rest) ==
  /\ kind = "tx"
  /\ IF m.to \in refuses \cup got
     THEN Ignore(rest)
     ELSE /\ NoteEcho(m) /\ Relay(m, next, rest)
          /\ got' = got \cup {m.to}
          /\ UNCHANGED place

\* _handle_inbound_tx.  Who has it pending finds its nonce taken
\* (probe_state_for) and looks no further, the originator too.
InboundTx(m, next, rest) ==
  /\ kind = "tx"
  /\ IF m.to \in refuses \cup got
     THEN Ignore(rest)
     ELSE /\ NoteEcho(m) /\ Relay(m, next, rest)
          /\ got' = IF WentPublic(m, next) THEN got \cup {m.to} ELSE got
          /\ UNCHANGED place

\* Mutant of InboundOrder: what is known is not passed on.
InboundOrderKnown(m, next, rest) ==
  /\ kind = "order"
  /\ NoteEcho(m) /\ UNCHANGED place
  /\ IF m.to \in refuses \cup got
     THEN mail' = rest /\ UNCHANGED <<got, cache, flooded>>
     ELSE Relay(m, next, rest) /\ got' = got \cup {m.to}

\* _handle_inbound_order, _fill_request, _fill_response: stored if new, and
\* passed on either way.
InboundOrder(m, next, rest) ==
  /\ kind = "order"
  /\ NoteEcho(m) /\ UNCHANGED place
  /\ IF m.to \in refuses
     THEN mail' = rest /\ UNCHANGED <<got, cache, flooded>>
     ELSE Relay(m, next, rest) /\ got' = got \cup {m.to}

\* _handle_inbound_block.  refuses are those on a better sibling or without
\* its parent.
InboundBlock(m, next, rest) ==
  /\ kind = "block"
  /\ IF m.to \in refuses \/ place[m.to] = "past"
     THEN Ignore(rest)
     ELSE /\ Relay(m, next, rest)
          /\ got' = got \cup {m.to}
          /\ IF place[m.to] = "next" THEN NoteEcho(m) ELSE UNCHANGED waiting
          /\ UNCHANGED place

Receive(m, next) ==
  /\ m \in mail
  /\ next \in IF m.stem THEN Hops(m.to, m.from) ELSE {NoPeer}
  /\ LET rest == mail \ {m} IN
     \/ InboundTx(m, next, rest)
     \/ InboundOrder(m, next, rest)
     \/ InboundBlock(m, next, rest)
  /\ UNCHANGED <<peering, spread, target, gone, lapses>>

-----------------------------------------------------------------------------
(* The world *)

Fault == lapses < MaxLapses /\ lapses' = lapses + 1

\* A candidate becomes the tip.
Settle(n) ==
  /\ kind = "block" /\ n \in got /\ place[n] = "next"
  /\ place' = [place EXCEPT ![n] = "tip"]
  /\ UNCHANGED <<peering, got, cache, flooded, spread, waiting, target, mail,
                 gone, lapses>>

\* The tip is built upon.
Overtake(n) ==
  /\ place[n] = "tip" /\ Fault
  /\ place' = [place EXCEPT ![n] = "past"]
  /\ UNCHANGED <<peering, got, cache, flooded, spread, waiting, target, mail, gone>>

\* A datagram is lost, or its receiver is gone.
LoseMail(m) ==
  /\ m \in mail /\ Fault
  /\ mail' = mail \ {m}
  /\ gone' = gone \cup {IF ~ m.stem THEN "public"
                        ELSE IF waiting THEN "stem" ELSE "blind"}
  /\ UNCHANGED <<peering, got, cache, flooded, place, spread, waiting, target>>

\* LRUCache: other items push this one out.
Forget(n) ==
  /\ n \in cache /\ Fault
  /\ cache' = cache \ {n}
  /\ UNCHANGED <<peering, got, flooded, place, spread, waiting, target, mail, gone>>

GossipNext ==
  \/ \E next \in Node \cup {NoPeer} : Originate(next)
  \/ Retry
  \/ \E m \in mail, next \in Node \cup {NoPeer} : Receive(m, next)
  \/ \E m \in mail : LoseMail(m)
  \/ \E n \in Node : Settle(n) \/ Overtake(n) \/ Forget(n)

GossipSpec == GossipInit /\ [][GossipNext]_gossipVars

(***************************************************************************)
(* What is not lost arrives; the walk's coin comes up some time; and the   *)
(* loop looks at the deadlines in every round.                             *)
(***************************************************************************)
GossipFairness ==
  /\ WF_gossipVars(Originate(NoPeer)) /\ WF_gossipVars(Retry)
  /\ WF_gossipVars(\E m \in mail : ~ m.stem /\ Receive(m, NoPeer))
  /\ SF_gossipVars(\E m \in mail : m.stem /\ Receive(m, NoPeer))

FairGossip == GossipSpec /\ GossipFairness

-----------------------------------------------------------------------------
\* Whom the item can reach: over nodes that pass it on.
Reachable ==
  {n \in Node \ refuses : \A S \in SUBSET Node :
     Origin \in S /\ (\A p \in S : Peers(p) \ refuses \subseteq S) => n \in S}

Everywhere == Reachable \subseteq got

\* A node that holds somebody else's transaction has itself put it before
\* everybody it knows: the stem's relays keep nothing, and nobody who keeps
\* it leaves those behind him stranded.
HeldIsFlooded == kind = "tx" => got \ {Origin} \subseteq flooded

\* However the walk goes, and whatever it loses on its way: the item reaches
\* everybody it can, unless the walk dies after an echo was taken for success,
\* a datagram of the flood is lost, or a node has built on the block before
\* passing it on (from then on its child brings it, by a sync).
Delivered ==
  <>(Everywhere \/ gone \cap {"blind", "public"} # {}
       \/ \E n \in Node : place[n] = "past")

\* Items do not circulate: the flood of an item comes to an end, even if
\* the caches forget it now and then.
Quiet == <>[](mail = {})
=============================================================================
