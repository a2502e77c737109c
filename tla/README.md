# A TLA+ verification of lapsecoin

lapsecoin is a peer-to-peer currency whose blocks are earned by a verifiable
delay function (VDF) evaluated over the previous block's hash and the builder's
address. This directory holds TLA+ models of the node, the configurations that
model-check them with TLC, and proofs checked by TLAPS. The reference is the
code under `src/` (Python modules `src/src/*.py`, entry point `src/main.py`);
every definition names the code it stands for in its comment, and
`PROJECT.json` ("map") gives the lines.

## The system

One process is one node. Its parts, the state each keeps, its operations and
what would make it wrong:

| Component | State | Operations | What has to hold |
|---|---|---|---|
| Fork choice (`chainstate.py`, `block.py`) | none: a function of two chains | `is_better_than`, `_wins_tie_break`, `_fork_point`, `_check_parent` | two nodes comparing two chains agree; a node never trades down; the network ends on one chain, but for ties that nothing can break and rings |
| Chain store (`chainstate.py`, `state.py`, `storage.py`, `node.py`) | `Node.cs` (chain, balances, nonces, emission, dirty set), the state cache, `Node.view`, the SQLite tables | `_load_cs`, `_commit`, `apply_better_chain` with `_resume_point`, `_evaluate_remote_chain`, `_remember_state`, `_forget_states_from`; `save_block_and_state`, `replace_chain_and_state` | balances are the replay of the chain; the tables are whole at every instant; other threads read only what is stored |
| Node loop (`node.py`) | the cycle's alias `cs`, `net_in_q`, `accumulated_blocks`, the draw | `_run_cycle` (mining, waiting, paused), `_consider_inbound_block`, `_reorg_to_sibling`, `_pick_winner`, `_await_spacing`, `open_draw` | every block stands on its parent; what is published is current; a mining node gets on |
| Ledger (`state.py`, `tx.py`, `block.py`) | balances, nonces, minted total, board posts | `apply_tx`, `credit`, `debit`, `compute_reward`, `board_fee_floor`, `_apply_transactions`, `_apply_builder_reward` | ticks are conserved, nothing is paid twice |
| Mempool and assembly (`mempool.py`, `block.py`) | the pool in order of insertion, its byte count | `add` with eviction, `probe_state_for`, `prune_stale`, `remove_many`, `assemble`; the node's `_reorg_mempool`, `_salvage_fork_txs` | own blocks are valid; the pool keeps its limit and loses nothing without reason; what is pending is confirmed |
| Syncer (`syncer.py`, `node.py`) | partial tails by peer, the hint, the strikes of the pool | `check_and_sync`, `_fetch_and_apply`, `_find_fork_point`, `_sync_if_triggered` | a better chain is found and taken whatever is lost or cut short on the way; a peer is not blamed for that |
| Gossip (`gossip.py`, `node.py`) | the seen items, unconfirmed spreads | `spread`, `relay`, `force_fluff`, `_note_echo`, `_retry_unconfirmed_spreads` | an item that is originated reaches everybody it can, and its flood ends |
| API bridge (`node.py`, `api.py`) | `net_in_q`, a reply queue per request | `submit_tx_from_api` | the caller is told what happened |
| Transport (`peer_udp.py`) | half messages, sends waiting for acknowledgement, open requests, queue slots | `_broadcast`, `_send_chunked`, `_retransmit_until_acked`, `_Reassembler.feed`, `_PendingSync.feed`, `_handle_ack`, `_handle_getsync` | a message arrives whole and once; what is acknowledged is there; nothing is kept for ever |
| Peer pool, discovery (`peerpool.py`, `discovery*.py`, `upnp.py`) | peers with strikes and back-off | add, strike, evict, announce | a bounded pool stays useful |
| Swap engine, worker (`swap*.py`) | the `Increment` rows of each trade, deadlines by height | `advance`, `ensure_sent`, `_resend`, `_build_and_send`, `check_outbound`, `check_inbound`, `reconcile`; `is_delinquent` | neither side risks more than one step; no step is paid twice; finished means paid on both ledgers; two honest traders finish |
| Market (`market*.py`, `trade_storage.py`, parts of `swap_engine.py`) | orders, fill requests, answers, trades, each on every node's disk | ask, answer by the worker or by hand, store, open, expire, prune | an order and the maker's funds are given away once; nobody pays into a trade that is not there; who asks gets an answer |
| Trust (`trust.py`) | none: a score over stored trades | `score` | - |
| Stellar client (`xlm.py`) | none | `submit_envelope`, `find_payment`, `get_sequence` | an outage is not taken for a failure |
| VDF, cryptography, settings, pages, start-up | - | - | - |

How they interact: the transport's threads put messages into `net_in_q`; the
node loop is the only thread that changes the chain, the pool and the draw, and
publishes an immutable `NodeView` for the API's threads. The loop calls storage
synchronously. The syncer runs inside the loop and hands chains to
`apply_better_chain`. Gossip is called from the loop to pass on what was
accepted. The swap worker is a thread of its own that reads the view and writes
`trade_storage`. Only the VDF evaluation runs in a child process.

Hard behaviours: an evaluation of two minutes, during which the tip may move;
a draw among siblings of the tip that stays open while the next height is being
built; a state cache that outlives reorganisations; a process that can die
between memory and disk, and storage calls that raise; a pool that shrinks from
three sides while blocks are packed from it; a trade whose payments can be in
flight while the process that made them restarts, and whose questions to the
ledgers are answered one after another. `PROJECT.json` ("hazards") has the
list, each at its line.

## The modules

| Module | Models | Extends |
|---|---|---|
| `BlockTree` | blocks, parents, chains, proven work | |
| `ForkChoice` | the fork choice rule, as operators | `BlockTree` |
| `Network` | nodes that build on and copy each other's chains | `ForkChoice` |
| `Sync` | one of these nodes copying page by page | `Network` |
| `ChainStore` | one node's chain in memory and on disk | `ForkChoice` |
| `DurableChain` | abstract: what a node promises about its stored chain | |
| `DrawCycle` | one node's loop: cycles, draw, commit | `ForkChoice` |
| `Ledger` | transactions and rewards on balances, as operators | |
| `Producer` | pool, block assembly, reorganised transactions | `Ledger` |
| `Gossip` | one item on its way to every node | |
| `Link` | messages of several datagrams between two nodes | |
| `Fill` | an order, the requests for it, and the trades they become | |
| `SwapTrade` | two traders' engines over two ledgers | |
| `ForkChoiceProofs`, `ChainStoreProofs`, `SyncProofs`, `DrawCycleProofs`, `SwapTradeProofs`, `FillProofs` | theorems | the above, `TLAPS` |
| `TransactionProofs` | theorems about `Producer`, `Gossip` and `Link`, side by side | these three, `Numbers` |
| `Numbers` | lemmas on the least and greatest of a set of numbers, on sums over finite sets and on folds over sequences | `FiniteSetsExt`, `Sequences`, `TLAPS` |
| `MC...` | the instances TLC checks | one of the above |

### BlockTree, ForkChoice, Network

A block's hash commits to its ancestry, so a block is an element of a constant
set and its own hash; a chain is a sequence of blocks. Only blocks that pass
`block.validate` on their parent are in the set: one that does not changes
nothing. `Key` is `vdf_output` as an integer, `Iters` the proven iterations.
`ForkSearch` is `_fork_point`'s binary search as a recursive function of the
pair of its ends,
`WinsTieBreak` the majority of contested heights with the digest of the outputs
as the fallback, `BetterBy` is `is_better_than`; it takes the proven blocks
beside the chain because the code carries `cumulative_iterations` along instead
of adding it up.

`Network` has three actions: a node appends a block its evaluation earned
(`Build`), reads a peer's chain (`Fetch`, with `check_and_sync`'s test of work
and tip), and judges what it read against the chain it holds by then (`Adopt`,
`apply_better_chain`). Reading and judging are apart, so both chains may have
moved on. Its properties (`ExactlyOneWins`, `SearchFindsFork`, `NeverWorse`,
`Agreement`) are checked where one of the nodes is the one of `Sync`.

What may be taken for granted of the outputs is `KeyAssumption`. A VDF output
answers `vdf_challenge(previous_hash, builder)`, so blocks with one output have
one parent and one builder's address; `get_vdf_iterations` looks only at the
chain below, so siblings have taken as many iterations; and sha256 tells lists
of outputs apart. It does not say that siblings have different outputs: the
contents of a block are not in the challenge, "content stays swappable on top of
a valid proof" (`block.py:382`). Whoever signs for an address can publish two
valid blocks on one parent with one output, and two nodes with one wallet
(`Wallet`) do so without meaning to. `OneProof` is such a pair. For it
`is_better_than` is false both ways, whatever came below, and each node keeps
the one it has: "a genuine, unbreakable tie", as `tests/test_chainstate.py:218`
says and means it to be. `ExactlyOneWins` says that this pair is a tie and the only one.
The tie lasts until a height is added on one of the two.

`Agreement` is what this leaves of a network that comes to rest: once nobody
builds any more, all nodes have the same work, and the same chain up to tips on
one proof, unless chains that go round in a `Ring` are about for ever: three of
equal work, each better than the next. A majority of contested heights is not
transitive, so nothing in the code prevents a ring.

### Sync

`Sync` puts one node, `Me`, that copies as `syncer.py` does among nodes of
`Network`. `pass` is a pass under way with the locals of `check_and_sync`:
`Ask` (work and tip compared, `AskInVain` when there is no answer), `Probe`,
`Halve` and `Found` (the fork search, in a recent window first), then one page
after the other. What a page leads to is the code's own case analysis: it does
not fit (`Reject`), the chain with it is better and is taken (`Apply`), or it is
valid and not better yet (`Gather`). `Finish` is the end of the pages, `Pause`
the end of the pass budget or of `SYNC_PAGES_PER_PASS`: the tail is saved for
the next pass if it keeps to both limits, pinned to the block it stands on
(`anchor`), and `FetchFrom` takes it up again. A request and its answer are one
step, because the loop is blocked in between; the peer may move between two of
them, `Me` may move between two passes (`Hear`, `Win`). Faults are a request
without answer, a budget that runs out, and a disk that refuses a chain.
`Return` is what `_sync_if_triggered` makes of the outcome: the hint, and the
strike.

`FairlyStruck` speaks of peers that did not move while they were asked
(`pass.calm`, a history of the pass) and of steps that are no faults.

### ChainStore and DurableChain

The ledger is one row per address. A block commits to everything before it, so
the last block of the chain that touched an address stands for what the row
holds; comparing rows is then comparing balances and nonces. The set of blocks
whose reward was paid stands for the emission. `pc` marks every place where the
process may die or an exception may leave the function: `CommitInMemory`,
`Save`, `Publish` are `_commit`; `Evaluate`, `ApplyNext`, `Judge`, `Replace`,
`Swap` are `apply_better_chain` with one step per replayed block; `StartFresh`,
`StartFromState`, `StartReplay`, `Loaded` are `_load_cs`. A storage call is one
step, because it runs in one SQLite transaction. `SaveFailsWriting` is a save
that raises while it writes; `WriteFailSpec` adds it to the next-state relation,
and only the run `store_hole` uses it.
That `mark_persisted` runs before COMMIT, so that a failing COMMIT loses the
dirty set, is not in the model (see the hazard at `storage.py:356`).

`DurableChain` says what all this is for: the stored chain is created as the
genesis block, extended by one valid block, or exchanged in one piece for a
better valid chain. `ChainStore` implements it with
`durable <- LoadedChain(disk)`: crashes, restarts and failed replacements are
stuttering steps.

### DrawCycle

Both chains of the loop are variables: `chain` is `self.cs.chain`, `base` the
alias a cycle takes at its top. A cycle is paused, waiting (measured odds of
zero) or building. Each loop is split where another message can slip in:
`Poll`, `WaitPoll` and `SpacingPoll` are one round of their loops (drain, take
siblings, consider candidates, sync), `BuildDone`, `SpacingEnd`, `Final` the
three points of a finished evaluation, `Abandoned` the cancelled one. Which way
a cycle goes and when a wait ends is nondeterministic, because both depend on
measured times. `Deliver` is the peers: any block whose ancestry they can know.
`paced`, chosen once, restricts the peers to a network in which the draw for a
height is over before the height has a child (draw windows much shorter than an
evaluation); the constant `Pacings` says which worlds a run looks at. The
passing run looks at both: `LinkedIfPaced` and `DrawTakesBest` claim something
of the paced ones only, `PublishedOnTip` and `Progress` of both.

### Ledger and Producer

`Ledger` has the rules of a transaction (`ValidTx`), of a list of them with the
board fee frozen beforehand (`ApplyTxs`), and of the reward with the fees
(`PayBuilder`), as operators on a record. `Producer` keeps the ledger below the
last blocks, those blocks, and the pool in the order of insertion. Its actions:
`Submit` (probe with the sender's pending transactions, validate, `add` with
eviction), `StartCycle` (`prune_stale`), `Produce` (assemble, validate, commit
or drop), `PeerBlock`, `Reorganise` (`_reorg_mempool`) and `RejectFork`
(`_salvage_fork_txs`). `assemble` is modelled in full: the floor for board
posts, groups by sender in the order of nonces, groups by the fee rate of their
lead, packing up to the first that does not fit. Sizes are numbers: what a
transaction is priced by, what its signature adds in a block, what the proof
adds to the finished block.

`calm`, chosen once, is a world in which nothing expires and no branch comes up;
`Wallets` gives the transactions that are made in either world. Blocks that are
valid, probes that do not raise and the confirmation of what is pending are
claimed of calm worlds, conservation, replay, the limit and the reasons for
which the pool loses something of all.

What a calm world is besides, `CalmAssumption` says of its transactions: they
have room in the pool together, no sender has two of one nonce, none is a board
post, and none of them fill a block so far that its proof does not fit in. The
code ensures none of these, and each is needed. An eviction takes a
transaction from among its sender's, and the block is built across the gap; a
board post the floor has overtaken is left out of it, and leaves the same gap; a
block that confirms the other transaction of the same nonce takes the money
while the pending one still counts; and `assemble` measures a block without
`vdf_output`, `vdf_proof` and `tx_bytes`, `validate` with them. With any one of the four
dropped there are instances of the size of the run on which TLC finds
`OwnBlockValid` or `ProbesPass` violated.

### Gossip

One item on its way: a transaction, a block, or a market message (orders, fill
requests and fill responses are handled alike). `Originate` stems it to a peer
or floods it; `Receive` is `_handle_inbound_tx`, `_handle_inbound_order` and its
twins, or `_handle_inbound_block`, each with its own order of looking at the
item, noting the echo and relaying. `cache` is a node's cache of what it flooded,
`got` who keeps the item, `waiting` the entry in `_unconfirmed_spreads` that
`NoteEcho` clears and `Retry` turns into `force_fluff`. Losses of datagrams,
evictions from a cache and blocks that are built upon before they are relayed
(`Overtake`) are bounded together by `MaxLapses`. The coin of the walk is
nondeterministic.

### Link

One node sends, one receives and asks; a message's payload has one, two or three
datagrams. `Broadcast` and `Work` are `_broadcast` and its fan-out thread,
`SendChunked` and `Resend` the first send and the rounds of
`_retransmit_until_acked`, which is a waiter of its own in `waits`. On the other
side `TakePushed` is `_Reassembler.feed` with the acknowledgement and the lookup
of the `msg_id`, `TakeAnswer` is `_PendingSync.feed`; `TakeRequest`,
`TakePing`, `TakePong` and `ConfirmFails` are the confirmation that an asker is
where it says before it is served. The network is a set of datagrams, so they
overtake one another; one may be lost or delivered twice. A resent chunk is
another datagram (`try`). Each names how many chunks there are (`of`), and a
waiter resends with the number of its own send, whatever record it finds
(`peer_udp.py:1994`). A request that arrives twice may be served with two
answers of different length; `TakeAnswer` goes by the number in the datagram and
keeps indices, so it does not tell the chunks of the two answers apart, and
`AckedIsThere` says of them that some chunk with the index is there. Time is left out: a wait may end at any moment, but
`Evict` happens only when nothing more of a message can come.

### Fill

The tables `Order`, `FillRequest`, `FillResponse` and `Trade` of a maker and its
takers. `Ask` and `HearAsk` are a request on its way; on the maker's side two
threads answer, the swap worker and a person's click, and `Look` ...
`Publish` are the stations of `_answer_one` and `_answer_one_locked` between
which the other thread, a message or the death of the process can come:
the unlocked questions, the lock and the verdict, `Trade.create`, the rows of
the increments, `store_fill_response`, the message. `HearAnswer` and `TakerOpen`
are the taker's half. `Remaining` with `Delivered` and `Reserved` is what a node
takes for the rest of an order. Of a running trade only what is paid matters
here (`Pay`, `Complete`); `SwapTrade` has its steps. `Expire`, `Prune`, `Age`
and `Crash` are what time and failure do, bounded by `MaxFaults`. Which threads
answer (`deciders`) and which requests the worker leaves to a person (`doubted`)
is chosen once.

### SwapTrade

The seller's engine sends LAPSE and the buyer's XLM. A payment is a step and a
sequence number; step 0 is any other spending of the same wallet. The LAPSE
chain keeps a depth with each payment and may take back `MaxReorg` blocks,
fewer than `Depth`, the required confirmations; Stellar is final. `pool` is the
seller's own mempool, `gossiped` what his peers can still mine after he has
restarted or evicted it; `flying` is what Horizon received without answering.
Both traders' nodes follow one chain: a reorganisation is seen by both at once.

A pass of the worker is split where the world can move between a question and
the use of its answer: `Begin` (`advance`, the looks before `ensure_sent`),
`Find`, `Resend`, `Consumed` (`sequence_consumed`), `Build` (signed and written
down), `Send`, `Finish` (the looks after it). `Abort` is the exception that ends
a pass, `Crash` and `Restart` the loss of the process and `reconcile`, in which
Stellar may be silent for any set of steps. `rogue` is a trader that publishes
what it likes; nothing is claimed of it.

A row keeps what decisions look at: the state of the own leg, the sequence
number in the stored envelope, the last payment recorded, the peer's payment
that settled. `OutSeq` is what is stored as `out_seq`: the nonce for LAPSE, but
for XLM the account's sequence before the envelope, which is one less than the
envelope's own. An XLM number is read from the account; what
`SequenceAllocator` remembers is left out (a stale number is refused and read
again after `forget_sequence`).

`calm` says whether two disturbances are left out (`Undisturbed`): the LAPSE
chain moving while the seller's worker is in `Find` or between it and `Build`
(in `Find` that is a block which has emptied the pool and is not in the view
yet, `node.py:1305`, one of the faults), and a
reorganisation that takes back a foreign spending whose nonce killed a payment
of the trade. With them the seller can pay a step twice (run `swap_twice`), so
`PaidOnceIfCalm` claims his half in calm worlds only. The buyer's half, the
exposure bound and `DoneIsDone` hold in both.

## The runs

Passing:

| Run | Question | Bounds |
|---|---|---|
| `store_crash` | Is everything consistent through commits, reorganisations and crashes, and is `DurableChain` implemented? | four branches, chains of four blocks, three addresses, a cache of two, two crashes |
| `cycle` | Does every block stand on its parent, does the draw take the best sibling, is what we publish a child of our tip, and does a mining node get on whatever peers do? | three builders, two heights, a queue of two, all three ways of a cycle, paced networks and others |
| `producer` | Are ticks conserved, nothing replayed, the pool bounded, nothing lost; in calm worlds, are own blocks valid, does no probe raise, is everything confirmed? | calm: three transactions that compete for one block; else: two spendings of one nonce, a board post, expiry, eviction, branches taken and rejected one block deep |
| `swap_steps` | Is nobody honest ahead by more than a step, is nothing paid twice, does finished mean paid, do two honest traders finish? | two steps, either opener, any trader rogue or none, calm worlds and others, depth two, one block taken back, two faults, one foreign spending |
| `gossip` | Does an item reach everybody it can whatever the walk does, does who keeps a transaction pass it on, does the flood end? | four nodes in a line or a triangle with a tail, three kinds, a neighbour that refuses or none, one fault |
| `fill` | Does the maker promise no more than it has, is no taker alone in a trade, is a request answered? | two takers, each of whom wants all of one order, funds for one of them, any set of deciders, one fault |
| `sync` | Does exactly one of two chains win, does nobody trade down, does a resumed tail fit, is nobody struck for being slow, do all end on one chain, but for two blocks on one proof? | three builders, two of them with one wallet; branches of three blocks and of two that tie, the second block of the longer one twice on one proof; pages of one block, one page to a pass, tails of two, one fault |
| `link` | Is what is acked there, is a broadcast handed up once and does it get through, is everything given back? | two broadcasts, or a request with an answer of two or three datagrams; two rounds, one slot, room for two, one fault |

The bounds are chosen by what can go wrong, not by size: a cache of two entries
with chains of four blocks has entries at, below and above a fork and one that
was evicted; a branch that weighs more with fewer blocks shrinks the chain; two
crashes allow one in the recovery from the other; a queue of two has a sibling
and a child of the tip in one drain; two steps let each trader move first once,
and the bound on exposure speaks of the step before; a depth of two with
reorganisations of one is the code's own floor (`MIN_CONFIRM_DEPTH`); pages of
one block with one page to a pass cut every sync in pieces, and a tail of two on
a chain of four can outlive the block it stands on; a triangle lets a walk meet
itself and a tail has a single way in; two rounds with one loss are lost only by
losing more than the code provides for; an order that two takers want whole is
the smallest that can be sold twice.

The tree of `sync` has no ring, so what it shows of `Agreement` is that the
nodes come to rest on one chain, or apart on the two blocks on one proof (which
happens: without that exception TLC refutes both `Agreement` and
`ExactlyOneWins` on it). The smallest ring takes three branches of two blocks
each, of one work; with those, or with a pair on one proof in the middle of the
contested heights, `Sync` has more than a million states and its liveness is out
of reach. That `Agreement` is false without the exception for rings was seen on
such a tree; it is not a run.

Runs that find the code at odds with what its documents say (`findings`):

| Run | What it shows |
|---|---|
| `store_hole` | `save_block_and_state` raises once after `self.cs` moved; the block is missing from the table, the next delta save includes its balances; after a restart chain and state disagree. |
| `cycle_splice` | In the waiting loop a drain can take a better sibling of the tip and bring a child of the old tip; `_settle` does not compare `self.cs` with `cs`, and the child is appended to the sibling. |
| `swap_twice` | The seller's stored payment is gone from his pool, a peer mines it between `find_payment` and `sequence_consumed`; its nonce is then spent, by itself, and a second payment of the step is built. |
| `fill_oversold` | The maker accepts a request and has its `Trade` row: `reserved_ticks` leaves that session out, `delivered_ticks` counts only what both have paid. The next request for the same ticks is accepted too, one after the other under the lock. |

More disagreements of the code with its own words were met while reading. They
have no run, and the properties state what is left to be true:

- Fork choice and store: the majority of contested heights is not transitive,
  so three branches of equal work may beat one another in a ring;
  `mark_persisted` runs before COMMIT (`storage.py:356`).
- Producer: after a reorganisation the pool keeps transactions whose money was
  taken back, and every own block contains them (`node.py:2326`, against 2329);
  `assemble` fills a block without counting the proof that validation counts; a
  board post dropped for its fee, or the first of two pending transactions
  evicted or expired, leaves a nonce gap behind it.
- Gossip: the originator of a transaction refuses its own public copy for its
  nonce before it reaches `_note_echo`, so each transaction is flooded a second
  time (`node.py:1398`, against `gossip.py:43`); a walk that comes home by
  another peer counts as the echo; the forced flood happens once, and if it is
  lost nothing notices.
- Sync: a pass whose budget runs out inside a request reads like a silence
  (`syncer.py:457`); the peer a chain was just taken from is the next hint, and
  when it is asked again and has nothing more it is struck (`node.py:1534`,
  1558); tails of peers that went away are never released and count against the
  total; `tail_so_far += page` extends the saved list itself (`syncer.py:495`).
- Fill: with the worker and a person at once a request can get both answers
  (`swap_engine.py:1139`); a trade whose increments are not written yet looks
  finished to a pass of the worker and is completed unpaid (1337); an answer
  cut off by a crash leaves the maker with a trade nobody knows of (1356); a
  stored acceptance counts itself against the limit when it is verified again
  (`market.py:1654`).
- Swap: a step found settled by `reconcile`, or completed just before a crash,
  gives the next step no deadline (`swap_engine.py:905`); `advance` passes over
  settled steps, so `_unpropagate_deadline` is reached from `reconcile` only.
- Link: the receiver admits 50 datagrams a second and the sender sends 200
  (`peer_udp.py:434`, 464), so the largest block is short of chunks after all
  its resends without any loss; half messages are dropped only when the socket
  has been silent (1448), which a busy node's never is; a request that arrives
  twice is served twice under one `msg_id`, and if the chain moved in between
  the two answers are mixed (932).

All the configurations switch the deadlock check off, because each model really
stops: the block trees are finite, and so is the supply of transactions; a
trade that is finished stops.

Each property of a passing run has a mutant: an alternative definition of one
operator or action, kept right before the one it replaces, that is a plausible
slip of that code and breaks the property.

## Fairness

- `Sync!FairSyncSpec`: a pass that has begun goes on (weak fairness: the loop
  runs for ever, `Node.start`), and each peer is asked some time when it can be
  (strong fairness: one probe per block interval goes to a peer drawn at
  random). The other nodes read one another and `Me` likewise (strong fairness
  of `Fetch` for each pair), and judge what they have read (weak fairness of
  `Adopt`). Nobody has to build.
- `DrawCycle!FairSpec`: the loop's own steps that end by a deadline, by the
  evaluation finishing, or by the clock. No message has to arrive, no evaluation
  has to be abandoned for a contested height; mining is not paused for ever
  (strong fairness of `StartCycle` in one of its other ways).
- `Producer!Winning`: the node finishes an evaluation again and again. That is
  an assumption about the race, not about the code; without it nothing obliges
  anybody to confirm a transaction.
- `SwapTrade!FairSpec`: the worker keeps making passes (the thread's loop has a
  backstop timeout and restarts after a crash), peers mine what they have and go
  on mining, Stellar decides what it has got. `Completion` is claimed for calm
  worlds, two honest traders and wallets that spend on nothing else: a foreign
  spending that the pool loses leaves a nonce gap that nothing fills.
- `FairGossip`: what is not lost arrives (weak), the walk's coin comes up
  sooner or later (strong: it is tossed at every hop), and the loop looks at
  the echo deadlines in every round (weak).
- `Fill!FairSpec`: as long as a message, an answer under way, or a pass of a
  worker can go on, one of them does.
- `Link!FairSpec`: the threads of the pools run, waits have time limits, the
  network brings what it does not lose, and the socket falls silent some time
  (which the last part of `Released`, that no half message stays, rests on: it
  comes because the traffic of the model ends, and need not on a busy node).

## What is proved

`ForkChoiceProofs` proves the fork choice rule for every block tree. The binary
search finds what the linear scan finds (`SearchIsFork`), because hashes commit
to ancestry: two chains agree up to the fork and nowhere after it, so a probe
tells on which side the fork is. Of two chains at most one beats the other
(`AtMostOneWins`): a majority of contested heights cannot go both ways, and
neither can an order on numbers. One does if their tips differ and are not two
blocks on one proof (`AtLeastOneWins`), and if they are, none does
(`OneProofIsTie`). What these need is that blocks with one output have one
parent, that siblings take as many iterations and that digests tell lists of
outputs apart. These are the parts of `KeyAssumption` (above) that come from the
challenge, from `get_vdf_iterations` and from sha256; that siblings have
different outputs is not among them. The argument of `AtLeastOneWins`: chains of
equal work part in two siblings. If these have different outputs the lists of
outputs differ. Otherwise they are two blocks on one proof, and not both of them
tips; nor is one of them, because the other chain would have more work
(`SiblingGrows`). So both chains go on, the next blocks have different parents,
and therefore different outputs (`AfterOneProof`). Different lists have
different digests, and one of two numbers is less.

`SyncProofs` proves, for any builders, wallets, peers, page sizes, limits and faults,
that `SyncSpec` implies `[]TypeOK`, `[]SearchFindsFork`, `[]ExactlyOneWins`,
`NeverWorse` (an action property) and `[]TailFits`.

The argument. That chains are in good order is inductive only with what a pass
knows in between, because a page is appended where the pass believes its fork
to be. So the invariant (`PassInv`) says that a bisection stays within the chain
held, and that one which has found nothing after going back to the genesis
block still has it before it (`Searched`); that a pass reads on from a block of
the chain held, with blocks that follow one another and lead as far as it
counts (`Landing`); and the same of a tail left for the next pass, from the
block it is pinned to (`Left`). The fork found by an interleaved search may be
too low or too high, since the peer moves between two probes; the argument does
not need it to be right, which is why every page is checked against its parent.
`NeverWorse` then follows from the steps: a chain is exchanged by `Adopt` and
`Apply`, both after the comparison with the chain held by then, and appended to
by the others, which makes it better.

`ChainStoreProofs` proves, for every block tree, ledger, cache size and number
of crashes that meet the named assumptions, that `Spec` implies `[]TypeOK`,
`[]StateIsReplay`, `[]CacheIsPrefix`, `[]DirtyCovers`, `[]DiskWhole`,
`[]ViewDurable`, and that it implements `DurableChain` (`Implements`).

The argument. None of the safety properties is inductive alone: that the state
is the replay after a reorganisation needs the cached state to be right, which
needs the cache to be purged at the right height, which needs the chain in
memory to share its prefix with the candidate. `IInv` therefore adds to the
properties what holds of the candidate at each `pc` (it is a chain in good
order with its own ledger, and the rest of its blocks continue it; while it is
being stored it is better than the chain held), that memory, cache and view are
chains in good order, and how the tables relate to memory at each `pc`.
`IInvIsInvariant` shows it inductive, one lemma per action; the others follow
from it. The implementation proof maps `StartFresh` to `Create`, `Save` to
`Extend`, `Replace` to `Switch` and every other step to a stutter.

The lemmas it rests on are about the operators: appending a block that extends
a chain gives a chain (`BlockTree`), the ledger of an appended block, the
prefix that two chains share up to the fork point
(`ForkChoiceProofs!ForkPointProperties`, `SharedPrefix`), and what a table
holds after a save or a replacement. The assumptions are `BlockAssumption` and
`StoreAssumption`: heights and keys are numbers, every block but genesis
touches at least one address (its builder), genesis touches none, and the
markers for empty places are not blocks.

`DrawCycleProofs` proves, for any blocks, builders, ways of a cycle, pacings and
lengths of the queue, that `Spec` implies `[]TypeOK`, `[]LinkedIfPaced` and
`PublishedOnTip` (an action property).

The argument. In any network the heights of a chain count up (`Levels`), for
`_commit` puts the winner on a chain that is as long as the one its candidates
were judged against, and what a cycle has collected extends its alias
(`InCycle`). Therefore our own block, made when alias and chain are the same,
extends the tip. Whether a block also stands on its parent is decided by the
last drain: it may take a better sibling of the tip and return a child of the
old tip. In a paced network these exclude each other. `InPace` says that no
child of the tip is queued while the draw for the tip's height is open, and that
an evaluation that has finished finds it closed; with the draw closed a drain
leaves the chain alone (`DrainFacts`). A drain is a fold over the queue; that
the fold has a value, and what holds of it, is proved by looking at the smallest
part of the queue for which it fails. `CycleAssumption` says among the rest that
we can build on every block below the bound. Without pacing the type of the
alias is a sequence of blocks, not a chain: a splice (run `cycle_splice`) makes
a chain that is none, and the cycles after it go on from there.

`SwapTradeProofs` proves for every number of steps, required depth, bound on
faults and reorganisations below that depth, every opener and every rogue
counterparty, that `Spec` implies `[]TypeOK`, `[]DoneIsDone`, `[]Exposure`,
`[]PaidOnceIfCalm` and `[]RowKnows`.

The argument. Call a payment final when it is deep enough, or on Stellar; no
step takes a final payment back (`FinalStays`: depths only grow, and a
reorganisation takes less than `Depth`). A row that says settled names final
payments (`SettledIsFinal`). A worker between `Find` and `Finish` stands on the
first step that is not settled and was allowed to send on it, and the ledgers'
steps do not touch rows (`BusyOnStep`). So when a payment of step n leaves, all
steps below it are settled in the sender's rows, and step n itself has been
received unless he moves first; this is `ExposureFinal`, which is `Exposure`
with final payments in the place of payments on a ledger, and which nothing can
undo. `ChainGossiped`, what of an honest seller is on the chain he published, is
needed because a block or a reorganisation must not add to what he has sent.
`IInv` is the conjunction; one lemma per action shows it inductive. The model
takes `Min` and `Max` of sets from the community modules, whose `CHOOSE` needs a
witness: `Numbers` gets it from the well-foundedness of < on the naturals.

`PaidOnceIfCalm` and `RowKnows` rest on `OnceInv`, which adds two things.
`LedgersInOrder`: a ledger takes a trader's sequence numbers in order, without
gaps and each once; on the chain the older payment is the deeper one, so a
reorganisation takes back the newest; what waits in an honest seller's pool is
still ahead of the chain, and what Horizon dropped is not on its way. `Written`,
for every trader the code keeps from paying twice (the buyer, and the seller in
a calm world): his row names each of his payments that a ledger has or may still
take (`HashNames`), the stored envelope is the transaction it names
(`EnvIsHash`), one is recorded only when every step below is settled, by another
one (`StepByStep`), and what the worker concluded from its last question still
holds at its next station (`Asked`). A second payment of a step would need an
empty envelope while the first one is alive, and that is what these exclude
together. `Asked` is where the seller needs calm: between `Find` and `Build` a
block may include the payment that was just not found.

`FillProofs` proves for any takers, orders and requests, any limits, deciders
and number of faults, that `Spec` implies `[]TypeOK`, `[]NobodyAlone`,
`[]Funded` and `[]AnsweredOnceAlone`.

The argument. A taker opens a trade only for an acceptance on its disk. The
inductive invariant says that an acceptance, wherever it is, has the maker's
trade behind it: on any node's disk, in a message under way, and in a thread
that is past `Open` and about to store or publish it; trades are never deleted.
A thread that is about to store an acceptance can only have come there by
`Open` and `FillIn`.

`Funded` says that what the maker owes in running trades (`Owed`) is never more
than what it still holds (`Balance`), though questions and trades of two threads
interleave. `FundInv` adds that no trade is paid beyond its amount, and that a
thread between the question and `Trade.create` holds `_ACCEPT_LOCK` while what
it is about to promise fits on top of what is owed; only that thread can add to
what is owed, and every payment lowers both sides alike. Both are sums over
sets of requests, which are finite (`FiniteAssumption`). `AnsweredOnceAlone`
follows from `AnswerInv`: as long as one thread answers and nothing has crashed
or grown old, an answer under way or on a taker's disk is the one on the maker's
disk, and a thread that works on a request has none stored yet.

`Numbers` has what these proofs need of numbers. What is said there of the sum
over any finite set is proved without induction over sets: of the subsets for
which it fails one is smallest, and it holds of that one with an element less.
In the same way a fold over a sequence (`FoldLeft`) is shown to be a run: a
function on the places of the sequence that starts with the base and goes on by
the operator, as long as the operator stays in a set (`FoldRuns`).

`TransactionProofs` proves, for any addresses, transactions, fees, sizes,
builders and bounds, that `ProducerSpec` implies `[]Conserved`, `[]NoReplay`,
`[]PoolBounded`, `LeavesForReason`, `[]OwnBlockValid`, `[]ProbesPass` and
`[]ProducerTypeOK`.

The argument. The first two speak of the ledger at the tip, and neither is
inductive:
a reorganisation judges its branch by a ledger further down, and a block that is
pushed out of reach turns into a part of `base`. `ChainInv` says that the
recent blocks are valid one after the other from a sound base (`ValidFrom`);
sound is a ledger that is typed, whose balances add up to what was minted
(`MapThenSumSet` over `Addr`), and that has confirmed, of every address, the
nonces 1 to n once each (`InOrder`). So every ledger on the way is sound
(`ValidSound`), and the steps only have to keep the chain valid: one more block
(`ValidLonger`), the first blocks of it (`ValidShorter`), all but the oldest
(`ValidLater`). A valid block keeps a ledger sound although within it the sum is
short: senders pay their fees at once, the builder gets them at the end, so
after some of its transactions what is missing is the sum of their fees
(`TxsKeep`), and `PayBuilder` puts it back with the reward. The reward stays
below the cap because `DecayNumerator <= DecayDenominator` (`RewardBound`).
`LedgerAssumption` says further that the addresses are finitely many, that
nobody pays himself, which `tx.py` refuses, and that a transaction moves
something. What is in the pool does not matter to this: a block is validated
whoever assembled it.

For `PoolBounded` the bytes of a pool are a sum over the set of its
transactions (`BytesSum`), which needs that none is in it twice; so `Lines`,
sequences without repetition, is a part of the invariant `PoolInv`, beside
`ChainInv`, which says that what is taken back from blocks are transactions.
Sorting a line gives a line of the same transactions (`SortKeeps`), therefore
what `add` counts as freed is what the evicted weigh (`TakingSum`), and the pool
without them, with the new one, is within the limit (`AddKeeps`): what is freed
is at least what is missing, or nothing is changed.

`LeavesForReason` speaks of a step, but a reorganisation takes many transactions
back in one, each of them evicting others and later, possibly, evicted itself.
What every single addition keeps, and so a run of them, is `Outbid(P, Q)`:
whatever of the first pool `P` is not in `Q` has been outbid by something in `Q`
that was not in `P` (`OutbidStep`). It is kept because rates are strictly
ordered (`RatesInOrder`): if the one that outbid is evicted in its turn, what
evicts it outbids both. The other reason for which a transaction leaves, its
block, is in the ledger with all its transactions (`BlockSpends`, `GrowSpends`),
also when the block lies on a branch that has just been adopted.

`OwnBlockValid` and `ProbesPass` are of calm worlds, and so is their invariant:
what is in the pool is `Due`. Of every address the pool holds the nonces that
come next, without a gap, and the balance pays for all of them together. A
transaction that passes validation behind the probe extends this (`DueMore`;
room in the pool means that nothing is evicted for it, `AddCalm`), a block takes
from the front of it whatever it confirms (`DueTxs`, `DueBlock`; here two of one
nonce would break it), and nothing that is due is stale. `ProbesPass` is then a
sum (`PendingCostSum`). For `OwnBlockValid` the folds of `assemble` are taken one
by one: `by_sender` names every sender once (`SendersOnce`), so the queues share
nothing (`GroupsApart`), in whatever order their leads put them; each is in the
order of its nonces (`StillRising`: the sort inserts behind the last that is not
larger); a queue is packed from its front, so what comes next is the least of
what its sender has left, and valid (`NextValid`). What is packed is of the size
it is taken for, a sum over a set, and valid one by one (`Fits`: `LoadFits`,
`QueueFits`, `QueuesFit`).

It proves further, for any peerings, refusals, faults and bounds, that
`GossipSpec` implies `[]GossipTypeOK` and `[]HeldIsFlooded`; their conjunction is
inductive. A node puts another's transaction in its pool in the step that fluffs
it, and no step takes back that it has flooded it. (`Producer`,
`Gossip` and `Link` have no name in common, so that one module can extend all
three.)

For any messages, payloads, rounds, limits and faults it proves that the `Spec`
of `Link` implies `[]HandedOnce` and `[]AckedIsThere`. The first is the count
itself: a message has been handed up once if its `msg_id` is noted and never
otherwise (`Once`). The second needs three more facts. An acknowledgement under
way must be true (`AcksTrue`), or it could spoil the record when it comes. A
half message is thrown away only when nobody waits for its acknowledgements,
and a record without a waiter would then claim chunks that are gone; `Waited`
says there is none. And a request that has not been made has left no trace
(`Fresh`), so that making it does not empty what somebody was told is there.
`Shape` is the part of the types these steps need. The assumption is
`LinkAssumption`: every payload has at least one chunk, the markers for empty
places are neither payloads nor sets of chunks.

## Only model-checked

Liveness (`Agreement`, `Progress`, `Confirms`, `Completion`, `Delivered`,
`Quiet`, `Heard`, `GetsThrough`, `Released`), which the prover does not reach.

`FairlyStruck` of `Sync`: that a peer at rest is not struck without reason needs
the rule to be transitive along the pages that are read, and a majority of
heights is not; it holds on the instances checked.

`DrawTakesBest` of `DrawCycle` is not true for all constants, for the same
reason: it holds where no three siblings beat one another in a ring.

The full types of `Link`.

## Not modelled

- The difficulty rule, timestamps and race odds, VDF proofs, signatures and
  serialisation, except where a size decides: arithmetic and number theory. A
  block is valid or not.
- The index tables of the storage, which only answer queries; the log of
  reorganisations that the pages show.
- Of the transport: hole punching, introductions, LAN discovery, UPnP and the
  DHT, which are I/O with routers and services; the clock of the rate limiter
  and the minutes of its caches, which are quantities of time.
- Of the pool: back-off times and its bound.
- Of the market: prices, signatures, replacing and cancelling an order, reading
  the book of others. Of swaps: amounts and the schedule (a payment is one that
  meets the agreed terms), deadlines and blame, the checking of others' trades,
  several trades on one wallet.
- Trust, a score computed from rows; pages and forms, which only read; settings,
  start-up and the host's environment.

The components marked `not_modelled` or `partly` in `PROJECT.json` have their
reason there.

## Plan

What is left, in order:

1. An abstract specification of a swap, an exchange in instalments that exposes
   either side by one step, implemented by `SwapTrade`; one of a lossy exactly
   once channel, implemented by `Link`.
2. Deadlines and blame (`deadline_height`, `_propagate_deadline`,
   `_unpropagate_deadline`, `is_delinquent`) over the rows of `SwapTrade`.
