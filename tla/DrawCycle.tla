----------------------------- MODULE DrawCycle -----------------------------
(***************************************************************************)
(* One node's loop (Node._run_cycle and what it calls, src/src/node.py):   *)
(* building on the tip, collecting the candidates of peers, the draw among *)
(* siblings of the tip, and the commit that ends a cycle.                  *)
(*                                                                         *)
(* The loop works on two chains: self.cs, which a sync or a sibling may    *)
(* exchange in the middle of a cycle, and cs, the alias the cycle took     *)
(* when it began.  Blocks that fail validation change nothing and are left *)
(* out; ChainStore has the steps inside a commit and a reorganisation.     *)
(***************************************************************************)
EXTENDS ForkChoice, SequencesExt

CONSTANTS Node, Me,
          Builder,   \* Builder[b]: the node whose evaluation b is
          Modes,     \* ways a cycle can go: "paused", "wait", "build"
          Pacings,   \* whether networks are paced: TRUE, FALSE or both
          MaxQueue   \* bound on the inbound queue

ASSUME CycleAssumption ==
  /\ Me \in Node /\ Builder \in [Block \ {Genesis} -> Node]
  /\ Modes \subseteq {"paused", "wait", "build"}
  /\ Pacings \subseteq BOOLEAN /\ MaxQueue \in Nat
  \* Me can build on every block below the bound.
  /\ \A b \in Block : Height[b] < MaxChain - 1 =>
       \E d \in Block \ {Genesis} :
         Builder[d] = Me /\ Parent[d] = b /\ Height[d] = Height[b] + 1

VARIABLES
  pc,        \* the loop the cycle is in
  chain,     \* self.cs.chain
  base,      \* cs.chain, the alias of the cycle; NoChain between cycles
  queue,     \* net_in_q, the inbound blocks
  entrants,  \* accumulated_blocks: validated candidates for the height
  draw,      \* _draw_height, and whether _draw_closes is still ahead
  spread,    \* our own blocks that were handed to gossip
  paced      \* TRUE: a draw is over before its height has a child

vars == <<pc, chain, base, queue, entrants, draw, spread, paced>>

NoChain == << >>

TypeOK ==
  /\ pc \in {"cycle", "paused", "wait", "build", "spacing", "final"}
  /\ chain \in Seq(Block)
  /\ base \in Seq(Block)
  /\ queue \in Seq(Block) /\ Len(queue) <= MaxQueue
  /\ entrants \subseteq Block
  /\ draw \in [height : 0..(MaxChain - 1), open : BOOLEAN]
  /\ spread \subseteq Block
  /\ paced \in Pacings

Init ==
  /\ pc = "cycle"
  /\ chain = <<Genesis>> /\ base = NoChain
  /\ queue = << >> /\ entrants = {}
  /\ draw = [height |-> 0, open |-> FALSE]
  /\ spread = {}
  /\ paced \in Pacings

-----------------------------------------------------------------------------
(* What the loop calls *)

\* open_draw: a window that is still running is left alone.
OpenDraw(h) ==
  IF draw.height = h /\ draw.open THEN draw ELSE [height |-> h, open |-> TRUE]

\* IsBetter, tabulated for the chains that are in order.
Better == [c \in Chains |-> {d \in Chains : IsBetter(d, c)}]
Beats(d, c) == IF c \in DOMAIN Better THEN d \in Better[c] ELSE IsBetter(d, c)

\* Mutant of TakesSibling: the draw looked at is the one for the next height.
TakesSiblingNextDraw(c, b) ==
  /\ draw.open /\ draw.height = Height[b] + 1
  /\ Len(c) > 1 /\ Height[b] = Len(c) - 1 /\ Parent[b] = c[Len(c) - 1]
  /\ b # Tip(c)
  /\ Key[b] < Key[Tip(c)]
  /\ Beats(Append(Front(c), b), c)

\* _reorg_to_sibling, with apply_better_chain's judgement.
TakesSibling(c, b) ==
  /\ draw.open /\ draw.height = Height[b]
  /\ Len(c) > 1 /\ Height[b] = Len(c) - 1 /\ Parent[b] = c[Len(c) - 1]
  /\ b # Tip(c)
  /\ Key[b] < Key[Tip(c)]
  /\ Beats(Append(Front(c), b), c)

\* _handle_inbound_block: the chain a block leaves behind.
Handled(c, b) == IF TakesSibling(c, b) THEN Append(Front(c), b) ELSE c

\* _drain_queue: every message is handled against the chain it finds.
Drained == FoldLeft(Handled, chain, queue)

\* _validate_candidate on what the drain returned: judged against the alias.
Candidates(c) == {b \in ToSet(queue) : Extends(b, c)}

\* _consider_inbound_block on each of them.
Consider(c) ==
  /\ entrants' = entrants \cup Candidates(c)
  /\ draw' = IF Candidates(c) # {} THEN OpenDraw(Len(c)) ELSE draw

\* What a peer can know: of our own blocks only those we have spread.
Known(c) == \A i \in 2..Len(c) : Builder[c[i]] = Me => c[i] \in spread

\* _sync_if_triggered: nothing, or a better chain of some peer.
Synced(c) == {c} \cup {d \in Chains : Known(d) /\ Beats(d, c)}

\* _pick_winner: the lowest vdf_output.
Winner(blocks) == CHOOSE b \in blocks : \A a \in blocks : Key[b] <= Key[a]

\* _commit on top of chain c: apply_block takes previous_hash on trust.
Commit(c, blocks) ==
  /\ chain' = Append(c, Winner(blocks))
  /\ draw' = OpenDraw(Height[Winner(blocks)])

EndCycle == pc' = "cycle" /\ base' = NoChain /\ entrants' = {}

-----------------------------------------------------------------------------
(* Cycles *)

\* The top of _run_cycle: drain, sync, take the alias, choose the way, and
\* consider what the drain brought.  _wait_for_field_or_own_pace settles the
\* height at once if that was enough.
StartCycle(mode) ==
  /\ pc = "cycle" /\ mode \in Modes
  /\ \E c \in Synced(Drained) :
       /\ Len(c) < MaxChain
       /\ queue' = << >>
       /\ IF mode = "wait" /\ Candidates(c) # {}
          THEN Commit(c, Candidates(c)) /\ EndCycle
          ELSE /\ chain' = c /\ base' = c /\ pc' = mode
               /\ Consider(c)
  /\ UNCHANGED <<spread, paced>>

\* One round of a waiting loop that decides nothing: paused, or building.
Poll ==
  /\ pc \in {"paused", "build"} /\ chain = base
  /\ chain' \in Synced(Drained)
  /\ Consider(base)
  /\ queue' = << >>
  /\ UNCHANGED <<pc, base, spread, paced>>

\* Mutant of PausedEnd: the alias is taken for the tip.
PausedEndStale ==
  /\ pc = "paused"
  /\ IF entrants = {} THEN UNCHANGED <<chain, draw>> ELSE Commit(chain, entrants)
  /\ EndCycle
  /\ UNCHANGED <<queue, spread, paced>>

\* _run_cycle_paused after its loop: the poll interval is over, or the tip has
\* moved and the next cycle starts fresh.
PausedEnd ==
  /\ pc = "paused"
  /\ IF chain # base \/ entrants = {} THEN UNCHANGED <<chain, draw>>
                                      ELSE Commit(chain, entrants)
  /\ EndCycle
  /\ UNCHANGED <<queue, spread, paced>>

\* A round of _wait_for_field_or_own_pace: drain, settle, else sync.
WaitPoll ==
  /\ pc = "wait" /\ chain = base
  /\ queue' = << >>
  /\ IF Candidates(base) # {}
     THEN Commit(Drained, Candidates(base)) /\ EndCycle
     ELSE /\ chain' \in Synced(Drained)
          /\ UNCHANGED <<pc, base, entrants, draw>>
  /\ UNCHANGED <<spread, paced>>

\* Mutant of WaitEnd: silence is no reason to build.
WaitEndIdle ==
  /\ pc = "wait"
  /\ EndCycle
  /\ UNCHANGED <<chain, queue, draw, spread, paced>>

\* The wait is over: the tip moved, or nobody came and we build after all.
WaitEnd ==
  /\ pc = "wait"
  /\ IF chain # base THEN EndCycle
                     ELSE pc' = "build" /\ UNCHANGED <<base, entrants>>
  /\ UNCHANGED <<chain, queue, draw, spread, paced>>

\* The evaluation is cancelled: the tip moved, or _should_abandon found that a
\* contested height will close without us.  How long that takes is left open.
Abandoned ==
  /\ pc = "build"
  /\ chain # base \/ (entrants # {} /\ draw.height = Len(base))
  /\ IF chain # base THEN UNCHANGED <<chain, draw>> ELSE Commit(chain, entrants)
  /\ EndCycle
  /\ UNCHANGED <<queue, spread, paced>>

\* Our evaluation finished.
BuildDone ==
  /\ pc = "build" /\ chain = base
  /\ paced => ~ (draw.open /\ draw.height = Len(base) - 1)
  /\ pc' = "spacing"
  /\ UNCHANGED <<chain, base, queue, entrants, draw, spread, paced>>

\* A round of _await_spacing: no sync here.
SpacingPoll ==
  /\ pc = "spacing" /\ chain = base
  /\ chain' = Drained
  /\ Consider(base)
  /\ queue' = << >>
  /\ UNCHANGED <<pc, base, spread, paced>>

OwnBlock(c) == CHOOSE b \in Block \ {Genesis} : Extends(b, c) /\ Builder[b] = Me

\* Mutant of SpacingEnd: a tip lost while waiting is not noticed.
SpacingEndStale ==
  /\ pc = "spacing"
  /\ spread' = spread \cup {OwnBlock(base)} /\ pc' = "final"
  /\ UNCHANGED <<base, entrants>>
  /\ UNCHANGED <<chain, queue, draw, paced>>

\* The floor is reached: assemble and spread, unless the tip moved meanwhile.
SpacingEnd ==
  /\ pc = "spacing"
  /\ IF chain # base
     THEN EndCycle /\ UNCHANGED spread
     ELSE /\ spread' = spread \cup {OwnBlock(base)} /\ pc' = "final"
          /\ UNCHANGED <<base, entrants>>
  /\ UNCHANGED <<chain, queue, draw, paced>>

\* The last drain, the choice and the commit.
Final ==
  /\ pc = "final"
  /\ Commit(Drained, {OwnBlock(base)} \cup entrants \cup Candidates(base))
  /\ EndCycle
  /\ queue' = << >>
  /\ UNCHANGED <<spread, paced>>

-----------------------------------------------------------------------------
(* The world *)

\* A peer's block, or our own coming back.  If the network is paced, blocks
\* come one height at a time, and no child while its parent's draw is open.
Deliver(b) ==
  /\ Len(queue) < MaxQueue
  /\ \E c \in Chains : Tip(c) = b /\ Known(c)
  /\ paced => /\ Height[b] <= Len(chain)
              /\ ~ (draw.open /\ draw.height = Height[b] - 1)
  /\ queue' = Append(queue, b)
  /\ UNCHANGED <<pc, chain, base, entrants, draw, spread, paced>>

\* _draw_closes passes.
CloseDraw ==
  /\ draw.open
  /\ draw' = [draw EXCEPT !.open = FALSE]
  /\ UNCHANGED <<pc, chain, base, queue, entrants, spread, paced>>

Next ==
  \/ \E mode \in Modes : StartCycle(mode)
  \/ Poll \/ PausedEnd \/ WaitPoll \/ WaitEnd
  \/ Abandoned \/ BuildDone \/ SpacingPoll \/ SpacingEnd \/ Final
  \/ \E b \in Block \ {Genesis} : Deliver(b)
  \/ CloseDraw

Spec == Init /\ [][Next]_vars

(***************************************************************************)
(* Node.start runs cycle after cycle; every wait has a deadline and every  *)
(* evaluation ends; a draw closes by the clock.  Nothing is asked of the   *)
(* peers, who may be silent for ever, and of the user only that mining is  *)
(* not paused in all cycles from some time on.                             *)
(***************************************************************************)
Fairness ==
  /\ SF_vars(\E mode \in Modes \ {"paused"} : StartCycle(mode))
  /\ WF_vars(PausedEnd) /\ WF_vars(WaitEnd)
  /\ WF_vars(BuildDone) /\ WF_vars(chain # base /\ Abandoned)
  /\ WF_vars(SpacingEnd) /\ WF_vars(Final)
  /\ WF_vars(CloseDraw)

FairSpec == Spec /\ Fairness

-----------------------------------------------------------------------------
\* Every block of our chain stands on its parent, though _commit never looks:
\* "committing this candidate would silently splice a block onto the wrong
\* parent" (node.py, after the build loop) is what its callers have to prevent.
Linked == IsChain(chain)

\* The callers do prevent it where a draw is over before its height has a child.
LinkedIfPaced == paced => Linked

\* A block of our own that goes out is a child of the tip we hold at that very
\* moment, whatever was adopted while it was evaluated and held back.
PublishedOnTip ==
  [][\A b \in spread' \ spread : Extends(b, chain)]_vars

\* On a paced network, while the draw for the tip's height is open, no sibling
\* of the tip that a drain brings beats the chain the node is left with.
DrawTakesBest ==
  [][paced /\ queue' = << >> /\ draw.open /\ draw.height = Len(chain) - 1 =>
       \A b \in ToSet(queue) :
         Len(chain) > 1 /\ Height[b] = Len(chain) - 1
           /\ Parent[b] = chain[Len(chain) - 1] =>
         ~ IsBetter(Append(Front(chain), b), chain')]_vars

\* A node that mines gets to the next height whatever its peers do: neither
\* measured odds of zero, nor waiting, nor abandoned evaluations can keep it
\* from building for ever.
Progress == <>(Len(chain) = MaxChain)
=============================================================================
