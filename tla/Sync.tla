-------------------------------- MODULE Sync --------------------------------
(***************************************************************************)
(* How a node that is behind copies a better chain, page by page           *)
(* (src/src/syncer.py, Node._sync_if_triggered and its neighbours in       *)
(* src/src/node.py), in a network the other nodes of which behave as       *)
(* Network.tla says.  A pass asks one peer: its tip, then by bisection the *)
(* last block both have, then pages of blocks, each judged with what came  *)
(* before it.  A pass that runs out of pages leaves its tail behind for    *)
(* the next one.                                                           *)
(*                                                                         *)
(* A request and its answer are one step: the node's own chain does not    *)
(* move while it waits, the peer's may between two of them.  Peers are     *)
(* honest.  The size of a page is any up to PageMax, whatever the window   *)
(* of the peer has come to be and the server has cut off.                  *)
(***************************************************************************)
EXTENDS Network, SequencesExt

CONSTANTS Me,             \* the node that copies by pages
          Window,         \* FORK_SEARCH_WINDOW
          PageMax,        \* MAX_SYNC_BLOCKS
          PassPages,      \* SYNC_PAGES_PER_PASS
          MaxTail, MaxTails,  \* MAX_PENDING_TAIL_BLOCKS, MAX_TOTAL_...
          MaxFaults,      \* bound on silences, late passes and disk errors
          None

Peer == Node \ {Me}

ASSUME SyncAssumption ==
  /\ Me \in Node /\ None \notin Node
  /\ Window \in Nat \ {0} /\ PageMax \in Nat \ {0} /\ PassPages \in Nat \ {0}
  /\ MaxTail \in Nat /\ MaxTails \in Nat /\ MaxFaults \in Nat

VARIABLES
  hint,     \* _sync_hint and its height: a peer that seemed to be ahead, or
            \* the one a chain was just taken from
  struck,   \* peers with a strike against them in the pool
  pass,     \* the pass under way: check_and_sync and its locals
  saved,    \* peer -> the tail it has left in _peer_progress, or None
  faults,   \* how much of MaxFaults is used up
  refused   \* the disk has refused a chain (history)

others   == <<hint, struck, saved>>
syncVars == <<vars, others, pass, faults, refused>>

Idle == [at |-> "idle"]
NoHint == [peer |-> None, height |-> 0]

Mine == chain[Me]
TopOf(c) == Len(c) - 1   \* the height of a chain's tip

SyncInit ==
  /\ Init /\ hint = NoHint /\ struck = {} /\ pass = Idle
  /\ saved = [p \in Peer |-> None] /\ faults = 0 /\ refused = FALSE

Fault == faults < MaxFaults /\ faults' = faults + 1
Swap(c) == chain' = [chain EXCEPT ![Me] = c]

-----------------------------------------------------------------------------
(* What goes on beside a pass *)

\* A peer's block arrives: its strikes are cleared.  The next block and a
\* better sibling of the tip are taken by the draw (DrawCycle.tla); one above
\* the tip is a hint, unless a higher one is there.
Hear(p) ==
  LET top == Tip(chain[p])
      rival == Append(Front(Mine), top) IN
  /\ pass = Idle /\ struck' = struck \ {p}
  /\ \/ Extends(top, Mine) /\ Swap(Append(Mine, top)) /\ UNCHANGED hint
     \/ /\ Len(Mine) > 1 /\ Extends(top, Front(Mine)) /\ IsBetter(rival, Mine)
        /\ Swap(rival) /\ UNCHANGED hint
     \/ /\ ~ Extends(top, Mine) /\ Height[top] > TopOf(Mine)
        /\ Height[top] > hint.height /\ UNCHANGED chain
        /\ hint' = [peer |-> p, height |-> Height[top]]
  /\ UNCHANGED <<fetched, pass, saved, faults, refused>>

\* The node's own block.
Win(b) == pass = Idle /\ Build(Me, b) /\ UNCHANGED <<others, pass, faults, refused>>

\* A pass that goes by what p has goes on beside what p does.
Beside(p) ==
  /\ pass' = IF pass # Idle /\ pass.peer = p /\ chain' # chain
             THEN [pass EXCEPT !.calm = FALSE] ELSE pass
  /\ UNCHANGED <<others, faults, refused>>

\* A peer builds a block, or reads or takes over a chain.
Elsewhere(p) ==
  /\ (\E b \in Block : Build(p, b)) \/ (\E n \in Node : Fetch(p, n)) \/ Adopt(p)
  /\ Beside(p)

-----------------------------------------------------------------------------
(* The end of a pass *)

\* _sync_if_triggered after check_and_sync has returned from a peer that
\* answered, which has cleared its strikes.
Return(p, hinted, applied, conclusive) ==
  /\ hint' = IF applied THEN [peer |-> p, height |-> Len(Mine)]
                        ELSE NoHint
  /\ struck' = (struck \ {p}) \cup
                 {q \in {p} : hinted /\ ~ applied /\ conclusive}
  /\ pass' = Idle

End(conclusive) ==
  Return(pass.peer, pass.hinted, pass.at = "fetch" /\ pass.applied, conclusive)

\* _peer_progress.pop(peer)
Drop == saved' = [saved EXCEPT ![pass.peer] = None]

-----------------------------------------------------------------------------
(* What a pass does *)

\* The peer the hint names, else the one that claims most or any at random.
Chosen(p) == pass = Idle /\ hint.peer \in {p, None}

\* check_and_sync up to the fork search; calm (history): all that this pass
\* goes by is what the peer has now.
Ask(p) ==
  LET c == chain[p]
      hinted == hint.peer = p
      old == saved[p] IN
  /\ Chosen(p)
  /\ IF \/ Work(ProvenBlocks(c)) < Work(ProvenBlocks(Mine))
        \/ Tip(c) = Tip(Mine)
     THEN Return(p, hinted, FALSE, TRUE)
     ELSE /\ pass' = [at |-> "probe", peer |-> p, hinted |-> hinted,
                      height |-> TopOf(c), late |-> FALSE,
                      calm |-> old = None \/
                        (old.fork < Len(c) /\ IsPrefix(old.tail, SubSeq(c, old.fork + 1, Len(c))))]
          /\ struck' = struck \ {p} /\ hint' = NoHint
  /\ UNCHANGED <<vars, saved, faults, refused>>

\* No answer to the first question.
AskInVain(p) ==
  /\ Chosen(p)
  /\ Fault
  /\ hint' = NoHint
  /\ struck' = struck \cup {q \in {p} : hint.peer = p}
  /\ UNCHANGED <<vars, pass, saved, refused>>

\* Whether the peer has the block this node has at a height.
Common(height) ==
  height < Len(chain[pass.peer]) /\ chain[pass.peer][height + 1] = Mine[height + 1]

Anchor(fork) == IF fork > 0 THEN Mine[fork] ELSE None

\* Mutant of FetchFrom: a pass starts from the fork point.
FetchAfresh(fork) ==
  pass' = [at |-> "fetch", peer |-> pass.peer, hinted |-> pass.hinted,
           height |-> pass.height, pages |-> 0, late |-> pass.late,
           applied |-> FALSE, calm |-> pass.calm,
           fork |-> fork, tail |-> << >>, h |-> fork]

\* _fetch_and_apply, before its loop: a tail left on the same block goes on.
FetchFrom(fork) ==
  LET old == saved[pass.peer]
      resumed == /\ old # None
                 /\ old.fork = fork /\ old.anchor = Anchor(fork)
  IN pass' = [at |-> "fetch", peer |-> pass.peer, hinted |-> pass.hinted,
              height |-> pass.height, pages |-> 0, late |-> pass.late,
              applied |-> FALSE, calm |-> pass.calm,
              fork |-> fork,
              tail |-> IF resumed THEN old.tail ELSE << >>,
              h |-> IF resumed THEN old.h ELSE fork]

Search(lo) ==
  pass' = [at |-> "search", peer |-> pass.peer, hinted |-> pass.hinted,
           height |-> pass.height, late |-> pass.late, calm |-> pass.calm,
           lo |-> lo, hi |-> TopOf(Mine), best |-> -1, wide |-> lo = 0]

\* _find_fork_point: the tip first, then a recent window.
Probe ==
  /\ pass.at = "probe" /\ ~ pass.late
  /\ IF Common(TopOf(Mine)) THEN FetchFrom(Len(Mine))
     ELSE Search(IF TopOf(Mine) > Window THEN TopOf(Mine) - Window ELSE 0)
  /\ UNCHANGED <<vars, others, faults, refused>>

\* One round of _highest_common.
Halve ==
  LET mid == (pass.lo + pass.hi) \div 2 IN
  /\ pass.at = "search" /\ ~ pass.late /\ pass.lo <= pass.hi
  /\ pass' = IF Common(mid) THEN [pass EXCEPT !.best = mid, !.lo = mid + 1]
             ELSE [pass EXCEPT !.hi = mid - 1]
  /\ UNCHANGED <<vars, others, faults, refused>>

\* The end of _highest_common: the window was too small, or the fork is found.
Found ==
  /\ pass.at = "search" /\ (pass.lo > pass.hi \/ pass.late)
  /\ IF pass.best < 0 /\ ~ pass.wide /\ ~ pass.late THEN Search(0)
     ELSE ~ (pass.best < 0 /\ pass.late) /\ FetchFrom(pass.best + 1)
  /\ UNCHANGED <<vars, others, faults, refused>>

\* The budget is gone before the fork is found: nothing came of it.
Unfound ==
  /\ pass.late
  /\ pass.at = "probe" \/ (pass.at = "search" /\ pass.best < 0)
  /\ End(TRUE)
  /\ UNCHANGED <<vars, saved, faults, refused>>

\* chain[:fork_from] and what has come since.
With(tail) == SubSeq(Mine, 1, pass.fork) \o tail

More == pass.at = "fetch" /\ pass.h <= pass.height
MayFetch == More /\ ~ pass.late /\ pass.pages < PassPages

\* The pages the peer may answer with: from h to where it was asked to stop,
\* what it has of that.
Pages ==
  LET c == chain[pass.peer]
      ends == {Smaller(pass.h + n, Smaller(pass.height + 1, Len(c))) : n \in 1..PageMax}
  IN {SubSeq(c, pass.h + 1, e) : e \in ends}

Landed(page) ==
  [pass EXCEPT !.pages = @ + 1, !.tail = @ \o page, !.h = @ + Len(page)]

\* apply_better_chain takes it: valid, and better than the chain held.
Apply(page) ==
  /\ page # << >>
  /\ IsChain(With(pass.tail \o page)) /\ IsBetter(With(pass.tail \o page), Mine)
  /\ Swap(With(pass.tail \o page))
  /\ pass' = [Landed(page) EXCEPT !.applied = TRUE]
  /\ Drop
  /\ UNCHANGED <<fetched, hint, struck, faults, refused>>

\* Mutant of Gather: a chain not better yet is as bad as an invalid one.
GatherNothing(page) ==
  /\ page # << >>
  /\ IsChain(With(pass.tail \o page)) /\ ~ IsBetter(With(pass.tail \o page), Mine)
  /\ End(TRUE) /\ Drop
  /\ UNCHANGED <<vars, faults, refused>>

\* Valid so far, and not better yet.
Gather(page) ==
  /\ page # << >>
  /\ IsChain(With(pass.tail \o page)) /\ ~ IsBetter(With(pass.tail \o page), Mine)
  /\ pass' = Landed(page)
  /\ UNCHANGED <<vars, others, faults, refused>>

\* Mutant of Reject: the list is the saved one, and stays there.
RejectKeeps(page) ==
  /\ page = << >> \/ ~ IsChain(With(pass.tail \o page))
  /\ End(TRUE)
  /\ saved' = [saved EXCEPT ![pass.peer] =
       IF @ = None THEN @ ELSE [@ EXCEPT !.tail = pass.tail \o page]]
  /\ UNCHANGED <<vars, faults, refused>>

\* The peer has nothing there, or what it has does not fit what came before.
Reject(page) ==
  /\ page = << >> \/ ~ IsChain(With(pass.tail \o page))
  /\ End(TRUE) /\ Drop
  /\ UNCHANGED <<vars, faults, refused>>

\* All of it is there; better or not, that is the verdict.
Finish ==
  /\ pass.at = "fetch" /\ ~ More
  /\ End(TRUE) /\ Drop
  /\ UNCHANGED <<vars, faults, refused>>

Kept(p) == saved[p] # None
Fits(tail) ==
  /\ tail # << >> /\ Len(tail) <= MaxTail
  /\ MapThenSumSet(LAMBDA p : Len(saved[p].tail),
                   {p \in Peer \ {pass.peer} : Kept(p)}) + Len(tail) <= MaxTails

\* Out of pages or of time: the tail is left for the next pass.
Pause ==
  /\ More /\ ~ MayFetch
  /\ End(FALSE)
  /\ saved' = [saved EXCEPT ![pass.peer] =
       IF ~ pass.applied /\ Fits(pass.tail)
       THEN [fork |-> pass.fork, anchor |-> Anchor(pass.fork),
             tail |-> pass.tail, h |-> pass.h]
       ELSE None]
  /\ UNCHANGED <<vars, faults, refused>>

-----------------------------------------------------------------------------
(* What goes wrong in a pass *)

\* The budget of the pass is used up, between two requests.
Delay ==
  /\ pass # Idle /\ ~ pass.late
  /\ Fault
  /\ pass' = [pass EXCEPT !.late = TRUE, !.calm = FALSE]
  /\ UNCHANGED <<vars, others, refused>>

\* A request is not answered, however often it is repeated, or not before the
\* budget is used up.
Silence ==
  /\ \/ MayFetch /\ Drop
     \/ /\ pass.at = "probe" \/ (pass.at = "search" /\ pass.lo <= pass.hi)
        /\ UNCHANGED saved
  /\ ~ pass.late
  /\ Fault
  /\ End(TRUE)
  /\ UNCHANGED <<vars, refused>>

\* Storage.replace_chain_and_state raises, through all of the pass.  A tail
\* that was resumed is the saved list itself: it has grown by the page.
DiskFails(page) ==
  LET p == pass.peer IN
  /\ page # << >>
  /\ IsChain(With(pass.tail \o page)) /\ IsBetter(With(pass.tail \o page), Mine)
  /\ Fault
  /\ saved' = [saved EXCEPT ![p] =
       IF @ # None /\ @.fork = pass.fork /\ @.anchor = Anchor(pass.fork)
       THEN [@ EXCEPT !.tail = pass.tail \o page] ELSE @]
  /\ pass' = Idle /\ refused' = TRUE
  /\ UNCHANGED <<vars, hint, struck>>

-----------------------------------------------------------------------------
Working ==
  \/ Probe \/ Halve \/ Found \/ Unfound \/ Finish \/ Pause
  \/ MayFetch /\ \E page \in Pages : Apply(page) \/ Gather(page) \/ Reject(page)

SyncNext ==
  \/ \E p \in Peer : Hear(p) \/ Elsewhere(p) \/ Ask(p) \/ AskInVain(p)
  \/ \E b \in Block : Win(b)
  \/ pass # Idle /\ (Working \/ Delay \/ Silence)
  \/ MayFetch /\ \E page \in Pages : DiskFails(page)

SyncSpec == SyncInit /\ [][SyncNext]_syncVars

\* The loop thread goes on with a pass it is in and judges what it has read; one
\* probe per block interval goes to a peer drawn at random, here as elsewhere, so
\* none that may have something is left unasked for ever.
SyncFairness ==
  /\ WF_syncVars(pass # Idle /\ Working)
  /\ \A p \in Peer : SF_syncVars(Ask(p))
  /\ \A p \in Peer : \A n \in Node \ {p} : SF_syncVars(Fetch(p, n) /\ Beside(p))
  /\ \A p \in Peer : WF_syncVars(Adopt(p) /\ Beside(p))

FairSyncSpec == SyncSpec /\ SyncFairness

-----------------------------------------------------------------------------
\* What is left of a pass is what the next one takes it for: blocks that
\* follow one another on the shared block it is pinned to, up to the height it
\* goes on from.
TailFits ==
  \A p \in Peer : Kept(p) /\ ~ refused =>
    LET s == saved[p]
        whole == <<s.anchor>> \o s.tail IN
    /\ s.h = s.fork + Len(s.tail)
    /\ \A i \in 2..Len(whole) : Parent[whole[i]] = whole[i-1]

\* A peer that stood still while it was asked is not struck while it has a
\* better chain, whatever part of it has come: "every page seen so far
\* validated fine, there is just not enough of it landed yet".
FairlyStruck ==
  [][\A p \in Peer :
       p \in struck' \ struck /\ faults' = faults /\ ~ refused /\ (pass # Idle => pass.calm)
         => ~ IsBetter(chain[p], Mine)]_syncVars
=============================================================================
