--------------------------- MODULE BlockDownload ----------------------------
(***************************************************************************)
(* Which blocks are being downloaded from whom: mapBlocksInFlight, the     *)
(* queues and counters of CNodeState, and the handlers of net_processing   *)
(* that change them.                                                       *)
(*                                                                         *)
(* Blocks are the heights 1 .. Headers of one chain of known headers.      *)
(* The message handler is one thread; it releases cs_main around           *)
(* ProcessNewBlock, and the socket thread may finalize another peer then.  *)
(* Timers are left out: a timeout may fire whenever it is armed, except    *)
(* that an honest peer answers in time.  That mapBlockSource names the     *)
(* sender of a bad block is assumed.                                       *)
(***************************************************************************)
EXTENDS Integers, FiniteSetsExt, SequencesExt

CONSTANTS
    Peer,
    Honest,     \* the peers that answer and are not lost
    Headers,    \* the number of headers
    MaxInTransit, \* MAX_BLOCKS_IN_TRANSIT_PER_PEER
    Window,     \* BLOCK_DOWNLOAD_WINDOW
    None

ASSUME BlockDownloadAssumption ==
    /\ IsFiniteSet(Peer) /\ Honest \subseteq Peer /\ None \notin Peer
    /\ Headers \in Nat /\ MaxInTransit \in Nat \ {0} /\ Window \in Nat \ {0}

Block == 1 .. Headers
Outcome == {"stored", "ignored", "rejected"}

VARIABLES
    nodes,          \* mapNodeState's peers
    fDisconnect,
    pindexBestKnownBlock,   \* 0 for none
    pindexLastCommonBlock,  \* -1 for none
    vBlocksInFlight,        \* of every peer, the hashes in order
    partialBlock,           \* the blocks in flight with a partialBlock
    mapBlocksInFlight,
    nBlocksInFlight,        \* nBlocksInFlightValidHeaders is the same: every caller passes pindex
    nPeersWithValidatedDownloads,
    nStallingSince,         \* the peers that have it set
    have,                   \* the blocks with BLOCK_HAVE_DATA
    processing              \* the handler is about to call ProcessNewBlock

node == <<pindexBestKnownBlock, pindexLastCommonBlock>>
flight == <<vBlocksInFlight, partialBlock, mapBlocksInFlight, nBlocksInFlight,
            nPeersWithValidatedDownloads, nStallingSince>>
vars == <<nodes, fDisconnect, node, flight, have, processing>>

Idle == [block |-> 0, peer |-> None, how |-> "idle"]

Init ==
    /\ nodes = Peer /\ fDisconnect = {}
    /\ pindexBestKnownBlock = [p \in Peer |-> 0] /\ pindexLastCommonBlock = [p \in Peer |-> -1]
    /\ vBlocksInFlight = [p \in Peer |-> <<>>] /\ partialBlock = {}
    /\ mapBlocksInFlight = [b \in Block |-> None]
    /\ nBlocksInFlight = [p \in Peer |-> 0] /\ nPeersWithValidatedDownloads = 0
    /\ nStallingSince = {} /\ have = {} /\ processing = Idle

\* The height of the active chain.
ActiveHeight == Max({h \in 0 .. Headers : 1 .. h \subseteq have})

Smaller(x, y) == IF x < y THEN x ELSE y
Larger(x, y) == IF x < y THEN y ELSE x

-----------------------------------------------------------------------------
(* The in-flight state as a record, and what the two functions do to it    *)

Flight == [queue |-> vBlocksInFlight, partial |-> partialBlock, from |-> mapBlocksInFlight,
           count |-> nBlocksInFlight, peers |-> nPeersWithValidatedDownloads,
           stalling |-> nStallingSince]

BecomesFlight(f) ==
    /\ vBlocksInFlight' = f.queue /\ partialBlock' = f.partial /\ mapBlocksInFlight' = f.from
    /\ nBlocksInFlight' = f.count /\ nPeersWithValidatedDownloads' = f.peers
    /\ nStallingSince' = f.stalling

MarkBlockAsReceived(f, b) ==
    LET p == f.from[b]
    IN  IF p = None THEN f
        ELSE [queue |-> [f.queue EXCEPT ![p] = SelectSeq(@, LAMBDA x : x # b)],
              partial |-> f.partial \ {b},
              from |-> [f.from EXCEPT ![b] = None],
              count |-> [f.count EXCEPT ![p] = @ - 1],
              peers |-> IF f.count[p] = 1 THEN f.peers - 1 ELSE f.peers,
              stalling |-> f.stalling \ {p}]

MarkBlockAsInFlight(f, p, b) ==
    IF f.from[b] = p THEN f
    ELSE LET g == MarkBlockAsReceived(f, b)
         IN  [g EXCEPT !.queue = [@ EXCEPT ![p] = Append(@, b)],
                       !.from = [@ EXCEPT ![b] = p],
                       !.count = [@ EXCEPT ![p] = @ + 1],
                       !.peers = IF g.count[p] = 0 THEN @ + 1 ELSE @]

\* Marks the blocks of s one after the other.
MarkAll(f, p, s) == FoldLeft(LAMBDA g, b : MarkBlockAsInFlight(g, p, b), f, s)

InOrder(S) == SelectSeq([i \in Block |-> i], LAMBDA b : b \in S)
FirstOf(n, s) == SubSeq(s, 1, Smaller(n, Len(s)))

-----------------------------------------------------------------------------
(* SendMessages                                                            *)

Missing(f, b) == b \notin have /\ f.from[b] = None

\* FindNextBlocksToDownload with SendMessages' loop over what it found.
SendGetData(p) ==
    /\ p \in nodes \ fDisconnect /\ processing = Idle
    /\ nBlocksInFlight[p] < MaxInTransit
    /\ pindexBestKnownBlock[p] > 0 /\ pindexBestKnownBlock[p] >= ActiveHeight
    /\ LET best == pindexBestKnownBlock[p]
           start == IF pindexLastCommonBlock[p] = -1 THEN Smaller(best, ActiveHeight)
                    ELSE Smaller(pindexLastCommonBlock[p], best)
           windowEnd == start + Window
           walk == start + 1 .. Smaller(best, windowEnd + 1)
           missing == {b \in walk : Missing(Flight, b)}
           vBlocks == FirstOf(MaxInTransit - nBlocksInFlight[p],
                              InOrder({b \in missing : b <= windowEnd}))
           inFlight == {b \in walk : b \notin have /\ mapBlocksInFlight[b] # None}
           waitingfor == IF inFlight = {} THEN None ELSE mapBlocksInFlight[Min(inFlight)]
           staller == IF vBlocks = <<>> /\ windowEnd + 1 \in missing /\ waitingfor # p
                      THEN {waitingfor} \ {None} ELSE {}
           f == MarkAll(Flight, p, vBlocks)
       IN  /\ pindexLastCommonBlock' = [pindexLastCommonBlock EXCEPT
                  ![p] = Larger(start, Smaller(ActiveHeight, Smaller(best, windowEnd + 1)))]
           /\ BecomesFlight([f EXCEPT !.stalling =
                  IF f.count[p] = 0 THEN @ \cup staller ELSE @])
    /\ UNCHANGED <<nodes, fDisconnect, pindexBestKnownBlock, have, processing>>

\* Mutant: a peer is only disconnected when it holds up the window.
TimesOutIfStalling(p) ==
    /\ p \in nodes \ (fDisconnect \cup Honest) /\ processing = Idle
    /\ p \in nStallingSince
    /\ fDisconnect' = fDisconnect \cup {p}
    /\ UNCHANGED <<nodes, node, flight, have, processing>>

\* A peer that stalls the window, or whose first block does not arrive.
TimesOut(p) ==
    /\ p \in nodes \ (fDisconnect \cup Honest) /\ processing = Idle
    /\ p \in nStallingSince \/ vBlocksInFlight[p] # <<>>
    /\ fDisconnect' = fDisconnect \cup {p}
    /\ UNCHANGED <<nodes, node, flight, have, processing>>

-----------------------------------------------------------------------------
(* The handlers of ProcessMessage                                          *)

Handles(p) == p \in nodes \ fDisconnect /\ processing = Idle

\* UpdateBlockAvailability
BestKnown(p, b) == [pindexBestKnownBlock EXCEPT ![p] = Larger(@, b)]

\* ProcessHeadersMessage's direct fetch towards b.  The walk gives up when it
\* found too many blocks before it reached the active chain.
DirectFetch(p, b) ==
    LET missing == {x \in ActiveHeight + 1 .. b : Missing(Flight, x)}
        vToFetch == InOrder(missing)
        large == /\ Len(vToFetch) > MaxInTransit
                 /\ vToFetch[Len(vToFetch) - MaxInTransit] > ActiveHeight + 1
        room == MaxInTransit - nBlocksInFlight[p]
    IN  IF large \/ b < ActiveHeight THEN Flight ELSE MarkAll(Flight, p, FirstOf(room, vToFetch))

\* canDirectFetch depends on the age of the tip.
ProcessHeaders(p, b, canDirectFetch) ==
    /\ Handles(p)
    /\ pindexBestKnownBlock' = BestKnown(p, b)
    /\ BecomesFlight(IF canDirectFetch THEN DirectFetch(p, b) ELSE Flight)
    /\ UNCHANGED <<nodes, fDisconnect, pindexLastCommonBlock, have, processing>>

\* A BLOCK message, asked for or not.
ReceiveBlock(p, b) ==
    /\ Handles(p)
    /\ BecomesFlight(MarkBlockAsReceived(Flight, b))
    /\ processing' = [block |-> b, peer |-> p,
           how |-> IF mapBlocksInFlight[b] = None THEN "unrequested" ELSE "requested"]
    /\ UNCHANGED <<nodes, fDisconnect, node, have>>

\* Whether a CMPCTBLOCK is handled as such, and as a download from its sender.
\* One that is not does what ProcessHeaders does.
TakesCompact(p, b, canDirectFetch) ==
    /\ b \notin have /\ b <= ActiveHeight + 2
    /\ canDirectFetch \/ mapBlocksInFlight[b] # None
OwnCompact(p, b) ==
    \/ mapBlocksInFlight[b] = None /\ nBlocksInFlight[p] < MaxInTransit
    \/ mapBlocksInFlight[b] = p /\ b \notin partialBlock

\* InitData says how much of the block the mempool has: "none" of it can be
\* used, "some" (GETBLOCKTXN), "all" (on to the code of BLOCKTXN), or the
\* message is "invalid".
CompactBlock(p, b, canDirectFetch, status) ==
    /\ Handles(p) /\ TakesCompact(p, b, canDirectFetch) /\ OwnCompact(p, b)
    /\ status = "invalid" => p \notin Honest
    /\ pindexBestKnownBlock' = BestKnown(p, b)
    /\ LET f == [MarkBlockAsInFlight(Flight, p, b) EXCEPT !.partial = @ \cup {b}]
       IN  BecomesFlight(IF status \in {"invalid", "all"} THEN MarkBlockAsReceived(f, b) ELSE f)
    /\ processing' = IF status = "all" THEN [block |-> b, peer |-> p, how |-> "requested"] ELSE Idle
    /\ fDisconnect' = IF status = "invalid" THEN fDisconnect \cup {p} ELSE fDisconnect
    /\ UNCHANGED <<nodes, pindexLastCommonBlock, have>>

\* The block is in flight from another peer, or this one has too many: it is
\* reconstructed without a round trip or not at all.
CompactOptimistic(p, b, canDirectFetch, reconstructed) ==
    /\ Handles(p) /\ TakesCompact(p, b, canDirectFetch) /\ ~OwnCompact(p, b)
    /\ mapBlocksInFlight[b] # p
    /\ pindexBestKnownBlock' = BestKnown(p, b)
    /\ processing' = IF reconstructed THEN [block |-> b, peer |-> p, how |-> "optimistic"] ELSE Idle
    /\ UNCHANGED <<nodes, fDisconnect, pindexLastCommonBlock, flight, have>>

\* A BLOCKTXN message for a block that is in flight from p.  When the
\* transactions collide the block is asked for whole.
BlockTxn(p, b, status) ==
    /\ Handles(p) /\ mapBlocksInFlight[b] = p /\ b \in partialBlock
    /\ status = "invalid" => p \notin Honest
    /\ BecomesFlight(IF status = "collision" THEN Flight ELSE MarkBlockAsReceived(Flight, b))
    /\ processing' = IF status = "ok" THEN [block |-> b, peer |-> p, how |-> "requested"] ELSE Idle
    /\ fDisconnect' = IF status = "invalid" THEN fDisconnect \cup {p} ELSE fDisconnect
    /\ UNCHANGED <<nodes, node, have>>

\* ProcessNewBlock and what the handler does after it.  AcceptBlock ignores
\* some blocks that nobody asked for.
ProcessNewBlock(outcome) ==
    /\ processing # Idle
    /\ outcome = "ignored" => processing.how = "unrequested"
    /\ outcome = "rejected" => processing.peer \notin Honest
    /\ have' = IF outcome = "stored" THEN have \cup {processing.block} ELSE have
    /\ BecomesFlight(IF outcome = "stored" /\ processing.how = "optimistic"
                     THEN MarkBlockAsReceived(Flight, processing.block) ELSE Flight)
    /\ fDisconnect' = IF outcome = "rejected" THEN fDisconnect \cup {processing.peer}
                      ELSE fDisconnect
    /\ processing' = Idle
    /\ UNCHANGED <<nodes, node>>

\* The socket thread: the connection is lost, or was to be closed.  The
\* handler holds a reference to the peer whose message it processes.
Disconnected(p) ==
    /\ p \in nodes \ Honest /\ p \notin fDisconnect
    /\ fDisconnect' = fDisconnect \cup {p}
    /\ UNCHANGED <<nodes, node, flight, have, processing>>

\* Mutant: the map still names the peer.
FinalizeNodeKeepingMap(p) ==
    /\ p \in nodes \cap fDisconnect /\ processing.peer # p
    /\ nodes' = nodes \ {p}
    /\ vBlocksInFlight' = [vBlocksInFlight EXCEPT ![p] = <<>>]
    /\ nBlocksInFlight' = [nBlocksInFlight EXCEPT ![p] = 0]
    /\ nPeersWithValidatedDownloads' =
           nPeersWithValidatedDownloads - IF nBlocksInFlight[p] # 0 THEN 1 ELSE 0
    /\ UNCHANGED <<partialBlock, mapBlocksInFlight, nStallingSince, fDisconnect, node, have,
                   processing>>

FinalizeNode(p) ==
    /\ p \in nodes \cap fDisconnect /\ processing.peer # p
    /\ nodes' = nodes \ {p}
    /\ mapBlocksInFlight' = [b \in Block |->
           IF b \in ToSet(vBlocksInFlight[p]) THEN None ELSE mapBlocksInFlight[b]]
    /\ partialBlock' = partialBlock \ ToSet(vBlocksInFlight[p])
    /\ vBlocksInFlight' = [vBlocksInFlight EXCEPT ![p] = <<>>]
    /\ nBlocksInFlight' = [nBlocksInFlight EXCEPT ![p] = 0]
    /\ nStallingSince' = nStallingSince \ {p}
    /\ nPeersWithValidatedDownloads' =
           nPeersWithValidatedDownloads - IF nBlocksInFlight[p] # 0 THEN 1 ELSE 0
    /\ pindexBestKnownBlock' = [pindexBestKnownBlock EXCEPT ![p] = 0]
    /\ pindexLastCommonBlock' = [pindexLastCommonBlock EXCEPT ![p] = -1]
    /\ UNCHANGED <<fDisconnect, have, processing>>

-----------------------------------------------------------------------------
Next ==
    \/ \E p \in Peer : SendGetData(p) \/ TimesOut(p) \/ Disconnected(p) \/ FinalizeNode(p)
    \/ \E p \in Peer, b \in Block, direct \in BOOLEAN :
          \/ ProcessHeaders(p, b, direct)
          \/ \E status \in {"none", "some", "all", "invalid"} : CompactBlock(p, b, direct, status)
          \/ \E reconstructed \in BOOLEAN : CompactOptimistic(p, b, direct, reconstructed)
    \/ \E p \in Peer, b \in Block :
          \/ ReceiveBlock(p, b)
          \/ \E status \in {"ok", "collision", "invalid"} : BlockTxn(p, b, status)
    \/ \E outcome \in Outcome : ProcessNewBlock(outcome)

Spec == Init /\ [][Next]_vars

\* The socket thread and the handler run, and the handler's loop comes to every
\* peer: it takes one of its messages and calls SendMessages for it, whatever
\* the other peers send.  Timers expire.  An honest peer announces its chain
\* and answers what it is asked for.
Fairness ==
    /\ WF_vars(\E outcome \in Outcome : ProcessNewBlock(outcome))
    /\ \A p \in Peer \ Honest : WF_vars(FinalizeNode(p)) /\ SF_vars(TimesOut(p))
    /\ \A p \in Honest :
          /\ SF_vars(SendGetData(p))
          /\ SF_vars(\E direct \in BOOLEAN : ProcessHeaders(p, Headers, direct))
          /\ SF_vars(\E b \in Block : mapBlocksInFlight[b] = p /\ ReceiveBlock(p, b))

FairSpec == Spec /\ Fairness

-----------------------------------------------------------------------------
(* Properties                                                              *)

\* The lists, the map and the counters describe the same downloads: a block is
\* in flight from the one peer in whose list it is, once; no list is over the
\* limit; nPeersWithValidatedDownloads counts the peers with a list; only a
\* peer that owes a block is stalling.  FinalizeNode asserts a part of this
\* when the last peer is gone.
InFlightIsConsistent ==
    /\ \A p \in Peer :
          /\ \A b \in Block : mapBlocksInFlight[b] = p <=> b \in ToSet(vBlocksInFlight[p])
          /\ nBlocksInFlight[p] = Len(vBlocksInFlight[p])
          /\ nBlocksInFlight[p] = Cardinality(ToSet(vBlocksInFlight[p]))
          /\ nBlocksInFlight[p] <= MaxInTransit
          /\ p \in nStallingSince \/ p \notin nodes => (p \in nodes <=> vBlocksInFlight[p] # <<>>)
    /\ \A b \in Block : mapBlocksInFlight[b] \in nodes \cup {None}
    /\ \A b \in partialBlock : mapBlocksInFlight[b] # None
    /\ nPeersWithValidatedDownloads = Cardinality({p \in nodes : vBlocksInFlight[p] # <<>>})

\* With one honest peer every block arrives, whatever the others do with the
\* blocks they were asked for.
EveryBlockArrives == Honest # {} => <>[](have = Block)
=============================================================================
