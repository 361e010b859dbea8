------------------------------ MODULE BlockTree ------------------------------
(***************************************************************************)
(* The block tree and the choice of the active chain (validation.cpp):     *)
(* headers and blocks arrive in any order on several threads, and each     *)
(* thread then runs ActivateBestChain, which releases cs_main after every  *)
(* step and keeps its goal pindexMostWork across the release.  The RPCs    *)
(* invalidateblock, reconsiderblock and preciousblock, and a restart, are  *)
(* steps as well.                                                          *)
(*                                                                         *)
(* One action is one critical section of cs_main.  A header that fails     *)
(* CheckBlockHeader never enters the tree, so Block holds the others.      *)
(* Pruning is left out: BLOCK_HAVE_DATA is never cleared, nTx > 0 iff      *)
(* BLOCK_HAVE_DATA, and FindMostWorkChain never meets missing data.        *)
(***************************************************************************)
EXTENDS Integers, FiniteSets

CONSTANTS Block, Genesis, NoBlock,
          pprev,              \* the parent of every block but Genesis
          nHeight,            \* its height, as AddToBlockIndex computes it
          GetBlockProof,      \* the work each block adds
          Address,            \* where the CBlockIndex is allocated
          Thread,
          MIN_BLOCKS_TO_KEEP, nMinimumChainWork,
          MinSequenceId,      \* numeric_limits<int32_t>::min()
          MayFail,            \* blocks that may turn out to be invalid
          Commands,           \* the RPCs (and "restart") of this instance
          MaxCommands         \* bound: how many of them are issued

\* Blocks whose target is zero or out of range: ContextualCheckBlockHeader lets
\* them in while the chain is not past nLastPOWBlock, ConnectBlock never does.
Weightless == {b \in Block : GetBlockProof[b] = 0}

ASSUME TreeAssumption ==
    /\ IsFiniteSet(Block) /\ Genesis \in Block /\ NoBlock \notin Block
    /\ pprev \in [Block \ {Genesis} -> Block]
    /\ nHeight \in [Block -> Nat] /\ nHeight[Genesis] = 0
    /\ \A b \in Block \ {Genesis} : nHeight[b] = nHeight[pprev[b]] + 1
    /\ GetBlockProof \in [Block -> Nat]
    /\ Address \in [Block -> Nat]
    /\ \A a, b \in Block : Address[a] = Address[b] => a = b
    /\ MayFail \subseteq Block \ {Genesis} /\ Weightless \subseteq MayFail

ASSUME BoundAssumption ==
    /\ MIN_BLOCKS_TO_KEEP \in Nat /\ nMinimumChainWork \in Nat
    /\ MinSequenceId \in Int /\ MinSequenceId < 0 /\ MaxCommands \in Nat
    /\ Commands \subseteq
          {"restart", "invalidateblock", "reconsiderblock", "preciousblock"}

VARIABLES
    invalid, badBody,          \* fail in ConnectBlock, in ContextualCheckBlock
    known, data, linked,       \* mapBlockIndex, BLOCK_HAVE_DATA, nChainTx # 0
    scripts,                   \* raised to BLOCK_VALID_SCRIPTS
    failedValid, failedChild,  \* BLOCK_FAILED_VALID, BLOCK_FAILED_CHILD
    gFailed,                   \* g_failed_blocks
    nSequenceId, nBlockSequenceId,
    nBlockReverseSequenceId, nLastPreciousChainwork,
    candidates, unlinked,      \* setBlockIndexCandidates, mapBlocksUnlinked
    tip,                       \* chainActive.Tip()
    activating, pindexMostWork,\* the threads in ActivateBestChain, their goal
    commands                   \* commands issued so far

world == <<invalid, badBody>>
flags == <<failedValid, failedChild, gFailed>>
precious == <<nBlockReverseSequenceId, nLastPreciousChainwork>>
vars == <<world, known, data, linked, scripts, flags, nSequenceId,
          nBlockSequenceId, precious, candidates, unlinked, tip,
          activating, pindexMostWork, commands>>

(***************************************************************************)
(* The tree.                                                               *)
(***************************************************************************)
\* b and its ancestors: the chain that ends in b.
Chain[b \in Block] == IF b = Genesis THEN {b} ELSE {b} \cup Chain[pprev[b]]

nChainWork[b \in Block] ==
    GetBlockProof[b] + IF b = Genesis THEN 0 ELSE nChainWork[pprev[b]]

\* CBlockIndexWorkComparator: a sorts before (is worse than) b under ids seq.
Worse(seq, a, b) ==
    \/ nChainWork[a] < nChainWork[b]
    \/ nChainWork[a] = nChainWork[b] /\ seq[a] > seq[b]
    \/ nChainWork[a] = nChainWork[b] /\ seq[a] = seq[b] /\ Address[a] > Address[b]

Best(S) == CHOOSE b \in S : \A c \in S \ {b} : Worse(nSequenceId, c, b)

Failed == failedValid \cup failedChild

chainActive == Chain[tip]

NotWorse(S, seq, t) == {b \in S : ~Worse(seq, b, t)}

(***************************************************************************)
(* FindMostWorkChain.  Candidates whose path to the active chain meets a   *)
(* failed block are dropped, best first, and the blocks above the failed   *)
(* one are marked, until the best candidate left has a clean path.         *)
(***************************************************************************)
OffChain(b) == Chain[b] \ chainActive

Usable == {b \in candidates : OffChain(b) \cap Failed = {}}

FindMostWorkChain == IF Usable = {} THEN NoBlock ELSE Best(Usable)

Dropped ==
    {b \in candidates \ Usable : \A c \in Usable : Worse(nSequenceId, c, b)}

\* The part of b's path from b down to the first failed block met.
FailedPath(b) ==
    LET last == CHOOSE f \in OffChain(b) \cap Failed :
                   \A g \in OffChain(b) \cap Failed : nHeight[g] <= nHeight[f]
    IN  {c \in Chain[b] : nHeight[c] >= nHeight[last]}

Removed == UNION {FailedPath(b) : b \in Dropped}

(***************************************************************************)
(* Initial state: the genesis block is stored and connected.               *)
(***************************************************************************)
Init ==
    /\ invalid \in SUBSET MayFail /\ Weightless \subseteq invalid
    /\ badBody \in SUBSET MayFail
    /\ known = {Genesis} /\ data = {Genesis} /\ linked = {Genesis}
    /\ scripts = {Genesis}
    /\ failedValid = {} /\ failedChild = {} /\ gFailed = {}
    /\ nSequenceId = [b \in Block |-> IF b = Genesis THEN 1 ELSE 0]
    /\ nBlockSequenceId = 2
    /\ nBlockReverseSequenceId = -1 /\ nLastPreciousChainwork = 0
    /\ candidates = {Genesis} /\ unlinked = {}
    /\ tip = Genesis
    /\ activating = {} /\ pindexMostWork = [t \in Thread |-> NoBlock]
    /\ commands = 0

EnterActivateBestChain(t) ==
    /\ activating' = activating \cup {t}
    /\ pindexMostWork' = [pindexMostWork EXCEPT ![t] = NoBlock]

NoActivation == UNCHANGED <<activating, pindexMostWork>>

(***************************************************************************)
(* AcceptBlockHeader: the header is known and not failed, or is new and    *)
(* can be added, or descends from a block of g_failed_blocks, in which     *)
(* case the chain up to its parent is marked and the header refused.       *)
(* The refusals that change nothing are left to stuttering.                *)
(***************************************************************************)
ParentGood(b) == b \notin known /\ pprev[b] \in known \ Failed

FailedAncestors(b) ==
    IF pprev[b] \in scripts THEN {} ELSE Chain[pprev[b]] \cap gFailed

HeaderAccepted(b) ==
    \/ b \in known \ Failed
    \/ ParentGood(b) /\ FailedAncestors(b) = {}

RefuseDescendant(b) ==
    /\ b # Genesis /\ ParentGood(b)
    /\ \E failedit \in FailedAncestors(b) :
         failedChild' = failedChild \cup (Chain[pprev[b]] \ Chain[failedit])
    /\ UNCHANGED <<world, known, data, linked, scripts, failedValid, gFailed,
                   nSequenceId, nBlockSequenceId, precious, candidates,
                   unlinked, tip, activating, pindexMostWork, commands>>

AddToBlockIndex(b) ==
    /\ b # Genesis /\ ParentGood(b) /\ FailedAncestors(b) = {}
    /\ known' = known \cup {b}
    /\ UNCHANGED <<world, data, linked, scripts, flags, nSequenceId,
                   nBlockSequenceId, precious, candidates, unlinked, tip,
                   activating, pindexMostWork, commands>>

(***************************************************************************)
(* ReceivedBlockTransactions: store the block; when its parent is linked,  *)
(* link it and every stored descendant waiting in mapBlocksUnlinked, in    *)
(* breadth-first order (siblings in an order the multimap decides).        *)
(***************************************************************************)
NowLinked(b) ==
    {b} \cup {c \in unlinked : b \in Chain[c] /\ Chain[c] \ Chain[b] \subseteq unlinked}

LinkOrders(S) ==
    {f \in [S -> 0 .. Cardinality(S) - 1] :
        /\ \A c, d \in S : f[c] = f[d] => c = d
        /\ \A c, d \in S : nHeight[c] < nHeight[d] => f[c] < f[d]}

Link(b) ==
    /\ pprev[b] \in linked
    /\ \E order \in LinkOrders(NowLinked(b)) :
         nSequenceId' = [c \in Block |-> IF c \in NowLinked(b)
                                         THEN nBlockSequenceId + order[c]
                                         ELSE nSequenceId[c]]
    /\ nBlockSequenceId' = nBlockSequenceId + Cardinality(NowLinked(b))
    /\ linked' = linked \cup NowLinked(b)
    /\ candidates' = candidates \cup NotWorse(NowLinked(b), nSequenceId', tip)
    /\ unlinked' = unlinked \ NowLinked(b)

Park(b) ==
    /\ pprev[b] \notin linked
    /\ unlinked' = unlinked \cup (IF pprev[b] \in Failed THEN {} ELSE {b})
    /\ UNCHANGED <<nSequenceId, nBlockSequenceId, linked, candidates>>

ReceivedBlockTransactions(b) ==
    /\ data' = data \cup {b}
    /\ Link(b) \/ Park(b)

(***************************************************************************)
(* ProcessNewBlock up to ActivateBestChain, AcceptBlock included.          *)
(***************************************************************************)
fTooFarAhead(b) == nHeight[b] > nHeight[tip] + MIN_BLOCKS_TO_KEEP

NotWanted(b, fRequested) ==
    \/ b \in data
    \/ /\ ~fRequested
       /\ \/ nChainWork[b] <= nChainWork[tip]
          \/ fTooFarAhead(b)
          \/ nChainWork[b] < nMinimumChainWork

AcceptBlock(t, b, fRequested) ==
    /\ known' = known \cup {b}
    /\ \/ /\ NotWanted(b, fRequested)
          /\ EnterActivateBestChain(t)
          /\ UNCHANGED <<data, linked, failedValid, nSequenceId,
                         nBlockSequenceId, candidates, unlinked>>
       \/ /\ ~NotWanted(b, fRequested) /\ b \in badBody
          /\ failedValid' = failedValid \cup {b}
          /\ NoActivation
          /\ UNCHANGED <<data, linked, nSequenceId, nBlockSequenceId,
                         candidates, unlinked>>
       \/ /\ ~NotWanted(b, fRequested) /\ b \notin badBody
          /\ ReceivedBlockTransactions(b)
          /\ EnterActivateBestChain(t)
          /\ UNCHANGED failedValid

ProcessNewBlock(t, b, fRequested) ==
    /\ t \notin activating /\ b # Genesis
    /\ HeaderAccepted(b)
    /\ AcceptBlock(t, b, fRequested)
    /\ UNCHANGED <<world, scripts, failedChild, gFailed, precious, tip, commands>>

(***************************************************************************)
(* ActivateBestChainStep towards mostWork, once FindMostWorkChain left the *)
(* candidates cand: disconnect to the fork, then connect until a block     *)
(* fails, the work of the old tip is exceeded, or mostWork is reached.     *)
(***************************************************************************)
ToConnect(mostWork) == Chain[mostWork] \ chainActive

\* Mutant: the lock is released after every block.
StopAtFirst(mostWork) ==
    CHOOSE c \in ToConnect(mostWork) : Chain[c] \cap ToConnect(mostWork) = {c}

\* Mutant: the failure of a block on the way is not looked at.
StopAtBetter(mostWork) ==
    CHOOSE c \in ToConnect(mostWork) :
        /\ nChainWork[c] > nChainWork[tip] \/ c = mostWork
        /\ \A d \in Chain[c] \cap ToConnect(mostWork) :
              d = c \/ nChainWork[d] <= nChainWork[tip]

\* The block at which the loop over vpindexToConnect ends.
StopAt(mostWork) ==
    CHOOSE c \in ToConnect(mostWork) :
        /\ c \in invalid \/ nChainWork[c] > nChainWork[tip] \/ c = mostWork
        /\ \A d \in Chain[c] \cap ToConnect(mostWork) :
              d = c \/ (d \notin invalid /\ nChainWork[d] <= nChainWork[tip])

\* Mutant: PruneBlockIndexCandidates is not called.
ConnectWithoutPrune(last, mostWork, cand) ==
    /\ tip' = last
    /\ scripts' = scripts \cup ((Chain[last] \cap ToConnect(mostWork)) \ Failed)
    /\ candidates' = cand

ConnectTo(last, mostWork, cand) ==
    LET connected == Chain[last] \cap ToConnect(mostWork)
    IN  /\ tip' = last
        /\ scripts' = scripts \cup (connected \ Failed)
        /\ candidates' =
              IF connected = {} THEN cand ELSE NotWorse(cand, nSequenceId, last)

\* Mutant: the goal is not wiped.
StepFailsKeepingGoal(t, mostWork, cand) ==
    LET bad == StopAt(mostWork)
    IN  /\ ToConnect(mostWork) # {} /\ bad \in invalid
        /\ ConnectTo(pprev[bad], mostWork, cand \ {bad})
        /\ failedValid' = failedValid \cup {bad}
        /\ gFailed' = gFailed \cup {bad}
        /\ pindexMostWork' = [pindexMostWork EXCEPT ![t] = mostWork]
        /\ UNCHANGED activating

\* Mutant: InvalidBlockFound does nothing, as for a corrupted block.
StepFailsForgetting(t, mostWork, cand) ==
    LET bad == StopAt(mostWork)
    IN  /\ ToConnect(mostWork) # {} /\ bad \in invalid
        /\ ConnectTo(pprev[bad], mostWork, cand)
        /\ pindexMostWork' = [pindexMostWork EXCEPT ![t] = NoBlock]
        /\ UNCHANGED <<activating, failedValid, gFailed>>

\* A block on the way fails: InvalidBlockFound, and the goal is wiped.
StepFails(t, mostWork, cand) ==
    LET bad == StopAt(mostWork)
    IN  /\ ToConnect(mostWork) # {} /\ bad \in invalid
        /\ ConnectTo(pprev[bad], mostWork, cand \ {bad})
        /\ failedValid' = failedValid \cup {bad}
        /\ gFailed' = gFailed \cup {bad}
        /\ pindexMostWork' = [pindexMostWork EXCEPT ![t] = NoBlock]
        /\ UNCHANGED activating

\* Mutant: the call returns after its first step.
StepAndReturn(t, mostWork, cand) ==
    LET last == IF ToConnect(mostWork) = {} THEN mostWork ELSE StopAt(mostWork)
    IN  /\ last \notin invalid
        /\ ConnectTo(last, mostWork, cand)
        /\ pindexMostWork' = [pindexMostWork EXCEPT ![t] = NoBlock]
        /\ activating' = activating \ {t}
        /\ UNCHANGED <<failedValid, gFailed>>

StepSucceeds(t, mostWork, cand) ==
    LET last == IF ToConnect(mostWork) = {} THEN mostWork ELSE StopAt(mostWork)
    IN  /\ last \notin invalid
        /\ ConnectTo(last, mostWork, cand)
        /\ pindexMostWork' =
              [pindexMostWork EXCEPT ![t] = IF last = mostWork THEN NoBlock ELSE mostWork]
        /\ activating' = IF last = mostWork THEN activating \ {t} ELSE activating
        /\ UNCHANGED <<failedValid, gFailed>>

\* One critical section of ActivateBestChain's loop.
ActivateBestChain(t) ==
    /\ t \in activating
    /\ LET cached == pindexMostWork[t] # NoBlock
       IN  \E mostWork \in {IF cached THEN pindexMostWork[t] ELSE FindMostWorkChain},
              removed \in {IF cached THEN {} ELSE Removed} :
             /\ failedChild' = failedChild \cup (removed \ Failed)
             /\ IF mostWork \in {NoBlock, tip}
                THEN /\ activating' = activating \ {t}
                     /\ pindexMostWork' = [pindexMostWork EXCEPT ![t] = NoBlock]
                     /\ candidates' = candidates \ removed
                     /\ UNCHANGED <<tip, scripts, failedValid, gFailed>>
                ELSE \/ StepFails(t, mostWork, candidates \ removed)
                     \/ StepSucceeds(t, mostWork, candidates \ removed)
    /\ UNCHANGED <<world, known, data, linked, nSequenceId,
                   nBlockSequenceId, precious, unlinked, commands>>

(***************************************************************************)
(* The RPCs; each goes on to ActivateBestChain.                            *)
(***************************************************************************)
Command(t, name) ==
    /\ name \in Commands /\ commands < MaxCommands /\ t \notin activating
    /\ commands' = commands + 1
    /\ EnterActivateBestChain(t)

\* Mutant: the block is marked, and the chain above it stays active.
MarkOnly(t, b) ==
    /\ Command(t, "invalidateblock")
    /\ b \in known \ {Genesis}
    /\ failedValid' = failedValid \cup {b}
    /\ gFailed' = gFailed \cup {b}
    /\ candidates' = candidates \ {b}
    /\ UNCHANGED <<world, known, data, linked, scripts, failedChild,
                   nSequenceId, nBlockSequenceId, precious, unlinked, tip>>

\* Disconnect the chain down to b's parent, mark what was disconnected and b,
\* and put back every valid block at least as good as the new tip.
InvalidateBlock(t, b) ==
    LET inChain == b \in chainActive
        above == IF inChain THEN chainActive \ Chain[b] ELSE {}
        newTip == IF inChain THEN pprev[b] ELSE tip
    IN  /\ Command(t, "invalidateblock")
        /\ b \in known \ {Genesis}
        /\ tip' = newTip
        /\ failedChild' = failedChild \cup above
        /\ failedValid' = failedValid \cup {b}
        /\ gFailed' = gFailed \cup {b}
        /\ candidates' = (candidates \ (above \cup {b})) \cup
              NotWorse(linked \ (Failed \cup above \cup {b}),
                       nSequenceId, newTip)
        /\ UNCHANGED <<world, known, data, linked, scripts, nSequenceId,
                       nBlockSequenceId, precious, unlinked>>

\* Clear the flags of b, of its descendants and of its ancestors; only b and
\* the descendants leave g_failed_blocks and become candidates again.
ResetBlockFailureFlags(t, b) ==
    LET below == {c \in known : b \in Chain[c]}
    IN  /\ Command(t, "reconsiderblock")
        /\ b \in known
        /\ failedValid' = failedValid \ (below \cup Chain[b])
        /\ failedChild' = failedChild \ (below \cup Chain[b])
        /\ gFailed' = gFailed \ below
        /\ candidates' = candidates \cup
              {c \in below \cap Failed \cap linked : Worse(nSequenceId, tip, c)}
        /\ UNCHANGED <<world, known, data, linked, scripts, nSequenceId,
                       nBlockSequenceId, precious, unlinked, tip>>

PreciousBlock(t, b) ==
    LET id == IF nChainWork[tip] > nLastPreciousChainwork
              THEN -1 ELSE nBlockReverseSequenceId
        seq == [nSequenceId EXCEPT ![b] = id]
    IN  /\ Command(t, "preciousblock")
        /\ b \in known
        /\ nChainWork[b] >= nChainWork[tip]
        /\ nLastPreciousChainwork' = nChainWork[tip]
        /\ nSequenceId' = seq
        /\ nBlockReverseSequenceId' = IF id > MinSequenceId THEN id - 1 ELSE id
        /\ candidates' = IF b \in linked \ Failed
                         THEN NotWorse(candidates \cup {b}, seq, tip)
                         ELSE candidates \ {b}
        /\ UNCHANGED <<world, known, data, linked, scripts, flags,
                       nBlockSequenceId, unlinked, tip>>

(***************************************************************************)
(* A restart: LoadBlockIndexDB rebuilds what is only in memory from the    *)
(* flags on disk, LoadChainTip prunes the candidates, and ThreadImport     *)
(* runs ActivateBestChain.  A shutdown ends the loops of the other         *)
(* threads.  (Crashes are the subject of ChainstateDB.)                    *)
(***************************************************************************)
LoadBlockIndexDB(t) ==
    LET child == failedChild \cup
                   {b \in known \ failedValid : Chain[b] \cap Failed # {}}
        chained == {b \in data : Chain[b] \subseteq data}
        seq == [b \in Block |-> 0]
    IN  /\ "restart" \in Commands /\ commands < MaxCommands
        /\ commands' = commands + 1
        /\ activating' = {t}
        /\ pindexMostWork' = [u \in Thread |-> NoBlock]
        /\ failedChild' = child
        /\ gFailed' = {}
        /\ nSequenceId' = seq
        /\ nBlockSequenceId' = 1
        /\ nBlockReverseSequenceId' = -1
        /\ nLastPreciousChainwork' = 0
        /\ linked' = chained
        /\ unlinked' = {b \in data \ {Genesis} : pprev[b] \notin chained}
        /\ candidates' = NotWorse(chained \ (failedValid \cup child), seq, tip)
        /\ UNCHANGED <<world, known, data, scripts, failedValid, tip>>

HeaderArrives(b) == RefuseDescendant(b) \/ AddToBlockIndex(b)

Next ==
    \/ \E b \in Block : HeaderArrives(b)
    \/ \E t \in Thread : ActivateBestChain(t) \/ LoadBlockIndexDB(t)
    \/ \E t \in Thread, b \in Block :
          \/ InvalidateBlock(t, b) \/ ResetBlockFailureFlags(t, b)
          \/ PreciousBlock(t, b)
          \/ \E fRequested \in BOOLEAN : ProcessNewBlock(t, b, fRequested)

\* A thread in ActivateBestChain's loop goes on: cs_main is always released.
Spec == Init /\ [][Next]_vars /\ \A t \in Thread : WF_vars(ActivateBestChain(t))

-----------------------------------------------------------------------------
(* Type invariant. *)
TypeOK ==
    /\ {invalid, badBody} \subseteq SUBSET MayFail /\ Weightless \subseteq invalid
    /\ {known, data, linked, scripts, failedValid, failedChild, gFailed,
        candidates, unlinked} \subseteq SUBSET Block
    /\ data \cup failedValid \cup failedChild \subseteq known
    /\ \A b \in known : Chain[b] \subseteq known
    /\ nSequenceId \in [Block -> Int]
    /\ {nBlockSequenceId, nLastPreciousChainwork} \subseteq Nat
    /\ nBlockReverseSequenceId \in MinSequenceId .. -1
    /\ tip \in known
    /\ activating \subseteq Thread
    /\ pindexMostWork \in [Thread -> Block \cup {NoBlock}]
    /\ commands \in 0 .. MaxCommands

(* ReceivedBlockTransactions links a block (sets nChainTx) only when its whole
   chain was received, and links every chain without an invalid block as soon
   as it is received, whatever the order of arrival. *)
ReceivedIsLinked ==
    \A b \in known :
        /\ b \in linked => Chain[b] \subseteq data
        /\ Chain[b] \subseteq data \ failedValid => b \in linked

(* mapBlocksUnlinked holds every stored block that waits for an ancestor, so
   that it is linked when the ancestor comes (CheckBlockIndex's checks of
   foundInUnlinked). *)
UnlinkedIsComplete ==
    \A b \in known \ {Genesis} :
        /\ b \in data \ linked /\ Chain[b] \cap failedValid = {} => b \in unlinked
        /\ b \in unlinked => b \in data \ linked

(* A failure mark has a cause: a block is marked failed only when it or an
   ancestor is marked BLOCK_FAILED_VALID ("The failed mask cannot be set for
   blocks without invalid parents"). *)
FailedHasCause ==
    \A b \in Failed : Chain[b] \cap failedValid # {}

(* The assertion in AcceptBlockHeader: an entry of g_failed_blocks found among
   the ancestors of a new header's parent carries BLOCK_FAILED_VALID. *)
FailedSetIsFailed ==
    \A b \in Block \ {Genesis} :
        ParentGood(b) => FailedAncestors(b) \subseteq failedValid

(* The active chain was fully verified and holds no block marked failed
   (FindMostWorkChain: "we know all blocks in it are valid already"). *)
ActiveChainIsValid ==
    chainActive \subseteq (linked \cap scripts) \ (Failed \cup invalid)

(* CheckBlockIndex's check of setBlockIndexCandidates between calls of
   ActivateBestChain: every linked block without an invalid ancestor that
   sorts at least as good as the tip is there, the tip included, and no block
   that sorts worse or is not linked. *)
CandidatesAreRight ==
    activating = {} =>
        \A b \in known :
            IF b \in linked /\ ~Worse(nSequenceId, b, tip)
            THEN Chain[b] \cap failedValid = {} => b \in candidates
            ELSE b \notin candidates

(* What CheckBlockIndex asserts of mapBlocksUnlinked, of the failure flags and
   of setBlockIndexCandidates, what AcceptBlockHeader asserts of
   g_failed_blocks, what ReceivedBlockTransactions promises, and the floor of
   PreciousBlock's counter. *)
IndexIsConsistent ==
    /\ ReceivedIsLinked /\ UnlinkedIsComplete
    /\ FailedHasCause /\ FailedSetIsFailed /\ CandidatesAreRight
    /\ nBlockReverseSequenceId >= MinSequenceId

(* "The result is either failure or an activated best chain": once no thread
   is in ActivateBestChain, no linked chain free of failed and of invalid
   blocks is better than the active one. *)
BestChainIsActive ==
    activating = {} =>
        \A b \in linked :
            Chain[b] \cap (Failed \cup invalid) = {} => ~Worse(nSequenceId, tip, b)

(* A step never trades the active chain for one of less work, unless it
   meets, or the operator names, an invalid block. *)
WorkNeverDrops ==
    [][nChainWork[tip'] >= nChainWork[tip] \/ failedValid' # failedValid]_vars

(* A goal kept while cs_main was released is still worth going to: it is no
   worse than the tip and no failed block is on its path. *)
GoalIsFresh ==
    \A t \in activating :
        pindexMostWork[t] # NoBlock =>
            /\ Worse(nSequenceId, tip, pindexMostWork[t])
            /\ OffChain(pindexMostWork[t]) \cap Failed = {}

(* Liveness of ActivateBestChain's loop: every call returns, even when every
   goal it finds turns out to be invalid. *)
ActivationEnds ==
    \A t \in Thread : t \in activating ~> t \notin activating
=============================================================================
