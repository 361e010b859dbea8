------------------------------ MODULE Mempool ------------------------------
(***************************************************************************)
(* CTxMemPool under AcceptToMemoryPool, ConnectTip, DisconnectTip and      *)
(* UpdateMempoolForReorg, with the maps that the token layer keeps about   *)
(* unconfirmed issues and reissues.                                        *)
(*                                                                         *)
(* The pool is a record; what a method does to it is an operator.  One     *)
(* step of ActivateBestChain holds cs_main from the first DisconnectTip to *)
(* the end of UpdateMempoolForReorg: it is a sequence of actions during    *)
(* which phase is not "idle" and nothing else happens.  Sizes, fees and    *)
(* signature operations are kept by the same updates as the counts and are *)
(* left out, and so is the choice of what expires or is trimmed: any       *)
(* transaction may.  Replacement is disabled in the code.  Coinbases are   *)
(* left out.                                                               *)
(***************************************************************************)
EXTENDS Integers, FiniteSets, Sequences

CONSTANTS
    Tx,             \* transactions
    Name,           \* token names
    Coins,          \* the coins before the first block
    vin(_),         \* the outpoints a transaction spends
    vout(_),        \* the outpoints it creates
    issues(_),      \* the token names it issues, in the order of its outputs
    reissues(_),    \* the token names it reissues
    Block,          \* blocks: sequences of transactions
    MaxHeight,      \* bound on the chain
    LimitAncestors, \* -limitancestorcount
    LimitDescendants,
    MaxDisconnected,\* MAX_DISCONNECTED_TX_POOL_SIZE
    Restarts,       \* bound on the number of restarts
    None

ASSUME MempoolAssumption ==
    /\ IsFiniteSet(Tx) /\ None \notin Tx \cup Name
    /\ MaxHeight \in Nat /\ MaxDisconnected \in Nat /\ Restarts \in Nat
    /\ Block \subseteq Seq(Tx)

\* Coinbases are left out, an outpoint names the transaction that creates it, and
\* VerifyReissueToken wants one reissue in a transaction that has any.
ASSUME TxAssumption ==
    /\ \A t \in Tx : vin(t) # {} /\ vout(t) \cap Coins = {}
    /\ \A s, t \in Tx : s # t => vout(s) \cap vout(t) = {}
    /\ \A t \in Tx : issues(t) \in Seq(Name) /\ reissues(t) \subseteq Name
    /\ \A t \in Tx : \A m, n \in reissues(t) : m = n

\* Of SequencesExt, which the prover has no use for.
ToSet(s) == {s[x] : x \in DOMAIN s}
Last(s) == s[Len(s)]
Front(s) == SubSeq(s, 1, Len(s) - 1)
Reverse(s) == [x \in 1 .. Len(s) |-> s[(Len(s) - x) + 1]]

Outpoint == Coins \cup UNION {vout(t) : t \in Tx}

VARIABLES
    chain,              \* the active chain
    pool,               \* mapTx, mapLinks, the counts, mapNextTx and the token maps
    phase,              \* of ActivateBestChainStep
    disconnectpool,     \* queuedTx, in insertion order
    vHashUpdate,        \* the transactions UpdateMempoolForReorg has put back
    dat,                \* what LoadMempool still has to read of mempool.dat
    restarted           \* history: the number of restarts

vars == <<chain, pool, phase, disconnectpool, vHashUpdate, dat, restarted>>

EmptyPool ==
    [tx |-> {},
     parents |-> [t \in Tx |-> {}], children |-> [t \in Tx |-> {}],
     nAncestors |-> [t \in Tx |-> 0], nDescendants |-> [t \in Tx |-> 0],
     mapNextTx |-> [o \in Outpoint |-> None],
     mapTokenToHash |-> [n \in Name |-> None], mapHashToToken |-> [t \in Tx |-> None],
     mapReissuedTokens |-> [n \in Name |-> None], mapReissuedTx |-> [t \in Tx |-> None]]

Init ==
    /\ chain = <<>> /\ pool = EmptyPool
    /\ phase = "idle" /\ disconnectpool = <<>> /\ vHashUpdate = <<>>
    /\ dat = {} /\ restarted = 0

-----------------------------------------------------------------------------
(* The chain, as validation sees it                                        *)

Confirmed == UNION {ToSet(chain[h]) : h \in DOMAIN chain}
Created(S) == UNION {vout(t) : t \in S}
Spent(S) == UNION {vin(t) : t \in S}
Issued(S) == UNION {ToSet(issues(t)) : t \in S}

\* pcoinsTip
Unspent == (Coins \cup Created(Confirmed)) \ Spent(Confirmed)

\* Mutant: a reissue may spend an unconfirmed reissue.
ReissueAlwaysFree(t) == TRUE

\* CheckTxTokens on a reissue.
ReissueIsFree(t) == \A n \in reissues(t) : pool.mapReissuedTokens[n] \in {None, t}

\* ConnectBlock.  CheckTxTokens reads mapReissuedTokens here too.
ValidBlock(b) ==
    \A i \in DOMAIN b :
        LET before == {b[j] : j \in 1 .. i - 1}
        IN  /\ vin(b[i]) \subseteq (Unspent \cup Created(before)) \ Spent(before)
            /\ ToSet(issues(b[i])) \cap Issued(Confirmed \cup before) = {}
            /\ ReissueIsFree(b[i])

-----------------------------------------------------------------------------
(* CTxMemPool *)

\* What can be reached from S along the links.
Reach(link, S) ==
    LET reach[n \in 0 .. Cardinality(Tx)] ==
            IF n = 0 THEN S ELSE reach[n - 1] \cup UNION {link[t] : t \in reach[n - 1]}
    IN  reach[Cardinality(Tx)]

\* fSearchForParents
PoolParents(P, t) == {p \in P.tx : vout(p) \cap vin(t) # {}}
CalculateMemPoolAncestors(P, t) == Reach(P.parents, PoolParents(P, t))
Ancestors(P, t) == Reach(P.parents, P.parents[t])
CalculateDescendants(P, S) == Reach(P.children, S)

\* addUnchecked, with UpdateAncestorsOf and UpdateEntryForAncestors.
AddUnchecked(P, t) ==
    LET ancestors == CalculateMemPoolAncestors(P, t)
        parents == PoolParents(P, t)
    IN  [P EXCEPT
            !.tx = @ \cup {t},
            !.parents = [@ EXCEPT ![t] = parents],
            !.children = [x \in Tx |-> IF x \in parents THEN @[x] \cup {t}
                                       ELSE IF x = t THEN {} ELSE @[x]],
            !.nAncestors = [@ EXCEPT ![t] = Cardinality(ancestors) + 1],
            !.nDescendants = [x \in Tx |-> IF x = t THEN 1
                                           ELSE IF x \in ancestors THEN @[x] + 1 ELSE @[x]],
            !.mapNextTx = [o \in Outpoint |-> IF o \in vin(t) THEN t ELSE @[o]]]

\* UpdateForRemoveFromMempool.  The ancestors are those that the links know.
UpdateForRemove(P, S, updateDescendants) ==
    [P EXCEPT
        !.nAncestors = [x \in Tx |->
            @[x] - IF updateDescendants
                   THEN Cardinality({r \in S \ {x} : x \in CalculateDescendants(P, {r})}) ELSE 0],
        !.nDescendants = [x \in Tx |-> @[x] - Cardinality({r \in S : x \in Ancestors(P, r)})],
        !.children = [x \in Tx |-> @[x] \ {r \in S : x \in P.parents[r]}],
        !.parents = [x \in Tx |-> @[x] \ {r \in S : x \in P.children[r]}]]

\* removeUnchecked, for every transaction of S.
RemoveUnchecked(P, S) ==
    [tx |-> P.tx \ S,
     parents |-> [x \in Tx |-> IF x \in S THEN {} ELSE P.parents[x]],
     children |-> [x \in Tx |-> IF x \in S THEN {} ELSE P.children[x]],
     nAncestors |-> [x \in Tx |-> IF x \in S THEN 0 ELSE P.nAncestors[x]],
     nDescendants |-> [x \in Tx |-> IF x \in S THEN 0 ELSE P.nDescendants[x]],
     mapNextTx |-> [o \in Outpoint |-> IF o \in Spent(S) THEN None ELSE P.mapNextTx[o]],
     mapTokenToHash |-> [n \in Name |->
         IF \E r \in S : P.mapHashToToken[r] = n THEN None ELSE P.mapTokenToHash[n]],
     mapHashToToken |-> [x \in Tx |-> IF x \in S THEN None ELSE P.mapHashToToken[x]],
     mapReissuedTokens |-> [n \in Name |->
         IF \E r \in S : P.mapReissuedTx[r] = n THEN None ELSE P.mapReissuedTokens[n]],
     mapReissuedTx |-> [x \in Tx |->
         IF x \in S /\ P.mapReissuedTx[x] # None /\ P.mapReissuedTokens[P.mapReissuedTx[x]] # None
         THEN None ELSE P.mapReissuedTx[x]]]

RemoveStaged(P, S, updateDescendants) ==
    RemoveUnchecked(UpdateForRemove(P, S \cap P.tx, updateDescendants), S \cap P.tx)

\* removeRecursive: t with its descendants or, if it is not in the pool, the
\* transactions that spend its outputs with theirs.
RemoveRecursive(P, t) ==
    LET children == {P.mapNextTx[o] : o \in vout(t)} \ {None}
        start == IF t \in P.tx THEN {t} ELSE children
    IN  RemoveStaged(P, CalculateDescendants(P, start), FALSE)
\* removeConflicts
RemoveConflicts(P, t) ==
    LET conflicts == {P.mapNextTx[o] : o \in vin(t)} \ {None, t}
    IN  RemoveStaged(P, CalculateDescendants(P, conflicts), FALSE)

\* One round of either loop of removeForBlock.
RemoveMined(P, t) == RemoveConflicts(RemoveStaged(P, {t}, TRUE), t)

RemoveAll(P, s) ==
    LET after[i \in 0 .. Len(s)] == IF i = 0 THEN P ELSE RemoveMined(after[i - 1], s[i])
    IN  after[Len(s)]

\* The pool's issues of the names that a block issues, in an order: setNewTokens
\* is sorted by name.
LosesName(P, b) == {P.mapTokenToHash[n] : n \in Issued(ToSet(b))} \cap P.tx
Orders(S) == {s \in [1 .. Cardinality(S) -> S] : ToSet(s) = S}

\* Mutant: an issue that lost its name to the block stays in the pool.
RemoveForBlockKeepingIssues(P, b, trans) == RemoveAll(P, b)

\* removeForBlock: the block's transactions and what conflicts with them, then
\* the pool's issues of the names that the block issues.
RemoveForBlock(P, b, trans) == RemoveAll(RemoveAll(P, b), trans)

\* Mutant: the ancestor counts of the descendants are not updated.
LinkToDescendants(P, t, included) ==
    LET new == {P.mapNextTx[o] : o \in vout(t)} \ (included \cup {None})
    IN  [P EXCEPT !.children = [@ EXCEPT ![t] = @ \cup new],
                  !.parents = [x \in Tx |-> IF x \in new THEN @[x] \cup {t} ELSE @[x]]]

\* One round of UpdateTransactionsFromBlock, with UpdateForDescendants.  The
\* descendants that are cached there are the ones that are counted here.
UpdateForDescendants(P, t, included) ==
    LET new == {P.mapNextTx[o] : o \in vout(t)} \ (included \cup {None})
        children == [P.children EXCEPT ![t] = @ \cup new]
        descendants == Reach(children, children[t]) \ included
    IN  [P EXCEPT
            !.children = children,
            !.parents = [x \in Tx |-> IF x \in new THEN @[x] \cup {t} ELSE @[x]],
            !.nAncestors = [x \in Tx |-> IF x \in descendants THEN @[x] + 1 ELSE @[x]],
            !.nDescendants = [P.nDescendants EXCEPT ![t] = @ + Cardinality(descendants)]]

UpdateTransactionsFromBlock(P, s) ==
    LET after[i \in 0 .. Len(s)] ==
            IF i = 0 THEN P
            ELSE LET t == s[Len(s) + 1 - i]
                 IN  IF t \in P.tx THEN UpdateForDescendants(after[i - 1], t, ToSet(s))
                     ELSE after[i - 1]
    IN  after[Len(s)]

\* removeForReorg, and LimitMempoolSize, which is Expire and TrimToSize: what
\* they choose goes with its descendants.
Evict(P, S) == RemoveStaged(P, CalculateDescendants(P, S \cap P.tx), FALSE)

-----------------------------------------------------------------------------
(* AcceptToMemoryPool *)

Acceptable(t) ==
    /\ t \notin pool.tx
    /\ \A o \in vin(t) : pool.mapNextTx[o] = None
    /\ vin(t) \subseteq Unspent \cup Created(pool.tx)
    /\ \A n \in ToSet(issues(t)) : n \notin Issued(Confirmed) /\ pool.mapTokenToHash[n] = None
    /\ reissues(t) \subseteq Issued(Confirmed) /\ ReissueIsFree(t)
    /\ LET ancestors == CalculateMemPoolAncestors(pool, t)
       IN  /\ Cardinality(ancestors) + 1 <= LimitAncestors
           /\ \A a \in ancestors : pool.nDescendants[a] + 1 <= LimitDescendants

\* The insertions into the token maps at the end.  A name is put in the map of
\* hashes over the one before it.
RegisterTokens(P, t) ==
    LET names == issues(t)
    IN  [P EXCEPT
            !.mapTokenToHash = [n \in Name |-> IF n \in ToSet(names) THEN t ELSE @[n]],
            !.mapHashToToken = [P.mapHashToToken EXCEPT ![t] =
                IF names = <<>> THEN @ ELSE names[Len(names)]],
            !.mapReissuedTokens = [n \in Name |->
                IF n \in reissues(t) /\ @[n] = None THEN t ELSE @[n]],
            !.mapReissuedTx = [P.mapReissuedTx EXCEPT ![t] =
                IF @ = None /\ \E n \in reissues(t) : P.mapReissuedTokens[n] = None
                THEN CHOOSE n \in reissues(t) : P.mapReissuedTokens[n] = None ELSE @]]

\* The pool after t was accepted and the pool was limited.
Accepted(t, evicted) ==
    LET added == Evict(AddUnchecked(pool, t), evicted)
    IN  IF t \in added.tx THEN RegisterTokens(added, t) ELSE added

SmallSets(S) == {{}} \cup {{x} : x \in S}

AcceptToMemoryPool(t) ==
    /\ phase = "idle" /\ Acceptable(t)
    /\ \E evicted \in SmallSets(pool.tx \cup {t}) : pool' = Accepted(t, evicted)
    /\ UNCHANGED <<chain, phase, disconnectpool, vHashUpdate, dat, restarted>>
-----------------------------------------------------------------------------
(* ActivateBestChainStep and InvalidateBlock *)

Tip == chain[Len(chain)]

\* The earliest entries beyond the limit leave the disconnectpool, and what
\* spends them leaves the pool.
Overflow(P, q) ==
    LET excess == IF Len(q) > MaxDisconnected THEN Len(q) - MaxDisconnected ELSE 0
        after[i \in 0 .. excess] == IF i = 0 THEN P ELSE RemoveRecursive(after[i - 1], q[i])
    IN  <<after[excess], SubSeq(q, excess + 1, Len(q))>>

DisconnectTip ==
    /\ phase \in {"idle", "disconnecting"} /\ chain # <<>>
    /\ LET kept == Overflow(pool, disconnectpool \o Reverse(Tip))
       IN  pool' = kept[1] /\ disconnectpool' = kept[2]
    /\ chain' = Front(chain) /\ phase' = "disconnecting"
    /\ UNCHANGED <<vHashUpdate, dat, restarted>>

\* A confirmed reissue no longer blocks the next one.
FreeReissues(P, b) ==
    LET mined == {t \in ToSet(b) : P.mapReissuedTx[t] # None}
    IN  [P EXCEPT
            !.mapReissuedTokens = [n \in Name |->
                IF \E t \in mined : P.mapReissuedTx[t] = n THEN None ELSE @[n]],
            !.mapReissuedTx = [t \in Tx |-> IF t \in mined THEN None ELSE @[t]]]

\* Mutant: a transaction that is confirmed again stays in the disconnectpool.
QueueKept(q, b) == q

\* DisconnectedBlockTransactions::removeForBlock
QueueWithout(q, b) ==
    LET kept[x \in 0 .. Len(q)] ==
            IF x = 0 THEN <<>>
            ELSE IF q[x] \in ToSet(b) THEN kept[x - 1] ELSE Append(kept[x - 1], q[x])
    IN  kept[Len(q)]

ConnectTip(b) ==
    /\ phase \in {"idle", "disconnecting", "connecting"}
    /\ Len(chain) < MaxHeight /\ ValidBlock(b)
    /\ \E trans \in Orders(LosesName(pool, b)) :
           pool' = RemoveForBlock(FreeReissues(pool, b), b, trans)
    /\ disconnectpool' = QueueWithout(disconnectpool, b)
    /\ chain' = Append(chain, b)
    /\ phase' = IF phase = "idle" THEN "idle" ELSE "connecting"
    /\ UNCHANGED <<vHashUpdate, dat, restarted>>

\* The blocks are connected, or one of them was refused: UpdateMempoolForReorg
\* puts the transactions back or, after an error of the system, only removes.
StepEnds(fAddToMempool) ==
    /\ phase \in {"disconnecting", "connecting"}
    /\ phase' = IF fAddToMempool THEN "adding" ELSE "erasing"
    /\ UNCHANGED <<chain, pool, disconnectpool, vHashUpdate, dat, restarted>>

\* One round of UpdateMempoolForReorg's loop, from the back of the queue.
PutBack ==
    /\ phase = "adding" /\ disconnectpool # <<>> /\ Acceptable(Last(disconnectpool))
    /\ pool' = Accepted(Last(disconnectpool), {})
    /\ vHashUpdate' = Append(vHashUpdate, Last(disconnectpool))
    /\ disconnectpool' = Front(disconnectpool)
    /\ UNCHANGED <<chain, phase, dat, restarted>>

\* AcceptToMemoryPool may refuse it for reasons that are not modelled too.
GiveUp ==
    /\ phase \in {"adding", "erasing"} /\ disconnectpool # <<>>
    /\ pool' = RemoveRecursive(pool, Last(disconnectpool))
    /\ disconnectpool' = Front(disconnectpool)
    /\ UNCHANGED <<chain, phase, vHashUpdate, dat, restarted>>

\* The rest of UpdateMempoolForReorg.
ReorgEnds ==
    /\ phase \in {"adding", "erasing"} /\ disconnectpool = <<>>
    /\ \E evicted \in SmallSets(pool.tx) :
           pool' = Evict(UpdateTransactionsFromBlock(pool, vHashUpdate), evicted)
    /\ vHashUpdate' = <<>> /\ phase' = "idle"
    /\ UNCHANGED <<chain, disconnectpool, dat, restarted>>

-----------------------------------------------------------------------------
(* DumpMempool and WriteReissuedMempoolState, then ReadReissuedMempoolState *)
(* and LoadMempool, which runs in a thread of its own                       *)

Restart ==
    /\ phase = "idle" /\ restarted < Restarts
    /\ dat' = pool.tx
    /\ pool' = [EmptyPool EXCEPT
            !.mapReissuedTokens = pool.mapReissuedTokens,
            !.mapReissuedTx = [t \in Tx |->
                IF \E n \in Name : pool.mapReissuedTokens[n] = t
                THEN CHOOSE n \in Name : pool.mapReissuedTokens[n] = t ELSE None]]
    /\ restarted' = restarted + 1
    /\ UNCHANGED <<chain, phase, disconnectpool, vHashUpdate>>

\* The file is sorted by the number of ancestors.
NextToLoad(t) == t \in dat /\ \A p \in dat : vout(p) \cap vin(t) = {}

LoadMempool(t) ==
    /\ phase = "idle" /\ NextToLoad(t)
    /\ dat' = dat \ {t}
    /\ \/ Acceptable(t) /\ pool' = Accepted(t, {})
       \/ UNCHANGED pool
    /\ UNCHANGED <<chain, phase, disconnectpool, vHashUpdate, restarted>>

-----------------------------------------------------------------------------
Next ==
    \/ \E t \in Tx : AcceptToMemoryPool(t) \/ LoadMempool(t)
    \/ DisconnectTip
    \/ \E b \in Block : ConnectTip(b)
    \/ \E fAddToMempool \in BOOLEAN : StepEnds(fAddToMempool)
    \/ PutBack \/ GiveUp \/ ReorgEnds
    \/ Restart

Spec == Init /\ [][Next]_vars

-----------------------------------------------------------------------------
(* Properties *)

\* What CTxMemPool::check asserts after every step of ActivateBestChain: the
\* inputs of every transaction are available, mapNextTx and the links say
\* exactly who spends whom, and the counts of ancestors and descendants are
\* those that a walk over the transactions finds.
PoolIsConsistent ==
    phase = "idle" =>
        LET parents == [t \in Tx |-> IF t \in pool.tx THEN PoolParents(pool, t) ELSE {}]
        IN  /\ pool.parents = parents
            /\ pool.children = [t \in Tx |-> {c \in pool.tx : t \in parents[c]}]
            /\ \A t \in pool.tx :
                   /\ vin(t) \subseteq Unspent \cup Created(pool.tx)
                   /\ pool.nAncestors[t] = Cardinality(Reach(parents, {t}))
                   /\ pool.nDescendants[t] = Cardinality({d \in pool.tx : t \in Reach(parents, {d})})
            /\ \A o \in Outpoint :
                   {t \in pool.tx : o \in vin(t)} = {pool.mapNextTx[o]} \ {None}

\* The locks on tokens with an unconfirmed reissue: every reissue in the pool
\* holds the lock of its token, mapReissuedTx is the inverse of
\* mapReissuedTokens and, until the node is restarted, nothing else holds one.
ReissuesAreLocked ==
    phase = "idle" =>
        /\ \A t \in pool.tx : \A n \in reissues(t) : pool.mapReissuedTokens[n] = t
        /\ \A n \in Name, t \in Tx :
               pool.mapReissuedTokens[n] = t <=> pool.mapReissuedTx[t] = n
        /\ restarted = 0 => \A n \in Name : pool.mapReissuedTokens[n] \in pool.tx \cup {None}

\* A name is issued once: by the chain or by one transaction of the pool,
\* which is the one that mapTokenToHash reserves the name for.
NamesAreReserved ==
    phase = "idle" =>
        \A n \in Name :
            /\ {t \in pool.tx : n \in ToSet(issues(t))} = {pool.mapTokenToHash[n]} \ {None}
            /\ pool.mapTokenToHash[n] # None => n \notin Issued(Confirmed)

\* The assumption of UpdateMempoolForReorg: the disconnectpool only contains
\* transactions that are neither confirmed in the current chain nor in the
\* pool, and it is empty when the step is over.
QueueIsUnconfirmed ==
    /\ ToSet(disconnectpool) \cap (Confirmed \cup pool.tx) = {}
    /\ phase = "idle" => disconnectpool = <<>>
=============================================================================
