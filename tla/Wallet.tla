------------------------------- MODULE Wallet -------------------------------
(***************************************************************************)
(* CWallet behind the validation interface.  The node changes the chain    *)
(* and the pool under cs_main and queues what it tells the wallet; the     *)
(* scheduler's thread delivers one callback at a time, in order (module    *)
(* CallbackQueue), while RPC threads commit, resend and abandon            *)
(* transactions against a wallet that may lag behind the node.             *)
(*                                                                         *)
(* A block is named by the chain that ends with it.  The pool is what      *)
(* module Mempool makes of it, without counts and tokens.  Amounts, keys   *)
(* and the wallet's file are left out; BlockUntilSyncedToCurrentChain      *)
(* returns before the RPC takes the locks and so restrains nothing here.   *)
(***************************************************************************)
EXTENDS Integers, FiniteSets, SequencesExt

CONSTANTS
    Tx,             \* transactions, all of them to or from the wallet
    Coins,          \* the wallet's coins before the first block
    vin(_),         \* the outpoints a transaction spends
    vout(_),        \* the outpoints it creates
    Sent,           \* the transactions that the wallet itself creates
    CoinStake,      \* the wallet's coinstakes
    Block,          \* the contents of blocks: sequences of transactions
    HashOrder,      \* Tx in the order of the transaction hashes
    MaxHeight,      \* bound on the chain
    MaxQueue,       \* bound on how far the wallet lags
    MaxSpends,      \* bound on the entries of one transaction in mapTxSpends
    Restarts,       \* bound on the number of restarts
    Null, ABANDON_HASH

ASSUME WalletAssumption ==
    /\ IsFiniteSet(Tx) /\ Sent \subseteq Tx /\ CoinStake \subseteq Tx
    /\ Block \subseteq Seq(Tx) /\ HashOrder \in Seq(Tx) /\ ToSet(HashOrder) = Tx
    /\ MaxHeight \in Nat /\ MaxQueue \in Nat /\ MaxSpends \in Nat /\ Restarts \in Nat

VARIABLES
    node,       \* the active chain, the pool, the callbacks queued, ConnectTrace
    wallet,     \* mapWallet's transactions and their fields, mapTxSpends
    aborted,    \* an assertion of AbandonTransaction has failed
    restarted   \* history: the number of restarts

vars == <<node, wallet, aborted, restarted>>

Init ==
    /\ node = [chain |-> <<>>, pool |-> {}, queue |-> <<>>, trace |-> <<>>]
    /\ wallet = [mapWallet |-> {}, hashBlock |-> [t \in Tx |-> Null],
                 nIndex |-> [t \in Tx |-> -1], fInMempool |-> {},
                 nSpends |-> [t \in Tx |-> 0], lastBlock |-> <<>>]
    /\ aborted = FALSE /\ restarted = 0

-----------------------------------------------------------------------------
(* The node *)

ConfirmedIn(c) == UNION {ToSet(c[h]) : h \in DOMAIN c}
Confirmed == ConfirmedIn(node.chain)
Created(S) == UNION {vout(t) : t \in S}
Spent(S) == UNION {vin(t) : t \in S}
Unspent(c) == (Coins \cup Created(ConfirmedIn(c))) \ Spent(ConfirmedIn(c))
InHashOrder(S) == SelectSeq(HashOrder, LAMBDA t : t \in S)

\* What depends on the transactions of S, S included, among P.
Descendants(P, S) ==
    LET reach[n \in 0 .. Cardinality(Tx)] ==
            IF n = 0 THEN S
            ELSE reach[n - 1] \cup {t \in P : vin(t) \cap Created(reach[n - 1]) # {}}
    IN  reach[Cardinality(Tx)]

\* AcceptToMemoryPool: no conflict with the pool, and every input is there.
Acceptable(N, t) ==
    /\ t \notin N.pool \cup CoinStake
    /\ vin(t) \cap Spent(N.pool) = {}
    /\ vin(t) \subseteq Unspent(N.chain) \cup Created(N.pool)
Accepted(N, t) ==
    [N EXCEPT !.pool = @ \cup {t}, !.queue = Append(@, [type |-> "added", tx |-> t])]

\* RemoveStaged for a reason other than BLOCK and CONFLICT.
RemovedFromPool(N, S) ==
    [N EXCEPT !.pool = @ \ S,
              !.queue = @ \o [i \in DOMAIN InHashOrder(S \cap N.pool) |->
                  [type |-> "removed", tx |-> InHashOrder(S \cap N.pool)[i]]]]

Disconnect(N) ==
    [N EXCEPT !.chain = Front(@),
              !.queue = Append(@, [type |-> "disconnected", block |-> N.chain])]

\* ConnectTip.  ConnectTrace collects the conflicts that removeForBlock removes
\* before it is told of the block.
Connect(N, b) ==
    LET rivals == {t \in N.pool \ ToSet(b) : vin(t) \cap Spent(ToSet(b)) # {}}
        conflicted == Descendants(N.pool, rivals)
    IN  [N EXCEPT !.chain = Append(@, b),
                  !.pool = @ \ (ToSet(b) \cup conflicted),
                  !.trace = Append(@, [type |-> "connected", block |-> Append(N.chain, b),
                                       conflicted |-> InHashOrder(conflicted)])]

ValidBlock(N, b) ==
    \A i \in DOMAIN b :
        LET before == {b[j] : j \in 1 .. i - 1}
        IN  vin(b[i]) \subseteq (Unspent(N.chain) \cup Created(before)) \ Spent(before)

\* One round of UpdateMempoolForReorg.
PutBack(N, t) ==
    IF t \in ConfirmedIn(N.chain) THEN N
    ELSE IF Acceptable(N, t) THEN Accepted(N, t)
    ELSE RemovedFromPool(N, Descendants(N.pool, {p \in N.pool : vin(p) \cap vout(t) # {}}))

\* ActivateBestChainStep back to height h and forward along bs, or with bs empty
\* InvalidateBlock, then the callbacks of ActivateBestChain.
Activated(h, bs) ==
    LET back[n \in 0 .. Len(node.chain) - h] == IF n = 0 THEN node ELSE Disconnect(back[n - 1])
        forth == FoldLeft(Connect, back[Len(node.chain) - h], bs)
        queued == FlattenSeq(SubSeq(node.chain, h + 1, Len(node.chain)))
        after == FoldLeft(PutBack, forth, queued)
    IN  [after EXCEPT !.queue = @ \o after.trace, !.trace = <<>>]

-----------------------------------------------------------------------------
(* What the wallet reads *)

GetDepthInMainChain(W, t) ==
    LET hash == W.hashBlock[t]
    IN  IF hash \in {Null, ABANDON_HASH} THEN 0
        ELSE IF ~IsPrefix(hash, node.chain) THEN 0
        ELSE (IF W.nIndex[t] = -1 THEN -1 ELSE 1) * (Len(node.chain) - Len(hash) + 1)

isAbandoned(W, t) == W.hashBlock[t] = ABANDON_HASH

\* The transactions that mapTxSpends has for the outputs of t.
Spenders(W, t) == {s \in Tx : W.nSpends[s] > 0 /\ vin(s) \cap vout(t) # {}}

IsSpent(W, o) ==
    \E t \in Tx :
        /\ W.nSpends[t] > 0 /\ o \in vin(t)
        /\ \/ GetDepthInMainChain(W, t) > 0
           \/ /\ GetDepthInMainChain(W, t) = 0
              /\ ~isAbandoned(W, t) /\ t \notin CoinStake

\* AvailableCoins
Available(W, o) ==
    /\ ~IsSpent(W, o)
    /\ o \in Coins \cup Created({t \in W.mapWallet \ CoinStake :
            \/ GetDepthInMainChain(W, t) > 0
            \/ GetDepthInMainChain(W, t) = 0 /\ t \in W.fInMempool})

-----------------------------------------------------------------------------
(* What changes the wallet *)

\* Mutant: a coinstake is registered as a spender only once.
AddToWalletOnce(W, t, b, pos) ==
    [W EXCEPT !.mapWallet = @ \cup {t},
              !.hashBlock = [@ EXCEPT ![t] = IF b = Null /\ @ # ABANDON_HASH THEN @ ELSE b],
              !.nIndex = [@ EXCEPT ![t] = IF pos = -1 THEN @ ELSE pos],
              !.nSpends = [@ EXCEPT ![t] = IF t \in W.mapWallet THEN @ ELSE @ + 1]]

\* AddToWallet.  A known transaction merges what it is told; a coinstake that
\* changes is registered as a spender again.
AddToWallet(W, t, b, pos) ==
    LET known == t \in W.mapWallet
        keeps == known /\ b = Null /\ ~isAbandoned(W, t)
        hash == IF keeps THEN W.hashBlock[t] ELSE b
        index == IF known /\ pos = -1 THEN W.nIndex[t] ELSE pos
        fUpdated == known /\ <<hash, index>> # <<W.hashBlock[t], W.nIndex[t]>>
    IN  [W EXCEPT
            !.mapWallet = @ \cup {t},
            !.hashBlock = [@ EXCEPT ![t] = hash],
            !.nIndex = [@ EXCEPT ![t] = index],
            !.nSpends = [@ EXCEPT ![t] =
                IF ~known \/ (fUpdated /\ t \in CoinStake) THEN @ + 1 ELSE @]]

\* Mutant: the position in the block is kept.
MarkConflictedInPlace(W, b, t) ==
    IF IsPrefix(b, node.chain) /\ -(Len(node.chain) - Len(b) + 1) < GetDepthInMainChain(W, t)
    THEN [W EXCEPT !.hashBlock = [@ EXCEPT ![t] = b]]
    ELSE W

\* MarkConflicted: t, and along mapTxSpends what depends on it, as long as the
\* block is deeper than what they are marked with.
MarkConflicted(W, b, t) ==
    LET conflictconfirms == -(Len(node.chain) - Len(b) + 1)
        updates(S) == {s \in S : conflictconfirms < GetDepthInMainChain(W, s)}
        reach[n \in 0 .. Cardinality(Tx)] ==
            IF n = 0 THEN updates({t})
            ELSE reach[n - 1] \cup updates(UNION {Spenders(W, s) : s \in reach[n - 1]})
        marked == IF IsPrefix(b, node.chain) THEN reach[Cardinality(Tx)] ELSE {}
    IN  [W EXCEPT !.hashBlock = [s \in Tx |-> IF s \in marked THEN b ELSE @[s]],
                  !.nIndex = [s \in Tx |-> IF s \in marked THEN -1 ELSE @[s]]]

\* AddToWalletIfInvolvingMe for a transaction that is in no block, and for one
\* at a position of the block b.
SyncUnconfirmed(W, t) == AddToWallet(W, t, Null, -1)
SyncConfirmed(W, t, b, pos) ==
    LET rivals == InHashOrder({s \in Tx \ {t} : W.nSpends[s] > 0 /\ vin(s) \cap vin(t) # {}})
        marked == FoldLeft(LAMBDA V, s : MarkConflicted(V, b, s), W, rivals)
    IN  AddToWallet(marked, t, b, pos)

\* AbandonTransaction reads the spends of the transaction it was called for in
\* every round of its loop, so it stops at the children.
CanAbandon(W, t) == GetDepthInMainChain(W, t) = 0 /\ t \notin W.fInMempool
ToAbandon(W, t) ==
    IF isAbandoned(W, t) THEN {}
    ELSE {s \in {t} \cup Spenders(W, t) :
            GetDepthInMainChain(W, s) = 0 /\ ~isAbandoned(W, s)}
Abandoned(W, t) ==
    [W EXCEPT
        !.hashBlock = [s \in Tx |-> IF s \in ToAbandon(W, t) THEN ABANDON_HASH ELSE @[s]],
        !.nIndex = [s \in Tx |-> IF s \in ToAbandon(W, t) THEN -1 ELSE @[s]]]

\* "If the orig tx was not in block, none of its spends can be" and "If the orig
\* tx was not in block/mempool, none of its spends can be in mempool".
AbandonAsserts(W, t) ==
    /\ isAbandoned(W, t) \/ \A s \in Spenders(W, t) : GetDepthInMainChain(W, s) <= 0
    /\ ToAbandon(W, t) \cap W.fInMempool = {}

\* DisableTransaction
DisableTransaction(W, t) ==
    IF ~CanAbandon(W, t) THEN W
    ELSE [Abandoned(W, t) EXCEPT !.nSpends = [@ EXCEPT ![t] = IF @ > 0 THEN @ - 1 ELSE 0]]

LeavesMempool(W, t) == [W EXCEPT !.fInMempool = @ \ {t}]

-----------------------------------------------------------------------------
(* Steps of the node *)

\* A transaction that the wallet creates is not seen before it does.
Published(t) == t \in Sent => t \in wallet.mapWallet

AcceptToMemoryPool(t) ==
    /\ Published(t) /\ Acceptable(node, t)
    /\ Len(node.queue) < MaxQueue
    /\ node' = Accepted(node, t)
    /\ UNCHANGED <<wallet, aborted, restarted>>

\* Expire and TrimToSize.
LimitMempoolSize(t) ==
    /\ t \in node.pool
    /\ Len(node.queue) < MaxQueue
    /\ node' = RemovedFromPool(node, Descendants(node.pool, {t}))
    /\ UNCHANGED <<wallet, aborted, restarted>>

ActivateBestChain(h, bs) ==
    /\ \A i \in DOMAIN bs : \A t \in ToSet(bs[i]) : Published(t)
    /\ \A i \in DOMAIN bs :
        ValidBlock([chain |-> SubSeq(node.chain, 1, h) \o SubSeq(bs, 1, i - 1)], bs[i])
    /\ h + Len(bs) <= MaxHeight
    /\ Len(node.queue) < MaxQueue
    /\ \A t \in CoinStake : wallet.nSpends[t] < MaxSpends
    /\ node' = Activated(h, bs)
    /\ UNCHANGED <<wallet, aborted, restarted>>

-----------------------------------------------------------------------------
(* The callbacks *)

Callback(type) == node.queue # <<>> /\ Head(node.queue).type = type
Delivered ==
    /\ node' = [node EXCEPT !.queue = Tail(@)]
    /\ UNCHANGED <<aborted, restarted>>

TransactionAddedToMempool ==
    /\ Callback("added")
    /\ LET t == Head(node.queue).tx
       IN  wallet' = [SyncUnconfirmed(wallet, t) EXCEPT !.fInMempool = @ \cup {t}]
    /\ Delivered

TransactionRemovedFromMempool ==
    /\ Callback("removed")
    /\ wallet' = LeavesMempool(wallet, Head(node.queue).tx)
    /\ Delivered

\* Mutant: the conflicts that ConnectTrace collected are not passed on.
BlockConnectedIgnoringConflicts ==
    /\ Callback("connected")
    /\ LET pblock == Head(node.queue).block
           vtx == Last(pblock)
           connect(W, i) == LeavesMempool(SyncConfirmed(W, vtx[i], pblock, i), vtx[i])
       IN  wallet' = [FoldLeft(connect, wallet, [i \in DOMAIN vtx |-> i]) EXCEPT !.lastBlock = pblock]
    /\ Delivered

BlockConnected ==
    /\ Callback("connected")
    /\ LET pblock == Head(node.queue).block
           vtx == Last(pblock)
           conflict(W, t) == LeavesMempool(SyncUnconfirmed(W, t), t)
           connect(W, i) == LeavesMempool(SyncConfirmed(W, vtx[i], pblock, i), vtx[i])
           told == FoldLeft(conflict, wallet, Head(node.queue).conflicted)
       IN  wallet' = [FoldLeft(connect, told, [i \in DOMAIN vtx |-> i]) EXCEPT !.lastBlock = pblock]
    /\ Delivered

BlockDisconnected ==
    /\ Callback("disconnected")
    /\ LET disconnect(W, t) ==
               IF t \in CoinStake THEN DisableTransaction(W, t) ELSE SyncUnconfirmed(W, t)
       IN  wallet' = FoldLeft(disconnect, wallet, Last(Head(node.queue).block))
    /\ Delivered

-----------------------------------------------------------------------------
(* RPC threads *)

AbandonTransaction(t) ==
    /\ t \in wallet.mapWallet /\ CanAbandon(wallet, t) /\ ~isAbandoned(wallet, t)
    /\ aborted' = ~AbandonAsserts(wallet, t)
    /\ wallet' = IF aborted' THEN wallet ELSE Abandoned(wallet, t)
    /\ UNCHANGED <<node, restarted>>

\* CommitTransaction of what CreateTransaction made of available coins.
CommitTransaction(t) ==
    /\ t \in Sent \ wallet.mapWallet
    /\ \A o \in vin(t) : Available(wallet, o)
    /\ Len(node.queue) < MaxQueue
    /\ LET added == AddToWallet(wallet, t, Null, -1)
       IN  IF Acceptable(node, t)
           THEN /\ node' = Accepted(node, t)
                /\ wallet' = [added EXCEPT !.fInMempool = @ \cup {t}]
           ELSE wallet' = Abandoned(added, t) /\ UNCHANGED node
    /\ UNCHANGED <<aborted, restarted>>

\* RelayWalletTransaction and ReacceptWalletTransactions, on a transaction that
\* AcceptToMemoryPool takes.
RelayWalletTransaction(t) ==
    /\ t \in wallet.mapWallet \ (CoinStake \cup wallet.fInMempool)
    /\ ~isAbandoned(wallet, t) /\ GetDepthInMainChain(wallet, t) = 0
    /\ Acceptable(node, t)
    /\ Len(node.queue) < MaxQueue
    /\ node' = Accepted(node, t)
    /\ wallet' = [wallet EXCEPT !.fInMempool = @ \cup {t}]
    /\ UNCHANGED <<aborted, restarted>>

\* A shutdown that flushed the callbacks, and LoadToWallet of every transaction
\* in the order of the wallet's file.  The pool starts empty.
LoadToWallet(W, t) ==
    LET added == [W EXCEPT !.mapWallet = @ \cup {t}, !.nSpends = [@ EXCEPT ![t] = 1]]
        prevs == InHashOrder({p \in added.mapWallet :
                    vin(t) \cap vout(p) # {} /\ W.nIndex[p] = -1
                        /\ W.hashBlock[p] \notin {Null, ABANDON_HASH}})
    IN  FoldLeft(LAMBDA V, p : MarkConflicted(V, V.hashBlock[p], t), added, prevs)

Restart ==
    /\ restarted < Restarts /\ restarted' = restarted + 1
    /\ node.queue = <<>>
    /\ node' = [node EXCEPT !.pool = {}]
    /\ wallet' = FoldLeft(LoadToWallet,
                          [wallet EXCEPT !.mapWallet = {}, !.fInMempool = {},
                                         !.nSpends = [t \in Tx |-> 0]],
                          InHashOrder(wallet.mapWallet))
    /\ UNCHANGED aborted

Next ==
    /\ ~aborted
    /\ \/ \E t \in Tx : AcceptToMemoryPool(t)
       \/ \E t \in Tx : LimitMempoolSize(t)
       \/ \E h \in 0 .. Len(node.chain), bs \in {<<>>} \cup {<<b>> : b \in Block}
                                                \cup {<<a, b>> : a, b \in Block} :
            (bs = <<>> => h < Len(node.chain)) /\ ActivateBestChain(h, bs)
       \/ TransactionAddedToMempool
       \/ TransactionRemovedFromMempool
       \/ BlockConnected
       \/ BlockDisconnected
       \/ \E t \in Tx : AbandonTransaction(t)
       \/ \E t \in Tx : CommitTransaction(t)
       \/ \E t \in Tx : RelayWalletTransaction(t)
       \/ Restart

Spec == Init /\ [][Next]_vars

-----------------------------------------------------------------------------
(* Properties *)

Drained == node.queue = <<>> /\ ~aborted

Conflicts(t) == \E c \in Confirmed \ {t} : vin(c) \cap vin(t) # {}

\* When every callback was delivered, fInMempool is right about the pool and
\* what is in the pool is in the wallet and not abandoned, although Commit-
\* Transaction and RelayWalletTransaction set the flag ahead of the callbacks.
FlagsMatchPool ==
    Drained => /\ wallet.fInMempool = node.pool
               /\ \A t \in node.pool : t \in wallet.mapWallet /\ ~isAbandoned(wallet, t)

\* When every callback was delivered, GetDepthInMainChain is the depth of a
\* confirmed transaction, negative for one that conflicts with the chain, and
\* zero for the others, although BlockConnected and MarkConflicted may have
\* been applied to blocks that had already left the chain.
DepthMatchesChain ==
    Drained =>
        \A t \in Tx :
            LET depth == GetDepthInMainChain(wallet, t)
            IN  /\ \A h \in DOMAIN node.chain :
                      t \in ToSet(node.chain[h]) => depth = Len(node.chain) - h + 1
                /\ t \in wallet.mapWallet /\ Conflicts(t) =>
                      depth < 0 \/ (t \in CoinStake /\ isAbandoned(wallet, t))
                /\ depth < 0 => \E a \in Tx : Conflicts(a) /\ t \in Descendants(Tx, {a})
                /\ depth > 0 => t \in Confirmed

\* When every callback was delivered, a coin that a transaction of the chain or
\* the pool spends is spent for the wallet, and the input of a coinstake whose
\* block was disconnected is free to be staked again (IsSpent).
CoinsMatchSpends ==
    Drained =>
        \A o \in Coins \cup Created(Tx) :
            /\ o \in Spent(Confirmed \cup node.pool) => IsSpent(wallet, o)
            /\ (\A t \in wallet.mapWallet : o \in vin(t) => t \in CoinStake \ Confirmed)
                    => ~IsSpent(wallet, o)

\* The assertions of AbandonTransaction hold whenever it runs.
AbandonAssertsHold == ~aborted

\* What depends on a transaction that conflicts with the chain is conflicted.
DependentsAreConflicted ==
    Drained =>
        \A a \in wallet.mapWallet : Conflicts(a) =>
            \A t \in Descendants(wallet.mapWallet, {a}) :
                GetDepthInMainChain(wallet, t) < 0 \/ isAbandoned(wallet, t)

=============================================================================
