---------------------------- MODULE ChainstateDB ----------------------------
(***************************************************************************)
(* The chainstate database and how it survives a crash.  FlushStateToDisk  *)
(* writes the block index and then the coins of pcoinsTip, and             *)
(* CCoinsViewDB::BatchWrite splits a large set of coins into several       *)
(* batches.  The first one replaces DB_BEST_BLOCK by DB_HEAD_BLOCKS, the   *)
(* tips before and after, the last one puts DB_BEST_BLOCK back.  When the  *)
(* process starts and finds DB_HEAD_BLOCKS, ReplayBlocks rolls the blocks  *)
(* of the old branch back and those of the new one forward.                *)
(*                                                                         *)
(* The coins in memory are the set CCoinsViewCache implements (UtxoSet): a *)
(* flush writes the ones that differ from the database, in any order.      *)
(***************************************************************************)
EXTENDS Integers, Sequences

CONSTANTS
    Block,         \* the blocks that may arrive
    NoBlock,       \* the null hash
    pprev,         \* the parent of each block
    nHeight,       \* its height, as AddToBlockIndex computes it
    vtx,           \* its transactions: the coins they spend and create
    OutPoint,
    Spent,         \* no coin
    MaxCrashes     \* bound

\* Only the genesis block has no parent.
ASSUME TreeAssumption ==
    /\ pprev \in [Block -> Block \cup {NoBlock}] /\ NoBlock \notin Block
    /\ nHeight \in [Block -> Nat]
    /\ \A b \in Block : nHeight[b] = IF pprev[b] = NoBlock THEN 0 ELSE nHeight[pprev[b]] + 1
    /\ \A a, b \in Block : pprev[a] = NoBlock /\ pprev[b] = NoBlock => a = b
ASSUME VtxAssumption == vtx \in [Block -> Seq([vin : SUBSET OutPoint, vout : SUBSET OutPoint])]
ASSUME SpentAssumption == Spent \notin Nat
ASSUME MaxCrashesAssumption == MaxCrashes \in Nat

\* The blocks from the genesis block to b.
Ancestors[b \in Block \cup {NoBlock}] ==
    IF b = NoBlock THEN {} ELSE {b} \cup Ancestors[pprev[b]]

\* The coin of each outpoint, which is its height.
Coins == [OutPoint -> Nat \cup {Spent}]

NoCoins == [o \in OutPoint |-> Spent]

VARIABLES
    coins,       \* database: the coins
    best,        \* database: DB_BEST_BLOCK
    heads,       \* database: DB_HEAD_BLOCKS
    indexDisk,   \* block index database: the blocks
    undoDisk,    \* block index database and undo files: their undo data
    index,       \* mapBlockIndex
    undo,        \* the undo data of the blocks that have any
    tip,         \* chainActive and pcoinsTip's best block
    view,        \* pcoinsTip, or the cache of ReplayBlocks
    status,      \* "up"; "flush": in BatchWrite; "down"; "failed": needs a reindex
    crashes

vars == <<coins, best, heads, indexDisk, undoDisk, index, undo, tip, view, status, crashes>>

TypeOK ==
    /\ coins \in Coins
    /\ best \in Block \cup {NoBlock}
    /\ heads \in {<<>>} \cup ((Block \cup {NoBlock}) \X (Block \cup {NoBlock}))
    /\ indexDisk \in SUBSET Block /\ DOMAIN undoDisk \subseteq indexDisk
    /\ index \in SUBSET Block /\ DOMAIN undo \subseteq index
    /\ tip \in Block \cup {NoBlock}
    /\ view \in Coins
    /\ status \in {"up", "flush", "down", "failed"}
    /\ crashes \in 0 .. MaxCrashes

Init ==
    /\ coins = NoCoins /\ best = NoBlock /\ heads = <<>>
    /\ indexDisk = {} /\ undoDisk = <<>> /\ index = {} /\ undo = <<>>
    /\ tip = NoBlock /\ view = NoCoins
    /\ status = "up" /\ crashes = 0

-----------------------------------------------------------------------------
(* Transactions and blocks. *)

\* UpdateCoins, and the loop of RollforwardBlock, which does the same where a
\* coin is missing or there already.
UpdateCoins(c, tx, h) ==
    [o \in OutPoint |-> IF o \in tx.vout THEN h ELSE IF o \in tx.vin THEN Spent ELSE c[o]]

\* The coins after the first n transactions of b.
After(c, b) ==
    LET f[n \in 0 .. Len(vtx[b])] ==
            IF n = 0 THEN c ELSE UpdateCoins(f[n - 1], vtx[b][n], nHeight[b])
    IN  f

\* The genesis block's transaction is not applied.
Roll(c, b) == IF pprev[b] = NoBlock THEN c ELSE After(c, b)[Len(vtx[b])]

\* CBlockUndo: the coins each transaction spent.
BlockUndo(c, b) ==
    [i \in DOMAIN vtx[b] |-> [o \in vtx[b][i].vin |-> After(c, b)[i - 1][o]]]

HaveInputs(c, b) ==
    \A i \in DOMAIN vtx[b] : \A o \in vtx[b][i].vin : After(c, b)[i - 1][o] # Spent

\* One transaction of DisconnectBlock: the outputs are spent, then ApplyTxInUndo
\* puts the inputs back, over whatever is there.
UndoTx(c, tx, txundo) ==
    [o \in OutPoint |-> IF o \in tx.vin THEN txundo[o] ELSE IF o \in tx.vout THEN Spent ELSE c[o]]

\* Mutant: the first transaction first.
DisconnectForward(c, b, blockUndo) ==
    LET f[n \in 0 .. Len(vtx[b])] ==
            IF n = 0 THEN c ELSE UndoTx(f[n - 1], vtx[b][n], blockUndo[n])
    IN  f[Len(vtx[b])]

\* DisconnectBlock: the last transaction first.
Disconnect(c, b, blockUndo) ==
    LET Nth(n) == Len(vtx[b]) + 1 - n
        f[n \in 0 .. Len(vtx[b])] ==
            IF n = 0 THEN c ELSE UndoTx(f[n - 1], vtx[b][Nth(n)], blockUndo[Nth(n)])
    IN  f[Len(vtx[b])]

\* The coins the chain up to b leaves unspent.
Utxo[b \in Block \cup {NoBlock}] ==
    IF b = NoBlock THEN NoCoins ELSE Roll(Utxo[pprev[b]], b)

\* ConnectBlock finds nothing missing, from the block after the genesis block to b.
Connectable(b) ==
    \A a \in Ancestors[b] : pprev[a] # NoBlock => HaveInputs(Utxo[pprev[a]], a)

\* A transaction is on a branch once: its id covers its inputs, which are spent
\* once, and a coinbase has the height in it, which ContextualCheckBlock demands
\* from height 20 on; nothing rules out that two of the coinbases before are the
\* same, and this does.  So a block creates no coin that is there already.
ASSUME TxidAssumption ==
    \A b \in Block : pprev[b] # NoBlock /\ Connectable(b) =>
        \A i \in DOMAIN vtx[b] : \A o \in vtx[b][i].vout : Utxo[pprev[b]][o] = Spent

-----------------------------------------------------------------------------
(* The running node. *)

\* AcceptBlock.
AcceptBlock(b) ==
    /\ status = "up" /\ b \notin index
    /\ pprev[b] \in index \cup {NoBlock}
    /\ index' = index \cup {b}
    /\ UNCHANGED <<coins, best, heads, indexDisk, undoDisk, undo, tip, view, status, crashes>>

\* ConnectTip.  A block that was connected before has its undo data already;
\* the genesis block gets none.
ConnectTip(b) ==
    /\ status = "up" /\ b \in index /\ pprev[b] = tip
    /\ pprev[b] # NoBlock => HaveInputs(view, b)
    /\ view' = Roll(view, b)
    /\ undo' = IF b \in DOMAIN undo \/ pprev[b] = NoBlock
               THEN undo
               ELSE [a \in DOMAIN undo \cup {b} |-> IF a = b THEN BlockUndo(view, b) ELSE undo[a]]
    /\ tip' = b
    /\ UNCHANGED <<coins, best, heads, indexDisk, undoDisk, index, status, crashes>>

\* DisconnectTip.
DisconnectTip ==
    /\ status = "up" /\ tip # NoBlock /\ pprev[tip] # NoBlock
    /\ tip \in DOMAIN undo
    /\ view' = Disconnect(view, tip, undo[tip])
    /\ tip' = pprev[tip]
    /\ UNCHANGED <<coins, best, heads, indexDisk, undoDisk, index, undo, status, crashes>>

\* FlushStateToDisk: the block and undo files and the block index, which may be
\* all there is to write ...
WriteBlockIndex ==
    /\ status = "up"
    /\ indexDisk' = index /\ undoDisk' = undo
    /\ UNCHANGED <<coins, best, heads, index, undo, tip, view, status, crashes>>

\* Mutant: the coins are flushed without the block index.
FlushCoinsNoIndex ==
    /\ status = "up" /\ tip # NoBlock
    /\ status' = "flush"
    /\ UNCHANGED <<coins, best, heads, indexDisk, undoDisk, index, undo, tip, view, crashes>>

\* ... or followed by the coins, which "can only be done if the blocks / block
\* index write was also done".
FlushCoins ==
    /\ status = "up" /\ tip # NoBlock
    /\ indexDisk' = index /\ undoDisk' = undo
    /\ status' = "flush"
    /\ UNCHANGED <<coins, best, heads, index, undo, tip, view, crashes>>

-----------------------------------------------------------------------------
(* CCoinsViewDB::BatchWrite. *)

\* Mutant: a second attempt takes the null hash for the old tip.
OldTipForgotten == best

\* In the middle of replaying the old tip is in DB_HEAD_BLOCKS.
OldTip == IF best = NoBlock /\ heads # <<>> THEN heads[2] ELSE best

Differing == {o \in OutPoint : coins[o] # view[o]}

Written(S) == [o \in OutPoint |-> IF o \in S THEN view[o] ELSE coins[o]]

WritePartialBatch(S) ==
    /\ status = "flush"
    /\ coins' = Written(S)
    /\ heads' = <<tip, OldTip>> /\ best' = NoBlock
    /\ UNCHANGED <<indexDisk, undoDisk, index, undo, tip, view, status, crashes>>

WriteFinalBatch ==
    /\ status = "flush"
    /\ coins' = Written(OutPoint)
    /\ heads' = <<>> /\ best' = tip
    /\ status' = "up"
    /\ UNCHANGED <<indexDisk, undoDisk, index, undo, tip, view, crashes>>

-----------------------------------------------------------------------------
(* Crash and recovery. *)

Crash ==
    /\ status \in {"up", "flush"} /\ crashes < MaxCrashes
    /\ status' = "down" /\ crashes' = crashes + 1
    /\ index' = indexDisk /\ undo' = undoDisk /\ tip' = NoBlock /\ view' = NoCoins
    /\ UNCHANGED <<coins, best, heads, indexDisk, undoDisk>>

\* Mutant: a database without a best block is tried again and again.
LoadChainTipRetries ==
    /\ status = "down" /\ heads = <<>>
    /\ IF best \in index
       THEN tip' = best /\ view' = coins /\ status' = "up"
       ELSE UNCHANGED <<tip, view, status>>
    /\ UNCHANGED <<coins, best, heads, indexDisk, undoDisk, index, undo, crashes>>

\* LoadChainTip, after ReplayBlocks found nothing to do.
LoadChainTip ==
    /\ status = "down" /\ heads = <<>>
    /\ IF best \in index \cup {NoBlock}
       THEN tip' = best /\ view' = coins /\ status' = "up"
       ELSE status' = "failed" /\ UNCHANGED <<tip, view>>
    /\ UNCHANGED <<coins, best, heads, indexDisk, undoDisk, index, undo, crashes>>

LastCommonAncestor(a, b) ==
    LET common == Ancestors[a] \cap Ancestors[b]
    IN  IF common = {} THEN NoBlock
        ELSE CHOOSE c \in common : \A d \in common : nHeight[d] <= nHeight[c]

\* The blocks after the fork, up to b.
Branch(b, fork) == Ancestors[b] \ Ancestors[fork]

\* The genesis block is never disconnected.
Unroll(c, b) == IF pprev[b] = NoBlock THEN c ELSE Disconnect(c, b, undo[b])

\* ReplayBlocks' first loop, from the old tip down to the fork ...
Rollback(c, old, fork) ==
    LET f[b \in Block \cup {NoBlock}] ==
            [d \in Coins |-> IF b \in Branch(old, fork) THEN f[pprev[b]][Unroll(d, b)] ELSE d]
    IN  f[old][c]

\* ... and its second one, from the fork up to the new tip.
Rollforward(c, new, fork) ==
    LET f[b \in Block \cup {NoBlock}] ==
            IF b \in Branch(new, fork) THEN Roll(f[pprev[b]], b) ELSE c
    IN  f[new]

\* ReplayBlocks, up to the flush of its cache.  A fork that is not found is the
\* assert(pindexFork != nullptr).
ReplayBlocks ==
    /\ status = "down" /\ heads # <<>>
    /\ LET new == heads[1]
           old == heads[2]
           fork == LastCommonAncestor(old, new)
       IN  IF /\ new \in index /\ old \in index \cup {NoBlock}
              /\ old # NoBlock => fork # NoBlock
              /\ \A b \in Branch(old, fork) : pprev[b] # NoBlock => b \in DOMAIN undo
           THEN /\ view' = Rollforward(Rollback(coins, old, fork), new, fork)
                /\ tip' = new /\ status' = "flush"
           ELSE status' = "failed" /\ UNCHANGED <<tip, view>>
    /\ UNCHANGED <<coins, best, heads, indexDisk, undoDisk, index, undo, crashes>>

Next ==
    \/ \E b \in Block : AcceptBlock(b) \/ ConnectTip(b)
    \/ DisconnectTip
    \/ WriteBlockIndex \/ FlushCoins
    \/ \E S \in (SUBSET Differing) \ {{}} : WritePartialBatch(S)
    \/ WriteFinalBatch
    \/ Crash \/ LoadChainTip \/ ReplayBlocks

\* A write that was begun goes on, and a node that is down is started again.
Spec == Init /\ [][Next]_vars /\ WF_vars(WriteFinalBatch) /\ WF_vars(LoadChainTip \/ ReplayBlocks)

-----------------------------------------------------------------------------
(* Properties *)

\* The running node's coins are the ones its chain leaves unspent, after any
\* reorgs, and after any crashes in the middle of a flush and in the middle of
\* the flush that ends the recovery from such a crash.
CoinsMatchChain ==
    status = "up" => view = Utxo[tip]

\* A database with a best block is consistent: a partial write never goes
\* unnoticed.  One in transition holds, for every outpoint, the coin of the old
\* tip or that of the new tip; recovering adds no third kind.
DatabaseIsConsistent ==
    /\ best # NoBlock => coins = Utxo[best] /\ heads = <<>>
    /\ heads # <<>> => \A o \in OutPoint : coins[o] \in {Utxo[heads[1]][o], Utxo[heads[2]][o]}

\* Whatever the chainstate refers to is in the block index on disk, undo data
\* included: recovery never ends in "unknown block requested" or "no undo data
\* available".  BatchWrite's assert(old_heads[0] == hashBlock) holds: a flush
\* that finds another flush unfinished has the same target.
RecoveryNeverFails ==
    /\ status # "failed"
    /\ status = "flush" /\ heads # <<>> => heads[1] = tip

\* A node that went down comes up again.
Recovers ==
    status = "down" ~> status = "up"
=============================================================================
