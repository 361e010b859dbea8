------------------------------ MODULE UtxoSet ------------------------------
(***************************************************************************)
(* What a stack of coins views promises its users: three plain copies of   *)
(* the set of unspent outputs, each with the block it belongs to.  "disk"  *)
(* is the chainstate database, "chain" what pcoinsTip shows, and "work"    *)
(* what the short-lived view shows in which a block is connected or        *)
(* disconnected.  There are no entries, flags or lookups here: CoinsCache  *)
(* (the code's three layers) is shown to implement this module.            *)
(***************************************************************************)
CONSTANTS
    OutPoint,   \* transaction outputs
    Coin,       \* values an unspent output can have
    Spent,      \* the null coin
    Block,      \* block hashes
    NullHash    \* the null block hash: no block yet

VARIABLES
    disk, diskBest,
    chain, chainBest,
    work, workBest

vars == <<disk, diskBest, chain, chainBest, work, workBest>>

Coins == [OutPoint -> Coin \cup {Spent}]

Init ==
    /\ disk = [o \in OutPoint |-> Spent]
    /\ diskBest = NullHash
    /\ chain = disk /\ chainBest = diskBest
    /\ work = disk /\ workBest = diskBest

\* An output of the transaction being connected, or an input being restored.
Add(o, c) ==
    /\ work' = [work EXCEPT ![o] = c]
    /\ UNCHANGED <<disk, diskBest, chain, chainBest, workBest>>

\* Spending an output that is not unspent has no effect.
Spend(o) ==
    /\ work' = [work EXCEPT ![o] = Spent]
    /\ UNCHANGED <<disk, diskBest, chain, chainBest, workBest>>

SetBestBlock(b) ==
    /\ workBest' = b
    /\ UNCHANGED <<disk, diskBest, chain, chainBest, work>>

\* The whole of the work becomes the chain state, with its best block.
Commit ==
    /\ chain' = work /\ chainBest' = workBest
    /\ UNCHANGED <<disk, diskBest, work, workBest>>

Discard ==
    /\ work' = chain /\ workBest' = chainBest
    /\ UNCHANGED <<disk, diskBest, chain, chainBest>>

Persist ==
    /\ disk' = chain /\ diskBest' = chainBest
    /\ UNCHANGED <<chain, chainBest, work, workBest>>

\* What was never persisted is lost, and nothing else.
Crash ==
    /\ chain' = disk /\ chainBest' = diskBest
    /\ work' = disk /\ workBest' = diskBest
    /\ UNCHANGED <<disk, diskBest>>

Next ==
    \/ \E o \in OutPoint, c \in Coin : Add(o, c)
    \/ \E o \in OutPoint : Spend(o)
    \/ \E b \in Block : SetBestBlock(b)
    \/ Commit \/ Discard \/ Persist \/ Crash

Spec == Init /\ [][Next]_vars
=============================================================================
