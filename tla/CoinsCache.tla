----------------------------- MODULE CoinsCache -----------------------------
(***************************************************************************)
(* The layers of coins views: the chainstate database, the CCoinsViewCache *)
(* pcoinsTip over it, and the CCoinsViewCache "view" over pcoinsTip that   *)
(* ConnectTip, DisconnectTip and TestBlockValidity create, fill and flush  *)
(* or drop.  A cache maps an outpoint to an entry: a coin with the flags   *)
(* DIRTY and FRESH.  FRESH lets a cache forget a coin that is created and  *)
(* spent before it is flushed; applied to the wrong entry it resurrects or *)
(* loses coins one layer further down, possibly many blocks later.         *)
(*                                                                         *)
(* The database write is one step here; ChainstateDB has its batches.      *)
(* There is one view at a time: all of its users hold cs_main.             *)
(***************************************************************************)
CONSTANTS
    OutPoint,   \* COutPoint
    Coin,       \* the values an unspent, spendable Coin can have
    Spent,      \* the null coin
    Block,      \* block hashes
    NullHash,   \* the null uint256
    Absent      \* no entry in the cache's map

Coins == Coin \cup {Spent}

\* CCoinsCacheEntry
Flag == {"DIRTY", "FRESH"}
Entry == [coin : Coins, flags : SUBSET Flag]
Slot == Entry \cup {Absent}

ASSUME SpentAssumption == Spent \notin Coin
ASSUME AbsentAssumption == Absent \notin Entry
ASSUME NullHashAssumption == NullHash \notin Block

VARIABLES
    db,         \* the coins in the chainstate database
    dbBest,     \* its best block
    tip,        \* pcoinsTip->cacheCoins
    tipBest,    \* pcoinsTip->hashBlock
    view,       \* the view's cacheCoins
    viewBest,   \* the view's hashBlock, null until it is set or looked up
    status      \* "up", or how the process died

vars == <<db, dbBest, tip, tipBest, view, viewBest, status>>

TypeOK ==
    /\ db \in [OutPoint -> Coins]
    /\ tip \in [OutPoint -> Slot]
    /\ view \in [OutPoint -> Slot]
    /\ dbBest \in Block \cup {NullHash}
    /\ tipBest \in Block \cup {NullHash}
    /\ viewBest \in Block \cup {NullHash}
    /\ status \in {"up", "logic_error", "assert"}

EmptyCache == [o \in OutPoint |-> Absent]

Init ==
    /\ db = [o \in OutPoint |-> Spent]
    /\ dbBest = NullHash
    /\ tip = EmptyCache /\ tipBest = NullHash
    /\ view = EmptyCache /\ viewBest = NullHash
    /\ status = "up"

-----------------------------------------------------------------------------
(* What the methods do to one entry e of a cache over a parent view that   *)
(* shows the coin p for the same outpoint.                                  *)

IsDirty(e) == e # Absent /\ "DIRTY" \in e.flags
IsFresh(e) == e # Absent /\ "FRESH" \in e.flags
HasCoin(e) == e # Absent /\ e.coin # Spent

\* An entry with coin c that was just modified.
Modified(c, fresh) ==
    [coin |-> c, flags |-> {"DIRTY"} \cup (IF fresh THEN {"FRESH"} ELSE {})]

\* The coin the cache shows.
CoinOf(e, p) == IF e = Absent THEN p ELSE e.coin

\* FetchCoin: a miss is filled from the parent.  The parent's GetCoin returns
\* false for a spent coin, so nothing is cached then (and the branch that
\* would mark a fetched spent coin FRESH is never taken).
FetchCoin(e, p) ==
    IF e = Absent /\ p # Spent
    THEN [coin |-> p, flags |-> {}]
    ELSE e

\* Mutant: FRESH is set although the entry tells of a spend not yet flushed.
AddedCoinOverDirty(e, c, possible_overwrite) ==
    Modified(c, IsFresh(e) \/ ~possible_overwrite)

\* AddCoin: FRESH may be set when the caller rules an overwrite out and the
\* entry, if there is one, holds nothing the parent still has to be told.
AddedCoin(e, c, possible_overwrite) ==
    Modified(c, IsFresh(e) \/ (~possible_overwrite /\ ~IsDirty(e)))

\* SpendCoin on the fetched entry.
SpentCoin(e) ==
    IF e = Absent \/ IsFresh(e)
    THEN Absent
    ELSE Modified(Spent, FALSE)

\* Mutant: the erased entry is left in the map as a null coin.
MergedEntryNull(u, e) ==
    LET fresh == IsFresh(IF u = Absent THEN e ELSE u)
    IN  IF ~IsDirty(e) THEN u
        ELSE IF fresh /\ e.coin = Spent THEN Spent
        ELSE Modified(e.coin, fresh)

\* CCoinsViewCache::BatchWrite: the child's entry e arrives at our entry u.
\* The child's FRESH flag counts only where we have no entry of our own: a
\* spent coin of ours may still have to be told to the grandparent.
MergedEntry(u, e) ==
    LET fresh == IsFresh(IF u = Absent THEN e ELSE u)
    IN  IF ~IsDirty(e) THEN u
        ELSE IF fresh /\ e.coin = Spent THEN Absent
        ELSE Modified(e.coin, fresh)

\* The two logic_errors.
AddThrows(e, possible_overwrite) == ~possible_overwrite /\ HasCoin(e)
MergeThrows(u, e) == IsDirty(e) /\ IsFresh(e) /\ HasCoin(u)

-----------------------------------------------------------------------------
(* The coins and the best block the two caches show. *)

TipCoin(o) == CoinOf(tip[o], db[o])
ViewCoin(o) == CoinOf(view[o], TipCoin(o))

TipBestBlock == IF tipBest = NullHash THEN dbBest ELSE tipBest
ViewBestBlock == IF viewBest = NullHash THEN TipBestBlock ELSE viewBest

\* A lookup in pcoinsTip fills pcoinsTip.
TipFetched(o) == [tip EXCEPT ![o] = FetchCoin(tip[o], db[o])]

\* A lookup in the view asks pcoinsTip only on a miss, and fills both.
TipFetchedByView(o) == IF view[o] = Absent THEN TipFetched(o) ELSE tip
ViewFetched(o) == FetchCoin(view[o], TipCoin(o))

-----------------------------------------------------------------------------
(* The methods of the view. *)

\* GetCoin, HaveCoin and AccessCoin.  AddCoin and AddCoins of an unspendable
\* output do no more than this either.
AccessCoin(o) ==
    /\ tip' = TipFetchedByView(o)
    /\ view' = [view EXCEPT ![o] = ViewFetched(o)]
    /\ UNCHANGED <<db, dbBest, tipBest, viewBest, status>>

\* AddCoin of the entry e (the view's entry for o, fetched or not).
AddCoin(o, e, c, possible_overwrite) ==
    IF AddThrows(e, possible_overwrite)
    THEN status' = "logic_error" /\ UNCHANGED view
    ELSE /\ view' = [view EXCEPT ![o] = AddedCoin(e, c, possible_overwrite)]
         /\ UNCHANGED status

\* AddCoins with check = false: an output of a transaction being connected.
\* Only a coinbase may overwrite.  Any other transaction has a new txid: it
\* spends outputs that no earlier transaction spent.
AddOutput(o, c, fCoinbase) ==
    /\ fCoinbase \/ ViewCoin(o) = Spent
    /\ AddCoin(o, view[o], c, fCoinbase)
    /\ UNCHANGED <<db, dbBest, tip, tipBest, viewBest>>

\* Mutant: the answer of HaveCoin is not passed on as possible_overwrite.
AddCheckedNoOverwrite(o, c) ==
    /\ tip' = TipFetchedByView(o)
    /\ AddCoin(o, ViewFetched(o), c, FALSE)
    /\ UNCHANGED <<db, dbBest, tipBest, viewBest>>

\* HaveCoin, then AddCoin with its answer: ApplyTxInUndo, and AddCoins with
\* check = true.
AddChecked(o, c) ==
    /\ tip' = TipFetchedByView(o)
    /\ AddCoin(o, ViewFetched(o), c, ViewCoin(o) # Spent)
    /\ UNCHANGED <<db, dbBest, tipBest, viewBest>>

SpendCoin(o) ==
    /\ tip' = TipFetchedByView(o)
    /\ view' = [view EXCEPT ![o] = SpentCoin(ViewFetched(o))]
    /\ UNCHANGED <<db, dbBest, tipBest, viewBest, status>>

\* GetBestBlock looks the hash up in the parents and keeps it.
GetBestBlock ==
    /\ viewBest' = ViewBestBlock
    /\ tipBest' = IF viewBest = NullHash THEN TipBestBlock ELSE tipBest
    /\ UNCHANGED <<db, dbBest, tip, view, status>>

SetBestBlock(b) ==
    /\ viewBest' = b
    /\ UNCHANGED <<db, dbBest, tip, tipBest, view, status>>

\* Flush of the view into pcoinsTip.  ConnectTip and DisconnectTip have looked
\* up or set the view's best block by then.
FlushView ==
    /\ viewBest # NullHash
    /\ IF \E o \in OutPoint : MergeThrows(tip[o], view[o])
       THEN status' = "logic_error" /\ UNCHANGED <<tip, tipBest, view>>
       ELSE /\ tip' = [o \in OutPoint |-> MergedEntry(tip[o], view[o])]
            /\ tipBest' = viewBest
            /\ view' = EmptyCache
            /\ UNCHANGED status
    /\ UNCHANGED <<db, dbBest, viewBest>>

\* The view goes out of scope; a new one starts empty.
NewView ==
    /\ view' = EmptyCache
    /\ viewBest' = NullHash
    /\ UNCHANGED <<db, dbBest, tip, tipBest, status>>

-----------------------------------------------------------------------------
(* The methods of pcoinsTip. *)

\* Lookups of the mempool and of the RPCs.
AccessTipCoin(o) ==
    /\ tip' = TipFetched(o)
    /\ UNCHANGED <<db, dbBest, tipBest, view, viewBest, status>>

\* Mutant: a modified entry is uncached too.
UncacheDirty(o) ==
    /\ tip[o] # Absent
    /\ tip' = [tip EXCEPT ![o] = Absent]
    /\ UNCHANGED <<db, dbBest, tipBest, view, viewBest, status>>

\* Coins a rejected transaction pulled in are dropped again, if unmodified.
Uncache(o) ==
    /\ tip[o] # Absent /\ tip[o].flags = {}
    /\ tip' = [tip EXCEPT ![o] = Absent]
    /\ UNCHANGED <<db, dbBest, tipBest, view, viewBest, status>>

\* FlushStateToDisk: pcoinsTip->Flush() into the database, whose BatchWrite
\* asserts that the hash it is given is not null.
FlushTip ==
    IF tipBest = NullHash
    THEN status' = "assert" /\ UNCHANGED <<db, dbBest, tip, tipBest, view, viewBest>>
    ELSE /\ db' = [o \in OutPoint |-> IF IsDirty(tip[o]) THEN tip[o].coin ELSE db[o]]
         /\ dbBest' = tipBest
         /\ tip' = EmptyCache
         /\ UNCHANGED <<tipBest, view, viewBest, status>>

\* The process stops, however it did, and is started again: init looks up
\* the best block right after it has created pcoinsTip.
Restart ==
    /\ tip' = EmptyCache /\ tipBest' = dbBest
    /\ view' = EmptyCache /\ viewBest' = NullHash
    /\ status' = "up"
    /\ UNCHANGED <<db, dbBest>>

Step ==
    \/ \E o \in OutPoint :
          \/ AccessCoin(o) \/ SpendCoin(o) \/ AccessTipCoin(o) \/ Uncache(o)
          \/ \E c \in Coin : AddChecked(o, c)
          \/ \E c \in Coin, fCoinbase \in BOOLEAN : AddOutput(o, c, fCoinbase)
    \/ \E b \in Block : SetBestBlock(b)
    \/ GetBestBlock \/ FlushView \/ NewView \/ FlushTip

Next == (status = "up" /\ Step) \/ Restart

Spec == Init /\ [][Next]_vars

-----------------------------------------------------------------------------
(* Properties *)

\* FRESH means what coins.h says it means: the parent has no unspent coin for
\* the outpoint, so an entry that is spent before the flush may be erased.
FreshNotInParent ==
    \A o \in OutPoint :
        /\ IsFresh(tip[o]) => db[o] = Spent
        /\ IsFresh(view[o]) => TipCoin(o) = Spent

\* An entry that is not DIRTY shows what its parent shows, so that Uncache and
\* the flushes, which drop it, lose nothing.
CleanAgreesWithParent ==
    \A o \in OutPoint :
        /\ tip[o] # Absent /\ ~IsDirty(tip[o]) => tip[o].coin = db[o]
        /\ view[o] # Absent /\ ~IsDirty(view[o]) => view[o].coin = TipCoin(o)

\* An entry for a spent coin is a DIRTY, not FRESH one: exactly the spends the
\* parent has to hear of leave a trace.
SpentEntriesAreNews ==
    \A o \in OutPoint : \A e \in {tip[o], view[o]} :
        e # Absent /\ e.coin = Spent => IsDirty(e) /\ ~IsFresh(e)

\* What FRESH, DIRTY and spent entries stand for, in both caches.
EntriesAreSound == FreshNotInParent /\ CleanAgreesWithParent /\ SpentEntriesAreNews

\* Neither logic_error of coins.cpp is ever thrown.
NoLogicError == status # "logic_error"

\* The stack of caches implements three plain copies of the UTXO set: reads
\* change nothing, a flush moves everything and only what a cache shows, and a
\* crash loses exactly what was not flushed.
Utxo == INSTANCE UtxoSet WITH
    disk <- db, diskBest <- dbBest,
    chain <- [o \in OutPoint |-> TipCoin(o)], chainBest <- TipBestBlock,
    work <- [o \in OutPoint |-> ViewCoin(o)], workBest <- ViewBestBlock

ImplementsUtxoSet == Utxo!Spec

\* init.cpp says of Shutdown that it "must be able to handle cases in which
\* initialization failed part of the way": the flush it does then must not run
\* into the assertion of CCoinsViewDB::BatchWrite.
FlushNeverAsserts == status # "assert"
=============================================================================
