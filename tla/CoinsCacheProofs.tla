-------------------------- MODULE CoinsCacheProofs --------------------------
(***************************************************************************)
(* Proofs about CoinsCache, for every set of outpoints, coins and blocks.  *)
(*                                                                         *)
(* All of the reasoning is about one entry: EntryOK(e, p) relates the      *)
(* entry e of a cache to the coin p its parent shows, every method keeps   *)
(* it, and a method that only moves coins between layers keeps the coin    *)
(* that is shown.  The theorems lift that to the two caches.               *)
(***************************************************************************)
EXTENDS CoinsCache, TLAPS

EntryOK(e, p) ==
    e # Absent => /\ IsFresh(e) => p = Spent
                  /\ ~IsDirty(e) => e.coin = p
                  /\ e.coin = Spent => IsDirty(e) /\ ~IsFresh(e)

EntriesOK ==
    \A o \in OutPoint : EntryOK(tip[o], db[o]) /\ EntryOK(view[o], TipCoin(o))

IInv == TypeOK /\ EntriesOK /\ NoLogicError

-----------------------------------------------------------------------------
\* A lookup keeps the entry sound and shows the same coin as before.
LEMMA FetchLemma ==
    ASSUME NEW e \in Slot, NEW p \in Coins, EntryOK(e, p)
    PROVE  /\ FetchCoin(e, p) \in Slot
           /\ EntryOK(FetchCoin(e, p), p)
           /\ CoinOf(FetchCoin(e, p), p) = CoinOf(e, p)
           /\ FetchCoin(e, p) = Absent => p = Spent
BY AbsentAssumption DEF Slot, Entry, Flag, Coins, Modified, EntryOK, FetchCoin, CoinOf, IsDirty, IsFresh

\* AddCoin keeps the entry sound if the caller's promise of no overwrite is
\* kept, and it does not throw then.
LEMMA AddLemma ==
    ASSUME NEW e \in Slot, NEW p \in Coins, EntryOK(e, p),
           NEW c \in Coin, NEW ow \in BOOLEAN, ~ow => CoinOf(e, p) = Spent
    PROVE  /\ ~AddThrows(e, ow)
           /\ AddedCoin(e, c, ow) \in Slot
           /\ EntryOK(AddedCoin(e, c, ow), p)
           /\ CoinOf(AddedCoin(e, c, ow), p) = c
BY AbsentAssumption, SpentAssumption
   DEF Slot, Entry, Flag, Coins, Modified, EntryOK, AddedCoin, AddThrows, CoinOf, IsDirty, IsFresh, HasCoin

\* Spending the fetched entry keeps it sound and shows a spent coin.
LEMMA SpendLemma ==
    ASSUME NEW e \in Slot, NEW p \in Coins, EntryOK(e, p),
           e = Absent => p = Spent
    PROVE  /\ SpentCoin(e) \in Slot
           /\ EntryOK(SpentCoin(e), p)
           /\ CoinOf(SpentCoin(e), p) = Spent
BY AbsentAssumption DEF Slot, Entry, Flag, Coins, Modified, EntryOK, SpentCoin, CoinOf, IsDirty, IsFresh

\* BatchWrite of a sound entry onto a sound entry does not throw, leaves a
\* sound entry, and the parent shows afterwards what the child showed before.
LEMMA MergeLemma ==
    ASSUME NEW u \in Slot, NEW g \in Coins, EntryOK(u, g),
           NEW e \in Slot, EntryOK(e, CoinOf(u, g))
    PROVE  /\ ~MergeThrows(u, e)
           /\ MergedEntry(u, e) \in Slot
           /\ EntryOK(MergedEntry(u, e), g)
           /\ CoinOf(MergedEntry(u, e), g) = CoinOf(e, CoinOf(u, g))
<1>1. ~MergeThrows(u, e)
  BY DEF MergeThrows, EntryOK, CoinOf, IsDirty, IsFresh, HasCoin
<1>2. CASE ~IsDirty(e)
  BY <1>1, <1>2 DEF MergedEntry, EntryOK, CoinOf, IsDirty
<1>3. CASE IsDirty(e) /\ u = Absent
  BY <1>1, <1>3, AbsentAssumption
     DEF MergedEntry, EntryOK, CoinOf, IsDirty, IsFresh, Slot, Entry, Flag, Coins, Modified
<1>4. CASE IsDirty(e) /\ u # Absent
  BY <1>1, <1>4, AbsentAssumption
     DEF MergedEntry, EntryOK, CoinOf, IsDirty, IsFresh, Slot, Entry, Flag, Coins, Modified
<1>5. QED BY <1>2, <1>3, <1>4

-----------------------------------------------------------------------------
\* The coins the caches show are coins.
LEMMA ShownCoins ==
    ASSUME TypeOK, NEW o \in OutPoint
    PROVE  TipCoin(o) \in Coins /\ ViewCoin(o) \in Coins
BY DEF TypeOK, TipCoin, ViewCoin, CoinOf, Slot, Entry

\* Filling pcoinsTip from the database changes no coin it shows.
LEMMA TipFetchLemma ==
    ASSUME IInv, NEW o \in OutPoint, NEW t, t \in {tip, TipFetched(o)}
    PROVE  /\ t \in [OutPoint -> Slot]
           /\ \A q \in OutPoint : /\ EntryOK(t[q], db[q])
                                  /\ CoinOf(t[q], db[q]) = TipCoin(q)
<1>1. /\ tip \in [OutPoint -> Slot] /\ db \in [OutPoint -> Coins]
      /\ \A q \in OutPoint : EntryOK(tip[q], db[q])
  BY DEF IInv, TypeOK, EntriesOK
<1>2. /\ FetchCoin(tip[o], db[o]) \in Slot
      /\ EntryOK(FetchCoin(tip[o], db[o]), db[o])
      /\ CoinOf(FetchCoin(tip[o], db[o]), db[o]) = CoinOf(tip[o], db[o])
  BY <1>1, FetchLemma
<1>3. QED BY <1>1, <1>2 DEF TipFetched, TipCoin

\* A step that at most fills pcoinsTip and changes one entry of the view to a
\* sound one keeps the invariant, the coins pcoinsTip shows, and all the coins
\* the view shows but that one.
LEMMA ViewStep ==
    ASSUME IInv, NEW o \in OutPoint, NEW e \in Slot,
           EntryOK(e, TipCoin(o)),
           tip' \in {tip, TipFetched(o)},
           view' = [view EXCEPT ![o] = e],
           UNCHANGED <<db, dbBest, tipBest, viewBest, status>>
    PROVE  /\ IInv'
           /\ \A q \in OutPoint : TipCoin(q)' = TipCoin(q)
           /\ \A q \in OutPoint : ViewCoin(q)' =
                  IF q = o THEN CoinOf(e, TipCoin(o)) ELSE ViewCoin(q)
<1>1. view \in [OutPoint -> Slot] /\ \A q \in OutPoint : EntryOK(view[q], TipCoin(q))
  BY DEF IInv, TypeOK, EntriesOK
<1>2. tip' \in [OutPoint -> Slot]
  BY TipFetchLemma
<1>3. \A q \in OutPoint : EntryOK(tip[q], db[q])' /\ TipCoin(q)' = TipCoin(q)
  BY TipFetchLemma DEF TipCoin, EntryOK, IsFresh, IsDirty
<1>4. \A q \in OutPoint : EntryOK(view[q], TipCoin(q))'
  <2>1. \A q \in OutPoint : EntryOK(view'[q], TipCoin(q))
    BY <1>1
  <2>2. QED BY <1>3, <2>1 DEF EntryOK, IsFresh, IsDirty
<1>5. \A q \in OutPoint : ViewCoin(q)' =
          IF q = o THEN CoinOf(e, TipCoin(o)) ELSE ViewCoin(q)
  BY <1>1, <1>3 DEF ViewCoin, CoinOf
<1>6. TypeOK'
  BY <1>1, <1>2 DEF IInv, TypeOK
<1>7. QED BY <1>3, <1>4, <1>5, <1>6 DEF IInv, EntriesOK, NoLogicError

-----------------------------------------------------------------------------
(* One lemma per method: it keeps the invariant, and it is a step of       *)
(* UtxoSet (or changes nothing UtxoSet knows of).                          *)

\* The three copies of the UTXO set a state shows.
Shown == Utxo!vars

\* The view's own entry, fetched, is sound and shows what the view shows.
LEMMA ViewFetchLemma ==
    ASSUME IInv, NEW o \in OutPoint
    PROVE  /\ view[o] \in Slot /\ EntryOK(view[o], TipCoin(o))
           /\ TipCoin(o) \in Coins
           /\ ViewFetched(o) \in Slot
           /\ EntryOK(ViewFetched(o), TipCoin(o))
           /\ CoinOf(ViewFetched(o), TipCoin(o)) = ViewCoin(o)
           /\ ViewFetched(o) = Absent => TipCoin(o) = Spent
           /\ TipFetchedByView(o) \in {tip, TipFetched(o)}
<1>1. view[o] \in Slot /\ EntryOK(view[o], TipCoin(o)) /\ TipCoin(o) \in Coins
  BY ShownCoins DEF IInv, TypeOK, EntriesOK
<1>2. QED
  BY <1>1, FetchLemma DEF ViewFetched, ViewCoin, TipFetchedByView

\* A lookup in the view (GetCoin, HaveCoin, AccessCoin) shows nothing new.
LEMMA AccessCoinStep ==
    ASSUME IInv, NEW o \in OutPoint, AccessCoin(o)
    PROVE  IInv' /\ UNCHANGED Shown
<1>1. /\ IInv'
      /\ \A q \in OutPoint : TipCoin(q)' = TipCoin(q)
      /\ \A q \in OutPoint : ViewCoin(q)' = ViewCoin(q)
  <2>1. PICK e \in Slot : e = ViewFetched(o)
    BY ViewFetchLemma
  <2>2. view' = [view EXCEPT ![o] = e] /\ EntryOK(e, TipCoin(o)) /\ CoinOf(e, TipCoin(o)) = ViewCoin(o)
    BY <2>1, ViewFetchLemma DEF AccessCoin
  <2>3. tip' \in {tip, TipFetched(o)} /\ UNCHANGED <<db, dbBest, tipBest, viewBest, status>>
    BY ViewFetchLemma DEF AccessCoin
  <2>4. QED BY <2>2, <2>3, ViewStep
<1>2. QED BY <1>1 DEF Shown, Utxo!vars, AccessCoin, TipBestBlock, ViewBestBlock

\* SpendCoin spends the coin in what the view shows.
LEMMA SpendCoinStep ==
    ASSUME IInv, NEW o \in OutPoint, SpendCoin(o)
    PROVE  IInv' /\ Utxo!Spend(o)
<1> DEFINE e == SpentCoin(ViewFetched(o))
<1>1. e \in Slot /\ EntryOK(e, TipCoin(o)) /\ CoinOf(e, TipCoin(o)) = Spent
  BY ViewFetchLemma, SpendLemma
<1>2. /\ tip' \in {tip, TipFetched(o)} /\ view' = [view EXCEPT ![o] = e]
      /\ UNCHANGED <<db, dbBest, tipBest, viewBest, status>>
  BY ViewFetchLemma DEF SpendCoin
<1> HIDE DEF e
<1>3. /\ IInv'
      /\ \A q \in OutPoint : TipCoin(q)' = TipCoin(q)
      /\ \A q \in OutPoint : ViewCoin(q)' = IF q = o THEN Spent ELSE ViewCoin(q)
  BY <1>1, <1>2, ViewStep
<1>4. QED BY <1>2, <1>3 DEF Utxo!Spend, TipBestBlock, ViewBestBlock

\* Both callers of AddCoin, on the view's entry e as it is or fetched.
LEMMA AddCoinStep ==
    ASSUME IInv, NEW o \in OutPoint, NEW c \in Coin, NEW ow \in BOOLEAN,
           NEW e \in {view[o], ViewFetched(o)},
           ~ow => ViewCoin(o) = Spent,
           AddCoin(o, e, c, ow), tip' \in {tip, TipFetched(o)},
           UNCHANGED <<db, dbBest, tipBest, viewBest>>
    PROVE  IInv' /\ Utxo!Add(o, c)
<1> DEFINE f == AddedCoin(e, c, ow)
<1>1. e \in Slot /\ EntryOK(e, TipCoin(o)) /\ CoinOf(e, TipCoin(o)) = ViewCoin(o)
  BY ViewFetchLemma DEF ViewCoin
<1>2. ~AddThrows(e, ow) /\ f \in Slot /\ EntryOK(f, TipCoin(o)) /\ CoinOf(f, TipCoin(o)) = c
  BY <1>1, ViewFetchLemma, AddLemma
<1>3. view' = [view EXCEPT ![o] = f] /\ UNCHANGED status
  BY <1>2 DEF AddCoin
<1> HIDE DEF f
<1>4. /\ IInv'
      /\ \A q \in OutPoint : TipCoin(q)' = TipCoin(q)
      /\ \A q \in OutPoint : ViewCoin(q)' = IF q = o THEN c ELSE ViewCoin(q)
  BY <1>2, <1>3, ViewStep
<1>5. QED BY <1>4 DEF Utxo!Add, TipBestBlock, ViewBestBlock

\* AddCoins of a connected transaction adds the coin and does not throw.
LEMMA AddOutputStep ==
    ASSUME IInv, NEW o \in OutPoint, NEW c \in Coin, NEW fCoinbase \in BOOLEAN,
           AddOutput(o, c, fCoinbase)
    PROVE  IInv' /\ Utxo!Add(o, c)
<1>1. tip' = tip /\ UNCHANGED <<db, dbBest, tipBest, viewBest>>
  BY DEF AddOutput
<1>2. (~fCoinbase => ViewCoin(o) = Spent) /\ AddCoin(o, view[o], c, fCoinbase)
  BY DEF AddOutput
<1>3. QED BY <1>1, <1>2, AddCoinStep

\* HaveCoin followed by AddCoin adds the coin and does not throw.
LEMMA AddCheckedStep ==
    ASSUME IInv, NEW o \in OutPoint, NEW c \in Coin, AddChecked(o, c)
    PROVE  IInv' /\ Utxo!Add(o, c)
<1>1. tip' \in {tip, TipFetched(o)} /\ UNCHANGED <<db, dbBest, tipBest, viewBest>>
  BY ViewFetchLemma DEF AddChecked
<1>2. PICK ow \in BOOLEAN : ow = (ViewCoin(o) # Spent)
  OBVIOUS
<1>3. AddCoin(o, ViewFetched(o), c, ow) /\ (~ow => ViewCoin(o) = Spent)
  BY <1>2 DEF AddChecked
<1>4. QED BY <1>1, <1>3, AddCoinStep

\* GetBestBlock caches a hash every layer already showed.
LEMMA GetBestBlockStep ==
    ASSUME IInv, GetBestBlock
    PROVE  IInv' /\ UNCHANGED Shown
<1>1. UNCHANGED <<db, tip, view, status, dbBest>>
  BY DEF GetBestBlock
<1>2. \A o \in OutPoint : TipCoin(o)' = TipCoin(o) /\ ViewCoin(o)' = ViewCoin(o)
  BY <1>1 DEF TipCoin, ViewCoin
<1>3. TypeOK' /\ TipBestBlock' = TipBestBlock /\ ViewBestBlock' = ViewBestBlock
  BY <1>1 DEF IInv, TypeOK, GetBestBlock, TipBestBlock, ViewBestBlock
<1>4. EntriesOK'
  BY <1>1, <1>2 DEF IInv, EntriesOK
<1>5. QED BY <1>1, <1>2, <1>3, <1>4 DEF IInv, NoLogicError, Shown, Utxo!vars

\* SetBestBlock moves the best block the view shows.
LEMMA SetBestBlockStep ==
    ASSUME IInv, NEW b \in Block, SetBestBlock(b)
    PROVE  IInv' /\ Utxo!SetBestBlock(b)
<1>1. UNCHANGED <<db, tip, view, status, dbBest, tipBest>> /\ viewBest' = b
  BY DEF SetBestBlock
<1>2. \A o \in OutPoint : TipCoin(o)' = TipCoin(o) /\ ViewCoin(o)' = ViewCoin(o)
  BY <1>1 DEF TipCoin, ViewCoin
<1>3. TypeOK' /\ TipBestBlock' = TipBestBlock /\ ViewBestBlock' = b
  BY <1>1, NullHashAssumption DEF IInv, TypeOK, TipBestBlock, ViewBestBlock
<1>4. EntriesOK'
  BY <1>1, <1>2 DEF IInv, EntriesOK
<1>5. QED BY <1>1, <1>2, <1>3, <1>4 DEF IInv, NoLogicError, Utxo!SetBestBlock

\* Flush of the view makes pcoinsTip show what the view shows; no FRESH
\* entry meets an unspent one, so BatchWrite does not throw.
LEMMA FlushViewStep ==
    ASSUME IInv, FlushView
    PROVE  IInv' /\ Utxo!Commit
<1>1. ASSUME NEW o \in OutPoint
      PROVE  /\ ~MergeThrows(tip[o], view[o])
             /\ MergedEntry(tip[o], view[o]) \in Slot
             /\ EntryOK(MergedEntry(tip[o], view[o]), db[o])
             /\ CoinOf(MergedEntry(tip[o], view[o]), db[o]) = ViewCoin(o)
  BY MergeLemma DEF IInv, TypeOK, EntriesOK, TipCoin, ViewCoin
<1>2. /\ tip' = [o \in OutPoint |-> MergedEntry(tip[o], view[o])]
      /\ view' = EmptyCache /\ tipBest' = viewBest /\ viewBest # NullHash
      /\ UNCHANGED <<db, dbBest, viewBest, status>>
  BY <1>1 DEF FlushView
<1>3. \A o \in OutPoint : TipCoin(o)' = ViewCoin(o) /\ ViewCoin(o)' = ViewCoin(o)
  BY <1>1, <1>2 DEF TipCoin, ViewCoin, CoinOf, EmptyCache
<1>4. TipBestBlock' = ViewBestBlock /\ ViewBestBlock' = ViewBestBlock
  BY <1>2 DEF TipBestBlock, ViewBestBlock
<1>5. TypeOK'
  BY <1>1, <1>2 DEF IInv, TypeOK, EmptyCache, Slot
<1>6. EntriesOK'
  BY <1>1, <1>2 DEF EntriesOK, EntryOK, IsFresh, IsDirty, EmptyCache
<1>7. QED BY <1>2, <1>3, <1>4, <1>5, <1>6 DEF IInv, NoLogicError, Utxo!Commit

\* Dropping the view discards its work and nothing else.
LEMMA NewViewStep ==
    ASSUME IInv, NewView
    PROVE  IInv' /\ Utxo!Discard
<1>1. /\ UNCHANGED <<db, dbBest, tip, tipBest, status>>
      /\ view' = EmptyCache /\ viewBest' = NullHash
  BY DEF NewView
<1>2. \A o \in OutPoint : TipCoin(o)' = TipCoin(o) /\ ViewCoin(o)' = TipCoin(o)
  BY <1>1 DEF TipCoin, ViewCoin, CoinOf, EmptyCache
<1>3. TypeOK' /\ TipBestBlock' = TipBestBlock /\ ViewBestBlock' = TipBestBlock
  BY <1>1 DEF IInv, TypeOK, TipBestBlock, ViewBestBlock, EmptyCache, Slot
<1>4. EntriesOK'
  BY <1>1 DEF IInv, EntriesOK, EntryOK, IsFresh, IsDirty, EmptyCache
<1>5. QED BY <1>1, <1>2, <1>3, <1>4 DEF IInv, NoLogicError, Utxo!Discard

\* A lookup in pcoinsTip shows nothing new, to the view above it either.
LEMMA AccessTipCoinStep ==
    ASSUME IInv, NEW o \in OutPoint, AccessTipCoin(o)
    PROVE  IInv' /\ UNCHANGED Shown
<1>1. tip' = TipFetched(o) /\ UNCHANGED <<db, dbBest, tipBest, view, viewBest, status>>
  BY DEF AccessTipCoin
<1>2. tip' \in [OutPoint -> Slot] /\ \A q \in OutPoint : EntryOK(tip[q], db[q])' /\ TipCoin(q)' = TipCoin(q)
  BY <1>1, TipFetchLemma DEF TipCoin, EntryOK, IsFresh, IsDirty
<1>3. \A q \in OutPoint : EntryOK(view[q], TipCoin(q))' /\ ViewCoin(q)' = ViewCoin(q)
  BY <1>1, <1>2 DEF IInv, EntriesOK, ViewCoin, EntryOK, IsFresh, IsDirty
<1>4. TypeOK' /\ TipBestBlock' = TipBestBlock /\ ViewBestBlock' = ViewBestBlock
  BY <1>1, <1>2 DEF IInv, TypeOK, TipBestBlock, ViewBestBlock
<1>5. QED BY <1>1, <1>2, <1>3, <1>4 DEF IInv, EntriesOK, NoLogicError, Shown, Utxo!vars

\* Uncache drops only an entry that shows what the database has.
LEMMA UncacheStep ==
    ASSUME IInv, NEW o \in OutPoint, Uncache(o)
    PROVE  IInv' /\ UNCHANGED Shown
<1>1. /\ tip' = [tip EXCEPT ![o] = Absent]
      /\ UNCHANGED <<db, dbBest, tipBest, view, viewBest, status>>
      /\ ~IsDirty(tip[o]) /\ tip[o] # Absent
  BY DEF Uncache, IsDirty
<1>2. tip' \in [OutPoint -> Slot] /\ \A q \in OutPoint : EntryOK(tip[q], db[q])' /\ TipCoin(q)' = TipCoin(q)
  BY <1>1 DEF IInv, TypeOK, EntriesOK, TipCoin, CoinOf, EntryOK, IsFresh, IsDirty, Slot
<1>3. \A q \in OutPoint : EntryOK(view[q], TipCoin(q))' /\ ViewCoin(q)' = ViewCoin(q)
  BY <1>1, <1>2 DEF IInv, EntriesOK, ViewCoin, EntryOK, IsFresh, IsDirty
<1>4. TypeOK' /\ TipBestBlock' = TipBestBlock /\ ViewBestBlock' = ViewBestBlock
  BY <1>1, <1>2 DEF IInv, TypeOK, TipBestBlock, ViewBestBlock
<1>5. QED BY <1>1, <1>2, <1>3, <1>4 DEF IInv, EntriesOK, NoLogicError, Shown, Utxo!vars

\* Flush of pcoinsTip makes the database what pcoinsTip shows, or the
\* assertion of BatchWrite stops the process and nothing is written.
LEMMA FlushTipStep ==
    ASSUME IInv, FlushTip
    PROVE  IInv' /\ (Utxo!Persist \/ UNCHANGED Shown)
<1>1. CASE tipBest = NullHash
  <2>1. UNCHANGED <<db, dbBest, tip, tipBest, view, viewBest>> /\ status' = "assert"
    BY <1>1 DEF FlushTip
  <2>2. \A o \in OutPoint : TipCoin(o)' = TipCoin(o) /\ ViewCoin(o)' = ViewCoin(o)
    BY <2>1 DEF TipCoin, ViewCoin
  <2>3. QED
    BY <2>1, <2>2 DEF IInv, TypeOK, EntriesOK, NoLogicError, Shown, Utxo!vars, TipBestBlock, ViewBestBlock
<1>2. CASE tipBest # NullHash
  <2>1. /\ db' = [o \in OutPoint |-> IF IsDirty(tip[o]) THEN tip[o].coin ELSE db[o]]
        /\ dbBest' = tipBest /\ tip' = EmptyCache
        /\ UNCHANGED <<tipBest, view, viewBest, status>>
    BY <1>2 DEF FlushTip
  <2>2. \A o \in OutPoint : db'[o] = TipCoin(o)
    BY <2>1 DEF IInv, TypeOK, EntriesOK, EntryOK, TipCoin, CoinOf, IsDirty
  <2>3. \A o \in OutPoint : TipCoin(o)' = TipCoin(o) /\ ViewCoin(o)' = ViewCoin(o)
    BY <2>1, <2>2 DEF TipCoin, ViewCoin, CoinOf, EmptyCache
  <2>4. db' \in [OutPoint -> Coins]
    BY <2>1, <2>2, ShownCoins DEF IInv
  <2>5. TypeOK' /\ TipBestBlock' = TipBestBlock /\ ViewBestBlock' = ViewBestBlock
    BY <1>2, <2>1, <2>4 DEF IInv, TypeOK, EmptyCache, Slot, TipBestBlock, ViewBestBlock
  <2>6. EntriesOK'
    BY <2>1, <2>3 DEF IInv, EntriesOK, EntryOK, IsFresh, IsDirty, EmptyCache
  <2>7. db' = [o \in OutPoint |-> TipCoin(o)] /\ dbBest' = TipBestBlock
    BY <1>2, <2>1, <2>2 DEF TipBestBlock
  <2>8. Utxo!Persist
    BY <2>1, <2>3, <2>5, <2>7 DEF Utxo!Persist
  <2>9. QED BY <2>1, <2>5, <2>6, <2>8 DEF IInv, NoLogicError
<1>3. QED BY <1>1, <1>2

\* A restart shows what the database has.
LEMMA RestartStep ==
    ASSUME IInv, Restart
    PROVE  IInv' /\ Utxo!Crash
<1>1. /\ UNCHANGED <<db, dbBest>> /\ tip' = EmptyCache /\ view' = EmptyCache
      /\ tipBest' = dbBest /\ viewBest' = NullHash /\ status' = "up"
  BY DEF Restart
<1>2. \A o \in OutPoint : TipCoin(o)' = db[o] /\ ViewCoin(o)' = db[o]
  BY <1>1 DEF TipCoin, ViewCoin, CoinOf, EmptyCache
<1>3. TypeOK' /\ TipBestBlock' = dbBest /\ ViewBestBlock' = dbBest
  BY <1>1 DEF IInv, TypeOK, TipBestBlock, ViewBestBlock, EmptyCache, Slot
<1>4. EntriesOK' /\ NoLogicError'
  BY <1>1 DEF EntriesOK, EntryOK, EmptyCache, NoLogicError
<1>5. db = [o \in OutPoint |-> db[o]]
  BY DEF IInv, TypeOK
<1>6. Utxo!Crash
  BY <1>1, <1>2, <1>3, <1>5 DEF Utxo!Crash
<1>7. QED BY <1>3, <1>4, <1>6 DEF IInv

-----------------------------------------------------------------------------
(* The theorems. *)

\* The caches start empty over an empty database.
LEMMA InitLemma == Init => IInv /\ Utxo!Init
<1> SUFFICES ASSUME Init PROVE IInv /\ Utxo!Init
  OBVIOUS
<1>1. \A o \in OutPoint : TipCoin(o) = Spent /\ ViewCoin(o) = Spent
  BY DEF Init, TipCoin, ViewCoin, CoinOf, EmptyCache
<1>2. TipBestBlock = NullHash /\ ViewBestBlock = NullHash
  BY DEF Init, TipBestBlock, ViewBestBlock
<1>3. IInv
  BY DEF Init, IInv, TypeOK, Coins, Slot, EmptyCache, EntriesOK, EntryOK, NoLogicError
<1>4. QED BY <1>1, <1>2, <1>3 DEF Init, Utxo!Init

\* Every method keeps the invariant and is a step of UtxoSet or a stutter.
LEMMA NextLemma == IInv /\ [Next]_vars => IInv' /\ [Utxo!Next]_Shown
<1> SUFFICES ASSUME IInv, [Next]_vars PROVE IInv' /\ [Utxo!Next]_Shown
  OBVIOUS
<1>1. ASSUME NEW o \in OutPoint, AccessCoin(o) PROVE IInv' /\ UNCHANGED Shown
  BY <1>1, AccessCoinStep
<1>2. ASSUME NEW o \in OutPoint, SpendCoin(o) PROVE IInv' /\ Utxo!Next
  BY <1>2, SpendCoinStep DEF Utxo!Next
<1>3. ASSUME NEW o \in OutPoint, AccessTipCoin(o) PROVE IInv' /\ UNCHANGED Shown
  BY <1>3, AccessTipCoinStep
<1>4. ASSUME NEW o \in OutPoint, Uncache(o) PROVE IInv' /\ UNCHANGED Shown
  BY <1>4, UncacheStep
<1>5. ASSUME NEW o \in OutPoint, NEW c \in Coin, AddChecked(o, c) PROVE IInv' /\ Utxo!Next
  BY <1>5, AddCheckedStep DEF Utxo!Next
<1>6. ASSUME NEW o \in OutPoint, NEW c \in Coin, NEW fCoinbase \in BOOLEAN, AddOutput(o, c, fCoinbase)
      PROVE  IInv' /\ Utxo!Next
  BY <1>6, AddOutputStep DEF Utxo!Next
<1>7. ASSUME NEW b \in Block, SetBestBlock(b) PROVE IInv' /\ Utxo!Next
  BY <1>7, SetBestBlockStep DEF Utxo!Next
<1>8. CASE GetBestBlock
  BY <1>8, GetBestBlockStep
<1>9. CASE FlushView
  BY <1>9, FlushViewStep DEF Utxo!Next
<1>10. CASE NewView
  BY <1>10, NewViewStep DEF Utxo!Next
<1>11. CASE FlushTip
  BY <1>11, FlushTipStep DEF Utxo!Next
<1>12. CASE Restart
  BY <1>12, RestartStep DEF Utxo!Next
<1>13. CASE UNCHANGED vars
  <2>1. \A o \in OutPoint : TipCoin(o)' = TipCoin(o) /\ ViewCoin(o)' = ViewCoin(o)
    BY <1>13 DEF vars, TipCoin, ViewCoin
  <2>2. QED
    BY <1>13, <2>1 DEF vars, IInv, TypeOK, EntriesOK, NoLogicError, Shown, Utxo!vars, TipBestBlock, ViewBestBlock
<1>14. QED
  BY <1>1, <1>2, <1>3, <1>4, <1>5, <1>6, <1>7, <1>8, <1>9, <1>10, <1>11, <1>12, <1>13 DEF Next, Step

\* The inductive invariant holds in every reachable state of the coins views.
LEMMA Invariance == Spec => []IInv
BY InitLemma, NextLemma, PTL DEF Spec

\* Every method of the coins views keeps its variables in their types: the
\* erased entries of BatchWrite and SpendCoin are really gone.
THEOREM TypeCorrect == Spec => []TypeOK
<1>1. IInv => TypeOK
  BY DEF IInv
<1>2. QED BY <1>1, Invariance, PTL

\* A FRESH entry has no unspent coin under it, an entry that is not DIRTY, which
\* Uncache and the flushes drop, shows what its parent shows, and spent coins
\* stay in a cache exactly as long as the parent must hear of them, whatever the
\* order of lookups, additions, spends, flushes and restarts.
THEOREM EntriesSound == Spec => []EntriesAreSound
<1>1. IInv => FreshNotInParent
  BY DEF IInv, EntriesOK, EntryOK, FreshNotInParent, IsFresh
<1>2. IInv => CleanAgreesWithParent
  BY DEF IInv, EntriesOK, EntryOK, CleanAgreesWithParent
<1>3. IInv => SpentEntriesAreNews
  BY DEF IInv, EntriesOK, EntryOK, SpentEntriesAreNews
<1>4. IInv => EntriesAreSound
  BY <1>1, <1>2, <1>3 DEF EntriesAreSound
<1>5. QED BY <1>4, Invariance, PTL

\* The logic_errors of AddCoin and BatchWrite are unreachable as long as only
\* coinbases reuse a txid.
THEOREM NeverThrows == Spec => []NoLogicError
<1>1. IInv => NoLogicError
  BY DEF IInv
<1>2. QED BY <1>1, Invariance, PTL

\* The stack of caches implements the three plain copies of the UTXO set.
THEOREM Refinement == Spec => ImplementsUtxoSet
<1>1. Init => Utxo!Init
  BY InitLemma
<1>2. IInv /\ [Next]_vars => [Utxo!Next]_Utxo!vars
  BY NextLemma DEF Shown
<1>3. QED BY <1>1, <1>2, Invariance, PTL DEF Spec, ImplementsUtxoSet, Utxo!Spec

=============================================================================
