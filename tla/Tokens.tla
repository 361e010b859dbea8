------------------------------- MODULE Tokens -------------------------------
(***************************************************************************)
(* The token metadata (tokens/tokens.cpp): which token names exist, and    *)
(* the amount, units, ipfs hash and reissuable flag of each.  ConnectBlock *)
(* and DisconnectBlock work on an empty CTokensCache on top of the global  *)
(* ptokens; Flush merges it into ptokens; DumpCacheToDatabase writes       *)
(* ptokens to the database, of which ptokensCache (an LRU cache) holds     *)
(* some entries.  Removed entries are remembered in sets of their own, and *)
(* reissued tokens in a map of their own, each looked up in an order that  *)
(* must give the state of the active chain after every reorganisation.     *)
(*                                                                         *)
(* One action is one critical section of cs_main.  -tokenindex is off (its *)
(* default), so the balances by address are not kept.  The height and hash *)
(* stored with a token and the mempool (mapReissuedTokens is empty) are    *)
(* left out, and so is a crash between the flush of the coins and the end  *)
(* of DumpCacheToDatabase, after which the tokens are behind the chain.    *)
(* Unique tokens behave as root tokens do here.                            *)
(***************************************************************************)
EXTENDS Integers, SequencesExt, TLC

CONSTANTS
    Name, Tx,
    Kind,              \* "issue", "username" or "reissue"
    strName,           \* the token each transaction is about
    Data,              \* the metadata it carries
    ownerInput,        \* the transaction whose owner token a reissue spends
    Blocks,            \* the blocks, as sequences of transactions
    NoHash,            \* the empty ipfs hash
    NoToken,           \* "not found"
    MAX_MONEY_TOKENS,
    MaxHeight          \* bound: blocks in the active chain

ASSUME TxAssumption ==
    /\ Kind \in [Tx -> {"issue", "username", "reissue"}]
    /\ strName \in [Tx -> Name]
    /\ \A tx \in Tx : Kind[tx] = "reissue" => ownerInput[tx] \in Tx
    /\ Blocks \subseteq Seq(Tx)
ASSUME BoundAssumption == MAX_MONEY_TOKENS \in Nat /\ MaxHeight \in Nat

VARIABLES
    chain,         \* the active chain: the blocks connected
    ptokens,       \* the global CTokensCache
    ptokensCache,  \* the LRU cache: some entries of the database
    ptokensdb,     \* the database: the metadata of each token
    tokenUndo,     \* the database: CBlockTokenUndo entries of each block
    flushed        \* the chain of the coins database

vars == <<chain, ptokens, ptokensCache, ptokensdb, tokenUndo, flushed>>

Empty == [n \in {} |-> NoToken]

Without(f, S) == [n \in DOMAIN f \ S |-> f[n]]

\* CTokensCache::ClearDirtyCache
EmptyCache ==
    [setNewTokensToAdd |-> Empty, setNewTokensToRemove |-> {},
     mapReissuedTokenData |-> Empty,
     setNewReissueToAdd |-> {}, setNewReissueToRemove |-> {}]

(***************************************************************************)
(* Lookups in the cache c of a block and, below it, ptokens.               *)
(***************************************************************************)
RemovedIn(c) == c.setNewTokensToRemove \cup ptokens.setNewTokensToRemove

Below(c) ==
    c.setNewTokensToAdd @@ ptokens.setNewTokensToAdd @@ ptokensCache @@ ptokensdb

CheckIfTokenExists(c, n) == n \in DOMAIN Below(c) \ RemovedIn(c)

\* Mutant: the reissued data that were flushed to ptokens are not looked at.
IgnoringPtokens(c, n) ==
    LET found == c.mapReissuedTokenData @@ Without(Below(c), RemovedIn(c))
    IN  IF n \in DOMAIN found THEN found[n] ELSE NoToken

\* The reissued data first, removed or not.
GetTokenMetaDataIfExists(c, n) ==
    LET found == c.mapReissuedTokenData @@ ptokens.mapReissuedTokenData
                   @@ Without(Below(c), RemovedIn(c))
    IN  IF n \in DOMAIN found THEN found[n] ELSE NoToken

\* What ptokensCache may hold after lookups of the names in S: a token read
\* from the database is put there, and others may fall out.
AfterLookups(S) ==
    {[n \in T |-> (ptokensCache @@ ptokensdb)[n]] :
        T \in SUBSET (DOMAIN ptokensCache \cup (S \cap DOMAIN ptokensdb))}

(***************************************************************************)
(* CTokensCache's operations: each returns the new cache.                  *)
(***************************************************************************)
AddNewToken(c, tx) ==
    LET n == strName[tx]
    IN  IF CheckIfTokenExists(c, n) THEN c
        ELSE [c EXCEPT !.setNewTokensToRemove = @ \ {n},
                       !.setNewTokensToAdd = @ @@ (n :> Data[tx])]

\* Called when ContainsToken says that the token is there.
RemoveNewToken(c, tx) ==
    LET n == strName[tx]
    IN  IF ~CheckIfTokenExists(c, n) THEN c
        ELSE [c EXCEPT !.setNewTokensToAdd = Without(@, {n}),
                       !.setNewTokensToRemove = @ \cup {n}]

Reissued(token, r) ==
    [nAmount |-> token.nAmount + r.nAmount,
     nReissuable |-> r.nReissuable,
     units |-> IF r.units = -1 THEN token.units ELSE r.units,
     strIPFSHash |-> IF r.strIPFSHash = NoHash THEN token.strIPFSHash ELSE r.strIPFSHash]

AddReissueToken(c, tx) ==
    LET n == strName[tx]
        token == GetTokenMetaDataIfExists(c, n)
    IN  IF token = NoToken THEN c
        ELSE [c EXCEPT !.mapReissuedTokenData = (n :> Reissued(token, Data[tx])) @@ @,
                       !.setNewReissueToRemove = @ \ {tx},
                       !.setNewReissueToAdd = @ \cup {tx}]

\* CBlockTokenUndo: what the reissue tx of the metadata token overwrites.
UndoEntry(token, tx) ==
    LET r == Data[tx]
    IN  IF r.strIPFSHash = NoHash /\ r.units = -1 THEN <<>>
        ELSE <<[name |-> strName[tx],
                fChangedIPFS |-> r.strIPFSHash # NoHash,
                fChangedUnits |-> r.units # -1,
                strIPFS |-> token.strIPFSHash, nUnits |-> token.units]>>

\* The metadata before a reissue, from the block's first undo entry for it.
Unreissued(token, tx, vUndo) ==
    LET items == SelectSeq(vUndo, LAMBDA u : u.name = strName[tx])
        changed(flag) == items # <<>> /\ items[1][flag]
    IN  [nAmount |-> token.nAmount - Data[tx].nAmount,
         nReissuable |-> 1,
         units |-> IF changed("fChangedUnits") THEN items[1].nUnits ELSE token.units,
         strIPFSHash |-> IF changed("fChangedIPFS") THEN items[1].strIPFS
                         ELSE token.strIPFSHash]

\* Called when ContainsToken says that the token is there.
RemoveReissueToken(c, tx, vUndo) ==
    LET n == strName[tx]
        token == GetTokenMetaDataIfExists(c, n)
    IN  IF ~CheckIfTokenExists(c, n) THEN c
        ELSE [c EXCEPT !.mapReissuedTokenData = (n :> Unreissued(token, tx, vUndo)) @@ @,
                       !.setNewReissueToAdd = @ \ {tx},
                       !.setNewReissueToRemove = @ \cup {tx}]

(***************************************************************************)
(* ConnectBlock: check a transaction and apply it to the block's cache.    *)
(***************************************************************************)
\* CReissueToken::IsValid.  Amounts are in whole tokens and hashes well formed
\* here, as CheckAmountWithUnits and CheckEncodedIPFS demand.
ReissueIsValid(c, tx) ==
    LET token == GetTokenMetaDataIfExists(c, strName[tx])
    IN  /\ token # NoToken
        /\ token.nReissuable = 1
        /\ token.nAmount + Data[tx].nAmount <= MAX_MONEY_TOKENS
        /\ Data[tx].units = -1 \/ Data[tx].units >= token.units

ConnectTx(s, tx) ==
    CASE ~s.ok -> s
      [] Kind[tx] = "username" -> [s EXCEPT !.cache = AddNewToken(@, tx)]
      [] Kind[tx] = "issue" ->
            [s EXCEPT !.ok = ~CheckIfTokenExists(s.cache, strName[tx]),
                      !.cache = AddNewToken(@, tx)]
      [] Kind[tx] = "reissue" /\ ~ReissueIsValid(s.cache, tx) -> [s EXCEPT !.ok = FALSE]
      [] OTHER ->
            [s EXCEPT !.undo = @ \o UndoEntry(GetTokenMetaDataIfExists(s.cache, strName[tx]), tx),
                      !.cache = AddReissueToken(@, tx)]

\* CheckBlock, which is skipped for a block it was just called for (fChecked).
CheckBlock(block) ==
    \A i \in DOMAIN block :
        Kind[block[i]] # "reissue" => ~CheckIfTokenExists(ptokens, strName[block[i]])

ConnectBlock(block) ==
    FoldLeft(ConnectTx, [cache |-> EmptyCache, ok |-> TRUE, undo |-> <<>>], block)

\* DisconnectBlock: the transactions in reverse; a username is not removed.
DisconnectBlock(block, vUndo) ==
    LET undoTx(tx, c) ==
            CASE Kind[tx] = "issue" -> RemoveNewToken(c, tx)
              [] Kind[tx] = "reissue" -> RemoveReissueToken(c, tx, vUndo)
              [] OTHER -> c
    IN  FoldRight(undoTx, block, EmptyCache)

(***************************************************************************)
(* CTokensCache::Flush and DumpCacheToDatabase.                            *)
(***************************************************************************)
Flush(c) ==
    [setNewTokensToAdd |->
        Without(ptokens.setNewTokensToAdd @@ c.setNewTokensToAdd, c.setNewTokensToRemove),
     setNewTokensToRemove |->
        (ptokens.setNewTokensToRemove \ DOMAIN c.setNewTokensToAdd) \cup c.setNewTokensToRemove,
     mapReissuedTokenData |-> c.mapReissuedTokenData @@ ptokens.mapReissuedTokenData,
     setNewReissueToAdd |->
        (ptokens.setNewReissueToAdd \cup c.setNewReissueToAdd) \ c.setNewReissueToRemove,
     setNewReissueToRemove |->
        (ptokens.setNewReissueToRemove \ c.setNewReissueToAdd) \cup c.setNewReissueToRemove]

NamesOf(txs) == {strName[tx] : tx \in txs}

\* Mutant: the reissue of a removed token is written as well.
WritesOfRemoved(c) ==
    [n \in DOMAIN c.mapReissuedTokenData
             \cap NamesOf(c.setNewReissueToAdd \cup c.setNewReissueToRemove)
        |-> c.mapReissuedTokenData[n]]

\* The tokens whose reissued, or no longer reissued, metadata are written.
ReissueWrites(c) ==
    [n \in DOMAIN c.mapReissuedTokenData
             \cap (NamesOf(c.setNewReissueToAdd)
                     \cup (NamesOf(c.setNewReissueToRemove) \ c.setNewTokensToRemove))
        |-> c.mapReissuedTokenData[n]]

\* Mutant: ptokensCache keeps the metadata of reissued tokens.
DumpKeepingCache(c, cached) ==
    /\ ptokensdb' = ReissueWrites(c) @@ c.setNewTokensToAdd
                      @@ Without(ptokensdb, c.setNewTokensToRemove)
    /\ ptokensCache' = c.setNewTokensToAdd @@ Without(cached, c.setNewTokensToRemove)
    /\ ptokens' = EmptyCache

DumpCacheToDatabase(c, cached) ==
    /\ ptokensdb' = ReissueWrites(c) @@ c.setNewTokensToAdd
                      @@ Without(ptokensdb, c.setNewTokensToRemove)
    /\ ptokensCache' = Without(c.setNewTokensToAdd @@ Without(cached, c.setNewTokensToRemove),
                               DOMAIN ReissueWrites(c))
    /\ ptokens' = EmptyCache

\* Flush the block's cache and, if FlushStateToDisk finds it needed, write.
FlushTip(c, block) ==
    \E cached \in AfterLookups(NamesOf(Range(block))) :
        \/ ptokens' = Flush(c) /\ ptokensCache' = cached /\ UNCHANGED <<ptokensdb, flushed>>
        \/ DumpCacheToDatabase(Flush(c), cached) /\ flushed' = chain'

(***************************************************************************)
(* The actions.                                                            *)
(***************************************************************************)
Init ==
    /\ chain = <<>>
    /\ ptokens = EmptyCache
    /\ ptokensCache = Empty /\ ptokensdb = Empty
    /\ tokenUndo = [c \in {} |-> <<>>]
    /\ flushed = <<>>

Txs(c) == FlattenSeq(c)

\* The coins a block spends are there: its transactions are new, and each
\* reissue is the first to spend the owner token it spends.
HaveInputs(block) ==
    LET txs == Txs(Append(chain, block))
    IN  \A i \in DOMAIN txs :
          /\ \A j \in 1 .. i - 1 : txs[j] # txs[i]
          /\ Kind[txs[i]] = "reissue" =>
               /\ \E j \in 1 .. i - 1 : txs[j] = ownerInput[txs[i]]
               /\ \A j \in 1 .. i - 1 :
                    Kind[txs[j]] = "reissue" => ownerInput[txs[j]] # ownerInput[txs[i]]

\* ConnectTip of a block that is valid; fChecked when it has just arrived.
ConnectTip(block, fChecked) ==
    /\ Len(chain) < MaxHeight
    /\ HaveInputs(block)
    /\ fChecked \/ CheckBlock(block)
    /\ \E s \in {ConnectBlock(block)}, new \in {Append(chain, block)} :
         /\ s.ok
         /\ chain' = new
         /\ FlushTip(s.cache, block)
         /\ tokenUndo' = IF new \in DOMAIN tokenUndo \/ s.undo = <<>> THEN tokenUndo
                         ELSE tokenUndo @@ (new :> s.undo)

DisconnectTip ==
    /\ chain # <<>> /\ chain' = Front(chain)
    /\ LET vUndo == IF chain \in DOMAIN tokenUndo THEN tokenUndo[chain] ELSE <<>>
       IN  FlushTip(DisconnectBlock(Last(chain), vUndo), Last(chain))
    /\ UNCHANGED tokenUndo

\* FlushStateToDisk on its timer or at shutdown.
FlushStateToDisk ==
    /\ DumpCacheToDatabase(ptokens, ptokensCache)
    /\ flushed' = chain
    /\ UNCHANGED <<chain, tokenUndo>>

\* A stop, clean or not: what was not flushed is lost, and LoadTokens fills
\* ptokensCache.  The undo data were written when the block was connected.
Restart ==
    /\ chain' = flushed
    /\ ptokens' = EmptyCache /\ ptokensCache' = ptokensdb
    /\ UNCHANGED <<ptokensdb, tokenUndo, flushed>>

\* A lookup by an RPC or by the mempool.
Lookup(n) ==
    /\ n \notin DOMAIN ptokens.setNewTokensToAdd \cup ptokens.setNewTokensToRemove
    /\ ptokensCache' \in AfterLookups({n})
    /\ UNCHANGED <<chain, ptokens, ptokensdb, tokenUndo, flushed>>

Next ==
    \/ \E block \in Blocks, fChecked \in BOOLEAN : ConnectTip(block, fChecked)
    \/ DisconnectTip \/ FlushStateToDisk \/ Restart
    \/ \E n \in Name : Lookup(n)

Spec == Init /\ [][Next]_vars

-----------------------------------------------------------------------------
Meta == [nAmount : 0 .. MAX_MONEY_TOKENS, nReissuable : {0, 1}, units : 0 .. 8,
         strIPFSHash : {NoHash} \cup {Data[tx].strIPFSHash : tx \in Tx}]

IsMap(f) == DOMAIN f \subseteq Name /\ \A n \in DOMAIN f : f[n] \in Meta

(* Type invariant; the amount of a token stays below MAX_MONEY_TOKENS. *)
TypeOK ==
    /\ chain \in Seq(Blocks) /\ Len(chain) <= MaxHeight
    /\ IsMap(ptokens.setNewTokensToAdd) /\ IsMap(ptokens.mapReissuedTokenData)
    /\ IsMap(ptokensCache) /\ IsMap(ptokensdb)
    /\ ptokens.setNewTokensToRemove \subseteq Name
    /\ ptokens.setNewReissueToAdd \cup ptokens.setNewReissueToRemove \subseteq Tx
    /\ DOMAIN tokenUndo \subseteq Seq(Blocks)

\* The metadata that a chain prescribes, transaction by transaction.
Prescribed(c) ==
    LET apply(f, tx) ==
            LET n == strName[tx]
            IN  IF Kind[tx] = "reissue" THEN (n :> Reissued(f[n], Data[tx])) @@ f
                ELSE f @@ (n :> Data[tx])
    IN  FoldLeft(apply, Empty, Txs(c))

Usernames == {strName[tx] : tx \in {t \in Tx : Kind[t] = "username"}}

(* After any sequence of blocks connected and disconnected, merged, written and
   lost in a crash, CheckIfTokenExists finds the tokens that the active chain
   issued and no others, except usernames, which DisconnectBlock leaves. *)
ExistsMatchesChain ==
    \A n \in Name :
        /\ n \in DOMAIN Prescribed(chain) => CheckIfTokenExists(ptokens, n)
        /\ CheckIfTokenExists(ptokens, n) => n \in DOMAIN Prescribed(chain) \cup Usernames

(* GetTokenMetaDataIfExists returns, for a token of the active chain, the
   metadata that the chain's issue and reissues prescribe, with an amount that
   stays within MAX_MONEY_TOKENS ("undoing a reissue
   and an issue during a reorg doesn't screw up the database/cache"). *)
MetadataMatchesChain ==
    \A n \in DOMAIN Prescribed(chain) :
        /\ GetTokenMetaDataIfExists(ptokens, n) = Prescribed(chain)[n]
        /\ Prescribed(chain)[n].nAmount <= MAX_MONEY_TOKENS

(* ptokensCache never shows metadata other than the database's: every write to
   the database in DumpCacheToDatabase replaces or erases the entry. *)
CacheIsCoherent ==
    \A n \in DOMAIN ptokensCache : n \in DOMAIN ptokensdb /\ ptokensCache[n] = ptokensdb[n]
=============================================================================
