--------------------------- MODULE MempoolProofs ---------------------------
(***************************************************************************)
(* Proofs about Mempool: the disconnectpool never holds a transaction that *)
(* is confirmed or in the pool, every reissue in the pool holds the lock   *)
(* of its token, a name is reserved for the one transaction of the pool    *)
(* that issues it, no two transactions of the pool spend the same output,  *)
(* and the links join transactions of the pool, for every set of           *)
(* transactions and blocks.                                                *)
(***************************************************************************)
EXTENDS Mempool, TreeRecursion

-----------------------------------------------------------------------------
(* The inductive invariants. *)

PoolType ==
    [tx : SUBSET Tx, parents : [Tx -> SUBSET Tx], children : [Tx -> SUBSET Tx],
     nAncestors : [Tx -> Int], nDescendants : [Tx -> Int],
     mapNextTx : [Outpoint -> Tx \cup {None}],
     mapTokenToHash : [Name -> Tx \cup {None}], mapHashToToken : [Tx -> Name \cup {None}],
     mapReissuedTokens : [Name -> Tx \cup {None}], mapReissuedTx : [Tx -> Name \cup {None}]]

TypeOK ==
    /\ chain \in Seq(Block) /\ pool \in PoolType
    /\ phase \in {"idle", "disconnecting", "connecting", "adding", "erasing"}
    /\ disconnectpool \in Seq(Tx) /\ vHashUpdate \in Seq(Tx)
    /\ dat \in SUBSET Tx /\ restarted \in Nat

\* The reissues of the pool other than those of X hold the locks of their tokens.
Locks(P, X) ==
    /\ \A t \in P.tx \ X : \A n \in reissues(t) : P.mapReissuedTokens[n] = t
    /\ \A n \in Name, t \in Tx : P.mapReissuedTokens[n] = t <=> P.mapReissuedTx[t] = n
    /\ \A n \in Name, t \in Tx : P.mapReissuedTokens[n] = t => n \in reissues(t)

\* A lock is held by a transaction of the pool.
Held(P) == \A n \in Name : P.mapReissuedTokens[n] \in P.tx \cup {None}

\* The names of the pool's issues other than those of X are reserved for them.
Names(P, X) ==
    \A n \in Name, t \in Tx :
        /\ P.mapTokenToHash[n] = t <=> t \in P.tx \ X /\ n \in ToSet(issues(t))
        /\ P.mapHashToToken[t] = n <=> t \in P.tx \ X /\ n \in ToSet(issues(t))

\* mapNextTx says who spends an output.
Spends(P) ==
    \A o \in Outpoint, t \in Tx : P.mapNextTx[o] = t <=> t \in P.tx /\ o \in vin(t)

\* The links are between transactions of the pool that spend one another, and every
\* link is there in both directions.
Linked(P) ==
    \A x, y \in Tx :
        /\ y \in P.children[x] <=> x \in P.parents[y]
        /\ x \in P.parents[y] => x \in P.tx /\ y \in P.tx /\ vout(x) \cap vin(y) # {}

-----------------------------------------------------------------------------
(* Removal from the pool. *)

\* What the links reach is a set of transactions; how many there are is a number.
LEMMA CountType ==
    ASSUME NEW S \in SUBSET Tx
    PROVE  Cardinality(S) \in Nat
BY MempoolAssumption, FS_Subset, FS_CardinalityType

\* UpdateForRemoveFromMempool changes links and counts only.
LEMMA UpdateForRemoveType ==
    ASSUME NEW P \in PoolType, NEW R \in SUBSET Tx, NEW u
    PROVE  LET U == UpdateForRemove(P, R, u)
           IN  /\ U \in PoolType /\ U.tx = P.tx /\ U.mapNextTx = P.mapNextTx
               /\ U.children = [x \in Tx |-> P.children[x] \ {r \in R : x \in P.parents[r]}]
               /\ U.parents = [x \in Tx |-> P.parents[x] \ {r \in R : x \in P.children[r]}]
               /\ U.mapTokenToHash = P.mapTokenToHash /\ U.mapHashToToken = P.mapHashToToken
               /\ U.mapReissuedTokens = P.mapReissuedTokens /\ U.mapReissuedTx = P.mapReissuedTx
<1> DEFINE less(x) == IF u THEN Cardinality({r \in R \ {x} : x \in CalculateDescendants(P, {r})}) ELSE 0
           na == [x \in Tx |-> P.nAncestors[x] - less(x)]
           nd == [x \in Tx |-> P.nDescendants[x] - Cardinality({r \in R : x \in Ancestors(P, r)})]
           ch == [x \in Tx |-> P.children[x] \ {r \in R : x \in P.parents[r]}]
           pa == [x \in Tx |-> P.parents[x] \ {r \in R : x \in P.children[r]}]
<1>1. na \in [Tx -> Int]
  <2>1. \A x \in Tx : Cardinality({r \in R \ {x} : x \in CalculateDescendants(P, {r})}) \in Nat
    BY CountType, Zenon
  <2>2. 0 \in Int /\ \A n \in Nat : n \in Int
    OBVIOUS
  <2>3. \A x \in Tx : less(x) \in Int
    BY <2>1, <2>2, Zenon
  <2>4. \A x \in Tx : P.nAncestors[x] \in Int
    BY DEF PoolType
  <2> HIDE DEF less
  <2>5. QED BY <2>3, <2>4
<1>2. nd \in [Tx -> Int]
  <2>1. \A x \in Tx : Cardinality({r \in R : x \in Ancestors(P, r)}) \in Int
    BY CountType
  <2>2. \A x \in Tx : P.nDescendants[x] \in Int
    BY DEF PoolType
  <2>3. QED BY <2>1, <2>2
<1>3. ch \in [Tx -> SUBSET Tx] /\ pa \in [Tx -> SUBSET Tx]
  BY DEF PoolType
<1>4. UpdateForRemove(P, R, u) =
          [P EXCEPT !.nAncestors = na, !.nDescendants = nd, !.children = ch, !.parents = pa]
  BY Zenon DEF UpdateForRemove
<1> HIDE DEF na, nd, ch, pa
<1>5. QED BY <1>1, <1>2, <1>3, <1>4, Zenon DEF PoolType, ch, pa

\* removeUnchecked.
LEMMA RemoveUncheckedType ==
    ASSUME NEW P \in PoolType, NEW R \in SUBSET Tx
    PROVE  LET Q == RemoveUnchecked(P, R)
           IN  /\ Q \in PoolType /\ Q.tx = P.tx \ R
               /\ Q.parents = [x \in Tx |-> IF x \in R THEN {} ELSE P.parents[x]]
               /\ Q.children = [x \in Tx |-> IF x \in R THEN {} ELSE P.children[x]]
               /\ Q.mapNextTx = [o \in Outpoint |-> IF o \in Spent(R) THEN None ELSE P.mapNextTx[o]]
               /\ Q.mapTokenToHash = [n \in Name |->
                      IF \E r \in R : P.mapHashToToken[r] = n THEN None ELSE P.mapTokenToHash[n]]
               /\ Q.mapHashToToken = [x \in Tx |-> IF x \in R THEN None ELSE P.mapHashToToken[x]]
               /\ Q.mapReissuedTokens = [n \in Name |->
                      IF \E r \in R : P.mapReissuedTx[r] = n THEN None ELSE P.mapReissuedTokens[n]]
               /\ Q.mapReissuedTx = [x \in Tx |->
                      IF x \in R /\ P.mapReissuedTx[x] # None
                                 /\ P.mapReissuedTokens[P.mapReissuedTx[x]] # None
                      THEN None ELSE P.mapReissuedTx[x]]
<1> DEFINE pa == [x \in Tx |-> IF x \in R THEN {} ELSE P.parents[x]]
           ch == [x \in Tx |-> IF x \in R THEN {} ELSE P.children[x]]
           na == [x \in Tx |-> IF x \in R THEN 0 ELSE P.nAncestors[x]]
           nd == [x \in Tx |-> IF x \in R THEN 0 ELSE P.nDescendants[x]]
           nx == [o \in Outpoint |-> IF o \in Spent(R) THEN None ELSE P.mapNextTx[o]]
           th == [n \in Name |->
                     IF \E r \in R : P.mapHashToToken[r] = n THEN None ELSE P.mapTokenToHash[n]]
           ht == [x \in Tx |-> IF x \in R THEN None ELSE P.mapHashToToken[x]]
           rt == [n \in Name |->
                     IF \E r \in R : P.mapReissuedTx[r] = n THEN None ELSE P.mapReissuedTokens[n]]
           rx == [x \in Tx |-> IF x \in R /\ P.mapReissuedTx[x] # None
                                        /\ P.mapReissuedTokens[P.mapReissuedTx[x]] # None
                               THEN None ELSE P.mapReissuedTx[x]]
<1>1. pa \in [Tx -> SUBSET Tx] /\ ch \in [Tx -> SUBSET Tx]
  BY DEF PoolType
<1>2. na \in [Tx -> Int] /\ nd \in [Tx -> Int]
  BY DEF PoolType
<1>3. nx \in [Outpoint -> Tx \cup {None}] /\ th \in [Name -> Tx \cup {None}]
  BY Zenon DEF PoolType
<1>4. ht \in [Tx -> Name \cup {None}]
  BY Zenon DEF PoolType
<1>5. rt \in [Name -> Tx \cup {None}] /\ rx \in [Tx -> Name \cup {None}]
  BY Zenon DEF PoolType
<1>6. RemoveUnchecked(P, R) =
          [tx |-> P.tx \ R, parents |-> pa, children |-> ch, nAncestors |-> na,
           nDescendants |-> nd, mapNextTx |-> nx, mapTokenToHash |-> th,
           mapHashToToken |-> ht, mapReissuedTokens |-> rt, mapReissuedTx |-> rx]
  BY Zenon DEF RemoveUnchecked
<1>7. P.tx \ R \in SUBSET Tx
  BY DEF PoolType
<1> HIDE DEF pa, ch, na, nd, nx, th, ht, rt, rx
<1>8. /\ RemoveUnchecked(P, R).tx = P.tx \ R
      /\ RemoveUnchecked(P, R).parents = pa /\ RemoveUnchecked(P, R).children = ch
      /\ RemoveUnchecked(P, R).mapNextTx = nx
      /\ RemoveUnchecked(P, R).mapTokenToHash = th /\ RemoveUnchecked(P, R).mapHashToToken = ht
      /\ RemoveUnchecked(P, R).mapReissuedTokens = rt /\ RemoveUnchecked(P, R).mapReissuedTx = rx
  BY <1>6
<1>9. RemoveUnchecked(P, R) \in PoolType
  BY <1>1, <1>2, <1>3, <1>4, <1>5, <1>6, <1>7 DEF PoolType
<1>10. QED BY <1>8, <1>9, Zenon DEF pa, ch, nx, th, ht, rt, rx

\* Q is what the removal of R leaves of P, but for the counts.
Removed(P, R, Q) ==
    /\ Q.tx = P.tx \ R
    /\ \A x \in Tx : Q.parents[x] =
           IF x \in R THEN {} ELSE P.parents[x] \ {r \in R : x \in P.children[r]}
    /\ \A x \in Tx : Q.children[x] =
           IF x \in R THEN {} ELSE P.children[x] \ {r \in R : x \in P.parents[r]}
    /\ \A o \in Outpoint :
           Q.mapNextTx[o] = IF \E r \in R : o \in vin(r) THEN None ELSE P.mapNextTx[o]
    /\ \A n \in Name : Q.mapTokenToHash[n] =
           IF \E r \in R : P.mapHashToToken[r] = n THEN None ELSE P.mapTokenToHash[n]
    /\ \A x \in Tx : Q.mapHashToToken[x] = IF x \in R THEN None ELSE P.mapHashToToken[x]
    /\ \A n \in Name : Q.mapReissuedTokens[n] =
           IF \E r \in R : P.mapReissuedTx[r] = n THEN None ELSE P.mapReissuedTokens[n]
    /\ \A x \in Tx : Q.mapReissuedTx[x] =
           IF x \in R /\ P.mapReissuedTx[x] # None
                      /\ P.mapReissuedTokens[P.mapReissuedTx[x]] # None
           THEN None ELSE P.mapReissuedTx[x]

\* What RemoveStaged leaves of a pool.
LEMMA StagedFields ==
    ASSUME NEW P \in PoolType, NEW S, NEW u
    PROVE  /\ RemoveStaged(P, S, u) \in PoolType
           /\ Removed(P, S \cap P.tx, RemoveStaged(P, S, u))
<1> DEFINE R == S \cap P.tx
           U == UpdateForRemove(P, R, u)
           Q == RemoveUnchecked(U, R)
<1>1. R \in SUBSET Tx /\ \A o : o \in Spent(R) <=> \E r \in R : o \in vin(r)
  BY DEF PoolType, Spent
<1>2. RemoveStaged(P, S, u) = Q
  BY Zenon DEF RemoveStaged
<1> HIDE DEF R
<1>3. /\ U \in PoolType /\ U.tx = P.tx /\ U.mapNextTx = P.mapNextTx
      /\ U.children = [x \in Tx |-> P.children[x] \ {r \in R : x \in P.parents[r]}]
      /\ U.parents = [x \in Tx |-> P.parents[x] \ {r \in R : x \in P.children[r]}]
      /\ U.mapTokenToHash = P.mapTokenToHash /\ U.mapHashToToken = P.mapHashToToken
      /\ U.mapReissuedTokens = P.mapReissuedTokens /\ U.mapReissuedTx = P.mapReissuedTx
  BY <1>1, UpdateForRemoveType
<1> HIDE DEF U
<1>4. /\ Q \in PoolType /\ Q.tx = U.tx \ R
      /\ Q.parents = [x \in Tx |-> IF x \in R THEN {} ELSE U.parents[x]]
      /\ Q.children = [x \in Tx |-> IF x \in R THEN {} ELSE U.children[x]]
      /\ Q.mapNextTx = [o \in Outpoint |-> IF o \in Spent(R) THEN None ELSE U.mapNextTx[o]]
      /\ Q.mapTokenToHash = [n \in Name |->
             IF \E r \in R : U.mapHashToToken[r] = n THEN None ELSE U.mapTokenToHash[n]]
      /\ Q.mapHashToToken = [x \in Tx |-> IF x \in R THEN None ELSE U.mapHashToToken[x]]
      /\ Q.mapReissuedTokens = [n \in Name |->
             IF \E r \in R : U.mapReissuedTx[r] = n THEN None ELSE U.mapReissuedTokens[n]]
      /\ Q.mapReissuedTx = [x \in Tx |->
             IF x \in R /\ U.mapReissuedTx[x] # None
                        /\ U.mapReissuedTokens[U.mapReissuedTx[x]] # None
             THEN None ELSE U.mapReissuedTx[x]]
  BY <1>1, <1>3, RemoveUncheckedType, Zenon
<1> HIDE DEF Q
<1>5. \A o \in Outpoint :
          Q.mapNextTx[o] = IF \E r \in R : o \in vin(r) THEN None ELSE P.mapNextTx[o]
  BY <1>1, <1>3, <1>4
<1>6. \A n \in Name : Q.mapTokenToHash[n] =
          IF \E r \in R : P.mapHashToToken[r] = n THEN None ELSE P.mapTokenToHash[n]
  BY <1>3, <1>4
<1>7. \A x \in Tx : Q.mapHashToToken[x] = IF x \in R THEN None ELSE P.mapHashToToken[x]
  BY <1>3, <1>4
<1>8. \A n \in Name : Q.mapReissuedTokens[n] =
          IF \E r \in R : P.mapReissuedTx[r] = n THEN None ELSE P.mapReissuedTokens[n]
  BY <1>3, <1>4
<1>9. \A x \in Tx : Q.mapReissuedTx[x] =
          IF x \in R /\ P.mapReissuedTx[x] # None
                     /\ P.mapReissuedTokens[P.mapReissuedTx[x]] # None
          THEN None ELSE P.mapReissuedTx[x]
  BY <1>3, <1>4
<1>10. Removed(P, R, Q)
  <2>1. /\ \A x \in Tx : Q.parents[x] =
              IF x \in R THEN {} ELSE P.parents[x] \ {r \in R : x \in P.children[r]}
        /\ \A x \in Tx : Q.children[x] =
              IF x \in R THEN {} ELSE P.children[x] \ {r \in R : x \in P.parents[r]}
    BY <1>3, <1>4
  <2>2. QED BY <1>3, <1>4, <1>5, <1>6, <1>7, <1>8, <1>9, <2>1, Zenon DEF Removed
<1>11. QED BY <1>2, <1>4, <1>10, Zenon DEF R

\* Q is P without some of its transactions, and as sound as P.
Kept(P, Q) ==
    /\ Q \in PoolType /\ Q.tx \subseteq P.tx
    /\ \A X \in SUBSET Tx : Locks(P, X) => Locks(Q, X) /\ (Held(P) => Held(Q))
    /\ \A X \in SUBSET Tx : Names(P, X) => Names(Q, X)
    /\ Spends(P) => Spends(Q) /\ (Linked(P) => Linked(Q))
    /\ \A n \in Name : /\ Q.mapReissuedTokens[n] \in {P.mapReissuedTokens[n], None}
                       /\ Q.mapTokenToHash[n] \in {P.mapTokenToHash[n], None}

\* Removals one after the other are a removal.
LEMMA KeptKept ==
    ASSUME NEW P, NEW Q, NEW T, Kept(P, Q), Kept(Q, T)
    PROVE  Kept(P, T)
<1>1. T \in PoolType /\ T.tx \subseteq P.tx
  BY Zenon DEF Kept
<1>2. \A X \in SUBSET Tx : Locks(P, X) => Locks(T, X) /\ (Held(P) => Held(T))
  BY Zenon DEF Kept
<1>3. /\ \A X \in SUBSET Tx : Names(P, X) => Names(T, X)
      /\ Spends(P) => Spends(T) /\ (Linked(P) => Linked(T))
  BY Zenon DEF Kept
<1>4. \A n \in Name : /\ T.mapReissuedTokens[n] \in {P.mapReissuedTokens[n], None}
                      /\ T.mapTokenToHash[n] \in {P.mapTokenToHash[n], None}
  BY Zenon DEF Kept
<1>5. QED BY <1>1, <1>2, <1>3, <1>4, Zenon DEF Kept

\* A pool with the same transactions and maps is as sound.
LEMMA KeptSame ==
    ASSUME NEW P, NEW Q \in PoolType, Q.tx = P.tx, Q.mapNextTx = P.mapNextTx,
           Q.mapTokenToHash = P.mapTokenToHash, Q.mapHashToToken = P.mapHashToToken,
           Q.mapReissuedTokens = P.mapReissuedTokens, Q.mapReissuedTx = P.mapReissuedTx,
           Spends(P) /\ Linked(P) => Linked(Q)
    PROVE  Kept(P, Q)
<1>1. \A X \in SUBSET Tx : Locks(P, X) => Locks(Q, X) /\ (Held(P) => Held(Q))
  BY DEF Locks, Held
<1>2. \A X \in SUBSET Tx : Names(P, X) => Names(Q, X)
  BY DEF Names
<1>3. Spends(P) => Spends(Q)
  BY Zenon DEF Spends
<1>4. QED BY <1>1, <1>2, <1>3, Zenon DEF Kept

\* A removal keeps the locks of the other transactions.
LEMMA RemovedLocks ==
    ASSUME NEW P \in PoolType, NEW R \in SUBSET P.tx, NEW Q \in PoolType, Removed(P, R, Q),
           NEW X \in SUBSET Tx, Locks(P, X)
    PROVE  Locks(Q, X) /\ (Held(P) => Held(Q))
<1>1. /\ \A n \in Name : P.mapReissuedTokens[n] \in Tx \cup {None}
      /\ \A t \in Tx : P.mapReissuedTx[t] \in Name \cup {None}
      /\ P.tx \subseteq Tx /\ R \subseteq Tx /\ None \notin Tx /\ None \notin Name
  BY MempoolAssumption DEF PoolType
<1>2. \A n \in Name, t \in Tx : P.mapReissuedTokens[n] = t <=> P.mapReissuedTx[t] = n
  BY Zenon DEF Locks
<1>3. \A n \in Name : Q.mapReissuedTokens[n] =
          IF P.mapReissuedTokens[n] \in R THEN None ELSE P.mapReissuedTokens[n]
  <2>1. \A n \in Name : (\E r \in R : P.mapReissuedTx[r] = n) <=> P.mapReissuedTokens[n] \in R
    BY <1>1, <1>2, Zenon
  <2>2. QED BY <2>1, Zenon DEF Removed
<1>4. \A x \in Tx : Q.mapReissuedTx[x] = IF x \in R THEN None ELSE P.mapReissuedTx[x]
  <2>1. \A x \in Tx : P.mapReissuedTx[x] # None => P.mapReissuedTokens[P.mapReissuedTx[x]] # None
    BY <1>1, <1>2, Zenon
  <2>2. QED BY <2>1, ZenonT(30) DEF Removed
<1>5. \A n \in Name, t \in Tx :
          /\ Q.mapReissuedTokens[n] = t <=> P.mapReissuedTokens[n] = t /\ t \notin R
          /\ Q.mapReissuedTx[t] = n <=> P.mapReissuedTx[t] = n /\ t \notin R
  BY <1>1, <1>3, <1>4
<1>6. Q.tx = P.tx \ R
  BY Zenon DEF Removed
<1>7. ASSUME NEW t \in Q.tx \ X, NEW n \in reissues(t)
      PROVE  Q.mapReissuedTokens[n] = t
  <2>1. t \in P.tx \ X /\ t \notin R /\ t \in Tx /\ n \in Name
    BY <1>1, <1>6, TxAssumption
  <2>2. P.mapReissuedTokens[n] = t
    BY <2>1, Zenon DEF Locks
  <2>3. QED BY <1>5, <2>1, <2>2, Zenon
<1>8. \A n \in Name, t \in Tx : Q.mapReissuedTokens[n] = t => n \in reissues(t)
  BY <1>5, Zenon DEF Locks
<1>9. Locks(Q, X)
  BY <1>2, <1>5, <1>7, <1>8, ZenonT(30) DEF Locks
<1>10. ASSUME Held(P) PROVE Held(Q)
  BY <1>3, <1>6, <1>10, Zenon DEF Held
<1>11. QED BY <1>9, <1>10

\* A removal keeps the names of the other transactions.
LEMMA RemovedNames ==
    ASSUME NEW P \in PoolType, NEW R \in SUBSET P.tx, NEW Q \in PoolType, Removed(P, R, Q),
           NEW X \in SUBSET Tx, Names(P, X)
    PROVE  Names(Q, X)
<1>1. /\ \A n \in Name : P.mapTokenToHash[n] \in Tx \cup {None}
      /\ \A t \in Tx : P.mapHashToToken[t] \in Name \cup {None}
      /\ P.tx \subseteq Tx /\ R \subseteq Tx /\ None \notin Tx /\ None \notin Name
  BY MempoolAssumption DEF PoolType
<1>2. \A n \in Name, t \in Tx : P.mapTokenToHash[n] = t <=> P.mapHashToToken[t] = n
  BY Zenon DEF Names
<1>3. \A n \in Name : Q.mapTokenToHash[n] =
          IF P.mapTokenToHash[n] \in R THEN None ELSE P.mapTokenToHash[n]
  <2>1. \A n \in Name : (\E r \in R : P.mapHashToToken[r] = n) <=> P.mapTokenToHash[n] \in R
    BY <1>1, <1>2, Zenon
  <2>2. QED BY <2>1, Zenon DEF Removed
<1>4. \A x \in Tx : Q.mapHashToToken[x] = IF x \in R THEN None ELSE P.mapHashToToken[x]
  BY Zenon DEF Removed
<1>5. \A n \in Name, t \in Tx :
          /\ Q.mapTokenToHash[n] = t <=> P.mapTokenToHash[n] = t /\ t \notin R
          /\ Q.mapHashToToken[t] = n <=> P.mapHashToToken[t] = n /\ t \notin R
  BY <1>1, <1>3, <1>4
<1>6. Q.tx = P.tx \ R
  BY Zenon DEF Removed
<1>7. QED BY <1>5, <1>6, Zenon DEF Names

\* A removal keeps what the other transactions spend.
LEMMA RemovedSpends ==
    ASSUME NEW P \in PoolType, NEW R \in SUBSET P.tx, NEW Q \in PoolType, Removed(P, R, Q),
           Spends(P)
    PROVE  Spends(Q)
<1>1. /\ \A o \in Outpoint : P.mapNextTx[o] \in Tx \cup {None}
      /\ P.tx \subseteq Tx /\ R \subseteq P.tx /\ None \notin Tx
  BY MempoolAssumption DEF PoolType
<1>2. \A o \in Outpoint, t \in Tx : P.mapNextTx[o] = t <=> t \in P.tx /\ o \in vin(t)
  BY Zenon DEF Spends
<1>3. ASSUME NEW o \in Outpoint, NEW t \in Tx
      PROVE  Q.mapNextTx[o] = t <=> t \in Q.tx /\ o \in vin(t)
  <2>1. /\ Q.mapNextTx[o] = IF \E r \in R : o \in vin(r) THEN None ELSE P.mapNextTx[o]
        /\ Q.tx = P.tx \ R
    BY Zenon DEF Removed
  <2>2. (\E r \in R : o \in vin(r)) <=> P.mapNextTx[o] \in R
    BY <1>1, <1>2, Zenon
  <2>3. QED BY <1>1, <1>2, <2>1, <2>2, Zenon
<1>4. QED BY <1>3, Zenon DEF Spends

\* A removal keeps the links of the other transactions.
LEMMA RemovedLinks ==
    ASSUME NEW P \in PoolType, NEW R \in SUBSET P.tx, NEW Q \in PoolType, Removed(P, R, Q),
           Linked(P)
    PROVE  Linked(Q)
<1>1. Q.tx = P.tx \ R
  BY Zenon DEF Removed
<1>2. ASSUME NEW x \in Tx, NEW y \in Tx
      PROVE  /\ y \in Q.children[x] <=> x \notin R /\ y \notin R /\ y \in P.children[x]
             /\ x \in Q.parents[y] <=> x \notin R /\ y \notin R /\ x \in P.parents[y]
             /\ y \in P.children[x] <=> x \in P.parents[y]
             /\ x \in P.parents[y] => x \in P.tx /\ y \in P.tx /\ vout(x) \cap vin(y) # {}
  <2>1. /\ Q.children[x] = IF x \in R THEN {} ELSE P.children[x] \ {r \in R : x \in P.parents[r]}
        /\ Q.parents[y] = IF y \in R THEN {} ELSE P.parents[y] \ {r \in R : y \in P.children[r]}
    BY Zenon DEF Removed
  <2>2. /\ y \in P.children[x] <=> x \in P.parents[y]
        /\ x \in P.parents[y] => x \in P.tx /\ y \in P.tx /\ vout(x) \cap vin(y) # {}
    BY Zenon DEF Linked
  <2>3. y \in Q.children[x] <=> x \notin R /\ y \notin R /\ y \in P.children[x]
    BY <2>1, <2>2, Zenon
  <2>4. x \in Q.parents[y] <=> x \notin R /\ y \notin R /\ x \in P.parents[y]
    BY <2>1, <2>2, Zenon
  <2>5. QED BY <2>2, <2>3, <2>4, Zenon
<1>3. QED BY <1>1, <1>2 DEF Linked

\* RemoveStaged, with which every removal ends, keeps the pool sound.
LEMMA KeptStaged ==
    ASSUME NEW P \in PoolType, NEW S, NEW u
    PROVE  /\ Kept(P, RemoveStaged(P, S, u))
           /\ RemoveStaged(P, S, u).tx = P.tx \ S
<1> DEFINE Q == RemoveStaged(P, S, u)
           R == S \cap P.tx
<1>1. Q \in PoolType /\ Removed(P, R, Q) /\ R \in SUBSET P.tx
  BY StagedFields, Zenon
<1> HIDE DEF Q, R
<1>2. Q.tx = P.tx \ R
  BY <1>1, Zenon DEF Removed
<1>3. \A n \in Name : /\ Q.mapReissuedTokens[n] \in {P.mapReissuedTokens[n], None}
                      /\ Q.mapTokenToHash[n] \in {P.mapTokenToHash[n], None}
  BY <1>1, Zenon DEF Removed
<1>4. Kept(P, Q)
  BY <1>1, <1>2, <1>3, RemovedLocks, RemovedNames, RemovedSpends, RemovedLinks, Zenon DEF Kept
<1>5. QED BY <1>2, <1>4 DEF Q, R

\* The removals of CTxMemPool.
LEMMA KeptRemovals ==
    ASSUME NEW P \in PoolType, NEW t
    PROVE  /\ Kept(P, RemoveRecursive(P, t)) /\ Kept(P, RemoveConflicts(P, t))
           /\ Kept(P, RemoveMined(P, t)) /\ t \notin RemoveMined(P, t).tx
           /\ \A S : Kept(P, Evict(P, S))
<1>1. Kept(P, RemoveRecursive(P, t))
  BY KeptStaged, Zenon DEF RemoveRecursive
<1>2. \A Q \in PoolType : Kept(Q, RemoveConflicts(Q, t))
  BY KeptStaged, Zenon DEF RemoveConflicts
<1>3. \A S : Kept(P, Evict(P, S))
  BY KeptStaged, Zenon DEF Evict
<1> DEFINE Q == RemoveStaged(P, {t}, TRUE)
<1>4. Kept(P, Q) /\ Q.tx = P.tx \ {t} /\ Q \in PoolType
  BY KeptStaged, Zenon DEF Kept
<1> HIDE DEF Q
<1>5. Kept(Q, RemoveConflicts(Q, t))
  BY <1>2, <1>4, Zenon
<1>6. RemoveMined(P, t) = RemoveConflicts(Q, t)
  BY Zenon DEF RemoveMined, Q
<1>7. Kept(P, RemoveMined(P, t))
  BY <1>4, <1>5, <1>6, KeptKept, Zenon
<1>8. RemoveMined(P, t).tx \subseteq Q.tx
  BY <1>5, <1>6, Zenon DEF Kept
<1>9. t \notin RemoveMined(P, t).tx
  BY <1>4, <1>8, Zenon
<1>10. QED BY <1>1, <1>2, <1>3, <1>7, <1>9

\* Both loops of removeForBlock: none of the transactions of s stays in the pool.
LEMMA KeptRemoveAll ==
    ASSUME NEW P \in PoolType, NEW s \in Seq(Tx)
    PROVE  Kept(P, RemoveAll(P, s)) /\ RemoveAll(P, s).tx \cap ToSet(s) = {}
<1> DEFINE N == Len(s)
           step == [x \in (1 .. N) \X PoolType |-> RemoveMined(x[2], s[x[1]])]
           IsAfter(f) == f = [i \in 0 .. N |-> IF i = 0 THEN P ELSE RemoveMined(f[i - 1], s[i])]
           A == CHOOSE f : IsAfter(f)
<1>1. N \in Nat /\ DOMAIN s = 1 .. N
  OBVIOUS
<1>2. \A i, Q : Q \in PoolType => RemoveMined(Q, s[i]) \in PoolType
  BY KeptRemovals, Zenon DEF Kept
<1>3. RemoveAll(P, s) = A[N]
  BY Zenon DEF RemoveAll
<1> HIDE DEF N
<1>4. IsStep(1 .. N, PoolType, P, step)
  BY <1>2, Zenon DEF IsStep
<1>5. PICK f : IsListBy(N, PoolType, P, step, f)
  <2> HIDE DEF step
  <2>1. QED BY <1>1, <1>4, ListRecursionExists, Zenon
<1>6. IsAfter(f)
  <2>1. f \in [0 .. N -> PoolType] /\ f = [i \in 0 .. N |-> IF i = 0 THEN P ELSE step[<<i, f[i - 1]>>]]
    BY <1>5, ZenonT(30) DEF IsListBy
  <2>2. \A i \in 1 .. N, Q \in PoolType : step[<<i, Q>>] = RemoveMined(Q, s[i])
    BY Zenon
  <2>3. \A i \in 0 .. N : i # 0 => i \in 1 .. N /\ i - 1 \in 0 .. N
    BY <1>1
  <2>4. \A i \in 0 .. N : f[i] \in PoolType
    BY <2>1, ZenonT(30)
  <2> HIDE DEF step
  <2>5. \A i \in 0 .. N : i # 0 => step[<<i, f[i - 1]>>] = RemoveMined(f[i - 1], s[i])
    BY <2>2, <2>3, <2>4, Zenon
  <2>6. QED BY <2>1, <2>5, Zenon
<1>7. IsAfter(A)
  <2> HIDE DEF IsAfter
  <2>1. QED BY <1>6, Zenon
<1> HIDE DEF A
<1>8. A[0] = P /\ \A i \in 1 .. N : A[i] = RemoveMined(A[i - 1], s[i])
  BY <1>1, <1>7
<1> DEFINE Good == {i \in 0 .. N : Kept(P, A[i]) /\ \A y \in 1 .. i : s[y] \notin A[i].tx}
<1>9. 0 \in Good
  <2>1. Kept(P, P)
    BY KeptSame, Zenon
  <2>2. 0 \in 0 .. N /\ \A y \in 1 .. 0 : FALSE
    BY <1>1
  <2>3. QED BY <1>8, <2>1, <2>2, Zenon
<1>10. ASSUME NEW i \in 1 .. N, i - 1 \in Good PROVE i \in Good
  <2>1. A[i - 1] \in PoolType /\ A[i] = RemoveMined(A[i - 1], s[i])
    BY <1>8, <1>10, Zenon DEF Kept
  <2>2. Kept(A[i - 1], A[i]) /\ s[i] \notin A[i].tx
    BY <2>1, KeptRemovals, Zenon
  <2>3. Kept(P, A[i])
    BY <1>10, <2>2, KeptKept, Zenon
  <2>4. A[i].tx \subseteq A[i - 1].tx
    BY <2>2, Zenon DEF Kept
  <2>5. \A y \in 1 .. i : y = i \/ y \in 1 .. (i - 1)
    BY <1>1
  <2>6. \A y \in 1 .. i : s[y] \notin A[i].tx
    BY <1>10, <2>2, <2>4, <2>5, Zenon
  <2>7. i \in 0 .. N
    BY <1>1
  <2>8. QED BY <2>3, <2>6, <2>7, Zenon
<1>11. N \in Good
  <2>1. 0 .. N \subseteq Good
    <3> HIDE DEF Good
    <3>1. QED BY <1>1, <1>9, <1>10, ListInduction, Zenon
  <2>2. N \in 0 .. N
    BY <1>1
  <2> HIDE DEF Good
  <2>3. QED BY <2>1, <2>2, Zenon
<1>12. \A t \in ToSet(s) : t \notin A[N].tx
  BY <1>1, <1>11, Zenon DEF ToSet
<1>13. QED BY <1>3, <1>11, <1>12, Zenon

\* What leaves the disconnectpool beyond its limit takes transactions out of the pool.
LEMMA KeptOverflow ==
    ASSUME NEW P \in PoolType, NEW q \in Seq(Tx)
    PROVE  /\ Kept(P, Overflow(P, q)[1])
           /\ \E n \in 0 .. Len(q) : Overflow(P, q)[2] = SubSeq(q, n + 1, Len(q))
<1> DEFINE N == IF Len(q) > MaxDisconnected THEN Len(q) - MaxDisconnected ELSE 0
           step == [x \in (1 .. N) \X PoolType |-> RemoveRecursive(x[2], q[x[1]])]
           IsAfter(f) == f = [i \in 0 .. N |-> IF i = 0 THEN P ELSE RemoveRecursive(f[i - 1], q[i])]
           A == CHOOSE f : IsAfter(f)
<1>1. N \in Nat /\ N \in 0 .. Len(q)
  BY MempoolAssumption
<1>2. \A i, Q : Q \in PoolType => RemoveRecursive(Q, q[i]) \in PoolType
  BY KeptRemovals, Zenon DEF Kept
<1>3. Overflow(P, q) = <<A[N], SubSeq(q, N + 1, Len(q))>>
  BY Zenon DEF Overflow
<1> HIDE DEF N
<1>4. IsStep(1 .. N, PoolType, P, step)
  BY <1>2, Zenon DEF IsStep
<1>5. PICK f : IsListBy(N, PoolType, P, step, f)
  <2> HIDE DEF step
  <2>1. QED BY <1>1, <1>4, ListRecursionExists, Zenon
<1>6. IsAfter(f)
  <2>1. f \in [0 .. N -> PoolType] /\ f = [i \in 0 .. N |-> IF i = 0 THEN P ELSE step[<<i, f[i - 1]>>]]
    BY <1>5, ZenonT(30) DEF IsListBy
  <2>2. \A i \in 1 .. N, Q \in PoolType : step[<<i, Q>>] = RemoveRecursive(Q, q[i])
    BY Zenon
  <2>3. \A i \in 0 .. N : i # 0 => i \in 1 .. N /\ i - 1 \in 0 .. N
    BY <1>1
  <2>4. \A i \in 0 .. N : f[i] \in PoolType
    BY <2>1, ZenonT(30)
  <2> HIDE DEF step
  <2>5. \A i \in 0 .. N : i # 0 => step[<<i, f[i - 1]>>] = RemoveRecursive(f[i - 1], q[i])
    BY <2>2, <2>3, <2>4, Zenon
  <2>6. QED BY <2>1, <2>5, Zenon
<1>7. IsAfter(A)
  <2> HIDE DEF IsAfter
  <2>1. QED BY <1>6, Zenon
<1> HIDE DEF A
<1>8. A[0] = P /\ \A i \in 1 .. N : A[i] = RemoveRecursive(A[i - 1], q[i])
  BY <1>1, <1>7
<1> DEFINE Good == {i \in 0 .. N : Kept(P, A[i])}
<1>9. 0 \in Good
  <2>1. Kept(P, P)
    BY KeptSame, Zenon
  <2>2. 0 \in 0 .. N
    BY <1>1
  <2>3. QED BY <1>8, <2>1, <2>2, Zenon
<1>10. ASSUME NEW i \in 1 .. N, i - 1 \in Good PROVE i \in Good
  <2>1. A[i - 1] \in PoolType /\ A[i] = RemoveRecursive(A[i - 1], q[i])
    BY <1>8, <1>10, Zenon DEF Kept
  <2>2. Kept(A[i - 1], A[i])
    BY <2>1, KeptRemovals, Zenon
  <2>3. Kept(P, A[i])
    BY <1>10, <2>2, KeptKept, Zenon
  <2>4. i \in 0 .. N
    BY <1>1
  <2>5. QED BY <2>3, <2>4, Zenon
<1>11. N \in Good
  <2>1. 0 .. N \subseteq Good
    <3> HIDE DEF Good
    <3>1. QED BY <1>1, <1>9, <1>10, ListInduction, Zenon
  <2>2. N \in 0 .. N
    BY <1>1
  <2> HIDE DEF Good
  <2>3. QED BY <2>1, <2>2, Zenon
<1>12. Overflow(P, q)[1] = A[N] /\ Overflow(P, q)[2] = SubSeq(q, N + 1, Len(q))
  <2>1. PICK a, b : a = A[N] /\ b = SubSeq(q, N + 1, Len(q)) /\ Overflow(P, q) = <<a, b>>
    BY <1>3, Zenon
  <2>2. Overflow(P, q) = <<a, b>>
    BY <2>1
  <2>3. Overflow(P, q)[1] = a /\ Overflow(P, q)[2] = b
    BY ONLY <2>2
  <2>4. QED BY <2>1, <2>3, Zenon
<1>13. QED BY <1>1, <1>11, <1>12, Zenon

-----------------------------------------------------------------------------
(* Additions to the pool. *)

\* What the links reach is a set of transactions.
LEMMA ReachType ==
    ASSUME NEW link \in [Tx -> SUBSET Tx], NEW S \in SUBSET Tx
    PROVE  Reach(link, S) \in SUBSET Tx
<1> DEFINE N == Cardinality(Tx)
           D == SUBSET Tx
           next(T) == T \cup UNION {link[t] : t \in T}
           step == [x \in (1 .. N) \X D |-> next(x[2])]
           IsAfter(f) == f = [n \in 0 .. N |-> IF n = 0 THEN S ELSE next(f[n - 1])]
           A == CHOOSE f : IsAfter(f)
<1>1. N \in Nat
  BY CountType, Zenon
<1>2. \A T \in D : next(T) \in D
  OBVIOUS
<1>3. Reach(link, S) = A[N]
  BY Zenon DEF Reach
<1> HIDE DEF N, next
<1>4. IsStep(1 .. N, D, S, step)
  BY <1>2, Zenon DEF IsStep
<1> HIDE DEF D
<1>5. PICK f : IsListBy(N, D, S, step, f)
  <2> HIDE DEF step
  <2>1. QED BY <1>1, <1>4, ListRecursionExists, Zenon
<1>6. IsAfter(f)
  <2>1. f \in [0 .. N -> D] /\ f = [i \in 0 .. N |-> IF i = 0 THEN S ELSE step[<<i, f[i - 1]>>]]
    BY <1>5, ZenonT(30) DEF IsListBy
  <2>2. \A i \in 1 .. N, T \in D : step[<<i, T>>] = next(T)
    BY Zenon
  <2>3. \A i \in 0 .. N : i # 0 => i \in 1 .. N /\ i - 1 \in 0 .. N
    BY <1>1
  <2>4. \A i \in 0 .. N : f[i] \in D
    BY <2>1, ZenonT(30)
  <2> HIDE DEF step
  <2>5. \A i \in 0 .. N : i # 0 => step[<<i, f[i - 1]>>] = next(f[i - 1])
    BY <2>2, <2>3, <2>4, Zenon
  <2>6. QED BY <2>1, <2>5, Zenon
<1>7. IsAfter(A)
  <2> HIDE DEF IsAfter
  <2>1. QED BY <1>6, Zenon
<1> HIDE DEF A
<1>8. A[0] = S /\ \A i \in 1 .. N : A[i] = next(A[i - 1])
  BY <1>1, <1>7
<1> DEFINE Good == {i \in 0 .. N : A[i] \in D}
<1>9. 0 \in Good /\ \A i \in 1 .. N : i - 1 \in Good => i \in Good
  <2>1. S \in D
    BY DEF D
  <2>2. 0 \in 0 .. N /\ \A i \in 1 .. N : i \in 0 .. N
    BY <1>1
  <2>3. QED BY <1>2, <1>8, <2>1, <2>2, Zenon
<1>10. N \in 0 .. N
  BY <1>1
<1>11. 0 .. N \subseteq Good
  <2> HIDE DEF Good
  <2>1. QED BY <1>1, <1>9, ListInduction, Zenon
<1>12. QED BY <1>3, <1>10, <1>11, Zenon DEF D

\* addUnchecked adds one transaction and records what it spends.
LEMMA AddedFields ==
    ASSUME NEW P \in PoolType, NEW t \in Tx
    PROVE  LET Q == AddUnchecked(P, t)
           IN  /\ Q \in PoolType /\ Q.tx = P.tx \cup {t}
               /\ t \notin P.tx /\ Linked(P) => Linked(Q)
               /\ Q.mapNextTx = [o \in Outpoint |-> IF o \in vin(t) THEN t ELSE P.mapNextTx[o]]
               /\ Q.mapTokenToHash = P.mapTokenToHash /\ Q.mapHashToToken = P.mapHashToToken
               /\ Q.mapReissuedTokens = P.mapReissuedTokens /\ Q.mapReissuedTx = P.mapReissuedTx
<1> DEFINE anc == CalculateMemPoolAncestors(P, t)
           par == PoolParents(P, t)
           pa == [P.parents EXCEPT ![t] = par]
           ch == [x \in Tx |-> IF x \in par THEN P.children[x] \cup {t}
                               ELSE IF x = t THEN {} ELSE P.children[x]]
           na == [P.nAncestors EXCEPT ![t] = Cardinality(anc) + 1]
           nd == [x \in Tx |-> IF x = t THEN 1
                               ELSE IF x \in anc THEN P.nDescendants[x] + 1 ELSE P.nDescendants[x]]
           nx == [o \in Outpoint |-> IF o \in vin(t) THEN t ELSE P.mapNextTx[o]]
<1>1. par \in SUBSET Tx /\ P.parents \in [Tx -> SUBSET Tx]
  BY DEF PoolParents, PoolType
<1>2. anc \in SUBSET Tx
  BY <1>1, ReachType, Zenon DEF CalculateMemPoolAncestors
<1>3. AddUnchecked(P, t) =
          [P EXCEPT !.tx = @ \cup {t}, !.parents = pa, !.children = ch, !.nAncestors = na,
                    !.nDescendants = nd, !.mapNextTx = nx]
  BY Zenon DEF AddUnchecked
<1>4. Cardinality(anc) + 1 \in Int
  BY <1>2, CountType
<1> HIDE DEF anc, par
<1>5. pa \in [Tx -> SUBSET Tx] /\ ch \in [Tx -> SUBSET Tx]
  BY <1>1 DEF PoolType
<1>6. na \in [Tx -> Int]
  BY <1>4 DEF PoolType
<1>7. nd \in [Tx -> Int]
  BY DEF PoolType
<1>8. nx \in [Outpoint -> Tx \cup {None}] /\ P.tx \cup {t} \in SUBSET Tx
  BY DEF PoolType
<1>9. ASSUME NEW x \in Tx, NEW y \in Tx, t \notin P.tx, Linked(P)
      PROVE  /\ y \in ch[x] <=> x \in pa[y]
             /\ x \in pa[y] => x \in P.tx /\ y \in P.tx \cup {t} /\ vout(x) \cap vin(y) # {}
  <2>1. /\ y \in P.children[x] <=> x \in P.parents[y]
        /\ x \in P.parents[y] => x \in P.tx /\ y \in P.tx /\ vout(x) \cap vin(y) # {}
    BY <1>9, Zenon DEF Linked
  <2>2. ch[x] = IF x \in par THEN P.children[x] \cup {t} ELSE IF x = t THEN {} ELSE P.children[x]
    BY Zenon
  <2>3. pa[y] = IF y = t THEN par ELSE P.parents[y]
    BY <1>1
  <2>4. x \in par <=> x \in P.tx /\ vout(x) \cap vin(t) # {}
    BY Zenon DEF par, PoolParents
  <2> HIDE DEF pa, ch
  <2>5. CASE y = t
    BY <1>9, <2>1, <2>2, <2>3, <2>4, <2>5
  <2>6. CASE y # t
    BY <1>9, <2>1, <2>2, <2>3, <2>4, <2>6
  <2>7. QED BY <2>5, <2>6
<1> HIDE DEF pa, ch, na, nd, nx
<1>10. /\ AddUnchecked(P, t).tx = P.tx \cup {t} /\ AddUnchecked(P, t).parents = pa
       /\ AddUnchecked(P, t).children = ch
  BY <1>3 DEF PoolType
<1>11. t \notin P.tx /\ Linked(P) => Linked(AddUnchecked(P, t))
  BY <1>9, <1>10 DEF Linked
<1>12. QED BY <1>3, <1>5, <1>6, <1>7, <1>8, <1>11, Zenon DEF PoolType, nx

\* UpdateForDescendants changes links and counts only.
LEMMA UpdateForDescendantsFields ==
    ASSUME NEW P \in PoolType, NEW t \in Tx, NEW included
    PROVE  LET Q == UpdateForDescendants(P, t, included)
           IN  /\ Q \in PoolType /\ Q.tx = P.tx /\ Q.mapNextTx = P.mapNextTx
               /\ t \in P.tx /\ Spends(P) /\ Linked(P) => Linked(Q)
               /\ Q.mapTokenToHash = P.mapTokenToHash /\ Q.mapHashToToken = P.mapHashToToken
               /\ Q.mapReissuedTokens = P.mapReissuedTokens /\ Q.mapReissuedTx = P.mapReissuedTx
<1> DEFINE new == {P.mapNextTx[o] : o \in vout(t)} \ (included \cup {None})
           ch == [P.children EXCEPT ![t] = @ \cup new]
           desc == Reach(ch, ch[t]) \ included
           pa == [x \in Tx |-> IF x \in new THEN P.parents[x] \cup {t} ELSE P.parents[x]]
           na == [x \in Tx |-> IF x \in desc THEN P.nAncestors[x] + 1 ELSE P.nAncestors[x]]
           nd == [P.nDescendants EXCEPT ![t] = @ + Cardinality(desc)]
<1>1. new \in SUBSET Tx
  BY DEF PoolType, Outpoint
<1>2. UpdateForDescendants(P, t, included) =
          [P EXCEPT !.children = ch, !.parents = pa, !.nAncestors = na, !.nDescendants = nd]
  BY Zenon DEF UpdateForDescendants
<1> HIDE DEF new
<1>3. ch \in [Tx -> SUBSET Tx] /\ pa \in [Tx -> SUBSET Tx]
  BY <1>1 DEF PoolType
<1>4. ASSUME NEW x \in Tx, NEW y \in Tx, t \in P.tx, Spends(P), Linked(P)
       PROVE  /\ y \in ch[x] <=> x \in pa[y]
              /\ x \in pa[y] => x \in P.tx /\ y \in P.tx /\ vout(x) \cap vin(y) # {}
  <2>1. /\ y \in P.children[x] <=> x \in P.parents[y]
        /\ x \in P.parents[y] => x \in P.tx /\ y \in P.tx /\ vout(x) \cap vin(y) # {}
    BY <1>4, Zenon DEF Linked
  <2>2. ch[x] = IF x = t THEN P.children[x] \cup new ELSE P.children[x]
    BY Zenon DEF PoolType
  <2>3. pa[y] = IF y \in new THEN P.parents[y] \cup {t} ELSE P.parents[y]
    BY Zenon
  <2>4. y \in new => y \in P.tx /\ vout(t) \cap vin(y) # {}
    <3>1. SUFFICES ASSUME y \in new PROVE y \in P.tx /\ vout(t) \cap vin(y) # {}
      OBVIOUS
    <3>2. PICK o \in vout(t) : y = P.mapNextTx[o]
      BY <3>1, Zenon DEF new
    <3>3. o \in Outpoint
      BY Zenon DEF Outpoint
    <3>4. QED BY <1>4, <3>2, <3>3, Zenon DEF Spends
  <2> HIDE DEF pa, ch
  <2>5. QED BY <1>4, <2>1, <2>2, <2>3, <2>4
<1> HIDE DEF ch
<1>5. ch[t] \in SUBSET Tx
  BY <1>3, Zenon
<1>6. desc \in SUBSET Tx
  BY <1>3, <1>5, ReachType, Zenon
<1>7. Cardinality(desc) \in Nat
  BY <1>6, CountType
<1> HIDE DEF desc
<1>8. na \in [Tx -> Int]
  BY DEF PoolType
<1>9. nd \in [Tx -> Int]
  BY <1>7 DEF PoolType
<1> HIDE DEF pa, na, nd
<1>10. /\ UpdateForDescendants(P, t, included).tx = P.tx
      /\ UpdateForDescendants(P, t, included).parents = pa
      /\ UpdateForDescendants(P, t, included).children = ch
  BY <1>2 DEF PoolType
<1>11. t \in P.tx /\ Spends(P) /\ Linked(P) => Linked(UpdateForDescendants(P, t, included))
  BY <1>10, <1>4 DEF Linked
<1>12. QED BY <1>2, <1>3, <1>8, <1>9, <1>11, Zenon DEF PoolType

\* UpdateTransactionsFromBlock changes links and counts only.
LEMMA KeptUpdated ==
    ASSUME NEW P \in PoolType, NEW s \in Seq(Tx)
    PROVE  Kept(P, UpdateTransactionsFromBlock(P, s))
<1> DEFINE N == Len(s)
           next(i, Q) == LET t == s[N + 1 - i]
                         IN  IF t \in P.tx THEN UpdateForDescendants(Q, t, ToSet(s)) ELSE Q
           Same == {Q \in PoolType : Q.tx = P.tx}
           step == [x \in (1 .. N) \X Same |-> next(x[1], x[2])]
           IsAfter(f) == f = [i \in 0 .. N |-> IF i = 0 THEN P ELSE next(i, f[i - 1])]
           A == CHOOSE f : IsAfter(f)
<1>1. N \in Nat
  OBVIOUS
<1>2. \A i \in 1 .. N, Q \in Same : next(i, Q) \in Same /\ Kept(Q, next(i, Q))
  <2> SUFFICES ASSUME NEW i \in 1 .. N, NEW Q \in Same
               PROVE  next(i, Q) \in Same /\ Kept(Q, next(i, Q))
    BY Zenon
  <2> DEFINE t == s[N + 1 - i]
             U == UpdateForDescendants(Q, t, ToSet(s))
  <2>1. t \in Tx
    OBVIOUS
  <2> HIDE DEF t
  <2>2. /\ U \in PoolType /\ U.tx = Q.tx /\ U.mapNextTx = Q.mapNextTx
        /\ U.mapTokenToHash = Q.mapTokenToHash /\ U.mapHashToToken = Q.mapHashToToken
        /\ U.mapReissuedTokens = Q.mapReissuedTokens /\ U.mapReissuedTx = Q.mapReissuedTx
        /\ t \in Q.tx /\ Spends(Q) /\ Linked(Q) => Linked(U)
    BY <2>1, UpdateForDescendantsFields, Zenon
  <2>3. (t \in Q.tx /\ next(i, Q) = U) \/ next(i, Q) = Q
    BY Zenon DEF t
  <2> HIDE DEF U, next
  <2>4. Kept(Q, Q) /\ (t \in Q.tx => Kept(Q, U)) /\ Q.tx = P.tx
    BY <2>2, KeptSame, Zenon
  <2>5. QED BY <2>2, <2>3, <2>4
<1>3. UpdateTransactionsFromBlock(P, s) = A[N]
  BY Zenon DEF UpdateTransactionsFromBlock
<1> HIDE DEF N, next
<1>4. IsStep(1 .. N, Same, P, step)
  BY <1>2, Zenon DEF IsStep
<1>5. PICK f : IsListBy(N, Same, P, step, f)
  <2> HIDE DEF step
  <2>1. QED BY <1>1, <1>4, ListRecursionExists, Zenon
<1>6. IsAfter(f)
  <2>1. f \in [0 .. N -> Same] /\ f = [i \in 0 .. N |-> IF i = 0 THEN P ELSE step[<<i, f[i - 1]>>]]
    BY <1>5, ZenonT(30) DEF IsListBy
  <2>2. \A i \in 1 .. N, Q \in Same : step[<<i, Q>>] = next(i, Q)
    BY Zenon
  <2>3. \A i \in 0 .. N : i # 0 => i \in 1 .. N /\ i - 1 \in 0 .. N
    BY <1>1
  <2>4. \A i \in 0 .. N : f[i] \in Same
    BY <2>1, ZenonT(30)
  <2> HIDE DEF step
  <2>5. \A i \in 0 .. N : i # 0 => step[<<i, f[i - 1]>>] = next(i, f[i - 1])
    BY <2>2, <2>3, <2>4, Zenon
  <2>6. QED BY <2>1, <2>5, Zenon
<1>7. IsAfter(A)
  <2> HIDE DEF IsAfter
  <2>1. QED BY <1>6, Zenon
<1> HIDE DEF A
<1>8. A[0] = P /\ \A i \in 1 .. N : A[i] = next(i, A[i - 1])
  BY <1>1, <1>7
<1> DEFINE Good == {i \in 0 .. N : A[i] \in Same /\ Kept(P, A[i])}
<1>9. 0 \in Good
  <2>1. Kept(P, P) /\ P \in Same
    BY KeptSame, Zenon
  <2>2. 0 \in 0 .. N
    BY <1>1
  <2>3. QED BY <1>8, <2>1, <2>2, Zenon
<1>10. ASSUME NEW i \in 1 .. N, i - 1 \in Good PROVE i \in Good
  <2>1. A[i - 1] \in Same
    BY <1>10, Zenon
  <2>2. A[i] \in Same /\ Kept(A[i - 1], A[i])
    BY <1>2, <1>8, <2>1, Zenon
  <2>3. Kept(P, A[i])
    BY <1>10, <2>2, KeptKept, Zenon
  <2>4. i \in 0 .. N
    BY <1>1
  <2>5. QED BY <2>2, <2>3, <2>4, Zenon
<1>11. N \in 0 .. N
  BY <1>1
<1>12. 0 .. N \subseteq Good
  <2> HIDE DEF Good
  <2>1. QED BY <1>1, <1>9, <1>10, ListInduction, Zenon
<1>13. QED BY <1>3, <1>11, <1>12, Zenon

-----------------------------------------------------------------------------
(* The disconnectpool. *)

\* A sequence without its last element.
LEMMA FrontFacts ==
    ASSUME NEW S, NEW q \in Seq(S), q # <<>>
    PROVE  /\ Front(q) \in Seq(S) /\ DOMAIN Front(q) = 1 .. Len(q) - 1
           /\ \A x \in 1 .. Len(q) - 1 : Front(q)[x] = q[x]
           /\ Last(q) \in S
<1>1. ASSUME NEW n \in 0 .. Len(q)
      PROVE  SubSeq(q, 1, n) \in Seq(S) /\ Len(SubSeq(q, 1, n)) = n
  OBVIOUS
<1>2. ASSUME NEW n \in 0 .. Len(q)
      PROVE  SubSeq(q, 1, n) = [x \in 1 .. n |-> q[x]]
  OBVIOUS
<1>3. Len(q) - 1 \in 0 .. Len(q)
  OBVIOUS
<1>4. Last(q) \in S
  BY DEF Last
<1>5. QED BY <1>1, <1>2, <1>3, <1>4, Zenon DEF Front

\* No transaction is in the list twice.
Once(q) == \A x, y \in DOMAIN q : q[x] = q[y] => x = y

\* DisconnectedBlockTransactions::removeForBlock removes the transactions of the
\* block and no others.
LEMMA QueueFacts ==
    ASSUME NEW q \in Seq(Tx), NEW b, Once(q)
    PROVE  /\ QueueWithout(q, b) \in Seq(Tx) /\ Once(QueueWithout(q, b))
           /\ ToSet(QueueWithout(q, b)) \subseteq ToSet(q) \ ToSet(b)
           /\ q = <<>> => QueueWithout(q, b) = <<>>
<1> DEFINE N == Len(q)
           D == Seq(Tx)
           next(x, l) == IF q[x] \in ToSet(b) THEN l ELSE Append(l, q[x])
           step == [x \in (1 .. N) \X D |-> next(x[1], x[2])]
           IsAfter(f) == f = [x \in 0 .. N |-> IF x = 0 THEN <<>> ELSE next(x, f[x - 1])]
           A == CHOOSE f : IsAfter(f)
<1>1. N \in Nat /\ DOMAIN q = 1 .. N /\ \A x \in 1 .. N : q[x] \in Tx
  OBVIOUS
<1>2. <<>> \in D /\ \A x \in 1 .. N, l \in D : next(x, l) \in D
  OBVIOUS
<1>3. QueueWithout(q, b) = A[N]
  BY Zenon DEF QueueWithout
<1>4. q = <<>> => N = 0
  OBVIOUS
<1> HIDE DEF N, next, D
<1>5. IsStep(1 .. N, D, <<>>, step)
  BY <1>2, Zenon DEF IsStep
<1>6. PICK f : IsListBy(N, D, <<>>, step, f)
  <2> HIDE DEF step
  <2>1. QED BY <1>1, <1>5, ListRecursionExists, Zenon
<1>7. IsAfter(f)
  <2>1. f \in [0 .. N -> D] /\ f = [i \in 0 .. N |-> IF i = 0 THEN <<>> ELSE step[<<i, f[i - 1]>>]]
    BY <1>6, ZenonT(30) DEF IsListBy
  <2>2. \A i \in 1 .. N, l \in D : step[<<i, l>>] = next(i, l)
    BY Zenon
  <2>3. \A i \in 0 .. N : i # 0 => i \in 1 .. N /\ i - 1 \in 0 .. N
    BY <1>1
  <2>4. \A i \in 0 .. N : f[i] \in D
    BY <2>1, ZenonT(30)
  <2> HIDE DEF step
  <2>5. \A i \in 0 .. N : i # 0 => step[<<i, f[i - 1]>>] = next(i, f[i - 1])
    BY <2>2, <2>3, <2>4, Zenon
  <2>6. QED BY <2>1, <2>5, Zenon
<1>8. IsAfter(A)
  <2> HIDE DEF IsAfter
  <2>1. QED BY <1>7, Zenon
<1> HIDE DEF A
<1>9. A[0] = <<>> /\ \A i \in 1 .. N : A[i] = next(i, A[i - 1])
  BY <1>1, <1>8
<1> DEFINE Part(l, i) == \A x \in DOMAIN l : l[x] \notin ToSet(b) /\ \E y \in 1 .. i : l[x] = q[y]
           Good == {i \in 0 .. N : A[i] \in Seq(Tx) /\ Once(A[i]) /\ Part(A[i], i)}
<1>10. 0 \in Good
  <2>1. <<>> \in Seq(Tx) /\ Once(<<>>) /\ Part(<<>>, 0)
    BY DEF Once
  <2>2. 0 \in 0 .. N
    BY <1>1
  <2>3. QED BY <1>9, <2>1, <2>2, Zenon
<1>11. ASSUME NEW i \in 1 .. N, i - 1 \in Good PROVE i \in Good
  <2> DEFINE l == A[i - 1]
  <2>1. l \in Seq(Tx) /\ Once(l) /\ Part(l, i - 1) /\ A[i] = next(i, l)
    BY <1>9, <1>11, Zenon
  <2>2. i \in 0 .. N /\ i \in 1 .. i /\ (\A y \in 1 .. (i - 1) : y \in 1 .. i /\ y \in 1 .. N /\ y # i)
    BY <1>1
  <2> HIDE DEF l
  <2>3. CASE q[i] \in ToSet(b)
    <3>1. A[i] = l
      BY <2>1, <2>3, Zenon DEF next
    <3>2. Part(l, i)
      BY <2>1, <2>2, Zenon
    <3>3. QED BY <2>1, <2>2, <3>1, <3>2, Zenon
  <2>4. CASE q[i] \notin ToSet(b)
    <3> DEFINE m == Append(l, q[i])
    <3>1. A[i] = m /\ q[i] \in Tx
      BY <1>1, <2>1, <2>4, Zenon DEF next
    <3>2. /\ m \in Seq(Tx) /\ DOMAIN m = DOMAIN l \cup {Len(l) + 1} /\ m[Len(l) + 1] = q[i]
          /\ \A x \in DOMAIN l : m[x] = l[x]
      BY <2>1, <3>1
    <3> HIDE DEF m
    <3>3. Part(m, i)
      BY <2>1, <2>2, <2>4, <3>2, Zenon
    <3>4. \A x \in DOMAIN l : l[x] # q[i]
      <4>1. \A y \in 1 .. (i - 1) : q[y] # q[i]
        BY <1>1, <2>2, Zenon DEF Once
      <4>2. QED BY <2>1, <4>1, Zenon
    <3>5. Once(m)
      BY <2>1, <3>2, <3>4, Zenon DEF Once
    <3>6. QED BY <2>2, <3>1, <3>2, <3>3, <3>5, Zenon
  <2>5. QED BY <2>3, <2>4
<1>12. N \in Good
  <2>1. 0 .. N \subseteq Good
    <3> HIDE DEF Good
    <3>1. QED BY <1>1, <1>10, <1>11, ListInduction, Zenon
  <2>2. N \in 0 .. N
    BY <1>1
  <2> HIDE DEF Good
  <2>3. QED BY <2>1, <2>2, Zenon
<1>13. ToSet(A[N]) \subseteq ToSet(q) \ ToSet(b)
  BY <1>1, <1>12, Zenon DEF ToSet
<1>14. QED BY <1>3, <1>4, <1>9, <1>12, <1>13, Zenon

-----------------------------------------------------------------------------
(* The maps of the token layer. *)

\* The insertions at the end of AcceptToMemoryPool.
LEMMA RegisterFields ==
    ASSUME NEW P \in PoolType, NEW t \in Tx
    PROVE  LET Q == RegisterTokens(P, t)
           IN  /\ Q \in PoolType /\ Q.tx = P.tx /\ Q.mapNextTx = P.mapNextTx
               /\ Q.parents = P.parents /\ Q.children = P.children
               /\ \A n \in Name : Q.mapTokenToHash[n] =
                      IF n \in ToSet(issues(t)) THEN t ELSE P.mapTokenToHash[n]
               /\ \A x \in Tx : Q.mapHashToToken[x] =
                      IF x = t /\ issues(t) # <<>> THEN issues(t)[Len(issues(t))]
                      ELSE P.mapHashToToken[x]
               /\ \A n \in Name : Q.mapReissuedTokens[n] =
                      IF n \in reissues(t) /\ P.mapReissuedTokens[n] = None THEN t
                      ELSE P.mapReissuedTokens[n]
               /\ \A x \in Tx : Q.mapReissuedTx[x] =
                      IF x = t /\ P.mapReissuedTx[x] = None
                               /\ \E n \in reissues(t) : P.mapReissuedTokens[n] = None
                      THEN CHOOSE n \in reissues(t) : P.mapReissuedTokens[n] = None
                      ELSE P.mapReissuedTx[x]
<1> DEFINE last == IF issues(t) = <<>> THEN P.mapHashToToken[t] ELSE issues(t)[Len(issues(t))]
           free == CHOOSE n \in reissues(t) : P.mapReissuedTokens[n] = None
           lock == IF P.mapReissuedTx[t] = None /\ \E n \in reissues(t) : P.mapReissuedTokens[n] = None
                   THEN free ELSE P.mapReissuedTx[t]
           th == [n \in Name |-> IF n \in ToSet(issues(t)) THEN t ELSE P.mapTokenToHash[n]]
           ht == [P.mapHashToToken EXCEPT ![t] = last]
           rt == [n \in Name |-> IF n \in reissues(t) /\ P.mapReissuedTokens[n] = None THEN t
                                 ELSE P.mapReissuedTokens[n]]
           rx == [P.mapReissuedTx EXCEPT ![t] = lock]
           Q == RegisterTokens(P, t)
<1>1. /\ P.mapTokenToHash \in [Name -> Tx \cup {None}] /\ P.mapHashToToken \in [Tx -> Name \cup {None}]
      /\ P.mapReissuedTokens \in [Name -> Tx \cup {None}] /\ P.mapReissuedTx \in [Tx -> Name \cup {None}]
  BY DEF PoolType
<1>2. last \in Name \cup {None}
  <2>1. issues(t) \in Seq(Name)
    BY TxAssumption
  <2>2. issues(t) # <<>> => issues(t)[Len(issues(t))] \in Name
    BY <2>1
  <2>3. P.mapHashToToken[t] \in Name \cup {None}
    BY <1>1
  <2>4. QED BY <2>2, <2>3, Zenon
<1>3. (\E n \in reissues(t) : P.mapReissuedTokens[n] = None) => free \in reissues(t)
  BY Zenon
<1>4. Q = [P EXCEPT !.mapTokenToHash = th, !.mapHashToToken = ht,
                    !.mapReissuedTokens = rt, !.mapReissuedTx = rx]
  BY Zenon DEF RegisterTokens
<1> HIDE DEF free
<1>5. lock \in Name \cup {None}
  <2>1. reissues(t) \subseteq Name
    BY TxAssumption
  <2>2. P.mapReissuedTx[t] \in Name \cup {None}
    BY <1>1
  <2>3. QED BY <1>3, <2>1, <2>2, Zenon
<1> HIDE DEF last, lock, Q
<1>6. th \in [Name -> Tx \cup {None}] /\ rt \in [Name -> Tx \cup {None}]
  BY <1>1
<1>7. ht \in [Tx -> Name \cup {None}] /\ rx \in [Tx -> Name \cup {None}]
  BY <1>1, <1>2, <1>5
<1>8. /\ \A n \in Name : th[n] = IF n \in ToSet(issues(t)) THEN t ELSE P.mapTokenToHash[n]
      /\ \A n \in Name : rt[n] = IF n \in reissues(t) /\ P.mapReissuedTokens[n] = None THEN t
                                 ELSE P.mapReissuedTokens[n]
  BY Zenon
<1>9. /\ \A x \in Tx : ht[x] = IF x = t THEN last ELSE P.mapHashToToken[x]
      /\ \A x \in Tx : rx[x] = IF x = t THEN lock ELSE P.mapReissuedTx[x]
  BY <1>1
<1> HIDE DEF th, ht, rt, rx
<1>10. /\ Q \in PoolType /\ Q.tx = P.tx /\ Q.mapNextTx = P.mapNextTx
       /\ Q.parents = P.parents /\ Q.children = P.children
       /\ Q.mapTokenToHash = th /\ Q.mapHashToToken = ht
       /\ Q.mapReissuedTokens = rt /\ Q.mapReissuedTx = rx
  BY <1>4, <1>6, <1>7, Zenon DEF PoolType
<1>11. \A x \in Tx : Q.mapHashToToken[x] =
           IF x = t /\ issues(t) # <<>> THEN issues(t)[Len(issues(t))] ELSE P.mapHashToToken[x]
  BY <1>9, <1>10, Zenon DEF last
<1>12. \A x \in Tx : Q.mapReissuedTx[x] =
           IF x = t /\ P.mapReissuedTx[x] = None
                    /\ \E n \in reissues(t) : P.mapReissuedTokens[n] = None
           THEN free ELSE P.mapReissuedTx[x]
  BY <1>9, <1>10, Zenon DEF lock
<1>13. QED BY <1>8, <1>10, <1>11, <1>12, Zenon DEF Q, free

\* A reissue that finds its token free, or locked by itself, locks it.
LEMMA RegisterLocks ==
    ASSUME NEW P \in PoolType, NEW t \in P.tx, Locks(P, {t}),
           \A n \in reissues(t) : P.mapReissuedTokens[n] \in {None, t}
    PROVE  Locks(RegisterTokens(P, t), {}) /\ (Held(P) => Held(RegisterTokens(P, t)))
<1> DEFINE Q == RegisterTokens(P, t)
<1>1. t \in Tx /\ None \notin Tx /\ None \notin Name /\ reissues(t) \subseteq Name
      /\ (\A m, n \in reissues(t) : m = n) /\ P.tx \subseteq Tx
  BY MempoolAssumption, TxAssumption DEF PoolType
<1>2. /\ Q \in PoolType /\ Q.tx = P.tx
      /\ \A n \in Name : Q.mapReissuedTokens[n] =
             IF n \in reissues(t) /\ P.mapReissuedTokens[n] = None THEN t
             ELSE P.mapReissuedTokens[n]
      /\ \A x \in Tx : Q.mapReissuedTx[x] =
             IF x = t /\ P.mapReissuedTx[x] = None
                      /\ \E n \in reissues(t) : P.mapReissuedTokens[n] = None
             THEN CHOOSE n \in reissues(t) : P.mapReissuedTokens[n] = None
             ELSE P.mapReissuedTx[x]
  BY <1>1, RegisterFields, Zenon
<1> HIDE DEF Q
<1>3. /\ \A x \in P.tx \ {t} : \A n \in reissues(x) : P.mapReissuedTokens[n] = x
      /\ \A n \in Name, x \in Tx : P.mapReissuedTokens[n] = x <=> P.mapReissuedTx[x] = n
      /\ \A n \in Name, x \in Tx : P.mapReissuedTokens[n] = x => n \in reissues(x)
  BY Zenon DEF Locks
<1>4. \A n \in Name : Q.mapReissuedTokens[n] = IF n \in reissues(t) THEN t ELSE P.mapReissuedTokens[n]
  BY <1>1, <1>2, Zenon
<1>5. \A n \in Name : Q.mapReissuedTx[t] = n <=> n \in reissues(t)
  <2>1. CASE \E n \in reissues(t) : P.mapReissuedTokens[n] = None
    <3>1. PICK n \in reissues(t) : P.mapReissuedTokens[n] = None
      BY <2>1
    <3>2. n = CHOOSE m \in reissues(t) : P.mapReissuedTokens[m] = None
      BY <1>1, <3>1, Zenon
    <3>3. P.mapReissuedTx[t] = None
      <4>1. \A m \in Name : P.mapReissuedTx[t] # m
        BY <1>1, <1>3, <3>1, Zenon
      <4>2. P.mapReissuedTx[t] \in Name \cup {None}
        BY <1>1 DEF PoolType
      <4>3. QED BY <4>1, <4>2
    <3>4. Q.mapReissuedTx[t] = n
      BY <1>1, <1>2, <2>1, <3>2, <3>3, Zenon
    <3>5. \A m : m \in reissues(t) <=> m = n
      BY <1>1, <3>1, Zenon
    <3>6. QED BY <3>4, <3>5
  <2>2. CASE ~\E n \in reissues(t) : P.mapReissuedTokens[n] = None
    <3>1. Q.mapReissuedTx[t] = P.mapReissuedTx[t]
      BY <1>1, <1>2, <2>2, Zenon
    <3>2. \A n \in reissues(t) : P.mapReissuedTokens[n] = t
      BY <2>2, Zenon
    <3>3. QED BY <1>1, <1>3, <3>1, <3>2
  <2>3. QED BY <2>1, <2>2
<1>6. ASSUME NEW n \in Name, NEW x \in Tx
      PROVE  /\ Q.mapReissuedTokens[n] = x <=> Q.mapReissuedTx[x] = n
             /\ Q.mapReissuedTokens[n] = x => n \in reissues(x)
  <2>1. CASE x = t
    BY <1>1, <1>3, <1>4, <1>5, <2>1, Zenon
  <2>2. CASE x # t
    <3>1. Q.mapReissuedTx[x] = P.mapReissuedTx[x]
      BY <1>2, <2>2, Zenon
    <3>2. CASE n \in reissues(t)
      <4>1. Q.mapReissuedTokens[n] # x /\ P.mapReissuedTokens[n] # x
        BY <1>1, <1>4, <2>2, <3>2, Zenon
      <4>2. P.mapReissuedTx[x] # n
        BY <1>3, <4>1, Zenon
      <4>3. QED BY <3>1, <4>1, <4>2, Zenon
    <3>3. CASE n \notin reissues(t)
      <4>1. Q.mapReissuedTokens[n] = P.mapReissuedTokens[n]
        BY <1>4, <3>3, Zenon
      <4>2. QED BY <1>3, <3>1, <4>1, ZenonT(30)
    <3>4. QED BY <3>2, <3>3
  <2>3. QED BY <2>1, <2>2
<1>7. ASSUME NEW x \in Q.tx \ {}, NEW n \in reissues(x)
      PROVE  Q.mapReissuedTokens[n] = x
  <2>1. x \in Tx /\ n \in Name
    BY <1>1, <1>2, TxAssumption
  <2>2. CASE x = t
    BY <1>4, <2>1, <2>2, Zenon
  <2>3. CASE x # t
    <3>1. P.mapReissuedTokens[n] = x
      BY <1>2, <1>3, <2>3, Zenon
    <3>2. n \notin reissues(t)
      BY <1>1, <2>1, <2>3, <3>1, Zenon
    <3>3. QED BY <1>4, <2>1, <3>1, <3>2, Zenon
  <2>4. QED BY <2>2, <2>3
<1>8. Locks(Q, {})
  BY <1>6, <1>7, Zenon DEF Locks
<1>9. ASSUME Held(P) PROVE Held(Q)
  BY <1>2, <1>4, <1>9, Zenon DEF Held
<1>10. QED BY <1>8, <1>9 DEF Q

\* An issue of a name that is free reserves it.
LEMMA RegisterNames ==
    ASSUME NEW P \in PoolType, NEW t \in P.tx, Names(P, {t}),
           \A m, n \in ToSet(issues(t)) : m = n,
           \A n \in ToSet(issues(t)) : P.mapTokenToHash[n] = None
    PROVE  Names(RegisterTokens(P, t), {})
<1> DEFINE Q == RegisterTokens(P, t)
<1>1. t \in Tx /\ None \notin Tx /\ None \notin Name /\ issues(t) \in Seq(Name)
  BY MempoolAssumption, TxAssumption DEF PoolType
<1>2. /\ Q \in PoolType /\ Q.tx = P.tx
      /\ \A n \in Name : Q.mapTokenToHash[n] =
             IF n \in ToSet(issues(t)) THEN t ELSE P.mapTokenToHash[n]
      /\ \A x \in Tx : Q.mapHashToToken[x] =
             IF x = t /\ issues(t) # <<>> THEN issues(t)[Len(issues(t))]
             ELSE P.mapHashToToken[x]
  BY <1>1, RegisterFields, Zenon
<1> HIDE DEF Q
<1>3. \A n \in Name, x \in Tx :
          /\ P.mapTokenToHash[n] = x <=> x \in P.tx \ {t} /\ n \in ToSet(issues(x))
          /\ P.mapHashToToken[x] = n <=> x \in P.tx \ {t} /\ n \in ToSet(issues(x))
  BY Zenon DEF Names
<1>4. /\ issues(t) = <<>> => ToSet(issues(t)) = {}
      /\ issues(t) # <<>> => issues(t)[Len(issues(t))] \in ToSet(issues(t))
  BY <1>1 DEF ToSet
<1>5. \A n \in Name : Q.mapHashToToken[t] = n <=> n \in ToSet(issues(t))
  <2>1. CASE issues(t) = <<>>
    <3>1. Q.mapHashToToken[t] = P.mapHashToToken[t]
      BY <1>1, <1>2, <2>1, Zenon
    <3>2. QED BY <1>1, <1>3, <1>4, <2>1, <3>1, Zenon
  <2>2. CASE issues(t) # <<>>
    <3>1. PICK n \in ToSet(issues(t)) : Q.mapHashToToken[t] = n
      BY <1>1, <1>2, <1>4, <2>2, Zenon
    <3>2. QED BY <3>1, Zenon
  <2>3. QED BY <2>1, <2>2
<1>6. ASSUME NEW n \in Name, NEW x \in Tx
      PROVE  /\ Q.mapTokenToHash[n] = x <=> x \in Q.tx /\ n \in ToSet(issues(x))
             /\ Q.mapHashToToken[x] = n <=> x \in Q.tx /\ n \in ToSet(issues(x))
  <2>1. CASE x = t
    <3>1. x \in Q.tx
      BY <1>2, <2>1, Zenon
    <3>2. n \notin ToSet(issues(t)) => P.mapTokenToHash[n] # t
      BY <1>1, <1>3, Zenon
    <3>3. Q.mapTokenToHash[n] = t <=> n \in ToSet(issues(t))
      BY <1>2, <3>2, Zenon
    <3>4. QED BY <1>5, <2>1, <3>1, <3>3, Zenon
  <2>2. CASE x # t
    <3>1. Q.mapHashToToken[x] = P.mapHashToToken[x] /\ (x \in Q.tx <=> x \in P.tx \ {t})
      BY <1>2, <2>2, Zenon
    <3>2. CASE n \in ToSet(issues(t))
      <4>1. Q.mapTokenToHash[n] # x /\ P.mapTokenToHash[n] # x
        BY <1>1, <1>2, <2>2, <3>2, Zenon
      <4>2. ~(x \in P.tx \ {t} /\ n \in ToSet(issues(x))) /\ P.mapHashToToken[x] # n
        BY <1>3, <4>1, Zenon
      <4>3. QED BY <3>1, <4>1, <4>2, Zenon
    <3>3. CASE n \notin ToSet(issues(t))
      <4>1. Q.mapTokenToHash[n] = P.mapTokenToHash[n]
        BY <1>2, <3>3, Zenon
      <4>2. QED BY <1>3, <3>1, <4>1, Zenon
    <3>4. QED BY <3>2, <3>3
  <2>3. QED BY <2>1, <2>2
<1>7. QED BY <1>6, Zenon DEF Names, Q

\* AcceptToMemoryPool, when it accepts t: the pool is as sound as it was.
LEMMA AcceptedFacts ==
    ASSUME pool \in PoolType, NEW t \in Tx, Acceptable(t), NEW S
    PROVE  /\ Accepted(t, S) \in PoolType /\ Accepted(t, S).tx \subseteq pool.tx \cup {t}
           /\ Locks(pool, {}) => /\ Locks(Accepted(t, S), {})
                                 /\ Held(pool) => Held(Accepted(t, S))
           /\ Spends(pool) => /\ Spends(Accepted(t, S))
                              /\ Linked(pool) => Linked(Accepted(t, S))
           /\ (\A m, n \in ToSet(issues(t)) : m = n) /\ Names(pool, {}) => Names(Accepted(t, S), {})
           /\ \A n \in Name : Accepted(t, S).mapTokenToHash[n] # None =>
                  pool.mapTokenToHash[n] # None \/ n \in ToSet(issues(t))
<1> DEFINE U == AddUnchecked(pool, t)
           V == Evict(U, S)
           Q == Accepted(t, S)
           R == RegisterTokens(V, t)
<1>1. /\ t \notin pool.tx /\ \A o \in vin(t) : pool.mapNextTx[o] = None
      /\ \A n \in ToSet(issues(t)) : pool.mapTokenToHash[n] = None
      /\ \A n \in reissues(t) : pool.mapReissuedTokens[n] \in {None, t}
  BY Zenon DEF Acceptable, ReissueIsFree
<1>2. /\ U \in PoolType /\ U.tx = pool.tx \cup {t} /\ (Linked(pool) => Linked(U))
      /\ U.mapNextTx = [o \in Outpoint |-> IF o \in vin(t) THEN t ELSE pool.mapNextTx[o]]
      /\ U.mapTokenToHash = pool.mapTokenToHash /\ U.mapHashToToken = pool.mapHashToToken
      /\ U.mapReissuedTokens = pool.mapReissuedTokens /\ U.mapReissuedTx = pool.mapReissuedTx
  BY <1>1, AddedFields, Zenon
<1>3. Q = IF t \in V.tx THEN R ELSE V
  BY Zenon DEF Accepted
<1> HIDE DEF U
<1>4. Kept(U, V)
  BY <1>2, KeptRemovals, Zenon
<1> HIDE DEF V
<1>5. V \in PoolType /\ V.tx \subseteq pool.tx \cup {t} /\ t \in Tx
  BY <1>2, <1>4, Zenon DEF Kept
<1>6. t \in V.tx =>
          /\ R \in PoolType /\ R.tx = V.tx /\ R.mapNextTx = V.mapNextTx
          /\ R.parents = V.parents /\ R.children = V.children
          /\ \A n \in Name : R.mapTokenToHash[n] =
                 IF n \in ToSet(issues(t)) THEN t ELSE V.mapTokenToHash[n]
  BY <1>5, RegisterFields, Zenon
<1> HIDE DEF Q, R
<1>7. Q \in PoolType /\ Q.tx \subseteq pool.tx \cup {t}
  BY <1>3, <1>5, <1>6, Zenon
<1>8. ASSUME Locks(pool, {})
      PROVE  Locks(Q, {}) /\ (Held(pool) => Held(Q))
  <2>1. Locks(U, {t}) /\ (Held(pool) => Held(U))
    BY <1>2, <1>8 DEF Locks, Held
  <2>2. Locks(V, {t}) /\ (Held(pool) => Held(V))
    BY <1>4, <2>1, Zenon DEF Kept
  <2>3. CASE t \in V.tx
    <3>1. \A n \in reissues(t) : V.mapReissuedTokens[n] \in {None, t}
      <4>1. \A n \in reissues(t) : n \in Name
        BY TxAssumption
      <4>2. QED BY <1>1, <1>2, <1>4, <4>1, Zenon DEF Kept
    <3>2. Locks(R, {}) /\ (Held(V) => Held(R))
      BY <1>5, <2>2, <2>3, <3>1, RegisterLocks, Zenon DEF R
    <3>3. QED BY <1>3, <2>2, <2>3, <3>2, Zenon
  <2>4. CASE t \notin V.tx
    <3>1. Locks(V, {})
      BY <2>2, <2>4, Zenon DEF Locks
    <3>2. QED BY <1>3, <2>2, <2>4, <3>1, Zenon
  <2>5. QED BY <2>3, <2>4
<1>9. ASSUME Spends(pool) PROVE Spends(Q) /\ (Linked(pool) => Linked(Q))
  <2>1. \A o \in Outpoint, x \in Tx : U.mapNextTx[o] = x <=> x \in U.tx /\ o \in vin(x)
    <3> SUFFICES ASSUME NEW o \in Outpoint, NEW x \in Tx
                 PROVE  U.mapNextTx[o] = x <=> x \in U.tx /\ o \in vin(x)
      BY Zenon
    <3>1. U.mapNextTx[o] = IF o \in vin(t) THEN t ELSE pool.mapNextTx[o]
      BY <1>2, Zenon
    <3>2. pool.mapNextTx[o] = x <=> x \in pool.tx /\ o \in vin(x)
      BY <1>9, Zenon DEF Spends
    <3>3. None # x
      BY MempoolAssumption
    <3>4. CASE x = t
      BY <1>1, <1>2, <3>1, <3>2, <3>4, Zenon
    <3>5. CASE x # t
      <4>1. x \in U.tx <=> x \in pool.tx
        BY <1>2, <3>5, Zenon
      <4>2. CASE o \in vin(t)
        <5>1. U.mapNextTx[o] # x
          BY <3>1, <3>5, <4>2, Zenon
        <5>2. pool.mapNextTx[o] # x
          BY <1>1, <3>3, <4>2, Zenon
        <5>3. QED BY <3>2, <4>1, <5>1, <5>2, Zenon
      <4>3. CASE o \notin vin(t)
        BY <3>1, <3>2, <4>1, <4>3, Zenon
      <4>4. QED BY <4>2, <4>3
    <3>6. QED BY <3>4, <3>5
  <2>2. Spends(V) /\ (Linked(pool) => Linked(V))
    <3>1. Spends(U)
      BY <2>1, Zenon DEF Spends
    <3>2. QED BY <1>2, <1>4, <3>1, Zenon DEF Kept
  <2>3. t \in V.tx => Spends(R) /\ (Linked(V) => Linked(R))
    BY <1>6, <2>2, ZenonT(30) DEF Spends, Linked
  <2>4. QED BY <1>3, <2>2, <2>3, Zenon
<1>10. ASSUME \A m, n \in ToSet(issues(t)) : m = n, Names(pool, {})
       PROVE  Names(Q, {})
  <2>1. Names(U, {t})
    BY <1>1, <1>2, <1>10 DEF Names
  <2>2. Names(V, {t})
    BY <1>4, <2>1, Zenon DEF Kept
  <2>3. CASE t \in V.tx
    <3>1. \A n \in ToSet(issues(t)) : V.mapTokenToHash[n] = None
      <4>1. \A n \in ToSet(issues(t)) : n \in Name
        BY TxAssumption DEF ToSet
      <4>2. \A n \in Name : V.mapTokenToHash[n] \in {pool.mapTokenToHash[n], None}
        BY <1>2, <1>4, Zenon DEF Kept
      <4>3. QED BY <1>1, <4>1, <4>2, Zenon
    <3>2. Names(R, {})
      BY <1>5, <1>10, <2>2, <2>3, <3>1, RegisterNames, Zenon DEF R
    <3>3. QED BY <1>3, <2>3, <3>2, Zenon
  <2>4. CASE t \notin V.tx
    <3>1. Names(V, {})
      BY <2>2, <2>4, Zenon DEF Names
    <3>2. QED BY <1>3, <2>4, <3>1, Zenon
  <2>5. QED BY <2>3, <2>4
<1>11. \A n \in Name : Q.mapTokenToHash[n] # None =>
           pool.mapTokenToHash[n] # None \/ n \in ToSet(issues(t))
  <2>1. \A n \in Name : V.mapTokenToHash[n] \in {pool.mapTokenToHash[n], None}
    BY <1>2, <1>4, Zenon DEF Kept
  <2>2. QED BY <1>3, <1>6, <2>1, Zenon
<1>12. QED BY <1>7, <1>8, <1>9, <1>10, <1>11, Zenon DEF Q

\* ConnectTip frees the locks of the reissues that are in the block.
LEMMA FreeReissuesFacts ==
    ASSUME NEW P \in PoolType, NEW b \in Seq(Tx)
    PROVE  LET Q == FreeReissues(P, b)
           IN  /\ Q \in PoolType /\ Q.tx = P.tx /\ Q.mapNextTx = P.mapNextTx
               /\ Q.parents = P.parents /\ Q.children = P.children
               /\ Q.mapTokenToHash = P.mapTokenToHash /\ Q.mapHashToToken = P.mapHashToToken
               /\ Locks(P, {}) => Locks(Q, ToSet(b)) /\ (Held(P) => Held(Q))
<1> DEFINE mined == {t \in ToSet(b) : P.mapReissuedTx[t] # None}
           rt == [n \in Name |-> IF \E t \in mined : P.mapReissuedTx[t] = n THEN None
                                 ELSE P.mapReissuedTokens[n]]
           rx == [t \in Tx |-> IF t \in mined THEN None ELSE P.mapReissuedTx[t]]
           Q == FreeReissues(P, b)
<1>1. Q = [P EXCEPT !.mapReissuedTokens = rt, !.mapReissuedTx = rx]
  BY Zenon DEF FreeReissues
<1>2. rt \in [Name -> Tx \cup {None}] /\ rx \in [Tx -> Name \cup {None}]
  BY Zenon DEF PoolType
<1>3. /\ \A n \in Name : rt[n] = IF \E t \in mined : P.mapReissuedTx[t] = n THEN None
                                 ELSE P.mapReissuedTokens[n]
      /\ \A t \in Tx : rx[t] = IF t \in mined THEN None ELSE P.mapReissuedTx[t]
  BY Zenon
<1> HIDE DEF rt, rx, Q
<1>4. /\ Q \in PoolType /\ Q.tx = P.tx /\ Q.mapNextTx = P.mapNextTx
      /\ Q.parents = P.parents /\ Q.children = P.children
      /\ Q.mapTokenToHash = P.mapTokenToHash /\ Q.mapHashToToken = P.mapHashToToken
      /\ Q.mapReissuedTokens = rt /\ Q.mapReissuedTx = rx
  BY <1>1, <1>2, Zenon DEF PoolType
<1>5. ASSUME Locks(P, {})
      PROVE  Locks(Q, ToSet(b)) /\ (Held(P) => Held(Q))
  <2>1. /\ \A n \in Name : P.mapReissuedTokens[n] \in Tx \cup {None}
        /\ \A t \in Tx : P.mapReissuedTx[t] \in Name \cup {None}
        /\ P.tx \subseteq Tx /\ None \notin Tx /\ None \notin Name
    BY MempoolAssumption DEF PoolType
  <2>2. ToSet(b) \subseteq Tx
    BY DEF ToSet
  <2>3. /\ \A t \in P.tx : \A n \in reissues(t) : P.mapReissuedTokens[n] = t
        /\ \A n \in Name, t \in Tx : P.mapReissuedTokens[n] = t <=> P.mapReissuedTx[t] = n
        /\ \A n \in Name, t \in Tx : P.mapReissuedTokens[n] = t => n \in reissues(t)
    BY <1>5, Zenon DEF Locks
  <2>4. \A n \in Name : Q.mapReissuedTokens[n] =
            IF P.mapReissuedTokens[n] \in ToSet(b) THEN None ELSE P.mapReissuedTokens[n]
    <3>1. ASSUME NEW n \in Name
          PROVE  (\E t \in mined : P.mapReissuedTx[t] = n) <=> P.mapReissuedTokens[n] \in ToSet(b)
      <4>1. \A t \in ToSet(b) : P.mapReissuedTx[t] = n <=> P.mapReissuedTokens[n] = t
        BY <2>2, <2>3, Zenon
      <4>2. \A t \in ToSet(b) : P.mapReissuedTx[t] = n => t \in mined
        BY <2>1, Zenon
      <4>3. QED BY <4>1, <4>2, Zenon
    <3>2. QED BY <1>3, <1>4, <3>1, Zenon
  <2>5. \A t \in Tx : Q.mapReissuedTx[t] = IF t \in ToSet(b) THEN None ELSE P.mapReissuedTx[t]
    BY <1>3, <1>4, Zenon
  <2>6. \A n \in Name, t \in Tx :
            /\ Q.mapReissuedTokens[n] = t <=> P.mapReissuedTokens[n] = t /\ t \notin ToSet(b)
            /\ Q.mapReissuedTx[t] = n <=> P.mapReissuedTx[t] = n /\ t \notin ToSet(b)
    BY <2>1, <2>4, <2>5
  <2>7. ASSUME NEW t \in Q.tx \ ToSet(b), NEW n \in reissues(t)
        PROVE  Q.mapReissuedTokens[n] = t
    <3>1. t \in P.tx /\ t \notin ToSet(b) /\ t \in Tx /\ n \in Name
      BY <1>4, <2>1, TxAssumption
    <3>2. P.mapReissuedTokens[n] = t
      BY <2>3, <3>1, Zenon
    <3>3. QED BY <2>6, <3>1, <3>2, Zenon
  <2>8. Locks(Q, ToSet(b))
    <3>1. \A n \in Name, t \in Tx : Q.mapReissuedTokens[n] = t <=> Q.mapReissuedTx[t] = n
      BY <2>3, <2>6, ZenonT(30)
    <3>2. \A n \in Name, t \in Tx : Q.mapReissuedTokens[n] = t => n \in reissues(t)
      BY <2>3, <2>6, Zenon
    <3>3. QED BY <2>7, <3>1, <3>2, Zenon DEF Locks
  <2>9. ASSUME Held(P) PROVE Held(Q)
    BY <1>4, <2>4, <2>9, Zenon DEF Held
  <2>10. QED BY <2>8, <2>9
<1>6. QED BY <1>4, <1>5, Zenon DEF Q

-----------------------------------------------------------------------------
(* The chain. *)

\* The transactions of the first h blocks.
UpTo(c, h) == UNION {ToSet(c[g]) : g \in 1 .. h}

\* No transaction is on the chain twice, and what it spends was created by then.
ChainOK(c) ==
    /\ \A h \in DOMAIN c : Once(c[h])
    /\ \A g, h \in DOMAIN c : g # h => ToSet(c[g]) \cap ToSet(c[h]) = {}
    /\ \A h \in DOMAIN c : \A t \in ToSet(c[h]) : vin(t) \subseteq Coins \cup Created(UpTo(c, h))

\* Blocks are sequences of transactions.
LEMMA BlockType ==
    ASSUME NEW b \in Block
    PROVE  b \in Seq(Tx) /\ ToSet(b) \subseteq Tx
<1>1. b \in Seq(Tx)
  BY MempoolAssumption
<1>2. QED BY <1>1 DEF ToSet

\* The confirmed transactions, and what they spend.
LEMMA ConfirmedFacts ==
    ASSUME chain \in Seq(Block), ChainOK(chain)
    PROVE  /\ Confirmed = UpTo(chain, Len(chain)) /\ Confirmed \subseteq Tx
           /\ \A t \in Confirmed : vin(t) \subseteq Coins \cup Created(Confirmed)
           /\ \A t \in Confirmed, p \in Tx : vin(t) \cap vout(p) # {} => p \in Confirmed
<1>1. DOMAIN chain = 1 .. Len(chain) /\ Len(chain) \in Nat /\ \A h \in DOMAIN chain : chain[h] \in Block
  OBVIOUS
<1>2. Confirmed = UpTo(chain, Len(chain))
  BY <1>1, Zenon DEF Confirmed, UpTo
<1>3. Confirmed \subseteq Tx
  BY <1>1, BlockType, Zenon DEF Confirmed
<1>4. ASSUME NEW t \in Confirmed PROVE vin(t) \subseteq Coins \cup Created(Confirmed)
  <2>1. PICK h \in DOMAIN chain : t \in ToSet(chain[h])
    BY <1>4, Zenon DEF Confirmed
  <2>2. vin(t) \subseteq Coins \cup Created(UpTo(chain, h))
    BY <2>1, Zenon DEF ChainOK
  <2>3. \A g \in 1 .. h : g \in 1 .. Len(chain)
    BY <1>1
  <2>4. UpTo(chain, h) \subseteq Confirmed
    BY <1>2, <2>3, Zenon DEF UpTo
  <2>5. Created(UpTo(chain, h)) \subseteq Created(Confirmed)
    BY <2>4, Zenon DEF Created
  <2>6. QED BY <2>2, <2>5, Zenon
<1>5. ASSUME NEW t \in Confirmed, NEW p \in Tx, vin(t) \cap vout(p) # {}
      PROVE  p \in Confirmed
  <2>1. PICK o : o \in vin(t) /\ o \in vout(p)
    BY <1>5, Zenon
  <2>2. o \notin Coins
    BY <2>1, TxAssumption, Zenon
  <2>3. PICK r \in Confirmed : o \in vout(r)
    BY <1>4, <2>1, <2>2, Zenon DEF Created
  <2>4. r = p
    BY <1>3, <2>1, <2>3, TxAssumption, Zenon
  <2>5. QED BY <2>3, <2>4, Zenon
<1>6. QED BY <1>2, <1>3, <1>4, <1>5

\* AcceptToMemoryPool does not accept what is confirmed.
LEMMA AcceptableIsNew ==
    ASSUME chain \in Seq(Block), ChainOK(chain), pool \in PoolType, pool.tx \cap Confirmed = {},
           NEW t \in Tx, Acceptable(t)
    PROVE  t \notin Confirmed /\ vin(t) \subseteq Outpoint
<1>1. vin(t) \subseteq Unspent \cup Created(pool.tx) /\ vin(t) # {} /\ pool.tx \subseteq Tx
  BY TxAssumption DEF Acceptable, PoolType
<1>2. /\ Confirmed \subseteq Tx
      /\ \A s \in Confirmed, p \in Tx : vin(s) \cap vout(p) # {} => p \in Confirmed
  BY ConfirmedFacts, Zenon
<1>3. t \notin Confirmed
  <2>1. SUFFICES ASSUME t \in Confirmed PROVE FALSE
    OBVIOUS
  <2>2. PICK o : o \in vin(t)
    BY <1>1
  <2>3. o \notin Unspent
    BY <2>1, <2>2, Zenon DEF Unspent, Spent
  <2>4. PICK p \in pool.tx : o \in vout(p)
    BY <1>1, <2>2, <2>3, Zenon DEF Created
  <2>5. p \in Confirmed
    BY <1>1, <1>2, <2>1, <2>2, <2>4, Zenon
  <2>6. QED BY <2>4, <2>5, Zenon
<1>4. Unspent \subseteq Outpoint /\ Created(pool.tx) \subseteq Outpoint
  BY <1>1, <1>2, Zenon DEF Unspent, Created, Outpoint
<1>5. QED BY <1>1, <1>3, <1>4, Zenon

\* ConnectBlock does not accept a block with what is confirmed, or with a
\* transaction twice.
LEMMA ValidBlockIsNew ==
    ASSUME chain \in Seq(Block), ChainOK(chain), NEW b \in Seq(Tx), ValidBlock(b)
    PROVE  /\ ToSet(b) \cap Confirmed = {} /\ Once(b)
           /\ \A t \in ToSet(b) : vin(t) \subseteq Coins \cup Created(Confirmed \cup ToSet(b))
<1> DEFINE before(i) == {b[j] : j \in 1 .. i - 1}
<1>1. \A i \in DOMAIN b : /\ vin(b[i]) \subseteq (Unspent \cup Created(before(i))) \ Spent(before(i))
                          /\ vin(b[i]) # {}
  <2>1. \A i \in DOMAIN b : vin(b[i]) \subseteq (Unspent \cup Created(before(i))) \ Spent(before(i))
    BY Zenon DEF ValidBlock
  <2>2. \A i \in DOMAIN b : b[i] \in Tx
    OBVIOUS
  <2>3. QED BY <2>1, <2>2, TxAssumption, Zenon
<1>2. DOMAIN b = 1 .. Len(b) /\ Len(b) \in Nat /\ \A i \in 1 .. Len(b) : b[i] \in Tx
  OBVIOUS
<1>3. \A i \in DOMAIN b : \A j \in 1 .. i - 1 : j \in DOMAIN b /\ j < i
  BY <1>2
<1>4. ToSet(b) \cap Confirmed = {}
  <2> DEFINE T == {i \in DOMAIN b : b[i] \in Confirmed}
  <2>1. SUFFICES ASSUME T # {} PROVE FALSE
    BY Zenon DEF ToSet
  <2>2. T \in SUBSET Nat
    BY <1>2
  <2>3. PICK i \in T : \A j \in T : i <= j
    <3> HIDE DEF T
    <3>1. QED BY <2>1, <2>2, SmallestNumber, Zenon
  <2>4. PICK o : o \in vin(b[i])
    BY <1>1, <2>3, Zenon
  <2>5. o \notin Unspent
    BY <2>3, <2>4, Zenon DEF Unspent, Spent
  <2>6. PICK j \in 1 .. i - 1 : o \in vout(b[j])
    <3>1. o \in Created(before(i))
      BY <1>1, <2>3, <2>4, <2>5, Zenon
    <3>2. QED BY <3>1, Zenon DEF Created
  <2>7. j \in DOMAIN b /\ j < i /\ b[j] \in Tx
    BY <1>2, <1>3, <2>3, <2>6, Zenon
  <2>8. b[j] \in Confirmed
    BY <2>3, <2>4, <2>6, <2>7, ConfirmedFacts, Zenon
  <2>9. i <= j /\ i \in Nat /\ j \in Nat
    BY <1>2, <2>3, <2>7, <2>8
  <2>10. QED BY <2>7, <2>9
<1>5. ASSUME NEW i \in DOMAIN b, NEW j \in 1 .. i - 1 PROVE b[i] # b[j]
  <2>1. PICK o : o \in vin(b[i])
    BY <1>1, Zenon
  <2>2. o \notin Spent(before(i)) /\ b[j] \in before(i)
    BY <1>1, <2>1, Zenon
  <2>3. o \notin vin(b[j])
    BY <2>2, Zenon DEF Spent
  <2>4. QED BY <2>1, <2>3, Zenon
<1>6. Once(b)
  <2>1. \A i, j \in DOMAIN b : i = j \/ i \in 1 .. j - 1 \/ j \in 1 .. i - 1
    BY <1>2
  <2>2. QED BY <1>5, <2>1, Zenon DEF Once
<1>7. ASSUME NEW t \in ToSet(b) PROVE vin(t) \subseteq Coins \cup Created(Confirmed \cup ToSet(b))
  <2>1. PICK i \in DOMAIN b : t = b[i]
    BY Zenon DEF ToSet
  <2>2. before(i) \subseteq ToSet(b)
    BY <1>3, Zenon DEF ToSet
  <2>3. Created(before(i)) \subseteq Created(Confirmed \cup ToSet(b))
    BY <2>2, Zenon DEF Created
  <2>4. Unspent \subseteq Coins \cup Created(Confirmed \cup ToSet(b))
    BY Zenon DEF Unspent, Created
  <2>5. QED BY <1>1, <2>1, <2>3, <2>4, Zenon
<1>8. QED BY <1>4, <1>6, <1>7, Zenon

\* ConnectTip adds the block's transactions to the confirmed ones.
LEMMA ChainConnect ==
    ASSUME chain \in Seq(Block), ChainOK(chain), NEW b \in Block, ValidBlock(b),
           chain' = Append(chain, b)
    PROVE  chain' \in Seq(Block) /\ ChainOK(chain') /\ Confirmed' = Confirmed \cup ToSet(b)
<1> DEFINE top == Len(chain) + 1
           c == chain'
<1>1. /\ DOMAIN chain = 1 .. Len(chain) /\ Len(chain) \in Nat
      /\ c \in Seq(Block) /\ DOMAIN c = 1 .. top /\ c[top] = b
      /\ \A h \in 1 .. Len(chain) : c[h] = chain[h]
  OBVIOUS
<1>2. /\ 1 .. top = (1 .. Len(chain)) \cup {top} /\ top \notin 1 .. Len(chain)
      /\ \A h \in 1 .. Len(chain) : \A g \in 1 .. h : g \in 1 .. Len(chain)
  BY <1>1
<1> HIDE DEF top, c
<1>3. /\ ToSet(b) \cap Confirmed = {} /\ Once(b)
      /\ \A t \in ToSet(b) : vin(t) \subseteq Coins \cup Created(Confirmed \cup ToSet(b))
  BY BlockType, ValidBlockIsNew, Zenon
<1>4. Confirmed = UpTo(chain, Len(chain))
  BY ConfirmedFacts, Zenon
<1>5. UpTo(c, top) = Confirmed \cup ToSet(b)
  BY <1>1, <1>2, <1>4, Zenon DEF UpTo
<1>6. Confirmed' = Confirmed \cup ToSet(b)
  <2>1. Confirmed' = UNION {ToSet(c[h]) : h \in DOMAIN c}
    BY Zenon DEF Confirmed, c
  <2>2. QED BY <1>1, <1>5, <2>1, Zenon DEF UpTo
<1>7. \A h \in 1 .. Len(chain) : UpTo(c, h) = UpTo(chain, h)
  BY <1>1, <1>2, Zenon DEF UpTo
<1>8. \A h \in 1 .. Len(chain) : ToSet(c[h]) \subseteq Confirmed
  BY <1>1, Zenon DEF Confirmed
<1>9. \A h \in DOMAIN c : Once(c[h])
  BY <1>1, <1>2, <1>3, Zenon DEF ChainOK
<1>10. \A g, h \in DOMAIN c : g # h => ToSet(c[g]) \cap ToSet(c[h]) = {}
  <2> SUFFICES ASSUME NEW g \in DOMAIN c, NEW h \in DOMAIN c, g # h
               PROVE  ToSet(c[g]) \cap ToSet(c[h]) = {}
    BY Zenon
  <2>1. CASE g \in 1 .. Len(chain) /\ h \in 1 .. Len(chain)
    BY <1>1, <2>1, Zenon DEF ChainOK
  <2>2. CASE g = top
    <3>1. h \in 1 .. Len(chain)
      BY <1>1, <1>2, <2>2, Zenon
    <3>2. QED BY <1>1, <1>3, <1>8, <2>2, <3>1, Zenon
  <2>3. CASE h = top
    <3>1. g \in 1 .. Len(chain)
      BY <1>1, <1>2, <2>3, Zenon
    <3>2. QED BY <1>1, <1>3, <1>8, <2>3, <3>1, Zenon
  <2>4. QED BY <1>1, <1>2, <2>1, <2>2, <2>3, Zenon
<1>11. ASSUME NEW h \in DOMAIN c, NEW t \in ToSet(c[h])
       PROVE  vin(t) \subseteq Coins \cup Created(UpTo(c, h))
  <2>1. CASE h = top
    BY <1>1, <1>3, <1>5, <1>11, <2>1, Zenon
  <2>2. CASE h \in 1 .. Len(chain)
    <3>1. t \in ToSet(chain[h]) /\ UpTo(c, h) = UpTo(chain, h) /\ h \in DOMAIN chain
      BY <1>1, <1>7, <1>11, <2>2, Zenon
    <3>2. QED BY <3>1, Zenon DEF ChainOK
  <2>3. QED BY <1>1, <1>2, <2>1, <2>2, Zenon
<1>12. ChainOK(c)
  BY <1>9, <1>10, <1>11, Zenon DEF ChainOK
<1>13. QED BY <1>1, <1>6, <1>12, Zenon DEF c

\* DisconnectTip takes the transactions of one block out of the confirmed ones.
LEMMA ChainDisconnect ==
    ASSUME chain \in Seq(Block), ChainOK(chain), chain # <<>>, chain' = Front(chain)
    PROVE  /\ chain' \in Seq(Block) /\ ChainOK(chain') /\ Confirmed' \subseteq Confirmed
           /\ Tip \in Block /\ Once(Tip) /\ ToSet(Tip) \subseteq Confirmed
           /\ ToSet(Tip) \cap Confirmed' = {}
<1> DEFINE top == Len(chain)
           c == chain'
<1>1. /\ DOMAIN chain = 1 .. top /\ top \in Nat /\ top >= 1 /\ chain[top] \in Block
      /\ \A h \in 1 .. top : chain[h] \in Block
  OBVIOUS
<1>2. c = Front(chain)
  OBVIOUS
<1>3. c \in Seq(Block) /\ DOMAIN c = 1 .. top - 1 /\ \A h \in 1 .. top - 1 : c[h] = chain[h]
  BY <1>2, FrontFacts, Zenon
<1> HIDE DEF top, c
<1>4. /\ \A h \in 1 .. top - 1 : h \in 1 .. top /\ h # top
      /\ \A h \in 1 .. top - 1 : \A g \in 1 .. h : g \in 1 .. top - 1
      /\ top \in 1 .. top
  <2>1. top \in Nat /\ top >= 1
    BY <1>1, Zenon
  <2>2. QED BY ONLY <2>1
<1>5. Confirmed' = UNION {ToSet(c[h]) : h \in DOMAIN c}
  BY Zenon DEF Confirmed, c
<1>6. Confirmed' \subseteq Confirmed
  BY <1>1, <1>3, <1>4, <1>5, Zenon DEF Confirmed
<1>7. \A h \in 1 .. top - 1 : UpTo(c, h) = UpTo(chain, h)
  BY <1>3, <1>4, Zenon DEF UpTo
<1>8. Tip = chain[top]
  BY Zenon DEF Tip, top
<1>9. Tip \in Block /\ Once(Tip) /\ ToSet(Tip) \subseteq Confirmed
  BY <1>1, <1>4, <1>8, Zenon DEF ChainOK, Confirmed
<1>10. ToSet(Tip) \cap Confirmed' = {}
  <2>1. \A h \in 1 .. top - 1 : ToSet(Tip) \cap ToSet(c[h]) = {}
    BY <1>1, <1>3, <1>4, <1>8, Zenon DEF ChainOK
  <2>2. QED BY <1>3, <1>5, <2>1, ZenonT(30)
<1>11. ChainOK(c)
  <2>1. \A h \in DOMAIN c : Once(c[h])
    BY <1>1, <1>3, <1>4, Zenon DEF ChainOK
  <2>2. \A g, h \in DOMAIN c : g # h => ToSet(c[g]) \cap ToSet(c[h]) = {}
    BY <1>1, <1>3, <1>4, Zenon DEF ChainOK
  <2>3. ASSUME NEW h \in DOMAIN c, NEW t \in ToSet(c[h])
        PROVE  vin(t) \subseteq Coins \cup Created(UpTo(c, h))
    <3>1. t \in ToSet(chain[h]) /\ UpTo(c, h) = UpTo(chain, h) /\ h \in DOMAIN chain
      BY <1>1, <1>3, <1>4, <1>7, <2>3, Zenon
    <3>2. QED BY <3>1, Zenon DEF ChainOK
  <2>4. QED BY <2>1, <2>2, <2>3, Zenon DEF ChainOK
<1>12. QED BY <1>3, <1>6, <1>9, <1>10, <1>11, Zenon DEF c
-----------------------------------------------------------------------------
(* Lists of transactions. *)

\* What is left of the list when its first elements are gone.
LEMMA SuffixFacts ==
    ASSUME NEW q \in Seq(Tx), NEW n \in 0 .. Len(q), Once(q)
    PROVE  LET s == SubSeq(q, n + 1, Len(q))
           IN  s \in Seq(Tx) /\ ToSet(s) \subseteq ToSet(q) /\ Once(s)
<1> DEFINE s == SubSeq(q, n + 1, Len(q))
<1>1. s \in Seq(Tx) /\ DOMAIN s = 1 .. Len(q) - n
  OBVIOUS
<1>2. s = [x \in 1 .. Len(q) - n |-> q[x + n]]
  OBVIOUS
<1> HIDE DEF s
<1>3. \A x \in DOMAIN s : x \in Int /\ x + n \in DOMAIN q /\ s[x] = q[x + n]
  BY <1>1, <1>2
<1>4. n \in Int
  OBVIOUS
<1>5. Once(s)
  <2>1. SUFFICES ASSUME NEW x \in DOMAIN s, NEW y \in DOMAIN s, s[x] = s[y]
                 PROVE  x = y
    BY Zenon DEF Once
  <2>2. x + n = y + n
    BY <1>3, <2>1, Zenon DEF Once
  <2>3. x \in Int /\ y \in Int
    BY <1>3, Zenon
  <2>4. QED BY ONLY <1>4, <2>2, <2>3
<1>6. ToSet(s) \subseteq ToSet(q)
  BY <1>3, Zenon DEF ToSet
<1>7. QED BY <1>1, <1>5, <1>6, Zenon DEF s

\* The list in the other direction.
LEMMA ReverseFacts ==
    ASSUME NEW q \in Seq(Tx), Once(q)
    PROVE  Reverse(q) \in Seq(Tx) /\ ToSet(Reverse(q)) \subseteq ToSet(q) /\ Once(Reverse(q))
<1> DEFINE s == Reverse(q)
           n == Len(q)
<1>1. n \in Nat /\ DOMAIN q = 1 .. n
  OBVIOUS
<1>2. s = [x \in 1 .. n |-> q[(n - x) + 1]]
  BY DEF Reverse
<1>3. s \in Seq(Tx)
  BY <1>2
<1>4. DOMAIN s = 1 .. n
  BY <1>2, Zenon
<1> HIDE DEF s, n
<1>5. \A x \in 1 .. n : x \in Int /\ (n - x) + 1 \in 1 .. n
  BY ONLY <1>1
<1>6. \A x \in DOMAIN s : x \in Int /\ (n - x) + 1 \in DOMAIN q /\ s[x] = q[(n - x) + 1]
  BY <1>1, <1>2, <1>4, <1>5, Zenon
<1>7. Once(s)
  <2>1. SUFFICES ASSUME NEW x \in DOMAIN s, NEW y \in DOMAIN s, s[x] = s[y]
                 PROVE  x = y
    BY Zenon DEF Once
  <2>2. (n - x) + 1 = (n - y) + 1
    BY <1>6, <2>1, Zenon DEF Once
  <2>3. x \in Int /\ y \in Int
    BY <1>6, Zenon
  <2>4. QED BY ONLY <1>1, <2>2, <2>3
<1>8. ToSet(s) \subseteq ToSet(q)
  BY <1>6, Zenon DEF ToSet
<1>9. QED BY <1>3, <1>7, <1>8, Zenon DEF s

\* One list after the other.
LEMMA ConcatFacts ==
    ASSUME NEW p \in Seq(Tx), NEW q \in Seq(Tx), Once(p), Once(q), ToSet(p) \cap ToSet(q) = {}
    PROVE  p \o q \in Seq(Tx) /\ ToSet(p \o q) \subseteq ToSet(p) \cup ToSet(q) /\ Once(p \o q)
<1> DEFINE s == p \o q
           m == Len(p)
           n == Len(q)
<1>1. s \in Seq(Tx) /\ m \in Nat /\ n \in Nat /\ DOMAIN p = 1 .. m /\ DOMAIN q = 1 .. n
  OBVIOUS
<1>2. DOMAIN s = 1 .. m + n
  OBVIOUS
<1>3. \A x \in 1 .. m + n : s[x] = IF x <= m THEN p[x] ELSE q[x - m]
  OBVIOUS
<1> HIDE DEF s, m, n
<1>4. \A x \in 1 .. m + n : x \in Int /\ (IF x <= m THEN x \in 1 .. m ELSE x - m \in 1 .. n)
  BY ONLY <1>1
<1>5. \A x \in DOMAIN s : /\ x \in Int
                          /\ x <= m => x \in DOMAIN p /\ s[x] = p[x]
                          /\ ~(x <= m) => x - m \in DOMAIN q /\ s[x] = q[x - m]
  BY <1>1, <1>2, <1>3, <1>4, Zenon
<1>6. \A x \in DOMAIN s : /\ x <= m => s[x] \in ToSet(p)
                          /\ ~(x <= m) => s[x] \in ToSet(q)
  BY <1>5, Zenon DEF ToSet
<1>7. ToSet(s) \subseteq ToSet(p) \cup ToSet(q)
  <2>1. ASSUME NEW x \in DOMAIN s PROVE s[x] \in ToSet(p) \cup ToSet(q)
    BY <1>6, Zenon
  <2>2. QED BY <2>1, Zenon DEF ToSet
<1>8. Once(s)
  <2>1. SUFFICES ASSUME NEW x \in DOMAIN s, NEW y \in DOMAIN s, s[x] = s[y]
                 PROVE  x = y
    BY Zenon DEF Once
  <2>2. x <= m <=> y <= m
    BY <1>6, <2>1, Zenon
  <2>3. CASE x <= m
    BY <1>5, <2>1, <2>2, <2>3, Zenon DEF Once
  <2>4. CASE ~(x <= m)
    <3>1. x - m = y - m
      <4>1. /\ x - m \in DOMAIN q /\ s[x] = q[x - m]
            /\ y - m \in DOMAIN q /\ s[y] = q[y - m]
        BY <1>5, <2>2, <2>4, Zenon
      <4>2. q[x - m] = q[y - m]
        BY ONLY <2>1, <4>1, Zenon
      <4>3. QED BY <4>1, <4>2, Zenon DEF Once
    <3>2. x \in Int /\ y \in Int /\ m \in Int
      BY <1>1, <1>5
    <3>3. QED BY ONLY <3>1, <3>2
  <2>5. QED BY <2>3, <2>4, Zenon
<1>9. QED BY <1>1, <1>7, <1>8, Zenon DEF s

\* UpdateMempoolForReorg takes the last element off.
LEMMA FrontOnce ==
    ASSUME NEW q \in Seq(Tx), q # <<>>, Once(q)
    PROVE  /\ Front(q) \in Seq(Tx) /\ Once(Front(q)) /\ ToSet(Front(q)) \subseteq ToSet(q) \ {Last(q)}
           /\ Last(q) \in ToSet(q) /\ Last(q) \in Tx
<1> DEFINE n == Len(q)
<1>1. n \in Nat /\ n >= 1 /\ DOMAIN q = 1 .. n
  OBVIOUS
<1>2. /\ Front(q) \in Seq(Tx) /\ DOMAIN Front(q) = 1 .. n - 1
      /\ \A x \in 1 .. n - 1 : Front(q)[x] = q[x]
      /\ Last(q) = q[n] /\ Last(q) \in Tx
  BY FrontFacts, Zenon DEF Last
<1> HIDE DEF n
<1>3. n \in 1 .. n /\ \A x \in 1 .. n - 1 : x \in 1 .. n /\ x # n
  BY ONLY <1>1
<1>4. \A x \in DOMAIN Front(q) : x \in DOMAIN q /\ Front(q)[x] = q[x] /\ q[x] # Last(q)
  BY <1>1, <1>2, <1>3, Zenon DEF Once
<1>5. QED BY <1>1, <1>2, <1>3, <1>4, Zenon DEF Once, ToSet

-----------------------------------------------------------------------------
(* The steps. *)

\* A transaction issues one name at most.
OneName == \A t \in Tx : Len(issues(t)) <= 1

\* A transaction is confirmed, in the pool or in the disconnectpool, once.
Apart ==
    /\ pool.tx \cap Confirmed = {}
    /\ ToSet(disconnectpool) \cap (Confirmed \cup pool.tx) = {} /\ Once(disconnectpool)
    /\ phase = "idle" => disconnectpool = <<>>

\* The maps of the pool are those of its transactions.
Sound ==
    /\ Locks(pool, {}) /\ Spends(pool) /\ Linked(pool)
    /\ \A t \in pool.tx : vin(t) \subseteq Outpoint
    /\ restarted = 0 => Held(pool)
Reserved ==
    OneName =>
        /\ Names(pool, {})
        /\ \A n \in Name : pool.mapTokenToHash[n] # None => n \notin Issued(Confirmed)

IInv == TypeOK /\ ChainOK(chain) /\ Apart /\ Sound /\ Reserved

\* One name is every name.
LEMMA OneNameFact ==
    ASSUME OneName, NEW t \in Tx
    PROVE  \A m, n \in ToSet(issues(t)) : m = n
<1>1. issues(t) \in Seq(Name) /\ Len(issues(t)) <= 1
  BY TxAssumption, Zenon DEF OneName
<1>2. \A x, y \in DOMAIN issues(t) : x = y
  BY <1>1
<1>3. QED BY <1>2, Zenon DEF ToSet

\* A step that removes transactions from the pool, and confirms none.
LEMMA KeptStep ==
    ASSUME IInv, Kept(pool, pool'), Confirmed' \subseteq Confirmed, restarted' = restarted
    PROVE  /\ Sound' /\ Reserved' /\ pool' \in PoolType
           /\ pool'.tx \subseteq pool.tx /\ pool'.tx \cap Confirmed' = {}
<1>1. /\ pool' \in PoolType /\ pool'.tx \subseteq pool.tx
      /\ Locks(pool, {}) => Locks(pool', {}) /\ (Held(pool) => Held(pool'))
      /\ Names(pool, {}) => Names(pool', {})
      /\ Spends(pool) => Spends(pool') /\ (Linked(pool) => Linked(pool'))
      /\ \A n \in Name : pool'.mapTokenToHash[n] \in {pool.mapTokenToHash[n], None}
  <2>1. {} \in SUBSET Tx
    OBVIOUS
  <2>2. QED BY <2>1, Zenon DEF Kept
<1>2. Sound'
  BY <1>1, Zenon DEF IInv, Sound
<1>3. Reserved'
  <2>1. Issued(Confirmed') \subseteq Issued(Confirmed)
    BY Zenon DEF Issued
  <2>2. SUFFICES ASSUME OneName
                 PROVE  /\ Names(pool', {})
                        /\ \A n \in Name : pool'.mapTokenToHash[n] # None => n \notin Issued(Confirmed')
    BY Zenon DEF Reserved, OneName
  <2>3. Names(pool, {}) /\ \A n \in Name : pool.mapTokenToHash[n] # None => n \notin Issued(Confirmed)
    BY <2>2, Zenon DEF IInv, Reserved
  <2>4. QED BY <1>1, <2>1, <2>3
<1>4. pool'.tx \cap Confirmed' = {}
  BY <1>1, Zenon DEF IInv, Apart
<1>5. QED BY <1>1, <1>2, <1>3, <1>4, Zenon

\* A step in which AcceptToMemoryPool accepts a transaction.
LEMMA AcceptStep ==
    ASSUME IInv, NEW t \in Tx, Acceptable(t), NEW S, pool' = Accepted(t, S),
           UNCHANGED <<chain, restarted>>
    PROVE  /\ Sound' /\ Reserved' /\ pool' \in PoolType /\ t \notin Confirmed
           /\ pool'.tx \subseteq pool.tx \cup {t} /\ Confirmed' = Confirmed
           /\ pool'.tx \cap Confirmed' = {}
<1>1. /\ pool' \in PoolType /\ pool'.tx \subseteq pool.tx \cup {t}
      /\ Locks(pool, {}) => Locks(pool', {}) /\ (Held(pool) => Held(pool'))
      /\ Spends(pool) => Spends(pool') /\ (Linked(pool) => Linked(pool'))
      /\ (\A m, n \in ToSet(issues(t)) : m = n) /\ Names(pool, {}) => Names(pool', {})
      /\ \A n \in Name : pool'.mapTokenToHash[n] # None =>
             pool.mapTokenToHash[n] # None \/ n \in ToSet(issues(t))
  <2>1. pool \in PoolType
    BY Zenon DEF IInv, TypeOK
  <2>2. QED BY <2>1, AcceptedFacts, Zenon
<1>2. t \notin Confirmed /\ vin(t) \subseteq Outpoint
  BY AcceptableIsNew, Zenon DEF IInv, TypeOK, Apart
<1>3. Confirmed' = Confirmed
  BY Zenon DEF Confirmed
<1>4. Sound'
  <2>1. \A x \in pool'.tx : vin(x) \subseteq Outpoint
    BY <1>1, <1>2, Zenon DEF IInv, Sound
  <2>2. QED BY <1>1, <2>1, Zenon DEF IInv, Sound
<1>5. Reserved'
  <2>1. SUFFICES ASSUME OneName
                 PROVE  /\ Names(pool', {})
                        /\ \A n \in Name : pool'.mapTokenToHash[n] # None => n \notin Issued(Confirmed)
    BY <1>3, Zenon DEF Reserved, OneName
  <2>2. Names(pool, {}) /\ \A n \in Name : pool.mapTokenToHash[n] # None => n \notin Issued(Confirmed)
    BY <2>1, Zenon DEF IInv, Reserved
  <2>3. \A n \in ToSet(issues(t)) : n \notin Issued(Confirmed)
    BY Zenon DEF Acceptable
  <2>4. Names(pool', {})
    BY <1>1, <2>1, <2>2, OneNameFact, Zenon
  <2>5. QED BY <1>1, <2>2, <2>3, <2>4, Zenon
<1>6. pool'.tx \cap Confirmed' = {}
  BY <1>1, <1>2, <1>3, Zenon DEF IInv, Apart
<1>7. QED BY <1>1, <1>2, <1>3, <1>4, <1>5, <1>6, Zenon

\* AcceptToMemoryPool outside of a reorganisation.
LEMMA AcceptInv ==
    ASSUME IInv, NEW t \in Tx, AcceptToMemoryPool(t)
    PROVE  IInv'
<1>1. /\ phase = "idle" /\ Acceptable(t)
      /\ UNCHANGED <<chain, phase, disconnectpool, vHashUpdate, dat, restarted>>
  BY Zenon DEF AcceptToMemoryPool
<1>2. PICK S : pool' = Accepted(t, S)
  BY Zenon DEF AcceptToMemoryPool
<1>3. /\ Sound' /\ Reserved' /\ pool' \in PoolType /\ Confirmed' = Confirmed
      /\ pool'.tx \cap Confirmed' = {}
  BY <1>1, <1>2, AcceptStep, Zenon
<1>4. disconnectpool = <<>> /\ Once(disconnectpool)
  BY <1>1, Zenon DEF IInv, Apart
<1>5. ToSet(disconnectpool) = {}
  BY <1>4 DEF ToSet
<1>6. Apart'
  BY <1>1, <1>3, <1>4, <1>5 DEF Apart
<1>7. TypeOK' /\ ChainOK(chain')
  BY <1>1, <1>3, Zenon DEF IInv, TypeOK
<1>8. QED BY <1>3, <1>6, <1>7, Zenon DEF IInv

\* LoadMempool.
LEMMA LoadInv ==
    ASSUME IInv, NEW t \in Tx, LoadMempool(t)
    PROVE  IInv'
<1>1. /\ phase = "idle" /\ dat' \in SUBSET Tx
      /\ UNCHANGED <<chain, phase, disconnectpool, vHashUpdate, restarted>>
      /\ (Acceptable(t) /\ pool' = Accepted(t, {})) \/ pool' = pool
  BY DEF LoadMempool, IInv, TypeOK
<1>2. Confirmed' = Confirmed
  BY <1>1, Zenon DEF Confirmed
<1>3. /\ Sound' /\ Reserved' /\ pool' \in PoolType /\ pool'.tx \cap Confirmed' = {}
  <2>1. CASE Acceptable(t) /\ pool' = Accepted(t, {})
    BY <1>1, <2>1, AcceptStep, Zenon
  <2>2. CASE pool' = pool
    <3>1. Sound' /\ pool' \in PoolType /\ pool'.tx \cap Confirmed' = {}
      BY <1>1, <1>2, <2>2, Zenon DEF IInv, TypeOK, Apart, Sound
    <3>2. Reserved'
      BY <1>2, <2>2, Zenon DEF IInv, Reserved, OneName
    <3>3. QED BY <3>1, <3>2
  <2>3. QED BY <1>1, <2>1, <2>2, Zenon
<1>4. disconnectpool = <<>> /\ Once(disconnectpool)
  BY <1>1, Zenon DEF IInv, Apart
<1>5. ToSet(disconnectpool) = {}
  BY <1>4 DEF ToSet
<1>6. Apart'
  BY <1>1, <1>3, <1>4, <1>5 DEF Apart
<1>7. TypeOK' /\ ChainOK(chain')
  BY <1>1, <1>3, Zenon DEF IInv, TypeOK
<1>8. QED BY <1>3, <1>6, <1>7, Zenon DEF IInv

\* DisconnectTip: the transactions of the block go to the disconnectpool.
LEMMA DisconnectInv ==
    ASSUME IInv, DisconnectTip
    PROVE  IInv'
<1> DEFINE q == disconnectpool \o Reverse(Tip)
<1>1. /\ chain # <<>> /\ chain' = Front(chain) /\ phase' = "disconnecting"
      /\ UNCHANGED <<vHashUpdate, dat, restarted>>
      /\ pool' = Overflow(pool, q)[1] /\ disconnectpool' = Overflow(pool, q)[2]
  BY Zenon DEF DisconnectTip
<1>2. /\ chain \in Seq(Block) /\ ChainOK(chain) /\ pool \in PoolType
      /\ disconnectpool \in Seq(Tx) /\ Once(disconnectpool)
      /\ ToSet(disconnectpool) \cap (Confirmed \cup pool.tx) = {} /\ pool.tx \cap Confirmed = {}
  BY Zenon DEF IInv, TypeOK, Apart
<1>3. /\ chain' \in Seq(Block) /\ ChainOK(chain') /\ Confirmed' \subseteq Confirmed
      /\ Tip \in Block /\ Once(Tip) /\ ToSet(Tip) \subseteq Confirmed
      /\ ToSet(Tip) \cap Confirmed' = {}
  BY <1>1, <1>2, ChainDisconnect, Zenon
<1>4. Tip \in Seq(Tx)
  BY <1>3, BlockType, Zenon
<1>5. /\ Reverse(Tip) \in Seq(Tx) /\ ToSet(Reverse(Tip)) \subseteq ToSet(Tip) /\ Once(Reverse(Tip))
  BY <1>3, <1>4, ReverseFacts, Zenon
<1>6. q \in Seq(Tx) /\ ToSet(q) \subseteq ToSet(disconnectpool) \cup ToSet(Tip) /\ Once(q)
  <2>1. ToSet(disconnectpool) \cap ToSet(Reverse(Tip)) = {}
    BY <1>2, <1>3, <1>5, Zenon
  <2>2. /\ q \in Seq(Tx) /\ ToSet(q) \subseteq ToSet(disconnectpool) \cup ToSet(Reverse(Tip))
        /\ Once(q)
    BY <1>2, <1>5, <2>1, ConcatFacts, Zenon
  <2> HIDE DEF q
  <2>3. QED BY <1>5, <2>2, Zenon
<1> HIDE DEF q
<1>7. Kept(pool, pool')
  BY <1>1, <1>2, <1>6, KeptOverflow, Zenon
<1>8. /\ disconnectpool' \in Seq(Tx) /\ Once(disconnectpool')
      /\ ToSet(disconnectpool') \subseteq ToSet(disconnectpool) \cup ToSet(Tip)
  <2>1. PICK n \in 0 .. Len(q) : disconnectpool' = SubSeq(q, n + 1, Len(q))
    BY <1>1, <1>2, <1>6, KeptOverflow, Zenon
  <2>2. /\ disconnectpool' \in Seq(Tx) /\ Once(disconnectpool')
        /\ ToSet(disconnectpool') \subseteq ToSet(q)
    BY <1>6, <2>1, SuffixFacts, Zenon
  <2>3. QED BY <1>6, <2>2, Zenon
<1>9. /\ Sound' /\ Reserved' /\ pool' \in PoolType
      /\ pool'.tx \subseteq pool.tx /\ pool'.tx \cap Confirmed' = {}
  BY <1>1, <1>3, <1>7, KeptStep, Zenon
<1>10. ToSet(disconnectpool') \cap (Confirmed' \cup pool'.tx) = {}
  BY <1>2, <1>3, <1>8, <1>9, Zenon
<1>11. Apart'
  BY <1>1, <1>8, <1>9, <1>10, Zenon DEF Apart
<1>12. TypeOK'
  BY <1>1, <1>3, <1>8, <1>9, Zenon DEF IInv, TypeOK
<1>13. QED BY <1>3, <1>9, <1>11, <1>12, Zenon DEF IInv

\* ConnectTip: the transactions of the block, what conflicts with them and the pool's
\* issues of the names that the block issues leave the pool.
LEMMA ConnectPool ==
    ASSUME IInv, NEW b \in Block, Confirmed' = Confirmed \cup ToSet(b), restarted' = restarted,
           NEW trans \in Orders(LosesName(pool, b)),
           pool' = RemoveForBlock(FreeReissues(pool, b), b, trans)
    PROVE  /\ Sound' /\ Reserved' /\ pool' \in PoolType
           /\ pool'.tx \subseteq pool.tx /\ pool'.tx \cap Confirmed' = {}
<1> DEFINE Q == FreeReissues(pool, b)
           R == RemoveAll(Q, b)
<1>1. b \in Seq(Tx) /\ ToSet(b) \subseteq Tx /\ pool \in PoolType
  BY BlockType, Zenon DEF IInv, TypeOK
<1>2. /\ Q \in PoolType /\ Q.tx = pool.tx /\ Q.mapNextTx = pool.mapNextTx
      /\ Q.parents = pool.parents /\ Q.children = pool.children
      /\ Q.mapTokenToHash = pool.mapTokenToHash /\ Q.mapHashToToken = pool.mapHashToToken
      /\ Locks(pool, {}) => Locks(Q, ToSet(b)) /\ (Held(pool) => Held(Q))
  BY <1>1, FreeReissuesFacts, Zenon
<1>3. trans \in Seq(Tx) /\ ToSet(trans) = LosesName(pool, b)
  <2>1. LosesName(pool, b) \in SUBSET Tx
    BY <1>1 DEF LosesName, PoolType
  <2>2. Cardinality(LosesName(pool, b)) \in Nat
    BY <2>1, CountType, Zenon
  <2>3. trans \in [1 .. Cardinality(LosesName(pool, b)) -> LosesName(pool, b)]
    BY Zenon DEF Orders
  <2>4. ToSet(trans) = LosesName(pool, b)
    BY Zenon DEF Orders
  <2>5. trans \in Seq(Tx)
    <3> DEFINE L == LosesName(pool, b)
               n == Cardinality(L)
    <3>1. L \in SUBSET Tx /\ n \in Nat /\ trans \in [1 .. n -> L]
      BY <2>1, <2>2, <2>3, Zenon
    <3> HIDE DEF L, n
    <3>2. QED BY ONLY <3>1
  <2>6. QED BY <2>4, <2>5, Zenon
<1>4. pool' = RemoveAll(R, trans)
  BY Zenon DEF RemoveForBlock
<1> HIDE DEF Q
<1>5. Kept(Q, R) /\ R.tx \cap ToSet(b) = {} /\ R \in PoolType
  BY <1>1, <1>2, KeptRemoveAll, Zenon DEF Kept
<1> HIDE DEF R
<1>6. Kept(R, pool') /\ pool'.tx \cap ToSet(trans) = {}
  BY <1>3, <1>4, <1>5, KeptRemoveAll, Zenon
<1>7. Kept(Q, pool')
  BY <1>5, <1>6, KeptKept, Zenon
<1>8. /\ pool' \in PoolType /\ pool'.tx \subseteq pool.tx /\ pool'.tx \cap ToSet(b) = {}
      /\ Locks(Q, ToSet(b)) => Locks(pool', ToSet(b)) /\ (Held(Q) => Held(pool'))
      /\ Names(Q, {}) => Names(pool', {})
      /\ Spends(Q) => Spends(pool') /\ (Linked(Q) => Linked(pool'))
      /\ \A n \in Name : pool'.mapTokenToHash[n] \in {pool.mapTokenToHash[n], None}
  <2>1. {} \in SUBSET Tx /\ ToSet(b) \in SUBSET Tx
    BY <1>1, Zenon
  <2>2. pool'.tx \subseteq R.tx
    BY <1>6, Zenon DEF Kept
  <2>3. pool'.tx \cap ToSet(b) = {}
    BY <1>5, <2>2, Zenon
  <2>4. pool'.tx \subseteq pool.tx
    BY <1>2, <1>7 DEF Kept
  <2>5. \A n \in Name : pool'.mapTokenToHash[n] \in {pool.mapTokenToHash[n], None}
    BY <1>2, <1>7 DEF Kept
  <2>6. QED BY <1>7, <2>1, <2>3, <2>4, <2>5, Zenon DEF Kept
<1>9. (Spends(pool) => Spends(Q)) /\ (Linked(pool) => Linked(Q))
  BY <1>2 DEF Spends, Linked
<1>10. Names(pool, {}) => Names(Q, {})
  BY <1>2 DEF Names
<1>11. Sound'
  <2>1. Locks(pool', ToSet(b)) /\ Spends(pool') /\ Linked(pool') /\ (restarted = 0 => Held(pool'))
    BY <1>2, <1>8, <1>9, Zenon DEF IInv, Sound
  <2>2. pool'.tx \ {} = pool'.tx \ ToSet(b)
    BY <1>8, Zenon
  <2>3. Locks(pool', {})
    BY <2>1, <2>2, Zenon DEF Locks
  <2>4. \A t \in pool'.tx : vin(t) \subseteq Outpoint
    BY <1>8, Zenon DEF IInv, Sound
  <2>5. QED BY <2>1, <2>3, <2>4, Zenon DEF Sound
<1>12. Reserved'
  <2>1. SUFFICES ASSUME OneName
                 PROVE  /\ Names(pool', {})
                        /\ \A n \in Name : pool'.mapTokenToHash[n] # None => n \notin Issued(Confirmed')
    BY Zenon DEF Reserved, OneName
  <2>2. Names(pool, {}) /\ \A n \in Name : pool.mapTokenToHash[n] # None => n \notin Issued(Confirmed)
    BY <2>1, Zenon DEF IInv, Reserved
  <2>3. Names(pool', {})
    BY <1>8, <1>10, <2>2, Zenon
  <2>4. ASSUME NEW n \in Name, pool'.mapTokenToHash[n] # None, n \in Issued(Confirmed')
        PROVE  FALSE
    <3> DEFINE t == pool.mapTokenToHash[n]
    <3>1. pool'.mapTokenToHash[n] = t /\ t # None
      BY <1>8, <2>4
    <3>2. t \in Tx
      BY <1>1, <3>1 DEF PoolType
    <3>3. t \in pool'.tx /\ t \in pool.tx
      BY <1>8, <2>3, <3>1, <3>2, Zenon DEF Names
    <3>4. n \in Issued(ToSet(b))
      <4>1. n \notin Issued(Confirmed)
        BY <2>2, <3>1, Zenon
      <4>2. QED BY <2>4, <4>1, Zenon DEF Issued
    <3>5. t \in LosesName(pool, b)
      BY <3>3, <3>4, Zenon DEF LosesName
    <3>6. QED BY <1>3, <1>6, <3>3, <3>5, Zenon
  <2>5. QED BY <2>3, <2>4, Zenon
<1>13. pool'.tx \cap Confirmed' = {}
  BY <1>8, Zenon DEF IInv, Apart
<1>14. QED BY <1>8, <1>11, <1>12, <1>13, Zenon

\* ConnectTip.
LEMMA ConnectInv ==
    ASSUME IInv, NEW b \in Block, ConnectTip(b)
    PROVE  IInv'
<1>1. /\ ValidBlock(b) /\ chain' = Append(chain, b)
      /\ phase' = IF phase = "idle" THEN "idle" ELSE "connecting"
      /\ disconnectpool' = QueueWithout(disconnectpool, b)
      /\ UNCHANGED <<vHashUpdate, dat, restarted>>
  BY Zenon DEF ConnectTip
<1>2. /\ chain \in Seq(Block) /\ ChainOK(chain)
      /\ disconnectpool \in Seq(Tx) /\ Once(disconnectpool)
      /\ ToSet(disconnectpool) \cap (Confirmed \cup pool.tx) = {}
      /\ phase = "idle" => disconnectpool = <<>>
  BY Zenon DEF IInv, TypeOK, Apart
<1>3. chain' \in Seq(Block) /\ ChainOK(chain') /\ Confirmed' = Confirmed \cup ToSet(b)
  BY <1>1, <1>2, ChainConnect, Zenon
<1>4. PICK trans \in Orders(LosesName(pool, b)) :
          pool' = RemoveForBlock(FreeReissues(pool, b), b, trans)
  BY Zenon DEF ConnectTip
<1>5. /\ Sound' /\ Reserved' /\ pool' \in PoolType
      /\ pool'.tx \subseteq pool.tx /\ pool'.tx \cap Confirmed' = {}
  BY <1>1, <1>3, <1>4, ConnectPool, Zenon
<1>6. /\ disconnectpool' \in Seq(Tx) /\ Once(disconnectpool')
      /\ ToSet(disconnectpool') \subseteq ToSet(disconnectpool) \ ToSet(b)
      /\ disconnectpool = <<>> => disconnectpool' = <<>>
  BY <1>1, <1>2, QueueFacts, Zenon
<1>7. ToSet(disconnectpool') \cap (Confirmed' \cup pool'.tx) = {}
  BY <1>2, <1>3, <1>5, <1>6, Zenon
<1>8. phase' = "idle" => disconnectpool' = <<>>
  BY <1>1, <1>2, <1>6
<1>9. Apart'
  BY <1>5, <1>6, <1>7, <1>8, Zenon DEF Apart
<1>10. TypeOK'
  <2>1. phase' \in {"idle", "disconnecting", "connecting", "adding", "erasing"}
    BY <1>1
  <2>2. QED BY <1>1, <1>3, <1>5, <1>6, <2>1, Zenon DEF IInv, TypeOK
<1>11. QED BY <1>3, <1>5, <1>9, <1>10, Zenon DEF IInv

\* The blocks are connected, or one was refused.
LEMMA StepEndsInv ==
    ASSUME IInv, NEW f \in BOOLEAN, StepEnds(f)
    PROVE  IInv'
<1>1. /\ phase' \in {"adding", "erasing"}
      /\ UNCHANGED <<chain, pool, disconnectpool, vHashUpdate, dat, restarted>>
  BY DEF StepEnds
<1>2. Confirmed' = Confirmed
  BY <1>1, Zenon DEF Confirmed
<1>3. phase' # "idle" /\ phase' \in {"idle", "disconnecting", "connecting", "adding", "erasing"}
  BY <1>1
<1>4. TypeOK'
  BY <1>1, <1>3, Zenon DEF IInv, TypeOK
<1>5. ChainOK(chain') /\ Sound'
  BY <1>1, Zenon DEF IInv, Sound
<1>6. Reserved'
  BY <1>1, <1>2, Zenon DEF IInv, Reserved, OneName
<1>7. Apart'
  <2>1. /\ pool.tx \cap Confirmed = {}
        /\ ToSet(disconnectpool) \cap (Confirmed \cup pool.tx) = {} /\ Once(disconnectpool)
    BY Zenon DEF IInv, Apart
  <2>2. QED BY <1>1, <1>2, <1>3, <2>1 DEF Apart
<1>8. QED BY <1>4, <1>5, <1>6, <1>7, Zenon DEF IInv

\* UpdateMempoolForReorg puts a transaction back.
LEMMA PutBackInv ==
    ASSUME IInv, PutBack
    PROVE  IInv'
<1> DEFINE t == Last(disconnectpool)
<1>1. /\ phase = "adding" /\ disconnectpool # <<>> /\ Acceptable(t)
      /\ pool' = Accepted(t, {}) /\ vHashUpdate' = Append(vHashUpdate, t)
      /\ disconnectpool' = Front(disconnectpool)
      /\ UNCHANGED <<chain, phase, dat, restarted>>
  BY Zenon DEF PutBack
<1>2. /\ disconnectpool \in Seq(Tx) /\ Once(disconnectpool)
      /\ ToSet(disconnectpool) \cap (Confirmed \cup pool.tx) = {}
  BY Zenon DEF IInv, TypeOK, Apart
<1>3. /\ disconnectpool' \in Seq(Tx) /\ Once(disconnectpool')
      /\ ToSet(disconnectpool') \subseteq ToSet(disconnectpool) \ {t} /\ t \in Tx
  BY <1>1, <1>2, FrontOnce, Zenon
<1> HIDE DEF t
<1>4. /\ Sound' /\ Reserved' /\ pool' \in PoolType
      /\ pool'.tx \subseteq pool.tx \cup {t} /\ Confirmed' = Confirmed
      /\ pool'.tx \cap Confirmed' = {}
  BY <1>1, <1>3, AcceptStep, Zenon
<1>5. ToSet(disconnectpool') \cap (Confirmed' \cup pool'.tx) = {}
  BY <1>2, <1>3, <1>4, Zenon
<1>6. phase' # "idle"
  BY <1>1
<1>7. Apart'
  BY <1>3, <1>4, <1>5, <1>6, Zenon DEF Apart
<1>8. vHashUpdate' \in Seq(Tx)
  BY <1>1, <1>3 DEF IInv, TypeOK
<1>9. TypeOK' /\ ChainOK(chain')
  BY <1>1, <1>3, <1>4, <1>8, Zenon DEF IInv, TypeOK
<1>10. QED BY <1>4, <1>7, <1>9, Zenon DEF IInv

\* UpdateMempoolForReorg gives a transaction up.
LEMMA GiveUpInv ==
    ASSUME IInv, GiveUp
    PROVE  IInv'
<1>1. /\ phase \in {"adding", "erasing"} /\ disconnectpool # <<>>
      /\ pool' = RemoveRecursive(pool, Last(disconnectpool))
      /\ disconnectpool' = Front(disconnectpool)
      /\ UNCHANGED <<chain, phase, vHashUpdate, dat, restarted>>
  BY Zenon DEF GiveUp
<1>2. /\ disconnectpool \in Seq(Tx) /\ Once(disconnectpool) /\ pool \in PoolType
      /\ ToSet(disconnectpool) \cap (Confirmed \cup pool.tx) = {}
  BY Zenon DEF IInv, TypeOK, Apart
<1>3. /\ disconnectpool' \in Seq(Tx) /\ Once(disconnectpool')
      /\ ToSet(disconnectpool') \subseteq ToSet(disconnectpool)
  BY <1>1, <1>2, FrontOnce, Zenon
<1>4. Confirmed' = Confirmed
  BY <1>1, Zenon DEF Confirmed
<1>5. Kept(pool, pool')
  BY <1>1, <1>2, KeptRemovals, Zenon
<1>6. /\ Sound' /\ Reserved' /\ pool' \in PoolType
      /\ pool'.tx \subseteq pool.tx /\ pool'.tx \cap Confirmed' = {}
  BY <1>1, <1>4, <1>5, KeptStep, Zenon
<1>7. ToSet(disconnectpool') \cap (Confirmed' \cup pool'.tx) = {}
  BY <1>2, <1>3, <1>4, <1>6, Zenon
<1>8. phase' # "idle"
  BY <1>1
<1>9. Apart'
  BY <1>3, <1>6, <1>7, <1>8, Zenon DEF Apart
<1>10. TypeOK' /\ ChainOK(chain')
  BY <1>1, <1>3, <1>6, Zenon DEF IInv, TypeOK
<1>11. QED BY <1>6, <1>9, <1>10, Zenon DEF IInv

\* The rest of UpdateMempoolForReorg.
LEMMA ReorgEndsInv ==
    ASSUME IInv, ReorgEnds
    PROVE  IInv'
<1>1. /\ disconnectpool = <<>> /\ vHashUpdate' = <<>> /\ phase' = "idle"
      /\ UNCHANGED <<chain, disconnectpool, dat, restarted>>
  BY Zenon DEF ReorgEnds
<1>2. PICK S : pool' = Evict(UpdateTransactionsFromBlock(pool, vHashUpdate), S)
  BY Zenon DEF ReorgEnds
<1>3. Kept(pool, pool')
  <2> DEFINE U == UpdateTransactionsFromBlock(pool, vHashUpdate)
  <2>1. Kept(pool, U) /\ U \in PoolType
    BY KeptUpdated, Zenon DEF IInv, TypeOK, Kept
  <2> HIDE DEF U
  <2>2. Kept(U, Evict(U, S))
    BY <2>1, KeptRemovals, Zenon
  <2>3. QED BY <1>2, <2>1, <2>2, KeptKept, Zenon DEF U
<1>4. Confirmed' = Confirmed
  BY <1>1, Zenon DEF Confirmed
<1>5. /\ Sound' /\ Reserved' /\ pool' \in PoolType /\ pool'.tx \cap Confirmed' = {}
  BY <1>1, <1>3, <1>4, KeptStep, Zenon
<1>6. ToSet(disconnectpool') = {} /\ Once(disconnectpool') /\ disconnectpool' = <<>>
  BY <1>1 DEF ToSet, Once
<1>7. Apart'
  BY <1>5, <1>6 DEF Apart
<1>8. vHashUpdate' \in Seq(Tx) /\ phase' \in {"idle", "disconnecting", "connecting", "adding", "erasing"}
  BY <1>1
<1>9. TypeOK' /\ ChainOK(chain')
  BY <1>1, <1>5, <1>8, Zenon DEF IInv, TypeOK
<1>10. QED BY <1>5, <1>7, <1>9, Zenon DEF IInv

\* A pool without transactions.
LEMMA EmptyPoolType == EmptyPool \in PoolType
<1>1. /\ {} \in SUBSET Tx /\ [x \in Tx |-> {}] \in [Tx -> SUBSET Tx]
      /\ [x \in Tx |-> 0] \in [Tx -> Int] /\ [o \in Outpoint |-> None] \in [Outpoint -> Tx \cup {None}]
      /\ [n \in Name |-> None] \in [Name -> Tx \cup {None}]
      /\ [x \in Tx |-> None] \in [Tx -> Name \cup {None}]
  OBVIOUS
<1>2. QED BY <1>1, Zenon DEF EmptyPool, PoolType

\* It reserves no name and no output.
LEMMA EmptyPoolFacts ==
    ASSUME NEW P, P.tx = {}, P.mapNextTx = EmptyPool.mapNextTx,
           P.mapTokenToHash = EmptyPool.mapTokenToHash, P.mapHashToToken = EmptyPool.mapHashToToken,
           P.parents = EmptyPool.parents, P.children = EmptyPool.children
    PROVE  Names(P, {}) /\ Spends(P) /\ Linked(P) /\ \A n \in Name : P.mapTokenToHash[n] = None
<1>1. /\ \A o \in Outpoint : P.mapNextTx[o] = None
      /\ \A n \in Name : P.mapTokenToHash[n] = None
      /\ \A x \in Tx : P.mapHashToToken[x] = None
  BY Zenon DEF EmptyPool
<1>2. None \notin Tx /\ None \notin Name
  BY MempoolAssumption, Zenon
<1>3. Names(P, {})
  BY <1>1, <1>2, Zenon DEF Names
<1>4. Spends(P)
  BY <1>1, <1>2, Zenon DEF Spends
<1>5. \A x \in Tx : P.parents[x] = {} /\ P.children[x] = {}
  BY Zenon DEF EmptyPool
<1>6. Linked(P)
  BY <1>5 DEF Linked
<1>7. QED BY <1>1, <1>3, <1>4, <1>6, ZenonT(30)

\* The node is restarted: the locks are read back.
LEMMA RestartInv ==
    ASSUME IInv, Restart
    PROVE  IInv'
<1> DEFINE lock == pool.mapReissuedTokens
           back == [t \in Tx |-> IF \E n \in Name : lock[n] = t
                                 THEN CHOOSE n \in Name : lock[n] = t ELSE None]
<1>1. /\ phase = "idle" /\ dat' = pool.tx /\ restarted' = restarted + 1
      /\ pool' = [EmptyPool EXCEPT !.mapReissuedTokens = lock, !.mapReissuedTx = back]
      /\ UNCHANGED <<chain, phase, disconnectpool, vHashUpdate>>
  BY Zenon DEF Restart
<1>2. lock \in [Name -> Tx \cup {None}] /\ back \in [Tx -> Name \cup {None}]
  <2>1. lock \in [Name -> Tx \cup {None}]
    BY DEF IInv, TypeOK, PoolType
  <2> HIDE DEF lock
  <2>2. \A t \in Tx : (\E n \in Name : lock[n] = t) => (CHOOSE n \in Name : lock[n] = t) \in Name
    BY Zenon
  <2>3. QED BY <2>1, <2>2
<1>3. \A t \in Tx : /\ \A n \in Name : lock[n] = t => back[t] = n
                    /\ \A n \in Name : back[t] = n => lock[n] = t
  <2>1. \A t \in Tx : \A n, m \in Name : lock[n] = t /\ lock[m] = t => n = m
    BY DEF IInv, Sound, Locks
  <2> HIDE DEF lock
  <2>2. SUFFICES ASSUME NEW t \in Tx
                 PROVE  /\ \A n \in Name : lock[n] = t => back[t] = n
                        /\ \A n \in Name : back[t] = n => lock[n] = t
    BY Zenon
  <2>3. CASE \E n \in Name : lock[n] = t
    <3>1. PICK m \in Name : lock[m] = t
      BY <2>3, Zenon
    <3>2. /\ (CHOOSE n \in Name : lock[n] = t) \in Name
          /\ lock[CHOOSE n \in Name : lock[n] = t] = t
      BY <2>3, Zenon
    <3>3. back[t] = CHOOSE n \in Name : lock[n] = t
      BY <2>3
    <3> HIDE DEF back
    <3>4. back[t] \in Name /\ lock[back[t]] = t
      BY <3>2, <3>3, Zenon
    <3>5. QED BY <2>1, <3>4, Zenon
  <2>4. CASE ~(\E n \in Name : lock[n] = t)
    <3>1. back[t] = None
      BY <2>4
    <3>2. None \notin Name
      BY MempoolAssumption, Zenon
    <3> HIDE DEF back
    <3>3. QED BY <2>4, <3>1, <3>2, Zenon
  <2>5. QED BY <2>3, <2>4, Zenon
<1> HIDE DEF back
<1>4. /\ pool'.tx = {} /\ pool'.mapNextTx = EmptyPool.mapNextTx
      /\ pool'.mapTokenToHash = EmptyPool.mapTokenToHash
      /\ pool'.mapHashToToken = EmptyPool.mapHashToToken
      /\ pool'.parents = EmptyPool.parents /\ pool'.children = EmptyPool.children
      /\ pool'.mapReissuedTokens = lock /\ pool'.mapReissuedTx = back
  BY <1>1 DEF EmptyPool
<1>5. pool' \in PoolType
  <2> HIDE DEF lock
  <2>1. QED BY <1>1, <1>2, EmptyPoolType, Zenon DEF PoolType
<1>6. Names(pool', {}) /\ Spends(pool') /\ Linked(pool') /\ \A n \in Name : pool'.mapTokenToHash[n] = None
  BY <1>4, EmptyPoolFacts, Zenon
<1>7. Locks(pool', {})
  <2>1. \A n \in Name, t \in Tx : lock[n] = t => n \in reissues(t)
    BY Zenon DEF IInv, Sound, Locks
  <2> HIDE DEF lock
  <2>2. QED BY <1>3, <1>4, <2>1 DEF Locks
<1>8. Sound'
  <2>1. restarted' # 0
    BY <1>1 DEF IInv, TypeOK
  <2>2. QED BY <1>4, <1>6, <1>7, <2>1 DEF Sound
<1>9. Reserved'
  BY <1>6, Zenon DEF Reserved
<1>10. disconnectpool' = <<>> /\ disconnectpool' \in Seq(Tx)
  BY <1>1, Zenon DEF IInv, Apart, TypeOK
<1>11. ToSet(disconnectpool') = {} /\ Once(disconnectpool')
  BY <1>10 DEF ToSet, Once
<1>12. Apart'
  BY <1>4, <1>10, <1>11 DEF Apart
<1>13. TypeOK'
  <2>1. dat' \in SUBSET Tx /\ restarted' \in Nat
    BY <1>1 DEF IInv, TypeOK, PoolType
  <2>2. QED BY <1>1, <1>5, <2>1, Zenon DEF IInv, TypeOK
<1>14. ChainOK(chain')
  BY <1>1, Zenon DEF IInv
<1>15. QED BY <1>8, <1>9, <1>12, <1>13, <1>14, Zenon DEF IInv

\* The invariant holds when the node starts for the first time.
LEMMA InitInv ==
    ASSUME Init
    PROVE  IInv
<1>1. /\ chain = <<>> /\ pool = EmptyPool /\ phase = "idle" /\ disconnectpool = <<>>
      /\ vHashUpdate = <<>> /\ dat = {} /\ restarted = 0
  BY Zenon DEF Init
<1>2. TypeOK
  BY <1>1, EmptyPoolType DEF TypeOK
<1>3. DOMAIN chain = {} /\ DOMAIN disconnectpool = {}
  BY <1>1
<1>4. /\ pool.tx = {} /\ \A n \in Name : pool.mapReissuedTokens[n] = None
      /\ \A t \in Tx : pool.mapReissuedTx[t] = None
  BY <1>1 DEF EmptyPool
<1>5. ChainOK(chain)
  BY <1>3, Zenon DEF ChainOK
<1>6. Confirmed = {} /\ ToSet(disconnectpool) = {} /\ Once(disconnectpool)
  BY <1>3 DEF Confirmed, ToSet, Once
<1>7. Apart
  BY <1>1, <1>4, <1>6 DEF Apart
<1>8. Names(pool, {}) /\ Spends(pool) /\ Linked(pool) /\ \A n \in Name : pool.mapTokenToHash[n] = None
  BY <1>1, <1>4, EmptyPoolFacts, Zenon
<1>9. None \notin Tx /\ None \notin Name
  BY MempoolAssumption, Zenon
<1>10. Locks(pool, {}) /\ Held(pool)
  BY <1>4, <1>9 DEF Locks, Held
<1>11. Sound
  BY <1>4, <1>8, <1>10 DEF Sound
<1>12. Reserved
  BY <1>8, Zenon DEF Reserved
<1>13. QED BY <1>2, <1>5, <1>7, <1>11, <1>12, Zenon DEF IInv

-----------------------------------------------------------------------------
(* The theorems. *)

\* Every step keeps the invariant.
LEMMA NextInv ==
    ASSUME IInv, [Next]_vars
    PROVE  IInv'
<1>1. CASE UNCHANGED vars
  <2>1. UNCHANGED <<chain, pool, phase, disconnectpool, vHashUpdate, dat, restarted>>
    BY <1>1, Zenon DEF vars
  <2>2. Confirmed' = Confirmed
    BY <2>1, Zenon DEF Confirmed
  <2>3. TypeOK' /\ ChainOK(chain')
    BY <2>1, Zenon DEF IInv, TypeOK
  <2>4. Apart'
    BY <2>1, <2>2, Zenon DEF IInv, Apart
  <2>5. Sound'
    BY <2>1, Zenon DEF IInv, Sound
  <2>6. Reserved'
    BY <2>1, <2>2, Zenon DEF IInv, Reserved, OneName
  <2>7. QED BY <2>3, <2>4, <2>5, <2>6, Zenon DEF IInv
<1>2. ASSUME NEW t \in Tx, AcceptToMemoryPool(t) PROVE IInv'
  BY <1>2, AcceptInv, Zenon
<1>3. ASSUME NEW t \in Tx, LoadMempool(t) PROVE IInv'
  BY <1>3, LoadInv, Zenon
<1>4. CASE DisconnectTip
  BY <1>4, DisconnectInv, Zenon
<1>5. ASSUME NEW b \in Block, ConnectTip(b) PROVE IInv'
  BY <1>5, ConnectInv, Zenon
<1>6. ASSUME NEW f \in BOOLEAN, StepEnds(f) PROVE IInv'
  BY <1>6, StepEndsInv, Zenon
<1>7. CASE PutBack
  BY <1>7, PutBackInv, Zenon
<1>8. CASE GiveUp
  BY <1>8, GiveUpInv, Zenon
<1>9. CASE ReorgEnds
  BY <1>9, ReorgEndsInv, Zenon
<1>10. CASE Restart
  BY <1>10, RestartInv, Zenon
<1>11. QED BY <1>1, <1>2, <1>3, <1>4, <1>5, <1>6, <1>7, <1>8, <1>9, <1>10, Zenon DEF Next

\* The invariant of the mempool.
THEOREM MempoolInvariant == Spec => []IInv
<1>1. Init => IInv
  BY InitInv, Zenon
<1>2. IInv /\ [Next]_vars => IInv'
  BY NextInv, Zenon
<1>3. QED BY <1>1, <1>2, PTL DEF Spec

\* What UpdateMempoolForReorg relies on: while blocks are disconnected and connected,
\* the disconnectpool holds no transaction that is confirmed or in the pool, and it is
\* empty when the step of ActivateBestChain is over.
THEOREM DisconnectpoolIsUnconfirmed == Spec => []QueueIsUnconfirmed
<1>1. IInv => QueueIsUnconfirmed
  BY Zenon DEF IInv, Apart, QueueIsUnconfirmed
<1>2. QED BY <1>1, MempoolInvariant, PTL

\* CheckTxTokens can rely on mapReissuedTokens: every reissue in the pool holds the
\* lock of its token, through reorganisations and restarts, mapReissuedTx is the
\* inverse map and, until a restart, every lock is that of a transaction of the pool.
THEOREM ReissueLocksAreRight == Spec => []ReissuesAreLocked
<1>1. IInv => ReissuesAreLocked
  <2>1. SUFFICES ASSUME IInv PROVE ReissuesAreLocked
    OBVIOUS
  <2>2. pool.tx \ {} = pool.tx
    OBVIOUS
  <2>3. QED BY <2>1, <2>2, Zenon DEF IInv, Sound, Locks, Held, ReissuesAreLocked
<1>2. QED BY <1>1, MempoolInvariant, PTL

\* mapNextTx, which AcceptToMemoryPool asks for a double spend, knows for every output
\* the transaction of the pool that spends it, and there is one at most.
SpendersAreKnown ==
    /\ \A o \in Outpoint : {t \in pool.tx : o \in vin(t)} = {pool.mapNextTx[o]} \ {None}
    /\ \A s, t \in pool.tx : s # t => vin(s) \cap vin(t) = {}

\* What CTxMemPool::check asserts of mapNextTx holds at every step of a reorganisation,
\* not only after it: no step of AcceptToMemoryPool, ConnectTip, DisconnectTip or
\* UpdateMempoolForReorg leaves a double spend in the pool.
THEOREM PoolHasNoDoubleSpend == Spec => []SpendersAreKnown
<1>1. IInv => SpendersAreKnown
  <2>1. SUFFICES ASSUME IInv PROVE SpendersAreKnown
    OBVIOUS
  <2>2. /\ \A o \in Outpoint, t \in Tx : pool.mapNextTx[o] = t <=> t \in pool.tx /\ o \in vin(t)
        /\ \A t \in pool.tx : vin(t) \subseteq Outpoint
    BY <2>1, Zenon DEF IInv, Sound, Spends
  <2>3. /\ pool.tx \subseteq Tx /\ None \notin Tx
        /\ \A o \in Outpoint : pool.mapNextTx[o] \in Tx \cup {None}
    BY <2>1, MempoolAssumption DEF IInv, TypeOK, PoolType
  <2>4. \A o \in Outpoint : {t \in pool.tx : o \in vin(t)} = {pool.mapNextTx[o]} \ {None}
    BY <2>2, <2>3
  <2>5. ASSUME NEW s \in pool.tx, NEW t \in pool.tx, NEW o \in vin(s), o \in vin(t)
        PROVE  s = t
    <3>1. o \in Outpoint /\ s \in Tx /\ t \in Tx
      BY <2>2, <2>3, Zenon
    <3>2. pool.mapNextTx[o] = s /\ pool.mapNextTx[o] = t
      BY <2>2, <2>5, <3>1, Zenon
    <3>3. QED BY ONLY <3>2
  <2>6. QED BY <2>4, <2>5, Zenon DEF SpendersAreKnown
<1>2. QED BY <1>1, MempoolInvariant, PTL

\* mapLinks: a link is between transactions of the pool of which one spends the other,
\* and the children's side of it says what the parents' side says.
LinksAreMutual ==
    /\ \A x, y \in Tx : y \in pool.children[x] <=> x \in pool.parents[y]
    /\ \A y \in Tx : pool.parents[y] \subseteq PoolParents(pool, y)
    /\ \A y \in Tx \ pool.tx : pool.parents[y] = {} /\ pool.children[y] = {}

\* CalculateDescendants, UpdateAncestorsOf and UpdateForRemoveFromMempool walk the links
\* in either direction: what one walk finds the other undoes, and neither leaves the pool
\* (mapLinks.find would fail), during a reorganisation too.
THEOREM LinksStayInThePool == Spec => []LinksAreMutual
<1>1. IInv => LinksAreMutual
  <2>1. SUFFICES ASSUME IInv PROVE LinksAreMutual
    OBVIOUS
  <2>2. \A x, y \in Tx :
            /\ y \in pool.children[x] <=> x \in pool.parents[y]
            /\ x \in pool.parents[y] => x \in pool.tx /\ y \in pool.tx /\ vout(x) \cap vin(y) # {}
    BY <2>1, Zenon DEF IInv, Sound, Linked
  <2>3. \A x \in Tx : pool.parents[x] \subseteq Tx /\ pool.children[x] \subseteq Tx
    BY <2>1 DEF IInv, TypeOK, PoolType
  <2>4. \A y \in Tx : pool.parents[y] \subseteq PoolParents(pool, y)
    BY <2>2, <2>3, Zenon DEF PoolParents
  <2>5. \A y \in Tx \ pool.tx : pool.parents[y] = {} /\ pool.children[y] = {}
    BY <2>2, <2>3
  <2>6. QED BY <2>2, <2>4, <2>5, Zenon DEF LinksAreMutual
<1>2. QED BY <1>1, MempoolInvariant, PTL

\* Where a transaction issues one name at most, a name is issued by the chain or by
\* one transaction of the pool, which is the one that mapTokenToHash reserves it for.
THEOREM NamesAreThoseOfThePool ==
    ASSUME OneName
    PROVE  Spec => []NamesAreReserved
<1>1. IInv => NamesAreReserved
  <2>1. SUFFICES ASSUME IInv, NEW n \in Name
                 PROVE  /\ {t \in pool.tx : n \in ToSet(issues(t))} = {pool.mapTokenToHash[n]} \ {None}
                        /\ pool.mapTokenToHash[n] # None => n \notin Issued(Confirmed)
    BY Zenon DEF NamesAreReserved
  <2>2. Names(pool, {}) /\ (pool.mapTokenToHash[n] # None => n \notin Issued(Confirmed))
    BY <2>1, Zenon DEF IInv, Reserved
  <2>3. pool.tx \subseteq Tx /\ pool.mapTokenToHash[n] \in Tx \cup {None} /\ None \notin Tx
    BY <2>1, MempoolAssumption DEF IInv, TypeOK, PoolType
  <2>4. \A t \in Tx : pool.mapTokenToHash[n] = t <=> t \in pool.tx /\ n \in ToSet(issues(t))
    BY <2>2, Zenon DEF Names
  <2>5. QED BY <2>2, <2>3, <2>4
<1>2. QED BY <1>1, MempoolInvariant, PTL

=============================================================================
