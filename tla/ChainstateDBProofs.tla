------------------------- MODULE ChainstateDBProofs -------------------------
(***************************************************************************)
(* The node survives crashes: for every tree of blocks, every choice of    *)
(* transactions and any number of crashes, in the middle of a flush or of  *)
(* a recovery, the coins of the running node are those its chain leaves    *)
(* unspent, and recovery finds what it needs on disk.                      *)
(*                                                                         *)
(* What connecting, disconnecting and replaying blocks does to the coins   *)
(* comes first.  The argument is about one outpoint at a time.  Undoing a  *)
(* block gives an outpoint the block touches the coin it had before the    *)
(* block, whatever coin it has now, and doing a block gives it the coin it *)
(* has after; both leave the others alone.  In a database that is part old *)
(* and part new an outpoint that neither branch touches has the coin of    *)
(* the fork, one that only the old branch touches gets it back when that   *)
(* branch is undone, and one that the new branch touches is set when that  *)
(* branch is redone.                                                       *)
(***************************************************************************)
EXTENDS ChainstateDB, TreeRecursion, SequenceTheorems

\* A transaction of b spends or creates o.
Touches(b, o) == \E i \in DOMAIN vtx[b] : o \in vtx[b][i].vin \cup vtx[b][i].vout

\* The undo data is what ConnectBlock computes on the coins before the block.
UndoIsRight(undoData) ==
    \A b \in DOMAIN undoData :
        /\ b \in Block /\ pprev[b] # NoBlock
        /\ Connectable(b)
        /\ undoData[b] = BlockUndo(Utxo[pprev[b]], b)

-----------------------------------------------------------------------------
(* The recursive definitions have the values they say. *)

\* A block is one higher than its parent.
LEMMA BlocksAreTree == IsTree(Block, NoBlock, pprev, nHeight)
BY TreeAssumption DEF IsTree

\* The chain that ends in a block is the block and the chain of its parent.
LEMMA AncestorsDef ==
    /\ Ancestors \in [Block \cup {NoBlock} -> SUBSET Block]
    /\ Ancestors[NoBlock] = {}
    /\ \A b \in Block : Ancestors[b] = {b} \cup Ancestors[pprev[b]]
<1> DEFINE D == Block \cup {NoBlock}
           step == [x \in Block \X SUBSET Block |-> {x[1]} \cup x[2]]
           P == {b \in D : Ancestors[b] \in SUBSET Block}
           IsA(f) == f = [b \in D |-> IF b = NoBlock THEN {} ELSE {b} \cup f[pprev[b]]]
<1>1. IsStep(Block, SUBSET Block, {}, step)
  BY Zenon DEF IsStep
<1>2. PICK f : IsDefinedBy(Block, NoBlock, pprev, SUBSET Block, {}, step, f)
  <2> HIDE DEF step
  <2>1. QED BY Zenon, <1>1, BlocksAreTree, TreeRecursionExists
<1>3. IsA(f)
  <2>1. /\ f \in [D -> SUBSET Block]
        /\ f = [b \in D |-> IF b = NoBlock THEN {} ELSE step[<<b, f[pprev[b]]>>]]
    BY Zenon, <1>2 DEF IsDefinedBy
  <2>2. \A b \in Block : step[<<b, f[pprev[b]]>>] = {b} \cup f[pprev[b]]
    BY Zenon, <2>1, TreeAssumption
  <2> HIDE DEF step
  <2>3. QED BY Zenon, <2>1, <2>2
<1>4. Ancestors = CHOOSE g : IsA(g)
  BY Zenon DEF Ancestors
<1>5. IsA(Ancestors)
  <2> HIDE DEF IsA
  <2>1. QED BY Zenon, <1>3, <1>4
<1>6. /\ Ancestors[NoBlock] = {}
      /\ \A b \in Block : Ancestors[b] = {b} \cup Ancestors[pprev[b]]
  BY Zenon, <1>5, TreeAssumption
<1>7. Block \subseteq P
  <2>1. NoBlock \in P /\ \A b \in Block : pprev[b] \in P => b \in P
    BY Zenon, <1>6
  <2> HIDE DEF P
  <2>2. QED BY <2>1, BlocksAreTree, TreeInduction
<1>8. \A b \in D : Ancestors[b] \in SUBSET Block
  BY Zenon, <1>6, <1>7
<1>9. Ancestors \in [D -> SUBSET Block]
  BY Zenon, <1>5, <1>8
<1>10. QED BY Zenon, <1>6, <1>9

\* The chain up to a block holds the block and the chains of its blocks, is no
\* higher than the block and starts with the genesis block.
LEMMA AncestorsFacts ==
    ASSUME NEW b \in Block
    PROVE  /\ b \in Ancestors[b]
           /\ \A a \in Ancestors[b] : /\ a \in Block /\ nHeight[a] <= nHeight[b]
                                      /\ Ancestors[a] \subseteq Ancestors[b]
           /\ \E a \in Ancestors[b] : pprev[a] = NoBlock
<1> DEFINE Q(x) == /\ \A a \in Ancestors[x] : /\ a \in Block /\ nHeight[a] <= nHeight[x]
                                              /\ Ancestors[a] \subseteq Ancestors[x]
                   /\ \E a \in Ancestors[x] : pprev[a] = NoBlock
           P == {NoBlock} \cup {x \in Block : Q(x)}
<1>1. ASSUME NEW x \in Block, pprev[x] \in P PROVE Q(x)
  <2>1. Ancestors[x] = {x} \cup Ancestors[pprev[x]] /\ nHeight[x] \in Nat
    BY Zenon, AncestorsDef, TreeAssumption
  <2>2. CASE pprev[x] = NoBlock
    BY <2>1, <2>2, AncestorsDef
  <2>3. CASE pprev[x] # NoBlock
    <3>1. pprev[x] \in Block /\ Q(pprev[x]) /\ nHeight[x] = nHeight[pprev[x]] + 1
          /\ nHeight[pprev[x]] \in Nat
      BY Zenon, <1>1, <2>3, TreeAssumption
    <3>2. ASSUME NEW a \in Ancestors[pprev[x]] PROVE a \in Block /\ nHeight[a] <= nHeight[x]
      <4>1. a \in Block /\ nHeight[a] <= nHeight[pprev[x]] /\ nHeight[a] \in Nat
        BY Zenon, <3>1, <3>2, TreeAssumption
      <4>2. QED BY <3>1, <4>1
    <3>3. \A a \in Ancestors[pprev[x]] : Ancestors[a] \subseteq Ancestors[x]
      BY Zenon, <2>1, <3>1
    <3>4. \E a \in Ancestors[x] : pprev[a] = NoBlock
      BY Zenon, <2>1, <3>1
    <3>5. QED BY <2>1, <3>2, <3>3, <3>4
  <2>4. QED BY Zenon, <2>2, <2>3
<1>2. Block \subseteq P
  <2>1. NoBlock \in P /\ \A x \in Block : pprev[x] \in P => x \in P
    BY Zenon, <1>1
  <2> HIDE DEF P
  <2>2. QED BY <2>1, BlocksAreTree, TreeInduction
<1>3. Q(b)
  BY Zenon, <1>2, TreeAssumption
<1>4. QED BY <1>3, AncestorsDef

\* A transaction turns coins into coins.
LEMMA UpdateCoinsType ==
    ASSUME NEW c \in Coins, NEW tx, NEW h \in Nat
    PROVE  UpdateCoins(c, tx, h) \in Coins
BY Zenon DEF UpdateCoins, Coins

\* The coins after each transaction of a block come from those before it.
LEMMA AfterDef ==
    ASSUME NEW c \in Coins, NEW b \in Block
    PROVE  /\ Len(vtx[b]) \in Nat /\ DOMAIN vtx[b] = 1 .. Len(vtx[b])
           /\ After(c, b) \in [0 .. Len(vtx[b]) -> Coins]
           /\ After(c, b)[0] = c
           /\ \A n \in 1 .. Len(vtx[b]) :
                  After(c, b)[n] = UpdateCoins(After(c, b)[n - 1], vtx[b][n], nHeight[b])
<1> DEFINE N == Len(vtx[b])
           Tx(n, d) == UpdateCoins(d, vtx[b][n], nHeight[b])
           step == [x \in (1 .. N) \X Coins |-> Tx(x[1], x[2])]
           IsAfter(f) == f = [n \in 0 .. N |-> IF n = 0 THEN c ELSE Tx(n, f[n - 1])]
           A == After(c, b)
<1>1. N \in Nat /\ nHeight[b] \in Nat /\ DOMAIN vtx[b] = 1 .. N
  BY VtxAssumption, TreeAssumption
<1>2. \A n, d : d \in Coins => Tx(n, d) \in Coins
  BY Zenon, <1>1, UpdateCoinsType
<1> HIDE DEF N, Tx
<1>3. IsStep(1 .. N, Coins, c, step)
  BY Zenon, <1>2 DEF IsStep
<1>4. PICK f : IsListBy(N, Coins, c, step, f)
  <2> HIDE DEF step
  <2>1. QED BY Zenon, <1>1, <1>3, ListRecursionExists
<1>5. IsAfter(f)
  <2>1. f \in [0 .. N -> Coins] /\ f = [n \in 0 .. N |-> IF n = 0 THEN c ELSE step[<<n, f[n - 1]>>]]
    BY <1>4, ZenonT(30) DEF IsListBy
  <2>2. \A n \in 1 .. N, d \in Coins : step[<<n, d>>] = Tx(n, d)
    BY Zenon
  <2>3. \A n \in 0 .. N : n # 0 => n \in 1 .. N /\ f[n - 1] \in Coins
    <3>1. \A n \in 0 .. N : n # 0 => n \in 1 .. N /\ n - 1 \in 0 .. N
      BY <1>1
    <3>2. \A n \in 0 .. N : f[n] \in Coins
      BY <2>1, ZenonT(30)
    <3>3. QED BY Zenon, <3>1, <3>2
  <2> HIDE DEF step
  <2>4. \A n \in 0 .. N : n # 0 => step[<<n, f[n - 1]>>] = Tx(n, f[n - 1])
    BY Zenon, <2>2, <2>3
  <2>5. QED BY <2>1, <2>4, Zenon
<1>6. A = CHOOSE g : IsAfter(g)
  BY Zenon DEF After, N, Tx
<1>7. IsAfter(A)
  <2> HIDE DEF IsAfter, A
  <2>1. QED BY Zenon, <1>5, <1>6
<1> HIDE DEF A
<1>8. A[0] = c /\ \A n \in 1 .. N : A[n] = Tx(n, A[n - 1])
  BY <1>1, <1>7
<1> DEFINE P == {n \in 0 .. N : A[n] \in Coins}
<1>9. 0 .. N \subseteq P
  <2>1. 0 \in P /\ \A n \in 1 .. N : n - 1 \in P => n \in P
    BY <1>1, <1>2, <1>8
  <2> HIDE DEF P
  <2>2. QED BY <1>1, <2>1, ListInduction, Zenon
<1>10. A \in [0 .. N -> Coins]
  BY Zenon, <1>7, <1>9
<1>11. QED BY Zenon, <1>1, <1>8, <1>10 DEF A, N, Tx

\* A block turns coins into coins.
LEMMA RollType ==
    ASSUME NEW c \in Coins, NEW b \in Block
    PROVE  Roll(c, b) \in Coins
<1>1. Len(vtx[b]) \in 0 .. Len(vtx[b]) /\ After(c, b) \in [0 .. Len(vtx[b]) -> Coins]
  BY AfterDef
<1>2. QED BY Zenon, <1>1 DEF Roll

\* The coins of a chain come from those of the chain without its last block.
LEMMA UtxoDef ==
    /\ Utxo \in [Block \cup {NoBlock} -> Coins]
    /\ Utxo[NoBlock] = NoCoins
    /\ \A b \in Block : Utxo[b] = Roll(Utxo[pprev[b]], b)
<1> DEFINE D == Block \cup {NoBlock}
           step == [x \in Block \X Coins |-> Roll(x[2], x[1])]
           P == {b \in D : Utxo[b] \in Coins}
           IsU(f) == f = [b \in D |-> IF b = NoBlock THEN NoCoins ELSE Roll(f[pprev[b]], b)]
<1>1. NoCoins \in Coins
  BY Zenon DEF NoCoins, Coins
<1>2. IsStep(Block, Coins, NoCoins, step)
  BY Zenon, <1>1, RollType DEF IsStep
<1>3. PICK f : IsDefinedBy(Block, NoBlock, pprev, Coins, NoCoins, step, f)
  <2> HIDE DEF step
  <2>1. QED BY Zenon, <1>2, BlocksAreTree, TreeRecursionExists
<1>4. IsU(f)
  <2>1. /\ f \in [D -> Coins]
        /\ f = [b \in D |-> IF b = NoBlock THEN NoCoins ELSE step[<<b, f[pprev[b]]>>]]
    BY Zenon, <1>3 DEF IsDefinedBy
  <2>2. \A b \in Block : step[<<b, f[pprev[b]]>>] = Roll(f[pprev[b]], b)
    BY Zenon, <2>1, TreeAssumption
  <2> HIDE DEF step
  <2>3. QED BY Zenon, <2>1, <2>2
<1>5. Utxo = CHOOSE g : IsU(g)
  BY Zenon DEF Utxo
<1>6. IsU(Utxo)
  <2> HIDE DEF IsU
  <2>1. QED BY Zenon, <1>4, <1>5
<1>7. Utxo[NoBlock] = NoCoins /\ \A b \in Block : Utxo[b] = Roll(Utxo[pprev[b]], b)
  BY Zenon, <1>6, TreeAssumption
<1>8. Block \subseteq P
  <2>1. NoBlock \in P /\ \A b \in Block : pprev[b] \in P => b \in P
    BY Zenon, <1>1, <1>7, RollType
  <2> HIDE DEF P
  <2>2. QED BY <2>1, BlocksAreTree, TreeInduction
<1>9. \A b \in D : Utxo[b] \in Coins
  BY Zenon, <1>1, <1>7, <1>8
<1>10. Utxo \in [D -> Coins]
  BY Zenon, <1>6, <1>9
<1>11. QED BY Zenon, <1>7, <1>10

-----------------------------------------------------------------------------
(* What doing and undoing a block does to one outpoint. *)

\* The transaction i of b spends or creates o.
TouchesAt(b, i, o) == o \in vtx[b][i].vin \cup vtx[b][i].vout

\* An outpoint that one of the first n transactions touches has a coin that does
\* not depend on the coins before the block, any other one keeps its coin.
LEMMA AfterFacts ==
    ASSUME NEW c \in Coins, NEW d \in Coins, NEW b \in Block, NEW o \in OutPoint,
           NEW n \in 0 .. Len(vtx[b])
    PROVE  /\ (\E i \in 1 .. n : TouchesAt(b, i, o)) => After(c, b)[n][o] = After(d, b)[n][o]
           /\ (\A i \in 1 .. n : ~TouchesAt(b, i, o)) => After(c, b)[n][o] = c[o]
<1> DEFINE N == Len(vtx[b])
           Q(m) == /\ (\E i \in 1 .. m : TouchesAt(b, i, o)) => After(c, b)[m][o] = After(d, b)[m][o]
                   /\ (\A i \in 1 .. m : ~TouchesAt(b, i, o)) => After(c, b)[m][o] = c[o]
           P == {m \in 0 .. N : Q(m)}
<1>1. N \in Nat
  BY Zenon, AfterDef
<1>2. 0 \in P
  <2>1. \A i \in 1 .. 0 : FALSE
    OBVIOUS
  <2>2. After(c, b)[0] = c
    BY Zenon, AfterDef
  <2>3. QED BY <1>1, <2>1, <2>2
<1>3. ASSUME NEW m \in 1 .. N, m - 1 \in P PROVE Q(m)
  <2>1. /\ After(c, b)[m] = UpdateCoins(After(c, b)[m - 1], vtx[b][m], nHeight[b])
        /\ After(d, b)[m] = UpdateCoins(After(d, b)[m - 1], vtx[b][m], nHeight[b])
    BY AfterDef
  <2>2. Q(m - 1)
    BY Zenon, <1>3
  <2>3. \A i \in 1 .. m : i = m \/ i \in 1 .. (m - 1)
    BY <1>1
  <2>4. \A i \in 1 .. (m - 1) : i \in 1 .. m
    BY <1>1
  <2>5. m \in 1 .. m
    BY <1>1
  <2>6. CASE TouchesAt(b, m, o)
    <3>1. After(c, b)[m][o] = After(d, b)[m][o]
      BY Zenon, <2>1, <2>6 DEF UpdateCoins, TouchesAt
    <3>2. QED BY Zenon, <2>5, <2>6, <3>1
  <2>7. CASE ~TouchesAt(b, m, o)
    <3>1. After(c, b)[m][o] = After(c, b)[m - 1][o] /\ After(d, b)[m][o] = After(d, b)[m - 1][o]
      BY Zenon, <2>1, <2>7 DEF UpdateCoins, TouchesAt
    <3>2. QED BY <2>2, <2>3, <2>4, <2>7, <3>1, Zenon
  <2>8. QED BY Zenon, <2>6, <2>7
<1>4. 0 .. N \subseteq P
  <2>1. \A m \in 1 .. N : m - 1 \in P => m \in P
    BY <1>1, <1>3
  <2> HIDE DEF P
  <2>2. QED BY <1>1, <1>2, <2>1, ListInduction, ZenonT(30)
<1>5. QED BY Zenon, <1>4

\* Doing a block sets what it touches and leaves the rest.
LEMMA RollFacts ==
    ASSUME NEW c \in Coins, NEW d \in Coins, NEW b \in Block, pprev[b] # NoBlock, NEW o \in OutPoint
    PROVE  /\ Touches(b, o) => Roll(c, b)[o] = Roll(d, b)[o]
           /\ ~Touches(b, o) => Roll(c, b)[o] = c[o]
<1> DEFINE N == Len(vtx[b])
<1>1. N \in Nat /\ N \in 0 .. N /\ DOMAIN vtx[b] = 1 .. N
  BY AfterDef
<1>2. Touches(b, o) <=> \E i \in 1 .. N : TouchesAt(b, i, o)
  BY Zenon, <1>1 DEF Touches, TouchesAt
<1>3. Roll(c, b) = After(c, b)[N] /\ Roll(d, b) = After(d, b)[N]
  BY Zenon DEF Roll
<1>4. QED BY <1>1, <1>2, <1>3, AfterFacts

\* The undo data of a block holds coins.
LEMMA BlockUndoType ==
    ASSUME NEW c \in Coins, NEW b \in Block, NEW i \in DOMAIN vtx[b], NEW o \in vtx[b][i].vin
    PROVE  /\ o \in OutPoint /\ i - 1 \in 0 .. Len(vtx[b])
           /\ BlockUndo(c, b)[i][o] = After(c, b)[i - 1][o]
           /\ BlockUndo(c, b)[i][o] \in Nat \cup {Spent}
<1>1. DOMAIN vtx[b] = 1 .. Len(vtx[b]) /\ Len(vtx[b]) \in Nat
      /\ After(c, b) \in [0 .. Len(vtx[b]) -> Coins]
  BY Zenon, AfterDef
<1>2. i - 1 \in 0 .. Len(vtx[b])
  BY <1>1
<1>3. o \in OutPoint
  <2>1. vtx[b][i] \in [vin : SUBSET OutPoint, vout : SUBSET OutPoint]
    BY VtxAssumption, ElementOfSeq, <1>1, ZenonT(30)
  <2>2. QED BY Zenon, <2>1
<1>4. BlockUndo(c, b)[i][o] = After(c, b)[i - 1][o]
  BY Zenon DEF BlockUndo
<1>5. After(c, b)[i - 1] \in Coins
  BY Zenon, <1>1, <1>2
<1>6. QED BY Zenon, <1>2, <1>3, <1>4, <1>5 DEF Coins

\* DisconnectBlock goes through coins, one for each transaction it has undone.
LEMMA DisconnectDef ==
    ASSUME NEW c \in Coins, NEW d \in Coins, NEW b \in Block
    PROVE  \E f \in [0 .. Len(vtx[b]) -> Coins] :
               /\ f[0] = d
               /\ \A n \in 1 .. Len(vtx[b]) :
                      f[n] = UndoTx(f[n - 1], vtx[b][Len(vtx[b]) + 1 - n],
                                    BlockUndo(c, b)[Len(vtx[b]) + 1 - n])
               /\ Disconnect(d, b, BlockUndo(c, b)) = f[Len(vtx[b])]
<1> DEFINE N == Len(vtx[b])
           Un(n, e) == UndoTx(e, vtx[b][N + 1 - n], BlockUndo(c, b)[N + 1 - n])
           step == [x \in (1 .. N) \X Coins |-> Un(x[1], x[2])]
           IsD(f) == f = [n \in 0 .. N |-> IF n = 0 THEN d ELSE Un(n, f[n - 1])]
           F == CHOOSE f : IsD(f)
<1>1. N \in Nat /\ DOMAIN vtx[b] = 1 .. N
  BY Zenon, AfterDef
<1>2. ASSUME NEW n \in 1 .. N, NEW e \in Coins PROVE Un(n, e) \in Coins
  <2>1. N + 1 - n \in DOMAIN vtx[b]
    BY <1>1
  <2>2. \A o \in vtx[b][N + 1 - n].vin : BlockUndo(c, b)[N + 1 - n][o] \in Nat \cup {Spent}
    BY Zenon, <2>1, BlockUndoType
  <2>3. \A o \in OutPoint : e[o] \in Nat \cup {Spent}
    BY Zenon DEF Coins
  <2>4. QED BY Zenon, <2>2, <2>3 DEF UndoTx, Coins
<1>3. Disconnect(d, b, BlockUndo(c, b)) = F[N]
  BY Zenon DEF Disconnect
<1> HIDE DEF N, Un
<1>4. IsStep(1 .. N, Coins, d, step)
  BY Zenon, <1>2 DEF IsStep
<1>5. PICK f : IsListBy(N, Coins, d, step, f)
  <2> HIDE DEF step
  <2>1. QED BY Zenon, <1>1, <1>4, ListRecursionExists
<1>6. IsD(f)
  <2>1. f \in [0 .. N -> Coins] /\ f = [n \in 0 .. N |-> IF n = 0 THEN d ELSE step[<<n, f[n - 1]>>]]
    BY <1>5, ZenonT(30) DEF IsListBy
  <2>2. \A n \in 1 .. N, e \in Coins : step[<<n, e>>] = Un(n, e)
    BY Zenon
  <2>3. \A n \in 0 .. N : n # 0 => n \in 1 .. N /\ f[n - 1] \in Coins
    <3>1. \A n \in 0 .. N : n # 0 => n \in 1 .. N /\ n - 1 \in 0 .. N
      BY <1>1
    <3>2. \A n \in 0 .. N : f[n] \in Coins
      BY <2>1, ZenonT(30)
    <3>3. QED BY Zenon, <3>1, <3>2
  <2> HIDE DEF step
  <2>4. \A n \in 0 .. N : n # 0 => step[<<n, f[n - 1]>>] = Un(n, f[n - 1])
    BY Zenon, <2>2, <2>3
  <2>5. QED BY <2>1, <2>4, Zenon
<1>7. IsD(F)
  <2> HIDE DEF IsD
  <2>1. QED BY Zenon, <1>6
<1> HIDE DEF F
<1>8. F[0] = d /\ \A n \in 1 .. N : F[n] = Un(n, F[n - 1])
  BY <1>1, <1>7
<1> DEFINE P == {n \in 0 .. N : F[n] \in Coins}
<1>9. 0 .. N \subseteq P
  <2>1. 0 \in P /\ \A n \in 1 .. N : n - 1 \in P => n \in P
    BY <1>1, <1>2, <1>8
  <2> HIDE DEF P
  <2>2. QED BY <1>1, <2>1, ListInduction, ZenonT(30)
<1>10. F \in [0 .. N -> Coins]
  BY Zenon, <1>7, <1>9
<1>11. QED BY Zenon, <1>3, <1>8, <1>10 DEF N, Un

\* Undoing a block gives what it touches the coin from before the block,
\* whatever coin is there, and leaves the rest.
LEMMA DisconnectFacts ==
    ASSUME NEW c \in Coins, NEW d \in Coins, NEW b \in Block, NEW o \in OutPoint,
           \A i \in DOMAIN vtx[b] : o \in vtx[b][i].vout => c[o] = Spent
    PROVE  /\ Disconnect(d, b, BlockUndo(c, b)) \in Coins
           /\ Touches(b, o) => Disconnect(d, b, BlockUndo(c, b))[o] = c[o]
           /\ ~Touches(b, o) => Disconnect(d, b, BlockUndo(c, b))[o] = d[o]
<1> DEFINE N == Len(vtx[b])
           B == BlockUndo(c, b)
<1>1. N \in Nat /\ DOMAIN vtx[b] = 1 .. N
  BY Zenon, AfterDef
<1>2. PICK f \in [0 .. N -> Coins] :
          /\ f[0] = d
          /\ \A n \in 1 .. N : f[n] = UndoTx(f[n - 1], vtx[b][N + 1 - n], B[N + 1 - n])
          /\ Disconnect(d, b, B) = f[N]
  BY DisconnectDef
<1> DEFINE Q(n) == /\ (\A i \in 1 .. N : i > N - n => ~TouchesAt(b, i, o)) => f[n][o] = d[o]
                   /\ (\E i \in 1 .. N : i > N - n /\ TouchesAt(b, i, o))
                         => ((\A i \in 1 .. (N - n) : ~TouchesAt(b, i, o)) => f[n][o] = c[o])
           P == {n \in 0 .. N : Q(n)}
<1>3. 0 \in P
  <2>1. \A i \in 1 .. N : ~(i > N - 0)
    BY <1>1
  <2>2. QED BY <1>1, <1>2, <2>1
<1>4. ASSUME NEW n \in 1 .. N, n - 1 \in P PROVE Q(n)
  <2> DEFINE i0 == N + 1 - n
  <2>1. /\ i0 \in 1 .. N /\ i0 \in DOMAIN vtx[b] /\ n \in Nat /\ i0 - 1 = N - n /\ i0 > N - n
        /\ i0 - 1 \in 0 .. N
    BY <1>1
  <2>2. f[n] = UndoTx(f[n - 1], vtx[b][i0], B[i0])
    BY Zenon, <1>2
  <2>3. Q(n - 1)
    BY Zenon, <1>4
  <2>4. \A i \in 1 .. N : i > N - n <=> i = i0 \/ i > N - (n - 1)
    BY <1>1, SMTT(30)
  <2>5. \A i \in 1 .. (N - (n - 1)) : i = i0 \/ i \in 1 .. (N - n)
    BY <1>1
  <2> HIDE DEF i0
  <2>6. CASE TouchesAt(b, i0, o)
    <3>1. SUFFICES ASSUME \A i \in 1 .. (N - n) : ~TouchesAt(b, i, o) PROVE f[n][o] = c[o]
      BY Zenon, <2>1, <2>6
    <3>2. CASE o \in vtx[b][i0].vin
      <4>1. f[n][o] = B[i0][o]
        BY Zenon, <2>2, <3>2 DEF UndoTx
      <4>2. B[i0][o] = After(c, b)[i0 - 1][o]
        BY Zenon, <2>1, <3>2, BlockUndoType
      <4>3. \A i \in 1 .. (i0 - 1) : ~TouchesAt(b, i, o)
        BY Zenon, <2>1, <3>1
      <4>4. After(c, b)[i0 - 1][o] = c[o]
        BY <2>1, <4>3, AfterFacts
      <4>5. QED BY Zenon, <4>1, <4>2, <4>4
    <3>3. CASE o \notin vtx[b][i0].vin
      <4>1. o \in vtx[b][i0].vout
        BY Zenon, <2>6, <3>3 DEF TouchesAt
      <4>2. f[n][o] = Spent
        BY Zenon, <2>2, <3>3, <4>1 DEF UndoTx
      <4>3. QED BY Zenon, <2>1, <4>1, <4>2
    <3>4. QED BY Zenon, <3>2, <3>3
  <2>7. CASE ~TouchesAt(b, i0, o)
    <3>1. f[n][o] = f[n - 1][o]
      BY Zenon, <2>2, <2>7 DEF UndoTx, TouchesAt
    <3>2. QED BY <2>3, <2>4, <2>5, <2>7, <3>1, Zenon
  <2>8. QED BY Zenon, <2>6, <2>7
<1>5. 0 .. N \subseteq P
  <2>1. \A n \in 1 .. N : n \in 0 .. N
    BY <1>1
  <2>2. \A n \in 1 .. N : n - 1 \in P => n \in P
    <3> HIDE DEF Q
    <3>1. QED BY Zenon, <1>4, <2>1
  <2> HIDE DEF P
  <2>3. QED BY <1>1, <1>3, <2>2, ListInduction, ZenonT(30)
<1>6. Q(N) /\ f[N] \in Coins
  BY <1>1, <1>5
<1>7. \A i \in 1 .. N : i > N - N
  BY <1>1
<1>8. \A i \in 1 .. (N - N) : FALSE
  BY <1>1
<1>9. Touches(b, o) <=> \E i \in 1 .. N : TouchesAt(b, i, o)
  BY Zenon, <1>1 DEF Touches, TouchesAt
<1>10. QED BY Zenon, <1>2, <1>6, <1>7, <1>8, <1>9

\* b does something to o: the genesis block does nothing.
Changes(b, o) == pprev[b] # NoBlock /\ Touches(b, o)

\* RollFacts, the genesis block included.
LEMMA RollChanges ==
    ASSUME NEW c \in Coins, NEW d \in Coins, NEW b \in Block, NEW o \in OutPoint
    PROVE  /\ Changes(b, o) => Roll(c, b)[o] = Roll(d, b)[o]
           /\ ~Changes(b, o) => Roll(c, b)[o] = c[o]
<1>1. CASE pprev[b] = NoBlock
  BY Zenon, <1>1 DEF Roll, Changes
<1>2. CASE pprev[b] # NoBlock
  BY Zenon, <1>2, RollFacts DEF Changes
<1>3. QED BY Zenon, <1>1, <1>2

\* DisconnectFacts for a block with its undo data, and for the genesis block.
LEMMA UnrollChanges ==
    ASSUME UndoIsRight(undo), NEW b \in Block, pprev[b] # NoBlock => b \in DOMAIN undo,
           NEW d \in Coins
    PROVE  /\ Unroll(d, b) \in Coins
           /\ \A o \in OutPoint : /\ Changes(b, o) => Unroll(d, b)[o] = Utxo[pprev[b]][o]
                                  /\ ~Changes(b, o) => Unroll(d, b)[o] = d[o]
<1>1. CASE pprev[b] = NoBlock
  BY Zenon, <1>1 DEF Unroll, Changes
<1>2. CASE pprev[b] # NoBlock
  <2> DEFINE c == Utxo[pprev[b]]
  <2>1. c \in Coins
    BY Zenon, UtxoDef, TreeAssumption
  <2>2. Connectable(b) /\ undo[b] = BlockUndo(c, b)
    BY Zenon, <1>2 DEF UndoIsRight
  <2>3. \A i \in DOMAIN vtx[b] : \A o \in vtx[b][i].vout : c[o] = Spent
    BY Zenon, <1>2, <2>2, TxidAssumption
  <2>4. Unroll(d, b) = Disconnect(d, b, BlockUndo(c, b))
    BY Zenon, <1>2, <2>2 DEF Unroll
  <2> HIDE DEF c
  <2>5. Disconnect(d, b, BlockUndo(c, b)) \in Coins
    <3>1. PICK f \in [0 .. Len(vtx[b]) -> Coins] : Disconnect(d, b, BlockUndo(c, b)) = f[Len(vtx[b])]
      BY <2>1, DisconnectDef
    <3>2. Len(vtx[b]) \in 0 .. Len(vtx[b])
      BY <2>1, AfterDef
    <3>3. QED BY Zenon, <3>1, <3>2
  <2>6. \A o \in OutPoint : /\ Touches(b, o) => Disconnect(d, b, BlockUndo(c, b))[o] = c[o]
                            /\ ~Touches(b, o) => Disconnect(d, b, BlockUndo(c, b))[o] = d[o]
    BY <2>1, <2>3, DisconnectFacts
  <2>7. QED BY Zenon, <1>2, <2>4, <2>5, <2>6 DEF Changes, c
<1>3. QED BY Zenon, <1>1, <1>2

-----------------------------------------------------------------------------
(* Branches. *)

\* fork is on the chain up to b, or there is none.
Above(b, fork) == fork = NoBlock \/ fork \in Ancestors[b]

\* The last block of a branch, and the branch without it.
LEMMA BranchTop ==
    ASSUME NEW fork \in Block \cup {NoBlock}, NEW b \in Block, b # fork, Above(b, fork)
    PROVE  /\ Above(pprev[b], fork)
           /\ b \notin Ancestors[fork]
           /\ Branch(b, fork) = {b} \cup Branch(pprev[b], fork)
<1>1. Ancestors[b] = {b} \cup Ancestors[pprev[b]] /\ pprev[b] \in Block \cup {NoBlock}
  BY Zenon, AncestorsDef, TreeAssumption
<1>2. Above(pprev[b], fork)
  BY Zenon, <1>1 DEF Above
<1>3. b \notin Ancestors[fork]
  <2>1. CASE fork = NoBlock
    BY Zenon, <2>1, AncestorsDef
  <2>2. CASE fork # NoBlock
    <3>1. fork \in Block /\ fork \in Ancestors[pprev[b]]
      BY Zenon, <1>2, <2>2 DEF Above
    <3>2. pprev[b] \in Block
      BY Zenon, <1>1, <3>1, AncestorsDef
    <3>3. nHeight[fork] <= nHeight[pprev[b]] /\ nHeight[b] = nHeight[pprev[b]] + 1
      BY Zenon, <3>1, <3>2, AncestorsFacts, TreeAssumption
    <3>4. nHeight[fork] \in Nat /\ nHeight[pprev[b]] \in Nat /\ nHeight[b] \in Nat
      BY Zenon, <3>1, <3>2, TreeAssumption
    <3>5. ~(nHeight[b] <= nHeight[fork])
      BY <3>3, <3>4
    <3>6. QED BY Zenon, <3>1, <3>5, AncestorsFacts
  <2>3. QED BY Zenon, <2>1, <2>2
<1>4. QED BY Zenon, <1>1, <1>2, <1>3 DEF Branch

\* The branch of the fork itself has no blocks.
LEMMA BranchEmpty ==
    ASSUME NEW fork \in Block \cup {NoBlock}
    PROVE  Branch(fork, fork) = {}
BY Zenon DEF Branch

\* An induction from the fork up.
LEMMA BranchInduction ==
    ASSUME NEW fork \in Block \cup {NoBlock}, NEW P, fork \in P,
           \A b \in Block : b # fork /\ Above(b, fork) /\ pprev[b] \in P => b \in P
    PROVE  \A b \in Block \cup {NoBlock} : Above(b, fork) => b \in P
<1> DEFINE Q == {b \in Block \cup {NoBlock} : Above(b, fork) => b \in P}
<1>1. NoBlock \in Q
  BY Zenon, AncestorsDef DEF Above
<1>2. ASSUME NEW b \in Block, pprev[b] \in Q PROVE b \in Q
  <2>1. SUFFICES ASSUME Above(b, fork) PROVE b \in P
    BY Zenon
  <2>2. CASE b = fork
    BY Zenon, <2>2
  <2>3. CASE b # fork
    <3>1. Above(pprev[b], fork)
      BY Zenon, <2>1, <2>3, BranchTop
    <3>2. QED BY Zenon, <1>2, <2>1, <2>3, <3>1
  <2>4. QED BY Zenon, <2>2, <2>3
<1>3. Block \subseteq Q
  <2> HIDE DEF Q
  <2>1. QED BY <1>1, <1>2, BlocksAreTree, TreeInduction
<1>4. QED BY Zenon, <1>1, <1>3

\* An outpoint that no block of the branch changes has the coin of the fork.
LEMMA UtxoOnBranch ==
    ASSUME NEW fork \in Block \cup {NoBlock}, NEW b \in Block \cup {NoBlock}, Above(b, fork),
           NEW o \in OutPoint, \A a \in Branch(b, fork) : ~Changes(a, o)
    PROVE  Utxo[b][o] = Utxo[fork][o]
<1> DEFINE P == {x \in Block \cup {NoBlock} :
                    (\A a \in Branch(x, fork) : ~Changes(a, o)) => Utxo[x][o] = Utxo[fork][o]}
<1>1. fork \in P
  BY Zenon
<1>2. ASSUME NEW x \in Block, x # fork, Above(x, fork), pprev[x] \in P,
             \A a \in Branch(x, fork) : ~Changes(a, o)
      PROVE  Utxo[x][o] = Utxo[fork][o]
  <2>1. ~Changes(x, o) /\ \A a \in Branch(pprev[x], fork) : ~Changes(a, o)
    BY <1>2, BranchTop
  <2>2. Utxo[pprev[x]][o] = Utxo[fork][o]
    BY Zenon, <1>2, <2>1
  <2>3. Utxo[x] = Roll(Utxo[pprev[x]], x) /\ Utxo[pprev[x]] \in Coins
    BY UtxoDef, TreeAssumption, Zenon
  <2>4. QED BY <2>1, <2>2, <2>3, RollChanges, SMTT(30)
<1>3. \A x \in Block : x # fork /\ Above(x, fork) /\ pprev[x] \in P => x \in P
  BY Zenon, <1>2
<1>4. b \in P
  <2> HIDE DEF P
  <2>1. QED BY Zenon, <1>1, <1>3, BranchInduction
<1>5. QED BY Zenon, <1>4

-----------------------------------------------------------------------------
(* The two loops of ReplayBlocks. *)

\* The first loop from b down to the fork: it undoes b and goes on from the parent.
LEMMA RollbackDef ==
    ASSUME UndoIsRight(undo), NEW old \in Block \cup {NoBlock}, NEW fork \in Block \cup {NoBlock},
           \A b \in Branch(old, fork) : pprev[b] # NoBlock => b \in DOMAIN undo
    PROVE  \E F : /\ \A b \in Block \cup {NoBlock}, d \in Coins :
                         F[b][d] = IF b \in Branch(old, fork) THEN F[pprev[b]][Unroll(d, b)] ELSE d
                  /\ \A c : Rollback(c, old, fork) = F[old][c]
<1> DEFINE D == Block \cup {NoBlock}
           Br == Branch(old, fork)
           CC == [Coins -> Coins]
           id == [d \in Coins |-> d]
           St(b, s) == [d \in Coins |-> IF b \in Br THEN s[Unroll(d, b)] ELSE d]
           step == [x \in Block \X CC |-> St(x[1], x[2])]
           IsR(f) == f = [b \in D |-> St(b, f[pprev[b]])]
           F == CHOOSE f : IsR(f)
<1>1. \A c : Rollback(c, old, fork) = F[old][c]
  BY Zenon DEF Rollback
<1>2. Br \subseteq Block
  BY Zenon, AncestorsDef DEF Branch
<1>3. ASSUME NEW b \in Block, NEW s \in CC PROVE St(b, s) \in CC
  <2>1. ASSUME NEW d \in Coins PROVE (IF b \in Br THEN s[Unroll(d, b)] ELSE d) \in Coins
    <3>1. CASE b \in Br
      <4>1. Unroll(d, b) \in Coins
        BY Zenon, <3>1, UnrollChanges
      <4>2. QED BY Zenon, <3>1, <4>1
    <3>2. CASE b \notin Br
      BY Zenon, <3>2
    <3>3. QED BY Zenon, <3>1, <3>2
  <2>2. QED BY Zenon, <2>1
<1>4. \A s : St(NoBlock, s) = id
  BY Zenon, <1>2, TreeAssumption
<1>5. id \in CC
  BY Zenon
<1> HIDE DEF St, CC, id
<1>6. IsStep(Block, CC, id, step)
  BY Zenon, <1>3, <1>5 DEF IsStep
<1>7. PICK f : IsDefinedBy(Block, NoBlock, pprev, CC, id, step, f)
  <2> HIDE DEF step
  <2>1. QED BY Zenon, <1>6, BlocksAreTree, TreeRecursionExists
<1>8. IsR(f)
  <2>1. /\ f \in [D -> CC]
        /\ f = [b \in D |-> IF b = NoBlock THEN id ELSE step[<<b, f[pprev[b]]>>]]
    BY Zenon, <1>7 DEF IsDefinedBy
  <2>2. \A b \in Block : step[<<b, f[pprev[b]]>>] = St(b, f[pprev[b]])
    BY Zenon, <2>1, TreeAssumption
  <2> HIDE DEF step
  <2>3. \A b \in D : f[b] = St(b, f[pprev[b]])
    BY Zenon, <1>4, <2>1, <2>2
  <2>4. QED BY Zenon, <2>1, <2>3
<1>9. IsR(F)
  <2> HIDE DEF IsR
  <2>1. QED BY Zenon, <1>8
<1> HIDE DEF F
<1>10. \A b \in D : F[b] = St(b, F[pprev[b]])
  BY Zenon, <1>9
<1>11. \A b \in D, d \in Coins : F[b][d] = IF b \in Br THEN F[pprev[b]][Unroll(d, b)] ELSE d
  <2>1. \A b, s : \A d \in Coins : St(b, s)[d] = IF b \in Br THEN s[Unroll(d, b)] ELSE d
    BY Zenon DEF St
  <2>2. QED BY <1>10, <2>1
<1>12. QED BY Zenon, <1>1, <1>11

\* The first loop gives what the old branch changes the coin of the fork, and
\* leaves the rest.
LEMMA RollbackFacts ==
    ASSUME UndoIsRight(undo), NEW old \in Block \cup {NoBlock}, NEW fork \in Block \cup {NoBlock},
           Above(old, fork),
           \A b \in Branch(old, fork) : pprev[b] # NoBlock => b \in DOMAIN undo,
           NEW c \in Coins
    PROVE  /\ Rollback(c, old, fork) \in Coins
           /\ \A o \in OutPoint :
                 /\ (\E a \in Branch(old, fork) : Changes(a, o))
                       => Rollback(c, old, fork)[o] = Utxo[fork][o]
                 /\ (\A a \in Branch(old, fork) : ~Changes(a, o))
                       => Rollback(c, old, fork)[o] = c[o]
<1> DEFINE D == Block \cup {NoBlock}
           Br == Branch(old, fork)
<1>1. PICK F : /\ \A b \in D, d \in Coins :
                      F[b][d] = IF b \in Br THEN F[pprev[b]][Unroll(d, b)] ELSE d
               /\ \A e : Rollback(e, old, fork) = F[old][e]
  BY RollbackDef
<1> DEFINE Q(b, d) ==
               /\ F[b][d] \in Coins
               /\ \A o \in OutPoint :
                     /\ (\E a \in Branch(b, fork) : Changes(a, o)) => F[b][d][o] = Utxo[fork][o]
                     /\ (\A a \in Branch(b, fork) : ~Changes(a, o)) => F[b][d][o] = d[o]
           P == {b \in D : Ancestors[b] \subseteq Ancestors[old] => \A d \in Coins : Q(b, d)}
<1>2. Br \subseteq Block /\ fork \notin Br
  BY AncestorsDef, AncestorsFacts, TreeAssumption, Zenon DEF Branch
<1>3. fork \in P
  <2>1. \A d \in Coins : F[fork][d] = d
    BY <1>1, <1>2, Zenon
  <2>2. QED BY Zenon, <2>1, BranchEmpty
<1>4. ASSUME NEW b \in Block, b # fork, Above(b, fork), pprev[b] \in P,
             Ancestors[b] \subseteq Ancestors[old], NEW d \in Coins
      PROVE  Q(b, d)
  <2> DEFINE p == pprev[b]
             e == Unroll(d, b)
  <2>1. /\ Above(p, fork) /\ Branch(b, fork) = {b} \cup Branch(p, fork) /\ b \in Br
        /\ p \in D
    <3>1. Above(p, fork) /\ b \notin Ancestors[fork] /\ Branch(b, fork) = {b} \cup Branch(p, fork)
      BY <1>4, BranchTop, Zenon
    <3>2. b \in Ancestors[b]
      BY Zenon, AncestorsFacts
    <3>3. QED BY <1>4, <3>1, <3>2, TreeAssumption, Zenon DEF Branch
  <2>2. /\ e \in Coins
        /\ \A o \in OutPoint : /\ Changes(b, o) => e[o] = Utxo[p][o]
                               /\ ~Changes(b, o) => e[o] = d[o]
    BY <2>1, UnrollChanges, Zenon
  <2>3. F[b][d] = F[p][e]
    BY <1>1, <2>1, Zenon
  <2>4. Ancestors[p] \subseteq Ancestors[old]
    BY <1>4, AncestorsDef, Zenon
  <2>5. Q(p, e)
    BY <1>4, <2>2, <2>4, Zenon
  <2> HIDE DEF p, e
  <2>6. ASSUME NEW o \in OutPoint, \E a \in Branch(b, fork) : Changes(a, o)
        PROVE  F[b][d][o] = Utxo[fork][o]
    <3>1. CASE \E a \in Branch(p, fork) : Changes(a, o)
      BY <2>3, <2>5, <3>1, Zenon
    <3>2. CASE \A a \in Branch(p, fork) : ~Changes(a, o)
      <4>1. Changes(b, o)
        BY Zenon, <2>1, <2>6, <3>2
      <4>2. F[p][e][o] = e[o] /\ e[o] = Utxo[p][o]
        BY <2>2, <2>5, <3>2, <4>1, Zenon
      <4>3. Utxo[p][o] = Utxo[fork][o]
        BY <2>1, <3>2, UtxoOnBranch, Zenon
      <4>4. QED BY Zenon, <2>3, <4>2, <4>3
    <3>3. QED BY Zenon, <3>1, <3>2
  <2>7. ASSUME NEW o \in OutPoint, \A a \in Branch(b, fork) : ~Changes(a, o)
        PROVE  F[b][d][o] = d[o]
    BY <2>1, <2>2, <2>3, <2>5, <2>7, Zenon
  <2>8. F[b][d] \in Coins
    BY <2>3, <2>5, Zenon
  <2>9. QED BY <2>6, <2>7, <2>8, Zenon
<1>5. \A b \in Block : b # fork /\ Above(b, fork) /\ pprev[b] \in P => b \in P
  <2> HIDE DEF Q
  <2>1. QED BY Zenon, <1>4
<1>6. old \in P
  <2> HIDE DEF P
  <2>1. QED BY <1>3, <1>5, BranchInduction, Zenon
<1>7. Q(old, c)
  BY Zenon, <1>6
<1>8. QED BY <1>1, <1>7, Zenon

\* The second loop gives what the new branch changes the coin of the new tip, and
\* leaves the rest.
LEMMA RollforwardFacts ==
    ASSUME NEW new \in Block \cup {NoBlock}, NEW fork \in Block \cup {NoBlock}, Above(new, fork),
           NEW c \in Coins
    PROVE  /\ Rollforward(c, new, fork) \in Coins
           /\ \A o \in OutPoint :
                 /\ (\E a \in Branch(new, fork) : Changes(a, o))
                       => Rollforward(c, new, fork)[o] = Utxo[new][o]
                 /\ (\A a \in Branch(new, fork) : ~Changes(a, o))
                       => Rollforward(c, new, fork)[o] = c[o]
<1> DEFINE D == Block \cup {NoBlock}
           Br == Branch(new, fork)
           St(b, d) == IF b \in Br THEN Roll(d, b) ELSE c
           step == [x \in Block \X Coins |-> St(x[1], x[2])]
           IsR(f) == f = [b \in D |-> St(b, f[pprev[b]])]
           F == CHOOSE f : IsR(f)
<1>1. Rollforward(c, new, fork) = F[new]
  BY Zenon DEF Rollforward
<1>2. Br \subseteq Block /\ fork \notin Br /\ NoBlock \notin Br
  BY Zenon, AncestorsDef, AncestorsFacts, TreeAssumption DEF Branch
<1>3. \A b \in Block, d \in Coins : St(b, d) \in Coins
  BY Zenon, RollType
<1>4. \A d : St(NoBlock, d) = c /\ St(fork, d) = c
  BY Zenon, <1>2
<1>5. \A b \in Br, d \in Coins : St(b, d) = Roll(d, b)
  BY Zenon
<1> HIDE DEF St
<1>6. IsStep(Block, Coins, c, step)
  BY Zenon, <1>3 DEF IsStep
<1>7. PICK f : IsDefinedBy(Block, NoBlock, pprev, Coins, c, step, f)
  <2> HIDE DEF step
  <2>1. QED BY <1>6, BlocksAreTree, TreeRecursionExists, Zenon
<1>8. IsR(f)
  <2>1. /\ f \in [D -> Coins]
        /\ f = [b \in D |-> IF b = NoBlock THEN c ELSE step[<<b, f[pprev[b]]>>]]
    BY Zenon, <1>7 DEF IsDefinedBy
  <2>2. \A b \in Block : step[<<b, f[pprev[b]]>>] = St(b, f[pprev[b]])
    BY Zenon, <2>1, TreeAssumption
  <2> HIDE DEF step
  <2>3. \A b \in D : f[b] = St(b, f[pprev[b]])
    BY Zenon, <1>4, <2>1, <2>2
  <2>4. QED BY Zenon, <2>1, <2>3
<1>9. IsR(F)
  <2> HIDE DEF IsR
  <2>1. QED BY Zenon, <1>8
<1> HIDE DEF F
<1>10. \A b \in D : F[b] = St(b, F[pprev[b]])
  BY Zenon, <1>9
<1> DEFINE Q(b) ==
               /\ F[b] \in Coins
               /\ \A o \in OutPoint :
                     /\ (\E a \in Branch(b, fork) : Changes(a, o)) => F[b][o] = Utxo[b][o]
                     /\ (\A a \in Branch(b, fork) : ~Changes(a, o)) => F[b][o] = c[o]
           P == {b \in D : Ancestors[b] \subseteq Ancestors[new] => Q(b)}
<1>11. fork \in P
  <2>1. F[fork] = c
    BY <1>4, <1>10, Zenon
  <2>2. QED BY Zenon, <2>1, BranchEmpty
<1>12. ASSUME NEW b \in Block, b # fork, Above(b, fork), pprev[b] \in P,
              Ancestors[b] \subseteq Ancestors[new]
       PROVE  Q(b)
  <2> DEFINE p == pprev[b]
  <2>1. /\ Above(p, fork) /\ Branch(b, fork) = {b} \cup Branch(p, fork) /\ b \in Br
        /\ p \in D
    <3>1. Above(p, fork) /\ b \notin Ancestors[fork] /\ Branch(b, fork) = {b} \cup Branch(p, fork)
      BY Zenon, <1>12, BranchTop
    <3>2. b \in Ancestors[b]
      BY AncestorsFacts, Zenon
    <3>3. QED BY <1>12, <3>1, <3>2, TreeAssumption, Zenon DEF Branch
  <2>2. Ancestors[p] \subseteq Ancestors[new]
    BY <1>12, AncestorsDef, Zenon
  <2>3. Q(p)
    BY Zenon, <1>12, <2>2
  <2>4. F[b] = Roll(F[p], b) /\ F[b] \in Coins
    <3>1. F[p] \in Coins
      BY Zenon, <2>3
    <3>2. F[b] = Roll(F[p], b)
      BY <1>5, <1>10, <2>1, <3>1, Zenon
    <3>3. QED BY <3>1, <3>2, RollType, Zenon
  <2>5. Utxo[b] = Roll(Utxo[p], b) /\ Utxo[p] \in Coins
    BY <2>1, UtxoDef, Zenon
  <2>6. \A o \in OutPoint : /\ Changes(b, o) => F[b][o] = Utxo[b][o]
                            /\ ~Changes(b, o) => F[b][o] = F[p][o] /\ Utxo[b][o] = Utxo[p][o]
    BY <2>3, <2>4, <2>5, RollChanges, SMTT(30)
  <2> HIDE DEF p
  <2>7. ASSUME NEW o \in OutPoint, \E a \in Branch(b, fork) : Changes(a, o)
        PROVE  F[b][o] = Utxo[b][o]
    BY <2>1, <2>3, <2>6, <2>7, Zenon
  <2>8. ASSUME NEW o \in OutPoint, \A a \in Branch(b, fork) : ~Changes(a, o)
        PROVE  F[b][o] = c[o]
    BY Zenon, <2>1, <2>3, <2>6, <2>8
  <2>9. QED BY <2>4, <2>7, <2>8, Zenon
<1>13. \A b \in Block : b # fork /\ Above(b, fork) /\ pprev[b] \in P => b \in P
  <2> HIDE DEF Q
  <2>1. QED BY Zenon, <1>12
<1>14. new \in P
  <2> HIDE DEF P
  <2>1. QED BY Zenon, <1>11, <1>13, BranchInduction
<1>15. QED BY Zenon, <1>1, <1>14

\* Two chains meet: pindexFork is on both.
LEMMA ForkFacts ==
    ASSUME NEW a \in Block \cup {NoBlock}, NEW b \in Block
    PROVE  /\ LastCommonAncestor(a, b) \in Block \cup {NoBlock}
           /\ Above(a, LastCommonAncestor(a, b)) /\ Above(b, LastCommonAncestor(a, b))
           /\ a # NoBlock => LastCommonAncestor(a, b) # NoBlock
<1> DEFINE common == Ancestors[a] \cap Ancestors[b]
           T == {nHeight[b] - nHeight[x] : x \in common}
<1>1. common \subseteq Block
  BY Zenon, AncestorsDef
<1>2. CASE common = {}
  <2>1. a = NoBlock
    <3>1. SUFFICES ASSUME a \in Block PROVE FALSE
      BY Zenon
    <3>2. PICK x \in Ancestors[a] : x \in Block /\ pprev[x] = NoBlock
      BY Zenon, <3>1, AncestorsFacts
    <3>3. PICK y \in Ancestors[b] : y \in Block /\ pprev[y] = NoBlock
      BY Zenon, AncestorsFacts
    <3>4. x = y
      BY Zenon, <3>2, <3>3, TreeAssumption
    <3>5. QED BY Zenon, <1>2, <3>2, <3>3, <3>4
  <2>2. LastCommonAncestor(a, b) = NoBlock
    BY Zenon, <1>2 DEF LastCommonAncestor
  <2>3. QED BY Zenon, <2>1, <2>2 DEF Above
<1>3. CASE common # {}
  <2>1. \A x \in common : nHeight[x] \in Nat /\ nHeight[b] \in Nat /\ nHeight[x] <= nHeight[b]
    BY Zenon, <1>1, AncestorsFacts, TreeAssumption
  <2>2. T \in SUBSET Nat /\ T # {}
    BY <1>3, <2>1
  <2>3. PICK n \in T : \A m \in T : n <= m
    <3> HIDE DEF T
    <3>1. QED BY Zenon, <2>2, SmallestNumber
  <2>4. PICK x \in common : n = nHeight[b] - nHeight[x]
    BY Zenon, <2>3
  <2>5. \A y \in common : nHeight[y] <= nHeight[x]
    <3>1. TAKE y \in common
    <3>2. nHeight[b] - nHeight[x] <= nHeight[b] - nHeight[y]
      BY Zenon, <2>3, <2>4
    <3>3. QED BY <2>1, <3>2
  <2>6. LastCommonAncestor(a, b) = CHOOSE z \in common : \A y \in common : nHeight[y] <= nHeight[z]
    BY Zenon, <1>3 DEF LastCommonAncestor
  <2> HIDE DEF common
  <2>7. LastCommonAncestor(a, b) \in common
    BY <2>5, <2>6, Zenon
  <2>8. QED BY Zenon, <1>1, <2>7, TreeAssumption DEF Above, common
<1>4. QED BY Zenon, <1>2, <1>3

\* Whatever part of a flush from old to new has been written, ReplayBlocks gives
\* the coins of new.
THEOREM ReplayIsRight ==
    ASSUME UndoIsRight(undo), NEW old \in Block \cup {NoBlock}, NEW new \in Block \cup {NoBlock},
           NEW fork \in Block \cup {NoBlock}, Above(old, fork), Above(new, fork),
           \A b \in Branch(old, fork) : pprev[b] # NoBlock => b \in DOMAIN undo,
           NEW c \in Coins, \A o \in OutPoint : c[o] \in {Utxo[new][o], Utxo[old][o]}
    PROVE  Rollforward(Rollback(c, old, fork), new, fork) = Utxo[new]
<1> DEFINE R == Rollback(c, old, fork)
           F == Rollforward(R, new, fork)
<1>1. /\ R \in Coins
      /\ \A o \in OutPoint :
            /\ (\E a \in Branch(old, fork) : Changes(a, o)) => R[o] = Utxo[fork][o]
            /\ (\A a \in Branch(old, fork) : ~Changes(a, o)) => R[o] = c[o]
  BY RollbackFacts, Zenon
<1> HIDE DEF R
<1>2. /\ F \in Coins
      /\ \A o \in OutPoint :
            /\ (\E a \in Branch(new, fork) : Changes(a, o)) => F[o] = Utxo[new][o]
            /\ (\A a \in Branch(new, fork) : ~Changes(a, o)) => F[o] = R[o]
  BY <1>1, RollforwardFacts, Zenon
<1>3. ASSUME NEW o \in OutPoint PROVE F[o] = Utxo[new][o]
  <2>1. CASE \E a \in Branch(new, fork) : Changes(a, o)
    BY <1>2, <2>1, Zenon
  <2>2. CASE \A a \in Branch(new, fork) : ~Changes(a, o)
    <3>1. F[o] = R[o] /\ Utxo[new][o] = Utxo[fork][o]
      BY <1>2, <2>2, UtxoOnBranch, Zenon
    <3>2. CASE \E a \in Branch(old, fork) : Changes(a, o)
      BY <1>1, <3>1, <3>2, Zenon
    <3>3. CASE \A a \in Branch(old, fork) : ~Changes(a, o)
      <4>1. R[o] = c[o] /\ Utxo[old][o] = Utxo[fork][o]
        BY Zenon, <1>1, <3>3, UtxoOnBranch
      <4>2. QED BY <3>1, <4>1, Zenon
    <3>4. QED BY <3>2, <3>3, Zenon
  <2>3. QED BY <2>1, <2>2, Zenon
<1>4. Utxo[new] \in Coins
  BY Zenon, UtxoDef
<1> HIDE DEF F
<1>5. F = Utxo[new]
  BY <1>2, <1>3, <1>4 DEF Coins
<1>6. QED BY <1>5, Zenon DEF F, R

-----------------------------------------------------------------------------
(* The inductive invariant. *)

\* The chain up to b is in the index, with its undo data.
Known(b, blocks, undoData) ==
    \A a \in Ancestors[b] : a \in blocks /\ (pprev[a] # NoBlock => a \in DOMAIN undoData)

\* What the disk holds the memory holds, and both are right.
IndexIsRight ==
    /\ UndoIsRight(undo) /\ UndoIsRight(undoDisk)
    /\ indexDisk \subseteq index /\ DOMAIN undoDisk \subseteq DOMAIN undo

\* What the chainstate refers to is in the block index.
TipsAreKnown ==
    /\ Known(tip, index, undo)
    /\ Known(best, indexDisk, undoDisk)
    /\ heads # <<>> => Known(heads[1], indexDisk, undoDisk) /\ Known(heads[2], indexDisk, undoDisk)
    /\ status = "flush" => Known(tip, indexDisk, undoDisk)

\* DB_HEAD_BLOCKS is there from the first partial batch to the final one.
HeadsAreRight ==
    /\ heads # <<>> => status \in {"flush", "down"} /\ best = NoBlock /\ heads[1] # NoBlock
    /\ status = "flush" => tip # NoBlock /\ (heads # <<>> => heads[1] = tip)
    /\ status = "down" => index = indexDisk /\ undo = undoDisk /\ tip = NoBlock
    /\ status # "failed"

\* The coins in memory and those on disk.
CoinsAreRight ==
    /\ status \in {"up", "flush"} => view = Utxo[tip]
    /\ heads = <<>> => coins = Utxo[best]
    /\ heads # <<>> => \A o \in OutPoint : coins[o] \in {Utxo[heads[1]][o], Utxo[heads[2]][o]}

IInv == TypeOK /\ IndexIsRight /\ TipsAreKnown /\ HeadsAreRight /\ CoinsAreRight

-----------------------------------------------------------------------------
(* The actions of the running node. *)

\* What is known stays known when the index grows.
LEMMA KnownGrows ==
    ASSUME NEW b, NEW I, NEW U, Known(b, I, U), NEW J, I \subseteq J,
           NEW V, DOMAIN U \subseteq DOMAIN V
    PROVE  Known(b, J, V)
BY Zenon DEF Known

\* The null hash is known, and a block that is known is in the index.
LEMMA KnownFacts ==
    ASSUME NEW b \in Block \cup {NoBlock}, NEW I, NEW U
    PROVE  /\ Known(NoBlock, I, U)
           /\ Known(b, I, U) => b \in I \cup {NoBlock}
BY Zenon, AncestorsDef, AncestorsFacts DEF Known

\* A chain with its undo data has been connected.
LEMMA KnownIsConnectable ==
    ASSUME NEW b \in Block \cup {NoBlock}, NEW I, NEW U, Known(b, I, U), UndoIsRight(U)
    PROVE  Connectable(b)
<1>1. CASE b = NoBlock
  BY <1>1, AncestorsDef, Zenon DEF Connectable
<1>2. CASE b \in Block /\ pprev[b] = NoBlock
  BY <1>2, AncestorsDef DEF Connectable
<1>3. CASE b \in Block /\ pprev[b] # NoBlock
  BY Zenon, <1>3, AncestorsFacts DEF Known, UndoIsRight
<1>4. QED BY Zenon, <1>1, <1>2, <1>3

\* AcceptBlock adds to the index in memory.
LEMMA AcceptBlockStep ==
    ASSUME IInv, NEW b \in Block, AcceptBlock(b)
    PROVE  IInv'
<1>1. /\ index \subseteq index' /\ index' \in SUBSET Block /\ status = "up"
      /\ UNCHANGED <<coins, best, heads, indexDisk, undoDisk, undo, tip, view, status, crashes>>
  BY Zenon DEF AcceptBlock, IInv, TypeOK
<1>2. TypeOK'
  BY <1>1, Zenon DEF IInv, TypeOK
<1>3. IndexIsRight'
  BY <1>1, Zenon DEF IInv, IndexIsRight, UndoIsRight
<1>4. TipsAreKnown'
  BY Zenon, <1>1 DEF IInv, TipsAreKnown, Known
<1>5. HeadsAreRight' /\ CoinsAreRight'
  BY <1>1, Zenon DEF IInv, HeadsAreRight, CoinsAreRight
<1>6. QED BY <1>2, <1>3, <1>4, <1>5, Zenon DEF IInv

\* ConnectTip: the undo data it writes is right, and stays right.
LEMMA ConnectTipStep ==
    ASSUME IInv, NEW b \in Block, ConnectTip(b)
    PROVE  IInv'
<1>1. /\ status = "up" /\ b \in index /\ pprev[b] = tip /\ tip' = b
      /\ pprev[b] # NoBlock => HaveInputs(view, b)
      /\ view' = Roll(view, b)
      /\ UNCHANGED <<coins, best, heads, indexDisk, undoDisk, index, status, crashes>>
  BY Zenon DEF ConnectTip
<1>2. view = Utxo[tip] /\ heads = <<>>
  BY <1>1, Zenon DEF IInv, CoinsAreRight, HeadsAreRight
<1>3. Connectable(b)
  <2>1. Connectable(tip)
    BY KnownIsConnectable, Zenon DEF IInv, TypeOK, TipsAreKnown, IndexIsRight
  <2>2. Ancestors[b] = {b} \cup Ancestors[tip]
    BY Zenon, <1>1, AncestorsDef
  <2>3. QED BY <1>1, <1>2, <2>1, <2>2, Zenon DEF Connectable
<1>4. /\ UndoIsRight(undo') /\ DOMAIN undo \subseteq DOMAIN undo' /\ DOMAIN undo' \subseteq index
      /\ pprev[b] # NoBlock => b \in DOMAIN undo'
  <2>1. UndoIsRight(undo) /\ DOMAIN undo \subseteq index
    BY Zenon DEF IInv, IndexIsRight, TypeOK
  <2>2. CASE b \in DOMAIN undo \/ pprev[b] = NoBlock
    <3>1. undo' = undo
      BY <2>2, Zenon DEF ConnectTip
    <3>2. QED BY Zenon, <2>1, <2>2, <3>1
  <2>3. CASE ~(b \in DOMAIN undo \/ pprev[b] = NoBlock)
    <3>1. undo' = [a \in DOMAIN undo \cup {b} |-> IF a = b THEN BlockUndo(view, b) ELSE undo[a]]
      BY Zenon, <2>3 DEF ConnectTip
    <3>2. DOMAIN undo' = DOMAIN undo \cup {b} /\ undo'[b] = BlockUndo(view, b)
          /\ \A a \in DOMAIN undo : a # b => undo'[a] = undo[a]
      BY <3>1, Zenon
    <3>3. QED BY <1>1, <1>2, <1>3, <2>1, <2>3, <3>2, Zenon DEF UndoIsRight
  <2>4. QED BY Zenon, <2>2, <2>3
<1>5. view' = Utxo[tip'] /\ view' \in Coins
  BY <1>1, <1>2, UtxoDef, Zenon
<1>6. TypeOK'
  BY <1>1, <1>4, <1>5, Zenon DEF IInv, TypeOK
<1>7. IndexIsRight'
  <2>1. UndoIsRight(undo)' /\ UndoIsRight(undoDisk)'
    BY <1>1, <1>4, Zenon DEF IInv, IndexIsRight, UndoIsRight
  <2>2. QED BY <1>1, <1>4, <2>1, Zenon DEF IInv, IndexIsRight
<1>8. TipsAreKnown'
  <2>1. Known(tip, index, undo)'
    <3>1. Known(tip, index, undo) /\ Ancestors[b] = {b} \cup Ancestors[tip]
      BY <1>1, AncestorsDef, Zenon DEF IInv, TipsAreKnown
    <3>2. QED BY <1>1, <1>4, <3>1, Zenon DEF Known
  <2>2. QED BY <1>1, <2>1, Zenon DEF IInv, TipsAreKnown, Known
<1>9. HeadsAreRight' /\ CoinsAreRight'
  BY Zenon, <1>1, <1>2, <1>5 DEF IInv, HeadsAreRight, CoinsAreRight
<1>10. QED BY Zenon, <1>6, <1>7, <1>8, <1>9 DEF IInv

\* DisconnectTip: the undo data gives the coins before the block.
LEMMA DisconnectTipStep ==
    ASSUME IInv, DisconnectTip
    PROVE  IInv'
<1> DEFINE p == pprev[tip]
<1>1. /\ status = "up" /\ tip \in Block /\ p # NoBlock /\ tip \in DOMAIN undo
      /\ view' = Unroll(view, tip) /\ tip' = p
      /\ UNCHANGED <<coins, best, heads, indexDisk, undoDisk, index, undo, status, crashes>>
  BY Zenon DEF DisconnectTip, Unroll, IInv, TypeOK
<1>2. view = Utxo[tip] /\ heads = <<>>
  BY Zenon, <1>1 DEF IInv, CoinsAreRight, HeadsAreRight
<1>3. p \in Block /\ Utxo[p] \in Coins /\ Utxo[tip] \in Coins /\ Utxo[tip] = Roll(Utxo[p], tip)
  BY <1>1, UtxoDef, TreeAssumption, Zenon
<1>4. Unroll(view, tip) \in Coins
      /\ \A o \in OutPoint : /\ Changes(tip, o) => Unroll(view, tip)[o] = Utxo[p][o]
                             /\ ~Changes(tip, o) => Unroll(view, tip)[o] = Utxo[tip][o]
  BY <1>1, <1>2, <1>3, UnrollChanges, Zenon DEF IInv, IndexIsRight
<1>5. \A o \in OutPoint : ~Changes(tip, o) => Utxo[tip][o] = Utxo[p][o]
  BY <1>1, <1>3, RollChanges, SMTT(30)
<1>6. view' = Utxo[p] /\ view' \in Coins
  BY <1>1, <1>3, <1>4, <1>5, SMTT(30) DEF Coins
<1>7. TypeOK'
  BY <1>1, <1>3, <1>6, Zenon DEF IInv, TypeOK
<1>8. IndexIsRight'
  BY <1>1, Zenon DEF IInv, IndexIsRight, UndoIsRight
<1>9. TipsAreKnown'
  <2>1. Known(tip, index, undo) /\ Ancestors[tip] = {tip} \cup Ancestors[p]
    BY <1>1, AncestorsDef, Zenon DEF IInv, TipsAreKnown
  <2>2. Known(tip, index, undo)'
    BY <1>1, <2>1, Zenon DEF Known
  <2>3. QED BY <1>1, <2>2, Zenon DEF IInv, TipsAreKnown, Known
<1>10. HeadsAreRight' /\ CoinsAreRight'
  BY Zenon, <1>1, <1>2, <1>6 DEF IInv, HeadsAreRight, CoinsAreRight
<1>11. QED BY <1>7, <1>8, <1>9, <1>10, Zenon DEF IInv

\* FlushStateToDisk writes the block index, whether or not the coins follow.
LEMMA WriteIndexStep ==
    ASSUME IInv, WriteBlockIndex \/ FlushCoins
    PROVE  IInv'
<1>1. /\ status = "up" /\ indexDisk' = index /\ undoDisk' = undo
      /\ status' \in {"up", "flush"} /\ (status' = "flush" => tip # NoBlock)
      /\ UNCHANGED <<coins, best, heads, index, undo, tip, view, crashes>>
  BY Zenon DEF WriteBlockIndex, FlushCoins
<1>2. heads = <<>> /\ view = Utxo[tip]
  BY Zenon, <1>1 DEF IInv, HeadsAreRight, CoinsAreRight
<1>3. TypeOK'
  BY <1>1, Zenon DEF IInv, TypeOK
<1>4. IndexIsRight'
  BY <1>1, Zenon DEF IInv, IndexIsRight, UndoIsRight
<1>5. TipsAreKnown'
  <2>1. Known(best, index, undo)
    BY KnownGrows, Zenon DEF IInv, TipsAreKnown, IndexIsRight
  <2>2. QED BY Zenon, <1>1, <1>2, <2>1 DEF IInv, TipsAreKnown, Known
<1>6. HeadsAreRight' /\ CoinsAreRight'
  BY Zenon, <1>1, <1>2 DEF IInv, HeadsAreRight, CoinsAreRight
<1>7. QED BY Zenon, <1>3, <1>4, <1>5, <1>6 DEF IInv

-----------------------------------------------------------------------------
(* BatchWrite, the crash and the recovery. *)

\* A partial batch: the coins are those of the old tip or of the new one.
LEMMA WritePartialBatchStep ==
    ASSUME IInv, NEW S \in SUBSET OutPoint, WritePartialBatch(S)
    PROVE  IInv'
<1> DEFINE D == Block \cup {NoBlock}
<1>1. /\ status = "flush" /\ coins' = Written(S) /\ heads' = <<tip, OldTip>> /\ best' = NoBlock
      /\ UNCHANGED <<indexDisk, undoDisk, index, undo, tip, view, status, crashes>>
  BY Zenon DEF WritePartialBatch
<1>2. view = Utxo[tip] /\ tip \in D /\ tip # NoBlock /\ coins \in Coins /\ view \in Coins
  BY <1>1, Zenon DEF IInv, CoinsAreRight, HeadsAreRight, TypeOK
<1>3. /\ OldTip \in D
      /\ Known(OldTip, indexDisk, undoDisk) /\ Known(tip, indexDisk, undoDisk)
      /\ \A o \in OutPoint : coins[o] \in {Utxo[tip][o], Utxo[OldTip][o]}
  <2>1. CASE heads = <<>>
    <3>1. OldTip = best
      BY Zenon, <2>1 DEF OldTip
    <3>2. QED BY Zenon, <1>1, <2>1, <3>1 DEF IInv, TypeOK, TipsAreKnown, CoinsAreRight
  <2>2. CASE heads # <<>>
    <3>1. best = NoBlock /\ heads[1] = tip /\ OldTip = heads[2] /\ heads[2] \in D
      BY <1>1, <2>2, Zenon DEF IInv, HeadsAreRight, OldTip, TypeOK
    <3>2. QED BY <1>1, <2>2, <3>1, Zenon DEF IInv, TipsAreKnown, CoinsAreRight
  <2>3. QED BY <2>1, <2>2, Zenon
<1>4. /\ heads' \in D \X D /\ heads' # <<>> /\ heads'[1] = tip /\ heads'[2] = OldTip
  BY <1>1, <1>2, <1>3, Zenon
<1>5. coins' \in Coins /\ \A o \in OutPoint : coins'[o] \in {Utxo[tip][o], Utxo[OldTip][o]}
  BY <1>1, <1>2, <1>3, Zenon DEF Written, Coins
<1> HIDE DEF D
<1>6. TypeOK'
  BY <1>1, <1>4, <1>5, TreeAssumption, Zenon DEF IInv, TypeOK, D
<1>7. IndexIsRight'
  BY <1>1, ZenonT(30) DEF IInv, IndexIsRight, UndoIsRight
<1>8. TipsAreKnown'
  <2>1. Known(NoBlock, indexDisk, undoDisk)
    BY Zenon, KnownFacts
  <2>2. QED BY <1>1, <1>3, <1>4, <2>1, ZenonT(30) DEF IInv, TipsAreKnown, Known
<1>9. HeadsAreRight'
  BY <1>1, <1>2, <1>4, Zenon DEF IInv, HeadsAreRight
<1>10. CoinsAreRight'
  BY <1>1, <1>2, <1>4, <1>5, Zenon DEF CoinsAreRight
<1>11. QED BY <1>6, <1>7, <1>8, <1>9, <1>10, Zenon DEF IInv

\* The final batch: the database is that of the new tip.
LEMMA WriteFinalBatchStep ==
    ASSUME IInv, WriteFinalBatch
    PROVE  IInv'
<1>1. /\ status = "flush" /\ coins' = Written(OutPoint) /\ heads' = <<>> /\ best' = tip
      /\ status' = "up"
      /\ UNCHANGED <<indexDisk, undoDisk, index, undo, tip, view, crashes>>
  BY Zenon DEF WriteFinalBatch
<1>2. view = Utxo[tip] /\ view \in Coins
  BY <1>1, Zenon DEF IInv, CoinsAreRight, TypeOK
<1>3. coins' = view
  BY <1>1, <1>2, Zenon DEF Written, Coins
<1>4. TypeOK'
  BY <1>1, <1>2, <1>3, Zenon DEF IInv, TypeOK
<1>5. IndexIsRight'
  BY <1>1, Zenon DEF IInv, IndexIsRight, UndoIsRight
<1>6. TipsAreKnown'
  BY Zenon, <1>1 DEF IInv, TipsAreKnown, Known
<1>7. HeadsAreRight' /\ CoinsAreRight'
  BY <1>1, <1>2, <1>3, Zenon DEF HeadsAreRight, CoinsAreRight
<1>8. QED BY Zenon, <1>4, <1>5, <1>6, <1>7 DEF IInv

\* A crash leaves what is on disk.
LEMMA CrashStep ==
    ASSUME IInv, Crash
    PROVE  IInv'
<1>1. /\ status' = "down" /\ crashes' \in 0 .. MaxCrashes
      /\ index' = indexDisk /\ undo' = undoDisk /\ tip' = NoBlock /\ view' = NoCoins
      /\ UNCHANGED <<coins, best, heads, indexDisk, undoDisk>>
  BY MaxCrashesAssumption DEF Crash, IInv, TypeOK
<1>2. TypeOK'
  <2>1. NoCoins \in Coins
    BY Zenon DEF NoCoins, Coins
  <2>2. QED BY Zenon, <1>1, <2>1 DEF IInv, TypeOK
<1>3. IndexIsRight'
  BY <1>1, Zenon DEF IInv, IndexIsRight, UndoIsRight
<1>4. TipsAreKnown'
  <2>1. Known(NoBlock, indexDisk, undoDisk)
    BY KnownFacts, Zenon
  <2>2. QED BY Zenon, <1>1, <2>1 DEF IInv, TipsAreKnown, Known
<1>5. HeadsAreRight' /\ CoinsAreRight'
  BY <1>1, Zenon DEF IInv, HeadsAreRight, CoinsAreRight
<1>6. QED BY Zenon, <1>2, <1>3, <1>4, <1>5 DEF IInv

\* A database without DB_HEAD_BLOCKS has its best block in the index.
LEMMA LoadChainTipStep ==
    ASSUME IInv, LoadChainTip
    PROVE  IInv'
<1>1. /\ status = "down" /\ heads = <<>>
      /\ UNCHANGED <<coins, best, heads, indexDisk, undoDisk, index, undo, crashes>>
  BY Zenon DEF LoadChainTip
<1>2. index = indexDisk /\ undo = undoDisk /\ Known(best, index, undo) /\ best \in Block \cup {NoBlock}
  BY Zenon, <1>1 DEF IInv, HeadsAreRight, TipsAreKnown, TypeOK
<1>3. best \in index \cup {NoBlock}
  BY Zenon, <1>2, KnownFacts
<1>4. tip' = best /\ view' = coins /\ status' = "up"
  BY <1>3, Zenon DEF LoadChainTip
<1>5. TypeOK'
  BY <1>1, <1>2, <1>4, Zenon DEF IInv, TypeOK
<1>6. IndexIsRight'
  BY <1>1, Zenon DEF IInv, IndexIsRight, UndoIsRight
<1>7. TipsAreKnown'
  BY <1>1, <1>2, <1>4, Zenon DEF IInv, TipsAreKnown, Known
<1>8. HeadsAreRight' /\ CoinsAreRight'
  BY Zenon, <1>1, <1>4 DEF IInv, HeadsAreRight, CoinsAreRight
<1>9. QED BY Zenon, <1>5, <1>6, <1>7, <1>8 DEF IInv

\* ReplayBlocks finds the blocks and the undo data it asks for, and ends with the
\* coins of the new tip.
LEMMA ReplayBlocksStep ==
    ASSUME IInv, ReplayBlocks
    PROVE  IInv'
<1> DEFINE new == heads[1]
           old == heads[2]
           fork == LastCommonAncestor(old, new)
           replayed == Rollforward(Rollback(coins, old, fork), new, fork)
<1>1. /\ status = "down" /\ heads # <<>>
      /\ UNCHANGED <<coins, best, heads, indexDisk, undoDisk, index, undo, crashes>>
  BY Zenon DEF ReplayBlocks
<1>2. /\ new \in Block /\ old \in Block \cup {NoBlock} /\ best = NoBlock /\ coins \in Coins
      /\ index = indexDisk /\ undo = undoDisk
      /\ Known(new, index, undo) /\ Known(old, index, undo) /\ UndoIsRight(undo)
      /\ \A o \in OutPoint : coins[o] \in {Utxo[new][o], Utxo[old][o]}
  <2>1. new \in Block /\ old \in Block \cup {NoBlock} /\ best = NoBlock /\ coins \in Coins
    BY Zenon, <1>1 DEF IInv, HeadsAreRight, TypeOK
  <2>2. index = indexDisk /\ undo = undoDisk
    BY Zenon, <1>1 DEF IInv, HeadsAreRight
  <2>3. Known(new, index, undo) /\ Known(old, index, undo) /\ UndoIsRight(undo)
    BY <1>1, <2>2, Zenon DEF IInv, TipsAreKnown, IndexIsRight
  <2>4. QED BY <1>1, <2>1, <2>2, <2>3, Zenon DEF IInv, CoinsAreRight
<1>3. /\ fork \in Block \cup {NoBlock} /\ Above(old, fork) /\ Above(new, fork)
      /\ old # NoBlock => fork # NoBlock
  BY <1>2, ForkFacts, Zenon
<1>4. new \in index /\ old \in index \cup {NoBlock}
  BY <1>2, KnownFacts, TreeAssumption, SMTT(30)
<1>5. \A b \in Branch(old, fork) : pprev[b] # NoBlock => b \in DOMAIN undo
  BY <1>2, Zenon DEF Known, Branch
<1>6. view' = replayed /\ tip' = new /\ status' = "flush"
  BY <1>3, <1>4, <1>5, Zenon DEF ReplayBlocks
<1>7. replayed = Utxo[new]
  <2> HIDE DEF new, old, fork
  <2>1. QED BY <1>2, <1>3, <1>5, ReplayIsRight, Zenon
<1>8. view' = Utxo[new] /\ view' \in Coins
  BY <1>2, <1>6, <1>7, UtxoDef, SMTT(30)
<1> HIDE DEF replayed
<1>9. TypeOK'
  BY <1>1, <1>2, <1>6, <1>8, Zenon DEF IInv, TypeOK
<1>10. IndexIsRight'
  BY <1>1, ZenonT(30) DEF IInv, IndexIsRight, UndoIsRight
<1>11. TipsAreKnown'
  BY <1>1, <1>2, <1>6, Zenon DEF IInv, TipsAreKnown, Known
<1>12. HeadsAreRight'
  BY <1>1, <1>2, <1>6, TreeAssumption, Zenon DEF IInv, HeadsAreRight
<1>13. CoinsAreRight'
  BY Zenon, <1>1, <1>6, <1>8 DEF IInv, CoinsAreRight
<1>14. QED BY <1>9, <1>10, <1>11, <1>12, <1>13, Zenon DEF IInv

-----------------------------------------------------------------------------
(* The theorems. *)

\* A new node has no blocks, no coins and an empty database.
LEMMA InitLemma == Init => IInv
<1> SUFFICES ASSUME Init PROVE IInv
  BY Zenon
<1>1. NoCoins \in Coins /\ Utxo[NoBlock] = NoCoins /\ Ancestors[NoBlock] = {}
  BY Zenon, UtxoDef, AncestorsDef DEF NoCoins, Coins
<1>2. TypeOK
  BY <1>1, MaxCrashesAssumption, SMTT(30) DEF Init, TypeOK
<1>3. IndexIsRight
  BY DEF Init, IndexIsRight, UndoIsRight
<1>4. TipsAreKnown
  BY Zenon, <1>1 DEF Init, TipsAreKnown, Known
<1>5. HeadsAreRight /\ CoinsAreRight
  BY Zenon, <1>1 DEF Init, HeadsAreRight, CoinsAreRight
<1>6. QED BY Zenon, <1>2, <1>3, <1>4, <1>5 DEF IInv

\* Every step of the node, and every crash, keeps the invariant.
LEMMA NextLemma == IInv /\ [Next]_vars => IInv'
<1> SUFFICES ASSUME IInv, [Next]_vars PROVE IInv'
  BY Zenon
<1>1. ASSUME NEW S \in (SUBSET Differing) \ {{}}, WritePartialBatch(S) PROVE IInv'
  <2>1. S \in SUBSET OutPoint
    BY Zenon DEF Differing
  <2>2. QED BY Zenon, <1>1, <2>1, WritePartialBatchStep
<1>2. CASE UNCHANGED vars
  <2>1. UNCHANGED <<coins, best, heads, indexDisk, undoDisk, index, undo, tip, view, status, crashes>>
    BY <1>2, Zenon DEF vars
  <2>2. TypeOK' /\ HeadsAreRight' /\ CoinsAreRight'
    BY <2>1, Zenon DEF IInv, TypeOK, HeadsAreRight, CoinsAreRight
  <2>3. IndexIsRight'
    BY <2>1, ZenonT(30) DEF IInv, IndexIsRight, UndoIsRight
  <2>4. TipsAreKnown'
    BY Zenon, <2>1 DEF IInv, TipsAreKnown, Known
  <2>5. QED BY <2>2, <2>3, <2>4, Zenon DEF IInv
<1>3. QED
  BY <1>1, <1>2, AcceptBlockStep, ConnectTipStep, DisconnectTipStep, WriteIndexStep,
     WriteFinalBatchStep, CrashStep, LoadChainTipStep, ReplayBlocksStep, Zenon DEF Next

\* The inductive invariant holds in every reachable state.
LEMMA Invariance == Spec => []IInv
BY InitLemma, NextLemma, PTL DEF Spec

\* Every step keeps the variables in their types.
THEOREM TypeCorrect == Spec => []TypeOK
<1>1. IInv => TypeOK
  BY Zenon DEF IInv
<1>2. QED BY <1>1, Invariance, PTL

\* The running node's pcoinsTip is what its chain leaves unspent: reorganisations,
\* crashes within a flush, and crashes within the flush that ends ReplayBlocks,
\* leave no trace in it.
THEOREM CoinsAreThoseOfTheChain == Spec => []CoinsMatchChain
<1>1. IInv => CoinsMatchChain
  BY Zenon DEF IInv, CoinsAreRight, CoinsMatchChain
<1>2. QED BY <1>1, Invariance, PTL

\* BatchWrite leaves the database consistent, or marked by DB_HEAD_BLOCKS and with
\* each coin that of the old or of the new tip.
THEOREM DatabaseConsistent == Spec => []DatabaseIsConsistent
<1>1. IInv => DatabaseIsConsistent
  BY Zenon DEF IInv, CoinsAreRight, HeadsAreRight, DatabaseIsConsistent
<1>2. QED BY <1>1, Invariance, PTL

\* LoadChainTip and ReplayBlocks never end with an error, and BatchWrite's
\* assertion on DB_HEAD_BLOCKS holds.
THEOREM RecoverySucceeds == Spec => []RecoveryNeverFails
<1>1. IInv => RecoveryNeverFails
  BY Zenon DEF IInv, HeadsAreRight, RecoveryNeverFails
<1>2. QED BY <1>1, Invariance, PTL

=============================================================================
