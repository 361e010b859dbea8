--------------------------- MODULE BlockTreeProofs ---------------------------
(***************************************************************************)
(* The choice of the active chain, for every tree of blocks.               *)
(***************************************************************************)
EXTENDS BlockTree, TreeRecursion

-----------------------------------------------------------------------------
(* The tree. *)

\* The parent, with NoBlock for the null pointer in the genesis block.
Up == [b \in Block |-> IF b = Genesis THEN NoBlock ELSE pprev[b]]

\* A block is one higher than its parent.
LEMMA BlocksAreTree == IsTree(Block, NoBlock, Up, nHeight)
BY TreeAssumption DEF IsTree, Up

\* The chain that ends in a block is the block and the chain of its parent.
LEMMA ChainDef ==
    /\ Chain \in [Block -> SUBSET Block]
    /\ Chain[Genesis] = {Genesis}
    /\ \A b \in Block \ {Genesis} : Chain[b] = {b} \cup Chain[pprev[b]]
<1> DEFINE step == [x \in Block \X SUBSET Block |-> {x[1]} \cup x[2]]
           IsC(f) == f = [b \in Block |-> IF b = Genesis THEN {b} ELSE {b} \cup f[pprev[b]]]
           P == {NoBlock} \cup {b \in Block : Chain[b] \in SUBSET Block}
<1>1. IsStep(Block, SUBSET Block, {}, step)
  BY Zenon DEF IsStep
<1>2. PICK f : IsDefinedBy(Block, NoBlock, Up, SUBSET Block, {}, step, f)
  <2> HIDE DEF step
  <2>1. QED BY Zenon, <1>1, BlocksAreTree, TreeRecursionExists
<1> DEFINE h == [b \in Block |-> f[b]]
<1>3. IsC(h)
  <2>1. \A b \in Block : f[b] = step[<<b, f[Up[b]]>>] /\ f[Up[b]] \in SUBSET Block
    BY Zenon, <1>2, TreeAssumption DEF IsDefinedBy, Up
  <2>2. f[NoBlock] = {}
    BY Zenon, <1>2 DEF IsDefinedBy
  <2>3. \A b \in Block : f[b] = {b} \cup f[Up[b]]
    BY Zenon, <2>1
  <2>4. \A b \in Block : h[b] = IF b = Genesis THEN {b} ELSE {b} \cup h[pprev[b]]
    BY Zenon, <2>2, <2>3, TreeAssumption DEF Up
  <2> HIDE DEF step
  <2>5. QED BY Zenon, <2>4
<1>4. Chain = CHOOSE g : IsC(g)
  BY Zenon DEF Chain
<1>5. IsC(Chain)
  <2> HIDE DEF IsC, h
  <2>1. QED BY Zenon, <1>3, <1>4
<1>6. /\ Chain[Genesis] = {Genesis}
      /\ \A b \in Block \ {Genesis} : Chain[b] = {b} \cup Chain[pprev[b]]
  BY Zenon, <1>5, TreeAssumption
<1>7. Block \subseteq P
  <2>1. NoBlock \in P /\ \A b \in Block : Up[b] \in P => b \in P
    BY <1>6, TreeAssumption DEF Up
  <2> HIDE DEF P
  <2>2. QED BY <2>1, BlocksAreTree, TreeInduction
<1>8. Chain \in [Block -> SUBSET Block]
  BY Zenon, <1>5, <1>7, TreeAssumption
<1>9. QED BY Zenon, <1>6, <1>8

\* A chain holds its end, the genesis block and the chains of its blocks, and of
\* two of its blocks the lower one is on the chain of the other.
LEMMA ChainFacts ==
    ASSUME NEW b \in Block
    PROVE  /\ Chain[b] \subseteq Block /\ b \in Chain[b] /\ Genesis \in Chain[b]
           /\ \A a \in Chain[b] : /\ Chain[a] \subseteq Chain[b]
                                  /\ a = b \/ nHeight[a] < nHeight[b]
           /\ \A a, c \in Chain[b] : nHeight[a] <= nHeight[c] => a \in Chain[c]
<1>1. IsAncestry(Block, NoBlock, Up, Chain)
  BY ChainDef, TreeAssumption DEF IsAncestry, Up
<1>2. /\ b \in Chain[b]
      /\ \A a \in Chain[b] : a \in Block /\ Chain[a] \subseteq Chain[b] /\ (a = b \/ nHeight[a] < nHeight[b])
  BY Zenon, <1>1, BlocksAreTree, AncestryFacts
<1>3. \A a, c \in Chain[b] : nHeight[a] <= nHeight[c] => a \in Chain[c]
  BY Zenon, <1>1, BlocksAreTree, AncestryIsLinear
<1>4. Genesis \in Chain[b]
  <2> DEFINE P == {NoBlock} \cup {x \in Block : Genesis \in Chain[x]}
  <2>1. NoBlock \in P /\ \A x \in Block : Up[x] \in P => x \in P
    BY ChainDef, TreeAssumption DEF Up
  <2>2. Block \subseteq P
    <3> HIDE DEF P
    <3>1. QED BY <2>1, BlocksAreTree, TreeInduction
  <2>3. QED BY Zenon, <2>2, TreeAssumption
<1>5. QED BY Zenon, <1>2, <1>3, <1>4, ChainDef

\* The blocks below b are on the chain of its parent, and b is not.
LEMMA ParentFacts ==
    ASSUME NEW b \in Block, b # Genesis
    PROVE  /\ pprev[b] \in Block /\ pprev[b] \in Chain[b]
           /\ Chain[b] = {b} \cup Chain[pprev[b]] /\ b \notin Chain[pprev[b]]
<1>1. pprev[b] \in Block /\ nHeight[b] = nHeight[pprev[b]] + 1 /\ nHeight[pprev[b]] \in Nat
  BY Zenon, TreeAssumption
<1>2. Chain[b] = {b} \cup Chain[pprev[b]]
  BY Zenon, ChainDef
<1>3. b \notin Chain[pprev[b]]
  BY <1>1, ChainFacts
<1>4. QED BY Zenon, <1>1, <1>2, <1>3, ChainFacts

\* Work never shrinks along a chain, and grows with every block that has any.
LEMMA WorkFacts ==
    /\ nChainWork \in [Block -> Nat]
    /\ \A b \in Block : \A a \in Chain[b] :
          /\ nChainWork[a] <= nChainWork[b]
          /\ a = b \/ nChainWork[a] < nChainWork[b] \/ Chain[b] \cap Weightless # {}
<1> DEFINE step == [x \in Block \X Nat |-> GetBlockProof[x[1]] + x[2]]
           IsW(f) == f = [b \in Block |-> GetBlockProof[b] + IF b = Genesis THEN 0 ELSE f[pprev[b]]]
           P == {NoBlock} \cup {b \in Block : nChainWork[b] \in Nat}
           Grows(b) == \A a \in Chain[b] :
                          /\ nChainWork[a] <= nChainWork[b]
                          /\ a = b \/ nChainWork[a] < nChainWork[b] \/ Chain[b] \cap Weightless # {}
           Q == {NoBlock} \cup {b \in Block : Grows(b)}
<1>1. IsStep(Block, Nat, 0, step)
  BY TreeAssumption DEF IsStep
<1>2. PICK f : IsDefinedBy(Block, NoBlock, Up, Nat, 0, step, f)
  <2> HIDE DEF step
  <2>1. QED BY Zenon, <1>1, BlocksAreTree, TreeRecursionExists
<1> DEFINE h == [b \in Block |-> f[b]]
<1>3. IsW(h)
  <2>1. \A b \in Block : f[b] = step[<<b, f[Up[b]]>>] /\ f[Up[b]] \in Nat
    BY Zenon, <1>2, TreeAssumption DEF IsDefinedBy, Up
  <2>2. f[NoBlock] = 0
    BY Zenon, <1>2 DEF IsDefinedBy
  <2>3. \A b \in Block : f[b] = GetBlockProof[b] + f[Up[b]]
    BY Zenon, <2>1
  <2>4. \A b \in Block : h[b] = GetBlockProof[b] + IF b = Genesis THEN 0 ELSE h[pprev[b]]
    BY Zenon, <2>2, <2>3, TreeAssumption DEF Up
  <2> HIDE DEF step
  <2>5. QED BY Zenon, <2>4
<1>4. nChainWork = CHOOSE g : IsW(g)
  BY Zenon DEF nChainWork
<1>5. IsW(nChainWork)
  <2> HIDE DEF IsW, h
  <2>1. QED BY Zenon, <1>3, <1>4
<1>6. \A b \in Block : nChainWork[b] = GetBlockProof[b] + IF b = Genesis THEN 0 ELSE nChainWork[pprev[b]]
  BY Zenon, <1>5
<1>7. Block \subseteq P
  <2>1. NoBlock \in P /\ \A b \in Block : Up[b] \in P => b \in P
    BY <1>6, TreeAssumption DEF Up
  <2> HIDE DEF P
  <2>2. QED BY <2>1, BlocksAreTree, TreeInduction
<1>8. \A b \in Block : nChainWork[b] \in Nat
  BY Zenon, <1>7, TreeAssumption
<1>9. nChainWork \in [Block -> Nat]
  BY Zenon, <1>5, <1>8
<1>10. ASSUME NEW b \in Block, Up[b] \in Q PROVE Grows(b)
  <2>1. SUFFICES ASSUME NEW a \in Chain[b], a # b
                 PROVE  /\ nChainWork[a] <= nChainWork[b]
                        /\ nChainWork[a] < nChainWork[b] \/ Chain[b] \cap Weightless # {}
    BY <1>8
  <2>2. /\ b # Genesis /\ a \in Chain[pprev[b]] /\ pprev[b] \in Block /\ a \in Block
        /\ b \in Chain[b] /\ Chain[pprev[b]] \subseteq Chain[b]
    BY <2>1, ChainDef, ParentFacts, ChainFacts
  <2>3. Grows(pprev[b])
    BY Zenon, <1>10, <2>2, TreeAssumption DEF Up
  <2>4. /\ nChainWork[b] = GetBlockProof[b] + nChainWork[pprev[b]] /\ GetBlockProof[b] \in Nat
        /\ GetBlockProof[b] = 0 => Chain[b] \cap Weightless # {}
    BY <1>6, <2>2, TreeAssumption DEF Weightless
  <2>5. /\ nChainWork[a] <= nChainWork[pprev[b]]
        /\ nChainWork[a] < nChainWork[pprev[b]] \/ a = pprev[b] \/ Chain[b] \cap Weightless # {}
    BY Zenon, <2>2, <2>3
  <2>6. nChainWork[a] \in Nat /\ nChainWork[b] \in Nat /\ nChainWork[pprev[b]] \in Nat
    BY Zenon, <1>8, <2>2
  <2> HIDE DEF Grows
  <2>7. QED BY <2>4, <2>5, <2>6
<1>11. Block \subseteq Q
  <2>1. NoBlock \in Q /\ \A b \in Block : Up[b] \in Q => b \in Q
    <3> HIDE DEF Grows
    <3>1. QED BY Zenon, <1>10
  <2> HIDE DEF Q
  <2>2. QED BY <2>1, BlocksAreTree, TreeInduction
<1>12. QED BY Zenon, <1>9, <1>11, TreeAssumption

-----------------------------------------------------------------------------
(* The order of the candidates. *)

\* a sorts at least as good as b.
AsGood(seq, a, b) == a = b \/ Worse(seq, b, a)

\* CBlockIndexWorkComparator orders the blocks totally, by work first: the
\* addresses decide between blocks of equal work and equal sequence id.
LEMMA OrderFacts ==
    ASSUME NEW seq \in [Block -> Int], NEW a \in Block, NEW b \in Block
    PROVE  /\ ~Worse(seq, a, a) /\ AsGood(seq, a, a)
           /\ ~Worse(seq, a, b) <=> AsGood(seq, a, b)
           /\ AsGood(seq, a, b) \/ AsGood(seq, b, a)
           /\ AsGood(seq, a, b) => nChainWork[b] <= nChainWork[a]
           /\ nChainWork[b] < nChainWork[a] => AsGood(seq, a, b)
           /\ \A c \in Block : AsGood(seq, a, b) /\ AsGood(seq, b, c) => AsGood(seq, a, c)
<1>1. \A x \in Block : nChainWork[x] \in Int /\ seq[x] \in Int /\ Address[x] \in Int
  BY WorkFacts, TreeAssumption
<1>2. \A x, y \in Block : Address[x] = Address[y] => x = y
  BY Zenon, TreeAssumption
<1>3. ~Worse(seq, a, a) /\ AsGood(seq, a, a)
  BY <1>1 DEF Worse, AsGood
<1>4. ~Worse(seq, a, b) <=> AsGood(seq, a, b)
  BY <1>1, <1>2 DEF Worse, AsGood
<1>5. AsGood(seq, a, b) \/ AsGood(seq, b, a)
  BY <1>1, <1>2 DEF Worse, AsGood
<1>6. /\ AsGood(seq, a, b) => nChainWork[b] <= nChainWork[a]
      /\ nChainWork[b] < nChainWork[a] => AsGood(seq, a, b)
  BY <1>1 DEF Worse, AsGood
<1>7. ASSUME NEW c \in Block, AsGood(seq, a, b), AsGood(seq, b, c) PROVE AsGood(seq, a, c)
  BY <1>1, <1>7 DEF Worse, AsGood
<1>8. QED BY Zenon, <1>3, <1>4, <1>5, <1>6, <1>7

\* The block setBlockIndexCandidates.rbegin() gives is as good as every other.
LEMMA BestFacts ==
    ASSUME nSequenceId \in [Block -> Int], NEW S \in SUBSET Block, S # {}
    PROVE  Best(S) \in S /\ \A c \in S : AsGood(nSequenceId, Best(S), c)
<1> DEFINE R == {p \in Block \X Block : AsGood(nSequenceId, p[1], p[2])}
<1>1. \A a, b \in Block : <<a, b>> \in R <=> AsGood(nSequenceId, a, b)
  BY Zenon
<1>2. IsOrder(Block, R)
  <2> HIDE DEF R
  <2>1. QED BY Zenon, <1>1, OrderFacts DEF IsOrder
<1>3. IsFiniteSet(S)
  BY Zenon, TreeAssumption, FS_Subset
<1>4. PICK m \in S : \A c \in S : <<m, c>> \in R
  <2> HIDE DEF R
  <2>1. QED BY <1>2, <1>3, FiniteMaximum
<1>5. \A c \in S \ {m} : Worse(nSequenceId, c, m)
  BY Zenon, <1>1, <1>4 DEF AsGood
<1>6. Best(S) \in S /\ \A c \in S \ {Best(S)} : Worse(nSequenceId, c, Best(S))
  <2> HIDE DEF R
  <2>1. QED BY <1>5, Zenon DEF Best
<1>7. QED BY Zenon, <1>6 DEF AsGood

\* FindMostWorkChain returns a candidate with a clean path, as good as every
\* other such candidate; what it removes has a failed block below it.
LEMMA FindFacts ==
    ASSUME nSequenceId \in [Block -> Int], candidates \in SUBSET Block, tip \in Block
    PROVE  /\ FindMostWorkChain = NoBlock => Usable = {}
           /\ FindMostWorkChain # NoBlock =>
                 /\ FindMostWorkChain \in Usable
                 /\ \A c \in Usable : AsGood(nSequenceId, FindMostWorkChain, c)
           /\ \A r \in Removed :
                 /\ r \in Block /\ \E b \in candidates : r \in Chain[b]
                 /\ OffChain(r) \cap Failed # {}
<1>1. Usable \in SUBSET Block /\ NoBlock \notin Block
  BY Zenon, TreeAssumption DEF Usable
<1>2. /\ FindMostWorkChain = NoBlock => Usable = {}
      /\ FindMostWorkChain # NoBlock =>
           /\ FindMostWorkChain \in Usable
           /\ \A c \in Usable : AsGood(nSequenceId, FindMostWorkChain, c)
  <2>1. CASE Usable = {}
    BY Zenon, <2>1 DEF FindMostWorkChain
  <2>2. CASE Usable # {}
    BY Zenon, <1>1, <2>2, BestFacts DEF FindMostWorkChain
  <2>3. QED BY Zenon, <2>1, <2>2
<1>3. ASSUME NEW b \in candidates \ Usable, NEW r \in FailedPath(b)
      PROVE  r \in Block /\ r \in Chain[b] /\ OffChain(r) \cap Failed # {}
  <2> DEFINE F == OffChain(b) \cap Failed
             T == {nHeight[b] - nHeight[x] : x \in F}
             last == CHOOSE f \in F : \A g \in F : nHeight[g] <= nHeight[f]
  <2>1. F # {} /\ F \subseteq Chain[b] /\ b \in Block /\ Chain[b] \subseteq Block
    BY Zenon, ChainFacts DEF Usable, OffChain
  <2>2. \A x \in Chain[b] : nHeight[x] \in Nat /\ nHeight[b] \in Nat /\ nHeight[x] <= nHeight[b]
    BY <2>1, ChainFacts, TreeAssumption
  <2>3. T \in SUBSET Nat /\ T # {}
    <3> HIDE DEF F
    <3>1. QED BY <2>1, <2>2
  <2>4. PICK n \in T : \A m \in T : n <= m
    <3> HIDE DEF T
    <3>1. QED BY Zenon, <2>3, SmallestNumber
  <2>5. \E f \in F : \A g \in F : nHeight[g] <= nHeight[f]
    <3> HIDE DEF F
    <3>1. PICK f \in F : n = nHeight[b] - nHeight[f]
      BY Zenon
    <3>2. \A g \in F : nHeight[b] - nHeight[f] <= nHeight[b] - nHeight[g]
      BY Zenon, <2>4, <3>1
    <3>3. QED BY <2>1, <2>2, <3>2
  <2>6. last \in F
    <3> HIDE DEF F
    <3>1. QED BY Zenon, <2>5
  <2>7. FailedPath(b) = {c \in Chain[b] : nHeight[c] >= nHeight[last]}
    BY Zenon DEF FailedPath
  <2> HIDE DEF last
  <2>8. r \in Chain[b] /\ last \in Chain[b] /\ nHeight[last] <= nHeight[r]
    BY Zenon, <2>1, <2>2, <2>6, <2>7
  <2>9. last \in Chain[r]
    BY Zenon, <2>1, <2>8, ChainFacts
  <2>10. QED BY Zenon, <2>1, <2>6, <2>8, <2>9 DEF OffChain
<1>4. \A r \in Removed : \E b \in candidates \ Usable : r \in FailedPath(b)
  BY Zenon DEF Removed, Dropped
<1>5. QED BY Zenon, <1>2, <1>3, <1>4

\* The block at which ActivateBestChainStep stops is the first on the path that
\* fails, exceeds the work of the tip, or is the goal.
LEMMA StopFacts ==
    ASSUME NEW m \in Block, ToConnect(m) # {}, tip \in Block
    PROVE  /\ StopAt(m) \in ToConnect(m) /\ StopAt(m) # Genesis
           /\ \/ StopAt(m) \in invalid \/ nChainWork[StopAt(m)] > nChainWork[tip]
              \/ StopAt(m) = m
           /\ \A d \in Chain[StopAt(m)] \cap ToConnect(m) :
                 d = StopAt(m) \/ (d \notin invalid /\ nChainWork[d] <= nChainWork[tip])
<1> DEFINE E == {c \in ToConnect(m) : c \in invalid \/ nChainWork[c] > nChainWork[tip] \/ c = m}
           T == {nHeight[c] : c \in E}
           First(c) == /\ c \in invalid \/ nChainWork[c] > nChainWork[tip] \/ c = m
                       /\ \A d \in Chain[c] \cap ToConnect(m) :
                             d = c \/ (d \notin invalid /\ nChainWork[d] <= nChainWork[tip])
<1>1. /\ ToConnect(m) \subseteq Chain[m] /\ Chain[m] \subseteq Block /\ m \in Chain[m]
      /\ Genesis \notin ToConnect(m)
  BY Zenon, ChainFacts DEF ToConnect, chainActive
<1>2. m \in ToConnect(m)
  <2>1. m \in Chain[tip] => Chain[m] \subseteq Chain[tip]
    BY Zenon, ChainFacts
  <2>2. QED BY Zenon, <1>1, <2>1 DEF ToConnect, chainActive
<1>3. E # {} /\ E \subseteq ToConnect(m) /\ \A c \in E : nHeight[c] \in Nat
  BY Zenon, <1>1, <1>2, TreeAssumption
<1>4. PICK n \in T : \A k \in T : n <= k
  <2>1. T \in SUBSET Nat /\ T # {}
    <3> HIDE DEF E
    <3>1. QED BY Zenon, <1>3
  <2> HIDE DEF T
  <2>2. QED BY Zenon, <2>1, SmallestNumber
<1>5. PICK c \in E : \A e \in E : nHeight[c] <= nHeight[e]
  <2> HIDE DEF E
  <2>1. QED BY Zenon, <1>4
<1>6. ASSUME NEW d \in Chain[c] \cap ToConnect(m), d # c
      PROVE  d \notin invalid /\ nChainWork[d] <= nChainWork[tip]
  <2>1. c \in Block /\ d \in Block /\ nHeight[d] < nHeight[c]
    BY Zenon, <1>1, <1>3, <1>6, ChainFacts
  <2>2. nHeight[d] \in Nat /\ nHeight[c] \in Nat /\ nChainWork[d] \in Nat /\ nChainWork[tip] \in Nat
    BY Zenon, <2>1, TreeAssumption, WorkFacts
  <2>3. d \notin E
    <3> HIDE DEF E
    <3>1. QED BY <1>5, <2>1, <2>2
  <2>4. QED BY <2>2, <2>3
<1>7. c \in ToConnect(m) /\ First(c)
  BY Zenon, <1>6
<1>8. StopAt(m) = CHOOSE x \in ToConnect(m) : First(x)
  BY Zenon DEF StopAt
<1>9. StopAt(m) \in ToConnect(m) /\ First(StopAt(m))
  <2> HIDE DEF First
  <2>1. QED BY Zenon, <1>7, <1>8
<1>10. QED BY Zenon, <1>1, <1>9

-----------------------------------------------------------------------------
(* What holds with any number of threads and after any command. *)

\* How the sets of blocks nest: linked chains are stored up to the genesis
\* block, candidates, tip and goals are linked, a block that fails in
\* ConnectBlock is never left active, and one that fails before is not stored.
Structure ==
    /\ Genesis \in linked /\ linked \subseteq data
    /\ \A b \in linked : Chain[b] \subseteq linked
    /\ unlinked \subseteq data \ (linked \cup {Genesis})
    /\ badBody \cap data = {}
    /\ candidates \subseteq linked
    /\ tip \in linked /\ chainActive \cap invalid = {}
    /\ \A t \in Thread : pindexMostWork[t] \in linked \cup {NoBlock}
    /\ \A t \in Thread \ activating : pindexMostWork[t] = NoBlock
    /\ gFailed \subseteq known

Base == TypeOK /\ Structure

\* Every block of the active chain added work.
LEMMA ActiveWork ==
    ASSUME Base
    PROVE  \A a \in chainActive : a = tip \/ nChainWork[a] < nChainWork[tip]
<1>1. tip \in Block /\ Chain[tip] \cap Weightless = {}
  BY Zenon DEF Base, TypeOK, Structure, chainActive
<1>2. QED BY Zenon, <1>1, WorkFacts DEF chainActive

\* AddToBlockIndex and the refusal of a header.
LEMMA HeaderBase ==
    ASSUME Base, NEW b \in Block, HeaderArrives(b)
    PROVE  Base'
<1> USE DEF Base
<1>1. /\ b # Genesis /\ pprev[b] \in known /\ Chain[b] = {b} \cup Chain[pprev[b]]
      /\ \A c \in known : c \in Block /\ Chain[c] \subseteq known
  BY Zenon, ParentFacts DEF HeaderArrives, RefuseDescendant, AddToBlockIndex, ParentGood, TypeOK
<1>2. /\ UNCHANGED <<invalid, badBody, data, linked, scripts, failedValid, gFailed, nSequenceId,
                     nBlockSequenceId, nBlockReverseSequenceId, nLastPreciousChainwork, candidates,
                     unlinked, tip, activating, pindexMostWork, commands>>
      /\ \/ known' = known /\ failedChild' \subseteq failedChild \cup Chain[pprev[b]]
         \/ known' = known \cup {b} /\ failedChild' = failedChild
  BY Zenon DEF HeaderArrives, RefuseDescendant, AddToBlockIndex, world, flags, precious
<1>3. TypeOK'
  BY <1>1, <1>2 DEF TypeOK
<1>4. Structure'
  BY Zenon, <1>2 DEF Structure, chainActive
<1>5. QED BY Zenon, <1>3, <1>4

\* What ReceivedBlockTransactions links with b: stored descendants, whole chains.
LEMMA NowLinkedFacts ==
    ASSUME NEW b \in Block, unlinked \in SUBSET Block
    PROVE  /\ b \in NowLinked(b) /\ NowLinked(b) \subseteq {b} \cup unlinked
           /\ \A c \in NowLinked(b) : Chain[c] \subseteq Chain[b] \cup NowLinked(b)
           /\ Cardinality(NowLinked(b)) \in Nat
<1>1. b \in NowLinked(b) /\ NowLinked(b) \subseteq {b} \cup unlinked
  BY Zenon DEF NowLinked
<1>2. ASSUME NEW c \in NowLinked(b), NEW d \in Chain[c], d \notin Chain[b]
      PROVE  d \in NowLinked(b)
  <2>1. c # b /\ c \in Block /\ b \in Chain[c] /\ Chain[c] \ Chain[b] \subseteq unlinked
    BY Zenon, <1>1, <1>2 DEF NowLinked
  <2>2. d \in Block /\ Chain[d] \subseteq Chain[c]
    BY Zenon, <2>1, ChainFacts
  <2>3. b \in Chain[d]
    <3>1. nHeight[b] <= nHeight[d] \/ nHeight[d] <= nHeight[b]
      BY <2>2, TreeAssumption
    <3>2. QED BY Zenon, <1>2, <2>1, <3>1, ChainFacts
  <2>4. QED BY Zenon, <1>2, <2>1, <2>2, <2>3 DEF NowLinked
<1>3. Cardinality(NowLinked(b)) \in Nat
  BY <1>1, TreeAssumption, FS_Subset, FS_CardinalityType
<1>4. QED BY Zenon, <1>1, <1>2, <1>3

\* ProcessNewBlock, up to ActivateBestChain.
LEMMA ProcessBase ==
    ASSUME Base, NEW t \in Thread, NEW b \in Block, NEW fRequested \in BOOLEAN,
           ProcessNewBlock(t, b, fRequested)
    PROVE  Base'
<1> USE DEF Base
<1>1. /\ b # Genesis /\ known' = known \cup {b} /\ pprev[b] \in known
      /\ Chain[b] = {b} \cup Chain[pprev[b]]
      /\ \A c \in known : c \in Block /\ Chain[c] \subseteq known
  <2>1. b # Genesis /\ known' = known \cup {b} /\ (b \in known \/ pprev[b] \in known)
    BY Zenon DEF ProcessNewBlock, AcceptBlock, HeaderAccepted, ParentGood
  <2>2. QED BY Zenon, <2>1, ParentFacts, ChainFacts DEF TypeOK
<1>2. UNCHANGED <<invalid, badBody, scripts, failedChild, gFailed,
                  nBlockReverseSequenceId, nLastPreciousChainwork, tip, commands>>
  BY Zenon DEF ProcessNewBlock, world, precious
<1>3. /\ activating' \in {activating, activating \cup {t}}
      /\ pindexMostWork' \in {pindexMostWork, [pindexMostWork EXCEPT ![t] = NoBlock]}
  BY Zenon DEF ProcessNewBlock, AcceptBlock, NoActivation, EnterActivateBestChain
<1>4. /\ activating' \subseteq Thread /\ pindexMostWork' \in [Thread -> Block \cup {NoBlock}]
      /\ \A u \in Thread : pindexMostWork'[u] \in linked \cup {NoBlock}
      /\ \A u \in Thread \ activating' : pindexMostWork'[u] = NoBlock
  BY Zenon, <1>3 DEF TypeOK, Structure
<1>5. CASE /\ UNCHANGED <<data, linked, nSequenceId, nBlockSequenceId, candidates, unlinked>>
           /\ failedValid' \in {failedValid, failedValid \cup {b}}
  <2>1. TypeOK'
    BY <1>1, <1>2, <1>4, <1>5 DEF TypeOK
  <2>2. Structure'
    BY Zenon, <1>1, <1>2, <1>4, <1>5 DEF Structure, chainActive
  <2>3. QED BY Zenon, <2>1, <2>2
<1>6. CASE b \notin badBody \cup data /\ failedValid' = failedValid /\ ReceivedBlockTransactions(b)
  <2>1. data' = data \cup {b} /\ b \notin linked \cup unlinked
    BY Zenon, <1>6 DEF ReceivedBlockTransactions, Structure
  <2>2. CASE Link(b)
    <3>1. /\ unlinked \in SUBSET Block /\ linked \in SUBSET Block /\ nBlockSequenceId \in Nat
          /\ nSequenceId \in [Block -> Int] /\ candidates \in SUBSET Block
      BY Zenon DEF TypeOK
    <3>2. /\ b \in NowLinked(b) /\ NowLinked(b) \subseteq {b} \cup unlinked
          /\ \A c \in NowLinked(b) : Chain[c] \subseteq Chain[b] \cup NowLinked(b)
          /\ Cardinality(NowLinked(b)) \in Nat
      BY Zenon, <3>1, NowLinkedFacts
    <3>3. PICK order \in LinkOrders(NowLinked(b)) :
             nSequenceId' = [c \in Block |-> IF c \in NowLinked(b)
                                THEN nBlockSequenceId + order[c] ELSE nSequenceId[c]]
      BY Zenon, <2>2 DEF Link
    <3>4. /\ pprev[b] \in linked
          /\ nBlockSequenceId' = nBlockSequenceId + Cardinality(NowLinked(b))
          /\ linked' = linked \cup NowLinked(b)
          /\ candidates' \subseteq candidates \cup NowLinked(b)
          /\ unlinked' = unlinked \ NowLinked(b)
      BY Zenon, <2>2 DEF Link, NotWorse
    <3> HIDE DEF Base
    <3>5. nSequenceId' \in [Block -> Int]
      <4>1. \A c \in NowLinked(b) : order[c] \in Int
        BY <3>2 DEF LinkOrders
      <4>2. QED BY <3>1, <3>3, <4>1
    <3>6. TypeOK'
      <4>1. {linked', candidates', unlinked', data'} \subseteq SUBSET Block /\ nBlockSequenceId' \in Nat
        BY <2>1, <3>1, <3>2, <3>4 DEF Base, TypeOK
      <4>2. QED BY <1>1, <1>2, <1>4, <1>6, <2>1, <3>5, <4>1 DEF Base, TypeOK
    <3>7. \A c \in linked' : Chain[c] \subseteq linked'
      BY Zenon, <1>1, <3>2, <3>4 DEF Base, Structure
    <3>8. Structure'
      BY SMTT(30), <1>1, <1>2, <1>4, <1>6, <2>1, <3>2, <3>4, <3>7 DEF Base, Structure, chainActive
    <3>9. QED BY Zenon, <3>6, <3>8 DEF Base
  <2>3. CASE Park(b)
    <3>1. /\ UNCHANGED <<nSequenceId, nBlockSequenceId, linked, candidates>>
          /\ unlinked' \in {unlinked, unlinked \cup {b}}
      BY Zenon, <2>3 DEF Park
    <3>2. TypeOK'
      BY <1>1, <1>2, <1>4, <1>6, <2>1, <3>1 DEF TypeOK
    <3>3. Structure'
      BY <1>1, <1>2, <1>4, <1>6, <2>1, <3>1 DEF Structure, chainActive
    <3>4. QED BY Zenon, <3>2, <3>3
  <2>4. QED BY Zenon, <1>6, <2>2, <2>3 DEF ReceivedBlockTransactions
<1>7. QED BY Zenon, <1>5, <1>6 DEF ProcessNewBlock, AcceptBlock, NotWanted

\* The part of a pass of ActivateBestChain that moves the tip: the blocks up to
\* last are connected and PruneBlockIndexCandidates drops what is worse.
Advance(last, cand) ==
    /\ tip' = last
    /\ scripts' = scripts \cup ((Chain[last] \ chainActive) \ Failed)
    /\ candidates' = IF last \in chainActive THEN cand ELSE NotWorse(cand, nSequenceId, last)

\* The three ends of a pass of ActivateBestChain with goal m, after
\* FindMostWorkChain dropped the candidates removed: nothing is left to do,
\* the block bad turns out to be invalid, or the tip moves to last.
Returns(t, m, removed) ==
    /\ m \in {NoBlock, tip}
    /\ activating' = activating \ {t}
    /\ pindexMostWork' = [pindexMostWork EXCEPT ![t] = NoBlock]
    /\ candidates' = candidates \ removed
    /\ UNCHANGED <<tip, scripts, failedValid, gFailed>>

Fails(t, m, removed, bad) ==
    /\ m \in linked \ {tip} /\ bad \in Chain[m] \ chainActive
    /\ bad \in invalid /\ bad # Genesis
    /\ \A d \in Chain[pprev[bad]] \ chainActive : d \notin invalid /\ nChainWork[d] <= nChainWork[tip]
    /\ Advance(pprev[bad], candidates \ (removed \cup {bad}))
    /\ failedValid' = failedValid \cup {bad}
    /\ gFailed' = gFailed \cup {bad}
    /\ pindexMostWork' = [pindexMostWork EXCEPT ![t] = NoBlock]
    /\ UNCHANGED activating

Succeeds(t, m, removed, last) ==
    /\ m \in linked \ {tip} /\ last \in Chain[m]
    /\ last \in chainActive => m \in chainActive
    /\ last # m => nChainWork[last] > nChainWork[tip]
    /\ \A d \in Chain[last] \ chainActive : d \notin invalid
    /\ Advance(last, candidates \ removed)
    /\ pindexMostWork' =
          [pindexMostWork EXCEPT ![t] = IF last = m THEN NoBlock ELSE m]
    /\ activating' = IF last = m THEN activating \ {t} ELSE activating
    /\ UNCHANGED <<failedValid, gFailed>>

\* The goal of a pass is the one kept, or the one FindMostWorkChain finds; each
\* block it drops has a failed block on its path to the active chain.
IsGoal(t, m, removed) ==
    /\ m \in linked \cup {NoBlock}
    /\ \/ m = pindexMostWork[t] /\ m # NoBlock /\ removed = {}
       \/ /\ pindexMostWork[t] = NoBlock /\ m = FindMostWorkChain
          /\ m = NoBlock => Usable = {}
          /\ m # NoBlock => m \in Usable /\ \A c \in Usable : AsGood(nSequenceId, m, c)
    /\ \A r \in removed : r \in known /\ OffChain(r) \cap Failed # {}
    /\ failedChild' = failedChild \cup (removed \ Failed)

\* A pass of ActivateBestChain is one of the three.
LEMMA ActivationFacts ==
    ASSUME Base, NEW t \in Thread, ActivateBestChain(t)
    PROVE  /\ t \in activating
           /\ UNCHANGED <<invalid, badBody, known, data, linked, nSequenceId, nBlockSequenceId,
                          nBlockReverseSequenceId, nLastPreciousChainwork, unlinked, commands>>
           /\ \E m, removed :
                /\ IsGoal(t, m, removed)
                /\ \/ Returns(t, m, removed)
                   \/ \E bad \in Block : Fails(t, m, removed, bad)
                   \/ \E last \in Block : Succeeds(t, m, removed, last)
<1> DEFINE cached == pindexMostWork[t] # NoBlock
           m == IF cached THEN pindexMostWork[t] ELSE FindMostWorkChain
           removed == IF cached THEN {} ELSE Removed
           cand == candidates \ removed
<1>1. /\ t \in activating
      /\ UNCHANGED <<invalid, badBody, known, data, linked, nSequenceId, nBlockSequenceId,
                     nBlockReverseSequenceId, nLastPreciousChainwork, unlinked, commands>>
  BY Zenon DEF ActivateBestChain, world, precious
<1>2. /\ failedChild' = failedChild \cup (removed \ Failed)
      /\ IF m \in {NoBlock, tip}
         THEN /\ activating' = activating \ {t}
              /\ pindexMostWork' = [pindexMostWork EXCEPT ![t] = NoBlock]
              /\ candidates' = cand
              /\ UNCHANGED <<tip, scripts, failedValid, gFailed>>
         ELSE StepFails(t, m, cand) \/ StepSucceeds(t, m, cand)
  BY Zenon DEF ActivateBestChain
<1>3. /\ nSequenceId \in [Block -> Int] /\ candidates \in SUBSET Block /\ tip \in Block
      /\ linked \in SUBSET Block /\ Genesis \in linked /\ NoBlock \notin Block
  BY Zenon, TreeAssumption DEF Base, TypeOK, Structure
<1>4. /\ pindexMostWork[t] \in linked \cup {NoBlock} /\ candidates \subseteq linked
      /\ linked \subseteq known /\ \A b \in linked : Chain[b] \subseteq linked
  BY Zenon DEF Base, TypeOK, Structure
<1>5. IsGoal(t, m, removed)
  <2>1. CASE cached
    BY Zenon, <1>2, <1>4, <2>1 DEF IsGoal
  <2>2. CASE ~cached
    <3>1. m = FindMostWorkChain /\ removed = Removed /\ pindexMostWork[t] = NoBlock
      BY Zenon, <2>2
    <3> HIDE DEF m, removed, cached
    <3>2. /\ m = NoBlock => Usable = {}
          /\ m # NoBlock => m \in Usable /\ \A c \in Usable : AsGood(nSequenceId, m, c)
      BY Zenon, <1>3, <3>1, FindFacts
    <3>3. \A r \in removed : r \in known /\ OffChain(r) \cap Failed # {}
      BY Zenon, <1>3, <1>4, <3>1, FindFacts
    <3>4. Usable \subseteq linked
      BY Zenon, <1>4 DEF Usable
    <3>5. QED BY Zenon, <1>2, <3>1, <3>2, <3>3, <3>4 DEF IsGoal
  <2>3. QED BY Zenon, <2>1, <2>2
<1> HIDE DEF m, removed, cached
<1>6. ASSUME NEW last \in Chain[m], m \in linked, NEW S, ConnectTo(last, m, S) PROVE Advance(last, S)
  <2>1. Chain[last] \subseteq Chain[m] /\ last \in Chain[last]
    BY Zenon, <1>3, <1>6, ChainFacts
  <2>2. Chain[last] \cap ToConnect(m) = Chain[last] \ chainActive
    BY Zenon, <2>1 DEF ToConnect
  <2>3. Chain[last] \ chainActive = {} <=> last \in chainActive
    BY Zenon, <1>3, <2>1, ChainFacts DEF chainActive
  <2>4. QED BY Zenon, <1>6, <2>2, <2>3 DEF ConnectTo, Advance
<1>7. CASE m \in {NoBlock, tip}
  BY Zenon, <1>1, <1>2, <1>5, <1>7 DEF Returns
<1>8. CASE m \notin {NoBlock, tip} /\ StepFails(t, m, cand)
  <2>1. m \in linked \ {tip} /\ m \in Block /\ ToConnect(m) # {}
    BY Zenon, <1>3, <1>5, <1>8 DEF IsGoal, StepFails
  <2> DEFINE bad == StopAt(m)
  <2>2. /\ bad \in ToConnect(m) /\ bad # Genesis
        /\ \A d \in Chain[bad] \cap ToConnect(m) :
              d = bad \/ (d \notin invalid /\ nChainWork[d] <= nChainWork[tip])
    BY Zenon, <1>3, <2>1, StopFacts
  <2>3. /\ bad \in invalid /\ ConnectTo(pprev[bad], m, cand \ {bad})
        /\ failedValid' = failedValid \cup {bad}
        /\ gFailed' = gFailed \cup {bad}
        /\ pindexMostWork' = [pindexMostWork EXCEPT ![t] = NoBlock]
        /\ UNCHANGED activating
    BY Zenon, <1>8 DEF StepFails
  <2> HIDE DEF bad
  <2>4. bad \in Chain[m] \ chainActive /\ bad \in Block /\ Chain[bad] \subseteq Chain[m]
    BY Zenon, <2>1, <2>2, ChainFacts DEF ToConnect
  <2>5. pprev[bad] \in Chain[m] /\ Chain[pprev[bad]] \subseteq Chain[bad] \ {bad}
    BY <2>2, <2>4, ParentFacts
  <2>6. \A d \in Chain[pprev[bad]] \ chainActive : d \notin invalid /\ nChainWork[d] <= nChainWork[tip]
    BY Zenon, <2>2, <2>4, <2>5 DEF ToConnect
  <2>7. cand \ {bad} = candidates \ (removed \cup {bad})
    BY Zenon
  <2>8. Advance(pprev[bad], candidates \ (removed \cup {bad}))
    BY Zenon, <1>6, <2>1, <2>3, <2>5, <2>7
  <2>9. Fails(t, m, removed, bad)
    BY Zenon, <2>1, <2>2, <2>3, <2>4, <2>6, <2>8 DEF Fails
  <2>10. QED BY Zenon, <1>1, <1>5, <2>4, <2>9
<1>9. CASE m \notin {NoBlock, tip} /\ StepSucceeds(t, m, cand)
  <2>1. m \in linked \ {tip} /\ m \in Block
    BY Zenon, <1>3, <1>5, <1>9 DEF IsGoal
  <2> DEFINE last == IF ToConnect(m) = {} THEN m ELSE StopAt(m)
  <2>2. /\ last \notin invalid /\ ConnectTo(last, m, cand)
        /\ pindexMostWork' = [pindexMostWork EXCEPT ![t] = IF last = m THEN NoBlock ELSE m]
        /\ activating' = IF last = m THEN activating \ {t} ELSE activating
        /\ UNCHANGED <<failedValid, gFailed>>
    BY Zenon, <1>9 DEF StepSucceeds
  <2>3. /\ last \in Chain[m] /\ (last \in chainActive => m \in chainActive)
        /\ last # m => nChainWork[last] > nChainWork[tip]
        /\ \A d \in Chain[last] \ chainActive : d \notin invalid
    <3>1. CASE ToConnect(m) = {}
      BY Zenon, <2>1, <3>1, ChainFacts DEF ToConnect
    <3>2. CASE ToConnect(m) # {}
      <4>1. /\ StopAt(m) \in ToConnect(m)
            /\ \/ StopAt(m) \in invalid \/ nChainWork[StopAt(m)] > nChainWork[tip]
               \/ StopAt(m) = m
            /\ \A d \in Chain[StopAt(m)] \cap ToConnect(m) : d = StopAt(m) \/ d \notin invalid
        BY Zenon, <1>3, <2>1, <3>2, StopFacts
      <4>2. last = StopAt(m) /\ Chain[StopAt(m)] \subseteq Chain[m]
        BY Zenon, <2>1, <3>2, <4>1, ChainFacts DEF ToConnect
      <4>3. QED BY Zenon, <2>2, <4>1, <4>2 DEF ToConnect
    <3>3. QED BY Zenon, <3>1, <3>2
  <2> HIDE DEF last
  <2>4. Advance(last, candidates \ removed) /\ last \in Block
    BY Zenon, <1>6, <2>1, <2>2, <2>3, ChainFacts
  <2>5. Succeeds(t, m, removed, last)
    BY Zenon, <2>1, <2>2, <2>3, <2>4 DEF Succeeds
  <2>6. QED BY Zenon, <1>1, <1>5, <2>4, <2>5
<1>10. QED BY Zenon, <1>2, <1>7, <1>8, <1>9

\* A pass of ActivateBestChain.
LEMMA ActivationBase ==
    ASSUME Base, NEW t \in Thread, ActivateBestChain(t)
    PROVE  Base'
<1>1. /\ t \in activating
      /\ UNCHANGED <<invalid, badBody, known, data, linked, nSequenceId, nBlockSequenceId,
                     nBlockReverseSequenceId, nLastPreciousChainwork, unlinked, commands>>
  BY Zenon, ActivationFacts
<1>2. PICK m, removed :
        /\ IsGoal(t, m, removed)
        /\ \/ Returns(t, m, removed)
           \/ \E bad \in Block : Fails(t, m, removed, bad)
           \/ \E last \in Block : Succeeds(t, m, removed, last)
  BY Zenon, ActivationFacts
<1>3. m \in linked \cup {NoBlock} /\ failedChild' \subseteq known
  BY Zenon, <1>2 DEF IsGoal, Base, TypeOK
<1>4. /\ linked \subseteq known /\ linked \subseteq Block /\ tip \in linked /\ NoBlock \notin linked
      /\ \A b \in linked : Chain[b] \subseteq linked
  BY Zenon, TreeAssumption DEF Base, TypeOK, Structure
<1>5. ASSUME NEW goal \in linked \cup {NoBlock}, pindexMostWork' = [pindexMostWork EXCEPT ![t] = goal],
             activating' \in {activating, activating \ {t}}, activating' # activating => goal = NoBlock
      PROVE  /\ activating' \subseteq Thread /\ pindexMostWork' \in [Thread -> Block \cup {NoBlock}]
             /\ \A u \in Thread : pindexMostWork'[u] \in linked \cup {NoBlock}
             /\ \A u \in Thread \ activating' : pindexMostWork'[u] = NoBlock
  <2>1. /\ pindexMostWork \in [Thread -> Block \cup {NoBlock}] /\ activating \subseteq Thread
        /\ \A u \in Thread : pindexMostWork[u] \in linked \cup {NoBlock}
        /\ \A u \in Thread \ activating : pindexMostWork[u] = NoBlock
    BY Zenon DEF Base, TypeOK, Structure
  <2>2. QED BY Zenon, <1>1, <1>4, <1>5, <2>1
<1>6. ASSUME NEW last \in linked, NEW S \in SUBSET candidates, Advance(last, S),
             \A d \in Chain[last] \ chainActive : d \notin invalid
      PROVE  /\ tip' \in linked /\ scripts' \subseteq Block /\ candidates' \subseteq candidates
             /\ chainActive' \cap invalid = {}
  <2>1. tip' = last /\ scripts' \subseteq scripts \cup Chain[last] /\ candidates' \subseteq candidates
    BY Zenon, <1>6 DEF Advance, NotWorse
  <2>2. chainActive' = Chain[last] /\ chainActive \cap invalid = {} /\ scripts \subseteq Block
    BY Zenon, <2>1 DEF Base, TypeOK, Structure, chainActive
  <2>3. QED BY Zenon, <1>4, <1>6, <2>1, <2>2
<1>7. CASE Returns(t, m, removed)
  <2>1. /\ UNCHANGED <<tip, scripts, failedValid, gFailed>> /\ candidates' \subseteq candidates
        /\ activating' = activating \ {t}
        /\ pindexMostWork' = [pindexMostWork EXCEPT ![t] = NoBlock]
    BY Zenon, <1>7 DEF Returns
  <2>2. TypeOK'
    BY <1>1, <1>3, <1>5, <2>1 DEF Base, TypeOK
  <2>3. Structure'
    BY Zenon, <1>1, <1>5, <2>1 DEF Base, Structure, chainActive
  <2>4. QED BY Zenon, <2>2, <2>3 DEF Base
<1>8. CASE \E bad \in Block : Fails(t, m, removed, bad)
  <2>1. PICK bad \in Block : Fails(t, m, removed, bad)
    BY Zenon, <1>8
  <2>2. /\ m \in linked /\ bad \in Chain[m] /\ bad # Genesis
        /\ \A d \in Chain[pprev[bad]] \ chainActive : d \notin invalid
        /\ Advance(pprev[bad], candidates \ (removed \cup {bad}))
        /\ failedValid' = failedValid \cup {bad}
        /\ gFailed' = gFailed \cup {bad}
        /\ pindexMostWork' = [pindexMostWork EXCEPT ![t] = NoBlock]
        /\ UNCHANGED activating
    BY Zenon, <2>1 DEF Fails
  <2>3. bad \in linked /\ pprev[bad] \in linked
    BY Zenon, <1>4, <2>2, ParentFacts
  <2>4. /\ tip' \in linked /\ scripts' \subseteq Block /\ candidates' \subseteq candidates
        /\ chainActive' \cap invalid = {}
    BY Zenon, <1>6, <2>2, <2>3
  <2>5. TypeOK'
    BY SMTT(30), <1>1, <1>3, <1>4, <1>5, <2>2, <2>3, <2>4 DEF Base, TypeOK
  <2>6. Structure'
    BY <1>1, <1>4, <1>5, <2>2, <2>3, <2>4 DEF Base, Structure
  <2>7. QED BY Zenon, <2>5, <2>6 DEF Base
<1>9. CASE \E last \in Block : Succeeds(t, m, removed, last)
  <2>1. PICK last \in Block : Succeeds(t, m, removed, last)
    BY Zenon, <1>9
  <2>2. /\ m \in linked /\ last \in Chain[m]
        /\ \A d \in Chain[last] \ chainActive : d \notin invalid
        /\ Advance(last, candidates \ removed)
        /\ UNCHANGED <<failedValid, gFailed>>
    BY Zenon, <2>1 DEF Succeeds
  <2>3. PICK goal \in linked \cup {NoBlock} :
           /\ pindexMostWork' = [pindexMostWork EXCEPT ![t] = goal]
           /\ activating' \in {activating, activating \ {t}}
           /\ activating' # activating => goal = NoBlock
    BY Zenon, <2>1, <2>2 DEF Succeeds
  <2>4. /\ tip' \in linked /\ scripts' \subseteq Block /\ candidates' \subseteq candidates
        /\ chainActive' \cap invalid = {}
    BY Zenon, <1>4, <1>6, <2>2
  <2>5. TypeOK'
    BY <1>1, <1>3, <1>4, <1>5, <2>2, <2>3, <2>4 DEF Base, TypeOK
  <2>6. Structure'
    BY Zenon, <1>1, <1>4, <1>5, <2>2, <2>3, <2>4 DEF Base, Structure
  <2>7. QED BY Zenon, <2>5, <2>6 DEF Base
<1>10. QED BY Zenon, <1>2, <1>7, <1>8, <1>9

\* The RPCs.
LEMMA CommandBase ==
    ASSUME Base, NEW t \in Thread, NEW b \in Block,
           \/ InvalidateBlock(t, b) \/ ResetBlockFailureFlags(t, b) \/ PreciousBlock(t, b)
    PROVE  Base'
<1>1. /\ activating' = activating \cup {t} /\ pindexMostWork' = [pindexMostWork EXCEPT ![t] = NoBlock]
      /\ commands < MaxCommands /\ commands' = commands + 1
  BY Zenon DEF InvalidateBlock, ResetBlockFailureFlags, PreciousBlock, Command, EnterActivateBestChain
<1>2. /\ activating' \subseteq Thread /\ pindexMostWork' \in [Thread -> Block \cup {NoBlock}]
      /\ \A u \in Thread : pindexMostWork'[u] \in linked \cup {NoBlock}
      /\ \A u \in Thread \ activating' : pindexMostWork'[u] = NoBlock
      /\ commands' \in 0 .. MaxCommands
  BY <1>1, BoundAssumption DEF Base, TypeOK, Structure
<1>3. b \in known /\ UNCHANGED <<invalid, badBody, known, data, linked, scripts, nBlockSequenceId, unlinked>>
  BY Zenon DEF InvalidateBlock, ResetBlockFailureFlags, PreciousBlock, world
<1>4. /\ linked \subseteq known /\ known \subseteq Block /\ tip \in linked /\ Genesis \in linked
      /\ \A c \in linked : Chain[c] \subseteq linked
  BY Zenon DEF Base, TypeOK, Structure
<1>5. CASE InvalidateBlock(t, b)
  <2> DEFINE above == IF b \in chainActive THEN chainActive \ Chain[b] ELSE {}
             newTip == IF b \in chainActive THEN pprev[b] ELSE tip
  <2>1. /\ b # Genesis /\ tip' = newTip
        /\ failedChild' = failedChild \cup above
        /\ failedValid' = failedValid \cup {b} /\ gFailed' = gFailed \cup {b}
        /\ candidates' \subseteq candidates \cup linked
        /\ UNCHANGED <<nSequenceId, nBlockReverseSequenceId, nLastPreciousChainwork>>
    BY Zenon, <1>5 DEF InvalidateBlock, precious, NotWorse
  <2>2. above \subseteq linked
    BY Zenon, <1>4 DEF chainActive
  <2>3. tip' \in linked /\ Chain[tip'] \subseteq Chain[tip]
    <3>1. CASE b \in chainActive
      <4>1. pprev[b] \in Chain[b] /\ Chain[pprev[b]] \subseteq Chain[b]
        BY <2>1, ParentFacts
      <4>2. Chain[b] \subseteq Chain[tip]
        BY Zenon, <1>4, <3>1, ChainFacts DEF chainActive
      <4>3. QED BY Zenon, <1>4, <2>1, <3>1, <4>1, <4>2
    <3>2. CASE b \notin chainActive
      BY Zenon, <1>4, <2>1, <3>2
    <3>3. QED BY Zenon, <3>1, <3>2
  <2> HIDE DEF above, newTip
  <2>4. TypeOK'
    BY <1>2, <1>3, <1>4, <2>1, <2>2, <2>3 DEF Base, TypeOK
  <2>5. Structure'
    BY Zenon, <1>2, <1>3, <1>4, <2>1, <2>3 DEF Base, Structure, chainActive
  <2>6. QED BY Zenon, <2>4, <2>5 DEF Base
<1>6. CASE ResetBlockFailureFlags(t, b)
  <2>1. /\ failedChild' \subseteq failedChild /\ failedValid' \subseteq failedValid /\ gFailed' \subseteq gFailed
        /\ candidates' \subseteq candidates \cup linked
        /\ UNCHANGED <<nSequenceId, nBlockReverseSequenceId, nLastPreciousChainwork, tip>>
    BY Zenon, <1>6 DEF ResetBlockFailureFlags, precious
  <2>2. TypeOK'
    BY <1>2, <1>3, <1>4, <2>1 DEF Base, TypeOK
  <2>3. Structure'
    BY Zenon, <1>2, <1>3, <1>4, <2>1 DEF Base, Structure, chainActive
  <2>4. QED BY Zenon, <2>2, <2>3 DEF Base
<1>7. CASE PreciousBlock(t, b)
  <2>1. PICK id : /\ id \in {-1, nBlockReverseSequenceId}
                  /\ nSequenceId' = [nSequenceId EXCEPT ![b] = id]
                  /\ nBlockReverseSequenceId' = IF id > MinSequenceId THEN id - 1 ELSE id
    BY Zenon, <1>7 DEF PreciousBlock
  <2>2. /\ nLastPreciousChainwork' = nChainWork[tip]
        /\ candidates' \subseteq candidates \cup linked
        /\ UNCHANGED <<failedValid, failedChild, gFailed, tip>>
    BY Zenon, <1>7 DEF PreciousBlock, flags, NotWorse
  <2>3. nBlockReverseSequenceId \in MinSequenceId .. -1 /\ nSequenceId \in [Block -> Int]
    BY Zenon DEF Base, TypeOK
  <2>4. nBlockReverseSequenceId' \in MinSequenceId .. -1 /\ nSequenceId' \in [Block -> Int]
    BY <2>1, <2>3, BoundAssumption
  <2>5. nLastPreciousChainwork' \in Nat
    BY Zenon, <1>4, <2>2, WorkFacts
  <2>6. TypeOK'
    BY <1>2, <1>3, <1>4, <2>2, <2>4, <2>5 DEF Base, TypeOK
  <2>7. Structure'
    BY Zenon, <1>2, <1>3, <1>4, <2>2 DEF Base, Structure, chainActive
  <2>8. QED BY Zenon, <2>6, <2>7 DEF Base
<1>8. QED BY Zenon, <1>5, <1>6, <1>7

\* What LoadBlockIndexDB links: the stored chains, linked before or not.
LEMMA ChainedFacts ==
    ASSUME Base, NEW C, C = {b \in data : Chain[b] \subseteq data}
    PROVE  /\ linked \subseteq C /\ Genesis \in C /\ C \subseteq data
           /\ \A b \in C : Chain[b] \subseteq C
           /\ \A b \in data \ {Genesis} : pprev[b] \in C <=> b \in C
<1>1. /\ data \subseteq Block /\ Genesis \in linked /\ linked \subseteq data
      /\ \A b \in linked : Chain[b] \subseteq linked
  BY Zenon DEF Base, TypeOK, Structure
<1>2. \A b \in C : Chain[b] \subseteq C
  BY Zenon, <1>1, ChainFacts
<1>3. ASSUME NEW b \in data \ {Genesis} PROVE pprev[b] \in C <=> b \in C
  <2>1. pprev[b] \in Block /\ pprev[b] \in Chain[b] /\ Chain[b] = {b} \cup Chain[pprev[b]]
    BY Zenon, <1>1, ParentFacts
  <2>2. pprev[b] \in Chain[pprev[b]]
    BY Zenon, <2>1, ChainFacts
  <2>3. QED BY Zenon, <2>1, <2>2
<1>4. QED BY Zenon, <1>1, <1>2, <1>3

\* A restart.
LEMMA RestartBase ==
    ASSUME Base, NEW t \in Thread, LoadBlockIndexDB(t)
    PROVE  Base'
<1> DEFINE C == {b \in data : Chain[b] \subseteq data}
<1>1. /\ commands < MaxCommands /\ commands' = commands + 1
      /\ activating' = {t} /\ pindexMostWork' = [u \in Thread |-> NoBlock]
      /\ failedChild' = failedChild \cup {b \in known \ failedValid : Chain[b] \cap Failed # {}}
      /\ gFailed' = {} /\ nSequenceId' = [b \in Block |-> 0] /\ nBlockSequenceId' = 1
      /\ nBlockReverseSequenceId' = -1 /\ nLastPreciousChainwork' = 0
      /\ linked' = C /\ unlinked' = {b \in data \ {Genesis} : pprev[b] \notin C}
      /\ candidates' \subseteq C
      /\ UNCHANGED <<invalid, badBody, known, data, scripts, failedValid, tip>>
  BY Zenon DEF LoadBlockIndexDB, world, NotWorse
<1>2. /\ linked \subseteq C /\ Genesis \in C /\ C \subseteq data
      /\ \A b \in C : Chain[b] \subseteq C
      /\ \A b \in data \ {Genesis} : pprev[b] \in C <=> b \in C
  BY Zenon, ChainedFacts
<1> HIDE DEF C
<1>3. failedChild' \subseteq known
  BY Zenon, <1>1 DEF Base, TypeOK
<1>4. TypeOK'
  <2>1. nSequenceId' \in [Block -> Int] /\ commands' \in 0 .. MaxCommands /\ -1 \in MinSequenceId .. -1
    BY <1>1, BoundAssumption DEF Base, TypeOK
  <2>2. {linked', unlinked', candidates', failedChild', gFailed'} \subseteq SUBSET Block
    BY <1>1, <1>2, <1>3 DEF Base, TypeOK
  <2>3. QED BY <1>1, <1>3, <2>1, <2>2 DEF Base, TypeOK
<1>5. Structure'
  BY Zenon, <1>1, <1>2 DEF Base, Structure, chainActive
<1>6. QED BY Zenon, <1>4, <1>5 DEF Base

\* The state after the genesis block is connected.
LEMMA InitBase == Init => Base
<1>1. SUFFICES ASSUME Init PROVE Base
  BY Zenon
<1>2. Chain[Genesis] = {Genesis} /\ Genesis \in Block /\ MayFail \subseteq Block \ {Genesis}
  BY Zenon, ChainDef, TreeAssumption
<1>3. nSequenceId \in [Block -> Int] /\ -1 \in MinSequenceId .. -1 /\ 0 \in 0 .. MaxCommands
  BY <1>1, BoundAssumption DEF Init
<1>4. TypeOK
  BY <1>1, <1>2, <1>3 DEF Init, TypeOK
<1>5. Structure
  BY Zenon, <1>1, <1>2 DEF Init, Structure, chainActive
<1>6. QED BY Zenon, <1>4, <1>5 DEF Base

\* The structure of the block index survives every step.
LEMMA BaseStep == Base /\ [Next]_vars => Base'
<1>1. SUFFICES ASSUME Base, [Next]_vars PROVE Base'
  BY Zenon
<1>2. CASE UNCHANGED vars
  BY Zenon, <1>1, <1>2 DEF vars, world, flags, precious, Base, TypeOK, Structure, chainActive
<1>3. CASE Next
  BY Zenon, <1>1, <1>3, HeaderBase, ActivationBase, RestartBase, CommandBase, ProcessBase DEF Next
<1>4. QED BY Zenon, <1>1, <1>2, <1>3

\* The block index keeps its types with any number of threads and after any
\* commands: flags, stored data and tip belong to indexed blocks, the index is
\* closed under ancestors, and PreciousBlock's counter never passes its floor.
THEOREM TypeCorrect == Spec => []TypeOK
<1>1. Spec => []Base
  BY InitBase, BaseStep, PTL DEF Spec
<1>2. Base => TypeOK
  BY Zenon DEF Base
<1>3. QED BY <1>1, <1>2, PTL

-----------------------------------------------------------------------------
(* Several threads, without invalidateblock and reconsiderblock. *)

\* The marks are left to the node: no operator sets or clears them.
MarksAreOurs == {"invalidateblock", "reconsiderblock"} \cap Commands = {}

\* Every mark goes back to a block that really is invalid, and the whole active
\* chain was verified.
MarksAreEarned ==
    /\ MarksAreOurs
    /\ \A b \in Failed : Chain[b] \cap (invalid \cup badBody) # {}
    /\ gFailed \subseteq invalid
    /\ chainActive \subseteq scripts

\* Of two blocks of a chain, one is on the chain of the other.
LEMMA ChainSplits ==
    ASSUME NEW b \in Block, NEW a \in Chain[b], NEW c \in Chain[b], c \notin Chain[a]
    PROVE  a \in Chain[c]
<1>1. a \in Block /\ c \in Block
  BY Zenon, ChainFacts
<1>2. nHeight[a] <= nHeight[c] \/ nHeight[c] <= nHeight[a]
  BY <1>1, TreeAssumption
<1>3. QED BY Zenon, <1>2, ChainFacts

\* The refusal of a header marks descendants of a block of g_failed_blocks.
LEMMA HeaderFacts ==
    ASSUME Base, NEW b \in Block, HeaderArrives(b)
    PROVE  /\ UNCHANGED <<invalid, badBody, data, linked, scripts, failedValid, gFailed, nSequenceId,
                          candidates, unlinked, tip, activating, pindexMostWork>>
           /\ known' \in {known, known \cup {b}}
           /\ \A x \in failedChild' \ failedChild : x \in Block /\ Chain[x] \cap gFailed # {}
           /\ failedChild \subseteq failedChild'
<1>1. /\ UNCHANGED <<invalid, badBody, data, linked, scripts, failedValid, gFailed, nSequenceId,
                     candidates, unlinked, tip, activating, pindexMostWork>>
      /\ known' \in {known, known \cup {b}}
  BY Zenon DEF HeaderArrives, RefuseDescendant, AddToBlockIndex, world, flags
<1>2. CASE RefuseDescendant(b)
  <2>1. PICK f \in FailedAncestors(b) : failedChild' = failedChild \cup (Chain[pprev[b]] \ Chain[f])
    BY Zenon, <1>2 DEF RefuseDescendant
  <2>2. f \in Chain[pprev[b]] \cap gFailed /\ pprev[b] \in Block
    BY Zenon, <1>2, <2>1, TreeAssumption DEF FailedAncestors, RefuseDescendant
  <2>3. \A x \in Chain[pprev[b]] \ Chain[f] : x \in Block /\ f \in Chain[x]
    BY Zenon, <2>2, ChainSplits, ChainFacts
  <2>4. QED BY Zenon, <1>1, <2>1, <2>2, <2>3
<1>3. CASE AddToBlockIndex(b)
  BY Zenon, <1>1, <1>3 DEF AddToBlockIndex, flags
<1>4. QED BY Zenon, <1>2, <1>3 DEF HeaderArrives

\* ProcessNewBlock leaves the active chain alone and marks only a bad body.
LEMMA ProcessFacts ==
    ASSUME NEW t \in Thread, NEW b \in Block, NEW fRequested \in BOOLEAN,
           ProcessNewBlock(t, b, fRequested)
    PROVE  /\ UNCHANGED <<invalid, badBody, scripts, failedChild, gFailed, tip>>
           /\ t \notin activating /\ b # Genesis /\ HeaderAccepted(b) /\ known' = known \cup {b}
           /\ \/ /\ UNCHANGED <<data, linked, nSequenceId, candidates, unlinked, failedValid>>
                 /\ EnterActivateBestChain(t)
              \/ /\ UNCHANGED <<data, linked, nSequenceId, candidates, unlinked>>
                 /\ failedValid' = failedValid \cup {b} /\ b \in badBody /\ b \notin data
                 /\ UNCHANGED <<activating, pindexMostWork>>
              \/ /\ b \notin badBody \cup data /\ ReceivedBlockTransactions(b)
                 /\ UNCHANGED failedValid /\ EnterActivateBestChain(t)
BY Zenon DEF ProcessNewBlock, AcceptBlock, NotWanted, NoActivation, world

\* The marks stay earned.
LEMMA EarnedStep == Base /\ MarksAreEarned /\ [Next]_vars => MarksAreEarned'
<1> DEFINE W == invalid \cup badBody
           Earned(x) == Chain[x] \cap W # {}
<1>1. SUFFICES ASSUME Base, MarksAreEarned, [Next]_vars PROVE MarksAreEarned'
  BY Zenon
<1>2. /\ \A b \in Failed : b \in Block /\ Earned(b)
      /\ gFailed \subseteq invalid /\ chainActive \subseteq scripts /\ tip \in Block
  BY Zenon, <1>1 DEF MarksAreEarned, Base, TypeOK, Failed
<1>3. ASSUME NEW x \in Block, NEW y \in Chain[x], Earned(y) PROVE Earned(x)
  BY Zenon, <1>3, ChainFacts
<1>4. ASSUME UNCHANGED <<invalid, badBody>>, \A x \in (failedValid' \cup failedChild') \ Failed : Earned(x),
             gFailed' \subseteq invalid, chainActive' \subseteq scripts'
      PROVE  MarksAreEarned'
  BY Zenon, <1>1, <1>2, <1>4 DEF MarksAreEarned, Failed
<1> HIDE DEF Earned
<1>5. CASE UNCHANGED vars
  BY Zenon, <1>1, <1>5 DEF vars, world, flags, MarksAreEarned, Failed, chainActive
<1>6. ASSUME NEW b \in Block, HeaderArrives(b) PROVE MarksAreEarned'
  <2>1. /\ UNCHANGED <<invalid, badBody, scripts, failedValid, gFailed, tip>>
        /\ \A x \in failedChild' \ failedChild : Chain[x] \cap gFailed # {}
    BY Zenon, <1>1, <1>6, HeaderFacts
  <2>2. \A x \in failedChild' \ failedChild : Earned(x)
    BY Zenon, <1>2, <2>1 DEF Earned
  <2>3. QED BY Zenon, <1>2, <1>4, <2>1, <2>2 DEF Failed, chainActive
<1>7. ASSUME NEW t \in Thread, NEW b \in Block, NEW fRequested \in BOOLEAN,
             ProcessNewBlock(t, b, fRequested)
      PROVE  MarksAreEarned'
  <2>1. /\ UNCHANGED <<invalid, badBody, scripts, failedChild, gFailed, tip>>
        /\ failedValid' = failedValid \/ (failedValid' = failedValid \cup {b} /\ b \in badBody)
    BY <1>7, ProcessFacts
  <2>2. b \in badBody => Earned(b)
    BY Zenon, ChainFacts DEF Earned
  <2>3. QED BY Zenon, <1>2, <1>4, <2>1, <2>2 DEF Failed, chainActive
<1>8. ASSUME NEW t \in Thread, LoadBlockIndexDB(t) PROVE MarksAreEarned'
  <2>1. /\ UNCHANGED <<invalid, badBody, scripts, failedValid, tip>> /\ gFailed' = {}
        /\ failedChild' = failedChild \cup {x \in known \ failedValid : Chain[x] \cap Failed # {}}
    BY Zenon, <1>8 DEF LoadBlockIndexDB, world
  <2>2. known \subseteq Block
    BY Zenon, <1>1 DEF Base, TypeOK
  <2>3. \A x \in failedChild' \ failedChild : Earned(x)
    BY Zenon, <1>2, <1>3, <2>1, <2>2
  <2>4. QED BY Zenon, <1>2, <1>4, <2>1, <2>3 DEF Failed, chainActive
<1>9. ASSUME NEW t \in Thread, NEW b \in Block, PreciousBlock(t, b) PROVE MarksAreEarned'
  BY Zenon, <1>2, <1>4, <1>9 DEF PreciousBlock, flags, world, Failed, chainActive
<1>10. ASSUME NEW t \in Thread, ActivateBestChain(t) PROVE MarksAreEarned'
  <2>1. UNCHANGED <<invalid, badBody>>
    BY Zenon, <1>1, <1>10, ActivationFacts
  <2>2. PICK m, removed :
          /\ IsGoal(t, m, removed)
          /\ \/ Returns(t, m, removed)
             \/ \E bad \in Block : Fails(t, m, removed, bad)
             \/ \E last \in Block : Succeeds(t, m, removed, last)
    BY Zenon, <1>1, <1>10, ActivationFacts
  <2>3. \A x \in failedChild' \ failedChild : Earned(x)
    <3>1. \A r \in removed : r \in Block /\ \E f \in Chain[r] : f \in Failed
      BY Zenon, <1>1, <2>2 DEF IsGoal, OffChain, Base, TypeOK
    <3>2. failedChild' \subseteq failedChild \cup removed
      BY Zenon, <2>2 DEF IsGoal
    <3>3. QED BY Zenon, <1>2, <1>3, <3>1, <3>2
  <2>4. ASSUME NEW last \in linked, NEW S, Advance(last, S),
               \A d \in Chain[last] \ chainActive : d \notin invalid
        PROVE  chainActive' \subseteq scripts'
    <3>1. Chain[last] \subseteq linked /\ linked \cap badBody = {} /\ chainActive \cap invalid = {}
          /\ last \in Block
      BY Zenon, <1>1 DEF Base, TypeOK, Structure
    <3>2. ~Earned(last)
      BY Zenon, <2>4, <3>1 DEF Earned
    <3>3. Chain[last] \cap Failed = {}
      BY Zenon, <1>2, <1>3, <3>1, <3>2
    <3>4. chainActive' = Chain[last] /\ scripts' = scripts \cup ((Chain[last] \ chainActive) \ Failed)
      BY Zenon, <2>4 DEF Advance, chainActive
    <3>5. QED BY Zenon, <1>2, <3>3, <3>4
  <2>5. linked \subseteq Block /\ \A x \in linked : Chain[x] \subseteq linked
    BY Zenon, <1>1 DEF Base, TypeOK, Structure
  <2>6. CASE Returns(t, m, removed)
    BY Zenon, <1>2, <1>4, <2>1, <2>3, <2>6 DEF Returns, Failed, chainActive
  <2>7. CASE \E bad \in Block : Fails(t, m, removed, bad)
    <3>1. PICK bad \in Block : Fails(t, m, removed, bad)
      BY Zenon, <2>7
    <3>2. /\ bad \in invalid /\ bad # Genesis /\ m \in linked /\ bad \in Chain[m]
          /\ \A d \in Chain[pprev[bad]] \ chainActive : d \notin invalid
          /\ Advance(pprev[bad], candidates \ (removed \cup {bad}))
          /\ failedValid' = failedValid \cup {bad} /\ gFailed' = gFailed \cup {bad}
      BY Zenon, <3>1 DEF Fails
    <3>3. pprev[bad] \in linked /\ Earned(bad)
      BY Zenon, <2>5, <3>2, ParentFacts, ChainFacts DEF Earned
    <3>4. chainActive' \subseteq scripts'
      BY Zenon, <2>4, <3>2, <3>3
    <3>5. QED BY Zenon, <1>2, <1>4, <2>1, <2>3, <3>2, <3>3, <3>4 DEF Failed
  <2>8. CASE \E last \in Block : Succeeds(t, m, removed, last)
    <3>1. PICK last \in Block : Succeeds(t, m, removed, last)
      BY Zenon, <2>8
    <3>2. chainActive' \subseteq scripts'
      BY Zenon, <2>4, <2>5, <3>1 DEF Succeeds
    <3>3. QED BY Zenon, <1>2, <1>4, <2>1, <2>3, <3>1, <3>2 DEF Succeeds, Failed
  <2>9. QED BY Zenon, <2>2, <2>6, <2>7, <2>8
<1>11. \A t \in Thread, b \in Block : ~InvalidateBlock(t, b) /\ ~ResetBlockFailureFlags(t, b)
  BY Zenon, <1>1 DEF MarksAreEarned, MarksAreOurs, InvalidateBlock, ResetBlockFailureFlags, Command
<1>12. QED BY Zenon, <1>1, <1>5, <1>6, <1>7, <1>8, <1>9, <1>10, <1>11 DEF Next

\* ConnectTip raises a block to BLOCK_VALID_SCRIPTS only when it is not failed:
\* as long as no operator touches the marks, the active chain is linked,
\* verified and free of failed blocks, however many threads activate chains and
\* whatever goals they keep while cs_main is released.
THEOREM ActiveChainValidWithThreads ==
    MarksAreOurs /\ Spec => []ActiveChainIsValid
<1>1. Init /\ MarksAreOurs => MarksAreEarned
  BY Zenon, ChainDef DEF Init, MarksAreEarned, Failed, chainActive
<1>2. MarksAreOurs /\ Spec => [](Base /\ MarksAreEarned)
  BY <1>1, InitBase, BaseStep, EarnedStep, PTL DEF Spec
<1>3. Base /\ MarksAreEarned => ActiveChainIsValid
  <2>1. SUFFICES ASSUME Base, MarksAreEarned PROVE ActiveChainIsValid
    BY Zenon
  <2>2. /\ chainActive \subseteq linked /\ linked \subseteq Block /\ linked \cap badBody = {}
        /\ chainActive \cap invalid = {} /\ tip \in Block
    BY Zenon, <2>1 DEF Base, TypeOK, Structure, chainActive
  <2>3. \A b \in chainActive : Chain[b] \subseteq chainActive
    BY Zenon, <2>2, ChainFacts DEF chainActive
  <2>4. QED BY Zenon, <2>1, <2>2, <2>3 DEF MarksAreEarned, ActiveChainIsValid
<1>4. QED BY <1>2, <1>3, PTL

-----------------------------------------------------------------------------
(* One thread, without reconsiderblock. *)

\* One thread runs ActivateBestChain, and marks are never cleared.
Alone == (\A t, u \in Thread : t = u) /\ "reconsiderblock" \notin Commands

\* The marks agree, and the active chain carries none.
MarksAgree ==
    /\ gFailed \subseteq failedValid /\ FailedHasCause
    /\ chainActive \subseteq scripts \ Failed

\* Candidates are not below the tip, and a goal kept across a release of
\* cs_main is neither, with no failed block on its chain.  Only blocks without
\* work of their own may be all that is missing to it.
GoalsAgree ==
    /\ \A c \in candidates : nChainWork[tip] <= nChainWork[c]
    /\ \A t \in Thread : pindexMostWork[t] # NoBlock =>
          /\ pindexMostWork[t] # tip /\ nChainWork[tip] <= nChainWork[pindexMostWork[t]]
          /\ Weightless = {} => nChainWork[tip] < nChainWork[pindexMostWork[t]]
          /\ Chain[pindexMostWork[t]] \cap Failed = {}

IndexAgrees == Alone /\ MarksAgree /\ ReceivedIsLinked /\ UnlinkedIsComplete /\ GoalsAgree

\* A chain without a block marked BLOCK_FAILED_VALID has no failed block.
LEMMA CleanFacts ==
    ASSUME Base, IndexAgrees, NEW b \in Block
    PROVE  /\ Chain[b] \cap Failed # {} <=> Chain[b] \cap failedValid # {}
           /\ Chain[b] \cap Failed # {} => b \notin chainActive
           /\ \A a \in Chain[b] : Chain[a] \cap failedValid # {} => Chain[b] \cap failedValid # {}
<1>1. /\ \A f \in Failed : f \in Block /\ Chain[f] \cap failedValid # {}
      /\ failedValid \subseteq Failed /\ chainActive \cap Failed = {} /\ tip \in Block
  BY Zenon DEF Base, TypeOK, IndexAgrees, MarksAgree, FailedHasCause, Failed
<1>2. \A a \in Chain[b] : Chain[a] \subseteq Chain[b]
  BY Zenon, ChainFacts
<1>3. b \in chainActive => Chain[b] \subseteq chainActive
  BY Zenon, <1>1, ChainFacts DEF chainActive
<1>4. QED BY Zenon, <1>1, <1>2, <1>3

\* With one thread, nothing but the loop itself and headers comes between two
\* passes of ActivateBestChain: a thread that is not in it finds no goal kept.
LEMMA AloneFacts ==
    ASSUME Base, IndexAgrees, NEW t \in Thread
    PROVE  /\ t \notin activating => activating = {} /\ \A u \in Thread : pindexMostWork[u] = NoBlock
           /\ t \in activating => activating = {t}
           /\ EnterActivateBestChain(t) /\ t \notin activating =>
                 activating' = {t} /\ \A u \in Thread : pindexMostWork'[u] = NoBlock
<1>1. \A u \in Thread : u = t
  BY Zenon DEF IndexAgrees, Alone
<1>2. activating \subseteq Thread /\ pindexMostWork \in [Thread -> Block \cup {NoBlock}]
  BY Zenon DEF Base, TypeOK
<1>3. QED BY <1>1, <1>2 DEF EnterActivateBestChain, Base, Structure

\* Marks put on descendants of marked blocks disturb neither the active chain
\* nor a goal.
LEMMA MarkDescendants ==
    ASSUME Base, IndexAgrees, UNCHANGED <<scripts, failedValid, gFailed, tip>>,
           failedChild \subseteq failedChild',
           \A x \in failedChild' \ failedChild : x \in Block /\ Chain[x] \cap failedValid # {}
    PROVE  /\ MarksAgree'
           /\ \A b \in Block : Chain[b] \cap Failed' # {} <=> Chain[b] \cap Failed # {}
<1>1. \A b \in Block : Chain[b] \cap Failed # {} <=> Chain[b] \cap failedValid # {}
  BY Zenon, CleanFacts
<1>2. ASSUME NEW b \in Block, Chain[b] \cap Failed' # {} PROVE Chain[b] \cap failedValid # {}
  <2>1. PICK x \in Chain[b] : x \in Failed \/ x \in failedChild' \ failedChild
    BY Zenon, <1>2 DEF Failed
  <2>2. CASE x \in Failed
    BY Zenon, <1>1, <2>2
  <2>3. CASE x \in failedChild' \ failedChild
    BY Zenon, <2>3, CleanFacts
  <2>4. QED BY Zenon, <2>1, <2>2, <2>3
<1>3. \A b \in Block : Chain[b] \cap Failed' # {} <=> Chain[b] \cap Failed # {}
  BY Zenon, <1>1, <1>2 DEF Failed
<1>4. FailedHasCause'
  BY Zenon DEF IndexAgrees, MarksAgree, FailedHasCause, Failed
<1>5. chainActive' \cap Failed' = {} /\ chainActive' = chainActive
  <2>1. tip \in Block /\ Chain[tip] \cap Failed = {}
    BY Zenon DEF Base, TypeOK, IndexAgrees, MarksAgree, chainActive
  <2>2. QED BY Zenon, <1>3, <2>1 DEF chainActive
<1>6. MarksAgree'
  BY Zenon, <1>4, <1>5 DEF IndexAgrees, MarksAgree
<1>7. QED BY Zenon, <1>3, <1>6

\* A header comes, or is refused.
LEMMA HeaderAgrees ==
    ASSUME Base, IndexAgrees, NEW b \in Block, HeaderArrives(b)
    PROVE  IndexAgrees' /\ \A x \in Block : Chain[x] \cap Failed' # {} <=> Chain[x] \cap Failed # {}
<1>1. /\ UNCHANGED <<invalid, data, linked, scripts, failedValid, gFailed, candidates, unlinked,
                     tip, pindexMostWork>>
      /\ known' \in {known, known \cup {b}}
      /\ \A x \in failedChild' \ failedChild : x \in Block /\ Chain[x] \cap gFailed # {}
      /\ failedChild \subseteq failedChild'
  BY Zenon, HeaderFacts
<1>2. gFailed \subseteq failedValid
  BY Zenon DEF IndexAgrees, MarksAgree
<1>3. /\ MarksAgree'
      /\ \A x \in Block : Chain[x] \cap Failed' # {} <=> Chain[x] \cap Failed # {}
  BY Zenon, <1>1, <1>2, MarkDescendants
<1>4. /\ b \in Chain[b] /\ linked \subseteq data /\ unlinked \subseteq data /\ data \subseteq known
      /\ pindexMostWork \in [Thread -> Block \cup {NoBlock}]
  BY Zenon, ChainFacts DEF Base, TypeOK, Structure
<1>5. ReceivedIsLinked'
  BY Zenon, <1>1, <1>4 DEF IndexAgrees, ReceivedIsLinked
<1>6. UnlinkedIsComplete'
  BY Zenon, <1>1, <1>4 DEF IndexAgrees, UnlinkedIsComplete
<1>7. GoalsAgree'
  BY Zenon, <1>1, <1>3, <1>4 DEF IndexAgrees, GoalsAgree
<1>8. QED BY Zenon, <1>3, <1>5, <1>6, <1>7 DEF IndexAgrees

\* ReceivedBlockTransactions links whatever waited for the block.
LEMMA LinkAgrees ==
    ASSUME Base, IndexAgrees, NEW b \in Block, b # Genesis, b \notin data, Link(b),
           data' = data \cup {b}, known' = known \cup {b}, UNCHANGED failedValid
    PROVE  ReceivedIsLinked' /\ UnlinkedIsComplete'
<1>1. /\ unlinked \in SUBSET Block /\ linked \subseteq data /\ data \subseteq known /\ known \subseteq Block
      /\ unlinked \subseteq data \ linked /\ Genesis \in linked
      /\ \A c \in linked : Chain[c] \subseteq linked
      /\ \A c \in known : Chain[c] \subseteq known
  BY Zenon DEF Base, TypeOK, Structure
<1>2. /\ b \in NowLinked(b) /\ NowLinked(b) \subseteq {b} \cup unlinked
      /\ \A c \in NowLinked(b) : Chain[c] \subseteq Chain[b] \cup NowLinked(b)
  BY Zenon, <1>1, NowLinkedFacts
<1>3. pprev[b] \in linked /\ linked' = linked \cup NowLinked(b) /\ unlinked' = unlinked \ NowLinked(b)
  BY Zenon DEF Link
<1>4. /\ \A c \in known : Chain[c] \subseteq data \ failedValid => c \in linked
      /\ \A c \in known \ {Genesis} :
            c \in data \ linked /\ Chain[c] \cap failedValid = {} => c \in unlinked
  BY Zenon DEF IndexAgrees, ReceivedIsLinked, UnlinkedIsComplete
<1>5. Chain[b] \subseteq linked \cup {b}
  BY <1>1, <1>3, ParentFacts
<1>6. \A c \in linked' : Chain[c] \subseteq data'
  BY Zenon, <1>1, <1>2, <1>3, <1>5
<1>7. ASSUME NEW c \in known', Chain[c] \subseteq data' \ failedValid, b \in Chain[c]
      PROVE  c \in NowLinked(b)
  <2>1. c \in Block
    BY Zenon, <1>1
  <2>2. ASSUME NEW d \in Chain[c] \ Chain[b] PROVE d \in unlinked
    <3>1. b \in Chain[d] /\ d \in Block /\ Chain[d] \subseteq Chain[c]
      BY Zenon, <1>7, <2>1, ChainSplits, ChainFacts
    <3>2. d # b /\ d \in data \ linked
      <4>1. d # b
        BY Zenon, ChainFacts
      <4>2. QED BY Zenon, <1>1, <1>7, <3>1, <4>1
    <3>3. QED BY <1>1, <1>4, <1>7, <3>1, <3>2
  <2>3. CASE c = b
    BY Zenon, <1>2, <2>3
  <2>4. CASE c # b
    <3>1. c \notin Chain[b]
      BY <1>7, <2>1, <2>4, ChainFacts, TreeAssumption
    <3>2. c \in unlinked
      BY Zenon, <2>1, <2>2, <3>1, ChainFacts
    <3>3. QED BY Zenon, <1>7, <2>2, <3>2 DEF NowLinked
  <2>5. QED BY Zenon, <2>3, <2>4
<1>8. ReceivedIsLinked'
  <2>1. \A c \in known' : Chain[c] \subseteq data' \ failedValid => c \in linked'
    BY Zenon, <1>1, <1>3, <1>4, <1>7, ChainFacts
  <2>2. QED BY Zenon, <1>6, <2>1 DEF ReceivedIsLinked
<1>9. UnlinkedIsComplete'
  BY Zenon, <1>1, <1>2, <1>3, <1>4 DEF UnlinkedIsComplete
<1>10. QED BY Zenon, <1>8, <1>9

\* A block whose parent is not linked waits.
LEMMA ParkAgrees ==
    ASSUME Base, IndexAgrees, NEW b \in Block, b # Genesis, b \notin data, Park(b), pprev[b] \in known,
           data' = data \cup {b}, known' = known \cup {b}, UNCHANGED failedValid
    PROVE  ReceivedIsLinked' /\ UnlinkedIsComplete'
<1>1. /\ linked \subseteq data /\ data \subseteq known /\ known \subseteq Block
      /\ unlinked \subseteq data \ linked
  BY Zenon DEF Base, TypeOK, Structure
<1>2. /\ pprev[b] \notin linked /\ linked' = linked
      /\ unlinked' = unlinked \cup (IF pprev[b] \in Failed THEN {} ELSE {b})
  BY Zenon DEF Park
<1>3. /\ \A c \in known : c \in linked => Chain[c] \subseteq data
      /\ \A c \in known : Chain[c] \subseteq data \ failedValid => c \in linked
      /\ \A c \in known \ {Genesis} :
            c \in data \ linked /\ Chain[c] \cap failedValid = {} => c \in unlinked
  BY Zenon DEF IndexAgrees, ReceivedIsLinked, UnlinkedIsComplete
<1>4. /\ Chain[b] = {b} \cup Chain[pprev[b]] /\ b \notin Chain[pprev[b]]
      /\ pprev[b] \in Block /\ pprev[b] \in Chain[b]
  BY Zenon, ParentFacts
<1>5. ASSUME NEW c \in known', Chain[c] \subseteq data' \ failedValid PROVE c \in linked
  <2>1. c \in Block /\ c \in Chain[c]
    BY <1>1, ChainFacts
  <2>2. b \notin Chain[c]
    <3>1. SUFFICES ASSUME b \in Chain[c] PROVE FALSE
      BY Zenon
    <3>2. Chain[pprev[b]] \subseteq Chain[c]
      BY Zenon, <1>4, <2>1, <3>1, ChainFacts
    <3>3. QED BY Zenon, <1>2, <1>3, <1>4, <1>5, <3>2
  <2>3. QED BY Zenon, <1>3, <1>5, <2>1, <2>2
<1>6. ReceivedIsLinked'
  BY Zenon, <1>1, <1>2, <1>3, <1>5 DEF ReceivedIsLinked
<1>7. Chain[b] \cap failedValid = {} => pprev[b] \notin Failed
  BY Zenon, <1>4, CleanFacts
<1>8. UnlinkedIsComplete'
  BY Zenon, <1>1, <1>2, <1>3, <1>7 DEF UnlinkedIsComplete
<1>9. QED BY Zenon, <1>6, <1>8

\* ProcessNewBlock, up to ActivateBestChain.
LEMMA ProcessAgrees ==
    ASSUME Base, IndexAgrees, NEW t \in Thread, NEW b \in Block, NEW fRequested \in BOOLEAN,
           ProcessNewBlock(t, b, fRequested)
    PROVE  IndexAgrees'
<1>1. /\ UNCHANGED <<invalid, badBody, scripts, failedChild, gFailed, tip>>
      /\ t \notin activating /\ b # Genesis /\ HeaderAccepted(b) /\ known' = known \cup {b}
  BY ProcessFacts
<1>2. \A u \in Thread : pindexMostWork[u] = NoBlock
  BY Zenon, <1>1, AloneFacts
<1>3. /\ linked \subseteq data /\ unlinked \subseteq data \ linked /\ data \subseteq known /\ known \subseteq Block
      /\ tip \in linked /\ chainActive \subseteq linked /\ candidates \subseteq linked /\ b \in Chain[b]
      /\ nSequenceId \in [Block -> Int]
      /\ \A c \in known : Chain[c] \subseteq known
  BY Zenon, ChainFacts DEF Base, TypeOK, Structure, chainActive
<1>4. CASE /\ UNCHANGED <<data, linked, candidates, unlinked>>
           /\ b \notin data \/ failedValid' = failedValid
           /\ failedValid' \in {failedValid, failedValid \cup {b}}
           /\ \A u \in Thread : pindexMostWork'[u] = NoBlock
  <2>1. MarksAgree'
    BY SMTT(30), <1>1, <1>3, <1>4 DEF IndexAgrees, MarksAgree, FailedHasCause, Failed, chainActive
  <2>2. ReceivedIsLinked'
    BY <1>1, <1>3, <1>4, ChainFacts DEF IndexAgrees, ReceivedIsLinked
  <2>3. UnlinkedIsComplete'
    BY Zenon, <1>1, <1>3, <1>4 DEF IndexAgrees, UnlinkedIsComplete
  <2>4. GoalsAgree'
    BY Zenon, <1>1, <1>4 DEF IndexAgrees, GoalsAgree
  <2>5. QED BY Zenon, <2>1, <2>2, <2>3, <2>4 DEF IndexAgrees
<1>5. CASE /\ b \notin data /\ ReceivedBlockTransactions(b) /\ UNCHANGED failedValid
           /\ \A u \in Thread : pindexMostWork'[u] = NoBlock
  <2>1. MarksAgree'
    BY Zenon, <1>1, <1>5 DEF IndexAgrees, MarksAgree, FailedHasCause, Failed, chainActive
  <2>2. data' = data \cup {b} /\ pprev[b] \in known
    BY Zenon, <1>1, <1>3, <1>5, ParentFacts DEF ReceivedBlockTransactions, HeaderAccepted, ParentGood
  <2>3. ReceivedIsLinked' /\ UnlinkedIsComplete'
    BY Zenon, <1>1, <1>5, <2>2, LinkAgrees, ParkAgrees DEF ReceivedBlockTransactions
  <2>4. \A c \in candidates' : nChainWork[tip] <= nChainWork[c]
    <3>1. CASE Link(b)
      <4>1. nSequenceId' \in [Block -> Int] /\ linked' \subseteq Block
        BY ProcessBase DEF Base, TypeOK
      <4>2. linked' = linked \cup NowLinked(b) /\ candidates' = candidates \cup NotWorse(NowLinked(b), nSequenceId', tip)
        BY Zenon, <3>1 DEF Link
      <4>3. \A c \in NotWorse(NowLinked(b), nSequenceId', tip) : nChainWork[tip] <= nChainWork[c]
        BY Zenon, <1>3, <4>1, <4>2, OrderFacts DEF NotWorse
      <4>4. QED BY Zenon, <4>2, <4>3 DEF IndexAgrees, GoalsAgree
    <3>2. CASE Park(b)
      BY Zenon, <3>2 DEF Park, IndexAgrees, GoalsAgree
    <3>3. QED BY Zenon, <1>5, <3>1, <3>2 DEF ReceivedBlockTransactions
  <2>5. GoalsAgree'
    BY Zenon, <1>1, <1>5, <2>4 DEF GoalsAgree
  <2>6. QED BY Zenon, <2>1, <2>3, <2>5 DEF IndexAgrees
<1>6. EnterActivateBestChain(t) => \A u \in Thread : pindexMostWork'[u] = NoBlock
  BY Zenon, <1>1, AloneFacts
<1>7. QED BY SMTT(30), <1>2, <1>4, <1>5, <1>6, ProcessFacts

\* The goal of a pass of ActivateBestChain is off the active chain and clean.
LEMMA GoalFacts ==
    ASSUME Base, IndexAgrees, NEW t \in Thread, NEW m, NEW removed, IsGoal(t, m, removed)
    PROVE  /\ \A r \in removed : r \in Block /\ Chain[r] \cap Failed # {} /\ Chain[r] \cap failedValid # {}
           /\ m \notin {NoBlock, tip} =>
                 /\ m \in linked /\ m \in Block /\ m \notin chainActive
                 /\ Chain[m] \cap Failed = {} /\ nChainWork[tip] <= nChainWork[m]
<1>1. /\ linked \subseteq Block /\ known \subseteq Block /\ tip \in Block /\ candidates \subseteq linked
      /\ chainActive \cap Failed = {}
  BY Zenon DEF Base, TypeOK, Structure, IndexAgrees, MarksAgree
<1>2. \A r \in removed : r \in Block /\ Chain[r] \cap Failed # {}
  BY Zenon, <1>1 DEF IsGoal, OffChain
<1>3. \A r \in removed : Chain[r] \cap failedValid # {}
  BY Zenon, <1>2, CleanFacts
<1>4. ASSUME m \notin {NoBlock, tip}
      PROVE  m \in linked /\ Chain[m] \cap Failed = {} /\ nChainWork[tip] <= nChainWork[m]
  <2>1. m \in linked
    BY Zenon, <1>4 DEF IsGoal
  <2>2. CASE m = pindexMostWork[t]
    BY Zenon, <1>4, <2>1, <2>2 DEF IndexAgrees, GoalsAgree
  <2>3. CASE m \in Usable
    <3>1. m \in candidates /\ (Chain[m] \ chainActive) \cap Failed = {}
      BY Zenon, <2>3 DEF Usable, OffChain
    <3>2. QED BY Zenon, <1>1, <2>1, <3>1 DEF IndexAgrees, GoalsAgree
  <2>4. QED BY Zenon, <1>4, <2>2, <2>3 DEF IsGoal
<1>5. ASSUME m \notin {NoBlock, tip} PROVE m \notin chainActive
  <2>1. m \in chainActive => nChainWork[m] < nChainWork[tip]
    BY Zenon, <1>5, ActiveWork
  <2>2. nChainWork[tip] \in Nat /\ nChainWork[m] \in Nat /\ nChainWork[tip] <= nChainWork[m]
    BY Zenon, <1>1, <1>4, <1>5, WorkFacts
  <2>3. QED BY <2>1, <2>2
<1>6. QED BY Zenon, <1>1, <1>2, <1>3, <1>4, <1>5

\* The active chain after a move: verified, and without a failed block.
LEMMA AdvanceFacts ==
    ASSUME Base, IndexAgrees, NEW last \in linked, Chain[last] \cap Failed = {},
           NEW S \in SUBSET candidates, Advance(last, S)
    PROVE  /\ tip' = last /\ chainActive' = Chain[last] /\ scripts \subseteq scripts'
           /\ chainActive' \subseteq scripts' /\ chainActive' \cap Failed = {}
           /\ candidates' \subseteq S
           /\ \A c \in S : c \in candidates' \/ (Worse(nSequenceId, c, last) /\ last \notin chainActive)
           /\ \A c \in candidates' : last \in chainActive \/ ~Worse(nSequenceId, c, last)
           /\ \A c \in candidates' : nChainWork[last] <= nChainWork[c]
<1>1. /\ tip' = last /\ candidates' = IF last \in chainActive THEN S ELSE NotWorse(S, nSequenceId, last)
      /\ scripts' = scripts \cup ((Chain[last] \ chainActive) \ Failed)
  BY Zenon DEF Advance
<1>2. chainActive' = Chain[last]
  BY Zenon, <1>1 DEF chainActive
<1>3. chainActive \subseteq scripts
  BY Zenon DEF IndexAgrees, MarksAgree
<1>4. /\ candidates' \subseteq S
      /\ \A c \in S : c \in candidates' \/ (Worse(nSequenceId, c, last) /\ last \notin chainActive)
      /\ \A c \in candidates' : last \in chainActive \/ ~Worse(nSequenceId, c, last)
  BY Zenon, <1>1 DEF NotWorse
<1>5. ASSUME NEW c \in candidates' PROVE nChainWork[last] <= nChainWork[c]
  <2>1. /\ c \in Block /\ last \in Block /\ tip \in Block /\ nSequenceId \in [Block -> Int]
        /\ nChainWork[tip] <= nChainWork[c]
    BY Zenon, <1>4 DEF Base, TypeOK, IndexAgrees, GoalsAgree
  <2>2. CASE last \in chainActive
    <3>1. last = tip \/ nChainWork[last] < nChainWork[tip]
      BY Zenon, <2>2, ActiveWork
    <3>2. nChainWork[tip] \in Nat /\ nChainWork[last] \in Nat /\ nChainWork[c] \in Nat
      BY Zenon, <2>1, WorkFacts
    <3>3. QED BY <2>1, <3>1, <3>2
  <2>3. CASE last \notin chainActive
    BY Zenon, <1>4, <2>1, <2>3, OrderFacts
  <2>4. QED BY Zenon, <2>2, <2>3
<1>6. QED BY Zenon, <1>1, <1>2, <1>3, <1>4, <1>5

\* A pass of ActivateBestChain.
LEMMA ActivationAgrees ==
    ASSUME Base, IndexAgrees, NEW t \in Thread, ActivateBestChain(t)
    PROVE  IndexAgrees' /\ (nChainWork[tip'] >= nChainWork[tip] \/ failedValid' # failedValid)
<1>1. UNCHANGED <<invalid, known, data, linked, nSequenceId, unlinked>>
  BY Zenon, ActivationFacts
<1>2. PICK m, removed :
        /\ IsGoal(t, m, removed)
        /\ \/ Returns(t, m, removed)
           \/ \E bad \in Block : Fails(t, m, removed, bad)
           \/ \E last \in Block : Succeeds(t, m, removed, last)
  BY Zenon, ActivationFacts
<1>3. /\ \A r \in removed : r \in Block /\ Chain[r] \cap Failed # {} /\ Chain[r] \cap failedValid # {}
      /\ m \notin {NoBlock, tip} =>
            /\ m \in linked /\ m \in Block /\ m \notin chainActive
            /\ Chain[m] \cap Failed = {} /\ nChainWork[tip] <= nChainWork[m]
  BY Zenon, <1>2, GoalFacts
<1>4. /\ linked \subseteq Block /\ tip \in Block /\ NoBlock \notin linked /\ nChainWork \in [Block -> Nat]
      /\ pindexMostWork \in [Thread -> Block \cup {NoBlock}]
      /\ \A c \in linked : Chain[c] \subseteq linked
      /\ \A u \in Thread : u = t
  BY Zenon, TreeAssumption, WorkFacts DEF Base, TypeOK, Structure, IndexAgrees, Alone
<1>5. failedChild' = failedChild \cup (removed \ Failed)
  BY Zenon, <1>2 DEF IsGoal
<1>6. \A S \in {{}} \cup {{c} : c \in Block} :
         failedValid' = failedValid \cup S => ReceivedIsLinked' /\ UnlinkedIsComplete'
  BY Zenon, <1>1 DEF IndexAgrees, ReceivedIsLinked, UnlinkedIsComplete
<1>7. ASSUME NEW b \in Block, Chain[b] \cap Failed = {} PROVE Chain[b] \cap removed = {}
  BY Zenon, <1>3, <1>7, CleanFacts
<1>8. CASE Returns(t, m, removed)
  <2>1. /\ UNCHANGED <<tip, scripts, failedValid, gFailed>> /\ candidates' \subseteq candidates
        /\ pindexMostWork' = [pindexMostWork EXCEPT ![t] = NoBlock]
    BY Zenon, <1>8 DEF Returns
  <2>2. MarksAgree'
    BY Zenon, <1>3, <1>5, <2>1, MarkDescendants
  <2>3. GoalsAgree'
    BY Zenon, <1>4, <2>1 DEF IndexAgrees, GoalsAgree
  <2>4. ReceivedIsLinked' /\ UnlinkedIsComplete'
    BY Zenon, <1>6, <2>1
  <2>5. QED BY <1>4, <2>1, <2>2, <2>3, <2>4 DEF IndexAgrees
<1>9. ASSUME NEW bad \in Block, Fails(t, m, removed, bad)
      PROVE  IndexAgrees' /\ failedValid' # failedValid
  <2>1. /\ m \in linked \ {tip} /\ bad \in Chain[m] \ chainActive /\ bad # Genesis
        /\ Advance(pprev[bad], candidates \ (removed \cup {bad}))
        /\ failedValid' = failedValid \cup {bad} /\ gFailed' = gFailed \cup {bad}
        /\ pindexMostWork' = [pindexMostWork EXCEPT ![t] = NoBlock]
    BY Zenon, <1>9 DEF Fails
  <2>2. Chain[m] \cap Failed = {} /\ m \in Block
    BY Zenon, <1>3, <1>4, <2>1
  <2>3. /\ pprev[bad] \in Chain[m] /\ Chain[pprev[bad]] \subseteq Chain[m]
        /\ bad \notin Chain[pprev[bad]] /\ pprev[bad] \in linked
    <3>1. pprev[bad] \in Chain[bad] /\ bad \notin Chain[pprev[bad]]
      BY Zenon, <2>1, ParentFacts
    <3>2. Chain[bad] \subseteq Chain[m]
      BY Zenon, <2>1, <2>2, ChainFacts
    <3>3. QED BY Zenon, <1>4, <2>1, <2>2, <3>1, <3>2, ChainFacts
  <2>4. /\ tip' = pprev[bad] /\ chainActive' = Chain[pprev[bad]] /\ chainActive' \subseteq scripts'
        /\ \A c \in candidates' : nChainWork[tip'] <= nChainWork[c]
    BY <2>1, <2>2, <2>3, AdvanceFacts
  <2>5. chainActive' \cap Failed' = {}
    <3>1. Chain[m] \cap removed = {}
      BY Zenon, <1>7, <2>2
    <3>2. Failed' \subseteq Failed \cup removed \cup {bad}
      BY Zenon, <1>5, <2>1 DEF Failed
    <3>3. QED BY Zenon, <2>2, <2>3, <2>4, <3>1, <3>2
  <2>6. FailedHasCause'
    <3>1. \A x \in Failed : Chain[x] \cap failedValid # {}
      BY Zenon DEF IndexAgrees, MarksAgree, FailedHasCause
    <3>2. bad \in Chain[bad]
      BY Zenon, ChainFacts
    <3>3. Failed' \subseteq Failed \cup removed \cup {bad}
      BY Zenon, <1>5, <2>1 DEF Failed
    <3>4. QED BY Zenon, <1>3, <2>1, <3>1, <3>2, <3>3 DEF FailedHasCause
  <2>7. MarksAgree'
    BY Zenon, <2>1, <2>4, <2>5, <2>6 DEF IndexAgrees, MarksAgree
  <2>8. GoalsAgree'
    BY Zenon, <1>4, <2>1, <2>4 DEF GoalsAgree
  <2>9. ReceivedIsLinked' /\ UnlinkedIsComplete'
    BY Zenon, <1>6, <2>1
  <2>10. bad \notin failedValid
    BY Zenon, <2>1, <2>2 DEF Failed
  <2>11. QED BY Zenon, <2>1, <2>7, <2>8, <2>9, <2>10 DEF IndexAgrees
<1>10. ASSUME NEW last \in Block, Succeeds(t, m, removed, last)
       PROVE  IndexAgrees' /\ nChainWork[tip'] >= nChainWork[tip]
  <2>1. /\ m \in linked \ {tip} /\ last \in Chain[m]
        /\ last # m => nChainWork[last] > nChainWork[tip]
        /\ Advance(last, candidates \ removed)
        /\ pindexMostWork' = [pindexMostWork EXCEPT ![t] = IF last = m THEN NoBlock ELSE m]
        /\ UNCHANGED <<failedValid, gFailed>>
    BY Zenon, <1>10 DEF Succeeds
  <2>2. Chain[m] \cap Failed = {} /\ m \in Block /\ nChainWork[tip] <= nChainWork[m]
    BY Zenon, <1>3, <1>4, <2>1
  <2>3. Chain[last] \subseteq Chain[m] /\ last \in linked
    BY Zenon, <1>4, <2>1, <2>2, ChainFacts
  <2>4. /\ tip' = last /\ chainActive' = Chain[last] /\ chainActive' \subseteq scripts'
        /\ \A c \in candidates' : nChainWork[tip'] <= nChainWork[c]
    BY Zenon, <2>1, <2>2, <2>3, AdvanceFacts
  <2>5. Chain[m] \cap Failed' = {}
    <3>1. Chain[m] \cap removed = {}
      BY Zenon, <1>7, <2>2
    <3>2. Failed' \subseteq Failed \cup removed
      BY Zenon, <1>5, <2>1 DEF Failed
    <3>3. QED BY Zenon, <2>2, <3>1, <3>2
  <2>6. FailedHasCause'
    <3>1. \A x \in Failed : Chain[x] \cap failedValid # {}
      BY Zenon DEF IndexAgrees, MarksAgree, FailedHasCause
    <3>2. Failed' \subseteq Failed \cup removed
      BY Zenon, <1>5, <2>1 DEF Failed
    <3>3. QED BY Zenon, <1>3, <2>1, <3>1, <3>2 DEF FailedHasCause
  <2>7. MarksAgree'
    BY Zenon, <2>1, <2>3, <2>4, <2>5, <2>6 DEF IndexAgrees, MarksAgree
  <2>8. /\ nChainWork[last] <= nChainWork[m]
        /\ last # m /\ Weightless = {} => nChainWork[last] < nChainWork[m]
    BY Zenon, <2>1, <2>2, WorkFacts
  <2>9. GoalsAgree'
    BY Zenon, <1>4, <2>1, <2>4, <2>5, <2>8 DEF GoalsAgree
  <2>10. ReceivedIsLinked' /\ UnlinkedIsComplete'
    BY Zenon, <1>6, <2>1
  <2>11. nChainWork[last] >= nChainWork[tip]
    BY <1>4, <2>1, <2>2
  <2>12. QED BY Zenon, <2>4, <2>7, <2>9, <2>10, <2>11 DEF IndexAgrees
<1>11. QED BY Zenon, <1>2, <1>8, <1>9, <1>10

\* invalidateblock: what is disconnected lies above the block named.
LEMMA InvalidateAgrees ==
    ASSUME Base, IndexAgrees, NEW t \in Thread, NEW b \in Block, InvalidateBlock(t, b)
    PROVE  /\ IndexAgrees'
           /\ nChainWork[tip'] >= nChainWork[tip] \/ failedValid' # failedValid
           /\ tip' \in chainActive /\ UNCHANGED <<linked, nSequenceId>>
           /\ activating' = {t} /\ \A u \in Thread : pindexMostWork'[u] = NoBlock
           /\ \A x \in linked : Chain[x] \cap failedValid' = {} =>
                 x \in candidates' \/ Worse(nSequenceId, x, tip')
           /\ \A c \in candidates' : c \in candidates \/ ~Worse(nSequenceId, c, tip')
<1> DEFINE above == IF b \in chainActive THEN chainActive \ Chain[b] ELSE {}
           newTip == IF b \in chainActive THEN pprev[b] ELSE tip
<1>1. /\ b # Genesis /\ tip' = newTip /\ t \notin activating /\ EnterActivateBestChain(t)
      /\ failedChild' = failedChild \cup above
      /\ failedValid' = failedValid \cup {b} /\ gFailed' = gFailed \cup {b}
      /\ candidates' = (candidates \ (above \cup {b})) \cup
            NotWorse(linked \ (Failed \cup above \cup {b}), nSequenceId, newTip)
      /\ UNCHANGED <<known, data, linked, scripts, nSequenceId, unlinked>>
  BY Zenon DEF InvalidateBlock, Command
<1>2. activating' = {t} /\ \A u \in Thread : pindexMostWork'[u] = NoBlock
  BY Zenon, <1>1, AloneFacts
<1>3. /\ tip \in Block /\ linked \subseteq Block /\ candidates \subseteq linked /\ nSequenceId \in [Block -> Int]
      /\ chainActive \subseteq scripts \ Failed /\ gFailed \subseteq failedValid
      /\ \A x \in Failed : Chain[x] \cap failedValid # {}
      /\ \A c \in candidates : nChainWork[tip] <= nChainWork[c]
  BY Zenon DEF Base, TypeOK, Structure, IndexAgrees, MarksAgree, FailedHasCause, GoalsAgree
<1>4. \A x \in above : b \in Chain[x]
  BY Zenon, <1>3, ChainSplits DEF chainActive
<1>5. /\ newTip \in chainActive /\ newTip \in Block /\ Chain[newTip] \subseteq chainActive
      /\ b \notin Chain[newTip] /\ Chain[newTip] \cap above = {}
  <2>1. CASE b \in chainActive
    <3>1. pprev[b] \in Chain[b] /\ Chain[pprev[b]] \subseteq Chain[b] /\ b \notin Chain[pprev[b]]
      BY <1>1, ParentFacts
    <3>2. Chain[b] \subseteq chainActive /\ chainActive \subseteq Block
      BY Zenon, <1>3, <2>1, ChainFacts DEF chainActive
    <3>3. QED BY Zenon, <2>1, <3>1, <3>2
  <2>2. CASE b \notin chainActive
    <3>1. newTip = tip /\ above = {} /\ tip \in Chain[tip]
      BY Zenon, <1>3, <2>2, ChainFacts
    <3>2. QED BY Zenon, <1>3, <2>2, <3>1 DEF chainActive
  <2>3. QED BY Zenon, <2>1, <2>2
<1>6. nChainWork[newTip] \in Nat /\ nChainWork[tip] \in Nat /\ nChainWork[newTip] <= nChainWork[tip]
  BY <1>3, <1>5, WorkFacts DEF chainActive
<1>7. newTip # tip => b \notin failedValid
  BY Zenon, <1>3 DEF Failed
<1> HIDE DEF above, newTip
<1>8. Failed' = Failed \cup above \cup {b}
  BY Zenon, <1>1 DEF Failed
<1>9. MarksAgree'
  <2>1. chainActive' = Chain[newTip]
    BY Zenon, <1>1 DEF chainActive
  <2>2. chainActive' \subseteq scripts' \ Failed'
    BY Zenon, <1>1, <1>3, <1>5, <1>8, <2>1
  <2>3. FailedHasCause'
    <3>1. b \in Chain[b]
      BY Zenon, ChainFacts
    <3>2. QED BY Zenon, <1>1, <1>3, <1>4, <1>8, <3>1 DEF FailedHasCause
  <2>4. QED BY Zenon, <1>1, <1>3, <2>2, <2>3 DEF MarksAgree
<1>10. ReceivedIsLinked' /\ UnlinkedIsComplete'
  BY Zenon, <1>1 DEF IndexAgrees, ReceivedIsLinked, UnlinkedIsComplete
<1>11. ASSUME NEW c \in candidates'
       PROVE  (c \in candidates \/ ~Worse(nSequenceId, c, newTip)) /\ nChainWork[newTip] <= nChainWork[c]
  <2>1. c \in candidates \/ (c \in linked /\ ~Worse(nSequenceId, c, newTip))
    BY Zenon, <1>1 DEF NotWorse
  <2>2. c \in Block /\ nChainWork[c] \in Nat
    BY Zenon, <1>3, <2>1, WorkFacts
  <2>3. CASE c \in candidates
    BY <1>3, <1>6, <2>2, <2>3
  <2>4. CASE ~Worse(nSequenceId, c, newTip)
    BY Zenon, <1>3, <1>5, <2>2, <2>4, OrderFacts
  <2>5. QED BY Zenon, <2>1, <2>3, <2>4
<1>12. GoalsAgree'
  BY Zenon, <1>1, <1>2, <1>11 DEF GoalsAgree
<1>13. ASSUME NEW x \in linked, Chain[x] \cap failedValid' = {}
       PROVE  x \in candidates' \/ Worse(nSequenceId, x, newTip)
  <2>1. x \notin Failed \cup above \cup {b}
    BY <1>1, <1>3, <1>4, <1>13, ChainFacts
  <2>2. QED BY Zenon, <1>1, <2>1 DEF NotWorse
<1>14. QED BY Zenon, <1>1, <1>2, <1>5, <1>6, <1>7, <1>9, <1>10, <1>11, <1>12, <1>13 DEF IndexAgrees

\* preciousblock touches neither marks nor links.
LEMMA PreciousAgrees ==
    ASSUME Base, IndexAgrees, NEW t \in Thread, NEW b \in Block, PreciousBlock(t, b)
    PROVE  IndexAgrees' /\ tip' = tip
<1>1. /\ t \notin activating /\ EnterActivateBestChain(t) /\ nChainWork[b] >= nChainWork[tip]
      /\ candidates' \subseteq candidates \cup {b}
      /\ UNCHANGED <<known, data, linked, scripts, failedValid, failedChild, gFailed, unlinked, tip>>
  BY Zenon DEF PreciousBlock, Command, flags, NotWorse
<1>2. \A u \in Thread : pindexMostWork'[u] = NoBlock
  BY Zenon, <1>1, AloneFacts
<1>3. MarksAgree' /\ ReceivedIsLinked' /\ UnlinkedIsComplete'
  BY Zenon, <1>1 DEF IndexAgrees, MarksAgree, FailedHasCause, Failed, chainActive, ReceivedIsLinked, UnlinkedIsComplete
<1>4. nChainWork[b] \in Nat /\ nChainWork[tip] \in Nat
  BY Zenon, WorkFacts DEF Base, TypeOK
<1>5. GoalsAgree'
  BY Zenon, <1>1, <1>2, <1>4 DEF IndexAgrees, GoalsAgree
<1>6. QED BY Zenon, <1>1, <1>3, <1>5 DEF IndexAgrees

\* A restart marks the descendants of failed blocks and links what is stored.
LEMMA RestartAgrees ==
    ASSUME Base, IndexAgrees, NEW t \in Thread, LoadBlockIndexDB(t)
    PROVE  /\ IndexAgrees' /\ tip' = tip
           /\ activating' = {t} /\ \A u \in Thread : pindexMostWork'[u] = NoBlock
           /\ UNCHANGED <<invalid, scripts, failedValid>>
           /\ \A x \in linked' : Chain[x] \cap failedValid' = {} =>
                 x \in candidates' \/ Worse(nSequenceId', x, tip')
           /\ \A c \in candidates' : ~Worse(nSequenceId', c, tip')
<1> DEFINE C == {b \in data : Chain[b] \subseteq data}
           child == failedChild \cup {b \in known \ failedValid : Chain[b] \cap Failed # {}}
<1>1. /\ activating' = {t} /\ pindexMostWork' = [u \in Thread |-> NoBlock]
      /\ failedChild' = child /\ gFailed' = {}
      /\ linked' = C /\ unlinked' = {b \in data \ {Genesis} : pprev[b] \notin C}
      /\ candidates' = NotWorse(C \ (failedValid \cup child), nSequenceId', tip)
      /\ UNCHANGED <<invalid, known, data, scripts, failedValid, tip>>
  BY Zenon DEF LoadBlockIndexDB, world
<1>2. \A b \in data \ {Genesis} : pprev[b] \in C <=> b \in C
  BY Zenon, ChainedFacts
<1>3. /\ data \subseteq known /\ known \subseteq Block /\ tip \in Block /\ failedChild \subseteq Block
      /\ gFailed \subseteq failedValid /\ Genesis \in data
  BY Zenon DEF Base, TypeOK, Structure, IndexAgrees, MarksAgree
<1>4. nSequenceId' \in [Block -> Int]
  BY Zenon, RestartBase DEF Base, TypeOK
<1>5. \A x \in child : x \in failedChild \/ (x \in Block /\ Chain[x] \cap failedValid # {})
  BY Zenon, <1>3, CleanFacts
<1>6. FailedHasCause' /\ chainActive' \subseteq scripts' \ Failed'
  <2>1. /\ \A x \in Failed : Chain[x] \cap failedValid # {}
        /\ chainActive \subseteq scripts \ Failed /\ failedValid \subseteq Failed
    BY Zenon DEF IndexAgrees, MarksAgree, FailedHasCause, Failed
  <2>2. FailedHasCause'
    BY Zenon, <1>1, <1>5, <2>1 DEF FailedHasCause, Failed
  <2>3. chainActive' = chainActive /\ Failed' = failedValid \cup child
    BY Zenon, <1>1 DEF chainActive, Failed
  <2>4. \A x \in chainActive : Chain[x] \subseteq chainActive
    BY Zenon, <1>3, ChainFacts DEF chainActive
  <2>5. QED BY Zenon, <1>1, <1>5, <2>1, <2>2, <2>3, <2>4 DEF Failed
<1>7. MarksAgree'
  BY Zenon, <1>1, <1>6 DEF MarksAgree
<1>8. ReceivedIsLinked'
  BY Zenon, <1>1, <1>3, ChainFacts DEF ReceivedIsLinked
<1>9. UnlinkedIsComplete'
  BY Zenon, <1>1, <1>2, <1>3 DEF UnlinkedIsComplete
<1>10. ASSUME NEW x \in linked', Chain[x] \cap failedValid' = {}
       PROVE  x \in candidates' \/ Worse(nSequenceId', x, tip')
  <2>1. x \in C /\ x \in Block
    BY Zenon, <1>1, <1>3
  <2>2. x \notin failedValid \cup child
    <3>1. x \in Chain[x] /\ Chain[x] \cap failedValid = {}
      BY Zenon, <1>1, <1>10, <2>1, ChainFacts
    <3>2. Chain[x] \cap Failed = {}
      BY Zenon, <2>1, <3>1, CleanFacts
    <3>3. QED BY Zenon, <1>5, <3>1, <3>2 DEF Failed
  <2> HIDE DEF C, child
  <2>3. QED BY Zenon, <1>1, <2>1, <2>2 DEF NotWorse
<1> HIDE DEF child
<1>11. \A c \in candidates' : c \in Block /\ ~Worse(nSequenceId', c, tip')
  BY Zenon, <1>1, <1>3 DEF NotWorse
<1>12. GoalsAgree'
  BY ZenonT(30), <1>1, <1>3, <1>4, <1>11, OrderFacts DEF GoalsAgree
<1>13. QED BY Zenon, <1>1, <1>7, <1>8, <1>9, <1>10, <1>11, <1>12 DEF IndexAgrees

\* Every step keeps the marks, the links and the goals in agreement, and lowers
\* the work of the active chain only when it marks a block.
LEMMA AgreesStep ==
    Base /\ IndexAgrees /\ [Next]_vars =>
        IndexAgrees' /\ (nChainWork[tip'] >= nChainWork[tip] \/ failedValid' # failedValid)
<1>1. SUFFICES ASSUME Base, IndexAgrees, [Next]_vars
               PROVE  IndexAgrees' /\ (nChainWork[tip'] >= nChainWork[tip] \/ failedValid' # failedValid)
  BY Zenon
<1>2. nChainWork[tip] \in Nat
  BY Zenon, <1>1, WorkFacts DEF Base, TypeOK
<1>3. tip' = tip => nChainWork[tip'] >= nChainWork[tip]
  BY <1>2
<1>4. CASE UNCHANGED vars
  <2>1. UNCHANGED <<known, data, linked, scripts, failedValid, failedChild, gFailed, candidates,
                    unlinked, tip, pindexMostWork>>
    BY Zenon, <1>4 DEF vars, flags
  <2>2. QED BY Zenon, <1>1, <1>3, <2>1 DEF IndexAgrees, MarksAgree, GoalsAgree, ReceivedIsLinked,
               UnlinkedIsComplete, FailedHasCause, Failed, chainActive
<1>5. ASSUME NEW b \in Block, HeaderArrives(b) PROVE IndexAgrees' /\ tip' = tip
  BY Zenon, <1>1, <1>5, HeaderAgrees, HeaderFacts
<1>6. ASSUME NEW t \in Thread, NEW b \in Block, NEW fRequested \in BOOLEAN,
             ProcessNewBlock(t, b, fRequested)
      PROVE  IndexAgrees' /\ tip' = tip
  BY <1>1, <1>6, ProcessAgrees, ProcessFacts
<1>7. \A t \in Thread, b \in Block : ~ResetBlockFailureFlags(t, b)
  BY Zenon, <1>1 DEF IndexAgrees, Alone, ResetBlockFailureFlags, Command
<1>8. QED BY Zenon, <1>1, <1>3, <1>4, <1>5, <1>6, <1>7, ActivationAgrees, RestartAgrees,
             InvalidateAgrees, PreciousAgrees DEF Next

\* The state after the genesis block is connected.
LEMMA InitAgrees == Init /\ Alone => IndexAgrees
<1>1. SUFFICES ASSUME Init, Alone PROVE IndexAgrees
  BY Zenon
<1>2. /\ Chain[Genesis] = {Genesis} /\ nChainWork[Genesis] \in Nat
      /\ \A b \in {Genesis} : b \in Chain[b]
  BY Zenon, ChainDef, WorkFacts, TreeAssumption
<1>3. MarksAgree /\ ReceivedIsLinked /\ UnlinkedIsComplete
  BY Zenon, <1>1, <1>2 DEF Init, MarksAgree, FailedHasCause, Failed, chainActive, ReceivedIsLinked, UnlinkedIsComplete
<1>4. GoalsAgree
  BY <1>1, <1>2 DEF Init, GoalsAgree
<1>5. QED BY Zenon, <1>1, <1>3, <1>4 DEF IndexAgrees

\* Marks, links and goals agree in every state of a node with one thread.
LEMMA AgreesAlways == Alone /\ Spec => [](Base /\ IndexAgrees)
BY InitBase, BaseStep, InitAgrees, AgreesStep, PTL DEF Spec

\* InvalidateBlock disconnects before it marks: with one thread in
\* ActivateBestChain the active chain is linked, verified and free of failed
\* blocks, also when the operator invalidates or prefers blocks and restarts.
THEOREM ActiveChainValidAlone == Alone /\ Spec => []ActiveChainIsValid
<1>1. Base /\ IndexAgrees => ActiveChainIsValid
  BY Zenon DEF Base, Structure, IndexAgrees, MarksAgree, ActiveChainIsValid, chainActive
<1>2. QED BY <1>1, AgreesAlways, PTL

\* ActivateBestChainStep never trades the active chain for one of less work,
\* unless the step marks a block BLOCK_FAILED_VALID.
THEOREM WorkIsKept == Alone /\ Spec => WorkNeverDrops
<1>1. Base /\ IndexAgrees /\ [Next]_vars =>
        [nChainWork[tip'] >= nChainWork[tip] \/ failedValid' # failedValid]_vars
  BY Zenon, AgreesStep
<1>2. QED BY <1>1, AgreesAlways, PTL DEF Spec, WorkNeverDrops

\* ReceivedBlockTransactions and the marks keep what CheckBlockIndex and
\* AcceptBlockHeader assert of nChainTx, mapBlocksUnlinked, the failure flags
\* and g_failed_blocks.
THEOREM FlagsAgree ==
    Alone /\ Spec =>
        [](ReceivedIsLinked /\ UnlinkedIsComplete /\ FailedHasCause /\ FailedSetIsFailed)
<1>1. IndexAgrees => ReceivedIsLinked /\ UnlinkedIsComplete /\ FailedHasCause /\ FailedSetIsFailed
  BY Zenon DEF IndexAgrees, MarksAgree, FailedSetIsFailed, FailedAncestors
<1>2. QED BY <1>1, AgreesAlways, PTL

-----------------------------------------------------------------------------
(* One thread, without reconsiderblock and preciousblock: the best chain. *)

\* The sequence ids are those the blocks got when they were linked.
Calm == Alone /\ "preciousblock" \notin Commands

\* The candidates that need no further check.
Verified == {c \in candidates \cap scripts : Chain[c] \cap (Failed \cup invalid) = {}}

\* A linked chain without failed block is a candidate, or some verified
\* candidate is as good; so the tip is covered even when it is not a candidate.
Covered ==
    \A b \in linked : Chain[b] \cap failedValid = {} =>
        b \in candidates \/ \E c \in Verified : AsGood(nSequenceId, c, b)

\* b is a candidate with a clean chain, as good as every other one.
IsBest(b) ==
    /\ b \in candidates
    /\ \A c \in candidates : Chain[c] \cap Failed = {} => AsGood(nSequenceId, b, c)

BestAgrees ==
    /\ Calm /\ Covered
    /\ \A c \in candidates : AsGood(nSequenceId, c, tip)
    /\ \A t \in Thread : pindexMostWork[t] # NoBlock => IsBest(pindexMostWork[t])
    /\ activating = {} => IsBest(tip)

\* Some verified candidate is as good as the tip: setBlockIndexCandidates is
\* never empty (PruneBlockIndexCandidates).
LEMMA TipIsCovered ==
    ASSUME Base, IndexAgrees, BestAgrees
    PROVE  \E c \in Verified : AsGood(nSequenceId, c, tip)
<1>1. /\ tip \in linked /\ tip \in Block /\ nSequenceId \in [Block -> Int]
      /\ Chain[tip] \cap invalid = {} /\ Chain[tip] \subseteq scripts \ Failed /\ tip \in Chain[tip]
  BY Zenon, ChainFacts DEF Base, TypeOK, Structure, IndexAgrees, MarksAgree, chainActive
<1>2. tip \in candidates => tip \in Verified /\ AsGood(nSequenceId, tip, tip)
  BY Zenon, <1>1, OrderFacts DEF Verified
<1>3. Chain[tip] \cap failedValid = {}
  BY Zenon, <1>1 DEF Failed
<1>4. QED BY Zenon, <1>1, <1>2, <1>3 DEF BestAgrees, Covered

\* What the tip covers, the verified candidate that covers the tip covers too.
LEMMA CoveredByTip ==
    ASSUME Base', NEW v \in Verified', AsGood(nSequenceId', v, tip'),
           \A b \in linked' : Chain[b] \cap failedValid' = {} =>
              \/ b \in candidates' \/ AsGood(nSequenceId', tip', b)
              \/ \E c \in Verified' : AsGood(nSequenceId', c, b)
    PROVE  Covered'
<1>1. /\ nSequenceId' \in [Block -> Int] /\ tip' \in Block /\ linked' \subseteq Block /\ v \in Block
  BY Zenon DEF Base, TypeOK, Structure, Verified
<1>2. \A b \in Block : AsGood(nSequenceId', tip', b) => AsGood(nSequenceId', v, b)
  BY Zenon, <1>1, OrderFacts
<1>3. QED BY Zenon, <1>1, <1>2 DEF Covered

\* After invalidateblock and after a restart every clean chain that is no worse
\* than the tip is a candidate.
LEMMA RefilledBest ==
    ASSUME Calm, Base', IndexAgrees', activating' # {},
           \A u \in Thread : pindexMostWork'[u] = NoBlock,
           \A x \in linked' : Chain[x] \cap failedValid' = {} =>
              x \in candidates' \/ Worse(nSequenceId', x, tip'),
           \A c \in candidates' : AsGood(nSequenceId', c, tip')
    PROVE  BestAgrees'
<1>1. /\ tip' \in linked' /\ tip' \in Block /\ nSequenceId' \in [Block -> Int]
      /\ Chain[tip'] \cap invalid' = {} /\ Chain[tip'] \subseteq scripts' \ Failed'
      /\ tip' \in Chain[tip']
  BY Zenon, ChainFacts DEF Base, TypeOK, Structure, IndexAgrees, MarksAgree, chainActive
<1>2. Chain[tip'] \cap failedValid' = {}
  BY Zenon, <1>1 DEF Failed
<1>3. tip' \in candidates'
  BY Zenon, <1>1, <1>2, OrderFacts
<1>4. tip' \in Verified' /\ AsGood(nSequenceId', tip', tip')
  BY Zenon, <1>1, <1>3, OrderFacts DEF Verified
<1>5. Covered'
  BY Zenon, <1>4, CoveredByTip DEF AsGood
<1>6. QED BY Zenon, <1>5 DEF BestAgrees, Calm, Alone

\* A header comes, or is refused.
LEMMA HeaderBest ==
    ASSUME Base, IndexAgrees, BestAgrees, NEW b \in Block, HeaderArrives(b)
    PROVE  BestAgrees'
<1>1. /\ UNCHANGED <<invalid, linked, scripts, failedValid, nSequenceId, candidates, tip,
                     activating, pindexMostWork>>
      /\ failedChild \subseteq failedChild'
  BY Zenon, HeaderFacts
<1>2. \A x \in Block : Chain[x] \cap Failed' # {} <=> Chain[x] \cap Failed # {}
  BY Zenon, HeaderAgrees
<1>3. candidates \subseteq Block
  BY ZenonT(30) DEF Base, TypeOK
<1>4. Verified' = Verified
  BY Zenon, <1>1, <1>2, <1>3 DEF Verified
<1>5. \A x : IsBest(x) => IsBest(x)'
  BY Zenon, <1>1, <1>2, <1>3 DEF IsBest
<1>6. QED BY Zenon, <1>1, <1>4, <1>5 DEF BestAgrees, Covered, Calm, Alone

\* ProcessNewBlock, up to ActivateBestChain.
LEMMA ProcessBest ==
    ASSUME Base, IndexAgrees, BestAgrees, NEW t \in Thread, NEW b \in Block,
           NEW fRequested \in BOOLEAN, ProcessNewBlock(t, b, fRequested)
    PROVE  BestAgrees'
<1>1. /\ UNCHANGED <<invalid, scripts, failedChild, tip>> /\ t \notin activating
  BY ZenonT(30), ProcessFacts
<1>2. activating = {} /\ \A u \in Thread : pindexMostWork[u] = NoBlock
  BY Zenon, <1>1, AloneFacts
<1>3. EnterActivateBestChain(t) => activating' # {} /\ \A u \in Thread : pindexMostWork'[u] = NoBlock
  BY Zenon, <1>1, AloneFacts
<1>4. /\ candidates \subseteq linked /\ linked \subseteq data /\ \A x \in linked : Chain[x] \subseteq linked
      /\ linked \subseteq Block /\ tip \in linked /\ nSequenceId \in [Block -> Int] /\ unlinked \subseteq data \ linked
  BY Zenon DEF Base, TypeOK, Structure
<1>5. CASE UNCHANGED <<linked, nSequenceId, candidates, failedValid>> /\ EnterActivateBestChain(t)
  <2>1. Verified' = Verified
    BY Zenon, <1>1, <1>5 DEF Verified, Failed
  <2>2. QED BY Zenon, <1>1, <1>3, <1>5, <2>1 DEF BestAgrees, Covered, Calm, Alone
<1>6. CASE /\ UNCHANGED <<linked, nSequenceId, candidates>> /\ UNCHANGED <<activating, pindexMostWork>>
           /\ failedValid' = failedValid \cup {b} /\ b \notin data
  <2>1. \A x \in linked : b \notin Chain[x]
    BY Zenon, <1>4, <1>6
  <2>2. \A x \in linked : Chain[x] \cap Failed' = Chain[x] \cap Failed
    BY SMTT(30), <1>1, <1>6, <2>1 DEF Failed
  <2>3. Verified' = Verified
    BY <1>1, <1>4, <1>6, <2>2 DEF Verified
  <2>4. \A x : IsBest(x) => IsBest(x)'
    BY Zenon, <1>4, <1>6, <2>2 DEF IsBest
  <2>5. \A x \in linked : Chain[x] \cap failedValid' = {} => Chain[x] \cap failedValid = {}
    BY Zenon, <1>6
  <2>6. QED BY Zenon, <1>1, <1>2, <1>6, <2>3, <2>4, <2>5 DEF BestAgrees, Covered, Calm, Alone
<1>7. CASE Link(b) /\ b \notin data /\ UNCHANGED failedValid /\ EnterActivateBestChain(t)
  <2> DEFINE N == NowLinked(b)
  <2>1. /\ linked' = linked \cup N /\ candidates' = candidates \cup NotWorse(N, nSequenceId', tip)
        /\ \A x \in Block \ N : nSequenceId'[x] = nSequenceId[x]
    BY Zenon, <1>7 DEF Link
  <2>2. N \cap linked = {}
    BY Zenon, <1>4, <1>7 DEF NowLinked
  <2> HIDE DEF N
  <2>3. Base' /\ nSequenceId' \in [Block -> Int] /\ linked' \subseteq Block
    <3>1. Base'
      BY Zenon, ProcessBase
    <3>2. QED BY <3>1 DEF Base, TypeOK
  <2>4. \A x, y \in linked : AsGood(nSequenceId, x, y) => AsGood(nSequenceId', x, y)
    <3>1. \A x \in linked : nSequenceId'[x] = nSequenceId[x]
      BY Zenon, <1>4, <2>1, <2>2
    <3>2. QED BY Zenon, <3>1 DEF AsGood, Worse
  <2>5. Verified \subseteq Verified' /\ Verified \subseteq linked
    <3>1. Failed' = Failed /\ candidates \subseteq candidates'
      BY Zenon, <1>1, <1>7, <2>1 DEF Failed
    <3>2. QED BY Zenon, <1>1, <1>4, <3>1 DEF Verified
  <2>6. PICK v \in Verified : AsGood(nSequenceId, v, tip)
    BY Zenon, TipIsCovered
  <2>7. v \in Verified' /\ AsGood(nSequenceId', v, tip')
    BY Zenon, <1>1, <1>4, <2>4, <2>5, <2>6
  <2>8. ASSUME NEW x \in linked', Chain[x] \cap failedValid' = {}
        PROVE  \/ x \in candidates' \/ AsGood(nSequenceId', tip', x)
               \/ \E c \in Verified' : AsGood(nSequenceId', c, x)
    <3>1. CASE x \in linked
      BY Zenon, <1>7, <2>1, <2>4, <2>5, <2>8, <3>1 DEF BestAgrees, Covered
    <3>2. CASE x \in N
      BY Zenon, <1>1, <2>1, <3>2 DEF NotWorse, AsGood
    <3>3. QED BY Zenon, <2>1, <3>1, <3>2
  <2>9. Covered'
    BY Zenon, <2>3, <2>7, <2>8, CoveredByTip
  <2>10. \A c \in candidates' : AsGood(nSequenceId', c, tip')
    <3>1. \A c \in NotWorse(N, nSequenceId', tip) : AsGood(nSequenceId', c, tip)
      BY Zenon, <1>4, <2>1, <2>3, OrderFacts DEF NotWorse
    <3>2. \A c \in candidates : AsGood(nSequenceId', c, tip)
      BY Zenon, <1>4, <2>4 DEF BestAgrees
    <3>3. QED BY Zenon, <1>1, <2>1, <3>1, <3>2
  <2>11. QED BY Zenon, <1>3, <1>7, <2>9, <2>10 DEF BestAgrees, Calm, Alone
<1>8. \/ /\ UNCHANGED <<linked, nSequenceId, candidates, failedValid>> /\ EnterActivateBestChain(t)
      \/ /\ UNCHANGED <<linked, nSequenceId, candidates>> /\ UNCHANGED <<activating, pindexMostWork>>
         /\ failedValid' = failedValid \cup {b} /\ b \notin data
      \/ /\ b \notin data /\ ReceivedBlockTransactions(b) /\ UNCHANGED failedValid
         /\ EnterActivateBestChain(t)
  BY ProcessFacts
<1>9. QED BY <1>5, <1>6, <1>7, <1>8 DEF ReceivedBlockTransactions, Park

\* The goal of a pass of ActivateBestChain exists and is the best candidate.
LEMMA BestGoal ==
    ASSUME Base, IndexAgrees, BestAgrees, NEW t \in Thread, NEW m, NEW removed, IsGoal(t, m, removed)
    PROVE  m # NoBlock /\ IsBest(m) /\ (m = tip => Chain[m] \cap Failed = {})
<1>1. /\ chainActive \cap Failed = {} /\ candidates \subseteq Block /\ tip \in Block
      /\ Chain[tip] \cap Failed = {}
  BY Zenon DEF Base, TypeOK, IndexAgrees, MarksAgree, chainActive
<1>2. PICK v \in Verified : AsGood(nSequenceId, v, tip)
  BY Zenon, TipIsCovered
<1>3. \A c \in candidates : c \in Usable <=> Chain[c] \cap Failed = {}
  BY Zenon, <1>1 DEF Usable, OffChain
<1>4. v \in Usable
  BY Zenon, <1>3 DEF Verified
<1>5. CASE m = pindexMostWork[t] /\ m # NoBlock
  BY Zenon, <1>1, <1>5 DEF BestAgrees
<1>6. CASE /\ m = NoBlock => Usable = {}
           /\ m # NoBlock => m \in Usable /\ \A c \in Usable : AsGood(nSequenceId, m, c)
  <2>1. m \in Usable /\ \A c \in Usable : AsGood(nSequenceId, m, c)
    BY Zenon, <1>4, <1>6
  <2>2. m \in candidates /\ m \in Block
    BY Zenon, <1>1, <2>1 DEF Usable
  <2>3. QED BY Zenon, <1>1, <1>3, <2>1, <2>2, TreeAssumption DEF IsBest
<1>7. QED BY Zenon, <1>5, <1>6 DEF IsGoal

\* When the tip moves to last, the chains that are clean stay covered: a
\* verified candidate is lost only to a better tip, and last is covered itself.
LEMMA AdvanceBest ==
    ASSUME Base, IndexAgrees, BestAgrees, Base', IndexAgrees', NEW last \in linked,
           Chain[last] \cap Failed = {}, NEW S \in SUBSET candidates, Advance(last, S),
           UNCHANGED <<invalid, linked, nSequenceId>>, failedValid \subseteq failedValid',
           \A v \in Verified : v \in S /\ Chain[v] \cap Failed' = {},
           \A c \in candidates : Chain[c] \cap failedValid' = {} => c \in S
    PROVE  Covered' /\ \A c \in candidates' : AsGood(nSequenceId, c, last)
<1>1. /\ tip' = last /\ chainActive' = Chain[last] /\ scripts \subseteq scripts'
      /\ candidates' \subseteq S
      /\ \A c \in S : c \in candidates' \/ Worse(nSequenceId, c, last)
      /\ \A c \in candidates' : last \in chainActive \/ ~Worse(nSequenceId, c, last)
  BY Zenon, AdvanceFacts
<1>2. /\ linked \subseteq Block /\ candidates \subseteq Block /\ last \in Block /\ tip \in Block
      /\ nSequenceId \in [Block -> Int]
  BY Zenon DEF Base, TypeOK
<1>3. /\ last \in Chain[last] /\ Chain[last] \subseteq scripts' \ Failed' /\ Chain[last] \cap invalid' = {}
  BY Zenon, <1>1, <1>2, ChainFacts DEF Base, Structure, IndexAgrees, MarksAgree
<1>4. ASSUME NEW v \in Verified, v \in candidates' PROVE v \in Verified'
  BY Zenon, <1>1, <1>4 DEF Verified
<1>5. \E v \in Verified' : AsGood(nSequenceId', v, tip')
  <2>1. CASE last \in candidates
    <3>1. last \in S
      BY Zenon, <1>3, <2>1 DEF Failed
    <3>2. last \in candidates' /\ AsGood(nSequenceId, last, last)
      BY Zenon, <1>1, <1>2, <3>1, OrderFacts
    <3>3. last \in Verified'
      BY Zenon, <1>3, <3>2 DEF Verified
    <3>4. QED BY Zenon, <1>1, <3>2, <3>3
  <2>2. CASE \E c \in Verified : AsGood(nSequenceId, c, last)
    <3>1. PICK c \in Verified : AsGood(nSequenceId, c, last)
      BY Zenon, <2>2
    <3>2. c \in S /\ c \in Block /\ ~Worse(nSequenceId, c, last)
      BY Zenon, <1>2, <3>1, OrderFacts DEF Verified
    <3>3. QED BY Zenon, <1>1, <1>4, <3>1, <3>2
  <2>3. Chain[last] \cap failedValid = {}
    BY Zenon DEF Failed
  <2>4. QED BY Zenon, <2>1, <2>2, <2>3 DEF BestAgrees, Covered
<1>6. ASSUME NEW b \in linked', Chain[b] \cap failedValid' = {}
      PROVE  \/ b \in candidates' \/ AsGood(nSequenceId', tip', b)
             \/ \E c \in Verified' : AsGood(nSequenceId', c, b)
  <2>1. b \in linked /\ b \in Block /\ Chain[b] \cap failedValid = {}
    BY Zenon, <1>2, <1>6
  <2>2. CASE b \in candidates
    BY Zenon, <1>1, <1>6, <2>2 DEF AsGood
  <2>3. CASE \E c \in Verified : AsGood(nSequenceId, c, b)
    <3>1. PICK c \in Verified : AsGood(nSequenceId, c, b)
      BY Zenon, <2>3
    <3>2. c \in S /\ c \in Block
      BY Zenon, <1>2 DEF Verified
    <3>3. CASE c \in candidates'
      BY Zenon, <1>4, <3>1, <3>3
    <3>4. CASE Worse(nSequenceId, c, last)
      <4>1. AsGood(nSequenceId, last, c)
        BY Zenon, <3>4 DEF AsGood
      <4>2. QED BY Zenon, <1>1, <1>2, <2>1, <3>1, <3>2, <4>1, OrderFacts
    <3>5. QED BY Zenon, <1>1, <3>2, <3>3, <3>4
  <2>4. QED BY Zenon, <2>1, <2>2, <2>3 DEF BestAgrees, Covered
<1>7. Covered'
  BY Zenon, <1>5, <1>6, CoveredByTip
<1>8. ASSUME NEW c \in candidates' PROVE AsGood(nSequenceId, c, last)
  <2>1. c \in Block /\ AsGood(nSequenceId, c, tip)
    BY Zenon, <1>1, <1>2 DEF BestAgrees
  <2>2. CASE last \in chainActive
    <3>1. AsGood(nSequenceId, tip, last)
      BY Zenon, <1>2, <2>2, ActiveWork, OrderFacts
    <3>2. QED BY Zenon, <1>2, <2>1, <3>1, OrderFacts
  <2>3. CASE ~Worse(nSequenceId, c, last)
    BY Zenon, <1>2, <2>1, <2>3, OrderFacts
  <2>4. QED BY Zenon, <1>1, <2>2, <2>3
<1>9. QED BY Zenon, <1>7, <1>8

\* A pass of ActivateBestChain.
LEMMA ActivationBest ==
    ASSUME Base, IndexAgrees, BestAgrees, NEW t \in Thread, ActivateBestChain(t)
    PROVE  BestAgrees'
<1>1. t \in activating /\ UNCHANGED <<invalid, linked, nSequenceId>>
  BY Zenon, ActivationFacts
<1>2. PICK m, removed :
        /\ IsGoal(t, m, removed)
        /\ \/ Returns(t, m, removed)
           \/ \E bad \in Block : Fails(t, m, removed, bad)
           \/ \E last \in Block : Succeeds(t, m, removed, last)
  BY Zenon, ActivationFacts
<1>3. Base' /\ IndexAgrees'
  BY Zenon, ActivationBase, ActivationAgrees
<1>4. activating = {t} /\ (\A u \in Thread : u = t) /\ Calm
      /\ pindexMostWork \in [Thread -> Block \cup {NoBlock}]
  BY Zenon, <1>1, AloneFacts DEF BestAgrees, Calm, Alone, Base, TypeOK
<1>5. m # NoBlock /\ IsBest(m) /\ (m = tip => Chain[m] \cap Failed = {})
  BY Zenon, <1>2, BestGoal
<1>6. /\ \A r \in removed : r \in Block /\ Chain[r] \cap Failed # {} /\ Chain[r] \cap failedValid # {}
      /\ m # tip => m \in linked /\ m \in Block /\ m \notin chainActive /\ Chain[m] \cap Failed = {}
  BY Zenon, <1>2, <1>5, GoalFacts
<1>7. /\ linked \subseteq Block /\ candidates \subseteq linked /\ tip \in Block /\ nSequenceId \in [Block -> Int]
      /\ \A c \in linked : Chain[c] \subseteq linked
      /\ failedChild' = failedChild \cup (removed \ Failed)
  BY Zenon, <1>2 DEF IsGoal, Base, TypeOK, Structure
<1>8. ASSUME NEW b \in Block, Chain[b] \cap Failed = {} PROVE Chain[b] \cap removed = {} /\ b \notin removed
  <2>1. Chain[b] \cap removed = {}
    BY Zenon, <1>6, <1>8, CleanFacts
  <2>2. QED BY Zenon, <2>1, ChainFacts
<1>9. \A v \in Verified : v \in Block /\ v \in candidates /\ Chain[v] \cap Failed = {} /\ Chain[v] \cap invalid = {}
  BY Zenon, <1>7 DEF Verified
<1>10. CASE Returns(t, m, removed)
  <2>1. /\ m = tip /\ activating' = {}
        /\ pindexMostWork' = [pindexMostWork EXCEPT ![t] = NoBlock]
        /\ candidates' = candidates \ removed /\ UNCHANGED <<tip, scripts, failedValid>>
    BY Zenon, <1>4, <1>5, <1>10 DEF Returns
  <2>2. \A u \in Thread : pindexMostWork'[u] = NoBlock
    BY Zenon, <1>4, <2>1
  <2>3. Failed \subseteq Failed' /\ Failed' \subseteq Failed \cup removed
    BY Zenon, <1>7, <2>1 DEF Failed
  <2>4. Verified \subseteq Verified'
    BY Zenon, <1>1, <1>8, <1>9, <2>1, <2>3 DEF Verified
  <2>5. \A c \in candidates : Chain[c] \cap failedValid = {} => c \in candidates'
    BY Zenon, <1>6, <2>1
  <2>6. Covered'
    BY Zenon, <1>1, <2>1, <2>4, <2>5 DEF BestAgrees, Covered
  <2>7. IsBest(tip)'
    <3>1. tip \in candidates'
      BY Zenon, <1>5, <1>7, <1>8, <2>1 DEF IsBest
    <3>2. \A c \in candidates' : Chain[c] \cap Failed' = {} => AsGood(nSequenceId, tip, c)
      BY Zenon, <1>5, <2>1, <2>3 DEF IsBest
    <3>3. QED BY Zenon, <1>1, <2>1, <3>1, <3>2 DEF IsBest
  <2>8. \A c \in candidates' : AsGood(nSequenceId', c, tip')
    BY Zenon, <1>1, <2>1 DEF BestAgrees
  <2>9. QED BY Zenon, <1>4, <2>2, <2>6, <2>7, <2>8 DEF BestAgrees, Calm, Alone
<1>11. CASE \E bad \in Block : Fails(t, m, removed, bad)
  <2>1. PICK bad \in Block : Fails(t, m, removed, bad)
    BY Zenon, <1>11
  <2>2. /\ m # tip /\ bad \in Chain[m] /\ bad # Genesis /\ bad \in invalid
        /\ Advance(pprev[bad], candidates \ (removed \cup {bad}))
        /\ failedValid' = failedValid \cup {bad}
        /\ pindexMostWork' = [pindexMostWork EXCEPT ![t] = NoBlock] /\ UNCHANGED activating
    BY Zenon, <2>1 DEF Fails
  <2>3. pprev[bad] \in linked /\ Chain[pprev[bad]] \cap Failed = {}
    <3>1. pprev[bad] \in Chain[bad] /\ Chain[pprev[bad]] \subseteq Chain[bad]
      BY Zenon, <2>2, ParentFacts, ChainFacts
    <3>2. Chain[bad] \subseteq Chain[m]
      BY Zenon, <1>6, <2>2, ChainFacts
    <3>3. QED BY Zenon, <1>6, <1>7, <2>2, <3>1, <3>2
  <2>4. Failed' \subseteq Failed \cup removed \cup {bad}
    BY Zenon, <1>7, <2>2 DEF Failed
  <2>5. \A v \in Verified : /\ v \in candidates \ (removed \cup {bad})
                            /\ Chain[v] \cap Failed' = {}
    BY SMTT(30), <1>8, <1>9, <2>2, <2>4, ChainFacts
  <2>6. \A c \in candidates : Chain[c] \cap failedValid' = {} => c \in candidates \ (removed \cup {bad})
    BY SMTT(30), <1>6, <1>7, <2>2, ChainFacts
  <2>7. Covered' /\ \A c \in candidates' : AsGood(nSequenceId, c, pprev[bad])
    BY Zenon, <1>1, <1>3, <2>2, <2>3, <2>5, <2>6, AdvanceBest
  <2>8. tip' = pprev[bad] /\ \A u \in Thread : pindexMostWork'[u] = NoBlock
    BY Zenon, <1>4, <2>2 DEF Advance
  <2>9. QED BY Zenon, <1>1, <1>4, <2>2, <2>7, <2>8 DEF BestAgrees, Calm, Alone
<1>12. CASE \E last \in Block : Succeeds(t, m, removed, last)
  <2>1. PICK last \in Block : Succeeds(t, m, removed, last)
    BY Zenon, <1>12
  <2>2. /\ m # tip /\ last \in Chain[m] /\ Advance(last, candidates \ removed)
        /\ last \in chainActive => m \in chainActive
        /\ pindexMostWork' = [pindexMostWork EXCEPT ![t] = IF last = m THEN NoBlock ELSE m]
        /\ activating' = IF last = m THEN activating \ {t} ELSE activating
        /\ UNCHANGED failedValid
    BY Zenon, <2>1 DEF Succeeds
  <2>3. /\ m \in linked /\ m \in Block /\ Chain[m] \cap Failed = {} /\ last \in linked
        /\ Chain[last] \cap Failed = {} /\ last \notin chainActive
    BY Zenon, <1>6, <1>7, <2>2, ChainFacts
  <2>4. Failed \subseteq Failed' /\ Failed' \subseteq Failed \cup removed
    BY Zenon, <1>7, <2>2 DEF Failed
  <2>5. \A v \in Verified : v \in candidates \ removed /\ Chain[v] \cap Failed' = {}
    BY Zenon, <1>8, <1>9, <2>4
  <2>6. \A c \in candidates : Chain[c] \cap failedValid' = {} => c \in candidates \ removed
    BY Zenon, <1>6, <2>2
  <2>7. Covered' /\ \A c \in candidates' : AsGood(nSequenceId, c, last)
    BY Zenon, <1>1, <1>3, <2>2, <2>3, <2>5, <2>6, AdvanceBest
  <2>8. IsBest(m)'
    <3>1. m \in candidates \ removed
      BY Zenon, <1>5, <1>8, <2>3 DEF IsBest
    <3>2. ~Worse(nSequenceId, m, last)
      <4>1. PICK c \in candidates : Chain[c] \cap Failed = {} /\ AsGood(nSequenceId, c, last)
        <5>1. Chain[last] \cap failedValid = {} /\ AsGood(nSequenceId, last, last)
          BY Zenon, <2>3 DEF Failed, AsGood
        <5>2. QED BY Zenon, <1>9, <2>3, <5>1 DEF BestAgrees, Covered
      <4>2. AsGood(nSequenceId, m, c) /\ c \in Block
        BY Zenon, <1>5, <1>7, <4>1 DEF IsBest
      <4>3. QED BY Zenon, <1>7, <2>3, <4>1, <4>2, OrderFacts
    <3>3. m \in candidates' /\ candidates' \subseteq candidates
      BY Zenon, <2>2, <2>3, <3>1, <3>2 DEF Advance, NotWorse
    <3>4. \A c \in candidates' : Chain[c] \cap Failed' = {} => AsGood(nSequenceId, m, c)
      BY Zenon, <1>5, <2>4, <3>3 DEF IsBest
    <3>5. QED BY Zenon, <1>1, <3>3, <3>4 DEF IsBest
  <2>9. /\ tip' = last /\ \A u \in Thread : pindexMostWork'[u] = IF last = m THEN NoBlock ELSE m
        /\ activating' = {} => last = m
    BY Zenon, <1>1, <1>4, <2>2 DEF Advance
  <2>10. QED BY Zenon, <1>1, <1>4, <2>7, <2>8, <2>9 DEF BestAgrees, Calm, Alone
<1>13. QED BY Zenon, <1>2, <1>10, <1>11, <1>12

\* Every step keeps the best chain within reach.
LEMMA BestStep == Base /\ IndexAgrees /\ BestAgrees /\ [Next]_vars => BestAgrees'
<1>1. SUFFICES ASSUME Base, IndexAgrees, BestAgrees, [Next]_vars PROVE BestAgrees'
  BY Zenon
<1>2. Base' /\ IndexAgrees' /\ Calm
  BY Zenon, <1>1, BaseStep, AgreesStep DEF BestAgrees
<1>3. tip \in Block /\ nSequenceId \in [Block -> Int] /\ candidates \subseteq Block
  BY <1>1 DEF Base, TypeOK
<1>4. CASE UNCHANGED vars
  <2>1. UNCHANGED <<invalid, linked, scripts, failedValid, failedChild, candidates, nSequenceId, tip,
                    activating, pindexMostWork>>
    BY Zenon, <1>4 DEF vars, flags, world
  <2>2. QED BY Zenon, <1>1, <1>2, <2>1 DEF BestAgrees, Covered, Verified, IsBest, Failed
<1>5. ASSUME NEW t \in Thread, NEW b \in Block, InvalidateBlock(t, b) PROVE BestAgrees'
  <2>1. /\ tip' \in chainActive /\ UNCHANGED <<linked, nSequenceId>>
        /\ activating' = {t} /\ \A u \in Thread : pindexMostWork'[u] = NoBlock
        /\ \A x \in linked : Chain[x] \cap failedValid' = {} =>
              x \in candidates' \/ Worse(nSequenceId, x, tip')
        /\ \A c \in candidates' : c \in candidates \/ ~Worse(nSequenceId, c, tip')
    BY Zenon, <1>1, <1>5, InvalidateAgrees
  <2>2. tip' \in Block /\ candidates' \subseteq Block
    BY <1>2 DEF Base, TypeOK
  <2>3. AsGood(nSequenceId, tip, tip')
    BY Zenon, <1>1, <1>3, <2>1, <2>2, ActiveWork, OrderFacts
  <2>4. \A c \in candidates' : AsGood(nSequenceId, c, tip')
    BY Zenon, <1>1, <1>3, <2>1, <2>2, <2>3, OrderFacts DEF BestAgrees
  <2>5. activating' # {}
    BY Zenon, <2>1
  <2>6. /\ \A x \in linked' : Chain[x] \cap failedValid' = {} =>
              x \in candidates' \/ Worse(nSequenceId', x, tip')
        /\ \A c \in candidates' : AsGood(nSequenceId', c, tip')
    BY Zenon, <2>1, <2>4
  <2>7. QED BY Zenon, <1>2, <2>1, <2>5, <2>6, RefilledBest
<1>6. ASSUME NEW t \in Thread, LoadBlockIndexDB(t) PROVE BestAgrees'
  <2>1. /\ activating' = {t} /\ \A u \in Thread : pindexMostWork'[u] = NoBlock
        /\ \A x \in linked' : Chain[x] \cap failedValid' = {} =>
              x \in candidates' \/ Worse(nSequenceId', x, tip')
        /\ \A c \in candidates' : ~Worse(nSequenceId', c, tip')
    BY Zenon, <1>1, <1>6, RestartAgrees
  <2>2. tip' \in Block /\ candidates' \subseteq Block /\ nSequenceId' \in [Block -> Int]
    BY <1>2 DEF Base, TypeOK
  <2>3. \A c \in candidates' : AsGood(nSequenceId', c, tip')
    BY Zenon, <2>1, <2>2, OrderFacts
  <2>4. activating' # {}
    BY Zenon, <2>1
  <2>5. QED BY Zenon, <1>2, <2>1, <2>3, <2>4, RefilledBest
<1>7. \A t \in Thread, b \in Block : ~ResetBlockFailureFlags(t, b) /\ ~PreciousBlock(t, b)
  BY Zenon, <1>2 DEF Calm, Alone, ResetBlockFailureFlags, PreciousBlock, Command
<1>8. ASSUME NEW b \in Block, HeaderArrives(b) PROVE BestAgrees'
  BY Zenon, <1>1, <1>8, HeaderBest
<1>9. ASSUME NEW t \in Thread, NEW b \in Block, NEW fRequested \in BOOLEAN,
             ProcessNewBlock(t, b, fRequested)
      PROVE  BestAgrees'
  BY Zenon, <1>1, <1>9, ProcessBest
<1>10. ASSUME NEW t \in Thread, ActivateBestChain(t) PROVE BestAgrees'
  BY Zenon, <1>1, <1>10, ActivationBest
<1>11. QED BY Zenon, <1>1, <1>4, <1>5, <1>6, <1>7, <1>8, <1>9, <1>10 DEF Next

\* The genesis block is the only candidate of the first state.
LEMMA InitBest == Init /\ Calm => BestAgrees
<1>1. SUFFICES ASSUME Init, Calm PROVE BestAgrees
  BY Zenon
<1>2. Base
  BY Zenon, <1>1, InitBase
<1>3. AsGood(nSequenceId, Genesis, Genesis)
  BY Zenon DEF AsGood
<1>4. QED BY Zenon, <1>1, <1>3 DEF Init, BestAgrees, Covered, IsBest

\* All three layers in every state.
LEMMA BestAlways == Calm /\ Spec => [](Base /\ IndexAgrees /\ BestAgrees)
<1>1. Calm => Alone
  BY Zenon DEF Calm
<1>2. QED BY <1>1, InitBase, BaseStep, InitAgrees, AgreesStep, InitBest, BestStep, PTL DEF Spec

\* CheckBlockIndex's assertions hold in every state, those on
\* setBlockIndexCandidates when ActivateBestChain has returned: a linked chain
\* without failed block is a candidate exactly when it sorts as good as the tip.
THEOREM IndexStaysConsistent == Calm /\ Spec => []IndexIsConsistent
<1>1. ASSUME Base, IndexAgrees, BestAgrees PROVE IndexIsConsistent
  <2>1. ReceivedIsLinked /\ UnlinkedIsComplete /\ FailedHasCause /\ FailedSetIsFailed
    BY Zenon, <1>1 DEF IndexAgrees, MarksAgree, FailedSetIsFailed, FailedAncestors
  <2>2. /\ tip \in Block /\ nSequenceId \in [Block -> Int] /\ linked \subseteq Block
        /\ candidates \subseteq linked
    BY SMTT(30), <1>1 DEF Base, TypeOK, Structure
  <2>3. nBlockReverseSequenceId >= MinSequenceId
    BY <1>1, TreeAssumption DEF Base, TypeOK
  <2>4. ASSUME activating = {}, NEW b \in linked, ~Worse(nSequenceId, b, tip),
               Chain[b] \cap failedValid = {}
        PROVE  b \in candidates
    <3>1. CASE \E c \in Verified : AsGood(nSequenceId, c, b)
      <4>1. PICK c \in Verified : AsGood(nSequenceId, c, b)
        BY Zenon, <3>1
      <4>2. c \in Block /\ AsGood(nSequenceId, tip, c) /\ tip \in candidates
        BY Zenon, <1>1, <2>2, <2>4, <4>1 DEF Verified, BestAgrees, IsBest
      <4>3. AsGood(nSequenceId, tip, b)
        BY Zenon, <2>2, <4>1, <4>2, OrderFacts
      <4>4. tip = b
        BY Zenon, <2>4, <4>3 DEF AsGood
      <4>5. QED BY Zenon, <4>2, <4>4
    <3>2. QED BY Zenon, <1>1, <2>4, <3>1 DEF BestAgrees, Covered
  <2>5. ASSUME NEW b \in candidates PROVE b \in linked /\ ~Worse(nSequenceId, b, tip)
    BY Zenon, <1>1, <2>2, OrderFacts DEF BestAgrees
  <2>6. CandidatesAreRight
    BY Zenon, <2>4, <2>5 DEF CandidatesAreRight
  <2>7. QED BY Zenon, <2>1, <2>3, <2>6 DEF IndexIsConsistent
<1>2. QED BY <1>1, BestAlways, PTL

\* ActivateBestChain's goal pindexMostWork is still worth going to after cs_main
\* was released: it sorts better than the tip, and no failed block is on the way.
\* With preciousblock this is proved of trees in which every block has work.
THEOREM GoalsStayFresh ==
    Alone /\ ("preciousblock" \in Commands => Weightless = {}) /\ Spec => []GoalIsFresh
<1>1. ASSUME Base, IndexAgrees, Weightless = {} \/ BestAgrees PROVE GoalIsFresh
  <2>1. activating \subseteq Thread
    BY Zenon, <1>1 DEF Base, TypeOK
  <2>2. \A t \in Thread : pindexMostWork[t] # NoBlock =>
          /\ Chain[pindexMostWork[t]] \cap Failed = {}
          /\ \/ nChainWork[tip] < nChainWork[pindexMostWork[t]]
             \/ pindexMostWork[t] # tip /\ AsGood(nSequenceId, pindexMostWork[t], tip)
    BY Zenon, <1>1 DEF IndexAgrees, GoalsAgree, BestAgrees, IsBest
  <2>3. \A b : nChainWork[tip] < nChainWork[b] => Worse(nSequenceId, tip, b)
    BY Zenon DEF Worse
  <2>4. QED BY Zenon, <2>1, <2>2, <2>3 DEF GoalIsFresh, OffChain, AsGood
<1>2. Weightless = {} => (Weightless = {})'
  BY Zenon DEF Weightless
<1>3. Alone /\ ("preciousblock" \in Commands => Weightless = {}) => Calm \/ Weightless = {}
  BY Zenon DEF Calm
<1>4. QED BY <1>1, <1>2, <1>3, AgreesAlways, BestAlways, PTL

\* "The result is either failure or an activated best chain": when
\* ActivateBestChain has returned, no linked chain without failed or invalid
\* block sorts better than the active one, however the blocks arrived and
\* whatever was invalidated.
THEOREM BestChainBecomesActive == Calm /\ Spec => []BestChainIsActive
<1>1. ASSUME Base, IndexAgrees, BestAgrees PROVE BestChainIsActive
  <2>1. /\ tip \in Block /\ nSequenceId \in [Block -> Int] /\ linked \subseteq Block
        /\ candidates \subseteq linked
    BY <1>1 DEF Base, TypeOK, Structure
  <2>2. ASSUME activating = {}, NEW b \in linked, Chain[b] \cap (Failed \cup invalid) = {}
        PROVE  ~Worse(nSequenceId, tip, b)
    <3>1. \A c \in candidates : Chain[c] \cap Failed = {} => AsGood(nSequenceId, tip, c)
      BY Zenon, <1>1, <2>2 DEF BestAgrees, IsBest
    <3>2. Chain[b] \cap Failed = {} /\ Chain[b] \cap failedValid = {}
      BY Zenon, <2>2 DEF Failed
    <3>3. \A c \in Verified : c \in Block /\ AsGood(nSequenceId, tip, c)
      BY Zenon, <2>1, <3>1 DEF Verified
    <3>4. AsGood(nSequenceId, tip, b)
      BY Zenon, <1>1, <2>1, <3>1, <3>2, <3>3, OrderFacts DEF BestAgrees, Covered
    <3>5. QED BY Zenon, <2>1, <3>4, OrderFacts
  <2>3. QED BY Zenon, <2>2 DEF BestChainIsActive
<1>2. QED BY <1>1, BestAlways, PTL

=============================================================================
