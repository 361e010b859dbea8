--------------------------- MODULE TreeRecursion ---------------------------
(***************************************************************************)
(* Induction and recursion along the links from a block to its parent, and *)
(* along the transactions of a block.  The theorems take sets and          *)
(* functions for parameters where the ones of the standard library take    *)
(* operators.                                                              *)
(***************************************************************************)
EXTENDS WellFoundedInduction, FiniteSetTheorems, TLAPS

\* A set of numbers has a smallest one.
LEMMA SmallestNumber ==
    ASSUME NEW T \in SUBSET Nat, T # {}
    PROVE  \E n \in T : \A m \in T : n <= m
<1>1. PICK n \in T : \A m \in T : ~(<<m, n>> \in OpToRel(<, Nat))
  BY NatLessThanWellFounded, WFMin
<1>2. \A m \in T : ~(m < n)
  BY <1>1 DEF OpToRel
<1>3. QED BY <1>2

\* What holds of a block once it holds of the lower ones holds of every block.
LEMMA RankInduction ==
    ASSUME NEW D, NEW rank \in [D -> Nat], NEW P,
           \A d \in D : (\A e \in D : rank[e] < rank[d] => e \in P) => d \in P
    PROVE  D \subseteq P
<1> DEFINE T == {rank[d] : d \in D \ P}
<1>1. SUFFICES ASSUME D \ P # {} PROVE FALSE
  OBVIOUS
<1>2. T \in SUBSET Nat /\ T # {}
  BY <1>1
<1>3. PICK n \in T : \A m \in T : n <= m
  <2> HIDE DEF T
  <2>1. QED BY <1>2, SmallestNumber
<1>4. PICK d \in D \ P : n = rank[d]
  BY <1>3
<1>5. ASSUME NEW e \in D, rank[e] < rank[d] PROVE e \in P
  <2>1. SUFFICES ASSUME e \notin P PROVE FALSE
    OBVIOUS
  <2>2. rank[e] \in T /\ rank[e] \in Nat /\ rank[d] \in Nat
    BY <1>4, <2>1
  <2> HIDE DEF T
  <2>3. n <= rank[e]
    BY <1>3, <2>2
  <2>4. QED BY <1>4, <1>5, <2>2, <2>3
<1>6. QED BY <1>4, <1>5

\* A tree: every member of D has its parent in D or is a root, whose parent is bot.
IsTree(D, bot, up, rank) ==
    /\ bot \notin D
    /\ up \in [D -> D \cup {bot}]
    /\ rank \in [D -> Nat]
    /\ \A d \in D : up[d] # bot => rank[up[d]] < rank[d]

\* What holds of the roots' parent, and of a block once it holds of its parent,
\* holds of every block.
LEMMA TreeInduction ==
    ASSUME NEW D, NEW bot, NEW up, NEW rank, IsTree(D, bot, up, rank), NEW P,
           bot \in P, \A d \in D : up[d] \in P => d \in P
    PROVE  D \subseteq P
<1>1. rank \in [D -> Nat]
  BY DEF IsTree
<1>2. \A d \in D : (\A e \in D : rank[e] < rank[d] => e \in P) => d \in P
  BY DEF IsTree
<1>3. QED BY <1>1, <1>2, RankInduction

-----------------------------------------------------------------------------
(* The chain that ends in a block. *)

\* A[d] is d with the members of the chain of its parent.
IsAncestry(D, bot, up, A) ==
    /\ A \in [D -> SUBSET D]
    /\ \A d \in D : A[d] = IF up[d] = bot THEN {d} ELSE {d} \cup A[up[d]]

\* A chain holds its end and the chains of its blocks, which are lower than it.
LEMMA AncestryFacts ==
    ASSUME NEW D, NEW bot, NEW up, NEW rank, IsTree(D, bot, up, rank),
           NEW A, IsAncestry(D, bot, up, A)
    PROVE  \A d \in D : /\ d \in A[d]
                        /\ \A a \in A[d] : /\ a \in D /\ A[a] \subseteq A[d]
                                           /\ a = d \/ rank[a] < rank[d]
<1> DEFINE Q(d) == \A a \in A[d] : a \in D /\ A[a] \subseteq A[d] /\ (a = d \/ rank[a] < rank[d])
           P == {bot} \cup {d \in D : Q(d)}
<1>1. /\ bot \notin D /\ up \in [D -> D \cup {bot}] /\ rank \in [D -> Nat]
      /\ \A d \in D : up[d] # bot => rank[up[d]] < rank[d]
  BY DEF IsTree
<1>2. /\ \A d \in D : A[d] \in SUBSET D
      /\ \A d \in D : A[d] = IF up[d] = bot THEN {d} ELSE {d} \cup A[up[d]]
  BY DEF IsAncestry
<1>3. ASSUME NEW d \in D, up[d] \in P PROVE Q(d)
  <2>1. CASE up[d] = bot
    BY <1>2, <2>1
  <2>2. CASE up[d] # bot
    <3>1. up[d] \in D /\ Q(up[d]) /\ rank[up[d]] < rank[d] /\ A[d] = {d} \cup A[up[d]]
      BY <1>1, <1>2, <1>3, <2>2
    <3>2. ASSUME NEW a \in A[up[d]] PROVE A[a] \subseteq A[d] /\ rank[a] < rank[d]
      <4>1. a \in D /\ A[a] \subseteq A[up[d]] /\ (a = up[d] \/ rank[a] < rank[up[d]])
        BY <3>1
      <4>2. QED BY <1>1, <3>1, <4>1
    <3>3. QED BY <1>2, <3>1, <3>2
  <2>3. QED BY <2>1, <2>2
<1>4. D \subseteq P
  <2>1. bot \in P /\ \A d \in D : up[d] \in P => d \in P
    BY <1>3
  <2> HIDE DEF P
  <2>2. QED BY <2>1, TreeInduction
<1>5. \A d \in D : Q(d)
  BY <1>1, <1>4
<1>6. QED BY <1>2, <1>5

\* Of two blocks of a chain the lower one is on the chain of the other.
LEMMA AncestryIsLinear ==
    ASSUME NEW D, NEW bot, NEW up, NEW rank, IsTree(D, bot, up, rank),
           NEW A, IsAncestry(D, bot, up, A)
    PROVE  \A d \in D : \A a, c \in A[d] : rank[a] <= rank[c] => a \in A[c]
<1> DEFINE Q(d) == \A a, c \in A[d] : rank[a] <= rank[c] => a \in A[c]
           P == {bot} \cup {d \in D : Q(d)}
<1>1. bot \notin D /\ up \in [D -> D \cup {bot}] /\ rank \in [D -> Nat]
  BY DEF IsTree
<1>2. \A d \in D : A[d] = IF up[d] = bot THEN {d} ELSE {d} \cup A[up[d]]
  BY DEF IsAncestry
<1>3. \A d \in D : \A a \in A[d] : a \in D /\ (a = d \/ rank[a] < rank[d])
  BY AncestryFacts
<1>4. ASSUME NEW d \in D, up[d] \in P, NEW a \in A[d], NEW c \in A[d], rank[a] <= rank[c]
      PROVE  a \in A[c]
  <2>1. CASE c = d
    BY <2>1
  <2>2. CASE c # d
    <3>1. up[d] # bot /\ c \in A[up[d]]
      BY <1>2, <2>2
    <3>2. a # d
      BY <1>1, <1>3, <1>4, <2>2
    <3>3. up[d] \in D /\ a \in A[up[d]]
      BY <1>1, <1>2, <3>1, <3>2
    <3>4. QED BY <1>1, <1>4, <3>1, <3>3
  <2>3. QED BY <2>1, <2>2
<1>5. D \subseteq P
  <2>1. bot \in P /\ \A d \in D : up[d] \in P => d \in P
    BY <1>4
  <2> HIDE DEF P
  <2>2. QED BY <2>1, TreeInduction
<1>6. QED BY <1>1, <1>5

-----------------------------------------------------------------------------
(* The best of finitely many blocks. *)

\* R is a total preorder on D: <<a, b>> \in R says that a is at least as good as b.
IsOrder(D, R) ==
    /\ \A a, b \in D : <<a, b>> \in R \/ <<b, a>> \in R
    /\ \A a, b, c \in D : <<a, b>> \in R /\ <<b, c>> \in R => <<a, c>> \in R

\* A finite set of blocks that is not empty has a best one.
LEMMA FiniteMaximum ==
    ASSUME NEW D, NEW R, IsOrder(D, R), NEW S \in SUBSET D, IsFiniteSet(S), S # {}
    PROVE  \E m \in S : \A c \in S : <<m, c>> \in R
<1> DEFINE HasBest(U) == \E m \in U : \A c \in U : <<m, c>> \in R
           T == {Cardinality(U) : U \in {V \in SUBSET S : V # {} /\ ~HasBest(V)}}
<1>1. SUFFICES ASSUME ~HasBest(S) PROVE FALSE
  OBVIOUS
<1>2. \A U \in SUBSET S : IsFiniteSet(U) /\ Cardinality(U) \in Nat
  BY FS_Subset, FS_CardinalityType
<1>3. T \in SUBSET Nat /\ T # {}
  BY <1>1, <1>2
<1>4. PICK n \in T : \A m \in T : n <= m
  <2> HIDE DEF T
  <2>1. QED BY <1>3, SmallestNumber
<1>5. PICK U \in SUBSET S : U # {} /\ ~HasBest(U) /\ Cardinality(U) = n
  BY <1>4
<1>6. PICK x \in U : TRUE
  BY <1>5
<1> DEFINE V == U \ {x}
<1>7. V \in SUBSET S /\ Cardinality(V) \in Nat /\ Cardinality(V) < n
  BY <1>2, <1>5, <1>6, FS_RemoveElement
<1>8. V = {} \/ HasBest(V)
  <2>1. SUFFICES ASSUME V # {}, ~HasBest(V) PROVE FALSE
    OBVIOUS
  <2>2. Cardinality(V) \in T
    BY <1>7, <2>1
  <2>3. n \in Nat /\ n <= Cardinality(V)
    BY <1>3, <1>4, <2>2
  <2>4. QED BY <1>7, <2>3
<1>9. CASE V = {}
  BY <1>5, <1>6, <1>9 DEF IsOrder
<1>10. CASE HasBest(V)
  <2>1. PICK m \in V : \A c \in V : <<m, c>> \in R
    BY <1>10
  <2>2. CASE <<m, x>> \in R
    BY <1>5, <1>6, <2>1, <2>2
  <2>3. CASE <<x, m>> \in R
    <3>1. \A c \in U : <<x, c>> \in R
      BY <1>5, <1>6, <2>1, <2>3 DEF IsOrder
    <3>2. QED BY <1>5, <1>6, <3>1
  <2>4. QED BY <1>5, <1>6, <2>1, <2>2, <2>3 DEF IsOrder
<1>11. QED BY <1>8, <1>9, <1>10

-----------------------------------------------------------------------------
(* Recursion: the solutions for the lower blocks are put together. *)

\* The value for bot, and how the value for a block comes from its parent's.
IsStep(D, S, base, step) == base \in S /\ step \in [D \X S -> S]

\* f is the function they define.
IsDefinedBy(D, bot, up, S, base, step, f) ==
    /\ f \in [D \cup {bot} -> S]
    /\ f = [d \in D \cup {bot} |-> IF d = bot THEN base ELSE step[<<d, f[up[d]]>>]]

\* The blocks of a rank below n, and bot.
Below(D, bot, rank, n) == {d \in D : rank[d] < n} \cup {bot}

\* g solves the recursion for those blocks.
Solves(D, bot, up, rank, S, base, step, n, g) ==
    /\ g \in [Below(D, bot, rank, n) -> S]
    /\ g[bot] = base
    /\ \A d \in D : rank[d] < n => g[d] = step[<<d, g[up[d]]>>]

\* A solution for the blocks below n gives one for those below n + 1.
LEMMA SolutionGrows ==
    ASSUME NEW D, NEW bot, NEW up, NEW rank, IsTree(D, bot, up, rank),
           NEW S, NEW base, NEW step, IsStep(D, S, base, step), NEW n \in Nat, NEW g,
           Solves(D, bot, up, rank, S, base, step, n, g)
    PROVE  \E h : Solves(D, bot, up, rank, S, base, step, n + 1, h)
<1> DEFINE B(m) == Below(D, bot, rank, m)
           h == [d \in B(n + 1) |-> IF d = bot THEN base ELSE step[<<d, g[up[d]]>>]]
<1>1. /\ bot \notin D /\ rank \in [D -> Nat] /\ up \in [D -> D \cup {bot}]
      /\ base \in S /\ step \in [D \X S -> S]
  BY DEF IsTree, IsStep
<1>2. \A d \in D : rank[d] < n + 1 => up[d] \in B(n)
  BY <1>1 DEF IsTree, Below
<1>3. g \in [B(n) -> S] /\ g[bot] = base
  BY DEF Solves
<1>4. \A d \in D : rank[d] < n + 1 => step[<<d, g[up[d]]>>] \in S
  BY <1>1, <1>2, <1>3
<1>5. h \in [B(n + 1) -> S] /\ h[bot] = base
  BY <1>1, <1>4 DEF Below
<1>6. ASSUME NEW d \in D, rank[d] < n + 1 PROVE h[d] = step[<<d, g[up[d]]>>]
  BY <1>1, <1>6 DEF Below
<1>7. ASSUME NEW d \in D, rank[d] < n + 1 PROVE h[up[d]] = g[up[d]]
  <2>1. CASE up[d] = bot
    BY <2>1, <1>3, <1>5
  <2>2. CASE up[d] # bot
    <3>1. up[d] \in D /\ rank[up[d]] < n /\ rank[up[d]] < n + 1
      BY <1>1, <1>7, <2>2 DEF IsTree
    <3>2. g[up[d]] = step[<<up[d], g[up[up[d]]]>>]
      BY <3>1 DEF Solves
    <3>3. h[up[d]] = step[<<up[d], g[up[up[d]]]>>]
      BY <1>6, <3>1
    <3>4. QED BY <3>2, <3>3
  <2>3. QED BY <2>1, <2>2
<1>8. \A d \in D : rank[d] < n + 1 => h[d] = step[<<d, h[up[d]]>>]
  BY <1>6, <1>7
<1>9. Solves(D, bot, up, rank, S, base, step, n + 1, h)
  BY <1>5, <1>8 DEF Solves
<1>10. QED BY <1>9

\* There is a solution for the blocks below any rank.
LEMMA SolutionBelow ==
    ASSUME NEW D, NEW bot, NEW up, NEW rank, IsTree(D, bot, up, rank),
           NEW S, NEW base, NEW step, IsStep(D, S, base, step)
    PROVE  \A n \in Nat : \E g : Solves(D, bot, up, rank, S, base, step, n, g)
<1> DEFINE Good == {n \in Nat : \E g : Solves(D, bot, up, rank, S, base, step, n, g)}
<1>1. 0 \in Good
  <2> DEFINE g == [d \in {bot} |-> base]
  <2>1. Below(D, bot, rank, 0) = {bot}
    BY DEF Below, IsTree
  <2>2. g \in [{bot} -> S] /\ g[bot] = base
    BY DEF IsStep
  <2>3. \A d \in D : ~(rank[d] < 0)
    BY DEF IsTree
  <2>4. Solves(D, bot, up, rank, S, base, step, 0, g)
    BY <2>1, <2>2, <2>3 DEF Solves
  <2>5. QED BY <2>4
<1>2. \A n \in Nat : n \in Good => n + 1 \in Good
  BY SolutionGrows
<1>3. SUFFICES Nat \subseteq Good
  OBVIOUS
<1>4. SUFFICES ASSUME Nat \ Good # {} PROVE FALSE
  OBVIOUS
<1>5. PICK n \in Nat \ Good : \A m \in Nat \ Good : n <= m
  <2> HIDE DEF Good
  <2>1. QED BY <1>4, SmallestNumber
<1>6. n # 0 /\ n \in Nat
  BY <1>1, <1>5
<1>7. n - 1 \in Nat /\ ~(n <= n - 1)
  BY <1>6
<1>8. n - 1 \in Good
  BY <1>5, <1>7
<1>9. n \in Good
  BY <1>2, <1>6, <1>7, <1>8
<1>10. QED BY <1>5, <1>9

\* Two solutions agree wherever both are defined.
LEMMA SolutionsAgree ==
    ASSUME NEW D, NEW bot, NEW up, NEW rank, IsTree(D, bot, up, rank),
           NEW S, NEW base, NEW step, IsStep(D, S, base, step),
           NEW n \in Nat, NEW g, Solves(D, bot, up, rank, S, base, step, n, g),
           NEW m \in Nat, NEW h, Solves(D, bot, up, rank, S, base, step, m, h)
    PROVE  \A d \in D : rank[d] < n /\ rank[d] < m => g[d] = h[d]
<1> DEFINE P == {bot} \cup {d \in D : rank[d] < n /\ rank[d] < m => g[d] = h[d]}
<1>1. bot \notin D /\ rank \in [D -> Nat] /\ up \in [D -> D \cup {bot}] /\ g[bot] = h[bot]
  BY DEF IsTree, Solves
<1>2. ASSUME NEW d \in D, up[d] \in P, rank[d] < n, rank[d] < m PROVE g[d] = h[d]
  <2>1. g[up[d]] = h[up[d]]
    <3>1. CASE up[d] = bot
      BY <1>1, <3>1
    <3>2. CASE up[d] # bot
      <4>1. up[d] \in D /\ rank[up[d]] < n /\ rank[up[d]] < m
        BY <1>1, <1>2, <3>2 DEF IsTree
      <4>2. QED BY <1>1, <1>2, <4>1
    <3>3. QED BY <3>1, <3>2
  <2>2. g[d] = step[<<d, g[up[d]]>>] /\ h[d] = step[<<d, h[up[d]]>>]
    BY <1>2 DEF Solves
  <2>3. QED BY <2>1, <2>2
<1>3. \A d \in D : up[d] \in P => d \in P
  BY <1>2
<1>4. bot \in P
  OBVIOUS
<1>5. D \subseteq P
  <2> HIDE DEF P
  <2>1. QED BY <1>3, <1>4, TreeInduction
<1>6. QED BY <1>1, <1>5

\* A function is defined by what it is for the parent of the roots, and by how
\* its value for a block comes from the one for the parent.
THEOREM TreeRecursionExists ==
    ASSUME NEW D, NEW bot, NEW up, NEW rank, IsTree(D, bot, up, rank),
           NEW S, NEW base, NEW step, IsStep(D, S, base, step)
    PROVE  \E f : IsDefinedBy(D, bot, up, S, base, step, f)
<1> DEFINE Sol(n, g) == Solves(D, bot, up, rank, S, base, step, n, g)
           G(n) == CHOOSE g : Sol(n, g)
           f == [d \in D \cup {bot} |-> IF d = bot THEN base ELSE G(rank[d] + 1)[d]]
<1>1. bot \notin D /\ rank \in [D -> Nat] /\ up \in [D -> D \cup {bot}]
  BY DEF IsTree
<1>2. \A n \in Nat : Sol(n, G(n))
  BY SolutionBelow
<1> HIDE DEF G
<1>3. ASSUME NEW n \in Nat, NEW m \in Nat, NEW e \in D, rank[e] < n, rank[e] < m
      PROVE  G(n)[e] = G(m)[e]
  <2>1. PICK g : g = G(n) /\ Solves(D, bot, up, rank, S, base, step, n, g)
    BY <1>2
  <2>2. PICK h : h = G(m) /\ Solves(D, bot, up, rank, S, base, step, m, h)
    BY <1>2
  <2>3. g[e] = h[e]
    BY <1>3, <2>1, <2>2, SolutionsAgree
  <2>4. QED BY <2>1, <2>2, <2>3
<1>4. ASSUME NEW d \in D
      PROVE  /\ f[d] \in S
             /\ f[d] = step[<<d, f[up[d]]>>]
  <2> DEFINE n == rank[d] + 1
  <2>1. n \in Nat /\ rank[d] < n /\ Sol(n, G(n))
    BY <1>1, <1>2
  <2>2. f[d] = G(n)[d]
    BY <1>1
  <2>3. G(n)[d] \in S /\ G(n)[d] = step[<<d, G(n)[up[d]]>>]
    BY <2>1 DEF Solves, Below
  <2>4. f[up[d]] = G(n)[up[d]]
    <3>1. CASE up[d] = bot
      BY <2>1, <3>1 DEF Solves
    <3>2. CASE up[d] # bot
      <4> DEFINE m == rank[up[d]] + 1
      <4>1. up[d] \in D /\ m \in Nat /\ rank[up[d]] < n /\ rank[up[d]] < m
        BY <1>1, <3>2 DEF IsTree
      <4>2. G(n)[up[d]] = G(m)[up[d]]
        BY <1>3, <2>1, <4>1
      <4>3. f[up[d]] = G(m)[up[d]]
        BY <1>1, <4>1
      <4>4. QED BY <4>2, <4>3
    <3>3. QED BY <3>1, <3>2
  <2>5. QED BY <2>2, <2>3, <2>4
<1>5. f[bot] = base
  OBVIOUS
<1>6. \A d \in D \cup {bot} : f[d] \in S
  BY <1>4, <1>5 DEF IsStep
<1>7. f \in [D \cup {bot} -> S]
  BY <1>6
<1>8. f = [d \in D \cup {bot} |-> IF d = bot THEN base ELSE step[<<d, f[up[d]]>>]]
  <2>1. \A d \in D \cup {bot} : f[d] = IF d = bot THEN base ELSE step[<<d, f[up[d]]>>]
    BY <1>1, <1>4, <1>5
  <2> HIDE DEF f
  <2>2. QED BY <1>7, <2>1
<1>9. IsDefinedBy(D, bot, up, S, base, step, f)
  BY <1>7, <1>8 DEF IsDefinedBy
<1>10. QED BY <1>9

-----------------------------------------------------------------------------
(* The transactions 1 .. N of a block as a tree that is a list. *)

\* Every transaction comes after the one before it.
LEMMA ListIsTree ==
    ASSUME NEW N \in Nat
    PROVE  IsTree(1 .. N, 0, [n \in 1 .. N |-> n - 1], [n \in 1 .. N |-> n])
BY DEF IsTree

\* What holds before the first transaction, and after each one once it holds
\* before it, holds throughout.
LEMMA ListInduction ==
    ASSUME NEW N \in Nat, NEW P, 0 \in P, \A n \in 1 .. N : n - 1 \in P => n \in P
    PROVE  0 .. N \subseteq P
<1> DEFINE up == [n \in 1 .. N |-> n - 1]
           rank == [n \in 1 .. N |-> n]
<1>1. IsTree(1 .. N, 0, up, rank)
  BY ListIsTree
<1>2. \A n \in 1 .. N : up[n] \in P => n \in P
  OBVIOUS
<1>3. 1 .. N \subseteq P
  <2> HIDE DEF up, rank
  <2>1. QED BY <1>1, <1>2, TreeInduction
<1>4. QED BY <1>3

\* f is the list of the states between the transactions: base, and what each
\* transaction makes of the state before it.
IsListBy(N, S, base, step, f) ==
    /\ f \in [0 .. N -> S]
    /\ f = [n \in 0 .. N |-> IF n = 0 THEN base ELSE step[<<n, f[n - 1]>>]]

\* The states between the transactions are defined by the first one and by what
\* each transaction does.
THEOREM ListRecursionExists ==
    ASSUME NEW N \in Nat, NEW S, NEW base, NEW step, IsStep(1 .. N, S, base, step)
    PROVE  \E f : IsListBy(N, S, base, step, f)
<1> DEFINE up == [n \in 1 .. N |-> n - 1]
           rank == [n \in 1 .. N |-> n]
           D == 1 .. N
<1>1. IsTree(D, 0, up, rank)
  BY ListIsTree
<1>2. PICK f : IsDefinedBy(D, 0, up, S, base, step, f)
  <2>1. IsStep(D, S, base, step)
    OBVIOUS
  <2> HIDE DEF up, rank, D
  <2>2. QED BY <1>1, <2>1, TreeRecursionExists
<1>3. D \cup {0} = 0 .. N
  OBVIOUS
<1>4. \A n \in 0 .. N : f[n] = IF n = 0 THEN base ELSE step[<<n, f[n - 1]>>]
  BY <1>2, <1>3 DEF IsDefinedBy
<1>5. f \in [0 .. N -> S]
  BY <1>2, <1>3 DEF IsDefinedBy
<1>6. f = [n \in 0 .. N |-> IF n = 0 THEN base ELSE step[<<n, f[n - 1]>>]]
  <2> HIDE DEF D
  <2>1. QED BY <1>4, <1>5
<1>7. IsListBy(N, S, base, step, f)
  BY <1>5, <1>6 DEF IsListBy
<1>8. QED BY <1>7

=============================================================================
