----------------------------- MODULE MCBlockTree -----------------------------
(* Small block trees for BlockTree: two branches that compete. *)
EXTENDS BlockTree, TLC

CONSTANTS g, a1, a2, a3, b1, b2

\* The smallest sequence id, near enough to be reached.
LowestId == -2

\* g - a1 - a2, and b2 on b1 on g: a1 and b1 tie, b2 beats a2.
ForkParent == (a1 :> g) @@ (a2 :> a1) @@ (b1 :> g) @@ (b2 :> b1)
ForkHeight == (g :> 0) @@ (a1 :> 1) @@ (a2 :> 2) @@ (b1 :> 1) @@ (b2 :> 2)
ForkProof == (g :> 1) @@ (a1 :> 1) @@ (a2 :> 1) @@ (b1 :> 1) @@ (b2 :> 2)
ForkAddress == (g :> 1) @@ (a1 :> 3) @@ (a2 :> 2) @@ (b1 :> 4) @@ (b2 :> 5)

\* g - a1 - a2 - a3, and b1 on g, as good as a2.
LadderParent == (a1 :> g) @@ (a2 :> a1) @@ (a3 :> a2) @@ (b1 :> g)
LadderHeight == (g :> 0) @@ (a1 :> 1) @@ (a2 :> 2) @@ (a3 :> 3) @@ (b1 :> 1)
LadderProof == (g :> 1) @@ (a1 :> 1) @@ (a2 :> 1) @@ (a3 :> 1) @@ (b1 :> 2)
LadderAddress == (g :> 1) @@ (a1 :> 3) @@ (a2 :> 2) @@ (a3 :> 5) @@ (b1 :> 4)

\* The same with b2 on b1: it has no work, and beats b1 when their ids are equal.
SnagParent == LadderParent @@ (b2 :> b1)
SnagHeight == LadderHeight @@ (b2 :> 2)
SnagProof == LadderProof @@ (b2 :> 0)
SnagAddress == LadderAddress @@ (b2 :> 0)

=============================================================================
