------------------------------ MODULE MCTokens ------------------------------
(* Two token names and a username for Tokens. *)
EXTENDS Tokens

CONSTANTS x, y, u, x1, x2, y1, r1, r2, r3, u1, h

MCName == {x, y, u}
MCTx == {x1, x2, y1, r1, r2, r3, u1}

\* x is issued by x1 or by x2; y by y1, and reissued by r1 and then r2 or r3.
MCKind == [tx \in MCTx |-> IF tx \in {r1, r2, r3} THEN "reissue"
                           ELSE IF tx = u1 THEN "username" ELSE "issue"]
MCstrName == [tx \in MCTx |-> IF tx \in {x1, x2} THEN x ELSE IF tx = u1 THEN u ELSE y]
MCownerInput == (r1 :> y1) @@ (r2 :> r1) @@ (r3 :> r1)

D(amount, reissuable, units, hash) ==
    [nAmount |-> amount, nReissuable |-> reissuable, units |-> units, strIPFSHash |-> hash]

\* r1 sets the ipfs hash; r2 sets the units and ends reissuing; r3 is too much.
MCData == (x1 :> D(1, 0, 0, NoHash)) @@ (x2 :> D(2, 1, 1, h)) @@ (y1 :> D(1, 1, 0, NoHash))
            @@ (r1 :> D(1, 1, -1, h)) @@ (r2 :> D(1, 0, 2, NoHash)) @@ (r3 :> D(2, 1, -1, NoHash))
            @@ (u1 :> D(1, 0, 0, NoHash))

\* Transactions in blocks of their own and together.
MCBlocks == {<<x1, y1>>, <<y1>>, <<r1>>, <<r2>>, <<r3>>, <<u1, x2, y1, r1>>}

\* x is issued on one branch by x1 and reissued by r1, on the other by x2.
OverridestrName == [tx \in MCTx |-> x]
OverrideownerInput == (r1 :> x1) @@ (r2 :> r1) @@ (r3 :> r1)
OverrideData == (x1 :> D(1, 1, 0, NoHash)) @@ MCData
OverrideBlocks == {<<x1>>, <<x2>>, <<r1>>}
=============================================================================
