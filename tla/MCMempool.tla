----------------------------- MODULE MCMempool ------------------------------
(***************************************************************************)
(* Two issues i and j of one name; a payment k from the change of i; two   *)
(* conflicting reissues r and q that spend i; a reissue s that spends r;   *)
(* a payment c that spends k and r.                                        *)
(***************************************************************************)
EXTENDS Mempool

CONSTANTS i, j, k, r, q, s, c, A

MCvin(t) == CASE t = i -> {<<"coin", 1>>}
              [] t = j -> {<<"coin", 2>>}
              [] t = k -> {<<"i", 1>>}
              [] t = r -> {<<"i", 2>>}
              [] t = q -> {<<"i", 2>>}
              [] t = s -> {<<"r", 1>>}
              [] t = c -> {<<"k", 1>>, <<"r", 2>>}

MCvout(t) == CASE t = i -> {<<"i", 1>>, <<"i", 2>>}
               [] t = k -> {<<"k", 1>>}
               [] t = r -> {<<"r", 1>>, <<"r", 2>>}
               [] OTHER -> {}

MCissues(t) == IF t \in {i, j} THEN <<A>> ELSE <<>>
MCreissues(t) == IF t \in {r, q, s} THEN {A} ELSE {}
MCCoins == {<<"coin", 1>>, <<"coin", 2>>}

\* j, which has no child, loses its name to i.
MCBlock == {<<i>>, <<i, k>>, <<k>>, <<r>>, <<q>>, <<r, s>>, <<k, r, c>>}

\* i loses its name to j.
NameLostBlock == {<<j>>}
=============================================================================
