----------------------------- MODULE MCWallet -------------------------------
(***************************************************************************)
(* A payment a, a payment x of the same coin, a payment b that the wallet  *)
(* makes from a, and a coinstake s on another coin.                        *)
(***************************************************************************)
EXTENDS Wallet

CONSTANTS a, b, x, s

MCvin(t) == CASE t = a -> {<<"coin", 1>>}
              [] t = x -> {<<"coin", 1>>}
              [] t = b -> {<<"a", 1>>}
              [] t = s -> {<<"coin", 2>>}

MCvout(t) == IF t = a THEN {<<"a", 1>>} ELSE {}

MCCoins == {<<"coin", 1>>, <<"coin", 2>>}
MCBlock == {<<a>>, <<x>>, <<s, b>>}
ParentFirst == <<a, b, s, x>>
=============================================================================
