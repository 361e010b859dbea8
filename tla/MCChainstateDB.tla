--------------------------- MODULE MCChainstateDB ---------------------------
(* A common block and two branches.  The transaction that spends x and       *)
(* creates z is in both of them, at different heights; z is spent on one and *)
(* y on the other.                                                           *)
EXTENDS ChainstateDB

CONSTANTS g, p, a1, a2, b1, b2, x, y, z, w

Tx(in, out) == [vin |-> in, vout |-> out]

MCBlock == {g, p, a1, a2, b1, b2}
MCOutPoint == {x, y, z, w}
MCpprev ==
    [b \in MCBlock |->
        CASE b = g -> NoBlock [] b = p -> g
          [] b \in {a1, b1} -> p [] b = a2 -> a1 [] b = b2 -> b1]
MCnHeight ==
    [b \in MCBlock |->
        CASE b = g -> 0 [] b = p -> 1 [] b \in {a1, b1} -> 2 [] b \in {a2, b2} -> 3]
MCvtx ==
    [b \in MCBlock |->
        CASE b = g  -> <<Tx({}, {w})>>
          [] b = p  -> <<Tx({}, {x, y})>>
          [] b = a1 -> <<Tx({x}, {z})>>
          [] b = a2 -> <<Tx({z}, {w})>>
          [] b = b1 -> <<Tx({y}, {})>>
          [] b = b2 -> <<Tx({x}, {z}), Tx({z}, {w})>>]
=============================================================================
