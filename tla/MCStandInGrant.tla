----------------------------- MODULE MCStandInGrant -----------------------------
(***************************************************************************)
(* One account.  Two handlers run grants under a key each, of two points   *)
(* and of one; a third client awards and spends single points.             *)
(***************************************************************************)
EXTENDS StandInGrant, TLC

CONSTANTS ap, h1, h2, k1, k2

MCDeltas == {-1, 2}

O(k, n) == [account |-> ap, key |-> k, amount |-> n]

MCOrders == (h1 :> {O(k1, 2)}) @@ (h2 :> {O(k2, 1)})
=============================================================================
