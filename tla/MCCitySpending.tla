----------------------------- MODULE MCCitySpending -----------------------------
(***************************************************************************)
(* One user and one proposal.  Two requests run at a time: each handler's  *)
(* callers contribute under a key of their own tab, one syncs check-ins,   *)
(* the other trades.  A grant and two check-ins bring the points.          *)
(***************************************************************************)
EXTENDS CitySpending, TLC

CONSTANTS h1, h2, ap, p1

C(k, n) == [account |-> ap, proposal |-> p1, key |-> k, amount |-> n]

MCContributions == {C("k1", 2), C("k2", 1)}

MCTrades == {[user |-> "u", account |-> ap, key |-> "k3", amount |-> 1]}

MCSyncs == {[account |-> ap, listed |-> {}, todo |-> {}]}

MCOrdersOf == (h1 :> {C("k1", 2)} \cup MCSyncs) @@ (h2 :> {C("k2", 1)} \cup MCTrades)

MCThreshold == p1 :> 3

MCCheckins == {<<"daily_checkin", 1>>, <<"event_checkin", 1>>}

MCAward == [k \in MCCheckins |-> IF k[1] = "daily_checkin" THEN 1 ELSE 2]

MCSources == OrderSources \cup {<<"admin_grant", 1>>}

MCDeltas == {2}
=============================================================================
