------------------------------ MODULE MCPrintOrders ------------------------------
(***************************************************************************)
(* One print request, quoted at one GP or two.  Its owner has two tabs,    *)
(* each confirming under a key of its own; an admin's request queues it    *)
(* and another grants two GP.                                              *)
(***************************************************************************)
EXTENDS PrintOrders, TLC

CONSTANTS h1, h2, gp, r1

Tab(k) == [account |-> gp, request |-> r1, key |-> k]

MCConfirmations == {Tab("k1"), Tab("k2")}

MCEnqueues == {[request |-> r1]}

MCOrdersOf == (h1 :> {Tab("k1")} \cup MCEnqueues) @@ (h2 :> {Tab("k2")})

MCSources == {PrintSource(o) : o \in MCConfirmations} \cup {<<"admin_grant", 1>>, <<"admin_grant", 2>>}

MCDeltas == {2}
=============================================================================
