------------------------------ MODULE MCPrintBridge ------------------------------
(***************************************************************************)
(* Two bridges with one tick at a time, an operator on one of them, and    *)
(* two jobs, of which the other bridge may print one; and one bridge whose *)
(* ticks overlap.                                                          *)
(***************************************************************************)
EXTENDS PrintBridge, TLC

CONSTANTS b1, b2, t1, t2, c1, j1, j2

MCPrintersOf == (j1 :> Bridges) @@ (j2 :> {b1})

MCBridgeOf == (t1 :> b1) @@ (t2 :> b2) @@ (c1 :> b1)

MCOneBridge == [c \in Ticks |-> b1]
=============================================================================
