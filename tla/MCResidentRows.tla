------------------------------ MODULE MCResidentRows ------------------------------
(***************************************************************************)
(* Two pages, one resident, up to two computations; three sockets at a     *)
(* time, of which one is lost while open.                                  *)
(***************************************************************************)
EXTENDS ResidentRows, TLC
=============================================================================
