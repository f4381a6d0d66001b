----------------------------- MODULE MCSpectatorView -----------------------------
(***************************************************************************)
(* A window of two packets, which overflows twice: four packets of two     *)
(* kinds.  Two events and two ready messages under way.                    *)
(***************************************************************************)
EXTENDS SpectatorView, TLC
=============================================================================
