---------------------------- MODULE MCPostgresLedger ----------------------------
(***************************************************************************)
(* Two clients on one account.  In the exclusive instance each posts       *)
(* sources of its own; in the shared instances both post the same ones,    *)
(* and neither clients nor sources can be told apart.                      *)
(* MCAward is a check-in award: every call of a source posts the same      *)
(* credit, as two syncLandingCheckins of one user do.                      *)
(***************************************************************************)
EXTENDS PostgresLedger, TLC

CONSTANTS c1, c2, s1, s2, s3

MCDeltas == {-1, 0, 1}

MCAward == {1}

MCExclusive == (c1 :> {s1, s2}) @@ (c2 :> {s3})

MCShared == (c1 :> Sources) @@ (c2 :> Sources)

MCSymmetry == Permutations(Clients) \cup Permutations(Sources)
=============================================================================
