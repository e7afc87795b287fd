------------------------------ MODULE MCIntake ------------------------------
(***************************************************************************)
(* Two blocks whose signatures are verified one at a time, and one that    *)
(* needs no verification.                                                  *)
(***************************************************************************)
EXTENDS BlockIntake

CONSTANTS b, s1, s2

MCBlock == {b, s1, s2}
MCUnverified == {s1, s2}

=============================================================================
