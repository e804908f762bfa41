------------------------------ MODULE MCStrmap ------------------------------
(***************************************************************************)
(* Four hashes: the fewest for which a subtree is hung back in below       *)
(* another node of the other subtree.                                      *)
(***************************************************************************)
EXTENDS Strmap

CONSTANTS v1, v2

MCHash == 1..4
MCVal  == {v1, v2}
=============================================================================
