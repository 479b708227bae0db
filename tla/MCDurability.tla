---------------------------- MODULE MCDurability ----------------------------
(* Five nodes, as in the largest instance the repository's tests check.     *)
EXTENDS Durability
=============================================================================
