----------------------------- MODULE MCRejoin -------------------------------
(* Rejoin for TLC.                                                         *)
EXTENDS Rejoin
=============================================================================
