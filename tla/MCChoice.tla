------------------------------ MODULE MCChoice ------------------------------
(* Choice for TLC.                                                         *)
EXTENDS Choice
=============================================================================
