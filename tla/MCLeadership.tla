---------------------------- MODULE MCLeadership ----------------------------
(* Three nodes and five terms, one more than the repository's own test.     *)
EXTENDS Leadership
=============================================================================
