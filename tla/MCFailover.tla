---------------------------- MODULE MCFailover ------------------------------
(* Failover for TLC.                                                       *)
EXTENDS Failover

\* A cluster with any primary and any leader, or a new one seeded with node 1
\* and led by node 2.
MCStarts ==
  {<<seed, first, TRUE>> : seed, first \in 1 .. N} \cup {<<1, 2, FALSE>>}
=============================================================================
