----------------------------- MODULE MCStartup ------------------------------
(* Startup for TLC: a good configuration, one without a watchdog, and each *)
(* way a configuration can be refused.                                     *)
EXTENDS Startup

Good ==
  [node_id |-> 1, peers |-> <<1, 2, 3>>, pg_addrs |-> <<1, 2, 3>>, raft_dir |-> TRUE,
   watchdog |-> TRUE]

MCConfigs ==
  {Good,
   [Good EXCEPT !.pg_addrs = <<1, Bad, 3>>],
   [Good EXCEPT !.watchdog = FALSE],
   [Good EXCEPT !.node_id = 0],
   [Good EXCEPT !.peers = <<Bad>>],
   [Good EXCEPT !.peers = <<1, 2, 2>>],
   [Good EXCEPT !.peers = <<2, 3>>],
   [Good EXCEPT !.pg_addrs = <<Bad, 2, 3>>],
   [Good EXCEPT !.raft_dir = FALSE]}
=============================================================================
