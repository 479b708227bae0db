----------------------------- MODULE MCGossip -------------------------------
(* Gossip for TLC: node 2 sends what encode_gossip makes; 9, which is no   *)
(* voter, sends less.                                                      *)
EXTENDS Gossip

MCWidth == [s \in Senders |-> IF s = 2 THEN 18 ELSE 9]
MCMaxSeq == [s \in Senders |-> IF s = 2 THEN 2 ELSE 1]
MCMaxQueue == [s \in Senders |-> IF s = 2 THEN 2 ELSE 1]
=============================================================================
