----------------------------- MODULE MCRaftStore -----------------------------
(* One node's Raft storage, small enough to explore with power loss.       *)
EXTENDS RaftStore
=============================================================================
