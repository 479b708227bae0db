---------------------------- MODULE MCSupervisor ----------------------------
(* One node: every fault, failing psql calls included.                     *)
EXTENDS Supervisor
=============================================================================
