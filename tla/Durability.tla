----------------------------- MODULE Durability -----------------------------
(***************************************************************************)
(* The replication model of packages/consensus-model (struct Cluster): one *)
(* primary writes, streams to standbys, acknowledges a write once          *)
(* AckQuorum nodes hold it, and after a crash hands over to the node with  *)
(* the highest LSN of some majority of live nodes.                         *)
(***************************************************************************)
EXTENDS Integers, FiniteSets

CONSTANTS
  N,          \* cluster size (n)
  AckQuorum,  \* copies needed before a write is acknowledged (ack_quorum)
  MaxLsn,     \* bound on writes (max_lsn)
  MaxTerm     \* bound on failovers (max_term)

ASSUME DurabilityAssumption ==
  /\ N \in Nat \ {0}
  /\ AckQuorum \in Nat
  /\ MaxLsn \in Nat
  /\ MaxTerm \in Nat

VARIABLES lsn, alive, primary, acked, term
vars == <<lsn, alive, primary, acked, term>>

Node == 0 .. N - 1
Majority == N \div 2 + 1

Alive == {i \in Node : alive[i]}

\* primary is an Option in the code but starts as Some(0) and is never cleared.
Init ==
  /\ lsn = [i \in Node |-> 0]
  /\ alive = [i \in Node |-> TRUE]
  /\ primary = 0
  /\ acked = 0
  /\ term = 0

-----------------------------------------------------------------------------
(* The candidates of a failover.                                           *)

Ahead(a, b) == lsn[a] > lsn[b] \/ (lsn[a] = lsn[b] /\ a <= b)

\* Mutant of PossibleNewPrimary: any live node, whatever it holds.
AnyLiveNode(w) == alive[w]

\* The winners over every live majority: highest LSN, lowest id on a tie.
PossibleNewPrimary(w) ==
  \E members \in SUBSET Alive :
    /\ Cardinality(members) = Majority
    /\ w \in members
    /\ \A m \in members : Ahead(w, m)

-----------------------------------------------------------------------------
(* One action per variant of enum Action.                                  *)

Write ==
  /\ alive[primary]
  /\ lsn[primary] < MaxLsn
  /\ lsn' = [lsn EXCEPT ![primary] = @ + 1]
  /\ UNCHANGED <<alive, primary, acked, term>>

\* Mutant of Behind: off by one.
BehindOrEqual(i) == lsn[i] <= lsn[primary]

Behind(i) == lsn[i] < lsn[primary]

Replicate(i) ==
  /\ alive[primary]
  /\ i # primary
  /\ alive[i]
  /\ Behind(i)
  /\ lsn' = [lsn EXCEPT ![i] = @ + 1]
  /\ UNCHANGED <<alive, primary, acked, term>>

Confirmers == {i \in Node : alive[i] /\ lsn[i] >= lsn[primary]}

AckAllowed == Cardinality(Confirmers) >= AckQuorum

Ack ==
  /\ alive[primary]
  /\ lsn[primary] > 0
  /\ acked < lsn[primary]
  /\ AckAllowed
  /\ acked' = lsn[primary]
  /\ UNCHANGED <<lsn, alive, primary, term>>

Crash(i) ==
  /\ alive[i]
  /\ alive' = [alive EXCEPT ![i] = FALSE]
  /\ UNCHANGED <<lsn, primary, acked, term>>

Failover(w) ==
  /\ ~alive[primary]
  /\ term < MaxTerm
  /\ PossibleNewPrimary(w)
  /\ primary' = w
  /\ term' = term + 1
  /\ UNCHANGED <<lsn, alive, acked>>

Next ==
  \/ Write
  \/ Ack
  \/ \E i \in Node : Replicate(i) \/ Crash(i) \/ Failover(i)

Spec == Init /\ [][Next]_vars

-----------------------------------------------------------------------------
(* Type correctness of struct State, with the bounds of within_boundary:   *)
(* neither a write nor a replicated copy nor a failover leaves them.       *)
TypeOK ==
  /\ lsn \in [Node -> 0 .. MaxLsn]
  /\ alive \in [Node -> BOOLEAN]
  /\ primary \in Node
  /\ acked \in 0 .. MaxLsn
  /\ term \in 0 .. MaxTerm

(* The property no_acked_loss: whoever is primary, through any sequence of *)
(* crashes and failovers, holds every write that was ever acknowledged.    *)
NoAckedLoss == lsn[primary] >= acked

(* What makes NoAckedLoss inductive: the copies counted by Ack survive in  *)
(* a majority of nodes (crashed ones included), which every later majority *)
(* of possible_new_primaries meets.                                        *)
Holders == {i \in Node : lsn[i] >= acked}
MajorityHolds == Cardinality(Holders) >= Majority

IInv == TypeOK /\ NoAckedLoss /\ MajorityHolds
=============================================================================
