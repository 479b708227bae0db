-------------------------- MODULE DurabilityProofs --------------------------
(***************************************************************************)
(* NoAckedLoss for every cluster size, provided a write is acknowledged    *)
(* only once a majority holds it.                                          *)
(***************************************************************************)
EXTENDS Durability, FiniteSetTheorems, TLAPS

(* Node is finite and has N members.                                       *)
LEMMA NodeFinite == IsFiniteSet(Node) /\ Cardinality(Node) = N
  BY FS_Interval, DurabilityAssumption DEF Node

(* Two sets of at least a majority of the nodes share a node.              *)
LEMMA QuorumsMeet ==
  ASSUME NEW S \in SUBSET Node, NEW T \in SUBSET Node,
         Cardinality(S) >= Majority, Cardinality(T) >= Majority
  PROVE  \E i \in Node : i \in S /\ i \in T
<1>1. Cardinality(S) \in Nat /\ Cardinality(T) \in Nat
  BY NodeFinite, FS_Subset, FS_CardinalityType
<1>2. 2 * Majority > N
  BY DurabilityAssumption DEF Majority
<1>3. Cardinality(S) + Cardinality(T) > Cardinality(Node)
  BY <1>1, <1>2, NodeFinite, DurabilityAssumption DEF Majority
<1>4. S \cap T # {}
  BY <1>3, NodeFinite, FS_MajoritiesIntersect
<1>5. QED
  BY <1>4

(* A larger set of nodes is a majority if a smaller one is.                *)
LEMMA QuorumGrows ==
  ASSUME NEW S \in SUBSET Node, NEW T \in SUBSET Node,
         S \subseteq T, Cardinality(S) >= Majority
  PROVE  Cardinality(T) >= Majority
<1>1. IsFiniteSet(T) /\ Cardinality(T) \in Nat /\ Cardinality(S) \in Nat
  BY NodeFinite, FS_Subset, FS_CardinalityType
<1>2. Cardinality(S) <= Cardinality(T)
  BY <1>1, FS_Subset
<1>3. QED
  BY <1>1, <1>2, DurabilityAssumption DEF Majority

(* Type correctness of the replication model.                              *)
THEOREM TypeCorrect == Spec => []TypeOK
<1>1. Init => TypeOK
  BY DurabilityAssumption DEF Init, TypeOK, Node
<1>2. TypeOK /\ [Next]_vars => TypeOK'
  <2> SUFFICES ASSUME TypeOK, [Next]_vars PROVE TypeOK'
    OBVIOUS
  <2> USE DurabilityAssumption DEF TypeOK
  <2>1. CASE Write
    BY <2>1 DEF Write
  <2>2. CASE Ack
    BY <2>2 DEF Ack
  <2>3. ASSUME NEW i \in Node, Replicate(i) PROVE TypeOK'
    BY <2>3 DEF Replicate, Behind
  <2>4. ASSUME NEW i \in Node, Crash(i) PROVE TypeOK'
    BY <2>4 DEF Crash
  <2>5. ASSUME NEW w \in Node, Failover(w) PROVE TypeOK'
    BY <2>5 DEF Failover
  <2>6. CASE UNCHANGED vars
    BY <2>6 DEF vars
  <2>7. QED
    BY <2>1, <2>2, <2>3, <2>4, <2>5, <2>6 DEF Next
<1>3. QED
  BY <1>1, <1>2, PTL DEF Spec

(* No acknowledged write is ever lost, for every number of nodes, if the   *)
(* acknowledgement quorum is at least a majority.                          *)
THEOREM AckedNeverLost ==
  ASSUME AckQuorum >= Majority
  PROVE  Spec => []NoAckedLoss
<1>1. Init => IInv
  <2> SUFFICES ASSUME Init PROVE IInv
    OBVIOUS
  <2>1. TypeOK /\ NoAckedLoss
    BY DurabilityAssumption DEF Init, TypeOK, NoAckedLoss, Node
  <2>2. Holders = Node
    BY DEF Init, Holders
  <2>3. QED
    BY <2>1, <2>2, NodeFinite, DurabilityAssumption DEF IInv, MajorityHolds, Majority
<1>2. IInv /\ [Next]_vars => (NoAckedLoss /\ MajorityHolds)'
  <2> SUFFICES ASSUME IInv, [Next]_vars PROVE (NoAckedLoss /\ MajorityHolds)'
    OBVIOUS
  <2> USE DEF IInv
  <2>a. Holders \in SUBSET Node /\ Holders' \in SUBSET Node
    BY DEF Holders, Node
  <2>b. ASSUME Holders \subseteq Holders' PROVE MajorityHolds'
    BY <2>a, <2>b, QuorumGrows DEF MajorityHolds, Majority
  <2>1. CASE Write
    <3>1. Holders \subseteq Holders' /\ NoAckedLoss'
      BY <2>1 DEF Write, TypeOK, Holders, NoAckedLoss
    <3>2. QED
      BY <3>1, <2>b
  <2>2. CASE Ack
    <3>1. Confirmers \in SUBSET Node /\ Confirmers \subseteq Holders'
      BY <2>2 DEF Ack, TypeOK, Holders, Confirmers
    <3>2. Cardinality(Confirmers) \in Nat
      BY <3>1, NodeFinite, FS_Subset, FS_CardinalityType
    <3>3. Cardinality(Confirmers) >= Majority
      BY <2>2, <3>2, DurabilityAssumption DEF Ack, AckAllowed, Majority
    <3>4. MajorityHolds'
      BY <3>1, <3>3, <2>a, QuorumGrows DEF MajorityHolds, Majority
    <3>5. NoAckedLoss'
      BY <2>2 DEF Ack, TypeOK, NoAckedLoss
    <3>6. QED
      BY <3>4, <3>5
  <2>3. ASSUME NEW i \in Node, Replicate(i) PROVE (NoAckedLoss /\ MajorityHolds)'
    <3>1. Holders \subseteq Holders' /\ NoAckedLoss'
      BY <2>3 DEF Replicate, Behind, TypeOK, Holders, NoAckedLoss
    <3>2. QED
      BY <3>1, <2>b
  <2>4. ASSUME NEW i \in Node, Crash(i) PROVE (NoAckedLoss /\ MajorityHolds)'
    <3>1. Holders \subseteq Holders' /\ NoAckedLoss'
      BY <2>4 DEF Crash, Holders, NoAckedLoss
    <3>2. QED
      BY <3>1, <2>b
  <2>5. ASSUME NEW w \in Node, Failover(w) PROVE (NoAckedLoss /\ MajorityHolds)'
    <3>1. PICK members \in SUBSET Alive :
            /\ Cardinality(members) = Majority
            /\ \A m \in members : Ahead(w, m)
      BY <2>5 DEF Failover, PossibleNewPrimary
    <3>2. members \in SUBSET Node /\ Majority \in Nat
      BY DurabilityAssumption DEF Alive, Majority
    <3>3. PICK i \in Node : i \in members /\ i \in Holders
      BY <3>1, <3>2, <2>a, QuorumsMeet DEF MajorityHolds
    <3>4. lsn[w] >= lsn[i] /\ lsn[i] >= acked
      BY <3>1, <3>3 DEF Ahead, Holders, TypeOK
    <3>5. NoAckedLoss'
      BY <2>5, <3>3, <3>4 DEF Failover, NoAckedLoss, TypeOK
    <3>6. Holders \subseteq Holders'
      BY <2>5 DEF Failover, Holders
    <3>7. QED
      BY <3>5, <3>6, <2>b
  <2>6. CASE UNCHANGED vars
    <3>1. Holders \subseteq Holders' /\ NoAckedLoss'
      BY <2>6 DEF vars, Holders, NoAckedLoss
    <3>2. QED
      BY <3>1, <2>b
  <2>7. QED
    BY <2>1, <2>2, <2>3, <2>4, <2>5, <2>6 DEF Next
<1>3. IInv => NoAckedLoss
  BY DEF IInv
<1>4. QED
  BY <1>1, <1>2, <1>3, TypeCorrect, PTL DEF Spec, IInv
=============================================================================
