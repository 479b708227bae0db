-------------------------- MODULE LeadershipProofs --------------------------
(***************************************************************************)
(* NoSplitBrain for every cluster size and every bound on terms, provided  *)
(* the current-term quorum check is in force.                              *)
(***************************************************************************)
EXTENDS Leadership, FiniteSetTheorems, TLAPS

(* Node is finite and has N members.                                       *)
LEMMA NodeFinite == IsFiniteSet(Node) /\ Cardinality(Node) = N
  BY FS_Interval, LeadershipAssumption DEF Node

(* Two sets of at least a majority of the nodes share a node.              *)
LEMMA QuorumsMeet ==
  ASSUME NEW S \in SUBSET Node, NEW T \in SUBSET Node,
         Cardinality(S) >= Majority, Cardinality(T) >= Majority
  PROVE  \E i \in Node : i \in S /\ i \in T
<1>1. Cardinality(S) \in Nat /\ Cardinality(T) \in Nat
  BY NodeFinite, FS_Subset, FS_CardinalityType
<1>2. 2 * Majority > N
  BY LeadershipAssumption DEF Majority
<1>3. Cardinality(S) + Cardinality(T) > Cardinality(Node)
  BY <1>1, <1>2, NodeFinite, LeadershipAssumption DEF Majority
<1>4. S \cap T # {}
  BY <1>3, NodeFinite, FS_MajoritiesIntersect
<1>5. QED
  BY <1>4

(* A larger set of nodes is a majority if a smaller one is.                *)
LEMMA QuorumGrows ==
  ASSUME NEW S \in SUBSET Node, NEW T \in SUBSET Node,
         S \subseteq T, Cardinality(S) >= Majority
  PROVE  Cardinality(T) >= Majority
<1>1. IsFiniteSet(T) /\ Cardinality(T) \in Nat /\ Cardinality(S) \in Nat
  BY NodeFinite, FS_Subset, FS_CardinalityType
<1>2. Cardinality(S) <= Cardinality(T)
  BY <1>1, FS_Subset
<1>3. QED
  BY <1>1, <1>2, LeadershipAssumption DEF Majority

(* Type correctness of the leadership model.                               *)
THEOREM TypeCorrect == Spec => []TypeOK
<1>1. Init => TypeOK
  <2> SUFFICES ASSUME Init PROVE TypeOK
    OBVIOUS
  <2>1. writable \in [Node -> BOOLEAN] /\ alive \in [Node -> BOOLEAN] /\ split_brain \in BOOLEAN
    BY ZenonT(30) DEF Init
  <2>2. QED
    BY <2>1, LeadershipAssumption DEF Init, TypeOK
<1>2. TypeOK /\ [Next]_vars => TypeOK'
  <2> SUFFICES ASSUME TypeOK, [Next]_vars PROVE TypeOK'
    OBVIOUS
  <2> USE LeadershipAssumption DEF TypeOK
  <2>elect. ASSUME NEW voters \in SUBSET Node, NEW winner \in voters, Elect(winner, voters)
        PROVE  TypeOK'
    <3>1. writable' \in [Node -> BOOLEAN]
      <4>1. \A i \in Node : WritableAfter(i, winner, voters) \in BOOLEAN
        BY Zenon DEF WritableAfter
      <4>2. writable' = [i \in Node |-> WritableAfter(i, winner, voters)]
        BY <2>elect DEF Elect
      <4>3. QED
        BY <4>1, <4>2, Zenon
    <3>2. cur_term' \in [Node -> 1 .. MaxTerm]
      BY <2>elect DEF Elect, TermLeft
    <3>3. QED
      BY <2>elect, <3>1, <3>2 DEF Elect
  <2>commit. ASSUME NEW i \in Node, Commit(i) PROVE TypeOK'
    <3>1. split_brain' \in BOOLEAN
      BY <2>commit, ZenonT(30) DEF Commit
    <3>2. max_committed_term' \in 0 .. MaxTerm /\ committed_leader' \in Node \cup {NoLeader}
      BY <2>commit DEF Commit
    <3>3. QED
      BY <2>commit, <3>1, <3>2 DEF Commit
  <2>crash. ASSUME NEW i \in Node, Crash(i) PROVE TypeOK'
    BY <2>crash DEF Crash
  <2>recover. ASSUME NEW i \in Node, Recover(i) PROVE TypeOK'
    BY <2>recover DEF Recover
  <2>idle. CASE UNCHANGED vars
    BY <2>idle DEF vars
  <2> QED
    BY <2>elect, <2>commit, <2>crash, <2>recover, <2>idle DEF Next
<1>3. QED
  BY <1>1, <1>2, PTL DEF Spec

(* An election leaves at most one node writable at each term, fenced or    *)
(* not: it moves its voters to a term no node has reached, and of them     *)
(* only the winner is writable.                                            *)
LEMMA ElectKeepsOne ==
  ASSUME TypeOK, OneWritablePerTerm,
         NEW voters \in SUBSET Node, NEW winner \in voters, Elect(winner, voters)
  PROVE  OneWritablePerTerm'
<1>1. PICK top \in 1 .. MaxTerm :
        /\ IsTopTerm(top)
        /\ cur_term' = [i \in Node |-> IF i \in voters THEN top + 1 ELSE cur_term[i]]
        /\ writable' = [i \in Node |-> WritableAfter(i, winner, voters)]
  BY DEF Elect
<1>2. \A i \in Node : cur_term[i] < top + 1
  BY <1>1 DEF TypeOK, IsTopTerm
<1> SUFFICES ASSUME NEW i \in Node, NEW j \in Node,
                    writable'[i], writable'[j], cur_term'[i] = cur_term'[j]
             PROVE  i = j
  BY DEF OneWritablePerTerm
<1>3. CASE i \in voters /\ j \in voters
  BY <1>1, <1>3 DEF WritableAfter
<1>4. CASE i \notin voters /\ j \notin voters
  BY <1>1, <1>4 DEF WritableAfter, OneWritablePerTerm
<1>5. CASE (i \in voters /\ j \notin voters) \/ (i \notin voters /\ j \in voters)
  BY <1>1, <1>2, <1>5 DEF TypeOK
<1>6. QED
  BY <1>3, <1>4, <1>5

(* With or without fencing, two writable nodes are writable at different   *)
(* terms: what the fence adds is only that the older one cannot commit.    *)
THEOREM OneLeaderPerTerm == Spec => []OneWritablePerTerm
<1>1. Init => OneWritablePerTerm
  <2>1. Init => \A i \in Node : writable[i] <=> i = 0
    BY Zenon DEF Init
  <2>2. QED
    BY <2>1 DEF OneWritablePerTerm
<1>2. TypeOK /\ OneWritablePerTerm /\ [Next]_vars => OneWritablePerTerm'
  <2> SUFFICES ASSUME TypeOK, OneWritablePerTerm, [Next]_vars PROVE OneWritablePerTerm'
    OBVIOUS
  <2>elect. ASSUME NEW voters \in SUBSET Node, NEW winner \in voters, Elect(winner, voters)
        PROVE  OneWritablePerTerm'
    BY <2>elect, ElectKeepsOne
  <2>others. ASSUME UNCHANGED <<cur_term, writable>>
        PROVE  OneWritablePerTerm'
    BY <2>others DEF OneWritablePerTerm
  <2>commit. ASSUME NEW i \in Node, Commit(i) \/ Crash(i) \/ Recover(i)
        PROVE  UNCHANGED <<cur_term, writable>>
    BY <2>commit DEF Commit, Crash, Recover
  <2>idle. CASE UNCHANGED vars
    BY <2>idle, <2>others DEF vars
  <2> QED
    BY <2>elect, <2>others, <2>commit, <2>idle DEF Next
<1>3. QED
  BY <1>1, <1>2, TypeCorrect, PTL DEF Spec

(* An election preserves the invariant: its term is above every term in    *)
(* use, so it neither clashes with a writable node nor with the committed  *)
(* term.                                                                   *)
LEMMA ElectPreserves ==
  ASSUME IInv, NEW voters \in SUBSET Node, NEW winner \in voters, Elect(winner, voters)
  PROVE  (NoSplitBrain /\ OneWritablePerTerm /\ CommittedTermHeld)'
<1> USE DEF IInv
<1>1. PICK top \in 1 .. MaxTerm :
        /\ IsTopTerm(top)
        /\ cur_term' = [i \in Node |-> IF i \in voters THEN top + 1 ELSE cur_term[i]]
        /\ writable' = [i \in Node |-> WritableAfter(i, winner, voters)]
        /\ UNCHANGED <<alive, max_committed_term, committed_leader, split_brain>>
  BY DEF Elect
<1>2. \A i \in Node : cur_term[i] \in 1 .. MaxTerm /\ cur_term[i] <= top /\ top + 1 > cur_term[i]
  BY <1>1 DEF TypeOK, IsTopTerm
<1>3. NoSplitBrain'
  BY <1>1 DEF NoSplitBrain
<1>4. OneWritablePerTerm'
  BY ElectKeepsOne
<1>5. CommittedTermHeld'
  <2> SUFFICES ASSUME max_committed_term > 0
               PROVE  CommittedTermHeld'
    BY <1>1 DEF CommittedTermHeld
  <2>1. Caught \in SUBSET Node /\ Caught' \in SUBSET Node
    BY DEF Caught
  <2>2. Caught \subseteq Caught'
    BY <1>1, <1>2 DEF Caught, TypeOK
  <2>3. (Cardinality(Caught) >= Majority)'
    BY <2>1, <2>2, QuorumGrows DEF CommittedTermHeld, Majority
  <2>4. \E k \in Node : k \in Caught /\ k \in Caught
    BY <2>1, QuorumsMeet DEF CommittedTermHeld
  <2>5. top >= max_committed_term
    BY <2>4, <1>2 DEF Caught, TypeOK
  <2>6. ASSUME NEW i \in Node, writable'[i], cur_term'[i] = max_committed_term
        PROVE  i = committed_leader
    <3>1. i \notin voters
      BY <1>1, <2>5, <2>6 DEF TypeOK
    <3>2. writable[i] /\ cur_term[i] = max_committed_term
      BY <1>1, <2>6, <3>1 DEF WritableAfter
    <3>3. QED
      BY <3>2 DEF CommittedTermHeld
  <2>7. committed_leader \in Node
    BY DEF CommittedTermHeld
  <2>8. QED
    BY <1>1, <2>3, <2>6, <2>7 DEF CommittedTermHeld
<1>6. QED
  BY <1>3, <1>4, <1>5

(* A commit preserves the invariant: its quorum at exactly the committing  *)
(* node's term meets the majority that holds the last committed term.      *)
LEMMA CommitPreserves ==
  ASSUME IInv, Fencing = TRUE, NEW w \in Node, Commit(w)
  PROVE  (NoSplitBrain /\ OneWritablePerTerm /\ CommittedTermHeld)'
<1> USE DEF IInv
<1>1. AtTerm(cur_term[w]) \in SUBSET Node /\ Caught \in SUBSET Node
      /\ Caught' \in SUBSET Node
  BY DEF AtTerm, Caught
<1>2. Cardinality(AtTerm(cur_term[w])) >= Majority
  BY DEF Commit, Allowed
<1>3. cur_term[w] >= max_committed_term
  <2>1. CASE max_committed_term > 0
    <3>1. PICK k \in Node : k \in AtTerm(cur_term[w]) /\ k \in Caught
      BY <1>1, <1>2, <2>1, QuorumsMeet DEF CommittedTermHeld
    <3>2. QED
      BY <3>1 DEF AtTerm, Caught
  <2>2. CASE ~(max_committed_term > 0)
    BY <2>2 DEF TypeOK
  <2>3. QED
    BY <2>1, <2>2
<1>4. cur_term[w] = max_committed_term => committed_leader = w
  BY DEF Commit, CommittedTermHeld, TypeOK
<1>5. NoSplitBrain'
  BY <1>3, <1>4 DEF Commit, NoSplitBrain, TypeOK
<1>6. OneWritablePerTerm'
  BY DEF Commit, OneWritablePerTerm
<1>7. max_committed_term' = cur_term[w] /\ committed_leader' = w
  BY <1>3 DEF Commit, TypeOK
<1>8. AtTerm(cur_term[w]) \subseteq Caught'
  BY <1>7 DEF AtTerm, Caught, Commit, TypeOK
<1>9. (Cardinality(Caught) >= Majority)'
  BY <1>1, <1>2, <1>8, QuorumGrows DEF Majority
<1>10. \A i \in Node : writable'[i] /\ cur_term'[i] = max_committed_term' => i = w
  BY <1>7 DEF Commit, OneWritablePerTerm
<1>11. CommittedTermHeld'
  BY <1>7, <1>9, <1>10 DEF CommittedTermHeld
<1>12. QED
  BY <1>5, <1>6, <1>11

(* No split brain, and at most one writable node per term, for every       *)
(* number of nodes, if commits require a quorum at the current term.       *)
THEOREM FencedNeverSplits ==
  ASSUME Fencing = TRUE
  PROVE  Spec => [](NoSplitBrain /\ OneWritablePerTerm)
<1>1. Init => NoSplitBrain /\ OneWritablePerTerm /\ CommittedTermHeld
  <2> SUFFICES ASSUME Init PROVE NoSplitBrain /\ OneWritablePerTerm /\ CommittedTermHeld
    OBVIOUS
  <2>1. NoSplitBrain /\ CommittedTermHeld
    BY DEF Init, NoSplitBrain, CommittedTermHeld
  <2>2. \A i \in Node : writable[i] <=> i = 0
    BY Zenon DEF Init
  <2>3. QED
    BY <2>1, <2>2 DEF OneWritablePerTerm
<1>2. IInv /\ [Next]_vars => (NoSplitBrain /\ OneWritablePerTerm /\ CommittedTermHeld)'
  <2> SUFFICES ASSUME IInv, [Next]_vars
               PROVE  (NoSplitBrain /\ OneWritablePerTerm /\ CommittedTermHeld)'
    OBVIOUS
  <2>elect. ASSUME NEW voters \in SUBSET Node, NEW winner \in voters, Elect(winner, voters)
        PROVE  (NoSplitBrain /\ OneWritablePerTerm /\ CommittedTermHeld)'
    BY <2>elect, ElectPreserves
  <2>commit. ASSUME NEW i \in Node, Commit(i)
        PROVE  (NoSplitBrain /\ OneWritablePerTerm /\ CommittedTermHeld)'
    BY <2>commit, CommitPreserves
  <2>same. ASSUME UNCHANGED <<cur_term, writable, max_committed_term, committed_leader, split_brain>>
        PROVE  (NoSplitBrain /\ OneWritablePerTerm /\ CommittedTermHeld)'
    <3>1. Caught' = Caught
      BY <2>same DEF Caught
    <3>2. QED
      BY <2>same, <3>1 DEF IInv, NoSplitBrain, OneWritablePerTerm, CommittedTermHeld
  <2>crash. ASSUME NEW i \in Node, Crash(i) \/ Recover(i)
        PROVE  UNCHANGED <<cur_term, writable, max_committed_term, committed_leader, split_brain>>
    BY <2>crash DEF Crash, Recover
  <2>idle. CASE UNCHANGED vars
    BY <2>idle, <2>same DEF vars
  <2> QED
    BY <2>elect, <2>commit, <2>same, <2>crash, <2>idle DEF Next
<1>3. IInv => NoSplitBrain /\ OneWritablePerTerm
  BY DEF IInv
<1>4. QED
  BY <1>1, <1>2, <1>3, TypeCorrect, PTL DEF Spec, IInv
=============================================================================
