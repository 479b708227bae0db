----------------------------- MODULE Leadership -----------------------------
(***************************************************************************)
(* The leadership model of packages/consensus-model (struct Leadership):   *)
(* elections by live majorities, stale leaders that stay writable, and     *)
(* commits that a current-term quorum check (Fencing) guards.              *)
(***************************************************************************)
EXTENDS Integers, FiniteSets

CONSTANTS
  N,        \* cluster size (n)
  MaxTerm,  \* bound on terms (max_term)
  Fencing   \* is the current-term quorum check in force (fencing)

ASSUME LeadershipAssumption ==
  /\ N \in Nat \ {0}
  /\ MaxTerm \in Nat \ {0}
  /\ Fencing \in BOOLEAN

VARIABLES cur_term, writable, alive, max_committed_term, committed_leader,
          split_brain
vars == <<cur_term, writable, alive, max_committed_term, committed_leader,
          split_brain>>

Node == 0 .. N - 1
Majority == N \div 2 + 1
NoLeader == -1  \* committed_leader = None

Init ==
  /\ cur_term = [i \in Node |-> 1]
  /\ writable = [i \in Node |-> i = 0]
  /\ alive = [i \in Node |-> TRUE]
  /\ max_committed_term = 0
  /\ committed_leader = NoLeader
  /\ split_brain = FALSE

-----------------------------------------------------------------------------
\* The term top is the largest any node, live or not, has reached.
IsTopTerm(top) ==
  /\ \A i \in Node : cur_term[i] <= top
  /\ \E i \in Node : cur_term[i] = top

\* Mutant of TermLeft: one term too many.
TermLeftOffByOne(top) == top <= MaxTerm

TermLeft(top) == top < MaxTerm

\* Mutant of WritableAfter: a voter that was writable stays so.
WritableAfterKept(i, winner, voters) == i = winner \/ writable[i]

WritableAfter(i, winner, voters) == IF i \in voters THEN i = winner ELSE writable[i]

\* A live majority moves to a fresh term; of the voters only the winner is
\* writable, the other nodes keep whatever they were.
Elect(winner, voters) ==
  \E top \in 1 .. MaxTerm :
    /\ IsTopTerm(top)
    /\ TermLeft(top)
    /\ Cardinality(voters) = Majority
    /\ \A i \in voters : alive[i]
    /\ winner \in voters
    /\ cur_term' = [i \in Node |-> IF i \in voters THEN top + 1 ELSE cur_term[i]]
    /\ writable' = [i \in Node |-> WritableAfter(i, winner, voters)]
    /\ UNCHANGED <<alive, max_committed_term, committed_leader, split_brain>>

AtTerm(t) == {i \in Node : alive[i] /\ cur_term[i] = t}

\* Mutant of Allowed: quorum_at_term counts with >= maj - 1.
AllowedOneShort(w) ==
  Fencing => Cardinality(AtTerm(cur_term[w])) >= Majority - 1

Allowed(w) == Fencing => Cardinality(AtTerm(cur_term[w])) >= Majority

\* A writable node commits a client write at its own term.
Commit(w) ==
  LET t == cur_term[w] IN
  /\ alive[w]
  /\ writable[w]
  /\ Allowed(w)
  /\ split_brain' =
       \/ split_brain
       \/ t < max_committed_term
       \/ t = max_committed_term /\ committed_leader \notin {NoLeader, w}
  /\ max_committed_term' = IF t > max_committed_term THEN t ELSE max_committed_term
  /\ committed_leader' = IF t >= max_committed_term THEN w ELSE committed_leader
  /\ UNCHANGED <<cur_term, writable, alive>>

Crash(i) ==
  /\ alive[i]
  /\ alive' = [alive EXCEPT ![i] = FALSE]
  /\ UNCHANGED <<cur_term, writable, max_committed_term, committed_leader, split_brain>>

Recover(i) ==
  /\ ~alive[i]
  /\ alive' = [alive EXCEPT ![i] = TRUE]
  /\ UNCHANGED <<cur_term, writable, max_committed_term, committed_leader, split_brain>>

Next ==
  \/ \E voters \in SUBSET Node : \E winner \in voters : Elect(winner, voters)
  \/ \E i \in Node : Commit(i) \/ Crash(i) \/ Recover(i)

Spec == Init /\ [][Next]_vars

-----------------------------------------------------------------------------
(* Type correctness of struct LState, with the bound of within_boundary.   *)
TypeOK ==
  /\ cur_term \in [Node -> 1 .. MaxTerm]
  /\ writable \in [Node -> BOOLEAN]
  /\ alive \in [Node -> BOOLEAN]
  /\ max_committed_term \in 0 .. MaxTerm
  /\ committed_leader \in Node \cup {NoLeader}
  /\ split_brain \in BOOLEAN

(* The property no_split_brain: no write is ever committed at a term below *)
(* one that already committed, nor by a second leader of the same term.    *)
NoSplitBrain == ~split_brain

(* Two nodes that are both writable are writable at different terms,       *)
(* however many stale leaders have come back.                              *)
OneWritablePerTerm ==
  \A i, j \in Node :
    writable[i] /\ writable[j] /\ cur_term[i] = cur_term[j] => i = j

(* What makes NoSplitBrain inductive: once a term has committed, a         *)
(* majority of nodes is at that term or above, and the only node that can  *)
(* be writable at exactly that term is the one that committed.             *)
Caught == {i \in Node : cur_term[i] >= max_committed_term}
CommittedTermHeld ==
  max_committed_term > 0 =>
    /\ Cardinality(Caught) >= Majority
    /\ committed_leader \in Node
    /\ \A i \in Node :
         writable[i] /\ cur_term[i] = max_committed_term => i = committed_leader

IInv == TypeOK /\ NoSplitBrain /\ OneWritablePerTerm /\ CommittedTermHeld
=============================================================================
