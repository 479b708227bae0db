------------------------------ MODULE Authority -----------------------------
(***************************************************************************)
(* What the supervisors promise together: there is one history of          *)
(* decisions, every node follows it in order, and the right to write is    *)
(* with one node at a time, which takes it when nobody has it and the last *)
(* decision it knows of names it. Failover implements this.                *)
(***************************************************************************)
EXTENDS Integers, Sequences

CONSTANTS
  Node,        \* the nodes
  Decisions    \* what may be decided

VARIABLES
  log,         \* the decisions so far
  view,        \* how many of them each node knows
  writers      \* the nodes that accept writes

vars == <<log, view, writers>>

TypeOK ==
  /\ log \in Seq(Decisions)
  /\ view \in [Node -> 0 .. Len(log)]
  /\ writers \subseteq Node

\* The seed of a new cluster accepts writes before anything is decided.
Init ==
  /\ log \in {<<>>} \cup {<<d>> : d \in Decisions}
  /\ view \in [Node -> {0, Len(log)}]
  /\ writers \in {{}} \cup {{n} : n \in Node}

Decide ==
  /\ \E d \in Decisions : log' = Append(log, d)
  /\ UNCHANGED <<view, writers>>

MayWrite(n, known) == known = 0 \/ log[known].primary = n

\* A node learns of decisions and gives up, keeps or takes the right to write.
Act(n) ==
  /\ \E known \in view[n] .. Len(log) :
       /\ view' = [view EXCEPT ![n] = known]
       /\ \/ writers' \in {writers, writers \ {n}}
          \/ writers = {} /\ MayWrite(n, known) /\ writers' = {n}
  /\ UNCHANGED log

Next == Decide \/ \E n \in Node : Act(n)

Spec == Init /\ [][Next]_vars

-----------------------------------------------------------------------------
(* "Never two writable primaries" (ARCHITECTURE.md).                       *)
OneWriter == \A n, m \in writers : n = m
=============================================================================
