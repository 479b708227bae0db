------------------------------- MODULE Choice -------------------------------
(***************************************************************************)
(* Which node a failover promotes, and whether it has what clients were    *)
(* told is safe: WAL streams with timelines, quorum-synchronous commits,   *)
(* the Raft leader's concurrent probes of the live nodes' WAL positions    *)
(* with what replaces an answer that does not come, choose_primary, the    *)
(* promotion, the repointing of standbys and the rewind of old primaries.  *)
(*                                                                         *)
(* Who notices what and when is left to Failover: here the leader may be   *)
(* any live node, and a primary is given up when it is down or fenced.     *)
(***************************************************************************)
EXTENDS Integers, FiniteSets, Sequences, SequencesExt

CONSTANTS
  N,             \* nodes 1 .. N
  MaxWal,        \* bound on the records of a node's WAL
  MaxDecisions,  \* bound on the decisions
  Faults,        \* which faults may happen
  MaxFaults      \* how many of them, lost probes not counted

FaultKinds ==
  {"crash",   \* a primary goes down, and may come back
   "restart", \* a standby goes down, and may come back
   "cut",     \* a primary loses its peers' gossip, not its standbys
   "probe"}   \* probes may fail

ASSUME ChoiceAssumption ==
  /\ N \in Nat \ {0} /\ MaxWal \in Nat /\ MaxDecisions \in Nat \ {0} /\ MaxFaults \in Nat
  /\ Faults \subseteq FaultKinds

VARIABLES
  wal,          \* each node's WAL: for every record the timeline it was written on
  received,     \* pg_last_wal_receive_lsn, 0 for NULL
  gossiped,     \* the position each node last broadcast
  in_recovery,
  timeline,     \* the timeline each node is on
  follows,      \* whom each standby streams from (primary_conninfo)
  up,           \* nodes that are running
  fenced,       \* nodes that are read-only
  decision,     \* the last decision
  probing,      \* the leader that is choosing and the answers it has, or Idle
  waiting,      \* on each node, records whose client still waits for its commit
  acked,        \* records whose commit was acknowledged: <<position, timeline, in time>>
  faults,       \* faults so far
  blind         \* history: a decision was taken without some node's answer

vars == <<wal, received, gossiped, in_recovery, timeline, follows, up, fenced,
          decision, probing, waiting, acked, faults, blind>>
postgres == <<wal, received, in_recovery, timeline, follows>>

-----------------------------------------------------------------------------
Node == 1 .. N
Majority == N \div 2 + 1
Unknown == -1
Idle == [leader |-> 0, answers |-> <<>>]
May(fault) == fault \in Faults /\ faults < MaxFaults

Init ==
  /\ wal = [n \in Node |-> <<>>]
  /\ received = [n \in Node |-> 0]
  /\ gossiped = [n \in Node |-> 0]
  /\ in_recovery = [n \in Node |-> n # 1]
  /\ timeline = [n \in Node |-> 1]
  /\ follows = [n \in Node |-> 1]
  /\ up = Node /\ fenced = {}
  /\ decision = [seq |-> 1, primary |-> 1]
  /\ probing = Idle
  /\ waiting = [n \in Node |-> {}]
  /\ acked = {} /\ faults = 0 /\ blind = FALSE

-----------------------------------------------------------------------------
(* Postgres (external).                                                    *)

Write(n) ==
  /\ n \in up \ fenced
  /\ ~in_recovery[n]
  /\ Len(wal[n]) < MaxWal
  /\ wal' = [wal EXCEPT ![n] = Append(@, timeline[n])]
  /\ waiting' = [waiting EXCEPT ![n] = @ \cup {Len(wal'[n])}]
  /\ UNCHANGED <<received, gossiped, in_recovery, timeline, follows, up, fenced,
                 decision, probing, acked, faults, blind>>

\* A standby connects, or receives one more record.
Stream(n) ==
  LET from == wal[follows[n]]
  IN  /\ {n, follows[n]} \subseteq up
      /\ in_recovery[n] /\ n # follows[n]
      /\ IsPrefix(wal[n], from)
      /\ wal' = [wal EXCEPT ![n] = SubSeq(from, 1, IF @ = from THEN Len(@) ELSE Len(@) + 1)]
      /\ received' = [received EXCEPT ![n] = Len(wal'[n])]
      /\ timeline' = [timeline EXCEPT ![n] = timeline[follows[n]]]
  /\ UNCHANGED <<gossiped, in_recovery, follows, up, fenced, decision, probing, waiting, acked, faults, blind>>

\* synchronous_standby_names = ANY sync_quorum (all other nodes).
SyncQuorum == Majority - 1

Streams(m, n) == in_recovery[m] /\ follows[m] = n /\ IsPrefix(wal[m], wal[n])
Confirming(n, position) == {m \in up \ {n} : Streams(m, n) /\ Len(wal[m]) >= position}

\* History: nobody is choosing another primary yet, and nobody has.
InTime(n) == probing = Idle /\ decision.primary = n

\* A commit that waits is acknowledged also when the primary is read-only.
Ack(n) ==
  /\ n \in up /\ ~in_recovery[n]
  /\ \E position \in waiting[n] :
       /\ Cardinality(Confirming(n, position)) >= SyncQuorum
       /\ acked' = acked \cup {<<position, timeline[n], InTime(n)>>}
       /\ waiting' = [waiting EXCEPT ![n] = @ \ {position}]
  /\ UNCHANGED <<postgres, gossiped, up, fenced, decision, probing, faults, blind>>

Outage(n) == IF in_recovery[n] THEN "restart" ELSE "crash"

\* A crash takes the node's clients along, and its probes if it is choosing.
Crash(n) ==
  /\ n \in up /\ May(Outage(n))
  /\ up' = up \ {n}
  /\ probing' = IF probing.leader = n THEN Idle ELSE probing
  /\ waiting' = [waiting EXCEPT ![n] = {}]
  /\ faults' = faults + 1
  /\ UNCHANGED <<postgres, gossiped, fenced, decision, acked, blind>>

\* A primary that comes back is fenced: it is Failover that says from when.
Return(n) ==
  /\ Outage(n) \in Faults
  /\ n \notin up
  /\ up' = up \cup {n}
  /\ received' = [received EXCEPT ![n] = 0]
  /\ fenced' = IF in_recovery[n] THEN fenced ELSE fenced \cup {n}
  /\ UNCHANGED <<wal, gossiped, in_recovery, timeline, follows, decision, probing, waiting, acked, faults, blind>>

Cut(n) ==
  /\ May("cut")
  /\ n \in up \ fenced /\ ~in_recovery[n]
  /\ fenced' = fenced \cup {n}
  /\ faults' = faults + 1
  /\ UNCHANGED <<postgres, gossiped, up, decision, probing, waiting, acked, blind>>

-----------------------------------------------------------------------------
(* The supervisors.                                                        *)

\* A standby broadcasts what it has replayed, a primary what it has written.
Gossip(n) ==
  /\ n \in up
  /\ \E lsn \in 0 .. Len(wal[n]) :
       /\ lsn > gossiped[n]
       /\ in_recovery[n] \/ lsn = Len(wal[n])
       /\ gossiped' = [gossiped EXCEPT ![n] = lsn]
  /\ UNCHANGED <<postgres, up, fenced, decision, probing, waiting, acked, faults, blind>>

\* The decided primary is not heard of; a majority is.
Live == up \ {decision.primary}

Begin(leader) ==
  /\ probing = Idle
  /\ decision.seq < MaxDecisions
  /\ decision.primary \in fenced \/ decision.primary \notin up
  /\ leader \in Live
  /\ Cardinality(Live) >= Majority
  /\ probing' = [leader |-> leader, answers |-> [m \in Live |-> Unknown]]
  /\ UNCHANGED <<postgres, gossiped, up, fenced, decision, waiting, acked, faults, blind>>

\* Mutant of Measured: a peer's position is what it broadcast last.
MeasuredByGossip(m) == gossiped[m]

\* wal_lsn on the leader itself, peer_wal_lsn for the others.
Measured(m) ==
  IF m = probing.leader /\ ~in_recovery[m] THEN Len(wal[m]) ELSE received[m]

Fallback(m) == IF m = probing.leader THEN 0 ELSE gossiped[m]

\* The probes run concurrently.
Probe(m) ==
  /\ m \in DOMAIN probing.answers
  /\ probing.answers[m] = Unknown
  /\ \/ /\ m \in up
        /\ probing' = [probing EXCEPT !.answers[m] = Measured(m)]
        /\ UNCHANGED blind
     \/ /\ "probe" \in Faults \/ m \notin up
        /\ probing' = [probing EXCEPT !.answers[m] = Fallback(m)]
        /\ blind' = TRUE
  /\ UNCHANGED <<postgres, gossiped, up, fenced, decision, waiting, acked, faults>>

\* The order of choose_primary: position, then role, then the lower number.
Better(a, b, lsn) ==
  \/ lsn[a] > lsn[b]
  \/ lsn[a] = lsn[b] /\ ~in_recovery[a] /\ in_recovery[b]
  \/ lsn[a] = lsn[b] /\ in_recovery[a] = in_recovery[b] /\ a <= b

choose_primary(lsn) ==
  CHOOSE a \in DOMAIN lsn : \A b \in DOMAIN lsn : Better(a, b, lsn)

NextSeq == decision.seq + 1

Choose ==
  /\ probing # Idle
  /\ \A m \in DOMAIN probing.answers : probing.answers[m] # Unknown
  /\ decision' = [seq |-> NextSeq, primary |-> choose_primary(probing.answers)]
  /\ probing' = Idle
  /\ UNCHANGED <<postgres, gossiped, up, fenced, waiting, acked, faults, blind>>

\* A promoted standby writes on a timeline of its own; a primary that is still
\* or again the decided one goes on with the one it has, after confirm_window:
\* longer than a probe takes.
Promote(n) ==
  /\ n \in up /\ n = decision.primary
  /\ in_recovery[n] \/ probing = Idle
  /\ in_recovery[n] \/ n \in fenced
  /\ in_recovery' = [in_recovery EXCEPT ![n] = FALSE]
  /\ timeline' = [timeline EXCEPT ![n] = IF in_recovery[n] THEN decision.seq ELSE @]
  /\ fenced' = fenced \ {n}
  /\ UNCHANGED <<wal, received, gossiped, follows, up, decision, probing, waiting, acked, faults, blind>>

Repoint(n) ==
  /\ n \in up \ {decision.primary} /\ in_recovery[n]
  /\ follows[n] # decision.primary
  /\ follows' = [follows EXCEPT ![n] = decision.primary]
  /\ UNCHANGED <<wal, received, in_recovery, timeline, gossiped, up, fenced,
                 decision, probing, waiting, acked, faults, blind>>

\* rejoin.sh: WAL beyond the common history is discarded.
Rejoin(n) ==
  /\ n \in up \ {decision.primary} /\ ~in_recovery[n]
  /\ decision.primary \in up /\ ~in_recovery[decision.primary]
  /\ wal' = [wal EXCEPT ![n] = LongestCommonPrefix({@, wal[decision.primary]})]
  /\ received' = [received EXCEPT ![n] = 0]
  /\ in_recovery' = [in_recovery EXCEPT ![n] = TRUE]
  /\ follows' = [follows EXCEPT ![n] = decision.primary]
  /\ fenced' = fenced \ {n}
  /\ waiting' = [waiting EXCEPT ![n] = {}]
  /\ UNCHANGED <<gossiped, timeline, up, decision, probing, acked, faults, blind>>

Next ==
  \/ \E n \in Node : \/ Write(n) \/ Stream(n) \/ Ack(n) \/ Crash(n) \/ Return(n) \/ Cut(n)
                     \/ Gossip(n) \/ Begin(n) \/ Probe(n) \/ Promote(n) \/ Repoint(n) \/ Rejoin(n)
  \/ Choose

Spec == Init /\ [][Next]_vars

-----------------------------------------------------------------------------
(* "An acked write is always present on the node that gets promoted"       *)
(* (README.md): the decided primary has every record whose commit was      *)
(* acknowledged before anyone looked for another primary, on whatever      *)
(* timeline it was written, as long as every node asked has answered.      *)
Has(n, record) == record[1] <= Len(wal[n]) /\ wal[n][record[1]] = record[2]
AckedKept == ~blind => \A record \in acked : record[3] => Has(decision.primary, record)
=============================================================================
