------------------------------ MODULE Failover ------------------------------
(***************************************************************************)
(* The supervisors of a whole cluster: gossip over links that fail, the    *)
(* Raft leader's part of the loop (who is dead, what is proposed), the     *)
(* agreed log of decisions that every node follows at its own pace, and    *)
(* the authority each node derives from ages: quorum_lease, confirm_window *)
(* and dead_timeout. psql calls are instantaneous here and never fail;     *)
(* Supervisor takes one node's calls apart.                                *)
(*                                                                         *)
(* Time passes in ticks. Within a tick every worker makes one pass, in the *)
(* order of the node numbers (any node may be the primary or the leader),  *)
(* and messages between linked nodes arrive; links and processes fail      *)
(* between any two passes.                                                 *)
(***************************************************************************)
EXTENDS Integers, FiniteSets, Sequences

CONSTANTS
  N,             \* nodes 1 .. N
  Lease,         \* quorum_lease, in ticks
  Confirm,       \* confirm_window
  Dead,          \* dead_timeout
  Stall,         \* stall_threshold
  WdStale,       \* the watchdog's threshold plus its sleep
  Retry,         \* age at which an unanswered proposal is made again
  Starts,        \* the seeded node, the first leader, is there a decision
  MaxDecisions,  \* bound on decisions, committed and proposed
  Faults,        \* which faults may happen
  MaxFaults      \* how many of them, together

FaultKinds ==
  {"isolate",  \* a node loses its links to all others
   "link",     \* one link between two nodes is cut
   "crash",    \* a node stops
   "restart",  \* a node stops and starts again
   "hang",     \* a worker makes no passes; Raft and Postgres go on
   "depose"}   \* an election although the leader is alive

ASSUME FailoverAssumption ==
  /\ N \in Nat \ {0}
  /\ {Lease, Confirm, Dead, Stall, WdStale, Retry} \subseteq Nat \ {0}
  /\ Starts \subseteq (1 .. N) \X (1 .. N) \X BOOLEAN
  /\ MaxDecisions \in Nat \ {0} /\ MaxFaults \in Nat
  /\ Faults \subseteq FaultKinds

VARIABLES
  turn,         \* the next node to make its pass in this tick; N + 1: none
  running,      \* nodes that are up
  hung,         \* nodes whose worker hangs
  cut,          \* links that are down, as sets of two nodes
  faults,       \* faults so far
  covered,      \* history: no single link was cut and no node restarted
  \* Raft (external).
  leader,       \* the leader of the highest term, or 0
  settled,      \* the leader has committed an entry of its own term
  believers,    \* nodes whose metrics say that they lead
  pending,      \* proposals in the leader's log that are not committed
  holders,      \* nodes whose log has all that is committed
  log,          \* committed decisions
  applied,      \* how much of log each node's SharedDecision shows
  \* Each node.
  inbox,        \* senders of the gossip its worker has not read yet
  worker,       \* the memory of the background worker
  in_recovery, read_only, rejoin

network == <<running, hung, cut, faults, covered>>
raft == <<leader, settled, believers, pending, holders, log, applied>>
postgres == <<in_recovery, read_only, rejoin>>
memory == <<inbox, worker>>
vars == <<turn, network, raft, memory, postgres>>

-----------------------------------------------------------------------------
Node == 1 .. N
Majority == N \div 2 + 1
Decision == [seq : 0 .. MaxDecisions, primary : 0 .. N]
NoDecision == [seq |-> 0, primary |-> 0]
NoProposal == [seq |-> 0, age |-> 0]
Never == -1

Linked(n, m) == {n, m} \notin cut
Reach(n) == {m \in running : m = n \/ Linked(n, m)}
HasQuorum(n) == n \in running /\ Cardinality(Reach(n)) >= Majority
Writable(n) == n \in running /\ ~in_recovery[n] /\ ~read_only[n]
Busy(n) == n \in running \ hung
May(fault) == fault \in Faults /\ faults < MaxFaults

\* What a worker knows when its main function enters the loop.
Started(decision) ==
  [decided |-> decision, heard |-> [m \in Node |-> Dead], asking |-> {},
   peer_seq |-> FALSE, reconfirm_pending |-> FALSE, applied_read_only |-> "none",
   authorized_since |-> Never, last_proposed |-> NoProposal, last_loop |-> 0]

\* A new cluster that has elected its first leader, one node seeded and the
\* others its standbys; or the same a little later, when they have agreed on
\* the seeded node and it is writable.
Init ==
  \E start \in Starts :
    LET seed == start[1]
        bootstrapped == start[3]
        first == [seq |-> 1, primary |-> seed]
    IN  /\ turn = 1 /\ running = Node /\ hung = {} /\ cut = {} /\ faults = 0 /\ covered = TRUE
        /\ leader = start[2] /\ settled = TRUE
        /\ believers = {leader}
        /\ pending = <<>> /\ holders = Node
        /\ log = IF bootstrapped THEN <<first>> ELSE <<>>
        /\ applied = [n \in Node |-> Len(log)]
        /\ inbox = [n \in Node |-> {}]
        /\ worker = [n \in Node |->
             IF bootstrapped
               THEN [Started(first) EXCEPT !.heard = [m \in Node |-> 1],
                                           !.peer_seq = TRUE,
                                           !.applied_read_only = IF n = seed THEN "off" ELSE "none",
                                           !.authorized_since = IF n = seed THEN 1 ELSE Never,
                                           !.last_loop = 1]
               ELSE Started(NoDecision)]
        /\ in_recovery = [n \in Node |-> n # seed]
        /\ read_only = [n \in Node |-> FALSE]
        /\ rejoin = {}

-----------------------------------------------------------------------------
(* One pass of node n's loop.                                              *)

\* Gossip waits in a queue without a bound, also while the worker hangs, and
\* the age of a contact is counted from the pass that reads it. What is read
\* is what the sender's last pass left in its memory.
Ages(n) == [m \in Node |-> IF m \in inbox[n] THEN 0 ELSE worker[n].heard[m]]

\* Mutant of Asking: a peer's request for a new decision is not heard.
AskingIgnored(n) == {}

Asking(n) ==
  {m \in Node : IF m \in inbox[n] THEN worker[m].reconfirm_pending ELSE m \in worker[n].asking}

PeerSeq(n) ==
  worker[n].peer_seq \/ \E m \in inbox[n] : worker[m].decided # NoDecision

\* A follower in contact with a leader that serves has applied all it knows
\* to be committed.
Serving == settled /\ HasQuorum(leader)
Serves(n) == Serving /\ n \in Reach(leader)
DecisionAt(i) == IF i = 0 THEN NoDecision ELSE log[i]
Applied(n) == IF Serves(n) THEN Len(log) ELSE applied[n]
Published(n) == DecisionAt(Applied(n))

Stalled(n) == worker[n].last_loop > Stall
Adopts(n) == Published(n) \notin {NoDecision, worker[n].decided}
Decided(n) == IF Adopts(n) THEN Published(n) ELSE worker[n].decided
Reconfirm(n) == (worker[n].reconfirm_pending \/ Stalled(n)) /\ ~Adopts(n)

\* Mutant of Live: a node is given up before its quorum lease has run out.
LiveImpatient(n) == {m \in Node : m = n \/ Ages(n)[m] < 1}

\* The leader's part. choose_primary may return any live node here; Choice
\* looks at the WAL positions it compares.
Live(n) == {m \in Node : m = n \/ Ages(n)[m] < Dead}
Seeded(n) == {m \in Live(n) : ~in_recovery[m]}

Candidates(n) ==
  CASE Decided(n) = NoDecision -> {m \in Seeded(n) : \A k \in Seeded(n) : m <= k}
    [] Decided(n) # NoDecision /\ Decided(n).primary \notin Live(n) -> Live(n)
    [] OTHER -> IF Reconfirm(n) \/ Asking(n) \cap Live(n) # {} THEN {Decided(n).primary} ELSE {}

InFlight(n) ==
  LET last == IF Adopts(n) THEN NoProposal ELSE worker[n].last_proposed
  IN  last.seq = Decided(n).seq + 1 /\ last.age < Retry

NextDecision(n, c) == [seq |-> Decided(n).seq + 1, primary |-> c]

\* The candidates this pass may propose; 0 stands for no proposal.
Choices(n) ==
  IF /\ n \in believers
     /\ Candidates(n) # {}
     /\ Cardinality(Live(n)) >= Majority
     /\ ~InFlight(n)
     /\ Len(log) + Len(pending) < MaxDecisions
    THEN Candidates(n) ELSE {0}

\* Mutant of QuorumOk: the age of the last contact is not looked at.
QuorumOkEver(n) == 1 + Cardinality({m \in Node \ {n} : Ages(n)[m] <= Dead}) >= Majority

QuorumOk(n) == 1 + Cardinality({m \in Node \ {n} : Ages(n)[m] < Lease}) >= Majority

\* Mutant of RawAuth: whom the decision names is not looked at.
RawAuthAnyone(n) == QuorumOk(n) /\ ~Reconfirm(n)

\* The marker file adds nothing here: it is written with the first decision
\* that is adopted, and no Raft directory is lost, so that a node without a
\* decision has no marker. Supervisor has both.
RawAuth(n) ==
  IF Decided(n) = NoDecision
    THEN QuorumOk(n) /\ ~PeerSeq(n)
    ELSE Decided(n).primary = n /\ QuorumOk(n) /\ ~Reconfirm(n)

BeliefRo(n) == IF Stalled(n) THEN "none" ELSE worker[n].applied_read_only
Since(n) == IF Stalled(n) THEN Never ELSE worker[n].authorized_since
Immediate(n) == Decided(n) = NoDecision \/ BeliefRo(n) = "off"

Authorized(n) == RawAuth(n) /\ (Immediate(n) \/ Since(n) >= Confirm)

\* Mutant of NewSince: every pass starts the window again.
NewSinceRestarted(n) == IF in_recovery[n] \/ ~RawAuth(n) THEN Never ELSE 0

NewSince(n) ==
  IF in_recovery[n] \/ ~RawAuth(n) THEN Never
  ELSE IF Immediate(n) \/ Since(n) = Never THEN 0 ELSE Since(n)

LastProposed(n, c) ==
  CASE c # 0 -> [seq |-> NextDecision(n, c).seq, age |-> 0]
    [] c = 0 /\ Adopts(n) -> NoProposal
    [] OTHER -> worker[n].last_proposed

Remember(n, c) ==
  [decided |-> Decided(n), heard |-> Ages(n), asking |-> Asking(n), peer_seq |-> PeerSeq(n),
   reconfirm_pending |-> Reconfirm(n),
   applied_read_only |->
     IF in_recovery[n] THEN "none" ELSE IF Authorized(n) THEN "off" ELSE "on",
   authorized_since |-> NewSince(n),
   last_proposed |-> LastProposed(n, c),
   last_loop |-> 0]

Promotes(n) == in_recovery[n] /\ Decided(n).primary = n
Rejoins(n) == ~in_recovery[n] /\ ~Authorized(n) /\ Decided(n).primary \notin {0, n}

\* A promotion fences first; otherwise a standby's setting is left alone and
\* a primary's follows its authority, as far as the worker has to change it.
ReadOnlyAfter(n) ==
  CASE Promotes(n) -> TRUE
    [] ~in_recovery[n] /\ Authorized(n) /\ BeliefRo(n) # "off" -> FALSE
    [] ~in_recovery[n] /\ ~Authorized(n) /\ BeliefRo(n) # "on" -> TRUE
    [] OTHER -> read_only[n]

Pass(n, c) ==
  /\ turn = n
  /\ Busy(n)
  /\ c \in Choices(n)
  /\ turn' = n + 1
  /\ applied' = [applied EXCEPT ![n] = Applied(n)]
  /\ inbox' = [m \in Node |->
       IF m = n THEN {} ELSE IF m \in Reach(n) THEN inbox[m] \cup {n} ELSE inbox[m]]
  /\ worker' = [worker EXCEPT ![n] = Remember(n, c)]
  /\ pending' = IF c # 0 /\ n = leader
                  THEN Append(pending, NextDecision(n, c)) ELSE pending
  /\ read_only' = [read_only EXCEPT ![n] = ReadOnlyAfter(n)]
  /\ in_recovery' = [in_recovery EXCEPT ![n] = @ /\ ~Promotes(n)]
  /\ rejoin' = IF Rejoins(n) THEN rejoin \cup {n} ELSE rejoin
  /\ UNCHANGED <<network, leader, settled, believers, holders, log>>

\* A node that is down or whose worker hangs makes no pass in this tick.
Skip(n) ==
  /\ turn = n
  /\ ~Busy(n)
  /\ turn' = n + 1
  /\ UNCHANGED <<network, raft, memory, postgres>>

-----------------------------------------------------------------------------
(* Raft (external): elections and commitment.                              *)

\* A voter that hears from the leader does not vote for another node, and
\* the winner holds all that was committed. A proposal that outlives its
\* leader has reached a majority and counts as committed.
Free(w) == {v \in Reach(w) : leader \notin Reach(v)}
Eligible(w) == w \in holders \ {leader} /\ HasQuorum(w)
Wins(w) == Eligible(w) /\ w \in Free(w) /\ Cardinality(Free(w)) >= Majority

Elect(w) ==
  /\ turn = N + 1
  /\ \/ Wins(w) /\ UNCHANGED faults
     \/ Eligible(w) /\ leader \in running /\ May("depose") /\ faults' = faults + 1
  /\ leader' = w
  /\ settled' = FALSE
  /\ believers' = (believers \ Reach(w)) \cup {w}
  /\ pending' = <<>>
  /\ UNCHANGED <<turn, running, hung, cut, covered, holders, log, applied, memory, postgres>>

\* A new leader serves when an entry of its own term is committed; until then
\* it may not have applied what its predecessor committed.
Settle ==
  /\ ~settled /\ HasQuorum(leader)
  /\ settled' = TRUE
  /\ holders' = holders \cup Reach(leader)
  /\ UNCHANGED <<turn, network, leader, believers, pending, log, applied, memory, postgres>>

\* The answer may come after propose has given up waiting for it.
CanCommit == Serving /\ pending # <<>>
Commit ==
  /\ CanCommit
  /\ log' = Append(log, Head(pending))
  /\ pending' = Tail(pending)
  /\ holders' = Reach(leader)
  /\ UNCHANGED <<turn, network, leader, settled, believers, applied, memory, postgres>>

-----------------------------------------------------------------------------
(* Scripts beside the worker.                                              *)

Watchdog(n) ==
  /\ Writable(n)
  /\ worker[n].last_loop >= WdStale
  /\ read_only' = [read_only EXCEPT ![n] = TRUE]
  /\ UNCHANGED <<turn, network, raft, memory, in_recovery, rejoin>>

\* Postgres, with its worker and its Raft node, starts over.
StopsLeading(n) ==
  /\ leader' = IF leader = n THEN 0 ELSE leader
  /\ settled' = (settled /\ leader # n)
  /\ believers' = believers \ {n}
  /\ UNCHANGED <<pending, holders, log, applied>>

Rejoin(n) ==
  /\ n \in rejoin \cap running
  /\ worker[n].decided.primary \in Reach(n)
  /\ rejoin' = rejoin \ {n}
  /\ in_recovery' = [in_recovery EXCEPT ![n] = TRUE]
  /\ read_only' = [read_only EXCEPT ![n] = FALSE]
  /\ inbox' = [inbox EXCEPT ![n] = {}]
  /\ worker' = [worker EXCEPT ![n] = Started(DecisionAt(applied[n]))]
  /\ hung' = hung \ {n}
  /\ StopsLeading(n)
  /\ UNCHANGED <<turn, running, cut, faults, covered>>

-----------------------------------------------------------------------------
(* Faults.                                                                 *)

Isolate(n) ==
  /\ May("isolate")
  /\ cut' = cut \cup {{n, m} : m \in Node \ {n}}
  /\ faults' = faults + 1
  /\ UNCHANGED <<turn, running, hung, covered, raft, memory, postgres>>

CutLink(n, m) ==
  /\ May("link")
  /\ n < m /\ Linked(n, m)
  /\ cut' = cut \cup {{n, m}}
  /\ covered' = FALSE
  /\ faults' = faults + 1
  /\ UNCHANGED <<turn, running, hung, raft, memory, postgres>>

Heal ==
  /\ cut # {}
  /\ cut' = {}
  /\ UNCHANGED <<turn, running, hung, faults, covered, raft, memory, postgres>>

Crash(n) ==
  /\ n \in running
  /\ \E f \in {"crash", "restart"} : May(f)
  /\ running' = running \ {n}
  /\ hung' = hung \ {n}
  /\ rejoin' = rejoin \ {n}
  /\ faults' = faults + 1
  /\ inbox' = [inbox EXCEPT ![n] = {}]
  /\ StopsLeading(n)
  /\ UNCHANGED <<turn, cut, covered, worker, in_recovery, read_only>>

\* Role and read_only come from the data directory.
Restart(n) ==
  /\ "restart" \in Faults
  /\ n \notin running
  /\ running' = running \cup {n}
  /\ covered' = FALSE
  /\ worker' = [worker EXCEPT ![n] = Started(DecisionAt(applied[n]))]
  /\ UNCHANGED <<turn, hung, cut, faults, raft, inbox, postgres>>

Hang(n) ==
  /\ May("hang")
  /\ n \in running \ hung
  /\ hung' = hung \cup {n}
  /\ faults' = faults + 1
  /\ UNCHANGED <<turn, running, cut, covered, raft, memory, postgres>>

Wake(n) ==
  /\ n \in hung
  /\ hung' = hung \ {n}
  /\ UNCHANGED <<turn, running, cut, faults, covered, raft, memory, postgres>>

-----------------------------------------------------------------------------
\* A tick ends when every node had its turn, messages between linked nodes
\* have arrived (what a leader with a quorum can commit is committed, the
\* first entry of its own term included) and the watchdog has done what was
\* due. An election may take any number of ticks. In the course of a tick an
\* old leader that can hear of the new one steps down.
Older(age, cap) == IF age = Never \/ age >= cap THEN age ELSE age + 1

Tick ==
  /\ turn = N + 1
  /\ ~CanCommit /\ (settled \/ ~HasQuorum(leader))
  /\ \A n \in Node : ~(Writable(n) /\ worker[n].last_loop >= WdStale)
  /\ turn' = 1
  /\ holders' = IF Serving THEN holders \cup Reach(leader) ELSE holders
  /\ believers' = {n \in believers : n = leader \/ leader \notin Reach(n)}
  /\ worker' = [n \in Node |->
       [worker[n] EXCEPT !.heard = [m \in Node |-> Older(@[m], Dead)],
                         !.authorized_since = Older(@, Confirm),
                         !.last_proposed.age = Older(@, Retry),
                         !.last_loop = Older(@, WdStale)]]
  /\ UNCHANGED <<network, leader, settled, pending, log, applied, inbox, postgres>>

RaftStep ==
  \/ \E w \in Node : Elect(w)
  \/ Settle
  \/ Commit

Fault ==
  \/ Heal
  \/ \E n \in Node : Isolate(n) \/ Crash(n) \/ Restart(n) \/ Hang(n) \/ Wake(n)
  \/ \E n, m \in Node : CutLink(n, m)

Next ==
  \/ \E n \in Node : \E c \in 0 .. N : Pass(n, c)
  \/ \E n \in Node : Skip(n) \/ Watchdog(n) \/ Rejoin(n)
  \/ RaftStep
  \/ Fault
  \/ Tick

Spec == Init /\ [][Next]_vars

\* Workers run, time passes, Raft makes progress and scripts get their turn;
\* a hung worker need not wake up. Election timeouts are drawn at random, so
\* that an election that is possible again and again succeeds in the end.
Fairness ==
  /\ \A n \in Node : /\ WF_vars(\E c \in 0 .. N : Pass(n, c))
                     /\ WF_vars(Skip(n)) /\ WF_vars(Watchdog(n))
                     /\ SF_vars(Rejoin(n))
  /\ SF_vars(\E w \in Node : Wins(w) /\ Elect(w))
  /\ WF_vars(Settle) /\ WF_vars(Commit) /\ WF_vars(Tick)
FairSpec == Spec /\ Fairness
AwakeSpec == FairSpec /\ \A n \in Node : WF_vars(Wake(n))

-----------------------------------------------------------------------------
(* "Never two writable primaries" (ARCHITECTURE.md): authority derived by  *)
(* each node from its own clock and its own view never overlaps, whatever  *)
(* node is isolated, crashes, hangs or is deposed as the Raft leader.      *)
Writers == {n \in Node : Writable(n)}
OneWritable == covered => \A n, m \in Writers : n = m

(* The same without a word on faults, as the document has it. A link that  *)
(* fails alone refutes it: quorum_ok counts the peers heard from, and two  *)
(* nodes that do not hear each other may both hear the third.              *)
OneWriter == \A n, m \in Writers : n = m

(* The same as an implementation: nodes follow one history, and a node     *)
(* becomes writable only while no other is and the last decision it knows  *)
(* of names it. A standby is never read-write before the fence of its      *)
(* promotion, and a fence is lifted by nobody but an authorized pass. It   *)
(* says nothing of who writes once a fault was not covered.                *)
Promise == INSTANCE Authority WITH
  Decisions <- Decision, view <- applied, writers <- IF covered THEN Writers ELSE {}
HoldsAuthority == Promise!Spec

(* "Self-fence the loser ... before a new one is promoted"                 *)
(* (ARCHITECTURE.md): quorum_lease is up on the node that lost its peers   *)
(* before dead_timeout is up on them, however long an election takes. A    *)
(* worker that hangs is left to the watchdog, which may act later; and a   *)
(* primary that has all its peers again, but whom a leader that did not    *)
(* hear of it in time gave up, is fenced by the decision itself, which     *)
(* its next pass adopts (the promoted node is fenced until its own window  *)
(* has passed, and OneWritable says that this is in time).                 *)
FencedBeforePromotion ==
  [][covered' => \A n \in Node : in_recovery[n] /\ ~in_recovery'[n] =>
       \A m \in Writers \ {n} : Stalled(m) \/ Serves(m)]_vars

(* Once links are up, nodes are up and workers run, the cluster comes to   *)
(* rest: the last decision's primary is the one writable node for good and *)
(* all others are its standbys.                                            *)
Quiet == cut = {} /\ running = Node /\ hung = {}
Settled(n) == Writers = {n} /\ log[Len(log)].primary = n /\ \A m \in Node \ {n} : in_recovery[m]
ComesToRest == <>[]Quiet => \E n \in Node : <>[](log # <<>> /\ Settled(n))

(* A cluster with a majority that can talk accepts writes again and again, *)
(* once its first decision is made: that one needs the seeded node.        *)
Connected == \E n \in Node : HasQuorum(n)
KeepsServing == <>[](Connected /\ log # <<>>) => []<>(Writers # {})
=============================================================================
