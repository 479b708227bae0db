--------------------------- MODULE FailoverProofs ---------------------------
(***************************************************************************)
(* For any number of nodes, any timeouts and any faults: nodes follow one  *)
(* history of decisions, and a node takes the right to write only by a     *)
(* pass for which the last decision it knows of names it; wherever         *)
(* OneWritable holds, that implements Authority.                           *)
(*                                                                         *)
(* The second part is the timing. For any number of nodes, and timeouts    *)
(* and faults as Timely has them, nobody else has the right to write when  *)
(* it is taken, and whoever had it is fenced before another is promoted.   *)
(***************************************************************************)
EXTENDS Failover, FiniteSetTheorems, SequenceTheorems, TLAPS

-----------------------------------------------------------------------------
(* The history: the i-th decision has a number from 1 to i, committed or   *)
(* proposed, and no node knows of more than there are.                     *)
Numbered(d, i) == d \in Decision /\ d.primary # 0 /\ 1 <= d.seq /\ d.seq <= i

History ==
  /\ log \in Seq(Decision) /\ pending \in Seq(Decision)
  /\ Len(log) + Len(pending) <= MaxDecisions
  /\ \A i \in 1 .. Len(log) : Numbered(log[i], i)
  /\ \A i \in 1 .. Len(pending) : Numbered(pending[i], Len(log) + i)
  /\ applied \in [Node -> 0 .. Len(log)]

(* The worker's memory, and the last decision it has adopted.              *)
Shape(r) ==
  r = [decided |-> r.decided, heard |-> r.heard, asking |-> r.asking, peer_seq |-> r.peer_seq,
       reconfirm_pending |-> r.reconfirm_pending, applied_read_only |-> r.applied_read_only,
       authorized_since |-> r.authorized_since, last_proposed |-> r.last_proposed,
       last_loop |-> r.last_loop]

Adopted ==
  /\ worker = [n \in Node |-> worker[n]]
  /\ \A n \in Node : /\ Shape(worker[n])
                     /\ worker[n].decided \in Decision /\ worker[n].decided.seq <= Len(log)

Roles ==
  /\ running \subseteq Node
  /\ in_recovery \in [Node -> BOOLEAN] /\ read_only \in [Node -> BOOLEAN]

FollowInv == History /\ Adopted /\ Roles

(* What a started worker remembers.                                        *)
LEMMA StartedIs ==
  ASSUME NEW d
  PROVE  Shape(Started(d)) /\ Started(d).decided = d
  BY DEF Shape, Started

(* The decision at a place of the history.                                 *)
LEMMA DecisionIs ==
  ASSUME History, NEW i \in 0 .. Len(log)
  PROVE  DecisionAt(i) \in Decision /\ DecisionAt(i).seq <= i
                       /\ (i # 0 => DecisionAt(i) = log[i] /\ DecisionAt(i) # NoDecision)
<1>a. Len(log) \in Nat  BY DEF History
<1>b. NoDecision \in Decision /\ NoDecision.seq = 0
  BY FailoverAssumption DEF FailoverAssumption, NoDecision, Decision
<1>c. CASE i = 0  BY <1>b, <1>c DEF DecisionAt
<1>d. CASE i # 0
  <2>a. i \in 1 .. Len(log)  BY <1>a, <1>d
  <2>b. Numbered(log[i], i)  BY <2>a DEF History
  <2>q. QED  BY <1>b, <1>d, <2>b DEF DecisionAt, Numbered
<1>q. QED  BY <1>c, <1>d

(* The history is empty at first, or has the decision all have applied.    *)
LEMMA InitFollow == Init => FollowInv
<1> DEFINE First(start) == [seq |-> 1, primary |-> start[1]]
           Begun(start) ==
             [n \in Node |->
               IF start[3]
                 THEN [Started(First(start)) EXCEPT
                         !.heard = [m \in Node |-> 1], !.peer_seq = TRUE,
                         !.applied_read_only = IF n = start[1] THEN "off" ELSE "none",
                         !.authorized_since = IF n = start[1] THEN 1 ELSE Never, !.last_loop = 1]
                 ELSE Started(NoDecision)]
<1> SUFFICES ASSUME Init PROVE FollowInv  OBVIOUS
<1>z. PICK start \in Starts :
        /\ pending = <<>> /\ running = Node
        /\ log = IF start[3] THEN <<First(start)>> ELSE <<>>
        /\ applied = [n \in Node |-> Len(log)]
        /\ worker = Begun(start)
        /\ in_recovery = [n \in Node |-> n # start[1]]
        /\ read_only = [n \in Node |-> FALSE]
  BY DEF Init
<1> DEFINE first == First(start)
<1>m. MaxDecisions \in Nat /\ 1 <= MaxDecisions /\ N \in Nat
  BY FailoverAssumption DEF FailoverAssumption
<1>s. start[1] \in 1 .. N /\ start[3] \in BOOLEAN
  <2>a. start \in (1 .. N) \X (1 .. N) \X BOOLEAN
    BY FailoverAssumption DEF FailoverAssumption
  <2>q. QED  BY <2>a
<1>d. /\ first \in Decision /\ first.seq = 1 /\ first.primary # 0
      /\ NoDecision \in Decision /\ NoDecision.seq = 0
  BY <1>m, <1>s DEF Decision, NoDecision
<1>r. Roles  BY <1>z DEF Roles
<1>b. CASE start[3]
  <2> HIDE DEF first, Begun
  <2>e. log = <<first>>  BY <1>z, <1>b DEF first
  <2>l. Len(log) = 1 /\ log[1] = first /\ log \in Seq(Decision)  BY <1>d, <2>e
  <2>f. \A i \in 1 .. Len(log) : Numbered(log[i], i)  BY <1>d, <2>l DEF Numbered
  <2>g. pending = <<>> /\ pending \in Seq(Decision) /\ Len(pending) = 0  BY <1>z
  <2>i. applied \in [Node -> 0 .. Len(log)]  BY <1>z, <2>l
  <2>h. History  BY <1>m, <2>l, <2>f, <2>g, <2>i DEF History
  <2>w. ASSUME NEW n \in Node PROVE Shape(worker[n]) /\ worker[n].decided = first
    <3>a. worker[n] = [Started(first) EXCEPT
                         !.heard = [m \in Node |-> 1], !.peer_seq = TRUE,
                         !.applied_read_only = IF n = start[1] THEN "off" ELSE "none",
                         !.authorized_since = IF n = start[1] THEN 1 ELSE Never, !.last_loop = 1]
      BY <1>z, <1>b DEF Begun, first
    <3>q. QED  BY <3>a DEF Shape, Started
  <2>x. worker = [n \in Node |-> worker[n]]  BY <1>z DEF Begun
  <2>a. Adopted  BY <1>d, <2>l, <2>w, <2>x DEF Adopted
  <2>q. QED  BY <1>r, <2>h, <2>a DEF FollowInv
<1>n. CASE ~start[3]
  <2> HIDE DEF first, Begun
  <2>l. log = <<>> /\ Len(log) = 0 /\ log \in Seq(Decision)  BY <1>n, <1>z
  <2>g. pending = <<>> /\ pending \in Seq(Decision) /\ Len(pending) = 0  BY <1>z
  <2>i. applied \in [Node -> 0 .. Len(log)]  BY <1>z, <2>l
  <2>h. History  BY <1>m, <2>l, <2>g, <2>i DEF History
  <2>w. worker = [n \in Node |-> Started(NoDecision)]  BY <1>z, <1>n DEF Begun
  <2>a. Adopted  BY <1>d, <2>l, <2>w, StartedIs DEF Adopted
  <2>q. QED  BY <1>r, <2>h, <2>a DEF FollowInv
<1>q. QED  BY <1>s, <1>b, <1>n

-----------------------------------------------------------------------------
(* What a node applies is in the history and never behind what it applied, *)
(* and what it decides by is the last decision of that, or an older one it *)
(* has adopted.                                                            *)
LEMMA PassKnows ==
  ASSUME FollowInv, NEW n \in Node
  PROVE  /\ Applied(n) \in applied[n] .. Len(log)
         /\ Decided(n) \in Decision /\ Decided(n).seq <= Len(log)
         /\ Decided(n) = NoDecision \/ Decided(n).primary = n
              => Applied(n) = 0 \/ log[Applied(n)].primary = n
<1>i. History /\ Adopted  BY DEF FollowInv
<1>l. Len(log) \in Nat /\ applied[n] \in 0 .. Len(log)  BY <1>i DEF History
<1>a. Applied(n) \in applied[n] .. Len(log)  BY <1>l DEF Applied
<1>b. Applied(n) \in 0 .. Len(log)  BY <1>l, <1>a
<1>c. /\ Published(n) \in Decision /\ Published(n).seq <= Len(log)
      /\ Applied(n) # 0 => Published(n) = log[Applied(n)] /\ Published(n) # NoDecision
  <2>a. /\ Published(n) \in Decision /\ Published(n).seq <= Applied(n)
        /\ Applied(n) # 0 => Published(n) = log[Applied(n)] /\ Published(n) # NoDecision
    BY <1>i, <1>b, DecisionIs DEF Published
  <2>b. Published(n).seq \in Int  BY <2>a DEF Decision
  <2>q. QED  BY <1>l, <1>b, <2>a, <2>b
<1>d. worker[n].decided \in Decision /\ worker[n].decided.seq <= Len(log)  BY <1>i DEF Adopted
<1>e. Decided(n) \in Decision /\ Decided(n).seq <= Len(log)  BY <1>c, <1>d DEF Decided
<1>f. Applied(n) # 0 => Decided(n) = Published(n)  BY <1>c DEF Decided, Adopts
<1>q. QED  BY <1>a, <1>c, <1>e, <1>f

(* The history grows by the decisions proposed, in their order.            *)
LEMMA CommitHistory ==
  ASSUME History, pending # <<>>, log' = Append(log, Head(pending)), pending' = Tail(pending),
         UNCHANGED applied
  PROVE  /\ History' /\ Len(log') = Len(log) + 1 /\ Head(pending) \in Decision
<1>l. /\ log \in Seq(Decision) /\ pending \in Seq(Decision) /\ Len(log) \in Nat /\ Len(pending) \in Nat
      /\ Len(log) + Len(pending) <= MaxDecisions /\ applied \in [Node -> 0 .. Len(log)]
  BY DEF History
<1>p. /\ Len(pending) >= 1 /\ Head(pending) = pending[1] /\ pending' \in Seq(Decision)
      /\ Len(pending') = Len(pending) - 1
      /\ \A i \in 1 .. Len(pending') : pending'[i] = pending[i + 1]
  BY <1>l
<1>n. Numbered(pending[1], Len(log) + 1) /\ pending[1] \in Decision
  BY <1>l, <1>p DEF History, Numbered
<1>a. /\ log' \in Seq(Decision) /\ Len(log') = Len(log) + 1
      /\ \A i \in 1 .. Len(log) : log'[i] = log[i]
      /\ log'[Len(log) + 1] = pending[1]
  BY <1>l, <1>p, <1>n
<1>b. ASSUME NEW i \in 1 .. Len(log') PROVE Numbered(log'[i], i)
  <2>a. i \in 1 .. Len(log) \/ i = Len(log) + 1  BY <1>l, <1>a
  <2>q. QED  BY <1>a, <1>n, <2>a DEF History
<1>c. ASSUME NEW i \in 1 .. Len(pending') PROVE Numbered(pending'[i], Len(log') + i)
  <2>a. i + 1 \in 1 .. Len(pending) /\ i \in Int  BY <1>l, <1>p
  <2>b. Numbered(pending[i + 1], Len(log) + (i + 1))  BY <2>a DEF History
  <2>d. Len(log) + (i + 1) = Len(log') + i  BY <1>l, <1>a, <2>a
  <2>q. QED  BY <1>p, <2>b, <2>d
<1>d. applied' \in [Node -> 0 .. Len(log')]  BY <1>l, <1>a
<1>e. Len(log') + Len(pending') <= MaxDecisions  BY <1>l, <1>p, <1>a
<1>q. QED  BY <1>a, <1>b, <1>c, <1>d, <1>e, <1>p, <1>n DEF History

(* A proposal is numbered after the decision it follows.                   *)
LEMMA ProposeHistory ==
  ASSUME History, NEW d \in Decision, d.seq <= Len(log), NEW c \in 1 .. N,
         Len(log) + Len(pending) < MaxDecisions,
         pending' = Append(pending, [seq |-> d.seq + 1, primary |-> c]),
         applied' \in [Node -> 0 .. Len(log)], UNCHANGED log
  PROVE  History'
<1> DEFINE new == [seq |-> d.seq + 1, primary |-> c]
<1>l. /\ pending \in Seq(Decision) /\ Len(log) \in Nat /\ Len(pending) \in Nat
      /\ MaxDecisions \in Nat /\ N \in Nat
  BY FailoverAssumption DEF History, FailoverAssumption
<1>d. d.seq \in Nat  BY DEF Decision
<1>a. new \in Decision /\ new.seq = d.seq + 1  BY <1>l, <1>d DEF Decision
<1>b. Numbered(new, Len(log) + (Len(pending) + 1))  BY <1>l, <1>d, <1>a DEF Numbered
<1> HIDE DEF new
<1>p. /\ pending' \in Seq(Decision) /\ Len(pending') = Len(pending) + 1
      /\ \A i \in 1 .. Len(pending) : pending'[i] = pending[i]
      /\ pending'[Len(pending) + 1] = new
  BY <1>l, <1>a DEF new
<1>c. ASSUME NEW i \in 1 .. Len(pending') PROVE Numbered(pending'[i], Len(log) + i)
  <2>a. i \in 1 .. Len(pending) \/ i = Len(pending) + 1  BY <1>l, <1>p
  <2>q. QED  BY <1>b, <1>p, <2>a DEF History
<1>e. Len(log) + Len(pending') <= MaxDecisions  BY <1>l, <1>p
<1>q. QED  BY <1>c, <1>e, <1>p DEF History

-----------------------------------------------------------------------------
(* The steps, by what they do to the history and to the right to write.    *)

(* Nothing: the network, Raft's elections, time.                           *)
LEMMA QuietSteps ==
  ASSUME FollowInv,
         \/ \E n \in Node : Skip(n) \/ Isolate(n) \/ Hang(n) \/ Wake(n) \/ Elect(n)
         \/ Settle \/ Heal \/ Tick
  PROVE  FollowInv' /\ UNCHANGED <<log, applied, running, in_recovery, read_only, covered>>
<1>i. History /\ Adopted /\ Roles  BY DEF FollowInv
<1>same. ASSUME UNCHANGED <<log, pending, applied, worker, running, in_recovery, read_only, covered>>
         PROVE  FollowInv' /\ UNCHANGED <<log, applied, running, in_recovery, read_only, covered>>
  BY <1>i, <1>same DEF FollowInv, History, Adopted, Roles
<1>a. ASSUME NEW n \in Node, Skip(n) \/ Isolate(n) \/ Hang(n) \/ Wake(n)
      PROVE  UNCHANGED <<log, pending, applied, worker, running, in_recovery, read_only, covered>>
  BY <1>a DEF Skip, Isolate, Hang, Wake, network, raft, memory, postgres
<1>b. CASE Settle \/ Heal
  BY <1>b, <1>same DEF Settle, Heal, network, raft, memory, postgres
<1>elect. ASSUME NEW n \in Node, Elect(n)
          PROVE  FollowInv' /\ UNCHANGED <<log, applied, running, in_recovery, read_only, covered>>
  <2>u. /\ pending' = <<>>
        /\ UNCHANGED <<log, applied, worker, running, in_recovery, read_only, covered>>
    BY <1>elect DEF Elect, memory, postgres
  <2>p. pending' \in Seq(Decision) /\ Len(pending') = 0  BY <2>u
  <2>m. Len(log) \in Nat /\ Len(log) <= MaxDecisions
    BY <1>i, FailoverAssumption DEF History, FailoverAssumption
  <2>h. History'  BY <1>i, <2>u, <2>p, <2>m DEF History
  <2>q. QED  BY <1>i, <2>u, <2>h DEF FollowInv, Adopted, Roles
<1>tick. CASE Tick
  <2>u. UNCHANGED <<log, pending, applied, running, in_recovery, read_only, covered>>
    BY <1>tick DEF Tick, network, postgres
  <2>w. ASSUME NEW n \in Node PROVE Shape(worker'[n]) /\ worker'[n].decided = worker[n].decided
    <3>a. Shape(worker[n])  BY <1>i DEF Adopted
    <3>b. worker'[n] = [worker[n] EXCEPT !.heard = [m \in Node |-> Older(@[m], Dead)],
                                         !.authorized_since = Older(@, Confirm),
                                         !.last_proposed.age = Older(@, Retry),
                                         !.last_loop = Older(@, WdStale)]
      BY <1>tick DEF Tick
    <3>q. QED  BY <3>a, <3>b DEF Shape
  <2>x. worker' = [n \in Node |-> worker'[n]]  BY <1>tick DEF Tick
  <2>a. Adopted'  BY <1>i, <2>u, <2>w, <2>x DEF Adopted
  <2>h. History' /\ Roles'  BY <1>i, <2>u DEF History, Roles
  <2>q. QED  BY <2>u, <2>a, <2>h DEF FollowInv
<1>q. QED  BY <1>same, <1>a, <1>b, <1>elect, <1>tick

(* The history grows.                                                      *)
LEMMA CommitStep ==
  ASSUME FollowInv, Commit
  PROVE  /\ FollowInv' /\ UNCHANGED <<applied, running, in_recovery, read_only, covered>>
         /\ \E d \in Decision : log' = Append(log, d)
<1>i. History /\ Adopted /\ Roles  BY DEF FollowInv
<1>u. /\ pending # <<>> /\ log' = Append(log, Head(pending)) /\ pending' = Tail(pending)
      /\ UNCHANGED <<applied, worker, running, in_recovery, read_only, covered>>
  BY DEF Commit, CanCommit, network, memory, postgres
<1>h. History' /\ Len(log') = Len(log) + 1 /\ Head(pending) \in Decision
  BY <1>i, <1>u, CommitHistory
<1>n. Len(log) \in Nat /\ \A n \in Node : worker[n].decided.seq \in Int
  BY <1>i DEF History, Adopted, Decision
<1>a. Adopted'  BY <1>i, <1>u, <1>h, <1>n DEF Adopted
<1>q. QED  BY <1>i, <1>u, <1>h, <1>a DEF FollowInv, Roles

(* A worker that starts over takes up what its node has applied.           *)
LEMMA StartsOver ==
  ASSUME FollowInv, NEW n \in Node, worker' = [worker EXCEPT ![n] = Started(DecisionAt(applied[n]))],
         UNCHANGED log
  PROVE  Adopted'
<1>i. History /\ Adopted  BY DEF FollowInv
<1>a. applied[n] \in 0 .. Len(log) /\ Len(log) \in Nat  BY <1>i DEF History
<1>b. DecisionAt(applied[n]) \in Decision /\ DecisionAt(applied[n]).seq <= Len(log)
  <2>a. DecisionAt(applied[n]) \in Decision /\ DecisionAt(applied[n]).seq <= applied[n]
    BY <1>i, <1>a, DecisionIs
  <2>b. DecisionAt(applied[n]).seq \in Int  BY <2>a DEF Decision
  <2>q. QED  BY <1>a, <2>a, <2>b
<1> DEFINE r == Started(DecisionAt(applied[n]))
<1>c. Shape(r) /\ r.decided = DecisionAt(applied[n])  BY StartedIs
<1> HIDE DEF r
<1>d. worker' = [m \in Node |-> IF m = n THEN r ELSE worker[m]]  BY <1>i DEF Adopted, r
<1>q. QED  BY <1>i, <1>b, <1>c, <1>d DEF Adopted

(* A node stops being writable: the watchdog, a rejoin, a crash.           *)
LEMMA LosingSteps ==
  ASSUME FollowInv, NEW n \in Node, Watchdog(n) \/ Rejoin(n) \/ Crash(n)
  PROVE  FollowInv' /\ UNCHANGED <<log, applied, covered>> /\ Writers' = Writers \ {n}
<1>i. History /\ Adopted /\ Roles  BY DEF FollowInv
<1>watchdog. CASE Watchdog(n)
  <2>u. /\ read_only' = [read_only EXCEPT ![n] = TRUE]
        /\ UNCHANGED <<log, pending, applied, worker, running, in_recovery, covered>>
    BY <1>watchdog DEF Watchdog, network, raft, memory
  <2>r. Roles'  BY <1>i, <2>u DEF Roles
  <2>w. Writers' = Writers \ {n}  BY <1>i, <2>u DEF Roles, Writers, Writable
  <2>q. QED  BY <1>i, <2>u, <2>r, <2>w DEF FollowInv, History, Adopted
<1>rejoin. CASE Rejoin(n)
  <2>u. /\ read_only' = [read_only EXCEPT ![n] = FALSE]
        /\ in_recovery' = [in_recovery EXCEPT ![n] = TRUE]
        /\ worker' = [worker EXCEPT ![n] = Started(DecisionAt(applied[n]))]
        /\ UNCHANGED <<log, pending, applied, running, covered>>
    BY <1>rejoin DEF Rejoin, StopsLeading
  <2>a. Adopted'  BY <2>u, StartsOver
  <2>r. Roles'  BY <1>i, <2>u DEF Roles
  <2>w. Writers' = Writers \ {n}  BY <1>i, <2>u DEF Roles, Writers, Writable
  <2>q. QED  BY <1>i, <2>u, <2>a, <2>r, <2>w DEF FollowInv, History
<1>crash. CASE Crash(n)
  <2>u. /\ running' = running \ {n}
        /\ UNCHANGED <<log, pending, applied, worker, in_recovery, read_only, covered>>
    BY <1>crash DEF Crash, StopsLeading
  <2>w. Writers' = Writers \ {n}  BY <2>u DEF Writers, Writable
  <2>q. QED  BY <1>i, <2>u, <2>w DEF FollowInv, History, Adopted, Roles
<1>q. QED  BY <1>watchdog, <1>rejoin, <1>crash

(* A fault that OneWritable does not speak of.                             *)
LEMMA UncoveredSteps ==
  ASSUME FollowInv, (\E n \in Node : Restart(n)) \/ (\E n, m \in Node : CutLink(n, m))
  PROVE  FollowInv' /\ UNCHANGED <<log, applied>> /\ covered' = FALSE
<1>i. History /\ Adopted /\ Roles  BY DEF FollowInv
<1>a. ASSUME NEW n \in Node, Restart(n)
      PROVE  FollowInv' /\ UNCHANGED <<log, applied>> /\ covered' = FALSE
  <2>u. /\ running' = running \cup {n} /\ covered' = FALSE
        /\ worker' = [worker EXCEPT ![n] = Started(DecisionAt(applied[n]))]
        /\ UNCHANGED <<log, pending, applied, in_recovery, read_only>>
    BY <1>a DEF Restart, raft, postgres
  <2>a. Adopted'  BY <2>u, StartsOver
  <2>q. QED  BY <1>i, <2>u, <2>a DEF FollowInv, History, Roles
<1>b. ASSUME NEW n \in Node, NEW m \in Node, CutLink(n, m)
      PROVE  FollowInv' /\ UNCHANGED <<log, applied>> /\ covered' = FALSE
  <2>u. /\ UNCHANGED <<log, pending, applied, worker, running, in_recovery, read_only>>
        /\ covered' = FALSE
    BY <1>b DEF CutLink, raft, memory, postgres
  <2>q. QED  BY <1>i, <2>u DEF FollowInv, History, Adopted, Roles
<1>q. QED  BY <1>a, <1>b

(* A pass of the loop: it gives up, keeps or takes the right to write, and *)
(* takes it only if it is authorized; it is authorized only if the last    *)
(* decision the node knows of names it or there is none.                   *)
Named(n, known) == known = 0 \/ log[known].primary = n

(* What a pass does to the history and to the right to write.              *)
LEMMA PassStep ==
  ASSUME FollowInv, NEW n \in Node, NEW c \in 0 .. N, Pass(n, c)
  PROVE  /\ FollowInv' /\ UNCHANGED <<log, covered>>
         /\ Applied(n) \in applied[n] .. Len(log)
         /\ applied' = [applied EXCEPT ![n] = Applied(n)]
         /\ Writers' \in {Writers, Writers \ {n}} \/ (Writers' = Writers \cup {n} /\ Named(n, Applied(n)))
<1>i. History /\ Adopted /\ Roles  BY DEF FollowInv
<1>u. /\ n \in running /\ c \in Choices(n)
      /\ applied' = [applied EXCEPT ![n] = Applied(n)]
      /\ worker' = [worker EXCEPT ![n] = Remember(n, c)]
      /\ pending' = IF c # 0 /\ n = leader THEN Append(pending, NextDecision(n, c)) ELSE pending
      /\ read_only' = [read_only EXCEPT ![n] = ReadOnlyAfter(n)]
      /\ in_recovery' = [in_recovery EXCEPT ![n] = @ /\ ~Promotes(n)]
      /\ UNCHANGED <<log, covered, running>>
  BY DEF Pass, Busy, network
<1>k. /\ Applied(n) \in applied[n] .. Len(log)
      /\ Decided(n) \in Decision /\ Decided(n).seq <= Len(log)
      /\ Decided(n) = NoDecision \/ Decided(n).primary = n => Named(n, Applied(n))
  BY PassKnows DEF Named
<1>l. Len(log) \in Nat /\ applied \in [Node -> 0 .. Len(log)]  BY <1>i DEF History
<1>p. applied' \in [Node -> 0 .. Len(log)]
  <2>a. Applied(n) \in 0 .. Len(log)  BY <1>k, <1>l
  <2>q. QED  BY <1>u, <1>l, <2>a
<1>h. History'
  <2>a. CASE c # 0 /\ n = leader
    <3>a. c \in 1 .. N /\ N \in Nat  BY <2>a, FailoverAssumption DEF FailoverAssumption
    <3>b. Len(log) + Len(pending) < MaxDecisions  BY <1>u, <2>a DEF Choices
    <3>c. pending' = Append(pending, [seq |-> Decided(n).seq + 1, primary |-> c])
      BY <1>u, <2>a DEF NextDecision
    <3>q. QED  BY <1>i, <1>u, <1>k, <1>p, <3>a, <3>b, <3>c, ProposeHistory
  <2>b. CASE ~(c # 0 /\ n = leader)
    <3>a. pending' = pending  BY <1>u, <2>b
    <3>q. QED  BY <1>i, <1>u, <1>p, <3>a DEF History
  <2>q. QED  BY <2>a, <2>b
<1>a. Adopted'
  <2> DEFINE r == Remember(n, c)
  <2>a. Shape(r) /\ r.decided = Decided(n)  BY DEF Shape, Remember
  <2> HIDE DEF r
  <2>b. worker' = [m \in Node |-> IF m = n THEN r ELSE worker[m]]  BY <1>i, <1>u DEF Adopted, r
  <2>q. QED  BY <1>i, <1>u, <1>k, <2>a, <2>b DEF Adopted
<1>r. Roles'
  <2>a. ReadOnlyAfter(n) \in BOOLEAN  BY <1>i DEF ReadOnlyAfter, Roles
  <2>b. (in_recovery[n] /\ ~Promotes(n)) \in BOOLEAN  OBVIOUS
  <2>q. QED  BY <1>i, <1>u, <2>a, <2>b DEF Roles
<1>w. Writers' \in {Writers, Writers \ {n}} \/ (Writers' = Writers \cup {n} /\ Named(n, Applied(n)))
  <2>a. \A m \in Node : m # n => (m \in Writers' <=> m \in Writers)
    BY <1>i, <1>u DEF Writers, Writable, Roles
  <2>s. Writers \subseteq Node /\ Writers' \subseteq Node  BY DEF Writers
  <2>b. CASE n \notin Writers'
    <3>a. Writers' = Writers \ {n}  BY <2>a, <2>b, <2>s
    <3>q. QED  BY <3>a
  <2>c. CASE n \in Writers' /\ n \in Writers
    <3>a. Writers' = Writers  BY <2>a, <2>c, <2>s
    <3>q. QED  BY <3>a
  <2>d. CASE n \in Writers' /\ n \notin Writers
    <3>a. read_only'[n] = ReadOnlyAfter(n) /\ in_recovery'[n] = (in_recovery[n] /\ ~Promotes(n))
      BY <1>i, <1>u DEF Roles
    <3>b. ~ReadOnlyAfter(n) /\ ~(in_recovery[n] /\ ~Promotes(n))
      BY <2>d, <3>a DEF Writers, Writable
    <3>c. in_recovery[n] \/ read_only[n]  BY <1>u, <2>d DEF Writers, Writable
    <3>d. ~Promotes(n)  BY <3>b DEF ReadOnlyAfter, Promotes
    <3>e. ~in_recovery[n] /\ read_only[n]  BY <3>b, <3>c, <3>d
    <3>f. Authorized(n)  BY <3>b, <3>d, <3>e DEF ReadOnlyAfter
    <3>g. Decided(n) = NoDecision \/ Decided(n).primary = n  BY <3>f DEF Authorized, RawAuth
    <3>h. Named(n, Applied(n))  BY <1>k, <3>g
    <3>j. Writers' = Writers \cup {n}  BY <2>a, <2>d, <2>s
    <3>q. QED  BY <3>h, <3>j
  <2>q. QED  BY <2>b, <2>c, <2>d
<1>q. QED  BY <1>u, <1>k, <1>h, <1>a, <1>r, <1>w DEF FollowInv

(* Nodes follow one history throughout.                                    *)
THEOREM FailoverFollows == Spec => []FollowInv
<1>s. FollowInv /\ [Next]_vars => FollowInv'
  <2> SUFFICES ASSUME FollowInv, [Next]_vars PROVE FollowInv'  OBVIOUS
  <2>u. CASE UNCHANGED vars
    <3>a. UNCHANGED <<log, pending, applied, worker, running, in_recovery, read_only>>
      BY <2>u DEF vars, network, raft, memory, postgres
    <3>q. QED  BY <3>a DEF FollowInv, History, Adopted, Roles
  <2>n. CASE Next
    BY <2>n, QuietSteps, CommitStep, LosingSteps, UncoveredSteps, PassStep
    DEF Next, RaftStep, Fault
  <2>q. QED  BY <2>u, <2>n
<1>q. QED  BY <1>s, InitFollow, PTL DEF Spec

-----------------------------------------------------------------------------
(* "Self-fence": whatever the timeouts and the faults, a node that was not *)
(* writable becomes so only in a pass after which the last decision it has *)
(* applied names it, or none is applied; no script and no promotion makes  *)
(* it writable by itself. (A restart brings back the setting it had.)      *)
WriterIsNamed ==
  [][covered' => \A n \in Writers' \ Writers : Named(n, applied'[n])]_vars

(* The history invariant gives it for every cluster.                       *)
THEOREM FailoverWriterIsNamed == Spec => WriterIsNamed
<1>s. FollowInv /\ [Next]_vars
        => [covered' => \A n \in Writers' \ Writers : Named(n, applied'[n])]_vars
  <2> SUFFICES ASSUME FollowInv, Next, covered', NEW n \in Writers' \ Writers
               PROVE  Named(n, applied'[n])
    OBVIOUS
  <2>i. applied \in [Node -> 0 .. Len(log)]  BY DEF FollowInv, History
  <2>a. ASSUME NEW m \in Node, NEW c \in 0 .. N, Pass(m, c) PROVE Named(n, applied'[n])
    <3>a. n = m /\ Named(m, Applied(m))  BY <2>a, PassStep
    <3>b. applied' = [applied EXCEPT ![m] = Applied(m)]  BY <2>a, PassStep
    <3>c. applied'[m] = Applied(m)  BY <2>i, <3>b
    <3>q. QED  BY <3>a, <3>c
  <2>b. ASSUME UNCHANGED <<running, in_recovery, read_only>> PROVE FALSE
    BY <2>b DEF Writers, Writable
  <2>c. ASSUME NEW m \in Node, Watchdog(m) \/ Rejoin(m) \/ Crash(m) PROVE FALSE
    BY <2>c, LosingSteps
  <2>d. ~((\E m \in Node : Restart(m)) \/ (\E m, k \in Node : CutLink(m, k)))
    BY UncoveredSteps
  <2>q. QED  BY <2>a, <2>b, <2>c, <2>d, QuietSteps, CommitStep DEF Next, RaftStep, Fault
<1>q. QED  BY <1>s, FailoverFollows, PTL DEF Spec, WriterIsNamed

-----------------------------------------------------------------------------
(* The refinement. While OneWritable holds, every step is one of           *)
(* Authority's: what is decided joins the history, a node acts by itself,  *)
(* and it takes the right to write when nobody has it.                     *)
Rights == IF covered THEN Writers ELSE {}

(* A step of one node in Authority's terms.                                *)
LEMMA ActsAlone ==
  ASSUME NEW n \in Node, NEW known \in applied[n] .. Len(log),
         applied' = [applied EXCEPT ![n] = known], UNCHANGED log,
         \/ Rights' \in {Rights, Rights \ {n}}
         \/ Rights = {} /\ Named(n, known) /\ Rights' = {n}
  PROVE  Promise!Next
<1>a. Promise!Act(n)  BY DEF Promise!Act, Promise!MayWrite, Named, Rights
<1>q. QED  BY <1>a DEF Promise!Next

(* Every step of the cluster is a step of Authority or leaves it alone.    *)
LEMMA StepPromised ==
  ASSUME FollowInv, OneWritable, OneWritable', [Next]_vars
  PROVE  [Promise!Next]_(Promise!vars)
<1>i. /\ Len(log) \in Nat /\ applied \in [Node -> 0 .. Len(log)]
      /\ \A n \in Node : applied[n] \in applied[n] .. Len(log) /\ applied = [applied EXCEPT ![n] = applied[n]]
  BY DEF FollowInv, History
<1>one. /\ \A n, m \in Rights : n = m
        /\ \A n, m \in Rights' : n = m
  BY DEF OneWritable, Rights
<1>sub. Rights \subseteq Node  BY DEF Rights, Writers
<1>same. ASSUME UNCHANGED <<log, applied, running, in_recovery, read_only, covered>>
         PROVE  UNCHANGED Promise!vars
  BY <1>same DEF Promise!vars, Writers, Writable
<1>pass. ASSUME NEW n \in Node, NEW c \in 0 .. N, Pass(n, c) PROVE Promise!Next
  <2>a. /\ UNCHANGED <<log, covered>> /\ Applied(n) \in applied[n] .. Len(log)
        /\ applied' = [applied EXCEPT ![n] = Applied(n)]
        /\ Writers' \in {Writers, Writers \ {n}} \/ (Writers' = Writers \cup {n} /\ Named(n, Applied(n)))
    BY <1>pass, PassStep
  <2>b. \/ Rights' \in {Rights, Rights \ {n}}
        \/ Rights = {} /\ Named(n, Applied(n)) /\ Rights' = {n}
    <3>a. CASE ~covered  BY <2>a, <3>a DEF Rights
    <3>b. CASE covered /\ Writers' \in {Writers, Writers \ {n}}  BY <2>a, <3>b DEF Rights
    <3>c. CASE covered /\ Writers' = Writers \cup {n} /\ Named(n, Applied(n))
      <4>a. Rights = Writers /\ Rights' = Writers \cup {n}  BY <2>a, <3>c DEF Rights
      <4>b. CASE n \in Writers
        <5>a. Rights' = Rights  BY <4>a, <4>b
        <5>q. QED  BY <5>a
      <4>c. CASE n \notin Writers
        <5>a. Writers = {}  BY <1>one, <4>a, <4>c
        <5>q. QED  BY <3>c, <4>a, <5>a
      <4>q. QED  BY <4>b, <4>c
    <3>q. QED  BY <2>a, <3>a, <3>b, <3>c
  <2>q. QED  BY <2>a, <2>b, ActsAlone
<1>lose. ASSUME NEW n \in Node, Watchdog(n) \/ Rejoin(n) \/ Crash(n) PROVE Promise!Next
  <2>a. UNCHANGED <<log, applied, covered>> /\ Writers' = Writers \ {n}  BY <1>lose, LosingSteps
  <2>b. Rights' \in {Rights, Rights \ {n}}  BY <2>a DEF Rights
  <2>q. QED  BY <1>i, <2>a, <2>b, ActsAlone
<1>uncover. ASSUME (\E n \in Node : Restart(n)) \/ (\E n, m \in Node : CutLink(n, m))
            PROVE  Promise!Next
  <2>a. UNCHANGED <<log, applied>> /\ Rights' = {}  BY <1>uncover, UncoveredSteps DEF Rights
  <2>n. PICK n \in Node : Rights \subseteq {n}
    <3>a. CASE Rights = {}
      <4>a. 1 \in Node  BY FailoverAssumption DEF FailoverAssumption, Node
      <4>q. QED  BY <3>a, <4>a
    <3>b. CASE Rights # {}  BY <1>one, <1>sub, <3>b
    <3>q. QED  BY <3>a, <3>b
  <2>b. Rights' = Rights \ {n}  BY <2>a, <2>n
  <2>q. QED  BY <1>i, <2>a, <2>b, ActsAlone
<1>commit. CASE Commit
  <2>a. /\ UNCHANGED <<applied, running, in_recovery, read_only, covered>>
        /\ \E d \in Decision : log' = Append(log, d)
    BY <1>commit, CommitStep
  <2>b. Promise!Decide  BY <2>a DEF Promise!Decide, Writers, Writable
  <2>q. QED  BY <2>b DEF Promise!Next
<1>u. CASE UNCHANGED vars
  BY <1>u, <1>same DEF vars, network, raft, postgres
<1>q. QED
  BY <1>same, <1>pass, <1>lose, <1>uncover, <1>commit, <1>u, QuietSteps DEF Next, RaftStep, Fault

(* A new cluster starts where Authority starts.                            *)
LEMMA InitPromised == Init => Promise!Init
<1> SUFFICES ASSUME Init PROVE Promise!Init  OBVIOUS
<1>a. PICK start \in Starts :
        /\ running = Node /\ covered = TRUE
        /\ log = IF start[3] THEN <<[seq |-> 1, primary |-> start[1]]>> ELSE <<>>
        /\ applied = [n \in Node |-> Len(log)]
        /\ in_recovery = [n \in Node |-> n # start[1]]
        /\ read_only = [n \in Node |-> FALSE]
  BY DEF Init
<1>s. start[1] \in 1 .. N
  <2>a. start \in (1 .. N) \X (1 .. N) \X BOOLEAN
    BY FailoverAssumption DEF FailoverAssumption
  <2>q. QED  BY <2>a
<1>d. [seq |-> 1, primary |-> start[1]] \in Decision
  BY <1>s, FailoverAssumption DEF FailoverAssumption, Decision
<1>w. Writers = {start[1]} /\ start[1] \in Node  BY <1>a, <1>s DEF Writers, Writable, Node
<1>l. log \in {<<>>} \cup {<<d>> : d \in Decision}  BY <1>a, <1>d
<1>v. applied \in [Node -> {0, Len(log)}]  BY <1>a
<1>q. QED  BY <1>a, <1>w, <1>l, <1>v DEF Promise!Init

(* Failover implements Authority, for every number of nodes and every      *)
(* timeout, as long as the timeouts keep writable nodes apart: the rest of *)
(* the promise does not depend on time. FailoverOneWritable says they do.  *)
THEOREM FailoverImplements == Spec /\ []OneWritable => HoldsAuthority
  BY InitPromised, StepPromised, FailoverFollows, PTL DEF Spec, HoldsAuthority, Promise!Spec

(* And what Authority promises is "Never two writable primaries"           *)
(* (ARCHITECTURE.md): the right to write is taken only while it is free.   *)
THEOREM AuthorityOneWriter == Promise!Spec => []Promise!OneWriter
<1>i. Promise!Init => Promise!OneWriter  BY DEF Promise!Init, Promise!OneWriter
<1>s. Promise!OneWriter /\ [Promise!Next]_(Promise!vars) => Promise!OneWriter'
  <2> SUFFICES ASSUME Promise!OneWriter, [Promise!Next]_(Promise!vars) PROVE Promise!OneWriter'
    OBVIOUS
  <2>a. CASE Promise!Decide \/ UNCHANGED Promise!vars
    BY <2>a DEF Promise!Decide, Promise!vars, Promise!OneWriter
  <2>b. ASSUME NEW n \in Node, Promise!Act(n) PROVE Promise!OneWriter'
    BY <2>b DEF Promise!Act, Promise!OneWriter
  <2>q. QED  BY <2>a, <2>b DEF Promise!Next
<1>q. QED  BY <1>i, <1>s, PTL DEF Promise!Spec

-----------------------------------------------------------------------------
(* Why there is never a second writable node. An established cluster and   *)
(* at most one fault; the timeouts as the configuration has them: a node   *)
(* is given up for dead later than its lease runs out, a worker that is    *)
(* given up is one that knows it has stalled, the watchdog acts before a   *)
(* new primary's window is over, and a proposal is not made again at the   *)
(* next pass. Elections may take any time.                                 *)
Established == \A start \in Starts : start[3]

Timely ==
  /\ Established /\ MaxFaults <= 1
  /\ Lease + 2 <= Dead /\ Retry >= 2
  /\ Stall < Dead /\ Stall < WdStale /\ WdStale < Dead + Confirm

(* Every node has adopted the last decision it has applied, ages stay      *)
(* within their caps, and a worker that believes in its fence has one.     *)
Memory(r) ==
  /\ r.heard \in [Node -> 0 .. Dead]
  /\ r.last_loop \in 0 .. WdStale
  /\ r.authorized_since \in -1 .. Confirm
  /\ r.last_proposed \in [seq : Nat, age : 0 .. Retry]

Aged ==
  /\ turn \in 1 .. N + 1
  /\ inbox \in [Node -> SUBSET Node]
  /\ leader \in 0 .. N
  /\ faults \in Nat
  /\ \A n \in Node : /\ Memory(worker[n])
                     /\ applied[n] >= 1 /\ worker[n].decided = log[applied[n]]
                     /\ worker[n].applied_read_only = "on" => read_only[n]

(* Node n, whose worker never hangs, made its last pass in this tick or    *)
(* the one before; n has heard from m since m's last pass.                 *)
InTime(n) == worker[n].last_loop <= IF turn > n THEN 0 ELSE 1
Hears(n, m) == m \notin inbox[n] => worker[n].heard[m] <= worker[m].last_loop

(* The next pass of m comes before the next one of n.                      *)
Before(m, n) == IF turn > m <=> turn > n THEN m < n ELSE turn <= m

(* No node but x is down or cut off, and the fault does not touch them.    *)
Star(x) == {{x, m} : m \in Node \ {x}}

OneOut(x) ==
  /\ running \subseteq Node /\ Node \ {x} \subseteq running
  /\ cut \in {{}, Star(x)} /\ (cut # {} => running = Node)

Unharmed(x) ==
  /\ \A n \in Node \ {x} : InTime(n)
  /\ \A n, m \in Node \ {x} : n # m => Hears(n, m)

(* All that is decided names s, and only s is not a standby.               *)
Loyal(s) ==
  /\ \A i \in 1 .. Len(log) : log[i].primary = s
  /\ \A n \in Node : in_recovery[n] <=> n # s
  /\ rejoin = {}

(* A primary that has given up its right to write.                         *)
Fenced(s) ==
  /\ read_only[s] /\ worker[s].applied_read_only # "off"
  /\ worker[s].authorized_since = Never

(* The primary s is cut off or was: it misses its peers as long as they    *)
(* miss it, and before they give it up it has fenced itself.               *)
Missing(s) ==
  \A n \in Node \ {s} : s \notin inbox[n] =>
    /\ cut # {} => \A m \in Node \ {s} :
         worker[n].heard[s] <= IF m \in inbox[s] THEN worker[s].last_loop
                                                 ELSE worker[s].heard[m] + 1
    /\ worker[n].heard[s] >= Dead - 1 + worker[s].last_loop => Fenced(s)

(* The leader x is cut off: it misses all its peers at about the same time *)
(* and soon counts too few of them to propose anything.                    *)
Spread(x) ==
  \A m, k \in Node \ {x} : m \notin inbox[x] =>
    worker[x].heard[m] <= IF k \in inbox[x] THEN (IF turn > x THEN 1 ELSE 2)
                                            ELSE worker[x].heard[k] + 2

(* What it proposed in between waits; it does not propose again.           *)
Lost(x) ==
  \A m \in Node \ {x} :
    /\ m \notin inbox[x]
    /\ \/ worker[x].heard[m] >= Dead
       \/ /\ worker[x].last_proposed.seq = worker[x].decided.seq + 1
          /\ worker[x].last_proposed.age <= 1
          /\ worker[x].heard[m] >= Dead - 2 + worker[x].last_proposed.age

Waiting(s, x) ==
  pending # <<>> => /\ x # s /\ leader = x /\ cut # {} /\ Lost(x)
                    /\ Len(pending) = 1 /\ pending[1].primary # s

(* Before the fault.                                                       *)
Fresh ==
  /\ faults = 0 => /\ running = Node /\ cut = {} /\ settled
                   /\ \A n \in Node : InTime(n)
                   /\ \A n, m \in Node : n # m => Hears(n, m)
  /\ faults # 0 => faults >= MaxFaults

(* Nobody has reason to ask for a decision.                                *)
Calm ==
  /\ Len(log) = 1 /\ holders = Node
  /\ \A n \in Node : ~worker[n].reconfirm_pending /\ worker[n].asking = {}

(* If the fault hits s: its age at the others. If it hits a leader: the    *)
(* ages of the others there.                                               *)
Contact(s, x) ==
  /\ N >= 3 /\ x = s /\ s \in running => Missing(s)
  /\ x # s /\ leader = x => IF cut # {} THEN Spread(x) ELSE Hears(x, s)

(* A leader that was elected can serve before the tick is over.            *)
Led ==
  \/ leader \in running /\ (settled \/ (turn = N + 1 /\ HasQuorum(leader)))
  \/ leader = 0 /\ running # Node /\ ~settled

(* No fault, an election, or node x crashed or was isolated.               *)
Steady(s, x) ==
  /\ Loyal(s) /\ Fresh /\ Calm
  /\ OneOut(x) /\ Unharmed(x) /\ hung = {} /\ (x \in running => InTime(x))
  /\ Led /\ Contact(s, x) /\ Waiting(s, x)

(* The worker of x hangs or has hung.                                      *)
Hanging(s, x) ==
  /\ Loyal(s) /\ Unharmed(x)
  /\ running = Node /\ cut = {} /\ hung \subseteq {x}
  /\ settled /\ leader \in Node
  /\ \A i \in 1 .. Len(pending) : pending[i].primary = s
  /\ pending # <<>> => turn > leader
  /\ faults # 0 /\ faults >= MaxFaults
  /\ \A m \in Node \ {x} : Hears(x, m)
  /\ x = s => \A n \in Node \ {s} :
       Hears(n, s) \/ (worker[s].last_loop = WdStale /\ ~Writable(s))

(* The primary s was given up and c takes its place.                       *)
Yields(s) ==
  /\ read_only[s] /\ worker[s].applied_read_only # "off"
  /\ cut # {} => /\ worker[s].authorized_since = Never
                 /\ \A m \in Node \ {s} : m \notin inbox[s] /\ worker[s].heard[m] >= Lease
  /\ log[Len(log)].primary = s => worker[s].authorized_since <= 0

Waits(c, s) ==
  \/ in_recovery[c]
  \/ /\ read_only[c] /\ worker[c].applied_read_only # "off"
     /\ worker[c].authorized_since # Never => worker[s].last_loop >= Dead + worker[c].authorized_since

Overdue(s, c) ==
  /\ cut = {} /\ Stalled(s)
  /\ Writable(s) => worker[s].last_loop >= Dead /\ Waits(c, s)

Succession(s, c) ==
  /\ \A i \in 1 .. Len(log) : log[i].primary \in {s, c}
  /\ \A i, j \in 1 .. Len(log) : i <= j /\ log[i].primary = c => log[j].primary = c
  /\ \A i \in 1 .. Len(pending) : pending[i].primary = c
  /\ pending = <<>> => log[Len(log)].primary = c
  /\ pending # <<>> => turn > leader

Standbys(s, c) ==
  /\ \A n \in Node \ {s} : ~in_recovery[n] => n = c /\ log[applied[c]].primary = c
  /\ rejoin \subseteq {s}
  /\ in_recovery[s] \/ s \in rejoin => log[applied[s]].primary = c

Out(s, c) == s \notin running \/ in_recovery[s] \/ Yields(s) \/ Overdue(s, c)

GivenUp(s, c) ==
  /\ c # s /\ N >= 3
  /\ OneOut(s) /\ Unharmed(s) /\ hung \subseteq {s}
  /\ leader \in Node \ {s} /\ settled
  /\ faults # 0 /\ faults >= MaxFaults
  /\ Succession(s, c) /\ Standbys(s, c) /\ Out(s, c)

(* The leader x was cut off and is back: it may have given up the primary  *)
(* s, which it did not hear and which never noticed. All nodes follow it,  *)
(* so that who passes has applied all that is decided, and nobody is more  *)
(* than a pass behind anybody.                                             *)
WindowAge(n) == worker[n].authorized_since
Holds(n) == ~in_recovery[n] /\ (~read_only[n] \/ worker[n].applied_read_only = "off")

Peace(s, x) ==
  /\ x # s /\ leader = x /\ settled /\ x \notin rejoin
  /\ running = Node /\ cut = {} /\ hung = {} /\ faults # 0 /\ faults >= MaxFaults
  /\ \A n \in Node : InTime(n) /\ ~worker[n].reconfirm_pending /\ worker[n].asking = {}
  /\ \A n, m \in Node : applied[m] >= applied[n] \/ Before(m, n)
  /\ \A n \in Node : ~in_recovery[n] /\ (Holds(n) \/ WindowAge(n) # Never) => log[applied[n]].primary = n
  /\ log[1].primary = s

(* Until its next pass x counts on contacts from before it was cut off:    *)
(* after at most one proposal it made then it may make another one.        *)
Doubted(s, x) ==
  /\ Peace(s, x) /\ in_recovery[x]
  /\ Len(log) + Len(pending) <= 2
  /\ \A i \in 2 .. Len(log) : log[i].primary # s
  /\ \A i \in 1 .. Len(pending) : pending[i].primary # s
  /\ \A n \in Node \ {s} : ~in_recovery[n] =>
       /\ ~Holds(n) /\ WindowAge(n) <= 0
       /\ turn > x => n < turn /\ WindowAge(n) = Never

(* Since that pass it proposes nothing: it hears all the others before its *)
(* next one.                                                               *)
Latest == IF pending = <<>> THEN log[Len(log)] ELSE pending[Len(pending)]

Told(s, x) ==
  /\ Peace(s, x)
  /\ Len(log) + Len(pending) <= 3
  /\ \A i \in 2 .. Len(log) : log[i].primary = s => i = 3
  /\ \A i \in 1 .. Len(pending) : pending[i].primary = s => Len(log) + i = 3
  /\ pending # <<>> => turn > x
  /\ \A n \in Node \ {x} : n \in inbox[x] \/ Before(n, x)
  /\ ~in_recovery[x] => Latest.primary = x
  /\ \A n \in Node \ {s} : Holds(n) => pending = <<>> /\ log[Len(log)].primary = n /\ ~Holds(s)
  /\ pending # <<>> => \A n \in Node \ {s} : ~in_recovery[n] => WindowAge(n) <= 0

Safe(s) ==
  \/ \E x \in Node : Steady(s, x) \/ Hanging(s, x) \/ Doubted(s, x) \/ Told(s, x)
  \/ \E c \in Node : GivenUp(s, c)

TimedInv == Aged /\ (covered => \E s \in Node : Safe(s))

-----------------------------------------------------------------------------
(* Majorities of 1 .. N.                                                   *)
LEMMA Counts ==
  /\ N \in Nat /\ N >= 1 /\ Majority \in Nat /\ Majority >= 1 /\ N >= Majority
  /\ N >= 2 => Majority >= 2
  /\ N >= 3 => N - 1 >= Majority
  /\ N < 3 => N - 1 < Majority
  /\ {Lease, Confirm, Dead, Stall, WdStale, Retry} \subseteq Nat \ {0}
  /\ IsFiniteSet(Node) /\ Cardinality(Node) = N
<1>a. N \in Nat /\ N >= 1 /\ {Lease, Confirm, Dead, Stall, WdStale, Retry} \subseteq Nat \ {0}
  BY FailoverAssumption DEF FailoverAssumption
<1>b. /\ Majority \in Nat /\ Majority >= 1 /\ N >= Majority
      /\ N >= 2 => Majority >= 2
      /\ N >= 3 => N - 1 >= Majority
      /\ N < 3 => N - 1 < Majority
  BY <1>a DEF Majority
<1>c. IsFiniteSet(1 .. N) /\ Cardinality(1 .. N) = N
  <2>a. IsFiniteSet(1 .. N) /\ Cardinality(1 .. N) = IF 1 > N THEN 0 ELSE N - 1 + 1
    <3>a. 1 \in Int /\ N \in Int  BY <1>a
    <3>q. QED  BY <3>a, FS_Interval, Zenon
  <2>q. QED  BY <1>a, <2>a
<1>q. QED  BY <1>a, <1>b, <1>c DEF Node

(* All nodes but one are a majority of three or more; one node is not.     *)
LEMMA Enough ==
  ASSUME NEW x \in Node, NEW S \in SUBSET Node, Node \ {x} \subseteq S, S = Node \/ N >= 3
  PROVE  Cardinality(S) >= Majority
<1>a. IsFiniteSet(Node) /\ Cardinality(Node) = N /\ N \in Nat /\ Majority \in Nat
  BY Counts
<1>b. CASE S = Node  BY <1>a, <1>b, Counts
<1>c. CASE N >= 3
  <2>a. IsFiniteSet(S) /\ Cardinality(S) \in Nat  BY <1>a, FS_Subset, FS_CardinalityType
  <2>b. Cardinality(Node \ {x}) = N - 1  BY <1>a, FS_RemoveElement
  <2>c. Cardinality(Node \ {x}) <= Cardinality(S)  BY <2>a, FS_Subset
  <2>q. QED  BY <1>a, <1>c, <2>a, <2>b, <2>c, Counts
<1>q. QED  BY <1>b, <1>c

LEMMA Alone ==
  ASSUME NEW x \in Node, NEW S, S \subseteq {x}, N >= 2
  PROVE  ~(Cardinality(S) >= Majority) /\ ~(1 + Cardinality(S \ {x}) >= Majority)
<1>a. Cardinality({x}) = 1 /\ IsFiniteSet({x}) /\ Cardinality({}) = 0  BY FS_Singleton, FS_EmptySet
<1>b. Cardinality(S) <= 1 /\ Cardinality(S) \in Nat  BY <1>a, FS_Subset, FS_CardinalityType
<1>c. S \ {x} = {}  OBVIOUS
<1>q. QED  BY <1>a, <1>b, <1>c, Counts

LEMMA Without ==
  ASSUME NEW s \in Node, NEW S \in SUBSET (Node \ {s}), Cardinality(S) >= Majority
  PROVE  N >= 3
<1>a. IsFiniteSet(Node) /\ Cardinality(Node) = N /\ N \in Nat /\ Majority \in Nat
  BY Counts
<1>b. IsFiniteSet(Node \ {s}) /\ Cardinality(Node \ {s}) = N - 1  BY <1>a, FS_RemoveElement
<1>c. IsFiniteSet(S) /\ Cardinality(S) \in Nat /\ Cardinality(S) <= N - 1
  BY <1>b, FS_Subset, FS_CardinalityType
<1>q. QED  BY <1>a, <1>c, Counts

-----------------------------------------------------------------------------
(* What a pass and a tick change, field by field.                          *)
LEMMA PassChanges ==
  ASSUME FollowInv, inbox \in [Node -> SUBSET Node], NEW n \in Node, NEW c \in 0 .. N, Pass(n, c)
  PROVE  /\ turn = n /\ turn' = n + 1 /\ n \in running /\ n \notin hung /\ c \in Choices(n)
         /\ \A m \in Node : applied'[m] = IF m = n THEN Applied(n) ELSE applied[m]
         /\ \A m \in Node : inbox'[m] = IF m = n THEN {} ELSE
                                        IF m \in Reach(n) THEN inbox[m] \cup {n} ELSE inbox[m]
         /\ inbox' \in [Node -> SUBSET Node]
         /\ \A m \in Node \ {n} : worker'[m] = worker[m]
         /\ worker'[n].decided = Decided(n) /\ worker'[n].heard = Ages(n)
         /\ worker'[n].asking = Asking(n) /\ worker'[n].reconfirm_pending = Reconfirm(n)
         /\ worker'[n].applied_read_only =
              IF in_recovery[n] THEN "none" ELSE IF Authorized(n) THEN "off" ELSE "on"
         /\ worker'[n].authorized_since = NewSince(n) /\ worker'[n].last_loop = 0
         /\ worker'[n].last_proposed = LastProposed(n, c)
         /\ pending' = IF c # 0 /\ n = leader THEN Append(pending, NextDecision(n, c)) ELSE pending
         /\ \A m \in Node : read_only'[m] = IF m = n THEN ReadOnlyAfter(n) ELSE read_only[m]
         /\ \A m \in Node : in_recovery'[m] = IF m = n THEN in_recovery[n] /\ ~Promotes(n)
                                                       ELSE in_recovery[m]
         /\ rejoin' = IF Rejoins(n) THEN rejoin \cup {n} ELSE rejoin
         /\ UNCHANGED <<running, hung, cut, faults, covered, leader, settled, believers,
                        holders, log>>
<1>i. History /\ Adopted /\ Roles  BY DEF FollowInv
<1>a. /\ turn = n /\ turn' = n + 1 /\ n \in running /\ n \notin hung /\ c \in Choices(n)
      /\ pending' = IF c # 0 /\ n = leader THEN Append(pending, NextDecision(n, c)) ELSE pending
      /\ rejoin' = IF Rejoins(n) THEN rejoin \cup {n} ELSE rejoin
      /\ UNCHANGED <<running, hung, cut, faults, covered, leader, settled, believers,
                     holders, log>>
  BY DEF Pass, Busy, network
<1>b. \A m \in Node : applied'[m] = IF m = n THEN Applied(n) ELSE applied[m]
  BY <1>i DEF Pass, History
<1>c. /\ \A m \in Node : inbox'[m] = IF m = n THEN {} ELSE
                                     IF m \in Reach(n) THEN inbox[m] \cup {n} ELSE inbox[m]
      /\ inbox' \in [Node -> SUBSET Node]
  BY DEF Pass
<1>d. worker' = [m \in Node |-> IF m = n THEN Remember(n, c) ELSE worker[m]]
  BY <1>i DEF Pass, Adopted
<1>e. /\ \A m \in Node \ {n} : worker'[m] = worker[m]
      /\ worker'[n] = Remember(n, c)
  BY <1>d
<1>f. /\ worker'[n].decided = Decided(n) /\ worker'[n].heard = Ages(n)
      /\ worker'[n].asking = Asking(n) /\ worker'[n].reconfirm_pending = Reconfirm(n)
      /\ worker'[n].applied_read_only =
           IF in_recovery[n] THEN "none" ELSE IF Authorized(n) THEN "off" ELSE "on"
      /\ worker'[n].authorized_since = NewSince(n) /\ worker'[n].last_loop = 0
      /\ worker'[n].last_proposed = LastProposed(n, c)
  BY <1>e DEF Remember, LastProposed
<1>g. \A m \in Node : read_only'[m] = IF m = n THEN ReadOnlyAfter(n) ELSE read_only[m]
  BY <1>i DEF Pass, Roles
<1>h. \A m \in Node : in_recovery'[m] = IF m = n THEN in_recovery[n] /\ ~Promotes(n) ELSE in_recovery[m]
  BY <1>i DEF Pass, Roles
<1>q. QED  BY <1>a, <1>b, <1>c, <1>e, <1>f, <1>g, <1>h

LEMMA TickChanges ==
  ASSUME FollowInv, Aged, Tick
  PROVE  /\ turn = N + 1 /\ turn' = 1 /\ ~CanCommit
         /\ \A n \in Node : ~(Writable(n) /\ worker[n].last_loop >= WdStale)
         /\ settled \/ ~HasQuorum(leader)
         /\ holders' = IF Serving THEN holders \cup Reach(leader) ELSE holders
         /\ \A n \in Node :
              /\ worker'[n].heard = [m \in Node |-> Older(worker[n].heard[m], Dead)]
              /\ worker'[n].authorized_since = Older(worker[n].authorized_since, Confirm)
              /\ worker'[n].last_loop = Older(worker[n].last_loop, WdStale)
              /\ worker'[n].last_proposed =
                   [seq |-> worker[n].last_proposed.seq, age |-> Older(worker[n].last_proposed.age, Retry)]
              /\ worker'[n].decided = worker[n].decided /\ worker'[n].asking = worker[n].asking
              /\ worker'[n].reconfirm_pending = worker[n].reconfirm_pending
              /\ worker'[n].applied_read_only = worker[n].applied_read_only
         /\ UNCHANGED <<running, hung, cut, faults, covered, leader, settled, pending, log, applied,
                        inbox, in_recovery, read_only, rejoin>>
<1>i. Adopted  BY DEF FollowInv
<1>a. /\ turn = N + 1 /\ turn' = 1 /\ ~CanCommit
      /\ \A n \in Node : ~(Writable(n) /\ worker[n].last_loop >= WdStale)
      /\ settled \/ ~HasQuorum(leader)
      /\ holders' = IF Serving THEN holders \cup Reach(leader) ELSE holders
      /\ UNCHANGED <<running, hung, cut, faults, covered, leader, settled, pending, log, applied,
                     inbox, in_recovery, read_only, rejoin>>
  BY DEF Tick, network, postgres
<1>b. ASSUME NEW n \in Node
      PROVE  /\ worker'[n].heard = [m \in Node |-> Older(worker[n].heard[m], Dead)]
             /\ worker'[n].authorized_since = Older(worker[n].authorized_since, Confirm)
             /\ worker'[n].last_loop = Older(worker[n].last_loop, WdStale)
             /\ worker'[n].last_proposed =
                  [seq |-> worker[n].last_proposed.seq, age |-> Older(worker[n].last_proposed.age, Retry)]
             /\ worker'[n].decided = worker[n].decided /\ worker'[n].asking = worker[n].asking
             /\ worker'[n].reconfirm_pending = worker[n].reconfirm_pending
             /\ worker'[n].applied_read_only = worker[n].applied_read_only
  <2>a. Shape(worker[n])  BY <1>i DEF Adopted
  <2>b. worker'[n] = [worker[n] EXCEPT !.heard = [m \in Node |-> Older(@[m], Dead)],
                                       !.authorized_since = Older(@, Confirm),
                                       !.last_proposed.age = Older(@, Retry),
                                       !.last_loop = Older(@, WdStale)]
    BY DEF Tick
  <2>c. worker[n].last_proposed \in [seq : Nat, age : 0 .. Retry]  BY DEF Aged, Memory
  <2>d. [worker[n].last_proposed EXCEPT !.age = Older(@, Retry)] =
          [seq |-> worker[n].last_proposed.seq, age |-> Older(worker[n].last_proposed.age, Retry)]
    BY <2>c
  <2>q. QED  BY <2>a, <2>b, <2>d DEF Shape
<1>q. QED  BY <1>a, <1>b

(* A worker that starts over has heard from nobody.                        *)
LEMMA StartedMemory ==
  ASSUME NEW d
  PROVE  /\ Memory(Started(d)) /\ Started(d).decided = d
         /\ Started(d).applied_read_only = "none"
<1>a. /\ Started(d).heard = [m \in Node |-> Dead] /\ Started(d).last_loop = 0
      /\ Started(d).authorized_since = Never /\ Started(d).decided = d
      /\ Started(d).applied_read_only = "none"
      /\ Started(d).last_proposed = [seq |-> 0, age |-> 0]
  BY DEF Started, NoProposal
<1>q. QED  BY <1>a, Counts DEF Memory, Never

(* A contact's age at a pass, and the ages that a tick advances.           *)
LEMMA AgesAre ==
  ASSUME Aged, NEW n \in Node
  PROVE  /\ Ages(n) \in [Node -> 0 .. Dead]
         /\ \A m \in Node : Ages(n)[m] = IF m \in inbox[n] THEN 0 ELSE worker[n].heard[m]
<1>a. worker[n].heard \in [Node -> 0 .. Dead] /\ Dead \in Nat  BY Counts DEF Aged, Memory
<1>q. QED  BY <1>a DEF Ages

LEMMA OlderIs ==
  ASSUME NEW cap \in Nat, NEW age \in -1 .. cap
  PROVE  /\ Older(age, cap) \in -1 .. cap /\ (age = -1 <=> Older(age, cap) = -1)
         /\ age <= Older(age, cap) /\ Older(age, cap) <= age + 1
         /\ age # -1 /\ age < cap => Older(age, cap) = age + 1
         /\ age = cap => Older(age, cap) = cap
  BY DEF Older, Never

(* The last decision a node has applied is the one it goes by.             *)
LEMMA GoesBy ==
  ASSUME FollowInv, Aged, NEW n \in Node
  PROVE  /\ Applied(n) \in applied[n] .. Len(log) /\ Applied(n) \in 1 .. Len(log)
         /\ Decided(n) = log[Applied(n)] /\ Decided(n) # NoDecision
         /\ Decided(n) \in Decision
         /\ Len(log) \in Nat /\ applied[n] \in 1 .. Len(log)
<1>i. History /\ Adopted  BY DEF FollowInv
<1>a. Len(log) \in Nat /\ applied[n] \in 0 .. Len(log) /\ applied[n] >= 1
  BY <1>i DEF History, Aged
<1>b. Applied(n) \in applied[n] .. Len(log)  BY <1>a DEF Applied
<1>c. Applied(n) \in 0 .. Len(log) /\ Applied(n) \in 1 .. Len(log) /\ Applied(n) # 0  BY <1>a, <1>b
<1>d. Published(n) = log[Applied(n)] /\ Published(n) # NoDecision /\ Published(n) \in Decision
  BY <1>i, <1>c, DecisionIs DEF Published
<1>e. Decided(n) = Published(n)  BY <1>d DEF Decided, Adopts
<1>q. QED  BY <1>a, <1>b, <1>c, <1>d, <1>e

-----------------------------------------------------------------------------
(* Steps that leave the memories of the workers, or all but one, alone.    *)
LEMMA AgedSame ==
  ASSUME Aged, UNCHANGED <<worker, log, applied, read_only>>,
         turn' \in 1 .. N + 1, inbox' \in [Node -> SUBSET Node],
         leader' \in 0 .. N, faults' \in Nat
  PROVE  Aged'
  BY DEF Aged, Memory

LEMMA AgedStartsOver ==
  ASSUME FollowInv, Aged, NEW n \in Node,
         worker' = [worker EXCEPT ![n] = Started(DecisionAt(applied[n]))],
         \A m \in Node \ {n} : read_only'[m] = read_only[m],
         UNCHANGED <<turn, log, applied>>,
         inbox' \in [Node -> SUBSET Node], leader' \in 0 .. N, faults' \in Nat
  PROVE  Aged'
<1>a. worker' = [m \in Node |-> IF m = n THEN Started(DecisionAt(applied[n])) ELSE worker[m]]
  BY DEF FollowInv, Adopted
<1>b. applied[n] \in 1 .. Len(log) /\ Len(log) \in Nat  BY GoesBy
<1>c. DecisionAt(applied[n]) = log[applied[n]]  BY <1>b DEF DecisionAt
<1>d. /\ Memory(worker'[n]) /\ worker'[n].decided = log[applied[n]]
      /\ worker'[n].applied_read_only = "none"
  BY <1>a, <1>c, StartedMemory
<1>e. \A m \in Node \ {n} : worker'[m] = worker[m]  BY <1>a
<1>f. ASSUME NEW m \in Node
      PROVE  /\ Memory(worker'[m]) /\ applied'[m] >= 1 /\ worker'[m].decided = log'[applied'[m]]
             /\ worker'[m].applied_read_only = "on" => read_only'[m]
  <2>a. CASE m = n  BY <1>d, <2>a DEF Aged
  <2>b. CASE m # n  BY <1>e, <2>b DEF Aged
  <2>q. QED  BY <2>a, <2>b
<1>g. Aged' <=> /\ turn' \in 1 .. N + 1 /\ inbox' \in [Node -> SUBSET Node]
                /\ leader' \in 0 .. N /\ faults' \in Nat
                /\ \A m \in Node :
                     /\ Memory(worker'[m]) /\ applied'[m] >= 1 /\ worker'[m].decided = log'[applied'[m]]
                     /\ worker'[m].applied_read_only = "on" => read_only'[m]
  BY DEF Aged, Memory
<1>q. QED  BY <1>f, <1>g DEF Aged

(* The window of authority after a pass.                                   *)
LEMMA SinceIs ==
  ASSUME Aged, NEW n \in Node
  PROVE  /\ NewSince(n) \in -1 .. Confirm
         /\ ~RawAuth(n) \/ in_recovery[n] => NewSince(n) = Never
         /\ ~Immediate(n) => NewSince(n) <= 0 \/ NewSince(n) = worker[n].authorized_since
<1>a. worker[n].authorized_since \in -1 .. Confirm /\ Confirm \in Nat /\ Confirm >= 1
  BY Counts DEF Aged, Memory
<1>b. Since(n) \in -1 .. Confirm /\ Since(n) \in {Never, worker[n].authorized_since}
  BY <1>a DEF Since, Never
<1>q. QED  BY <1>a, <1>b DEF NewSince, Never

LEMMA PassAged ==
  ASSUME FollowInv, Aged, NEW n \in Node, NEW c \in 0 .. N, Pass(n, c)
  PROVE  Aged'
<1>i. inbox \in [Node -> SUBSET Node] /\ turn \in 1 .. N + 1  BY DEF Aged
<1>c. /\ turn' = n + 1 /\ inbox' \in [Node -> SUBSET Node]
      /\ UNCHANGED <<leader, faults, log>>
  BY <1>i, PassChanges
<1>t. turn' \in 1 .. N + 1  BY <1>c, Counts DEF Node
<1>n. /\ Memory(worker'[n]) /\ applied'[n] >= 1 /\ worker'[n].decided = log'[applied'[n]]
      /\ worker'[n].applied_read_only = "on" => read_only'[n]
  <2>a. /\ worker'[n].decided = Decided(n) /\ worker'[n].heard = Ages(n)
        /\ worker'[n].applied_read_only =
             IF in_recovery[n] THEN "none" ELSE IF Authorized(n) THEN "off" ELSE "on"
        /\ worker'[n].authorized_since = NewSince(n) /\ worker'[n].last_loop = 0
        /\ worker'[n].last_proposed = LastProposed(n, c)
        /\ applied'[n] = Applied(n) /\ read_only'[n] = ReadOnlyAfter(n)
    BY <1>i, PassChanges
  <2>b. Applied(n) \in 1 .. Len(log) /\ Decided(n) = log[Applied(n)] /\ Len(log) \in Nat  BY GoesBy
  <2>c. Memory(worker'[n])
    <3>a. Ages(n) \in [Node -> 0 .. Dead] /\ NewSince(n) \in -1 .. Confirm  BY AgesAre, SinceIs
    <3>b. WdStale \in Nat /\ Retry \in Nat  BY Counts
    <3>c. LastProposed(n, c) \in [seq : Nat, age : 0 .. Retry]
      <4>a. worker[n].last_proposed \in [seq : Nat, age : 0 .. Retry]  BY DEF Aged, Memory
      <4>b. Decided(n).seq + 1 \in Nat  BY GoesBy DEF Decision
      <4>c. NextDecision(n, c).seq \in Nat  BY <4>b DEF NextDecision
      <4>q. QED  BY <4>a, <4>c, <3>b DEF LastProposed, NoProposal
    <3>q. QED  BY <2>a, <3>a, <3>b, <3>c DEF Memory
  <2>d. ASSUME worker'[n].applied_read_only = "on" PROVE read_only'[n]
    <3>a. ~in_recovery[n] /\ ~Authorized(n)  BY <2>a, <2>d
    <3>b. ~Promotes(n)  BY <3>a DEF Promotes
    <3>d. BeliefRo(n) = "on" => read_only[n]  BY DEF BeliefRo, Aged
    <3>q. QED  BY <2>a, <3>a, <3>b, <3>d DEF ReadOnlyAfter
  <2>q. QED  BY <1>c, <2>a, <2>b, <2>c, <2>d
<1>m. ASSUME NEW m \in Node \ {n}
      PROVE  /\ Memory(worker'[m]) /\ applied'[m] >= 1 /\ worker'[m].decided = log'[applied'[m]]
             /\ worker'[m].applied_read_only = "on" => read_only'[m]
  <2>a. worker'[m] = worker[m] /\ applied'[m] = applied[m] /\ read_only'[m] = read_only[m]
    BY <1>i, PassChanges
  <2>q. QED  BY <1>c, <2>a DEF Aged
<1>q. QED  BY <1>c, <1>t, <1>n, <1>m DEF Aged, Memory

LEMMA TickAged ==
  ASSUME FollowInv, Aged, Tick
  PROVE  Aged'
<1>a. /\ turn' = 1
      /\ UNCHANGED <<inbox, leader, faults, log, applied, read_only>>
  BY TickChanges
<1>b. turn' \in 1 .. N + 1  BY <1>a, Counts DEF Aged
<1>c. ASSUME NEW n \in Node
      PROVE  /\ Memory(worker'[n]) /\ worker'[n].decided = worker[n].decided
             /\ worker'[n].applied_read_only = worker[n].applied_read_only
  <2>a. Memory(worker[n]) /\ Dead \in Nat /\ WdStale \in Nat /\ Confirm \in Nat  BY Counts DEF Aged
  <2>b. /\ worker'[n].heard = [m \in Node |-> Older(worker[n].heard[m], Dead)]
        /\ worker'[n].authorized_since = Older(worker[n].authorized_since, Confirm)
        /\ worker'[n].last_loop = Older(worker[n].last_loop, WdStale)
        /\ worker'[n].decided = worker[n].decided
        /\ worker'[n].applied_read_only = worker[n].applied_read_only
    BY TickChanges
  <2>c. \A m \in Node : Older(worker[n].heard[m], Dead) \in 0 .. Dead
    BY <2>a DEF Memory, Older, Never
  <2>d. Older(worker[n].last_loop, WdStale) \in 0 .. WdStale  BY <2>a DEF Memory, Older, Never
  <2>e. Older(worker[n].authorized_since, Confirm) \in -1 .. Confirm  BY <2>a DEF Memory, Older, Never
  <2>f. worker'[n].last_proposed \in [seq : Nat, age : 0 .. Retry]
    <3>a. worker[n].last_proposed \in [seq : Nat, age : 0 .. Retry] /\ Retry \in Nat
      BY <2>a, Counts DEF Memory
    <3>b. worker'[n].last_proposed =
            [seq |-> worker[n].last_proposed.seq, age |-> Older(worker[n].last_proposed.age, Retry)]
      BY TickChanges
    <3>q. QED  BY <3>a, <3>b DEF Older, Never
  <2>q. QED  BY <2>b, <2>c, <2>d, <2>e, <2>f DEF Memory
<1>q. QED  BY <1>a, <1>b, <1>c DEF Aged, Memory

LEMMA CommitAged ==
  ASSUME FollowInv, Aged, Commit
  PROVE  Aged'
<1>a. /\ pending # <<>> /\ log' = Append(log, Head(pending))
      /\ UNCHANGED <<turn, worker, applied, read_only, inbox, leader, faults>>
  BY DEF Commit, CanCommit, network, memory, postgres
<1>b. log \in Seq(Decision) /\ Head(pending) \in Decision  BY <1>a DEF FollowInv, History
<1>c. ASSUME NEW n \in Node PROVE log'[applied[n]] = log[applied[n]]
  <2>a. applied[n] \in 1 .. Len(log)  BY GoesBy
  <2>q. QED  BY <1>a, <1>b, <2>a
<1>q. QED  BY <1>a, <1>c DEF Aged, Memory

LEMMA StepAged == FollowInv /\ Aged /\ [Next]_vars => Aged'
<1> SUFFICES ASSUME FollowInv, Aged, [Next]_vars PROVE Aged'  OBVIOUS
<1>t. /\ turn \in 1 .. N + 1 /\ inbox \in [Node -> SUBSET Node]
      /\ leader \in 0 .. N /\ faults \in Nat /\ N \in Nat
  BY Counts DEF Aged
<1>u. CASE UNCHANGED vars
  BY <1>t, <1>u, AgedSame DEF vars, network, raft, memory, postgres
<1>a. ASSUME NEW n \in Node, Skip(n) \/ Isolate(n) \/ Hang(n) \/ Wake(n) PROVE Aged'
  <2>a. /\ UNCHANGED <<worker, log, applied, read_only, inbox, leader>>
        /\ turn' \in {turn, n + 1} /\ faults' \in {faults, faults + 1}
    BY <1>a DEF Skip, Isolate, Hang, Wake, network, raft, memory, postgres
  <2>b. turn' \in 1 .. N + 1 /\ faults' \in Nat  BY <1>t, <2>a DEF Node
  <2>q. QED  BY <1>t, <2>a, <2>b, AgedSame
<1>b. CASE Settle \/ Heal
  <2>a. UNCHANGED <<worker, log, applied, read_only, inbox, leader, turn, faults>>
    BY <1>b DEF Settle, Heal, network, raft, memory, postgres
  <2>q. QED  BY <1>t, <2>a, AgedSame
<1>e. ASSUME NEW n \in Node, Elect(n) PROVE Aged'
  <2>a. /\ UNCHANGED <<worker, log, applied, read_only, inbox, turn>>
        /\ leader' = n /\ faults' \in {faults, faults + 1}
    BY <1>e DEF Elect, memory, postgres
  <2>b. leader' \in 0 .. N /\ faults' \in Nat  BY <1>t, <2>a DEF Node
  <2>q. QED  BY <1>t, <2>a, <2>b, AgedSame
<1>c. ASSUME NEW n \in Node, Crash(n) PROVE Aged'
  <2>a. /\ UNCHANGED <<worker, log, applied, read_only, turn>>
        /\ leader' \in {0, leader} /\ faults' = faults + 1 /\ inbox' = [inbox EXCEPT ![n] = {}]
    BY <1>c DEF Crash, StopsLeading
  <2>b. leader' \in 0 .. N /\ faults' \in Nat /\ inbox' \in [Node -> SUBSET Node]  BY <1>t, <2>a
  <2>q. QED  BY <1>t, <2>a, <2>b, AgedSame
<1>l. ASSUME NEW n \in Node, NEW m \in Node, CutLink(n, m) PROVE Aged'
  <2>a. /\ UNCHANGED <<worker, log, applied, read_only, inbox, leader, turn>>
        /\ faults' = faults + 1
    BY <1>l DEF CutLink, raft, memory, postgres
  <2>b. faults' \in Nat  BY <1>t, <2>a
  <2>q. QED  BY <1>t, <2>a, <2>b, AgedSame
<1>w. ASSUME NEW n \in Node, Watchdog(n) PROVE Aged'
  <2>a. /\ UNCHANGED <<worker, log, applied, inbox, leader, turn, faults>>
        /\ read_only' = [read_only EXCEPT ![n] = TRUE]
    BY <1>w DEF Watchdog, network, raft, memory
  <2>b. \A m \in Node : read_only[m] => read_only'[m]  BY <2>a DEF FollowInv, Roles
  <2>q. QED  BY <2>a, <2>b DEF Aged, Memory
<1>r. ASSUME NEW n \in Node, Rejoin(n) \/ Restart(n) PROVE Aged'
  <2>a. /\ worker' = [worker EXCEPT ![n] = Started(DecisionAt(applied[n]))]
        /\ read_only' = read_only \/ read_only' = [read_only EXCEPT ![n] = FALSE]
        /\ UNCHANGED <<turn, log, applied, faults>>
        /\ inbox' = inbox \/ inbox' = [inbox EXCEPT ![n] = {}]
        /\ leader' \in {0, leader}
    BY <1>r DEF Rejoin, Restart, StopsLeading, raft, postgres
  <2>b. inbox' \in [Node -> SUBSET Node] /\ leader' \in 0 .. N  BY <1>t, <2>a
  <2>c. \A m \in Node \ {n} : read_only'[m] = read_only[m]  BY <2>a DEF FollowInv, Roles
  <2>q. QED  BY <1>t, <2>a, <2>b, <2>c, AgedStartsOver
<1>q. QED
  BY <1>u, <1>a, <1>b, <1>e, <1>c, <1>l, <1>w, <1>r, PassAged, TickAged, CommitAged
  DEF Next, RaftStep, Fault

-----------------------------------------------------------------------------
(* Who reaches whom when nothing or one node x is out of reach.            *)
LEMMA Reaches ==
  ASSUME NEW x \in Node, OneOut(x)
  PROVE  /\ cut = {} => \A n \in Node : Reach(n) = running
         /\ cut # {} => Reach(x) = {x} /\ \A n \in Node \ {x} : Reach(n) = Node \ {x}
         /\ \A n \in Node \ {x} : Node \ {x} \subseteq Reach(n) /\ Reach(n) \subseteq Node
         /\ cut # {} => N >= 2
<1>a. ASSUME cut = {}, NEW n \in Node PROVE Reach(n) = running
  BY <1>a DEF Reach, Linked
<1>b. ASSUME cut # {} PROVE Reach(x) = {x} /\ \A n \in Node \ {x} : Reach(n) = Node \ {x}
  <2>a. cut = Star(x) /\ running = Node  BY <1>b DEF OneOut
  <2>b. ASSUME NEW m \in Node \ {x} PROVE ~Linked(x, m) /\ ~Linked(m, x)
    <3>a. {x, m} \in Star(x) /\ {m, x} = {x, m}  BY DEF Star
    <3>q. QED  BY <2>a, <3>a DEF Linked
  <2>c. ASSUME NEW n \in Node \ {x}, NEW m \in Node \ {x} PROVE Linked(n, m)
    <3>a. ASSUME NEW k \in Node \ {x}, {n, m} = {x, k} PROVE FALSE  BY <3>a
    <3>q. QED  BY <2>a, <3>a DEF Linked, Star
  <2>d. Reach(x) = {x}  BY <2>a, <2>b DEF Reach
  <2>e. ASSUME NEW n \in Node \ {x} PROVE Reach(n) = Node \ {x}  BY <2>a, <2>b, <2>c DEF Reach
  <2>q. QED  BY <2>d, <2>e
<1>c. ASSUME cut # {} PROVE N >= 2
  <2>a. PICK m \in Node : m # x  BY <1>c DEF OneOut, Star
  <2>q. QED  BY <2>a, Counts DEF Node
<1>d. running \subseteq Node /\ Node \ {x} \subseteq running  BY DEF OneOut
<1>e. ASSUME NEW n \in Node \ {x} PROVE Node \ {x} \subseteq Reach(n) /\ Reach(n) \subseteq Node
  BY <1>a, <1>b, <1>d
<1>q. QED  BY <1>a, <1>b, <1>c, <1>e

(* Elections: a leader that is reached is not voted out.                   *)
LEMMA Elections ==
  ASSUME NEW x \in Node, OneOut(x)
  PROVE  /\ N >= 3 /\ leader \in Node \ {x} => HasQuorum(leader)
         /\ running = Node /\ cut = {} /\ leader \in Node => HasQuorum(leader)
         /\ cut # {} => ~HasQuorum(x)
         /\ \A w \in Node : Wins(w) /\ leader \in running => cut # {} /\ leader = x /\ w # x
<1>r. /\ cut = {} => \A n \in Node : Reach(n) = running
      /\ cut # {} => Reach(x) = {x} /\ \A n \in Node \ {x} : Reach(n) = Node \ {x}
      /\ \A n \in Node \ {x} : Node \ {x} \subseteq Reach(n) /\ Reach(n) \subseteq Node
      /\ cut # {} => N >= 2
  BY Reaches
<1>o. running \subseteq Node /\ Node \ {x} \subseteq running /\ (cut # {} => running = Node)
  BY DEF OneOut
<1>a. ASSUME N >= 3, NEW n \in Node \ {x} PROVE HasQuorum(n)
  <2>a. Cardinality(Reach(n)) >= Majority  BY <1>a, <1>r, Enough
  <2>q. QED  BY <1>o, <2>a DEF HasQuorum
<1>b. ASSUME running = Node, cut = {}, leader \in Node PROVE HasQuorum(leader)
  <2>a. Reach(leader) = Node  BY <1>b, <1>r
  <2>b. Cardinality(Node) >= Majority  BY Counts
  <2>q. QED  BY <1>b, <2>a, <2>b DEF HasQuorum
<1>c. ASSUME cut # {} PROVE ~HasQuorum(x)  BY <1>c, <1>r, Alone DEF HasQuorum
<1>d. ASSUME NEW w \in Node, Wins(w), leader \in running PROVE cut # {} /\ leader = x /\ w # x
  <2>a. w # leader /\ HasQuorum(w) /\ leader \notin Reach(w)  BY <1>d DEF Wins, Eligible, Free
  <2>b. cut # {}  BY <1>d, <1>r, <2>a
  <2>c. w # x  BY <1>c, <2>a, <2>b
  <2>d. leader = x  BY <1>d, <1>r, <1>o, <2>a, <2>b, <2>c
  <2>q. QED  BY <2>b, <2>c, <2>d
<1>q. QED  BY <1>a, <1>b, <1>c, <1>d

-----------------------------------------------------------------------------
(* Contacts between nodes that the fault does not touch stay in time.      *)
LEMMA InTimePass ==
  ASSUME FollowInv, Aged, NEW n \in Node, NEW c \in 0 .. N, Pass(n, c), NEW m \in Node, m = n \/ InTime(m)
  PROVE  InTime(m)'
<1>a. /\ turn = n /\ turn' = n + 1 /\ worker'[n].last_loop = 0
      /\ m # n => worker'[m] = worker[m]
  BY PassChanges DEF Aged
<1>b. n \in Int /\ m \in Int  BY Counts DEF Node
<1>c. CASE m = n  BY <1>a, <1>b, <1>c DEF InTime
<1>d. CASE m # n
  <2>a. turn' > m <=> turn > m  BY <1>a, <1>b, <1>d
  <2>q. QED  BY <1>a, <1>d, <2>a DEF InTime
<1>q. QED  BY <1>c, <1>d

LEMMA HearsPass ==
  ASSUME FollowInv, Aged, NEW n \in Node, NEW c \in 0 .. N, Pass(n, c),
         NEW m \in Node, NEW k \in Node, m # k, Hears(m, k), k = n => m \in Reach(n)
  PROVE  Hears(m, k)'
<1>a. /\ \A i \in Node : inbox'[i] = IF i = n THEN {} ELSE
                                     IF i \in Reach(n) THEN inbox[i] \cup {n} ELSE inbox[i]
      /\ \A i \in Node \ {n} : worker'[i] = worker[i]
      /\ worker'[n].heard = Ages(n)
  BY PassChanges DEF Aged
<1>t. worker[k].last_loop \in 0 .. WdStale /\ WdStale \in Nat  BY Counts DEF Aged, Memory
<1>b. CASE m = n
  <2>a. worker'[m].heard[k] = IF k \in inbox[m] THEN 0 ELSE worker[m].heard[k]
    BY <1>a, <1>b, AgesAre
  <2>b. worker'[k] = worker[k]  BY <1>a, <1>b
  <2>q. QED  BY <1>t, <2>a, <2>b DEF Hears
<1>c. CASE m # n /\ k = n  BY <1>a, <1>c DEF Hears
<1>d. CASE m # n /\ k # n  BY <1>a, <1>d DEF Hears
<1>q. QED  BY <1>b, <1>c, <1>d

LEMMA InTimeTick ==
  ASSUME FollowInv, Aged, Tick, WdStale >= 2, NEW n \in Node, InTime(n)
  PROVE  InTime(n)' /\ worker[n].last_loop = 0 /\ worker'[n].last_loop = 1
<1>a. /\ turn = N + 1 /\ turn' = 1 /\ worker'[n].last_loop = Older(worker[n].last_loop, WdStale)
  BY TickChanges
<1>b. worker[n].last_loop \in 0 .. WdStale /\ n \in 1 .. N /\ N \in Nat /\ WdStale \in Nat
  BY Counts DEF Aged, Memory, Node
<1>c. worker[n].last_loop = 0  BY <1>a, <1>b DEF InTime
<1>d. worker'[n].last_loop = 1  BY <1>a, <1>b, <1>c DEF Older, Never
<1>q. QED  BY <1>a, <1>b, <1>c, <1>d DEF InTime

LEMMA HearsTick ==
  ASSUME FollowInv, Aged, Tick, NEW n \in Node, NEW m \in Node, Hears(n, m), worker[m].last_loop < WdStale
  PROVE  Hears(n, m)'
<1>a. /\ worker'[n].heard[m] = Older(worker[n].heard[m], Dead)
      /\ worker'[m].last_loop = Older(worker[m].last_loop, WdStale)
      /\ inbox' = inbox
  BY TickChanges
<1>b. /\ worker[n].heard[m] \in 0 .. Dead /\ worker[m].last_loop \in 0 .. WdStale
      /\ Dead \in Nat /\ WdStale \in Nat
  BY Counts DEF Aged, Memory
<1>c. /\ worker'[n].heard[m] <= worker[n].heard[m] + 1 /\ worker'[m].last_loop = worker[m].last_loop + 1
      /\ worker'[n].heard[m] \in Int
  BY <1>a, <1>b DEF Older, Never
<1>q. QED  BY <1>a, <1>b, <1>c DEF Hears

LEMMA UnharmedPass ==
  ASSUME FollowInv, Aged, NEW x \in Node, OneOut(x), Unharmed(x), NEW n \in Node, NEW c \in 0 .. N, Pass(n, c)
  PROVE  Unharmed(x)'
<1>b. ASSUME NEW m \in Node \ {x} PROVE InTime(m)'  BY InTimePass DEF Unharmed
<1>c. ASSUME NEW m \in Node \ {x}, NEW k \in Node \ {x}, m # k PROVE Hears(m, k)'
  <2>a. Hears(m, k)  BY <1>c DEF Unharmed
  <2>b. m \in Reach(k)  BY Reaches
  <2>q. QED  BY <1>c, <2>a, <2>b, HearsPass
<1>q. QED  BY <1>b, <1>c DEF Unharmed

LEMMA UnharmedTick ==
  ASSUME FollowInv, Aged, Tick, WdStale >= 2, NEW x \in Node, Unharmed(x)
  PROVE  Unharmed(x)'
<1>b. ASSUME NEW m \in Node \ {x} PROVE InTime(m)' /\ worker[m].last_loop < WdStale
  <2>a. InTime(m)' /\ worker[m].last_loop = 0  BY InTimeTick DEF Unharmed
  <2>q. QED  BY <2>a, Counts
<1>c. ASSUME NEW m \in Node \ {x}, NEW k \in Node \ {x}, m # k PROVE Hears(m, k)'
  <2>a. Hears(m, k)  BY <1>c DEF Unharmed
  <2>q. QED  BY <1>b, <2>a, HearsTick
<1>q. QED  BY <1>b, <1>c DEF Unharmed

(* A node that is down or hangs is skipped.                                *)
LEMMA UnharmedSkip ==
  ASSUME NEW x \in Node, OneOut(x), Unharmed(x), hung \subseteq {x}, NEW n \in Node, Skip(n)
  PROVE  Unharmed(x)' /\ n = x /\ turn = n /\ turn' = n + 1
<1>a. /\ turn = n /\ turn' = n + 1 /\ ~Busy(n) /\ UNCHANGED <<running, worker, inbox>>
  BY DEF Skip, network, memory
<1>b. n = x  BY <1>a DEF Busy, OneOut
<1>c. ASSUME NEW m \in Node \ {x} PROVE InTime(m)'
  <2>a. m \in Int /\ n \in Int  BY Counts DEF Node
  <2>b. turn' > m <=> turn > m  BY <1>a, <1>b, <2>a
  <2>q. QED  BY <1>a, <2>b DEF InTime, Unharmed
<1>q. QED  BY <1>a, <1>b, <1>c DEF Unharmed, Hears

LEMMA UnharmedSame ==
  ASSUME NEW x \in Node, Unharmed(x), UNCHANGED turn,
         \A n \in Node \ {x} : worker'[n] = worker[n] /\ inbox'[n] = inbox[n]
  PROVE  Unharmed(x)'
  BY DEF Unharmed, InTime, Hears

-----------------------------------------------------------------------------
(* After s was given up. Its successor c is alive for the leader, which    *)
(* serves, so that nobody else is ever chosen.                             *)
LEMMA Serves1 ==
  ASSUME NEW s \in Node, NEW c \in Node, GivenUp(s, c)
  PROVE  /\ HasQuorum(leader) /\ Serving
         /\ \A n \in Node : n # s \/ (cut = {} /\ s \in running) => Applied(n) = Len(log)
<1>a. OneOut(s) /\ N >= 3 /\ leader \in Node \ {s} /\ settled  BY DEF GivenUp
<1>b. HasQuorum(leader) /\ Serving  BY <1>a, Elections DEF Serving
<1>c. /\ cut = {} => Reach(leader) = running
      /\ Node \ {s} \subseteq Reach(leader)
  BY <1>a, Reaches
<1>q. QED  BY <1>b, <1>c DEF Applied, Serves

LEMMA GivenUpPropose ==
  ASSUME FollowInv, Aged, Dead >= 2, NEW s \in Node, NEW c \in Node, GivenUp(s, c),
         NEW d \in 0 .. N, Pass(leader, d), d # 0
  PROVE  d = c /\ pending = <<>>
<1>g. c # s /\ leader \in Node \ {s} /\ Unharmed(s) /\ Succession(s, c)  BY DEF GivenUp
<1>p. turn = leader /\ d \in Choices(leader)  BY <1>g, PassChanges DEF Aged
<1>l. leader \in Int  BY <1>g, Counts DEF Node
<1>e. pending = <<>>  BY <1>g, <1>p, <1>l DEF Succession
<1>k. Decided(leader).primary = c /\ Decided(leader) # NoDecision
  <2>a. Applied(leader) = Len(log)  BY <1>g, Serves1
  <2>q. QED  BY <1>g, <1>e, <2>a, GoesBy DEF Succession
<1>v. c \in Live(leader)
  <2>a. CASE c = leader  BY <2>a DEF Live
  <2>b. CASE c # leader
    <3>a. Hears(leader, c) /\ InTime(c)  BY <1>g, <2>b DEF Unharmed
    <3>b. Ages(leader)[c] = IF c \in inbox[leader] THEN 0 ELSE worker[leader].heard[c]
      BY <1>g, AgesAre
    <3>c. worker[leader].heard[c] \in 0 .. Dead /\ worker[c].last_loop \in 0 .. WdStale
      BY <1>g DEF Aged, Memory
    <3>d. worker[c].last_loop <= 1  BY <3>a, <3>c, Counts DEF InTime
    <3>f. Ages(leader)[c] < Dead  BY <3>a, <3>b, <3>c, <3>d, Counts DEF Hears
    <3>q. QED  BY <3>f DEF Live
  <2>q. QED  BY <2>a, <2>b
<1>c. Candidates(leader) \subseteq {c}  BY <1>k, <1>v DEF Candidates
<1>q. QED  BY <1>p, <1>c, <1>e DEF Choices

(* The successor's decision is never followed by another node's.           *)
LEMMA Follows ==
  ASSUME FollowInv, Aged, NEW s \in Node, NEW c \in Node, Succession(s, c), NEW n \in Node,
         log[applied[n]].primary = c
  PROVE  Decided(n).primary = c /\ log[Applied(n)].primary = c
<1>a. /\ Applied(n) \in applied[n] .. Len(log) /\ Applied(n) \in 1 .. Len(log)
      /\ Decided(n) = log[Applied(n)] /\ Len(log) \in Nat /\ applied[n] \in 1 .. Len(log)
  BY GoesBy
<1>b. applied[n] <= Applied(n)  BY <1>a
<1>q. QED  BY <1>a, <1>b DEF Succession

(* A node that has not heard from anybody within the lease has no quorum.  *)
LEMMA NoQuorum ==
  ASSUME N >= 2, NEW n \in Node, \A m \in Node \ {n} : ~(Ages(n)[m] < Lease)
  PROVE  ~QuorumOk(n)
<1> DEFINE Near == {m \in Node \ {n} : Ages(n)[m] < Lease}
<1>a. Near = {}  OBVIOUS
<1> HIDE DEF Near
<1>b. Cardinality(Near) = 0  BY <1>a, FS_EmptySet
<1>c. ~(1 + Cardinality(Near) >= Majority)  BY <1>b, Counts
<1>q. QED  BY <1>c DEF QuorumOk, Near

(* A primary that is cut off, or goes by a decision of another, has no     *)
(* authority; one that has just come back waits for its window.            *)
LEMMA YieldsPass ==
  ASSUME FollowInv, Aged, NEW s \in Node, NEW c \in Node, GivenUp(s, c), NEW d \in 0 .. N, Pass(s, d),
         ~in_recovery[s], Yields(s) \/ Overdue(s, c)
  PROVE  Yields(s)' /\ ~in_recovery'[s]
<1>g. /\ c # s /\ N >= 3 /\ OneOut(s) /\ Succession(s, c) /\ Standbys(s, c) /\ s \in running
  BY PassChanges DEF GivenUp, Aged
<1>p. /\ applied'[s] = Applied(s) /\ inbox'[s] = {}
      /\ worker'[s].heard = Ages(s) /\ worker'[s].authorized_since = NewSince(s)
      /\ worker'[s].applied_read_only = IF Authorized(s) THEN "off" ELSE "on"
      /\ read_only'[s] = ReadOnlyAfter(s)
      /\ in_recovery'[s] = (in_recovery[s] /\ ~Promotes(s))
      /\ UNCHANGED <<log, cut>>
  BY PassChanges DEF Aged
<1>k. /\ Applied(s) \in 1 .. Len(log) /\ Decided(s) = log[Applied(s)] /\ Decided(s) # NoDecision
      /\ Len(log) \in Nat
  BY GoesBy
<1>w. Confirm \in Nat /\ Confirm >= 1 /\ Lease \in Nat /\ Dead \in Nat  BY Counts
<1>t. worker[s].authorized_since \in -1 .. Confirm  BY DEF Aged, Memory
<1>b. BeliefRo(s) # "off" /\ ~Immediate(s)
  <2>a. BeliefRo(s) # "off"  BY DEF BeliefRo, Yields, Overdue
  <2>q. QED  BY <1>k, <2>a DEF Immediate
<1>cut. CASE cut # {}
  <2>y. Yields(s)  BY <1>cut DEF Overdue
  <2>a. \A m \in Node \ {s} : m \notin inbox[s] /\ worker[s].heard[m] >= Lease  BY <1>cut, <2>y DEF Yields
  <2>b. \A m \in Node \ {s} : Ages(s)[m] = worker[s].heard[m] /\ Ages(s)[m] >= Lease /\ Ages(s)[m] \in 0 .. Dead
    BY <2>a, AgesAre
  <2>d. ~QuorumOk(s)  BY <1>g, <1>w, <2>b, NoQuorum, Counts
  <2>e. ~RawAuth(s)  BY <1>k, <2>d DEF RawAuth
  <2>f. ~Authorized(s)  BY <2>e DEF Authorized
  <2>h. NewSince(s) = Never  BY <2>e DEF NewSince
  <2>i. ReadOnlyAfter(s) = TRUE  BY <2>f, <2>y DEF ReadOnlyAfter, Promotes, Yields
  <2>j. worker'[s].authorized_since <= 0  BY <1>p, <2>h DEF Never
  <2>q. QED  BY <1>p, <2>b, <2>f, <2>h, <2>i, <2>j DEF Yields
<1>heal. CASE cut = {}
  <2>a. Applied(s) = Len(log)  BY <1>g, <1>heal, Serves1
  <2>z. log[Len(log)].primary = s => worker[s].authorized_since <= 0 \/ Stalled(s)
    BY DEF Yields, Overdue
  <2>b. ~Authorized(s) /\ (log[Len(log)].primary = s => NewSince(s) <= 0)
    <3>a. CASE log[Len(log)].primary = s
      <4>a. Since(s) <= 0 /\ Since(s) \in -1 .. Confirm  BY <2>z, <3>a, <1>t, <1>w DEF Since, Never
      <4>b. ~(Since(s) >= Confirm)  BY <4>a, <1>w
      <4>c. NewSince(s) <= 0  BY <4>a, <1>b DEF NewSince, Never
      <4>q. QED  BY <4>b, <4>c, <1>b DEF Authorized
    <3>b. CASE log[Len(log)].primary # s
      <4>a. ~RawAuth(s)  BY <1>k, <2>a, <3>b DEF RawAuth
      <4>q. QED  BY <3>b, <4>a DEF Authorized
    <3>q. QED  BY <3>a, <3>b
  <2>c. ReadOnlyAfter(s) = TRUE
    <3>a. CASE Yields(s)  BY <2>b, <3>a DEF ReadOnlyAfter, Promotes, Yields
    <3>b. CASE Overdue(s, c)  BY <2>b, <3>b DEF ReadOnlyAfter, Promotes, Overdue, BeliefRo
    <3>q. QED  BY <3>a, <3>b
  <2>q. QED  BY <1>p, <1>heal, <2>b, <2>c DEF Yields
<1>q. QED  BY <1>cut, <1>heal

(* While s may still be writable, its successor's window is not over.      *)
LEMMA WaitsPass ==
  ASSUME FollowInv, Aged, WdStale < Dead + Confirm, NEW s \in Node, NEW c \in Node, GivenUp(s, c),
         NEW d \in 0 .. N, Pass(c, d), worker[s].last_loop >= Dead, Waits(c, s)
  PROVE  Waits(c, s)'
<1>g. c # s  BY DEF GivenUp
<1>p. /\ worker'[c].authorized_since = NewSince(c)
      /\ worker'[c].applied_read_only =
           IF in_recovery[c] THEN "none" ELSE IF Authorized(c) THEN "off" ELSE "on"
      /\ read_only'[c] = ReadOnlyAfter(c)
      /\ in_recovery'[c] = (in_recovery[c] /\ ~Promotes(c))
      /\ worker'[s] = worker[s]
  BY <1>g, PassChanges DEF Aged
<1>t. /\ worker[s].last_loop \in 0 .. WdStale /\ WdStale \in Nat /\ Dead \in Nat /\ Confirm \in Nat
      /\ worker[c].authorized_since \in -1 .. Confirm
  BY Counts DEF Aged, Memory
<1>a. CASE in_recovery[c] /\ ~Promotes(c)  BY <1>p, <1>a DEF Waits
<1>b. CASE in_recovery[c] /\ Promotes(c)
  <2>a. NewSince(c) = Never  BY <1>b DEF NewSince
  <2>b. ReadOnlyAfter(c) = TRUE  BY <1>b DEF ReadOnlyAfter
  <2>q. QED  BY <1>p, <1>b, <2>a, <2>b DEF Waits
<1>c. CASE ~in_recovery[c]
  <2>w. /\ read_only[c] /\ worker[c].applied_read_only # "off"
        /\ worker[c].authorized_since # Never => worker[s].last_loop >= Dead + worker[c].authorized_since
    BY <1>c DEF Waits
  <2>a. BeliefRo(c) # "off" /\ Decided(c) # NoDecision  BY <2>w, GoesBy DEF BeliefRo
  <2>b. ~Immediate(c)  BY <2>a DEF Immediate
  <2>s. Since(c) \in {Never, worker[c].authorized_since}  BY DEF Since
  <2>c. ~(Since(c) >= Confirm)
    <3>a. worker[c].authorized_since # Never => worker[c].authorized_since < Confirm  BY <1>t, <2>w
    <3>q. QED  BY <1>t, <2>s, <3>a DEF Never
  <2>d. ~Authorized(c)  BY <2>b, <2>c DEF Authorized
  <2>e. NewSince(c) # Never => worker[s].last_loop >= Dead + NewSince(c)
    <3>a. NewSince(c) = 0 \/ NewSince(c) = Never \/ NewSince(c) = worker[c].authorized_since
      BY <2>b, <2>s DEF NewSince
    <3>q. QED  BY <1>t, <2>w, <3>a
  <2>f. ReadOnlyAfter(c) = TRUE  BY <1>c, <2>d, <2>w DEF ReadOnlyAfter, Promotes
  <2>q. QED  BY <1>c, <1>p, <2>d, <2>e, <2>f DEF Waits
<1>q. QED  BY <1>a, <1>b, <1>c

LEMMA GivenUpPass ==
  ASSUME FollowInv, Aged, Dead >= 2, WdStale < Dead + Confirm, NEW s \in Node, NEW c \in Node,
         GivenUp(s, c), NEW n \in Node, NEW d \in 0 .. N, Pass(n, d)
  PROVE  GivenUp(s, c)'
<1>g. /\ c # s /\ N >= 3 /\ OneOut(s) /\ Unharmed(s) /\ hung \subseteq {s}
      /\ leader \in Node \ {s} /\ settled /\ faults # 0 /\ faults >= MaxFaults
      /\ Succession(s, c) /\ Standbys(s, c) /\ Out(s, c)
  BY DEF GivenUp
<1>p. /\ turn = n /\ turn' = n + 1 /\ n \in running
      /\ \A m \in Node : applied'[m] = IF m = n THEN Applied(n) ELSE applied[m]
      /\ \A m \in Node : inbox'[m] = IF m = n THEN {} ELSE
                                     IF m \in Reach(n) THEN inbox[m] \cup {n} ELSE inbox[m]
      /\ \A m \in Node \ {n} : worker'[m] = worker[m]
      /\ pending' = IF d # 0 /\ n = leader THEN Append(pending, NextDecision(n, d)) ELSE pending
      /\ \A m \in Node : read_only'[m] = IF m = n THEN ReadOnlyAfter(n) ELSE read_only[m]
      /\ \A m \in Node : in_recovery'[m] = IF m = n THEN in_recovery[n] /\ ~Promotes(n)
                                                    ELSE in_recovery[m]
      /\ rejoin' = IF Rejoins(n) THEN rejoin \cup {n} ELSE rejoin
      /\ UNCHANGED <<running, hung, cut, faults, leader, settled, log>>
  <2>a. inbox \in [Node -> SUBSET Node]  BY DEF Aged
  <2>q. QED  BY <2>a, PassChanges
<1>k. /\ Applied(n) \in applied[n] .. Len(log) /\ Applied(n) \in 1 .. Len(log)
      /\ Decided(n) = log[Applied(n)] /\ Decided(n).primary \in {s, c}
  BY <1>g, GoesBy DEF Succession
<1>o. OneOut(s)'  BY <1>g, <1>p DEF OneOut
<1>u. Unharmed(s)'  BY <1>g, UnharmedPass
<1>s. Succession(s, c)'
  <2>i. n \in Int /\ leader \in Int  BY <1>g, Counts DEF Node
  <2>a. CASE d # 0 /\ n = leader
    <3>a. d = c /\ pending = <<>>  BY <2>a, GivenUpPropose
    <3>b. pending' = <<NextDecision(n, c)>>  BY <1>p, <2>a, <3>a
    <3>e. NextDecision(n, c).primary = c  BY DEF NextDecision
    <3>c. Len(pending') = 1 /\ pending'[1].primary = c /\ pending' # <<>>  BY <3>b, <3>e
    <3>d. turn' > leader  BY <1>p, <2>a, <2>i
    <3>f. \A i \in 1 .. Len(pending') : pending'[i].primary = c  BY <3>c
    <3>q. QED  BY <1>g, <1>p, <3>c, <3>d, <3>f DEF Succession
  <2>b. CASE ~(d # 0 /\ n = leader)
    <3>a. pending' = pending  BY <1>p, <2>b
    <3>b. turn > leader => turn' > leader  BY <1>p, <2>i
    <3>q. QED  BY <1>g, <1>p, <3>a, <3>b DEF Succession
  <2>q. QED  BY <2>a, <2>b
<1>v. \A m \in Node : log[applied[m]].primary = c => log'[applied'[m]].primary = c
  BY <1>g, <1>p, Follows
<1>t. Standbys(s, c)'
  <2>a. ASSUME NEW m \in Node \ {s}, ~in_recovery'[m] PROVE m = c /\ log'[applied'[c]].primary = c
    <3>a. CASE ~in_recovery[m]  BY <1>g, <1>v, <3>a DEF Standbys
    <3>b. CASE in_recovery[m]
      <4>a. m = n /\ Promotes(n)  BY <1>p, <2>a, <3>b
      <4>b. Decided(n).primary = n  BY <4>a DEF Promotes
      <4>q. QED  BY <1>k, <1>p, <4>a, <4>b
    <3>q. QED  BY <3>a, <3>b
  <2>b. Rejoins(n) => n = s /\ log'[applied'[s]].primary = c
    <3>a. ASSUME Rejoins(n) PROVE ~in_recovery[n] /\ Decided(n).primary # n
      BY <3>a DEF Rejoins
    <3>b. ASSUME Rejoins(n) PROVE n = s
      <4>a. CASE n # s
        <5>a. n = c /\ log[applied[n]].primary = c  BY <1>g, <3>a, <3>b, <4>a DEF Standbys
        <5>q. QED  BY <1>g, <3>a, <3>b, <5>a, Follows
      <4>q. QED  BY <4>a
    <3>c. ASSUME Rejoins(n) PROVE log'[applied'[s]].primary = c
      BY <1>k, <1>p, <3>a, <3>b, <3>c
    <3>q. QED  BY <3>b, <3>c
  <2>c. in_recovery'[s] => in_recovery[s]  BY <1>p
  <2>q. QED  BY <1>g, <1>p, <1>v, <2>a, <2>b, <2>c DEF Standbys
<1>x. Out(s, c)'
  <2>a. CASE s \notin running  BY <1>p, <2>a DEF Out
  <2>b. CASE in_recovery[s]
    <3>a. n = s => ~Promotes(n)
      <4>a. log[applied[s]].primary = c  BY <1>g, <2>b DEF Standbys
      <4>b. Decided(s).primary = c  BY <1>g, <4>a, Follows
      <4>q. QED  BY <1>g, <4>b DEF Promotes
    <3>b. in_recovery'[s]  BY <1>p, <2>b, <3>a
    <3>q. QED  BY <3>b DEF Out
  <2>c. CASE s \in running /\ ~in_recovery[s] /\ n = s
    <3>a. Yields(s) \/ Overdue(s, c)  BY <1>g, <2>c DEF Out
    <3>b. Yields(s)'  BY <2>c, <3>a, YieldsPass
    <3>q. QED  BY <3>b DEF Out
  <2>d. CASE s \in running /\ ~in_recovery[s] /\ n # s
    <3>w. worker'[s] = worker[s] /\ read_only'[s] = read_only[s] /\ in_recovery'[s] = in_recovery[s]
      BY <1>p, <2>d
    <3>a. CASE Yields(s)
      <4>a. cut # {} => inbox'[s] = inbox[s]
        <5>a. cut # {} => Reach(n) = Node \ {s}  BY <1>g, <2>d, Reaches
        <5>b. inbox'[s] = IF s \in Reach(n) THEN inbox[s] \cup {n} ELSE inbox[s]  BY <1>p, <2>d
        <5>q. QED  BY <5>a, <5>b
      <4>b. Yields(s)'  BY <1>p, <3>a, <3>w, <4>a DEF Yields
      <4>q. QED  BY <4>b DEF Out
    <3>b. CASE Overdue(s, c)
      <4>a. ASSUME Writable(s) PROVE worker[s].last_loop >= Dead /\ Waits(c, s)'
        <5>a. worker[s].last_loop >= Dead /\ Waits(c, s)  BY <3>b, <4>a DEF Overdue
        <5>b. CASE n = c  BY <5>a, <5>b, WaitsPass
        <5>c. CASE n # c  BY <1>g, <1>p, <3>w, <5>a, <5>c DEF Waits
        <5>q. QED  BY <5>a, <5>b, <5>c
      <4>b. Writable(s)' => Writable(s)  BY <1>p, <3>w DEF Writable
      <4>c. Overdue(s, c)'  BY <1>p, <3>b, <3>w, <4>a, <4>b DEF Overdue, Stalled
      <4>q. QED  BY <4>c DEF Out
    <3>q. QED  BY <1>g, <2>d, <3>a, <3>b DEF Out
  <2>q. QED  BY <2>a, <2>b, <2>c, <2>d
<1>q. QED  BY <1>g, <1>p, <1>o, <1>u, <1>s, <1>t, <1>x DEF GivenUp

LEMMA GivenUpTick ==
  ASSUME FollowInv, Aged, Lease <= Dead, WdStale >= 2, NEW s \in Node, NEW c \in Node, GivenUp(s, c), Tick
  PROVE  GivenUp(s, c)'
<1>g. /\ c # s /\ N >= 3 /\ OneOut(s) /\ Unharmed(s) /\ hung \subseteq {s}
      /\ leader \in Node \ {s} /\ settled /\ faults # 0 /\ faults >= MaxFaults
      /\ Succession(s, c) /\ Standbys(s, c) /\ Out(s, c)
  BY DEF GivenUp
<1>p. /\ ~CanCommit
      /\ \A n \in Node : ~(Writable(n) /\ worker[n].last_loop >= WdStale)
      /\ \A n \in Node :
           /\ worker'[n].heard = [m \in Node |-> Older(worker[n].heard[m], Dead)]
           /\ worker'[n].authorized_since = Older(worker[n].authorized_since, Confirm)
           /\ worker'[n].last_loop = Older(worker[n].last_loop, WdStale)
           /\ worker'[n].applied_read_only = worker[n].applied_read_only
      /\ UNCHANGED <<running, hung, cut, faults, leader, settled, pending, log, applied,
                     inbox, in_recovery, read_only, rejoin>>
  BY TickChanges
<1>e. pending = <<>>  BY <1>p, Serves1 DEF CanCommit
<1>l. log[Len(log)].primary = c  BY <1>g, <1>e DEF Succession
<1>o. OneOut(s)'  BY <1>g, <1>p DEF OneOut
<1>u. Unharmed(s)'  BY <1>g, UnharmedTick
<1>s. Succession(s, c)'  BY <1>g, <1>p, <1>e, <1>l DEF Succession
<1>t. Standbys(s, c)'  BY <1>g, <1>p DEF Standbys
<1>n. /\ worker[s].heard \in [Node -> 0 .. Dead] /\ worker[s].last_loop \in 0 .. WdStale
      /\ worker[s].authorized_since \in -1 .. Confirm /\ worker[c].authorized_since \in -1 .. Confirm
      /\ Dead \in Nat /\ WdStale \in Nat /\ Confirm \in Nat /\ Lease \in Nat /\ Stall \in Nat
  BY Counts DEF Aged, Memory
<1>x. Out(s, c)'
  <2>a. CASE s \notin running \/ in_recovery[s]  BY <1>p, <2>a DEF Out
  <2>b. CASE Yields(s)
    <3>a. ASSUME cut # {}, NEW m \in Node \ {s} PROVE m \notin inbox'[s] /\ worker'[s].heard[m] >= Lease
      <4>a. m \notin inbox[s] /\ worker[s].heard[m] >= Lease  BY <2>b, <3>a DEF Yields
      <4>b. worker'[s].heard[m] = Older(worker[s].heard[m], Dead)  BY <1>p
      <4>q. QED  BY <1>n, <1>p, <4>a, <4>b DEF Older
    <3>b. cut # {} => worker'[s].authorized_since = Never
      BY <1>p, <2>b DEF Yields, Older
    <3>c. Yields(s)'  BY <1>g, <1>p, <1>l, <2>b, <3>a, <3>b DEF Yields
    <3>q. QED  BY <3>c DEF Out
  <2>c. CASE Overdue(s, c)
    <3>l. worker'[s].last_loop = Older(worker[s].last_loop, WdStale)  BY <1>p
    <3>a. worker'[s].last_loop > Stall  BY <1>n, <2>c, <3>l DEF Overdue, Stalled, Older, Never
    <3>b. ASSUME Writable(s) PROVE worker'[s].last_loop >= Dead /\ Waits(c, s)'
      <4>a. worker[s].last_loop >= Dead /\ Waits(c, s)  BY <2>c, <3>b DEF Overdue
      <4>b. ~(worker[s].last_loop >= WdStale)  BY <1>p, <3>b
      <4>c. worker'[s].last_loop = worker[s].last_loop + 1  BY <1>n, <3>l, <4>b DEF Older, Never
      <4>d. /\ worker'[c].authorized_since <= worker[c].authorized_since + 1
            /\ worker[c].authorized_since = Never <=> worker'[c].authorized_since = Never
            /\ worker'[c].authorized_since \in Int
        <5>a. worker'[c].authorized_since = Older(worker[c].authorized_since, Confirm)  BY <1>p
        <5>q. QED  BY <1>n, <5>a DEF Older, Never
      <4>e. CASE in_recovery[c]  BY <1>n, <1>p, <4>a, <4>c, <4>e DEF Waits
      <4>f. CASE ~in_recovery[c]
        <5>a. /\ read_only[c] /\ worker[c].applied_read_only # "off"
              /\ worker[c].authorized_since # Never
                   => worker[s].last_loop >= Dead + worker[c].authorized_since
          BY <4>a, <4>f DEF Waits
        <5>b. worker'[c].authorized_since # Never
                => worker'[s].last_loop >= Dead + worker'[c].authorized_since
          BY <1>n, <4>c, <4>d, <5>a
        <5>c. worker'[c].applied_read_only # "off" /\ read_only'[c]  BY <1>p, <5>a
        <5>q. QED  BY <1>n, <4>a, <4>c, <5>b, <5>c DEF Waits
      <4>q. QED  BY <4>e, <4>f
    <3>c. Writable(s)' => Writable(s)  BY <1>p DEF Writable
    <3>d. cut' = {}  BY <1>p, <2>c DEF Overdue
    <3>e. Overdue(s, c)'  BY <3>a, <3>b, <3>c, <3>d DEF Overdue, Stalled
    <3>q. QED  BY <3>e DEF Out
  <2>q. QED  BY <1>g, <2>a, <2>b, <2>c DEF Out
<1>q. QED  BY <1>g, <1>p, <1>o, <1>u, <1>s, <1>t, <1>x DEF GivenUp

(* No second fault.                                                        *)
LEMMA NoFault ==
  ASSUME Aged, faults >= MaxFaults, covered'
  PROVE  /\ \A f \in FaultKinds : ~May(f)
         /\ \A n \in Node : ~Isolate(n) /\ ~Crash(n) /\ ~Hang(n) /\ ~Restart(n)
         /\ \A n, m \in Node : ~CutLink(n, m)
<1>a. faults \in Nat /\ MaxFaults \in Nat  BY FailoverAssumption DEF Aged, FailoverAssumption
<1>b. \A f : ~May(f)  BY <1>a DEF May
<1>q. QED  BY <1>b DEF Isolate, Crash, Hang, Restart, CutLink

LEMMA GivenUpCommit ==
  ASSUME FollowInv, Aged, NEW s \in Node, NEW c \in Node, GivenUp(s, c), Commit
  PROVE  GivenUp(s, c)'
<1>g. /\ c # s /\ N >= 3 /\ OneOut(s) /\ Unharmed(s) /\ hung \subseteq {s}
      /\ leader \in Node \ {s} /\ settled /\ faults # 0 /\ faults >= MaxFaults
      /\ Succession(s, c) /\ Standbys(s, c) /\ Out(s, c)
  BY DEF GivenUp
<1>p. /\ pending # <<>> /\ log' = Append(log, Head(pending)) /\ pending' = Tail(pending)
      /\ UNCHANGED <<turn, running, hung, cut, faults, leader, settled, applied, inbox, worker,
                     in_recovery, read_only, rejoin>>
  BY DEF Commit, CanCommit, network, memory, postgres
<1>h. log \in Seq(Decision) /\ pending \in Seq(Decision)  BY DEF FollowInv, History
<1>t. /\ Len(log) \in Nat /\ Len(pending) \in Nat /\ Len(pending) >= 1 /\ Head(pending) = pending[1]
      /\ Len(pending') = Len(pending) - 1
      /\ \A i \in 1 .. Len(pending') : pending'[i] = pending[i + 1] /\ i + 1 \in 1 .. Len(pending)
  BY <1>h, <1>p
<1>c. Head(pending) \in Decision /\ Head(pending).primary = c  BY <1>g, <1>h, <1>t DEF Succession
<1>l. /\ Len(log') = Len(log) + 1 /\ log'[Len(log')].primary = c
      /\ \A i \in 1 .. Len(log) : log'[i] = log[i]
      /\ \A i \in 1 .. Len(log') : i \in 1 .. Len(log) \/ i = Len(log')
  BY <1>h, <1>p, <1>t, <1>c
<1>s. Succession(s, c)'
  <2>a. ASSUME NEW i \in 1 .. Len(log') PROVE log'[i].primary \in {s, c}
    BY <1>g, <1>l DEF Succession
  <2>b. ASSUME NEW i \in 1 .. Len(log'), NEW j \in 1 .. Len(log'), i <= j, log'[i].primary = c
        PROVE  log'[j].primary = c
    <3>a. CASE j = Len(log')  BY <1>l, <3>a
    <3>b. CASE j \in 1 .. Len(log)
      <4>a. i \in 1 .. Len(log)  BY <1>l, <1>t, <2>b, <3>b
      <4>q. QED  BY <1>g, <1>l, <2>b, <3>b, <4>a DEF Succession
    <3>q. QED  BY <1>l, <3>a, <3>b
  <2>c. \A i \in 1 .. Len(pending') : pending'[i].primary = c  BY <1>g, <1>t DEF Succession
  <2>d. turn' > leader'  BY <1>g, <1>p DEF Succession
  <2>q. QED  BY <1>l, <2>a, <2>b, <2>c, <2>d DEF Succession
<1>a. \A n \in Node : log'[applied'[n]] = log[applied[n]]
  <2>a. \A n \in Node : applied[n] \in 1 .. Len(log)  BY GoesBy
  <2>q. QED  BY <1>l, <1>p, <2>a
<1>d. Standbys(s, c)'  BY <1>g, <1>p, <1>a DEF Standbys
<1>x. Out(s, c)'
  <2>a. Yields(s) => Yields(s)'  BY <1>g, <1>p, <1>l DEF Yields
  <2>b. Overdue(s, c) => Overdue(s, c)'  BY <1>p DEF Overdue, Stalled, Writable, Waits
  <2>q. QED  BY <1>g, <1>p, <2>a, <2>b DEF Out
<1>o. OneOut(s)' /\ Unharmed(s)'  BY <1>g, <1>p DEF OneOut, Unharmed, InTime, Hears
<1>q. QED  BY <1>g, <1>p, <1>s, <1>d, <1>x, <1>o DEF GivenUp

LEMMA GivenUpScripts ==
  ASSUME FollowInv, Aged, WdStale >= 2, NEW s \in Node, NEW c \in Node, GivenUp(s, c),
         NEW n \in Node, Skip(n) \/ Watchdog(n) \/ Rejoin(n)
  PROVE  GivenUp(s, c)'
<1>g. /\ c # s /\ N >= 3 /\ OneOut(s) /\ Unharmed(s) /\ hung \subseteq {s}
      /\ leader \in Node \ {s} /\ settled /\ faults # 0 /\ faults >= MaxFaults
      /\ Succession(s, c) /\ Standbys(s, c) /\ Out(s, c)
  BY DEF GivenUp
<1>skip. CASE Skip(n)
  <2>p. UNCHANGED <<running, hung, cut, faults, leader, settled, pending, log, applied, inbox, worker,
                    in_recovery, read_only, rejoin>>
    BY <1>skip DEF Skip, network, raft, memory, postgres
  <2>u. Unharmed(s)' /\ turn = n /\ turn' = n + 1  BY <1>g, <1>skip, UnharmedSkip
  <2>t. turn > leader => turn' > leader  BY <1>g, <2>u, Counts DEF Node
  <2>s. Succession(s, c)'  BY <1>g, <2>p, <2>t DEF Succession
  <2>q. QED
    BY <1>g, <2>p, <2>u, <2>s
    DEF GivenUp, OneOut, Standbys, Out, Yields, Overdue, Stalled, Writable, Waits
<1>wd. CASE Watchdog(n)
  <2>p. /\ Writable(n) /\ worker[n].last_loop >= WdStale
        /\ read_only' = [read_only EXCEPT ![n] = TRUE]
        /\ UNCHANGED <<turn, running, hung, cut, faults, leader, settled, pending, log, applied, inbox,
                       worker, in_recovery, rejoin>>
    BY <1>wd DEF Watchdog, network, raft, memory
  <2>n. n = s
    <3>a. CASE n # s
      <4>a. InTime(n) /\ worker[n].last_loop \in 0 .. WdStale  BY <1>g, <3>a DEF Unharmed, Aged, Memory
      <4>q. QED  BY <2>p, <4>a, Counts DEF InTime
    <3>q. QED  BY <3>a
  <2>r. /\ read_only'[s] = TRUE /\ read_only'[c] = read_only[c]
    BY <1>g, <2>p, <2>n DEF FollowInv, Roles
  <2>w. ~Writable(s)'  BY <2>r DEF Writable
  <2>x. Out(s, c)'
    <3>a. Yields(s) => Yields(s)'  BY <2>p, <2>r DEF Yields
    <3>b. Overdue(s, c) => Overdue(s, c)'  BY <2>p, <2>w DEF Overdue, Stalled
    <3>q. QED  BY <1>g, <2>p, <3>a, <3>b DEF Out
  <2>q. QED
    BY <1>g, <2>p, <2>x DEF GivenUp, OneOut, Unharmed, InTime, Hears, Standbys, Succession
<1>rj. CASE Rejoin(n)
  <2>p. /\ n \in rejoin /\ rejoin' = rejoin \ {n}
        /\ in_recovery' = [in_recovery EXCEPT ![n] = TRUE]
        /\ inbox' = [inbox EXCEPT ![n] = {}]
        /\ worker' = [worker EXCEPT ![n] = Started(DecisionAt(applied[n]))]
        /\ hung' = hung \ {n}
        /\ leader' = (IF leader = n THEN 0 ELSE leader) /\ settled' = (settled /\ leader # n)
        /\ UNCHANGED <<turn, running, cut, faults, log, pending, applied>>
    BY <1>rj DEF Rejoin, StopsLeading
  <2>n. n = s  BY <1>g, <2>p DEF Standbys
  <2>l. leader' = leader /\ settled' = settled  BY <1>g, <2>p, <2>n
  <2>w. \A m \in Node \ {s} : worker'[m] = worker[m] /\ inbox'[m] = inbox[m]
                              /\ in_recovery'[m] = in_recovery[m]
    BY <2>p, <2>n DEF FollowInv, Adopted, Roles, Aged
  <2>r. in_recovery'[s]  BY <2>p, <2>n DEF FollowInv, Roles
  <2>u. Unharmed(s)'  BY <1>g, <2>p, <2>w, UnharmedSame
  <2>s. Standbys(s, c)'  BY <1>g, <2>p, <2>n, <2>w DEF Standbys
  <2>x. Out(s, c)'  BY <2>r DEF Out
  <2>o. OneOut(s)' /\ Succession(s, c)'  BY <1>g, <2>p, <2>l DEF OneOut, Succession
  <2>h. hung' \subseteq {s}  BY <1>g, <2>p
  <2>f. faults' # 0 /\ faults' >= MaxFaults  BY <1>g, <2>p
  <2>t. settled'  BY <1>g, <2>l
  <2>v. leader' \in Node \ {s} /\ settled' /\ faults' # 0 /\ faults' >= MaxFaults
    BY <1>g, <2>l, <2>f, <2>t
  <2>q. QED  BY <1>g, <2>u, <2>s, <2>x, <2>o, <2>h, <2>v DEF GivenUp
<1>q. QED  BY <1>skip, <1>wd, <1>rj

LEMMA GivenUpStep ==
  ASSUME FollowInv, Aged, Timely, NEW s \in Node, NEW c \in Node, GivenUp(s, c), Next, covered'
  PROVE  GivenUp(s, c)'
<1>g. /\ c # s /\ N >= 3 /\ OneOut(s) /\ Unharmed(s) /\ hung \subseteq {s}
      /\ leader \in Node \ {s} /\ settled /\ faults # 0 /\ faults >= MaxFaults
      /\ Succession(s, c) /\ Standbys(s, c) /\ Out(s, c)
  BY DEF GivenUp
<1>t. Dead >= 2 /\ Lease <= Dead /\ WdStale >= 2 /\ WdStale < Dead + Confirm
  BY Counts DEF Timely
<1>f. /\ \A n \in Node : ~Isolate(n) /\ ~Crash(n) /\ ~Hang(n) /\ ~Restart(n)
      /\ \A n, m \in Node : ~CutLink(n, m)
      /\ ~May("depose")
  <2>a. "depose" \in FaultKinds  BY DEF FaultKinds
  <2>q. QED  BY <1>g, <2>a, NoFault
<1>e. \A w \in Node : ~Elect(w)
  <2>a. leader \in running  BY <1>g DEF OneOut
  <2>b. \A w \in Node : ~Wins(w)  BY <1>g, <2>a, Elections
  <2>q. QED  BY <1>f, <2>b DEF Elect
<1>s. ~Settle  BY <1>g DEF Settle
<1>h. CASE Heal \/ \E n \in Node : Wake(n)
  <2>p. /\ cut' \in {{}, cut} /\ hung' \subseteq hung
        /\ UNCHANGED <<turn, running, faults, leader, settled, pending, log, applied, inbox, worker,
                       in_recovery, read_only, rejoin>>
    BY <1>h DEF Heal, Wake, raft, memory, postgres
  <2>o. OneOut(s)'  BY <1>g, <2>p DEF OneOut
  <2>x. Out(s, c)'
    <3>a. Yields(s) => Yields(s)'  BY <2>p DEF Yields
    <3>b. Overdue(s, c) => Overdue(s, c)'  BY <2>p DEF Overdue, Stalled, Writable, Waits
    <3>q. QED  BY <1>g, <2>p, <3>a, <3>b DEF Out
  <2>u. Unharmed(s)'  BY <1>g, <2>p, UnharmedSame
  <2>q. QED  BY <1>g, <2>p, <2>o, <2>x, <2>u DEF GivenUp, Standbys, Succession
<1>q. QED
  BY <1>t, <1>f, <1>e, <1>s, <1>h, GivenUpPass, GivenUpTick, GivenUpCommit, GivenUpScripts
  DEF Next, RaftStep, Fault

-----------------------------------------------------------------------------
(* While s is the primary. A pass that proposes another node is one for    *)
(* which a majority is alive and s has been silent for dead_timeout.       *)
LEMMA LoyalDecided ==
  ASSUME FollowInv, Aged, NEW s \in Node, Loyal(s), NEW n \in Node
  PROVE  Decided(n).primary = s /\ Decided(n) # NoDecision /\ ~Promotes(n) /\ ~Rejoins(n)
<1>a. Decided(n).primary = s /\ Decided(n) # NoDecision  BY GoesBy DEF Loyal
<1>q. QED  BY <1>a DEF Promotes, Rejoins, Loyal

LEMMA Proposes ==
  ASSUME FollowInv, Aged, NEW s \in Node, Loyal(s), NEW n \in Node, NEW d \in 0 .. N, Pass(n, d), d # 0, d # s
  PROVE  /\ n # s /\ d \in Node /\ N >= 3
         /\ s \notin inbox[n] /\ worker[n].heard[s] = Dead
<1>a. inbox \in [Node -> SUBSET Node]  BY DEF Aged
<1>p. d \in Choices(n)  BY <1>a, PassChanges
<1>k. Decided(n).primary = s /\ Decided(n) # NoDecision  BY LoyalDecided
<1>b. d \in Candidates(n) /\ Cardinality(Live(n)) >= Majority  BY <1>p DEF Choices
<1>c. s \notin Live(n) /\ Candidates(n) = Live(n)  BY <1>b, <1>k DEF Candidates
<1>d. Live(n) \subseteq Node \ {s}  BY <1>c DEF Live
<1>e. n # s /\ ~(Ages(n)[s] < Dead)  BY <1>c DEF Live
<1>f. N >= 3  BY <1>b, <1>d, Without
<1>g. Ages(n)[s] \in 0 .. Dead /\ Ages(n)[s] = (IF s \in inbox[n] THEN 0 ELSE worker[n].heard[s])
      /\ Dead \in Nat /\ Dead >= 1
  BY AgesAre, Counts
<1>q. QED  BY <1>b, <1>c, <1>d, <1>e, <1>f, <1>g

LEMMA LoyalPass ==
  ASSUME FollowInv, Aged, NEW s \in Node, Loyal(s), NEW n \in Node, NEW d \in 0 .. N, Pass(n, d)
  PROVE  Loyal(s)'
<1>i. inbox \in [Node -> SUBSET Node]  BY DEF Aged
<1>p. /\ \A m \in Node : in_recovery'[m] = IF m = n THEN in_recovery[n] /\ ~Promotes(n)
                                                    ELSE in_recovery[m]
      /\ rejoin' = IF Rejoins(n) THEN rejoin \cup {n} ELSE rejoin
      /\ log' = log
  BY <1>i, PassChanges
<1>k. ~Promotes(n) /\ ~Rejoins(n)  BY LoyalDecided
<1>b. \A m \in Node : in_recovery'[m] <=> m # s  BY <1>p, <1>k DEF Loyal
<1>q. QED  BY <1>p, <1>k, <1>b DEF Loyal

(* A proposal goes to the end of what is pending.                          *)
LEMMA Proposed ==
  ASSUME FollowInv, NEW n \in Node, NEW d \in 0 .. N, pending' = Append(pending, NextDecision(n, d))
  PROVE  /\ Len(pending') = Len(pending) + 1 /\ Len(pending) \in Nat
         /\ \A i \in 1 .. Len(pending) : pending'[i] = pending[i]
         /\ pending'[Len(pending')].primary = d /\ pending' # <<>>
         /\ \A i \in 1 .. Len(pending') : i \in 1 .. Len(pending) \/ i = Len(pending')
<1>h. pending \in Seq(Decision)  BY DEF FollowInv, History
<1>b. NextDecision(n, d).primary = d  BY DEF NextDecision
<1> DEFINE new == NextDecision(n, d)
<1> HIDE DEF new
<1>a. pending' = Append(pending, new)  BY DEF new
<1>c. /\ Len(pending') = Len(pending) + 1 /\ Len(pending) \in Nat
      /\ \A i \in 1 .. Len(pending) : pending'[i] = pending[i]
      /\ pending'[Len(pending) + 1] = new
  BY <1>a, <1>h
<1>d. \A i \in 1 .. Len(pending') : i \in 1 .. Len(pending) \/ i = Len(pending') BY <1>c
<1>e. pending' # <<>>  BY <1>c
<1>q. QED  BY <1>b, <1>c, <1>d, <1>e DEF new

LEMMA CommitChanges ==
  ASSUME FollowInv, Commit
  PROVE  /\ pending # <<>> /\ Len(log) \in Nat /\ Len(pending) \in Nat /\ Len(pending) >= 1
         /\ Len(pending') = Len(pending) - 1
         /\ \A i \in 1 .. Len(pending') : pending'[i] = pending[i + 1] /\ i + 1 \in 1 .. Len(pending)
         /\ Len(log') = Len(log) + 1 /\ log'[Len(log')] = pending[1] /\ pending[1] \in Decision
         /\ \A i \in 1 .. Len(log) : log'[i] = log[i]
         /\ \A i \in 1 .. Len(log') : i \in 1 .. Len(log) \/ i = Len(log')
         /\ UNCHANGED <<turn, running, hung, cut, faults, leader, settled, applied, inbox, worker,
                        in_recovery, read_only, rejoin>>
<1>p. /\ pending # <<>> /\ log' = Append(log, Head(pending)) /\ pending' = Tail(pending)
      /\ UNCHANGED <<turn, running, hung, cut, faults, leader, settled, applied, inbox, worker,
                     in_recovery, read_only, rejoin>>
  BY DEF Commit, CanCommit, network, memory, postgres
<1>h. log \in Seq(Decision) /\ pending \in Seq(Decision)  BY DEF FollowInv, History
<1>t. /\ Len(log) \in Nat /\ Len(pending) \in Nat /\ Len(pending) >= 1 /\ Head(pending) = pending[1]
      /\ Len(pending') = Len(pending) - 1 /\ pending[1] \in Decision
      /\ \A i \in 1 .. Len(pending') : pending'[i] = pending[i + 1] /\ i + 1 \in 1 .. Len(pending)
  BY <1>h, <1>p
<1>l. /\ Len(log') = Len(log) + 1 /\ log'[Len(log')] = pending[1]
      /\ \A i \in 1 .. Len(log) : log'[i] = log[i]
      /\ \A i \in 1 .. Len(log') : i \in 1 .. Len(log) \/ i = Len(log')
  BY <1>h, <1>p, <1>t
<1>q. QED  BY <1>p, <1>t, <1>l

(* The step at which s is given up.                                        *)
LEMMA GiveUp ==
  ASSUME FollowInv, Aged, NEW s \in Node, Loyal(s), NEW n \in Node, NEW d \in 0 .. N, Pass(n, d),
         d # 0, d # s, n = leader, pending = <<>>, settled, OneOut(s), Unharmed(s), hung \subseteq {s},
         faults # 0, faults >= MaxFaults, Out(s, d)'
  PROVE  \E c \in Node : GivenUp(s, c)'
<1>i. inbox \in [Node -> SUBSET Node]  BY DEF Aged
<1>p. /\ turn = n /\ turn' = n + 1
      /\ pending' = Append(pending, NextDecision(n, d))
      /\ \A m \in Node : in_recovery'[m] = IF m = n THEN in_recovery[n] /\ ~Promotes(n)
                                                    ELSE in_recovery[m]
      /\ rejoin' = IF Rejoins(n) THEN rejoin \cup {n} ELSE rejoin
      /\ UNCHANGED <<running, hung, cut, faults, leader, settled, log>>
  BY <1>i, PassChanges
<1>k. ~Promotes(n) /\ ~Rejoins(n)  BY LoyalDecided
<1>d. n # s /\ d \in Node /\ N >= 3  BY Proposes
<1>a. pending' = <<NextDecision(n, d)>>  BY <1>p
<1>b. NextDecision(n, d).primary = d  BY DEF NextDecision
<1>c. Len(pending') = 1 /\ pending'[1].primary = d /\ pending' # <<>>  BY <1>a, <1>b
<1>e. \A i \in 1 .. Len(pending') : pending'[i].primary = d  BY <1>c
<1>f. turn' > leader'  BY <1>p, Counts DEF Node
<1>g. /\ \A i \in 1 .. Len(log) : log[i].primary = s
      /\ \A m \in Node : in_recovery[m] <=> m # s
      /\ rejoin = {}
  BY DEF Loyal
<1>s. Succession(s, d)'  BY <1>p, <1>g, <1>c, <1>e, <1>f DEF Succession
<1>t. Standbys(s, d)'  BY <1>p, <1>k, <1>g DEF Standbys
<1>o. OneOut(s)'  BY <1>p DEF OneOut
<1>u. Unharmed(s)'  BY UnharmedPass
<1>v. leader' \in Node \ {s} /\ settled' /\ faults' # 0 /\ faults' >= MaxFaults /\ hung' \subseteq {s}
  BY <1>p, <1>d
<1>q. QED  BY <1>d, <1>s, <1>t, <1>o, <1>u, <1>v DEF GivenUp

(* A worker in time is heard of in time.                                   *)
LEMMA HeardInTime ==
  ASSUME Aged, NEW n \in Node, NEW m \in Node, Hears(n, m), InTime(m), m \notin inbox[n]
  PROVE  worker[n].heard[m] <= 1 /\ worker[m].last_loop <= 1
<1>a. worker[m].last_loop \in 0 .. WdStale /\ worker[n].heard[m] \in 0 .. Dead  BY DEF Aged, Memory
<1>q. QED  BY <1>a, Counts DEF Hears, InTime

-----------------------------------------------------------------------------
(* A worker that hangs.                                                    *)
LEMMA HangingPass ==
  ASSUME FollowInv, Aged, Timely, NEW s \in Node, NEW x \in Node, Hanging(s, x),
         NEW n \in Node, NEW d \in 0 .. N, Pass(n, d)
  PROVE  Hanging(s, x)' \/ \E c \in Node : GivenUp(s, c)'
<1>g. /\ Loyal(s) /\ Unharmed(x)
      /\ running = Node /\ cut = {} /\ hung \subseteq {x}
      /\ settled /\ leader \in Node
      /\ \A i \in 1 .. Len(pending) : pending[i].primary = s
      /\ pending # <<>> => turn > leader
      /\ faults # 0 /\ faults >= MaxFaults
      /\ \A m \in Node \ {x} : Hears(x, m)
      /\ x = s => \A m \in Node \ {s} :
           Hears(m, s) \/ (worker[s].last_loop = WdStale /\ ~Writable(s))
  BY DEF Hanging
<1>i. inbox \in [Node -> SUBSET Node]  BY DEF Aged
<1>p. /\ turn = n /\ turn' = n + 1
      /\ \A m \in Node \ {n} : worker'[m] = worker[m]
      /\ pending' = IF d # 0 /\ n = leader THEN Append(pending, NextDecision(n, d)) ELSE pending
      /\ \A m \in Node : read_only'[m] = IF m = n THEN ReadOnlyAfter(n) ELSE read_only[m]
      /\ \A m \in Node : in_recovery'[m] = IF m = n THEN in_recovery[n] /\ ~Promotes(n)
                                                    ELSE in_recovery[m]
      /\ UNCHANGED <<running, hung, cut, faults, leader, settled, log>>
  BY <1>i, PassChanges
<1>o. OneOut(x)  BY <1>g DEF OneOut
<1>r. \A m \in Node : Reach(m) = Node  BY <1>g, <1>o, Reaches
<1>n. n \in Int /\ leader \in Int  BY <1>g, Counts DEF Node
<1>give. CASE n = leader /\ d # 0 /\ d # s
  <2>a. n # s /\ d \in Node /\ N >= 3 /\ s \notin inbox[n] /\ worker[n].heard[s] = Dead
    BY <1>g, <1>give, Proposes
  <2>t. Dead >= 2 /\ Stall < Dead /\ Stall < WdStale /\ Dead \in Nat /\ Stall \in Nat /\ WdStale \in Nat
    BY Counts DEF Timely
  <2>x. x = s
    <3>a. CASE x # s
      <4>c. n = x => Hears(n, s)  BY <1>g, <3>a
      <4>d. n # x => Hears(n, s)  BY <1>g, <2>a, <3>a DEF Unharmed
      <4>e. InTime(s)  BY <1>g, <3>a DEF Unharmed
      <4>a. Hears(n, s) /\ InTime(s)  BY <4>c, <4>d, <4>e
      <4>b. worker[n].heard[s] <= 1  BY <2>a, <4>a, HeardInTime
      <4>q. QED  BY <2>a, <2>t, <4>b
    <3>q. QED  BY <3>a
  <2>h. worker[s].last_loop >= Dead \/ (worker[s].last_loop = WdStale /\ ~Writable(s))
    BY <1>g, <2>a, <2>x DEF Hears
  <2>s. Stalled(s)'
    <3>a. worker[s].last_loop \in 0 .. WdStale  BY DEF Aged, Memory
    <3>b. worker[s].last_loop > Stall  BY <2>h, <2>t, <3>a
    <3>q. QED  BY <1>p, <2>a, <3>b DEF Stalled
  <2>c. in_recovery'[d]
    <3>a. ~Promotes(n)  BY <1>g, LoyalDecided
    <3>q. QED  BY <1>g, <1>give, <1>p, <2>a, <3>a DEF Loyal
  <2>w. worker'[s] = worker[s] /\ (Writable(s)' => Writable(s))  BY <1>p, <2>a DEF Writable
  <2>v. Overdue(s, d)'  BY <1>g, <1>p, <2>h, <2>s, <2>c, <2>w DEF Overdue, Waits
  <2>o. Out(s, d)'  BY <2>v DEF Out
  <2>e. pending = <<>>  BY <1>g, <1>p, <1>n, <1>give
  <2>q. QED  BY <1>g, <1>give, <1>o, <2>x, <2>o, <2>e, GiveUp
<1>keep. CASE ~(n = leader /\ d # 0 /\ d # s)
  <2>l. Loyal(s)'  BY <1>g, LoyalPass
  <2>a. \A i \in 1 .. Len(pending') : pending'[i].primary = s
    <3>a. CASE n = leader /\ d # 0
      <4>a. d = s /\ pending' = Append(pending, NextDecision(n, d))  BY <1>p, <1>keep, <3>a
      <4>q. QED  BY <1>g, <4>a, Proposed
    <3>b. CASE ~(n = leader /\ d # 0)  BY <1>g, <1>p, <3>b
    <3>q. QED  BY <3>a, <3>b
  <2>u. Unharmed(x)'  BY <1>g, <1>o, UnharmedPass
  <2>t. pending' # <<>> => turn' > leader'
    <3>a. CASE n = leader  BY <1>p, <1>n, <3>a
    <3>b. CASE n # leader  BY <1>g, <1>p, <1>n, <3>b
    <3>q. QED  BY <3>a, <3>b
  <2>h. \A m \in Node \ {x} : Hears(x, m)'
    <3>a. ASSUME NEW m \in Node \ {x} PROVE Hears(x, m)'  BY <1>g, <1>r, HearsPass
    <3>q. QED  BY <3>a
  <2>s. ASSUME x = s, NEW m \in Node \ {s}
        PROVE  Hears(m, s)' \/ (worker'[s].last_loop = WdStale /\ ~Writable(s)')
    <3>a. CASE Hears(m, s)
      <4>a. Hears(m, s)'  BY <1>r, <3>a, HearsPass
      <4>q. QED  BY <4>a
    <3>b. CASE n = s
      <4>a. s \in inbox'[m]
        <5>a. inbox'[m] = IF m = n THEN {} ELSE
                          IF m \in Reach(n) THEN inbox[m] \cup {n} ELSE inbox[m]
          BY <1>i, PassChanges
        <5>q. QED  BY <1>r, <3>b, <5>a
      <4>q. QED  BY <4>a DEF Hears
    <3>c. CASE n # s /\ ~Hears(m, s)
      <4>a. worker[s].last_loop = WdStale /\ ~Writable(s)  BY <1>g, <2>s, <3>c
      <4>b. worker'[s] = worker[s] /\ (Writable(s)' => Writable(s))  BY <1>p, <3>c DEF Writable
      <4>q. QED  BY <4>a, <4>b
    <3>q. QED  BY <3>a, <3>b, <3>c
  <2>v. /\ running' = Node /\ cut' = {} /\ hung' \subseteq {x} /\ settled' /\ leader' \in Node
        /\ faults' # 0 /\ faults' >= MaxFaults
    BY <1>g, <1>p
  <2>q. QED  BY <2>l, <2>a, <2>u, <2>t, <2>h, <2>s, <2>v DEF Hanging
<1>q. QED  BY <1>give, <1>keep

LEMMA HangingTick ==
  ASSUME FollowInv, Aged, Timely, NEW s \in Node, NEW x \in Node, Hanging(s, x), Tick
  PROVE  Hanging(s, x)'
<1>g. /\ Loyal(s) /\ Unharmed(x)
      /\ running = Node /\ cut = {} /\ hung \subseteq {x}
      /\ settled /\ leader \in Node
      /\ faults # 0 /\ faults >= MaxFaults
      /\ \A m \in Node \ {x} : Hears(x, m)
      /\ x = s => \A m \in Node \ {s} :
           Hears(m, s) \/ (worker[s].last_loop = WdStale /\ ~Writable(s))
  BY DEF Hanging
<1>p. /\ ~CanCommit
      /\ \A n \in Node : ~(Writable(n) /\ worker[n].last_loop >= WdStale)
      /\ UNCHANGED <<running, hung, cut, faults, leader, settled, pending, log,
                     in_recovery, read_only, rejoin>>
  BY TickChanges
<1>l. worker'[s].last_loop = Older(worker[s].last_loop, WdStale)  BY TickChanges
<1>t. WdStale >= 2 /\ WdStale \in Nat  BY Counts DEF Timely
<1>e. pending' = <<>>
  <2>a. OneOut(x)  BY <1>g DEF OneOut
  <2>b. HasQuorum(leader)  BY <1>g, <2>a, Elections
  <2>q. QED  BY <1>g, <1>p, <2>b DEF CanCommit, Serving
<1>y. Loyal(s)'  BY <1>g, <1>p DEF Loyal
<1>u. Unharmed(x)'  BY <1>g, <1>t, UnharmedTick
<1>h. ASSUME NEW m \in Node \ {x} PROVE Hears(x, m)'
  <2>a. worker[m].last_loop = 0  BY <1>g, <1>t, InTimeTick DEF Unharmed
  <2>q. QED  BY <1>g, <1>t, <2>a, HearsTick
<1>s. ASSUME x = s, NEW m \in Node \ {s}
      PROVE  Hears(m, s)' \/ (worker'[s].last_loop = WdStale /\ ~Writable(s)')
  <2>n. worker[s].last_loop \in 0 .. WdStale  BY DEF Aged, Memory
  <2>a. CASE worker[s].last_loop < WdStale
    <3>a. Hears(m, s)  BY <1>g, <1>s, <1>t, <2>a
    <3>q. QED  BY <2>a, <3>a, HearsTick
  <2>b. CASE worker[s].last_loop = WdStale
    <3>a. ~Writable(s)  BY <1>p, <1>t, <2>b
    <3>b. worker'[s].last_loop = WdStale  BY <1>l, <1>t, <2>b DEF Older
    <3>c. Writable(s)' => Writable(s)  BY <1>p DEF Writable
    <3>q. QED  BY <3>a, <3>b, <3>c
  <2>q. QED  BY <1>t, <2>n, <2>a, <2>b
<1>v. /\ running' = Node /\ cut' = {} /\ hung' \subseteq {x} /\ settled' /\ leader' \in Node
      /\ faults' # 0 /\ faults' >= MaxFaults
  BY <1>g, <1>p
<1>q. QED  BY <1>e, <1>y, <1>u, <1>h, <1>s, <1>v DEF Hanging

LEMMA HangingStep ==
  ASSUME FollowInv, Aged, Timely, NEW s \in Node, NEW x \in Node, Hanging(s, x), Next, covered'
  PROVE  Hanging(s, x)' \/ \E c \in Node : GivenUp(s, c)'
<1>g. /\ Loyal(s) /\ Unharmed(x)
      /\ running = Node /\ cut = {} /\ hung \subseteq {x}
      /\ settled /\ leader \in Node
      /\ \A i \in 1 .. Len(pending) : pending[i].primary = s
      /\ pending # <<>> => turn > leader
      /\ faults # 0 /\ faults >= MaxFaults
      /\ \A m \in Node \ {x} : Hears(x, m)
      /\ x = s => \A m \in Node \ {s} :
           Hears(m, s) \/ (worker[s].last_loop = WdStale /\ ~Writable(s))
  BY DEF Hanging
<1>o. OneOut(x)  BY <1>g DEF OneOut
<1>f. /\ \A n \in Node : ~Isolate(n) /\ ~Crash(n) /\ ~Hang(n) /\ ~Restart(n)
      /\ \A n, m \in Node : ~CutLink(n, m)
      /\ ~May("depose")
  <2>a. "depose" \in FaultKinds  BY DEF FaultKinds
  <2>q. QED  BY <1>g, <2>a, NoFault
<1>e. \A w \in Node : ~Elect(w)
  <2>b. \A w \in Node : ~Wins(w)  BY <1>g, <1>o, Elections
  <2>q. QED  BY <1>f, <2>b DEF Elect
<1>s. ~Settle /\ ~Heal  BY <1>g DEF Settle, Heal
<1>r. \A n \in Node : ~Rejoin(n)  BY <1>g DEF Rejoin, Loyal
<1>skip. ASSUME NEW n \in Node, Skip(n) PROVE Hanging(s, x)'
  <2>p. UNCHANGED <<running, hung, cut, faults, leader, settled, pending, log, inbox, worker,
                    in_recovery, read_only, rejoin>>
    BY <1>skip DEF Skip, network, raft, memory, postgres
  <2>u. Unharmed(x)' /\ turn = n /\ turn' = n + 1  BY <1>g, <1>o, <1>skip, UnharmedSkip
  <2>t. turn > leader => turn' > leader  BY <1>g, <2>u, Counts DEF Node
  <2>q. QED  BY <1>g, <2>p, <2>u, <2>t DEF Hanging, Loyal, Hears, Writable
<1>wake. ASSUME NEW n \in Node, Wake(n) PROVE Hanging(s, x)'
  <2>p. /\ hung' \subseteq hung
        /\ UNCHANGED <<turn, running, cut, faults, leader, settled, pending, log, inbox, worker,
                       in_recovery, read_only, rejoin>>
    BY <1>wake DEF Wake, raft, memory, postgres
  <2>u. Unharmed(x)'  BY <1>g, <2>p, UnharmedSame
  <2>q. QED  BY <1>g, <2>p, <2>u DEF Hanging, Loyal, Hears, Writable
<1>wd. ASSUME NEW n \in Node, Watchdog(n) PROVE Hanging(s, x)'
  <2>p. /\ read_only' = [read_only EXCEPT ![n] = TRUE]
        /\ UNCHANGED <<turn, running, hung, cut, faults, leader, settled, pending, log, inbox, worker,
                       in_recovery, rejoin>>
    BY <1>wd DEF Watchdog, network, raft, memory
  <2>u. Unharmed(x)'  BY <1>g, <2>p, UnharmedSame
  <2>r. read_only[s] => read_only'[s]  BY <2>p DEF FollowInv, Roles
  <2>w. Writable(s)' => Writable(s)  BY <2>p, <2>r DEF Writable
  <2>q. QED  BY <1>g, <2>p, <2>u, <2>w DEF Hanging, Loyal, Hears
<1>commit. CASE Commit
  <2>p. /\ UNCHANGED <<turn, running, hung, cut, faults, leader, settled, inbox, worker,
                       in_recovery, read_only, rejoin>>
        /\ pending # <<>>
    BY <1>commit, CommitChanges
  <2>a. \A i \in 1 .. Len(log') : log'[i].primary = s  BY <1>g, <1>commit, CommitChanges DEF Loyal
  <2>b. \A i \in 1 .. Len(pending') : pending'[i].primary = s  BY <1>g, <1>commit, CommitChanges
  <2>y. Loyal(s)'  BY <1>g, <2>p, <2>a DEF Loyal
  <2>u. Unharmed(x)'  BY <1>g, <2>p, UnharmedSame
  <2>q. QED  BY <1>g, <2>p, <2>b, <2>y, <2>u DEF Hanging, Hears, Writable
<1>q. QED
  BY <1>f, <1>e, <1>s, <1>r, <1>skip, <1>wake, <1>wd, <1>commit, HangingPass, HangingTick
  DEF Next, RaftStep, Fault

-----------------------------------------------------------------------------
(* A node that crashes or is cut off, and elections.                       *)
LEMMA MissingPass ==
  ASSUME FollowInv, Aged, Timely, N >= 3, NEW s \in Node, OneOut(s), Loyal(s), s \in running, InTime(s),
         Missing(s), NEW n \in Node, NEW d \in 0 .. N, Pass(n, d)
  PROVE  Missing(s)'
<1>i. inbox \in [Node -> SUBSET Node]  BY DEF Aged
<1>p. /\ \A m \in Node : inbox'[m] = IF m = n THEN {} ELSE
                                     IF m \in Reach(n) THEN inbox[m] \cup {n} ELSE inbox[m]
      /\ \A m \in Node \ {n} : worker'[m] = worker[m]
      /\ worker'[n].heard = Ages(n) /\ worker'[n].last_loop = 0
      /\ worker'[n].applied_read_only =
           IF in_recovery[n] THEN "none" ELSE IF Authorized(n) THEN "off" ELSE "on"
      /\ worker'[n].authorized_since = NewSince(n)
      /\ \A m \in Node : read_only'[m] = IF m = n THEN ReadOnlyAfter(n) ELSE read_only[m]
      /\ UNCHANGED <<running, cut>>
  BY <1>i, PassChanges
<1>r. /\ cut = {} => \A m \in Node : Reach(m) = running
      /\ cut # {} => Reach(s) = {s} /\ \A m \in Node \ {s} : Reach(m) = Node \ {s}
  BY Reaches
<1>t. /\ Dead \in Nat /\ Lease \in Nat /\ Lease + 2 <= Dead /\ Dead >= 3 /\ WdStale \in Nat
      /\ worker[s].last_loop \in 0 .. WdStale /\ worker[s].last_loop <= 1
      /\ \A m \in Node : worker[s].heard[m] \in 0 .. Dead
  <2>a. /\ worker[s].last_loop \in 0 .. WdStale
        /\ \A m \in Node : worker[s].heard[m] \in 0 .. Dead
    BY DEF Aged, Memory
  <2>q. QED  BY <2>a, Counts DEF Timely, InTime
<1> SUFFICES ASSUME NEW k \in Node \ {s}, s \notin inbox'[k]
             PROVE  /\ cut' # {} => \A m \in Node \ {s} :
                         worker'[k].heard[s] <= IF m \in inbox'[s] THEN worker'[s].last_loop
                                                                    ELSE worker'[s].heard[m] + 1
                    /\ worker'[k].heard[s] >= Dead - 1 + worker'[s].last_loop => Fenced(s)'
  BY DEF Missing
<1>k. worker[k].heard[s] \in 0 .. Dead  BY DEF Aged, Memory
<1>m. s \notin inbox[k] =>
        /\ cut # {} => \A m \in Node \ {s} :
             worker[k].heard[s] <= IF m \in inbox[s] THEN worker[s].last_loop ELSE worker[s].heard[m] + 1
        /\ worker[k].heard[s] >= Dead - 1 + worker[s].last_loop => Fenced(s)
  BY DEF Missing
<1>a. CASE n # s
  <2>s. /\ worker'[s] = worker[s] /\ read_only'[s] = read_only[s]
        /\ cut # {} => inbox'[s] = inbox[s]
    <3>a. cut # {} => s \notin Reach(n)  BY <1>a, <1>r
    <3>q. QED  BY <1>a, <1>p, <3>a
  <2>f. Fenced(s) => Fenced(s)'  BY <2>s DEF Fenced
  <2>h. worker'[k].heard[s] = 0 \/ (s \notin inbox[k] /\ worker'[k].heard[s] = worker[k].heard[s])
    <3>a. CASE k = n
      <4>a. worker'[k].heard[s] = IF s \in inbox[k] THEN 0 ELSE worker[k].heard[s]
        BY <1>p, <3>a, AgesAre
      <4>q. QED  BY <4>a
    <3>b. CASE k # n  BY <1>p, <3>b
    <3>q. QED  BY <3>a, <3>b
  <2>a. CASE worker'[k].heard[s] = 0  BY <1>t, <1>p, <2>s, <2>a
  <2>b. CASE s \notin inbox[k] /\ worker'[k].heard[s] = worker[k].heard[s]
    BY <1>m, <1>p, <2>s, <2>f, <2>b
  <2>q. QED  BY <2>h, <2>a, <2>b
<1>b. CASE n = s
  <2>k. k \in running  BY DEF OneOut
  <2>c. cut # {}
    <3>a. CASE cut = {}
      <4>a. s \in inbox'[k]  BY <1>b, <1>p, <1>r, <2>k, <3>a
      <4>q. QED  BY <4>a
    <3>q. QED  BY <3>a
  <2>u. worker'[k] = worker[k] /\ s \notin inbox[k] /\ inbox'[s] = {}
    <3>a. k \notin Reach(s)  BY <1>r, <2>c
    <3>q. QED  BY <1>b, <1>p, <3>a
  <2>a. ASSUME NEW m \in Node \ {s}
        PROVE  /\ Ages(s)[m] = worker'[s].heard[m] /\ Ages(s)[m] \in 0 .. Dead
               /\ worker[k].heard[s] <= Ages(s)[m] + 1
    <3>a. Ages(s)[m] = (IF m \in inbox[s] THEN 0 ELSE worker[s].heard[m]) /\ Ages(s)[m] \in 0 .. Dead
      BY AgesAre
    <3>b. worker[k].heard[s] <= IF m \in inbox[s] THEN worker[s].last_loop ELSE worker[s].heard[m] + 1
      BY <1>m, <2>c, <2>u
    <3>c. worker[k].heard[s] <= Ages(s)[m] + 1
      <4>a. CASE m \in inbox[s]  BY <1>t, <1>k, <3>a, <3>b, <4>a
      <4>b. CASE m \notin inbox[s]  BY <3>a, <3>b, <4>b
      <4>q. QED  BY <4>a, <4>b
    <3>q. QED  BY <1>b, <1>p, <3>a, <3>c
  <2>b. ASSUME worker[k].heard[s] >= Dead - 1 PROVE Fenced(s)'
    <3>a. \A m \in Node \ {s} : ~(Ages(s)[m] < Lease)  BY <1>t, <1>k, <2>a, <2>b
    <3>b. ~QuorumOk(s)  BY <3>a, NoQuorum, Counts
    <3>c. ~RawAuth(s)
      <4>a. Decided(s) # NoDecision  BY GoesBy
      <4>q. QED  BY <3>b, <4>a DEF RawAuth
    <3>d. ~Authorized(s) /\ NewSince(s) = Never  BY <3>c DEF Authorized, NewSince
    <3>e. worker'[s].applied_read_only = "on"  BY <1>b, <1>p, <3>d DEF Loyal
    <3>f. read_only'[s]
      <4>a. Aged'  BY PassAged
      <4>q. QED  BY <3>e, <4>a DEF Aged
    <3>q. QED  BY <1>b, <1>p, <3>d, <3>e, <3>f DEF Fenced
  <2>l. worker'[s].last_loop = 0  BY <1>b, <1>p
  <2>q. QED  BY <1>t, <2>u, <2>a, <2>b, <2>l
<1>q. QED  BY <1>a, <1>b

(* No worker stalls and nobody asks: only a silent primary is replaced.    *)
LEMMA CalmPass ==
  ASSUME FollowInv, Aged, Timely, NEW s \in Node, Loyal(s), Calm, NEW n \in Node, InTime(n),
         NEW d \in 0 .. N, Pass(n, d)
  PROVE  /\ d # s /\ ~Reconfirm(n) /\ Asking(n) = {}
         /\ Calm'
<1>i. inbox \in [Node -> SUBSET Node] /\ worker[n].last_loop \in 0 .. WdStale
  BY DEF Aged, Memory
<1>p. /\ d \in Choices(n)
      /\ \A m \in Node \ {n} : worker'[m] = worker[m]
      /\ worker'[n].asking = Asking(n) /\ worker'[n].reconfirm_pending = Reconfirm(n)
      /\ UNCHANGED <<log, holders>>
  BY <1>i, PassChanges
<1>a. ~Stalled(n)
  <2>a. worker[n].last_loop <= 1 /\ Stall \in Nat /\ Stall >= 1  BY <1>i, Counts DEF InTime
  <2>q. QED  BY <1>i, <2>a DEF Stalled
<1>b. ~Reconfirm(n)  BY <1>a DEF Reconfirm, Calm
<1>c. Asking(n) = {}
  <2>a. inbox[n] \subseteq Node  BY <1>i
  <2>q. QED  BY <2>a DEF Asking, Calm
<1>d. d # s
  <2>z. s # 0  BY Counts DEF Node
  <2>k. Decided(n).primary = s /\ Decided(n) # NoDecision  BY LoyalDecided
  <2>a. CASE s \in Live(n)
    <3>a. Candidates(n) = {}  BY <1>b, <1>c, <2>k, <2>a DEF Candidates
    <3>q. QED  BY <1>p, <2>z, <3>a DEF Choices
  <2>b. CASE s \notin Live(n)
    <3>a. Candidates(n) = Live(n)  BY <2>k, <2>b DEF Candidates
    <3>q. QED  BY <1>p, <2>z, <2>b, <3>a DEF Choices
  <2>q. QED  BY <2>a, <2>b
<1>e. Calm'
  <2>b. \A m \in Node : ~worker'[m].reconfirm_pending /\ worker'[m].asking = {}
    BY <1>p, <1>b, <1>c DEF Calm
  <2>q. QED  BY <1>p, <2>b DEF Calm
<1>q. QED  BY <1>b, <1>c, <1>d, <1>e

(* With one decision in the history a node has it from the start.          *)
LEMMA OneDecision ==
  ASSUME FollowInv, Aged, Calm, NEW n \in Node
  PROVE  /\ applied[n] = 1 /\ Applied(n) = 1
         /\ Decided(n) = worker[n].decided /\ ~Adopts(n)
<1>a. /\ Applied(n) \in 1 .. Len(log) /\ applied[n] \in 1 .. Len(log)
      /\ Decided(n) = log[Applied(n)] /\ Len(log) = 1
  BY GoesBy DEF Calm
<1>b. applied[n] = 1 /\ Applied(n) = 1  BY <1>a
<1>c. worker[n].decided = log[1]  BY <1>b DEF Aged
<1>d. Published(n) = log[1]  BY <1>b DEF Published, DecisionAt
<1>q. QED  BY <1>a, <1>b, <1>c, <1>d DEF Adopts

(* The leader x, cut off, reads its own clock alone.                       *)
LEMMA CutOff ==
  ASSUME FollowInv, Aged, NEW x \in Node, OneOut(x), cut # {}, NEW n \in Node, NEW d \in 0 .. N, Pass(n, d)
  PROVE  /\ n # x => worker'[x] = worker[x] /\ inbox'[x] = inbox[x]
         /\ n = x => /\ inbox'[x] = {} /\ turn = x
                     /\ worker'[x].decided = Decided(x)
                     /\ worker'[x].last_proposed = LastProposed(x, d)
                     /\ \A m \in Node : worker'[x].heard[m] =
                          IF m \in inbox[x] THEN 0 ELSE worker[x].heard[m]
<1>p. /\ turn = n
      /\ inbox'[x] = IF x = n THEN {} ELSE IF x \in Reach(n) THEN inbox[x] \cup {n} ELSE inbox[x]
      /\ x # n => worker'[x] = worker[x]
      /\ worker'[n].heard = Ages(n) /\ worker'[n].decided = Decided(n)
      /\ worker'[n].last_proposed = LastProposed(n, d)
  <2>a. inbox \in [Node -> SUBSET Node]  BY DEF Aged
  <2>q. QED  BY <2>a, PassChanges
<1>r. n # x => x \notin Reach(n)  BY Reaches
<1>a. \A m \in Node : Ages(n)[m] = IF m \in inbox[n] THEN 0 ELSE worker[n].heard[m]  BY AgesAre
<1>q. QED  BY <1>p, <1>r, <1>a

LEMMA SpreadPass ==
  ASSUME FollowInv, Aged, NEW x \in Node, OneOut(x), cut # {}, Spread(x),
         NEW n \in Node, NEW d \in 0 .. N, Pass(n, d)
  PROVE  Spread(x)'
<1>t. turn = n /\ turn' = n + 1 /\ n \in Int /\ x \in Int
  <2>a. turn = n /\ turn' = n + 1  BY DEF Pass
  <2>b. n \in Int /\ x \in Int  BY Counts DEF Node
  <2>q. QED  BY <2>a, <2>b
<1>h. \A m \in Node : worker[x].heard[m] \in 0 .. Dead /\ Dead \in Nat  BY Counts DEF Aged, Memory
<1>a. CASE n # x
  <2>a. worker'[x] = worker[x] /\ inbox'[x] = inbox[x]  BY <1>a, CutOff
  <2>b. turn > x <=> turn' > x  BY <1>t, <1>a
  <2>q. QED  BY <2>a, <2>b DEF Spread
<1>b. CASE n = x
  <2>a. /\ inbox'[x] = {} /\ turn = x
        /\ \A m \in Node : worker'[x].heard[m] = IF m \in inbox[x] THEN 0 ELSE worker[x].heard[m]
    BY <1>b, CutOff
  <2>b. ASSUME NEW m \in Node \ {x}, NEW k \in Node \ {x}
        PROVE  worker'[x].heard[m] <= worker'[x].heard[k] + 2
    <3>a. CASE m \in inbox[x]  BY <1>h, <2>a, <3>a
    <3>b. CASE m \notin inbox[x]
      <4>a. worker[x].heard[m] <= IF k \in inbox[x] THEN 2 ELSE worker[x].heard[k] + 2
        BY <1>t, <2>a, <3>b DEF Spread
      <4>q. QED  BY <1>h, <2>a, <3>b, <4>a
    <3>q. QED  BY <3>a, <3>b
  <2>q. QED  BY <2>a, <2>b DEF Spread
<1>q. QED  BY <1>a, <1>b

LEMMA SpreadTick ==
  ASSUME FollowInv, Aged, Timely, NEW x \in Node, Spread(x), Tick
  PROVE  Spread(x)'
<1>p. turn = N + 1 /\ turn' = 1 /\ inbox' = inbox  BY TickChanges
<1>x. x \in Int /\ x >= 1 /\ turn > x /\ ~(turn' > x)  BY <1>p, Counts DEF Node
<1>h. ASSUME NEW m \in Node
      PROVE  /\ worker[x].heard[m] \in 0 .. Dead /\ Dead \in Nat
             /\ worker'[x].heard[m] \in 0 .. Dead
             /\ worker'[x].heard[m] <= worker[x].heard[m] + 1
             /\ worker'[x].heard[m] = worker[x].heard[m] + 1 \/ worker'[x].heard[m] = Dead
  <2>a. worker'[x].heard[m] = Older(worker[x].heard[m], Dead)  BY TickChanges
  <2>b. worker[x].heard[m] \in 0 .. Dead /\ Dead \in Nat  BY Counts DEF Aged, Memory
  <2>q. QED  BY <2>a, <2>b DEF Older, Never
<1> SUFFICES ASSUME NEW m \in Node \ {x}, NEW k \in Node \ {x}, m \notin inbox[x]
             PROVE  worker'[x].heard[m] <= IF k \in inbox[x] THEN 2 ELSE worker'[x].heard[k] + 2
  BY <1>p, <1>x DEF Spread
<1>s. worker[x].heard[m] <= IF k \in inbox[x] THEN 1 ELSE worker[x].heard[k] + 2
  BY <1>x DEF Spread
<1>m. /\ worker[x].heard[m] \in 0 .. Dead /\ Dead \in Nat /\ worker'[x].heard[m] \in 0 .. Dead
      /\ worker'[x].heard[m] <= worker[x].heard[m] + 1
  BY <1>h
<1>k. /\ worker[x].heard[k] \in 0 .. Dead /\ worker'[x].heard[k] \in 0 .. Dead
      /\ worker'[x].heard[k] = worker[x].heard[k] + 1 \/ worker'[x].heard[k] = Dead
  BY <1>h
<1>q. QED  BY <1>s, <1>m, <1>k

(* It proposes once at most.                                               *)
LEMMA LostProposesNot ==
  ASSUME FollowInv, Aged, Timely, NEW x \in Node, OneOut(x), cut # {}, Calm, Lost(x),
         NEW d \in 0 .. N, Pass(x, d)
  PROVE  d = 0
<1> SUFFICES ASSUME d # 0 PROVE FALSE
  OBVIOUS
<1>p. d \in Choices(x)  BY PassChanges DEF Aged
<1>l. Cardinality(Live(x)) >= Majority /\ ~InFlight(x)  BY <1>p DEF Choices
<1>t. Retry \in Nat /\ Retry >= 2 /\ Dead \in Nat  BY Counts DEF Timely
<1>w. worker[x].last_proposed.age \in 0 .. Retry  BY DEF Aged, Memory
<1>d. Decided(x) = worker[x].decided /\ ~Adopts(x)  BY OneDecision
<1>a. ASSUME NEW m \in Node \ {x} PROVE m \notin Live(x)
  <2>a. m \notin inbox[x]  BY DEF Lost
  <2>b. worker[x].heard[m] >= Dead  BY <1>d, <1>l, <1>t, <1>w DEF Lost, InFlight
  <2>c. Ages(x)[m] = worker[x].heard[m] /\ Ages(x)[m] \in 0 .. Dead  BY <2>a, AgesAre
  <2>q. QED  BY <1>t, <2>b, <2>c DEF Live
<1>b. Live(x) \subseteq {x}  BY <1>a DEF Live
<1>c. N >= 2  BY Reaches
<1>q. QED  BY <1>b, <1>c, <1>l, Alone

LEMMA LostPass ==
  ASSUME FollowInv, Aged, NEW x \in Node, OneOut(x), cut # {}, Calm, Lost(x),
         NEW n \in Node, NEW d \in 0 .. N, Pass(n, d), n = x => d = 0
  PROVE  Lost(x)'
<1>a. CASE n # x
  <2>a. worker'[x] = worker[x] /\ inbox'[x] = inbox[x]  BY <1>a, CutOff
  <2>q. QED  BY <2>a DEF Lost
<1>b. CASE n = x
  <2>a. /\ inbox'[x] = {} /\ worker'[x].decided = Decided(x)
        /\ worker'[x].last_proposed = LastProposed(x, d)
        /\ \A m \in Node : worker'[x].heard[m] = IF m \in inbox[x] THEN 0 ELSE worker[x].heard[m]
    BY <1>b, CutOff
  <2>d. Decided(x) = worker[x].decided /\ ~Adopts(x)  BY OneDecision
  <2>b. worker'[x].last_proposed = worker[x].last_proposed  BY <1>b, <2>a, <2>d DEF LastProposed
  <2>q. QED  BY <2>a, <2>b, <2>d DEF Lost
<1>q. QED  BY <1>a, <1>b

LEMMA LostTick ==
  ASSUME FollowInv, Aged, Timely, NEW x \in Node, Lost(x), Tick
  PROVE  Lost(x)'
<1>p. /\ inbox' = inbox /\ worker'[x].decided = worker[x].decided
      /\ worker'[x].last_proposed =
           [seq |-> worker[x].last_proposed.seq, age |-> Older(worker[x].last_proposed.age, Retry)]
      /\ worker'[x].heard = [m \in Node |-> Older(worker[x].heard[m], Dead)]
  BY TickChanges
<1>t. Retry \in Nat /\ Retry >= 2 /\ Dead \in Nat /\ Dead >= 3  BY Counts DEF Timely
<1>w. worker[x].last_proposed.age \in 0 .. Retry  BY DEF Aged, Memory
<1> SUFFICES ASSUME NEW m \in Node \ {x} PROVE
      /\ m \notin inbox'[x]
      /\ \/ worker'[x].heard[m] >= Dead
         \/ /\ worker'[x].last_proposed.seq = worker'[x].decided.seq + 1
            /\ worker'[x].last_proposed.age <= 1
            /\ worker'[x].heard[m] >= Dead - 2 + worker'[x].last_proposed.age
  BY DEF Lost
<1>h. /\ worker[x].heard[m] \in 0 .. Dead
      /\ worker'[x].heard[m] = IF worker[x].heard[m] >= Dead THEN worker[x].heard[m]
                                                             ELSE worker[x].heard[m] + 1
  <2>a. worker[x].heard[m] \in 0 .. Dead  BY DEF Aged, Memory
  <2>q. QED  BY <1>p, <1>t, <2>a DEF Older, Never
<1>m. m \notin inbox'[x]  BY <1>p DEF Lost
<1>g. worker'[x].last_proposed.seq = worker[x].last_proposed.seq  BY <1>p
<1>a. CASE worker[x].heard[m] >= Dead  BY <1>m, <1>h, <1>a
<1>b. CASE /\ worker[x].last_proposed.seq = worker[x].decided.seq + 1
           /\ worker[x].last_proposed.age <= 1
           /\ worker[x].heard[m] >= Dead - 2 + worker[x].last_proposed.age
  <2>a. CASE worker[x].last_proposed.age = 0
    <3>a. worker'[x].last_proposed.age = 1  BY <1>p, <1>t, <2>a DEF Older, Never
    <3>b. worker'[x].heard[m] >= Dead - 1  BY <1>t, <1>h, <1>b, <2>a
    <3>q. QED  BY <1>m, <1>g, <1>p, <1>b, <3>a, <3>b, <1>t
  <2>b. CASE worker[x].last_proposed.age = 1  BY <1>t, <1>h, <1>m, <1>b, <2>b
  <2>q. QED  BY <1>w, <1>b, <2>a, <2>b
<1>q. QED  BY <1>a, <1>b DEF Lost

LEMMA MissingTick ==
  ASSUME FollowInv, Aged, Timely, Tick, NEW s \in Node, InTime(s), Missing(s)
  PROVE  Missing(s)'
<1>t. WdStale >= 2 /\ Dead \in Nat  BY Counts DEF Timely
<1>l. worker[s].last_loop = 0 /\ worker'[s].last_loop = 1  BY <1>t, InTimeTick
<1>p. /\ worker'[s].authorized_since = Older(worker[s].authorized_since, Confirm)
      /\ worker'[s].applied_read_only = worker[s].applied_read_only
      /\ UNCHANGED <<inbox, cut, read_only>>
  BY TickChanges
<1>f. Fenced(s) => Fenced(s)'  BY <1>p DEF Fenced, Older
<1>h. ASSUME NEW n \in Node, NEW m \in Node
      PROVE  /\ worker[n].heard[m] \in 0 .. Dead /\ worker'[n].heard[m] \in 0 .. Dead
             /\ worker'[n].heard[m] <= worker[n].heard[m] + 1
             /\ worker[n].heard[m] < Dead => worker'[n].heard[m] = worker[n].heard[m] + 1
             /\ worker[n].heard[m] = Dead => worker'[n].heard[m] = Dead
  <2>a. worker'[n].heard[m] = Older(worker[n].heard[m], Dead)  BY TickChanges
  <2>b. worker[n].heard[m] \in 0 .. Dead  BY DEF Aged, Memory
  <2>q. QED  BY <1>t, <2>a, <2>b DEF Older, Never
<1> SUFFICES ASSUME NEW k \in Node \ {s}, s \notin inbox'[k]
             PROVE  /\ cut' # {} => \A m \in Node \ {s} :
                         worker'[k].heard[s] <= IF m \in inbox'[s] THEN worker'[s].last_loop
                                                                    ELSE worker'[s].heard[m] + 1
                    /\ worker'[k].heard[s] >= Dead - 1 + worker'[s].last_loop => Fenced(s)'
  BY DEF Missing
<1>m. /\ cut # {} => \A m \in Node \ {s} :
           worker[k].heard[s] <= IF m \in inbox[s] THEN worker[s].last_loop ELSE worker[s].heard[m] + 1
      /\ worker[k].heard[s] >= Dead - 1 + worker[s].last_loop => Fenced(s)
  BY <1>p DEF Missing
<1>k. /\ worker[k].heard[s] \in 0 .. Dead /\ worker'[k].heard[s] \in 0 .. Dead
      /\ worker'[k].heard[s] <= worker[k].heard[s] + 1
  BY <1>h
<1>a. ASSUME cut # {}, NEW m \in Node \ {s}
      PROVE  worker'[k].heard[s] <= IF m \in inbox[s] THEN 1 ELSE worker'[s].heard[m] + 1
  <2>a. worker[k].heard[s] <= IF m \in inbox[s] THEN 0 ELSE worker[s].heard[m] + 1
    BY <1>a, <1>l, <1>m
  <2>b. /\ worker[s].heard[m] \in 0 .. Dead /\ worker'[s].heard[m] \in 0 .. Dead
        /\ worker[s].heard[m] < Dead => worker'[s].heard[m] = worker[s].heard[m] + 1
        /\ worker[s].heard[m] = Dead => worker'[s].heard[m] = Dead
    BY <1>h
  <2>c. CASE m \in inbox[s]  BY <1>k, <2>a, <2>c
  <2>d. CASE m \notin inbox[s]  BY <1>k, <1>t, <2>a, <2>b, <2>d
  <2>q. QED  BY <2>c, <2>d
<1>b. worker'[k].heard[s] >= Dead => Fenced(s)'  BY <1>t, <1>f, <1>k, <1>l, <1>m
<1>q. QED  BY <1>t, <1>k, <1>p, <1>l, <1>a, <1>b

(* Only the leader x that is cut off, or one that gives up s.              *)
LEMMA SteadyProposes ==
  ASSUME FollowInv, Aged, Timely, NEW s \in Node, NEW x \in Node, Steady(s, x),
         NEW n \in Node, NEW d \in 0 .. N, Pass(n, d), n = leader, d # 0
  PROVE  /\ n # s /\ d # s /\ d \in Node /\ N >= 3 /\ pending = <<>> /\ settled /\ faults # 0
         /\ s \notin inbox[n] /\ worker[n].heard[s] = Dead
         /\ x = s \/ (n = x /\ cut # {} /\ Waiting(s, x)')
<1>g. /\ Loyal(s) /\ Fresh /\ Calm
      /\ OneOut(x) /\ Unharmed(x) /\ hung = {} /\ (x \in running => InTime(x))
      /\ Led /\ Contact(s, x) /\ Waiting(s, x)
  BY DEF Steady
<1>p. /\ n \in running /\ turn = n
      /\ pending' = Append(pending, NextDecision(n, d))
      /\ UNCHANGED <<leader, cut>>
  <2>a. inbox \in [Node -> SUBSET Node]  BY DEF Aged
  <2>q. QED  BY <2>a, PassChanges
<1>n. InTime(n)  BY <1>g, <1>p DEF Unharmed
<1>d. d # s  BY <1>g, <1>n, CalmPass
<1>a. n # s /\ d \in Node /\ N >= 3 /\ s \notin inbox[n] /\ worker[n].heard[s] = Dead
  BY <1>g, <1>d, Proposes
<1>t. Dead \in Nat /\ Dead >= 3 /\ WdStale \in Nat  BY Counts DEF Timely
<1>s. settled
  <2>a. turn # N + 1 /\ leader # 0  BY <1>p, Counts DEF Node
  <2>q. QED  BY <1>g, <2>a DEF Led
<1>h. ~Hears(n, s) \/ ~InTime(s)
  <2>a. ASSUME Hears(n, s), InTime(s) PROVE FALSE
    <3>a. worker[n].heard[s] <= 1  BY <1>a, <2>a, HeardInTime
    <3>q. QED  BY <1>a, <1>t, <3>a
  <2>q. QED  BY <2>a
<1>f. faults # 0  BY <1>g, <1>h, <1>a DEF Fresh
<1>x. CASE x = s
  <2>a. pending = <<>>  BY <1>g, <1>x DEF Waiting
  <2>q. QED  BY <1>d, <1>a, <1>s, <1>f, <1>x, <2>a
<1>y. CASE x # s
  <2>a. n = x  BY <1>g, <1>h, <1>y, <1>a DEF Unharmed
  <2>b. cut # {} /\ Spread(x)  BY <1>g, <1>h, <1>y, <2>a DEF Contact, Unharmed
  <2>c. pending = <<>>
    <3>a. CASE pending # <<>>
      <4>a. Lost(x)  BY <1>g, <3>a DEF Waiting
      <4>b. d = 0  BY <1>g, <2>a, <2>b, <4>a, LostProposesNot
      <4>q. QED  BY <4>b
    <3>q. QED  BY <3>a
  <2>d. /\ inbox'[x] = {} /\ turn = x
        /\ worker'[x].decided = Decided(x)
        /\ worker'[x].last_proposed = LastProposed(x, d)
        /\ \A m \in Node : worker'[x].heard[m] = IF m \in inbox[x] THEN 0 ELSE worker[x].heard[m]
    BY <1>g, <2>a, <2>b, CutOff
  <2>e. worker'[x].last_proposed = [seq |-> Decided(x).seq + 1, age |-> 0]
    BY <2>d DEF LastProposed, NextDecision
  <2>f. ASSUME NEW m \in Node \ {x} PROVE worker'[x].heard[m] >= Dead - 2
    <3>c. ~(turn > x)  BY <2>d, Counts DEF Node
    <3>a. worker[x].heard[s] <= IF m \in inbox[x] THEN 2 ELSE worker[x].heard[m] + 2
      BY <1>a, <1>y, <2>a, <2>b, <3>c DEF Spread
    <3>b. worker[x].heard[m] \in 0 .. Dead  BY DEF Aged, Memory
    <3>q. QED  BY <1>a, <1>t, <2>a, <2>d, <3>a, <3>b
  <2>l. Lost(x)'
    <3>a. ASSUME NEW m \in Node \ {x} PROVE
            /\ m \notin inbox'[x]
            /\ worker'[x].last_proposed.seq = worker'[x].decided.seq + 1
            /\ worker'[x].last_proposed.age <= 1
            /\ worker'[x].heard[m] >= Dead - 2 + worker'[x].last_proposed.age
      BY <1>t, <2>d, <2>e, <2>f
    <3>q. QED  BY <3>a DEF Lost
  <2>w. Waiting(s, x)'
    <3>a. Len(pending') = 1 /\ pending'[1].primary = d  BY <1>p, <2>c, Proposed
    <3>q. QED  BY <1>d, <1>p, <1>y, <2>a, <2>b, <2>l, <3>a DEF Waiting
  <2>q. QED  BY <1>d, <1>a, <1>s, <1>f, <2>a, <2>b, <2>c, <2>w
<1>q. QED  BY <1>x, <1>y

LEMMA SteadyGivesUp ==
  ASSUME FollowInv, Aged, Timely, NEW s \in Node, NEW x \in Node, Steady(s, x),
         NEW n \in Node, NEW d \in 0 .. N, Pass(n, d), n = leader, d # 0, x = s
  PROVE  \E c \in Node : GivenUp(s, c)'
<1>g. /\ Loyal(s) /\ Fresh /\ Calm
      /\ OneOut(x) /\ Unharmed(x) /\ hung = {} /\ (x \in running => InTime(x))
      /\ Led /\ Contact(s, x) /\ Waiting(s, x)
  BY DEF Steady
<1>a. /\ n # s /\ d # s /\ d \in Node /\ N >= 3 /\ pending = <<>> /\ settled /\ faults # 0
      /\ s \notin inbox[n] /\ worker[n].heard[s] = Dead
  BY SteadyProposes
<1>f. faults >= MaxFaults  BY <1>g, <1>a DEF Fresh
<1>i. inbox \in [Node -> SUBSET Node]  BY DEF Aged
<1>p. /\ \A m \in Node : inbox'[m] = IF m = n THEN {} ELSE
                                     IF m \in Reach(n) THEN inbox[m] \cup {n} ELSE inbox[m]
      /\ \A m \in Node \ {n} : worker'[m] = worker[m]
      /\ \A m \in Node : read_only'[m] = IF m = n THEN ReadOnlyAfter(n) ELSE read_only[m]
      /\ UNCHANGED <<running, cut, log>>
  BY <1>i, PassChanges
<1>t. /\ Dead \in Nat /\ Lease \in Nat /\ Lease + 2 <= Dead /\ WdStale \in Nat
  BY Counts DEF Timely
<1>o. Out(s, d)'
  <2>a. CASE s \notin running  BY <1>p, <2>a DEF Out
  <2>b. CASE s \in running
    <3>l. worker[s].last_loop \in 0 .. WdStale /\ worker[s].last_loop <= 1
      <4>a. worker[s].last_loop \in 0 .. WdStale  BY DEF Aged, Memory
      <4>q. QED  BY <1>g, <2>b, <4>a, Counts DEF InTime
    <3>w. worker'[s] = worker[s] /\ read_only'[s] = read_only[s]  BY <1>a, <1>p
    <3>m. /\ cut # {} => \A m \in Node \ {s} :
               worker[n].heard[s] <= IF m \in inbox[s] THEN worker[s].last_loop ELSE worker[s].heard[m] + 1
          /\ worker[n].heard[s] >= Dead - 1 + worker[s].last_loop => Fenced(s)
      BY <1>a, <1>g, <2>b DEF Missing, Contact
    <3>a. Fenced(s)  BY <1>a, <1>t, <3>l, <3>m
    <3>b. ASSUME cut # {}, NEW m \in Node \ {s} PROVE m \notin inbox'[s] /\ worker'[s].heard[m] >= Lease
      <4>a. Reach(n) = Node \ {s}  BY <1>a, <1>g, <3>b, Reaches
      <4>b. inbox'[s] = inbox[s]  BY <1>a, <1>p, <4>a
      <4>h. worker[s].heard[m] \in 0 .. Dead  BY DEF Aged, Memory
      <4>e. worker[n].heard[s] <= IF m \in inbox[s] THEN worker[s].last_loop ELSE worker[s].heard[m] + 1
        BY <3>b, <3>m
      <4>d. m \notin inbox[s]  BY <1>a, <1>t, <3>l, <4>e
      <4>f. worker[n].heard[s] = Dead  BY <1>a
      <4>c. worker[s].heard[m] >= Lease  BY <1>t, <4>d, <4>e, <4>f, <4>h
      <4>q. QED  BY <3>w, <4>b, <4>c, <4>d
    <3>e. worker'[s].authorized_since = Never /\ worker'[s].authorized_since <= 0
      BY <3>a, <3>w DEF Fenced, Never
    <3>f. read_only'[s] /\ worker'[s].applied_read_only # "off"  BY <3>a, <3>w DEF Fenced
    <3>c. Yields(s)'  BY <1>p, <3>b, <3>e, <3>f DEF Yields
    <3>q. QED  BY <3>c DEF Out
  <2>q. QED  BY <2>a, <2>b
<1>q. QED  BY <1>g, <1>a, <1>f, <1>o, GiveUp

LEMMA WaitingPass ==
  ASSUME FollowInv, Aged, NEW s \in Node, NEW x \in Node, Steady(s, x),
         NEW n \in Node, NEW d \in 0 .. N, Pass(n, d), ~(n = leader /\ d # 0)
  PROVE  Waiting(s, x)'
<1>g. /\ Loyal(s) /\ Fresh /\ Calm
      /\ OneOut(x) /\ Unharmed(x) /\ hung = {} /\ (x \in running => InTime(x))
      /\ Led /\ Contact(s, x) /\ Waiting(s, x)
  BY DEF Steady
<1>p. UNCHANGED <<pending, leader, cut>>
  <2>a. inbox \in [Node -> SUBSET Node]  BY DEF Aged
  <2>q. QED  BY <2>a, PassChanges
<1> SUFFICES ASSUME pending # <<>> PROVE Lost(x)'
  BY <1>g, <1>p DEF Waiting
<1>a. leader = x /\ cut # {} /\ Lost(x)  BY <1>g DEF Waiting
<1>q. QED  BY <1>g, <1>a, LostPass

LEMMA SteadyPass ==
  ASSUME FollowInv, Aged, Timely, NEW s \in Node, NEW x \in Node, Steady(s, x),
         NEW n \in Node, NEW d \in 0 .. N, Pass(n, d), Waiting(s, x)'
  PROVE  Steady(s, x)'
<1>g. /\ Loyal(s) /\ Fresh /\ Calm
      /\ OneOut(x) /\ Unharmed(x) /\ hung = {} /\ (x \in running => InTime(x))
      /\ Led /\ Contact(s, x) /\ Waiting(s, x)
  BY DEF Steady
<1>p. /\ n \in running /\ turn = n
      /\ \A m \in Node : inbox'[m] = IF m = n THEN {} ELSE
                                     IF m \in Reach(n) THEN inbox[m] \cup {n} ELSE inbox[m]
      /\ \A m \in Node \ {n} : worker'[m] = worker[m]
      /\ worker'[n].heard = Ages(n) /\ worker'[n].last_loop = 0
      /\ UNCHANGED <<running, hung, cut, faults, leader, settled>>
  <2>a. inbox \in [Node -> SUBSET Node]  BY DEF Aged
  <2>q. QED  BY <2>a, PassChanges
<1>n. InTime(n)  BY <1>g, <1>p DEF Unharmed
<1>l. Loyal(s)'  BY <1>g, LoyalPass
<1>c. Calm'  BY <1>g, <1>n, CalmPass
<1>u. Unharmed(x)' /\ OneOut(x)'
  <2>a. Unharmed(x)'  BY <1>g, UnharmedPass
  <2>q. QED  BY <1>g, <1>p, <2>a DEF OneOut
<1>x. x \in running' => InTime(x)'  BY <1>g, <1>p, InTimePass
<1>f. Fresh'
  <2>a. ASSUME faults = 0 PROVE /\ \A m \in Node : InTime(m)'
                                /\ \A m, k \in Node : m # k => Hears(m, k)'
    <3>r. \A k \in Node : Reach(k) = Node  BY <1>g, <2>a, Reaches DEF Fresh
    <3>a. ASSUME NEW m \in Node PROVE InTime(m)'
      <4>a. InTime(m)  BY <1>g, <2>a DEF Fresh
      <4>q. QED  BY <4>a, InTimePass
    <3>b. ASSUME NEW m \in Node, NEW k \in Node, m # k PROVE Hears(m, k)'
      <4>a. Hears(m, k)  BY <1>g, <2>a, <3>b DEF Fresh
      <4>q. QED  BY <3>b, <3>r, <4>a, HearsPass
    <3>q. QED  BY <3>a, <3>b
  <2>q. QED  BY <1>g, <1>p, <2>a DEF Fresh
<1>d. Led'
  <2>a. turn # N + 1  BY <1>p, Counts DEF Node
  <2>q. QED  BY <1>g, <1>p, <2>a DEF Led
<1>k. Contact(s, x)'
  <2>b. ASSUME N >= 3, x = s, s \in running' PROVE Missing(s)'
    <3>a. Missing(s) /\ s \in running /\ InTime(s)  BY <1>g, <1>p, <2>b DEF Contact
    <3>q. QED  BY <1>g, <2>b, <3>a, MissingPass
  <2>c. ASSUME x # s, leader' = x, cut' # {} PROVE Spread(x)'
    <3>a. Spread(x) /\ cut # {}  BY <1>g, <1>p, <2>c DEF Contact
    <3>q. QED  BY <1>g, <3>a, SpreadPass
  <2>d. ASSUME x # s, leader' = x, cut' = {} PROVE Hears(x, s)'
    <3>a. Hears(x, s) /\ cut = {}  BY <1>g, <1>p, <2>d DEF Contact
    <3>b. x \in running
      <4>a. x # 0  BY Counts DEF Node
      <4>q. QED  BY <1>g, <1>p, <2>d, <4>a DEF Led
    <3>c. x \in Reach(s)  BY <1>g, <3>a, <3>b, Reaches
    <3>q. QED  BY <2>d, <3>a, <3>c, HearsPass
  <2>q. QED  BY <2>b, <2>c, <2>d DEF Contact
<1>q. QED  BY <1>g, <1>p, <1>l, <1>c, <1>u, <1>x, <1>f, <1>d, <1>k DEF Steady

LEMMA SteadyTick ==
  ASSUME FollowInv, Aged, Timely, NEW s \in Node, NEW x \in Node, Steady(s, x), Tick
  PROVE  Steady(s, x)'
<1>g. /\ Loyal(s) /\ Fresh /\ Calm
      /\ OneOut(x) /\ Unharmed(x) /\ hung = {} /\ (x \in running => InTime(x))
      /\ Led /\ Contact(s, x) /\ Waiting(s, x)
  BY DEF Steady
<1>p. /\ holders' = IF Serving THEN holders \cup Reach(leader) ELSE holders
      /\ settled \/ ~HasQuorum(leader)
      /\ UNCHANGED <<running, hung, cut, faults, leader, settled, pending, log, inbox,
                     in_recovery, read_only, rejoin>>
  BY TickChanges
<1>t. WdStale >= 2 /\ WdStale \in Nat  BY Counts DEF Timely
<1>l. Loyal(s)'  BY <1>g, <1>p DEF Loyal
<1>c. Calm'
  <2>a. \A n \in Node : /\ worker'[n].asking = worker[n].asking
                        /\ worker'[n].reconfirm_pending = worker[n].reconfirm_pending
    BY TickChanges
  <2>b. Reach(leader) \subseteq Node  BY <1>g DEF Reach, OneOut
  <2>c. holders' = Node  BY <1>g, <1>p, <2>b DEF Calm
  <2>q. QED  BY <1>g, <1>p, <2>a, <2>c DEF Calm
<1>u. Unharmed(x)' /\ OneOut(x)'
  <2>a. Unharmed(x)'  BY <1>g, <1>t, UnharmedTick
  <2>q. QED  BY <1>g, <1>p, <2>a DEF OneOut
<1>x. x \in running' => InTime(x)'  BY <1>g, <1>p, <1>t, InTimeTick
<1>f. Fresh'
  <2>a. ASSUME faults = 0 PROVE /\ \A m \in Node : InTime(m)'
                                /\ \A m, k \in Node : m # k => Hears(m, k)'
    <3>a. ASSUME NEW m \in Node PROVE InTime(m)' /\ worker[m].last_loop < WdStale
      <4>a. InTime(m)  BY <1>g, <2>a DEF Fresh
      <4>b. InTime(m)' /\ worker[m].last_loop = 0  BY <1>t, <4>a, InTimeTick
      <4>q. QED  BY <1>t, <4>b
    <3>b. ASSUME NEW m \in Node, NEW k \in Node, m # k PROVE Hears(m, k)'
      <4>a. Hears(m, k)  BY <1>g, <2>a, <3>b DEF Fresh
      <4>q. QED  BY <3>a, <4>a, HearsTick
    <3>q. QED  BY <3>a, <3>b
  <2>q. QED  BY <1>g, <1>p, <2>a DEF Fresh
<1>d. Led'  BY <1>g, <1>p DEF Led
<1>k. Contact(s, x)'
  <2>b. ASSUME N >= 3, x = s, s \in running' PROVE Missing(s)'
    <3>a. Missing(s) /\ InTime(s)  BY <1>g, <1>p, <2>b DEF Contact
    <3>q. QED  BY <3>a, MissingTick
  <2>c. ASSUME x # s, leader' = x, cut' # {} PROVE Spread(x)'
    <3>a. Spread(x)  BY <1>g, <1>p, <2>c DEF Contact
    <3>q. QED  BY <3>a, SpreadTick
  <2>d. ASSUME x # s, leader' = x, cut' = {} PROVE Hears(x, s)'
    <3>a. Hears(x, s) /\ InTime(s)  BY <1>g, <1>p, <2>d DEF Contact, Unharmed
    <3>c. worker[s].last_loop = 0  BY <1>t, <3>a, InTimeTick
    <3>q. QED  BY <1>t, <3>a, <3>c, HearsTick
  <2>q. QED  BY <2>b, <2>c, <2>d DEF Contact
<1>w. Waiting(s, x)'
  <2>a. Lost(x) => Lost(x)'  BY LostTick
  <2>q. QED  BY <1>g, <1>p, <2>a DEF Waiting
<1>q. QED  BY <1>g, <1>p, <1>l, <1>c, <1>u, <1>x, <1>f, <1>d, <1>k, <1>w DEF Steady

LEMMA SteadySkip ==
  ASSUME FollowInv, Aged, NEW s \in Node, NEW x \in Node, Steady(s, x), NEW n \in Node, Skip(n)
  PROVE  Steady(s, x)'
<1>g. /\ Loyal(s) /\ Fresh /\ Calm
      /\ OneOut(x) /\ Unharmed(x) /\ hung = {} /\ (x \in running => InTime(x))
      /\ Led /\ Contact(s, x) /\ Waiting(s, x)
  BY DEF Steady
<1>p. /\ ~Busy(n) /\ turn = n
      /\ UNCHANGED <<running, hung, cut, faults, leader, settled, pending, holders, log, inbox,
                     worker, in_recovery, read_only, rejoin>>
  BY DEF Skip, network, raft, memory, postgres
<1>u. Unharmed(x)' /\ n = x  BY <1>g, UnharmedSkip
<1>n. x \notin running /\ faults # 0  BY <1>g, <1>p, <1>u DEF Busy, Fresh
<1>l. Loyal(s)' /\ Calm' /\ OneOut(x)'  BY <1>g, <1>p DEF Loyal, Calm, OneOut
<1>f. Fresh'  BY <1>g, <1>p, <1>n DEF Fresh
<1>d. Led' /\ leader # x
  <2>a. turn # N + 1 /\ x # 0  BY <1>p, Counts DEF Node
  <2>q. QED  BY <1>g, <1>n, <1>p, <2>a DEF Led
<1>k. Contact(s, x)' /\ Waiting(s, x)'  BY <1>g, <1>n, <1>d, <1>p DEF Contact, Waiting
<1>q. QED  BY <1>g, <1>p, <1>u, <1>n, <1>l, <1>f, <1>d, <1>k DEF Steady

(* Somebody wins an election because the leader is gone.                   *)
LEMMA SteadyWins ==
  ASSUME FollowInv, Aged, NEW s \in Node, NEW x \in Node, Steady(s, x), NEW w \in Node,
         Elect(w), Wins(w), faults' = faults
  PROVE  Steady(s, x)'
<1>g. /\ Loyal(s) /\ Fresh /\ Calm
      /\ OneOut(x) /\ Unharmed(x) /\ hung = {} /\ (x \in running => InTime(x))
      /\ Led /\ Contact(s, x) /\ Waiting(s, x)
  BY DEF Steady
<1>p. /\ turn = N + 1 /\ leader' = w /\ settled' = FALSE /\ pending' = <<>>
      /\ UNCHANGED <<turn, running, hung, cut, holders, log, inbox,
                     worker, in_recovery, read_only, rejoin>>
  BY DEF Elect, memory, postgres
<1>w. w \in running /\ HasQuorum(w) /\ w # x /\ faults # 0
  <2>a. w \in running /\ HasQuorum(w)  BY DEF Wins, Eligible, HasQuorum
  <2>b. CASE leader \in running
    <3>a. cut # {} /\ leader = x /\ w # x  BY <1>g, <2>b, Elections
    <3>q. QED  BY <1>g, <2>a, <3>a DEF Fresh
  <2>c. CASE leader = 0 /\ running # Node /\ ~settled
    <3>a. x \notin running  BY <1>g, <2>c DEF OneOut
    <3>q. QED  BY <1>g, <2>a, <2>c, <3>a DEF Fresh
  <2>q. QED  BY <1>g, <2>b, <2>c DEF Led
<1>u. Unharmed(x)'  BY <1>g, <1>p, UnharmedSame
<1>x. x \in running' => InTime(x)'  BY <1>g, <1>p DEF InTime
<1>l. Loyal(s)' /\ Calm' /\ OneOut(x)'  BY <1>g, <1>p DEF Loyal, Calm, OneOut
<1>f. Fresh'  BY <1>g, <1>w DEF Fresh
<1>d. Led'
  <2>a. HasQuorum(w)' = HasQuorum(w)  BY <1>p DEF HasQuorum, Reach, Linked
  <2>b. HasQuorum(leader)' = HasQuorum(w)'  BY <1>p DEF HasQuorum, Reach, Linked
  <2>q. QED  BY <1>p, <1>w, <2>a, <2>b DEF Led
<1>k. Contact(s, x)'
  <2>b. ASSUME N >= 3, x = s, s \in running' PROVE Missing(s)'
    BY <1>g, <1>p, <2>b DEF Contact, Missing, Fenced
  <2>q. QED  BY <1>p, <1>w, <2>b DEF Contact
<1>v. Waiting(s, x)'  BY <1>p DEF Waiting
<1>q. QED  BY <1>g, <1>p, <1>w, <1>u, <1>x, <1>l, <1>f, <1>d, <1>k, <1>v DEF Steady

LEMMA SteadySettles ==
  ASSUME FollowInv, Aged, NEW s \in Node, NEW x \in Node, Steady(s, x), Settle
  PROVE  Steady(s, x)'
<1>g. /\ Loyal(s) /\ Fresh /\ Calm
      /\ OneOut(x) /\ Unharmed(x) /\ hung = {} /\ (x \in running => InTime(x))
      /\ Led /\ Contact(s, x) /\ Waiting(s, x)
  BY DEF Steady
<1>p. /\ ~settled /\ HasQuorum(leader) /\ settled' = TRUE /\ holders' = holders \cup Reach(leader)
      /\ UNCHANGED <<turn, running, hung, cut, faults, leader, pending, log, inbox,
                     worker, in_recovery, read_only, rejoin>>
  BY DEF Settle, network, memory, postgres
<1>u. Unharmed(x)'  BY <1>g, <1>p, UnharmedSame
<1>x. x \in running' => InTime(x)'  BY <1>g, <1>p DEF InTime
<1>l. Loyal(s)' /\ OneOut(x)'  BY <1>g, <1>p DEF Loyal, OneOut
<1>c. Calm'
  <2>a. Reach(leader) \subseteq Node  BY <1>g DEF Reach, OneOut
  <2>b. holders' = Node  BY <1>g, <1>p, <2>a DEF Calm
  <2>q. QED  BY <1>g, <1>p, <2>b DEF Calm
<1>f. Fresh'  BY <1>g, <1>p DEF Fresh
<1>d. Led'  BY <1>p DEF Led, HasQuorum
<1>k. Contact(s, x)' /\ Waiting(s, x)'
  BY <1>g, <1>p DEF Contact, Waiting, Missing, Fenced, Spread, Lost, Hears
<1>q. QED  BY <1>g, <1>p, <1>u, <1>x, <1>l, <1>c, <1>f, <1>d, <1>k DEF Steady

(* The node that was cut off is back.                                      *)
LEMMA SteadyHeals ==
  ASSUME FollowInv, Aged, NEW s \in Node, NEW x \in Node, Steady(s, x), Heal
  PROVE  Steady(s, x)' \/ Doubted(s, x)'
<1>g. /\ Loyal(s) /\ Fresh /\ Calm
      /\ OneOut(x) /\ Unharmed(x) /\ hung = {} /\ (x \in running => InTime(x))
      /\ Led /\ Contact(s, x) /\ Waiting(s, x)
  BY DEF Steady
<1>p. /\ cut # {} /\ cut' = {}
      /\ UNCHANGED <<turn, running, hung, faults, leader, settled, pending, holders, log, applied, inbox,
                     worker, in_recovery, read_only, rejoin>>
  BY DEF Heal, raft, memory, postgres
<1>n. running = Node /\ faults # 0 /\ faults >= MaxFaults /\ leader \in Node
  <2>a. running = Node /\ faults # 0  BY <1>g, <1>p DEF OneOut, Fresh
  <2>q. QED  BY <1>g, <2>a DEF Fresh, Led
<1>steady. CASE x = s \/ leader # x
  <2>u. Unharmed(x)'  BY <1>g, <1>p, UnharmedSame
  <2>x. x \in running' => InTime(x)'  BY <1>g, <1>p DEF InTime
  <2>l. Loyal(s)' /\ Calm' /\ OneOut(x)'  BY <1>g, <1>p DEF Loyal, Calm, OneOut
  <2>f. Fresh'  BY <1>g, <1>p, <1>n DEF Fresh
  <2>d. Led'
    <3>a. Reach(leader)' = Node  BY <1>p, <1>n DEF Reach, Linked
    <3>b. HasQuorum(leader)'  BY <1>p, <1>n, <3>a, Counts DEF HasQuorum
    <3>q. QED  BY <1>g, <1>p, <1>n, <3>b DEF Led
  <2>k. Contact(s, x)'
    <3>b. ASSUME N >= 3, x = s, s \in running' PROVE Missing(s)'
      BY <1>g, <1>p, <3>b DEF Contact, Missing, Fenced
    <3>q. QED  BY <1>p, <1>steady, <3>b DEF Contact
  <2>w. Waiting(s, x)'  BY <1>g, <1>p, <1>steady DEF Waiting
  <2>q. QED  BY <1>g, <1>p, <2>u, <2>x, <2>l, <2>f, <2>d, <2>k, <2>w DEF Steady
<1>doubt. CASE x # s /\ leader = x
  <2>a. settled
    <3>a. ~HasQuorum(x)  BY <1>g, <1>p, Elections
    <3>b. x # 0  BY Counts DEF Node
    <3>q. QED  BY <1>g, <1>doubt, <3>a, <3>b DEF Led
  <2>b. ASSUME NEW n \in Node PROVE applied[n] = 1  BY <1>g, OneDecision
  <2>c. Len(log) = 1 /\ log[1].primary = s  BY <1>g DEF Calm, Loyal
  <2>i. \A n \in Node : InTime(n)' /\ ~worker'[n].reconfirm_pending /\ worker'[n].asking = {}
    BY <1>g, <1>n, <1>p DEF Unharmed, Calm, InTime
  <2>r. \A n \in Node : in_recovery'[n] <=> n # s  BY <1>g, <1>p DEF Loyal
  <2>k. \A n, m \in Node : applied'[m] >= applied'[n]  BY <1>p, <2>b
  <2>p. Peace(s, x)'
    <3>a. /\ x # s /\ leader' = x /\ settled' /\ x \notin rejoin'
          /\ running' = Node /\ cut' = {} /\ hung' = {} /\ faults' # 0 /\ faults' >= MaxFaults
      BY <1>g, <1>doubt, <1>n, <1>p, <2>a DEF Loyal
    <3>b. \A n \in Node : ~in_recovery'[n] => log'[applied'[n]].primary = n
      BY <1>p, <2>b, <2>c, <2>r
    <3>q. QED  BY <1>p, <2>c, <2>i, <2>k, <3>a, <3>b DEF Peace
  <2>w. /\ Len(log') + Len(pending') <= 2
        /\ \A i \in 1 .. Len(pending') : pending'[i].primary # s
    <3>a. CASE pending = <<>>  BY <1>p, <2>c, <3>a
    <3>b. CASE pending # <<>>
      <4>a. Len(pending) = 1 /\ pending[1].primary # s  BY <1>g, <3>b DEF Waiting
      <4>b. Len(pending') = 1 /\ pending'[1].primary # s /\ Len(log') = 1  BY <1>p, <2>c, <4>a
      <4>c. 1 .. Len(pending') = {1}  BY <4>b
      <4>q. QED  BY <4>b, <4>c
    <3>q. QED  BY <3>a, <3>b
  <2>q. QED  BY <1>doubt, <1>p, <2>c, <2>p, <2>w, <2>r DEF Doubted
<1>q. QED  BY <1>steady, <1>doubt

-----------------------------------------------------------------------------
(* The fault. Before it all have heard of all in the last tick.            *)
LEMMA BeforeFault ==
  ASSUME Aged, Timely, NEW s \in Node, NEW x \in Node, Steady(s, x), faults = 0
  PROVE  /\ running = Node /\ cut = {} /\ settled /\ hung = {} /\ leader \in Node
         /\ Loyal(s) /\ Calm /\ pending = <<>>
         /\ \A n \in Node : InTime(n)
         /\ \A n, m \in Node : n # m => Hears(n, m)
         /\ \A n \in Node : Unharmed(n) /\ Spread(n)
         /\ \A n \in Node \ {s} : s \notin inbox[n] =>
              /\ \A m \in Node \ {s} :
                   worker[n].heard[s] <= IF m \in inbox[s] THEN worker[s].last_loop
                                                           ELSE worker[s].heard[m] + 1
              /\ ~(worker[n].heard[s] >= Dead - 1 + worker[s].last_loop)
<1>a. /\ running = Node /\ cut = {} /\ settled /\ pending = <<>>
      /\ \A n \in Node : InTime(n)
      /\ \A n, m \in Node : n # m => Hears(n, m)
  <2>a. Fresh /\ Waiting(s, x)  BY DEF Steady
  <2>q. QED  BY <2>a DEF Fresh, Waiting
<1>b. hung = {} /\ leader \in Node /\ Loyal(s) /\ Calm  BY <1>a DEF Steady, Led
<1>c. \A n \in Node : Unharmed(n)  BY <1>a DEF Unharmed
<1>t. Dead \in Nat /\ Dead >= 3 /\ WdStale \in Nat  BY Counts DEF Timely
<1>h. \A n, m \in Node : worker[n].heard[m] \in 0 .. Dead  BY DEF Aged, Memory
<1>s. ASSUME NEW n \in Node PROVE Spread(n)
  <2> SUFFICES ASSUME NEW m \in Node \ {n}, NEW k \in Node \ {n}, m \notin inbox[n]
               PROVE  worker[n].heard[m] <= 1
    BY <1>t, <1>h DEF Spread
  <2>q. QED  BY <1>a, HeardInTime
<1>d. ASSUME NEW n \in Node \ {s}, s \notin inbox[n]
      PROVE  /\ \A m \in Node \ {s} :
                  worker[n].heard[s] <= IF m \in inbox[s] THEN worker[s].last_loop
                                                          ELSE worker[s].heard[m] + 1
             /\ ~(worker[n].heard[s] >= Dead - 1 + worker[s].last_loop)
  <2>a. Hears(n, s) /\ InTime(s)  BY <1>a
  <2>b. worker[n].heard[s] <= 1  BY <1>d, <2>a, HeardInTime
  <2>c. worker[n].heard[s] <= worker[s].last_loop  BY <1>d, <2>a DEF Hears
  <2>d. worker[n].heard[s] \in 0 .. Dead /\ worker[s].last_loop \in 0 .. WdStale
    BY DEF Aged, Memory
  <2>e. ~(worker[n].heard[s] >= Dead - 1 + worker[s].last_loop)  BY <1>t, <2>c, <2>d
  <2>f. ASSUME NEW m \in Node \ {s}
        PROVE  worker[n].heard[s] <= IF m \in inbox[s] THEN worker[s].last_loop
                                                       ELSE worker[s].heard[m] + 1
    <3>a. worker[s].heard[m] \in 0 .. Dead  BY <1>h
    <3>b. worker[n].heard[s] <= worker[s].heard[m] + 1  BY <1>t, <2>b, <2>d, <3>a
    <3>q. QED  BY <2>c, <3>b
  <2>q. QED  BY <2>e, <2>f
<1>q. QED  BY <1>a, <1>b, <1>c, <1>d, <1>s

LEMMA FirstFault ==
  ASSUME Aged, Timely, NEW f, May(f)
  PROVE  faults = 0 /\ faults + 1 # 0 /\ faults + 1 >= MaxFaults
  BY FailoverAssumption DEF Aged, Timely, May, FailoverAssumption

LEMMA SteadyFaults ==
  ASSUME FollowInv, Aged, Timely, NEW s \in Node, NEW x \in Node, Steady(s, x), faults = 0,
         faults' # 0, faults' >= MaxFaults, NEW y \in Node, OneOut(y)', hung' = {},
         UNCHANGED <<turn, worker, log, holders, in_recovery, read_only>>, pending' = <<>>,
         rejoin' \subseteq rejoin,
         \A n \in Node \ {y} : inbox'[n] = inbox[n], y \in running' => inbox'[y] = inbox[y],
         Led', y # s /\ leader' = y => y \in running' /\ cut' # {}
  PROVE  Steady(s, y)'
<1>g. /\ Loyal(s) /\ Calm
      /\ \A n \in Node : InTime(n)
      /\ \A n \in Node : Unharmed(n) /\ Spread(n)
      /\ \A n \in Node \ {s} : s \notin inbox[n] =>
           /\ \A m \in Node \ {s} :
                worker[n].heard[s] <= IF m \in inbox[s] THEN worker[s].last_loop
                                                        ELSE worker[s].heard[m] + 1
           /\ ~(worker[n].heard[s] >= Dead - 1 + worker[s].last_loop)
  BY BeforeFault
<1>l. Loyal(s)' /\ Calm'  BY <1>g DEF Loyal, Calm
<1>f. Fresh'  BY DEF Fresh
<1>u. Unharmed(y)'  BY <1>g, UnharmedSame
<1>x. InTime(y)'  BY <1>g DEF InTime
<1>k. Contact(s, y)'
  <2>b. ASSUME y = s, s \in running' PROVE Missing(s)'  BY <1>g, <2>b DEF Missing
  <2>c. ASSUME y # s, leader' = y PROVE cut' # {} /\ Spread(y)'  BY <1>g, <2>c DEF Spread
  <2>q. QED  BY <2>b, <2>c DEF Contact
<1>w. Waiting(s, y)'  BY DEF Waiting
<1>q. QED  BY <1>l, <1>f, <1>u, <1>x, <1>k, <1>w DEF Steady

LEMMA SteadyDeposed ==
  ASSUME FollowInv, Aged, Timely, NEW s \in Node, NEW x \in Node, Steady(s, x), NEW w \in Node,
         Elect(w), Eligible(w), May("depose"), faults' = faults + 1
  PROVE  Steady(s, s)'
<1>f. faults = 0 /\ faults' # 0 /\ faults' >= MaxFaults  BY FirstFault
<1>b. running = Node /\ cut = {} /\ hung = {}  BY <1>f, BeforeFault
<1>p. /\ turn = N + 1 /\ leader' = w /\ pending' = <<>>
      /\ UNCHANGED <<turn, running, hung, cut, holders, log, inbox,
                     worker, in_recovery, read_only, rejoin>>
  BY DEF Elect, memory, postgres
<1>o. OneOut(s)' /\ hung' = {}  BY <1>b, <1>p DEF OneOut
<1>d. Led'
  <2>a. HasQuorum(leader)'
    <3>a. HasQuorum(w)  BY DEF Eligible
    <3>q. QED  BY <1>p, <3>a DEF HasQuorum, Reach, Linked
  <2>q. QED  BY <1>p, <2>a DEF Led, HasQuorum
<1>q. QED  BY <1>f, <1>p, <1>o, <1>d, SteadyFaults

LEMMA SteadyCrashes ==
  ASSUME FollowInv, Aged, Timely, NEW s \in Node, NEW x \in Node, Steady(s, x),
         NEW y \in Node, Crash(y)
  PROVE  Steady(s, y)'
<1>m. PICK k : May(k) /\ faults' = faults + 1  BY DEF Crash
<1>f. faults = 0 /\ faults' # 0 /\ faults' >= MaxFaults  BY <1>m, FirstFault
<1>b. running = Node /\ cut = {} /\ hung = {} /\ leader \in Node /\ settled /\ pending = <<>>
  BY <1>f, BeforeFault
<1>p. /\ running' = running \ {y} /\ hung' = hung \ {y} /\ rejoin' \subseteq rejoin
      /\ inbox' = [inbox EXCEPT ![y] = {}]
      /\ leader' = (IF leader = y THEN 0 ELSE leader) /\ settled' = (settled /\ leader # y)
      /\ UNCHANGED <<turn, cut, worker, log, pending, holders, in_recovery, read_only>>
  BY DEF Crash, StopsLeading
<1>o. OneOut(y)' /\ hung' = {} /\ y \notin running' /\ pending' = <<>>  BY <1>b, <1>p DEF OneOut
<1>i. \A n \in Node \ {y} : inbox'[n] = inbox[n]  BY <1>p DEF Aged
<1>l. Led' /\ leader' # y
  <2>a. y # 0  BY Counts DEF Node
  <2>q. QED  BY <1>b, <1>p, <2>a DEF Led
<1>q. QED  BY <1>f, <1>p, <1>o, <1>i, <1>l, SteadyFaults

LEMMA SteadyIsolated ==
  ASSUME FollowInv, Aged, Timely, NEW s \in Node, NEW x \in Node, Steady(s, x),
         NEW y \in Node, Isolate(y)
  PROVE  Steady(s, y)'
<1>m. May("isolate") /\ faults' = faults + 1  BY DEF Isolate
<1>f. faults = 0 /\ faults' # 0 /\ faults' >= MaxFaults  BY <1>m, FirstFault
<1>b. running = Node /\ cut = {} /\ hung = {} /\ leader \in Node /\ settled /\ pending = <<>>
  BY <1>f, BeforeFault
<1>p. /\ cut' = cut \cup Star(y)
      /\ UNCHANGED <<turn, running, hung, leader, settled, worker, log, pending, holders,
                     in_recovery, read_only, rejoin, inbox>>
  BY DEF Isolate, Star, raft, memory, postgres
<1>o. OneOut(y)' /\ hung' = {}
  <2>a. cut' = Star(y)  BY <1>b, <1>p
  <2>q. QED  BY <1>b, <1>p, <2>a DEF OneOut, Star
<1>l. Led'  BY <1>b, <1>p DEF Led
<1>c. y # s => cut' # {}
  <2>a. y # s => {y, s} \in Star(y)  BY DEF Star
  <2>q. QED  BY <1>p, <2>a
<1>q. QED  BY <1>b, <1>f, <1>p, <1>o, <1>l, <1>c, SteadyFaults

LEMMA SteadyHangs ==
  ASSUME FollowInv, Aged, Timely, NEW s \in Node, NEW x \in Node, Steady(s, x),
         NEW y \in Node, Hang(y)
  PROVE  Hanging(s, y)'
<1>m. May("hang") /\ faults' = faults + 1  BY DEF Hang
<1>f. faults = 0 /\ faults' # 0 /\ faults' >= MaxFaults  BY <1>m, FirstFault
<1>b. /\ running = Node /\ cut = {} /\ settled /\ hung = {} /\ leader \in Node
      /\ Loyal(s) /\ pending = <<>>
      /\ \A n, m \in Node : n # m => Hears(n, m)
      /\ \A n \in Node : Unharmed(n)
  BY <1>f, BeforeFault
<1>p. /\ hung' = hung \cup {y}
      /\ UNCHANGED <<turn, running, cut, leader, settled, worker, log, pending, holders,
                     in_recovery, read_only, rejoin, inbox>>
  BY DEF Hang, raft, memory, postgres
<1>u. Unharmed(y)'  BY <1>b, <1>p, UnharmedSame
<1>h. \A n, m \in Node : n # m => Hears(n, m)'  BY <1>b, <1>p DEF Hears
<1>l. Loyal(s)' /\ pending' = <<>>  BY <1>b, <1>p DEF Loyal
<1>q. QED  BY <1>f, <1>b, <1>p, <1>u, <1>h, <1>l DEF Hanging

(* The worker of a node whose passes are in time is none of the watchdog's *)
(* business.                                                               *)
LEMMA InTimeRuns ==
  ASSUME Aged, WdStale >= 2, NEW n \in Node, InTime(n)
  PROVE  ~Watchdog(n) /\ worker[n].last_loop \in 0 .. 1
<1>a. worker[n].last_loop \in 0 .. WdStale /\ WdStale \in Nat  BY Counts DEF Aged, Memory
<1>b. worker[n].last_loop \in 0 .. 1  BY <1>a DEF InTime
<1>q. QED  BY <1>a, <1>b DEF Watchdog

LEMMA SteadyStep ==
  ASSUME FollowInv, Aged, Timely, NEW s \in Node, NEW x \in Node, Steady(s, x), Next, covered'
  PROVE  Safe(s)'
<1>g. /\ Loyal(s) /\ Calm /\ OneOut(x) /\ Unharmed(x) /\ hung = {} /\ (x \in running => InTime(x))
      /\ Waiting(s, x)
  BY DEF Steady
<1>st. ASSUME NEW y \in Node, Steady(s, y)' \/ Hanging(s, y)' \/ Doubted(s, y)' PROVE Safe(s)'
  BY <1>st DEF Safe
<1>gu. ASSUME \E c \in Node : GivenUp(s, c)' PROVE Safe(s)'
  BY <1>gu DEF Safe
<1>pass. ASSUME NEW n \in Node, NEW d \in 0 .. N, Pass(n, d) PROVE Safe(s)'
  <2>a. CASE n = leader /\ d # 0 /\ x = s  BY <1>pass, <2>a, <1>gu, SteadyGivesUp
  <2>b. CASE n = leader /\ d # 0 /\ x # s
    <3>a. Waiting(s, x)'  BY <1>pass, <2>b, SteadyProposes
    <3>q. QED  BY <1>pass, <3>a, <1>st, SteadyPass
  <2>c. CASE ~(n = leader /\ d # 0)
    <3>a. Waiting(s, x)'  BY <1>pass, <2>c, WaitingPass
    <3>q. QED  BY <1>pass, <3>a, <1>st, SteadyPass
  <2>q. QED  BY <2>a, <2>b, <2>c
<1>elect. ASSUME NEW w \in Node, Elect(w) PROVE Safe(s)'
  <2>a. CASE Wins(w) /\ faults' = faults  BY <1>elect, <2>a, <1>st, SteadyWins
  <2>b. CASE Eligible(w) /\ May("depose") /\ faults' = faults + 1
    BY <1>elect, <2>b, <1>st, SteadyDeposed
  <2>q. QED  BY <1>elect, <2>a, <2>b DEF Elect
<1>wd. \A n \in Node : ~Watchdog(n)
  <2> SUFFICES ASSUME NEW n \in Node, Watchdog(n) PROVE FALSE
    OBVIOUS
  <2>a. n \in running  BY DEF Watchdog, Writable
  <2>b. InTime(n)  BY <1>g, <2>a DEF Unharmed
  <2>t. WdStale >= 2  BY Counts DEF Timely
  <2>q. QED  BY <2>b, <2>t, InTimeRuns
<1>commit. ~Commit
  <2> SUFFICES ASSUME Commit PROVE FALSE
    OBVIOUS
  <2>a. pending # <<>> /\ HasQuorum(leader)  BY DEF Commit, CanCommit, Serving
  <2>b. leader = x /\ cut # {}  BY <1>g, <2>a DEF Waiting
  <2>q. QED  BY <1>g, <2>a, <2>b, Elections
<1>d. /\ \A n \in Node : ~Rejoin(n) /\ ~Wake(n) /\ ~Restart(n)
      /\ \A n, m \in Node : ~CutLink(n, m)
  BY <1>g DEF Rejoin, Loyal, Wake, Restart, CutLink
<1>heal. ASSUME Heal PROVE Safe(s)'  BY <1>heal, <1>st, SteadyHeals
<1>crash. ASSUME NEW y \in Node, Crash(y) PROVE Safe(s)'  BY <1>crash, <1>st, SteadyCrashes
<1>isolate. ASSUME NEW y \in Node, Isolate(y) PROVE Safe(s)'  BY <1>isolate, <1>st, SteadyIsolated
<1>hang. ASSUME NEW y \in Node, Hang(y) PROVE Safe(s)'  BY <1>hang, <1>st, SteadyHangs
<1>rest. ASSUME Settle \/ Tick \/ \E n \in Node : Skip(n) PROVE Safe(s)'
  BY <1>rest, <1>st, SteadySkip, SteadySettles, SteadyTick
<1>q. QED
  BY <1>pass, <1>elect, <1>wd, <1>commit, <1>d, <1>heal, <1>crash, <1>isolate, <1>hang, <1>rest
  DEF Next, RaftStep, Fault

-----------------------------------------------------------------------------
(* Whose pass comes first.                                                 *)
LEMMA BeforePass ==
  ASSUME NEW n \in Node, turn = n, turn' = n + 1, NEW m \in Node
  PROVE  /\ ~Before(m, n)
         /\ m # n => Before(m, n)'
         /\ \A k \in Node \ {n} : m # n => (Before(m, k)' <=> Before(m, k))
<1>a. n \in Nat /\ m \in Nat /\ \A k \in Node : k \in Nat  BY Counts DEF Node
<1>b. ~Before(m, n)  BY <1>a DEF Before
<1>c. m # n => Before(m, n)'  BY <1>a DEF Before
<1>d. ASSUME NEW k \in Node \ {n}, m # n PROVE Before(m, k)' <=> Before(m, k)
  <2>a. k \in Nat  BY <1>a
  <2>b. (turn > m <=> turn' > m) /\ (turn > k <=> turn' > k) /\ (turn <= m <=> turn' <= m)
    BY <1>a, <1>d, <2>a
  <2>q. QED  BY <2>b DEF Before
<1>q. QED  BY <1>b, <1>c, <1>d

LEMMA BeforeTick ==
  ASSUME turn = N + 1, turn' = 1, NEW m \in Node, NEW k \in Node
  PROVE  Before(m, k)' <=> Before(m, k)
<1>a. m \in 1 .. N /\ k \in 1 .. N /\ N \in Nat  BY Counts DEF Node
<1>q. QED  BY <1>a DEF Before

(* What a pass makes of a node's right to write.                           *)
LEMMA PassRights ==
  ASSUME FollowInv, Aged, NEW n \in Node, NEW d \in 0 .. N, Pass(n, d)
  PROVE  /\ in_recovery[n] => ~Holds(n)' /\ WindowAge(n)' = Never
         /\ in_recovery[n] /\ ~in_recovery'[n] => Decided(n).primary = n
         /\ Holds(n)' => ~in_recovery[n] /\ Authorized(n)
         /\ Holds(n)' \/ WindowAge(n)' # Never => RawAuth(n) /\ Decided(n).primary = n
         /\ ~in_recovery[n] /\ ~Holds(n) => ~Immediate(n)
         /\ ~in_recovery[n] /\ ~Holds(n) => WindowAge(n)' <= 0 \/ WindowAge(n)' = WindowAge(n)
         /\ Holds(n)' /\ ~Holds(n) => WindowAge(n) >= Confirm
<1>i. inbox \in [Node -> SUBSET Node]  BY DEF Aged
<1>p. /\ worker'[n].applied_read_only =
            IF in_recovery[n] THEN "none" ELSE IF Authorized(n) THEN "off" ELSE "on"
      /\ worker'[n].authorized_since = NewSince(n)
      /\ read_only'[n] = ReadOnlyAfter(n)
      /\ in_recovery'[n] = (in_recovery[n] /\ ~Promotes(n))
  BY <1>i, PassChanges
<1>d. Decided(n) # NoDecision  BY GoesBy
<1>s. /\ Since(n) \in {Never, worker[n].authorized_since} /\ Confirm \in Nat /\ Confirm >= 1
  BY Counts DEF Since
<1>a. ASSUME in_recovery[n] PROVE ~Holds(n)' /\ WindowAge(n)' = Never
  <2>a. worker'[n].applied_read_only = "none" /\ worker'[n].authorized_since = Never
    BY <1>a, <1>p DEF NewSince
  <2>b. ~in_recovery'[n] => read_only'[n]  BY <1>a, <1>p DEF ReadOnlyAfter
  <2>q. QED  BY <2>a, <2>b DEF Holds, WindowAge
<1>b. ASSUME in_recovery[n], ~in_recovery'[n] PROVE Decided(n).primary = n
  BY <1>b, <1>p DEF Promotes
<1>c. ASSUME Holds(n)' PROVE ~in_recovery[n] /\ Authorized(n)
  <2>a. ~in_recovery[n]  BY <1>a, <1>c
  <2> SUFFICES ASSUME ~Authorized(n) PROVE FALSE
    BY <2>a
  <2>b. worker'[n].applied_read_only = "on"  BY <1>p, <2>a
  <2>c. BeliefRo(n) = "on" => worker[n].applied_read_only = "on"  BY DEF BeliefRo
  <2>d. BeliefRo(n) = "on" => read_only[n]  BY <2>c DEF Aged
  <2>e. ReadOnlyAfter(n)  BY <2>a, <2>d DEF ReadOnlyAfter, Promotes
  <2>q. QED  BY <1>c, <1>p, <2>b, <2>e DEF Holds
<1>e. ASSUME Holds(n)' \/ WindowAge(n)' # Never PROVE RawAuth(n) /\ Decided(n).primary = n
  <2>a. RawAuth(n)  BY <1>c, <1>e, <1>p DEF Authorized, NewSince, WindowAge
  <2>q. QED  BY <1>d, <2>a DEF RawAuth
<1>f. ASSUME ~in_recovery[n], ~Holds(n) PROVE ~Immediate(n)
  <2>a. worker[n].applied_read_only # "off"  BY <1>f DEF Holds
  <2>b. BeliefRo(n) # "off"  BY <2>a DEF BeliefRo
  <2>q. QED  BY <1>d, <2>b DEF Immediate
<1>g. ASSUME ~in_recovery[n], ~Holds(n)
      PROVE  WindowAge(n)' <= 0 \/ WindowAge(n)' = WindowAge(n)
  BY <1>f, <1>g, <1>p, SinceIs DEF WindowAge
<1>h. ASSUME Holds(n)', ~Holds(n) PROVE WindowAge(n) >= Confirm
  <2>a. ~in_recovery[n] /\ Authorized(n)  BY <1>c, <1>h
  <2>b. Since(n) >= Confirm  BY <1>f, <1>h, <2>a DEF Authorized
  <2>q. QED  BY <1>s, <2>b DEF WindowAge, Never
<1>q. QED  BY <1>a, <1>b, <1>c, <1>e, <1>f, <1>g, <1>h

(* In peace all nodes follow the leader, and none asks it for a decision.  *)
LEMMA PeaceServes ==
  ASSUME FollowInv, Aged, NEW s \in Node, NEW x \in Node, Peace(s, x)
  PROVE  /\ OneOut(x) /\ HasQuorum(leader) /\ Serving
         /\ \A n \in Node : /\ Reach(n) = Node /\ Serves(n) /\ Applied(n) = Len(log)
                            /\ Decided(n) = log[Len(log)] /\ Decided(n) # NoDecision
                            /\ ~Reconfirm(n) /\ Asking(n) = {}
         /\ Len(log) \in Nat /\ Len(log) >= 1 /\ log[Len(log)].primary \in Node
<1>p. /\ leader = x /\ settled /\ running = Node /\ cut = {}
      /\ \A n \in Node : InTime(n) /\ ~worker[n].reconfirm_pending /\ worker[n].asking = {}
  BY DEF Peace
<1>o. OneOut(x)  BY <1>p DEF OneOut
<1>h. HasQuorum(leader)  BY <1>o, <1>p, Elections
<1>s. Serving  BY <1>h, <1>p DEF Serving
<1>r. \A n \in Node : Reach(n) = Node  BY <1>o, <1>p, Reaches
<1>a. ASSUME NEW n \in Node PROVE Serves(n) /\ Applied(n) = Len(log)
  BY <1>s, <1>r, <1>p DEF Serves, Applied
<1>c. ASSUME NEW n \in Node PROVE ~Reconfirm(n) /\ Asking(n) = {}
  <2>a. worker[n].last_loop \in 0 .. WdStale /\ Stall \in Nat /\ Stall >= 1 /\ WdStale \in Nat
    BY Counts DEF Aged, Memory
  <2>b. ~Stalled(n)  BY <1>p, <2>a DEF Stalled, InTime
  <2>q. QED  BY <1>p, <2>b DEF Reconfirm, Asking
<1>l. Len(log) \in Nat /\ Len(log) >= 1 /\ Len(log) \in 1 .. Len(log)  BY <1>p, GoesBy
<1>m. log[Len(log)].primary \in Node
  <2>a. Numbered(log[Len(log)], Len(log))  BY <1>l DEF FollowInv, History
  <2>q. QED  BY <2>a DEF Numbered, Decision, Node
<1>q. QED  BY <1>o, <1>h, <1>s, <1>r, <1>a, <1>c, <1>l, <1>m, GoesBy

(* A leader that proposes something there does not hear the primary.       *)
LEMMA PeaceProposes ==
  ASSUME FollowInv, Aged, NEW s \in Node, NEW x \in Node, Peace(s, x),
         NEW n \in Node, NEW d \in 0 .. N, Pass(n, d), d # 0
  PROVE  log[Len(log)].primary \notin Live(n) /\ d \in Live(n)
<1>i. inbox \in [Node -> SUBSET Node]  BY DEF Aged
<1>p. d \in Choices(n)  BY <1>i, PassChanges
<1>a. d \in Candidates(n)  BY <1>p DEF Choices
<1>k. Decided(n) = log[Len(log)] /\ Decided(n) # NoDecision /\ ~Reconfirm(n) /\ Asking(n) = {}
  BY PeaceServes
<1>q. QED  BY <1>a, <1>k DEF Candidates

LEMMA PeacePass ==
  ASSUME FollowInv, Aged, NEW s \in Node, NEW x \in Node, Peace(s, x),
         NEW n \in Node, NEW d \in 0 .. N, Pass(n, d), n = x => ~Rejoins(n)
  PROVE  Peace(s, x)'
<1>i. inbox \in [Node -> SUBSET Node]  BY DEF Aged
<1>p. /\ turn = n /\ turn' = n + 1
      /\ \A m \in Node : applied'[m] = IF m = n THEN Applied(n) ELSE applied[m]
      /\ \A m \in Node \ {n} : worker'[m] = worker[m]
      /\ worker'[n].asking = Asking(n) /\ worker'[n].reconfirm_pending = Reconfirm(n)
      /\ \A m \in Node : read_only'[m] = IF m = n THEN ReadOnlyAfter(n) ELSE read_only[m]
      /\ \A m \in Node : in_recovery'[m] = IF m = n THEN in_recovery[n] /\ ~Promotes(n)
                                                    ELSE in_recovery[m]
      /\ rejoin' = IF Rejoins(n) THEN rejoin \cup {n} ELSE rejoin
      /\ UNCHANGED <<running, hung, cut, faults, leader, settled, log>>
  BY <1>i, PassChanges
<1>g. /\ x # s /\ leader = x /\ settled /\ x \notin rejoin
      /\ running = Node /\ cut = {} /\ hung = {} /\ faults # 0 /\ faults >= MaxFaults
      /\ \A m \in Node : InTime(m) /\ ~worker[m].reconfirm_pending /\ worker[m].asking = {}
      /\ \A k, m \in Node : applied[m] >= applied[k] \/ Before(m, k)
      /\ \A m \in Node : ~in_recovery[m] /\ (Holds(m) \/ WindowAge(m) # Never) =>
                           log[applied[m]].primary = m
      /\ log[1].primary = s
  BY DEF Peace
<1>s. Applied(n) = Len(log) /\ Decided(n) = log[Len(log)] /\ ~Reconfirm(n) /\ Asking(n) = {}
  BY PeaceServes
<1>a. ASSUME NEW m \in Node
      PROVE  InTime(m)' /\ ~worker'[m].reconfirm_pending /\ worker'[m].asking = {}
  <2>a. InTime(m)'  BY <1>g, InTimePass
  <2>q. QED  BY <1>p, <1>g, <1>s, <2>a
<1>b. ASSUME NEW k \in Node, NEW m \in Node PROVE applied'[m] >= applied'[k] \/ Before(m, k)'
  <2>a. CASE m = n
    <3>a. applied'[k] \in 1 .. Len(log) /\ Len(log) \in Nat  BY <1>p, <1>s, GoesBy
    <3>q. QED  BY <1>p, <1>s, <2>a, <3>a
  <2>b. CASE m # n /\ k = n  BY <1>p, <2>b, BeforePass
  <2>c. CASE m # n /\ k # n
    <3>a. Before(m, k)' <=> Before(m, k)  BY <1>p, <2>c, BeforePass
    <3>q. QED  BY <1>p, <1>g, <2>c, <3>a
  <2>q. QED  BY <2>a, <2>b, <2>c
<1>c. ASSUME NEW m \in Node, ~in_recovery'[m], Holds(m)' \/ WindowAge(m)' # Never
      PROVE  log'[applied'[m]].primary = m
  <2>a. CASE m = n
    <3>a. Decided(n).primary = n  BY <1>c, <2>a, PassRights
    <3>q. QED  BY <1>p, <1>s, <2>a, <3>a
  <2>b. CASE m # n
    <3>a. ~in_recovery[m] /\ (Holds(m) \/ WindowAge(m) # Never)
      BY <1>c, <1>p, <2>b DEF Holds, WindowAge
    <3>q. QED  BY <1>p, <1>g, <2>b, <3>a
  <2>q. QED  BY <2>a, <2>b
<1>d. x \notin rejoin'  BY <1>p, <1>g
<1>q. QED  BY <1>p, <1>g, <1>a, <1>b, <1>c, <1>d DEF Peace

LEMMA PeaceCommit ==
  ASSUME FollowInv, Aged, NEW s \in Node, NEW x \in Node, Peace(s, x), Commit
  PROVE  Peace(s, x)'
<1>p. /\ \A i \in 1 .. Len(log) : log'[i] = log[i]
      /\ UNCHANGED <<turn, running, hung, cut, faults, leader, settled, applied, inbox, worker,
                     in_recovery, read_only, rejoin>>
  BY CommitChanges
<1>a. \A n \in Node : applied[n] \in 1 .. Len(log) /\ Len(log) \in Nat  BY GoesBy
<1>b. log'[1].primary = log[1].primary  BY <1>p, <1>a
<1>c. \A n \in Node : log'[applied'[n]] = log[applied[n]]  BY <1>p, <1>a
<1>d. \A n \in Node : /\ Holds(n)' <=> Holds(n)
                      /\ WindowAge(n)' = WindowAge(n)
                      /\ InTime(n)' <=> InTime(n)
  BY <1>p DEF Holds, WindowAge, InTime
<1>e. \A n, m \in Node : Before(m, n)' <=> Before(m, n)  BY <1>p DEF Before
<1>q. QED  BY <1>p, <1>b, <1>c, <1>d, <1>e DEF Peace

LEMMA PeaceTick ==
  ASSUME FollowInv, Aged, Timely, NEW s \in Node, NEW x \in Node, Peace(s, x), Tick
  PROVE  /\ Peace(s, x)' /\ pending = <<>> /\ pending' = <<>> /\ log' = log /\ inbox' = inbox
         /\ turn = N + 1 /\ turn' = 1
         /\ \A n \in Node : /\ in_recovery'[n] = in_recovery[n] /\ (Holds(n)' <=> Holds(n))
                            /\ WindowAge(n) = Never => WindowAge(n)' = Never
<1>p. /\ turn = N + 1 /\ turn' = 1 /\ ~CanCommit
      /\ \A n \in Node :
           /\ worker'[n].authorized_since = Older(worker[n].authorized_since, Confirm)
           /\ worker'[n].asking = worker[n].asking
           /\ worker'[n].reconfirm_pending = worker[n].reconfirm_pending
           /\ worker'[n].applied_read_only = worker[n].applied_read_only
      /\ UNCHANGED <<running, hung, cut, faults, leader, settled, pending, log, applied, inbox,
                     in_recovery, read_only, rejoin>>
  BY TickChanges
<1>a. pending = <<>>  BY <1>p, PeaceServes DEF CanCommit
<1>w. WdStale >= 2  BY Counts DEF Timely
<1>b. \A n \in Node : InTime(n)'  BY <1>w, InTimeTick DEF Peace
<1>c. ASSUME NEW n \in Node
      PROVE  (Holds(n)' <=> Holds(n)) /\ (WindowAge(n)' = Never <=> WindowAge(n) = Never)
  <2>a. worker[n].authorized_since \in -1 .. Confirm /\ Confirm \in Nat
    BY Counts DEF Aged, Memory
  <2>q. QED  BY <1>p, <2>a DEF Holds, WindowAge, Older, Never
<1>d. \A n, m \in Node : Before(m, n)' <=> Before(m, n)  BY <1>p, BeforeTick
<1>q. QED  BY <1>p, <1>a, <1>b, <1>c, <1>d DEF Peace

LEMMA PeaceRejoin ==
  ASSUME FollowInv, Aged, NEW s \in Node, NEW x \in Node, Peace(s, x), NEW n \in Node, Rejoin(n)
  PROVE  /\ Peace(s, x)' /\ n # x
         /\ \A m \in Node : in_recovery'[m] = (in_recovery[m] \/ m = n)
         /\ ~Holds(n)'
         /\ \A m \in Node \ {n} : /\ Holds(m)' <=> Holds(m)
                                  /\ WindowAge(m)' = WindowAge(m) /\ inbox'[m] = inbox[m]
         /\ UNCHANGED <<turn, log, pending>>
<1>i. Adopted /\ Roles  BY DEF FollowInv
<1>n. n # x /\ n \in rejoin  BY DEF Rejoin, Peace
<1>p. /\ rejoin' = rejoin \ {n} /\ hung' = hung \ {n}
      /\ \A m \in Node : in_recovery'[m] = (in_recovery[m] \/ m = n)
      /\ worker'[n] = Started(DecisionAt(applied[n]))
      /\ \A m \in Node \ {n} : /\ worker'[m] = worker[m] /\ inbox'[m] = inbox[m]
                               /\ read_only'[m] = read_only[m]
      /\ UNCHANGED <<turn, running, cut, faults, log, applied, pending>>
  <2>a. /\ rejoin' = rejoin \ {n} /\ hung' = hung \ {n}
        /\ UNCHANGED <<turn, running, cut, faults, log, applied, pending>>
    BY DEF Rejoin, StopsLeading
  <2>b. \A m \in Node : in_recovery'[m] = (in_recovery[m] \/ m = n)
    BY <1>i DEF Rejoin, Roles
  <2>c. \A m \in Node \ {n} : read_only'[m] = read_only[m]  BY <1>i DEF Rejoin, Roles
  <2>d. \A m \in Node \ {n} : inbox'[m] = inbox[m]  BY DEF Rejoin, Aged
  <2>e. worker' = [m \in Node |-> IF m = n THEN Started(DecisionAt(applied[n])) ELSE worker[m]]
    BY <1>i DEF Rejoin, Adopted
  <2>q. QED  BY <2>a, <2>b, <2>c, <2>d, <2>e
<1>l. leader' = leader /\ settled' = settled  BY <1>n DEF Rejoin, StopsLeading, Peace
<1>s. /\ Started(DecisionAt(applied[n])).last_loop = 0
      /\ ~Started(DecisionAt(applied[n])).reconfirm_pending
      /\ Started(DecisionAt(applied[n])).asking = {}
  BY DEF Started
<1>a. ASSUME NEW m \in Node
      PROVE  InTime(m)' /\ ~worker'[m].reconfirm_pending /\ worker'[m].asking = {}
  <2>a. CASE m = n  BY <1>p, <1>s, <2>a DEF InTime
  <2>b. CASE m # n  BY <1>p, <2>b DEF InTime, Peace
  <2>q. QED  BY <2>a, <2>b
<1>b. ~Holds(n)'  BY <1>p DEF Holds
<1>c. \A m \in Node \ {n} : (Holds(m)' <=> Holds(m)) /\ WindowAge(m)' = WindowAge(m)
  BY <1>p DEF Holds, WindowAge
<1>d. \A m \in Node : ~in_recovery'[m] /\ (Holds(m)' \/ WindowAge(m)' # Never) =>
                        log'[applied'[m]].primary = m
  BY <1>p, <1>c DEF Peace
<1>e. \A k, m \in Node : applied'[m] >= applied'[k] \/ Before(m, k)'
  <2>a. \A k, m \in Node : Before(m, k)' <=> Before(m, k)  BY <1>p DEF Before
  <2>q. QED  BY <1>p, <2>a DEF Peace
<1>q. QED  BY <1>n, <1>p, <1>l, <1>a, <1>b, <1>c, <1>d, <1>e DEF Peace

(* What can still happen.                                                  *)
LEMMA PeaceSteps ==
  ASSUME FollowInv, Aged, Timely, NEW s \in Node, NEW x \in Node, Peace(s, x), Next, covered'
  PROVE  \/ \E n \in Node : \E d \in 0 .. N : Pass(n, d)
         \/ \E n \in Node : Rejoin(n)
         \/ Commit \/ Tick
<1>p. /\ leader = x /\ settled /\ running = Node /\ cut = {} /\ hung = {}
      /\ faults >= MaxFaults /\ \A n \in Node : InTime(n)
  BY DEF Peace
<1>w. WdStale >= 2  BY Counts DEF Timely
<1>a. \A n \in Node : ~Skip(n) /\ ~Wake(n)  BY <1>p DEF Skip, Busy, Wake
<1>b. \A n \in Node : ~Watchdog(n)  BY <1>p, <1>w, InTimeRuns
<1>c. ~Settle /\ ~Heal  BY <1>p DEF Settle, Heal
<1>d. ASSUME NEW w \in Node, Elect(w) PROVE FALSE
  <2>a. ~Wins(w)  BY <1>p, PeaceServes, Elections
  <2>b. ~May("depose")  BY <1>p, NoFault DEF FaultKinds
  <2>q. QED  BY <1>d, <2>a, <2>b DEF Elect
<1>e. /\ \A n \in Node : ~Isolate(n) /\ ~Crash(n) /\ ~Hang(n) /\ ~Restart(n)
      /\ \A n, m \in Node : ~CutLink(n, m)
  BY <1>p, NoFault
<1>q. QED  BY <1>a, <1>b, <1>c, <1>d, <1>e DEF Next, RaftStep, Fault

-----------------------------------------------------------------------------
(* Until the pass of x.                                                    *)
LEMMA DoubtedPass ==
  ASSUME FollowInv, Aged, NEW s \in Node, NEW x \in Node, Doubted(s, x),
         NEW n \in Node, NEW d \in 0 .. N, Pass(n, d), n # x
  PROVE  Doubted(s, x)'
<1>i. inbox \in [Node -> SUBSET Node]  BY DEF Aged
<1>g. /\ Peace(s, x) /\ in_recovery[x] /\ leader = x
      /\ Len(log) + Len(pending) <= 2
      /\ \A k \in 2 .. Len(log) : log[k].primary # s
      /\ \A k \in 1 .. Len(pending) : pending[k].primary # s
      /\ \A m \in Node \ {s} : ~in_recovery[m] =>
           /\ ~Holds(m) /\ WindowAge(m) <= 0
           /\ turn > x => m < turn /\ WindowAge(m) = Never
  BY DEF Doubted, Peace
<1>p. /\ turn = n /\ turn' = n + 1 /\ pending' = pending /\ log' = log
      /\ \A m \in Node \ {n} : /\ worker'[m] = worker[m] /\ read_only'[m] = read_only[m]
                               /\ in_recovery'[m] = in_recovery[m]
      /\ in_recovery'[n] => in_recovery[n]
  <2>a. /\ turn = n /\ turn' = n + 1 /\ log' = log
        /\ pending' = IF d # 0 /\ n = leader THEN Append(pending, NextDecision(n, d)) ELSE pending
        /\ \A m \in Node \ {n} : worker'[m] = worker[m]
    BY <1>i, PassChanges
  <2>b. /\ \A m \in Node \ {n} : read_only'[m] = read_only[m] /\ in_recovery'[m] = in_recovery[m]
        /\ in_recovery'[n] => in_recovery[n]
    BY <1>i, PassChanges
  <2>q. QED  BY <1>g, <2>a, <2>b
<1>t. x \in Nat /\ n \in Nat /\ Confirm \in Nat /\ Confirm >= 1 /\ Never = -1
  BY Counts DEF Node, Never
<1>w. worker[n].authorized_since \in -1 .. Confirm  BY DEF Aged, Memory
<1>a. Peace(s, x)'  BY <1>g, PeacePass
<1>b. ASSUME NEW m \in Node \ {s}, ~in_recovery'[m]
      PROVE  /\ ~Holds(m)' /\ WindowAge(m)' <= 0
             /\ turn' > x => m < turn' /\ WindowAge(m)' = Never
  <2>a. CASE m # n
    <3>a. ~in_recovery[m] /\ (Holds(m)' <=> Holds(m)) /\ WindowAge(m)' = WindowAge(m)
      BY <1>b, <1>p, <2>a DEF Holds, WindowAge
    <3>b. m \in Nat /\ (turn' > x => turn > x)  BY <1>p, <1>t DEF Node
    <3>q. QED  BY <1>g, <1>p, <1>t, <3>a, <3>b
  <2>b. CASE m = n /\ in_recovery[n]
    <3>a. ~Holds(n)' /\ WindowAge(n)' = Never  BY <2>b, PassRights
    <3>q. QED  BY <1>p, <1>t, <2>b, <3>a
  <2>c. CASE m = n /\ ~in_recovery[n]
    <3>a. ~Holds(n) /\ WindowAge(n) <= 0 /\ ~(turn > x)  BY <1>g, <1>p, <1>t, <2>c
    <3>b. ~Holds(n)'
      <4>a. WindowAge(n) \in -1 .. Confirm /\ ~(WindowAge(n) >= Confirm)
        BY <1>t, <1>w, <3>a DEF WindowAge
      <4>q. QED  BY <3>a, <4>a, PassRights
    <3>c. WindowAge(n)' <= 0  BY <2>c, <3>a, PassRights
    <3>d. ~(turn' > x)  BY <1>p, <1>t, <3>a
    <3>q. QED  BY <2>c, <3>b, <3>c, <3>d
  <2>q. QED  BY <2>a, <2>b, <2>c
<1>c. in_recovery'[x]  BY <1>g, <1>p
<1>q. QED  BY <1>g, <1>p, <1>a, <1>b, <1>c DEF Doubted

(* With the pass of x, which has counted anew.                             *)
LEMMA DoubtedTells ==
  ASSUME FollowInv, Aged, NEW s \in Node, NEW x \in Node, Doubted(s, x),
         NEW d \in 0 .. N, Pass(x, d)
  PROVE  Told(s, x)'
<1>i. inbox \in [Node -> SUBSET Node]  BY DEF Aged
<1>g. /\ Peace(s, x) /\ in_recovery[x] /\ leader = x /\ x # s /\ log[1].primary = s
      /\ Len(log) + Len(pending) <= 2
      /\ \A k \in 2 .. Len(log) : log[k].primary # s
      /\ \A k \in 1 .. Len(pending) : pending[k].primary # s
      /\ \A m \in Node \ {s} : ~in_recovery[m] => ~Holds(m) /\ WindowAge(m) <= 0
  BY DEF Doubted, Peace
<1>p. /\ turn = x /\ turn' = x + 1 /\ log' = log
      /\ pending' = IF d # 0 THEN Append(pending, NextDecision(x, d)) ELSE pending
      /\ \A m \in Node \ {x} : /\ worker'[m] = worker[m] /\ read_only'[m] = read_only[m]
                               /\ in_recovery'[m] = in_recovery[m]
  BY <1>i, <1>g, PassChanges
<1>t. x \in Nat /\ Never = -1 /\ Len(pending) \in Nat  BY Counts DEF Node, Never, FollowInv, History
<1>l. /\ Len(log) \in Nat /\ Len(log) >= 1 /\ Decided(x) = log[Len(log)]
  BY <1>g, PeaceServes
<1>n. Len(log) # 1 => Len(log) = 2 /\ Len(pending) = 0
  <2>a. Len(log) + Len(pending) <= 2  BY <1>g
  <2>b. Len(pending) \in Nat /\ Len(log) \in Nat /\ Len(log) >= 1
    BY <1>l DEF FollowInv, History
  <2> DEFINE i == Len(log)
             k == Len(pending)
  <2> HIDE DEF i, k
  <2>c. i \in Nat /\ k \in Nat /\ i >= 1 /\ i + k <= 2  BY <2>a, <2>b DEF i, k
  <2>d. i # 1 => i = 2 /\ k = 0  BY <2>c
  <2>q. QED  BY <2>d DEF i, k
<1>a. Peace(s, x)'
  <2>a. ~Rejoins(x)  BY <1>g DEF Rejoins
  <2>q. QED  BY <1>g, <2>a, PeacePass
<1>x. ~Holds(x)' /\ WindowAge(x)' = Never  BY <1>g, PassRights
<1>d. d # 0 => d # log[Len(log)].primary /\ x # log[Len(log)].primary
  <2>a. x \in Live(x)  BY DEF Live
  <2>q. QED  BY <1>g, <2>a, PeaceProposes
<1>b. /\ Len(log') + Len(pending') <= 3
      /\ \A k \in 1 .. Len(pending') : pending'[k].primary = s => Len(log') + k = 3
      /\ ~in_recovery'[x] => Latest'.primary = x
  <2>a. CASE d = 0
    <3>a. ~in_recovery'[x] => pending' = <<>> /\ log'[Len(log')].primary = x
      <4> SUFFICES ASSUME ~in_recovery'[x] PROVE pending' = <<>> /\ log'[Len(log')].primary = x
        OBVIOUS
      <4>a. log[Len(log)].primary = x  BY <1>g, <1>l, PassRights
      <4>b. Len(log) # 1  BY <1>g, <4>a
      <4>c. Len(pending) = 0  BY <1>n, <4>b
      <4>d. pending = <<>>  BY <4>c DEF FollowInv, History
      <4>q. QED  BY <1>p, <2>a, <4>a, <4>d
    <3>b. ~in_recovery'[x] => Latest'.primary = x  BY <3>a DEF Latest
    <3>q. QED  BY <1>g, <1>p, <1>l, <1>t, <2>a, <3>b
  <2>b. CASE d # 0
    <3>a. pending' = Append(pending, NextDecision(x, d))  BY <1>p, <2>b
    <3>b. /\ Len(pending') = Len(pending) + 1
          /\ \A k \in 1 .. Len(pending) : pending'[k] = pending[k]
          /\ pending'[Len(pending')].primary = d
          /\ \A k \in 1 .. Len(pending') : k \in 1 .. Len(pending) \/ k = Len(pending')
      BY <3>a, Proposed
    <3>c. in_recovery'[x]
      <4>a. ~in_recovery'[x] => Decided(x).primary = x  BY <1>g, PassRights
      <4>q. QED  BY <1>d, <1>l, <2>b, <4>a
    <3>d. ASSUME d = s PROVE Len(log) + Len(pending) = 2
      <4>a. Len(log) # 1  BY <1>d, <1>g, <2>b, <3>d
      <4>q. QED  BY <1>n, <4>a
    <3>e. \A k \in 1 .. Len(pending') : pending'[k].primary = s => Len(log') + k = 3
      BY <1>g, <1>p, <1>l, <1>t, <3>b, <3>d
    <3>q. QED  BY <1>g, <1>p, <1>l, <1>t, <3>b, <3>c, <3>e
  <2>q. QED  BY <2>a, <2>b
<1>c. \A m \in Node \ {s} : ~Holds(m)' /\ (~in_recovery'[m] => WindowAge(m)' <= 0)
  <2>a. ASSUME NEW m \in Node \ {s}, m # x
        PROVE  ~Holds(m)' /\ (~in_recovery'[m] => WindowAge(m)' <= 0)
    BY <1>g, <1>p, <2>a DEF Holds, WindowAge
  <2>q. QED  BY <1>x, <1>t, <2>a
<1>e. \A m \in Node \ {x} : Before(m, x)'  BY <1>p, BeforePass
<1>f. turn' > x  BY <1>p, <1>t
<1>q. QED  BY <1>g, <1>p, <1>a, <1>b, <1>c, <1>e, <1>f DEF Told

LEMMA DoubtedStep ==
  ASSUME FollowInv, Aged, Timely, NEW s \in Node, NEW x \in Node, Doubted(s, x), Next, covered'
  PROVE  Safe(s)'
<1>g. /\ Peace(s, x) /\ in_recovery[x]
      /\ Len(log) + Len(pending) <= 2
      /\ \A k \in 2 .. Len(log) : log[k].primary # s
      /\ \A k \in 1 .. Len(pending) : pending[k].primary # s
      /\ \A m \in Node \ {s} : ~in_recovery[m] =>
           /\ ~Holds(m) /\ WindowAge(m) <= 0
           /\ turn > x => m < turn /\ WindowAge(m) = Never
  BY DEF Doubted
<1>s. ASSUME Doubted(s, x)' \/ Told(s, x)' PROVE Safe(s)'  BY <1>s DEF Safe
<1>pass. ASSUME NEW n \in Node, NEW d \in 0 .. N, Pass(n, d) PROVE Safe(s)'
  BY <1>pass, <1>s, DoubtedPass, DoubtedTells
<1>rejoin. ASSUME NEW n \in Node, Rejoin(n) PROVE Doubted(s, x)'
  <2>p. /\ Peace(s, x)' /\ n # x
        /\ \A m \in Node : in_recovery'[m] = (in_recovery[m] \/ m = n)
        /\ \A m \in Node \ {n} : (Holds(m)' <=> Holds(m)) /\ WindowAge(m)' = WindowAge(m)
        /\ UNCHANGED <<turn, log, pending>>
    BY <1>g, <1>rejoin, PeaceRejoin
  <2>q. QED  BY <1>g, <2>p DEF Doubted
<1>commit. ASSUME Commit PROVE Doubted(s, x)'
  <2>p. /\ Len(pending) \in Nat /\ Len(pending) >= 1 /\ Len(log) \in Nat
        /\ Len(pending') = Len(pending) - 1 /\ Len(log') = Len(log) + 1
        /\ \A k \in 1 .. Len(pending') : pending'[k] = pending[k + 1] /\ k + 1 \in 1 .. Len(pending)
        /\ log'[Len(log')] = pending[1]
        /\ \A k \in 1 .. Len(log) : log'[k] = log[k]
        /\ \A k \in 1 .. Len(log') : k \in 1 .. Len(log) \/ k = Len(log')
        /\ UNCHANGED <<turn, worker, in_recovery, read_only>>
    BY <1>commit, CommitChanges
  <2>a. Peace(s, x)'  BY <1>g, <1>commit, PeaceCommit
  <2>b. Len(log') + Len(pending') <= 2
    <3>a. Len(log) + Len(pending) <= 2  BY <1>g
    <3>q. QED  BY <2>p, <3>a
  <2>c. ASSUME NEW k \in 2 .. Len(log') PROVE log'[k].primary # s
    <3>a. CASE k = Len(log')  BY <1>g, <2>p, <3>a
    <3>b. CASE k # Len(log')
      <4>a. k \in 2 .. Len(log) /\ k \in 1 .. Len(log)  BY <2>p, <2>c, <3>b
      <4>q. QED  BY <1>g, <2>p, <4>a
    <3>q. QED  BY <3>a, <3>b
  <2>d. \A k \in 1 .. Len(pending') : pending'[k].primary # s  BY <1>g, <2>p
  <2>e. \A m \in Node : (Holds(m)' <=> Holds(m)) /\ WindowAge(m)' = WindowAge(m)
    BY <2>p DEF Holds, WindowAge
  <2>q. QED  BY <1>g, <2>p, <2>a, <2>b, <2>c, <2>d, <2>e DEF Doubted
<1>tick. ASSUME Tick PROVE Doubted(s, x)'
  <2>p. /\ Peace(s, x)' /\ pending = <<>> /\ pending' = <<>> /\ log' = log
        /\ turn = N + 1 /\ turn' = 1
        /\ \A n \in Node : /\ in_recovery'[n] = in_recovery[n] /\ (Holds(n)' <=> Holds(n))
                           /\ WindowAge(n) = Never => WindowAge(n)' = Never
    BY <1>g, <1>tick, PeaceTick
  <2>t. x \in 1 .. N /\ N \in Nat /\ Never = -1  BY Counts DEF Node, Never
  <2>a. turn > x /\ ~(turn' > x)  BY <2>p, <2>t
  <2>q. QED  BY <1>g, <2>p, <2>t, <2>a DEF Doubted
<1>q. QED  BY <1>g, <1>s, <1>pass, <1>rejoin, <1>commit, <1>tick, PeaceSteps

-----------------------------------------------------------------------------
(* After the pass of x. Who takes the right to write has counted its own   *)
(* window since its last pass, which s has followed with one of its own.   *)
LEMMA ToldTakes ==
  ASSUME FollowInv, Aged, NEW s \in Node, NEW x \in Node, Told(s, x),
         NEW n \in Node, NEW d \in 0 .. N, Pass(n, d), n # s, Holds(n)'
  PROVE  pending = <<>> /\ log[Len(log)].primary = n /\ ~Holds(s)
<1>i. inbox \in [Node -> SUBSET Node]  BY DEF Aged
<1>g. /\ Peace(s, x) /\ log[1].primary = s
      /\ Len(log) + Len(pending) <= 3
      /\ \A k \in 2 .. Len(log) : log[k].primary = s => k = 3
      /\ Holds(n) => pending = <<>> /\ log[Len(log)].primary = n /\ ~Holds(s)
      /\ pending # <<>> /\ ~in_recovery[n] => WindowAge(n) <= 0
      /\ \A m, k \in Node : applied[m] >= applied[k] \/ Before(m, k)
      /\ \A m \in Node : ~in_recovery[m] /\ (Holds(m) \/ WindowAge(m) # Never) =>
                           log[applied[m]].primary = m
  BY DEF Told, Peace
<1>t. Confirm \in Nat /\ Confirm >= 1 /\ Never = -1 /\ WindowAge(n) \in -1 .. Confirm
  BY Counts DEF Aged, Memory, Never, WindowAge
<1>a. ~in_recovery[n] /\ Decided(n).primary = n  BY PassRights
<1>b. log[Len(log)].primary = n  BY <1>a, <1>g, PeaceServes
<1> SUFFICES ASSUME ~Holds(n) PROVE pending = <<>> /\ ~Holds(s)
  BY <1>b, <1>g
<1>c. WindowAge(n) >= Confirm  BY PassRights
<1>d. pending = <<>>  BY <1>g, <1>a, <1>c, <1>t
<1>e. log[applied[n]].primary = n  BY <1>g, <1>a, <1>c, <1>t
<1>f. ASSUME Holds(s) PROVE FALSE
  <2>a. log[applied[s]].primary = s  BY <1>f, <1>g DEF Holds
  <2>b. /\ applied[s] \in 1 .. Len(log) /\ applied[n] \in 1 .. Len(log) /\ Len(log) \in Nat
    BY GoesBy
  <2>c. Len(log) <= 3
    <3>a. Len(pending) \in Nat /\ Len(log) + Len(pending) <= 3  BY <1>g DEF FollowInv, History
    <3>q. QED  BY <2>b, <3>a
  <2>d. applied[s] # Len(log)  BY <1>b, <2>a
  <2>e. applied[s] = 1  BY <1>g, <2>a, <2>b, <2>c, <2>d
  <2>f. applied[n] # 1  BY <1>e, <1>g
  <2>h. ~(applied[s] >= applied[n])  BY <2>b, <2>e, <2>f
  <2>j. Before(s, n)  BY <1>g, <2>h
  <2>k. turn = n /\ turn' = n + 1  BY <1>i, PassChanges
  <2>q. QED  BY <2>j, <2>k, BeforePass
<1>q. QED  BY <1>d, <1>f

LEMMA ToldPass ==
  ASSUME FollowInv, Aged, NEW s \in Node, NEW x \in Node, Told(s, x),
         NEW n \in Node, NEW d \in 0 .. N, Pass(n, d)
  PROVE  Told(s, x)'
<1>i. inbox \in [Node -> SUBSET Node]  BY DEF Aged
<1>g. /\ Peace(s, x) /\ leader = x /\ x # s
      /\ Len(log) + Len(pending) <= 3
      /\ \A k \in 2 .. Len(log) : log[k].primary = s => k = 3
      /\ \A k \in 1 .. Len(pending) : pending[k].primary = s => Len(log) + k = 3
      /\ pending # <<>> => turn > x
      /\ \A m \in Node \ {x} : m \in inbox[x] \/ Before(m, x)
      /\ ~in_recovery[x] => Latest.primary = x
      /\ \A m \in Node \ {s} : Holds(m) => pending = <<>> /\ log[Len(log)].primary = m /\ ~Holds(s)
      /\ pending # <<>> => \A m \in Node \ {s} : ~in_recovery[m] => WindowAge(m) <= 0
  BY DEF Told, Peace
<1>p. /\ turn = n /\ turn' = n + 1 /\ log' = log
      /\ pending' = IF d # 0 /\ n = leader THEN Append(pending, NextDecision(n, d)) ELSE pending
  BY <1>i, PassChanges
<1>m. \A m \in Node \ {n} : /\ worker'[m] = worker[m] /\ read_only'[m] = read_only[m]
                            /\ in_recovery'[m] = in_recovery[m]
  BY <1>i, PassChanges
<1>b. \A m \in Node : inbox'[m] = IF m = n THEN {} ELSE
                                  IF m \in Reach(n) THEN inbox[m] \cup {n} ELSE inbox[m]
  BY <1>i, PassChanges
<1>t. x \in Nat /\ n \in Nat /\ Never = -1  BY Counts DEF Node, Never
<1>l. Decided(n) = log[Len(log)] /\ log[Len(log)].primary \in Node /\ Reach(n) = Node
  BY <1>g, PeaceServes
<1>x. ASSUME n = x PROVE pending = <<>> /\ d = 0
  <2>a. pending = <<>>  BY <1>g, <1>p, <1>t, <1>x
  <2>b. ASSUME NEW m \in Node PROVE m \in Live(x)
    <3>a. CASE m = x  BY <3>a DEF Live
    <3>b. CASE m # x
      <4>a. ~Before(m, x)  BY <1>p, <1>x, BeforePass
      <4>b. m \in inbox[x]  BY <1>g, <3>b, <4>a
      <4>c. Ages(x)[m] = 0 /\ Dead \in Nat /\ Dead >= 1  BY <4>b, Counts DEF Ages
      <4>d. Ages(x)[m] < Dead  BY <4>c
      <4>q. QED  BY <4>d DEF Live
    <3>q. QED  BY <3>a, <3>b
  <2>q. QED  BY <1>g, <1>l, <1>x, <2>a, <2>b, PeaceProposes
<1>s. pending' = pending  BY <1>g, <1>p, <1>x
<1>y. ASSUME ~in_recovery'[x] PROVE Latest'.primary = x /\ (n = x => log[Len(log)].primary = x)
  <2>a. CASE ~in_recovery[x]
    <3>a. Latest'.primary = x  BY <1>g, <1>p, <1>s, <2>a DEF Latest
    <3>q. QED  BY <1>g, <1>x, <2>a, <3>a DEF Latest
  <2>b. CASE in_recovery[x]
    <3>a. n = x  BY <1>m, <1>y, <2>b
    <3>b. log[Len(log)].primary = x  BY <1>l, <1>y, <2>b, <3>a, PassRights
    <3>c. pending' = <<>>  BY <1>s, <1>x, <3>a
    <3>q. QED  BY <1>p, <3>b, <3>c DEF Latest
  <2>q. QED  BY <2>a, <2>b
<1>a. Peace(s, x)'
  <2>a. n = x => ~Rejoins(n)
    <3> SUFFICES ASSUME n = x, ~in_recovery[x] PROVE Decided(x).primary = x
      BY DEF Rejoins
    <3>a. log[Len(log)].primary = x  BY <1>g, <1>x DEF Latest
    <3>q. QED  BY <1>l, <3>a
  <2>q. QED  BY <1>g, <2>a, PeacePass
<1>c. ASSUME NEW m \in Node \ {x} PROVE m \in inbox'[x] \/ Before(m, x)'
  <2>a. CASE n = x  BY <1>p, <2>a, BeforePass
  <2>b. CASE n # x /\ m = n  BY <1>b, <1>l, <2>b
  <2>c. CASE n # x /\ m # n
    <3>a. Before(m, x)' <=> Before(m, x)  BY <1>p, <2>c, BeforePass
    <3>q. QED  BY <1>g, <1>b, <2>c, <3>a
  <2>q. QED  BY <2>a, <2>b, <2>c
<1>d. ASSUME NEW m \in Node \ {s}, Holds(m)'
      PROVE  pending' = <<>> /\ log'[Len(log')].primary = m /\ ~Holds(s)'
  <2>a. pending = <<>> /\ log[Len(log)].primary = m /\ ~Holds(s)
    <3>a. CASE m = n  BY <1>d, <3>a, ToldTakes
    <3>b. CASE m # n  BY <1>d, <1>g, <1>m, <3>b DEF Holds
    <3>q. QED  BY <3>a, <3>b
  <2>b. ~Holds(s)'
    <3>a. CASE s = n
      <4>a. Holds(s)' => Decided(s).primary = s  BY <3>a, PassRights
      <4>q. QED  BY <1>l, <2>a, <3>a, <4>a
    <3>b. CASE s # n  BY <1>m, <2>a, <3>b DEF Holds
    <3>q. QED  BY <3>a, <3>b
  <2>q. QED  BY <1>p, <1>s, <2>a, <2>b
<1>e. ASSUME pending # <<>>, NEW m \in Node \ {s}, ~in_recovery'[m] PROVE WindowAge(m)' <= 0
  <2>a. CASE m # n  BY <1>e, <1>g, <1>m, <2>a DEF WindowAge
  <2>b. CASE m = n /\ in_recovery[n]
    <3>a. WindowAge(n)' = Never  BY <2>b, PassRights
    <3>q. QED  BY <1>t, <2>b, <3>a
  <2>c. CASE m = n /\ ~in_recovery[n]
    <3>a. ~Holds(n) /\ WindowAge(n) <= 0  BY <1>e, <1>g, <2>c
    <3>q. QED  BY <2>c, <3>a, PassRights
  <2>q. QED  BY <2>a, <2>b, <2>c
<1>f. pending' # <<>> => turn' > x  BY <1>g, <1>p, <1>s, <1>t
<1>q. QED  BY <1>g, <1>p, <1>s, <1>a, <1>c, <1>y, <1>d, <1>e, <1>f DEF Told

LEMMA ToldStep ==
  ASSUME FollowInv, Aged, Timely, NEW s \in Node, NEW x \in Node, Told(s, x), Next, covered'
  PROVE  Told(s, x)'
<1>g. /\ Peace(s, x)
      /\ Len(log) + Len(pending) <= 3
      /\ \A k \in 2 .. Len(log) : log[k].primary = s => k = 3
      /\ \A k \in 1 .. Len(pending) : pending[k].primary = s => Len(log) + k = 3
      /\ pending # <<>> => turn > x
      /\ \A m \in Node \ {x} : m \in inbox[x] \/ Before(m, x)
      /\ ~in_recovery[x] => Latest.primary = x
      /\ \A m \in Node \ {s} : Holds(m) => pending = <<>> /\ log[Len(log)].primary = m /\ ~Holds(s)
      /\ pending # <<>> => \A m \in Node \ {s} : ~in_recovery[m] => WindowAge(m) <= 0
  BY DEF Told
<1>pass. ASSUME NEW n \in Node, NEW d \in 0 .. N, Pass(n, d) PROVE Told(s, x)'
  BY <1>pass, ToldPass
<1>rejoin. ASSUME NEW n \in Node, Rejoin(n) PROVE Told(s, x)'
  <2>p. /\ Peace(s, x)' /\ n # x
        /\ \A m \in Node : in_recovery'[m] = (in_recovery[m] \/ m = n)
        /\ ~Holds(n)'
        /\ \A m \in Node \ {n} : /\ Holds(m)' <=> Holds(m)
                                 /\ WindowAge(m)' = WindowAge(m) /\ inbox'[m] = inbox[m]
        /\ UNCHANGED <<turn, log, pending>>
    BY <1>g, <1>rejoin, PeaceRejoin
  <2>a. \A m \in Node : Before(m, x)' <=> Before(m, x)  BY <2>p DEF Before
  <2>b. Latest' = Latest  BY <2>p DEF Latest
  <2>c. \A m \in Node \ {s} :
          Holds(m)' => pending' = <<>> /\ log'[Len(log')].primary = m /\ ~Holds(s)'
    BY <1>g, <2>p
  <2>q. QED  BY <1>g, <2>p, <2>a, <2>b, <2>c DEF Told
<1>commit. ASSUME Commit PROVE Told(s, x)'
  <2>p. /\ pending # <<>> /\ Len(pending) \in Nat /\ Len(pending) >= 1 /\ Len(log) \in Nat
        /\ Len(pending') = Len(pending) - 1 /\ Len(log') = Len(log) + 1
        /\ \A k \in 1 .. Len(pending') : pending'[k] = pending[k + 1] /\ k + 1 \in 1 .. Len(pending)
        /\ log'[Len(log')] = pending[1]
        /\ \A k \in 1 .. Len(log) : log'[k] = log[k]
        /\ UNCHANGED <<turn, inbox, worker, in_recovery, read_only>>
    BY <1>commit, CommitChanges
  <2>a. Peace(s, x)'  BY <1>g, <1>commit, PeaceCommit
  <2>b. Len(log') + Len(pending') <= 3
    <3>a. Len(log) + Len(pending) <= 3  BY <1>g
    <3>q. QED  BY <2>p, <3>a
  <2>c. ASSUME NEW k \in 2 .. Len(log'), log'[k].primary = s PROVE k = 3
    <3>a. CASE k = Len(log')
      <4>a. pending[1].primary = s /\ 1 \in 1 .. Len(pending)  BY <2>c, <2>p, <3>a
      <4>b. Len(log) + 1 = 3  BY <1>g, <4>a
      <4>q. QED  BY <2>p, <3>a, <4>b
    <3>b. CASE k # Len(log')
      <4>a. k \in 2 .. Len(log) /\ k \in 1 .. Len(log)  BY <2>p, <2>c, <3>b
      <4>q. QED  BY <1>g, <2>c, <2>p, <4>a
    <3>q. QED  BY <3>a, <3>b
  <2>d. ASSUME NEW k \in 1 .. Len(pending'), pending'[k].primary = s PROVE Len(log') + k = 3
    <3>a. k + 1 \in 1 .. Len(pending) /\ pending[k + 1].primary = s  BY <2>d, <2>p
    <3>b. Len(log) + (k + 1) = 3  BY <1>g, <3>a
    <3>q. QED  BY <2>p, <3>b
  <2>e. Latest' = Latest
    <3>h. pending \in Seq(Decision) /\ pending' = Tail(pending)
      BY <1>commit DEF FollowInv, History, Commit
    <3>a. CASE pending' = <<>>
      <4>a. Len(pending') = 0  BY <3>a
      <4>b. Len(pending) = 1  BY <2>p, <4>a
      <4>q. QED  BY <2>p, <3>a, <4>b DEF Latest
    <3>b. CASE pending' # <<>>
      <4>a. Len(pending') \in 1 .. Len(pending')  BY <3>b, <3>h
      <4>b. pending'[Len(pending')] = pending[Len(pending)]  BY <2>p, <4>a
      <4>q. QED  BY <2>p, <3>b, <4>b DEF Latest
    <3>q. QED  BY <3>a, <3>b
  <2>f. \A m \in Node : (Holds(m)' <=> Holds(m)) /\ WindowAge(m)' = WindowAge(m)
    BY <2>p DEF Holds, WindowAge
  <2>h. \A m \in Node : Before(m, x)' <=> Before(m, x)  BY <2>p DEF Before
  <2>j. \A m \in Node \ {s} : ~Holds(m)'  BY <1>g, <2>p, <2>f
  <2>q. QED  BY <1>g, <2>p, <2>a, <2>b, <2>c, <2>d, <2>e, <2>f, <2>h, <2>j DEF Told
<1>tick. ASSUME Tick PROVE Told(s, x)'
  <2>p. /\ Peace(s, x)' /\ pending = <<>> /\ pending' = <<>> /\ log' = log /\ inbox' = inbox
        /\ turn = N + 1 /\ turn' = 1
        /\ \A n \in Node : in_recovery'[n] = in_recovery[n] /\ (Holds(n)' <=> Holds(n))
    BY <1>g, <1>tick, PeaceTick
  <2>a. \A m \in Node : Before(m, x)' <=> Before(m, x)  BY <2>p, BeforeTick
  <2>b. Latest' = Latest  BY <2>p DEF Latest
  <2>q. QED  BY <1>g, <2>p, <2>a, <2>b DEF Told
<1>q. QED  BY <1>g, <1>pass, <1>rejoin, <1>commit, <1>tick, PeaceSteps

-----------------------------------------------------------------------------
(* A step that changes nothing changes none of this.                       *)
LEMMA SafeSame ==
  ASSUME NEW s \in Node, Safe(s), UNCHANGED vars
  PROVE  Safe(s)'
<1>u. UNCHANGED <<turn, running, hung, cut, faults, leader, settled, believers, pending,
                  holders, log, applied, inbox, worker, in_recovery, read_only, rejoin>>
  BY DEF vars, network, raft, memory, postgres
<1>l. Loyal(s)' = Loyal(s) /\ Fenced(s)' = Fenced(s)  BY <1>u DEF Loyal, Fenced
<1>h. /\ \A n \in Node : InTime(n)' = InTime(n)
      /\ \A n, m \in Node : Hears(n, m)' = Hears(n, m)
  BY <1>u DEF InTime, Hears
<1>o. \A x \in Node : OneOut(x)' = OneOut(x) /\ Unharmed(x) = Unharmed(x)'
  BY <1>u, <1>h DEF OneOut, Unharmed
<1>w. Writable(s)' = Writable(s)  BY <1>u DEF Writable
<1>s. ASSUME NEW x \in Node, Steady(s, x) PROVE Steady(s, x)'
  <2>f. Fresh' /\ Calm'  BY <1>s, <1>u, <1>h DEF Steady, Fresh, Calm
  <2>m. Led' = Led  BY <1>u DEF Led, HasQuorum, Reach, Linked
  <2>n. Missing(s)' = Missing(s)  BY <1>u, <1>l DEF Missing
  <2>a. Spread(x)' = Spread(x) /\ Lost(x)' = Lost(x)  BY <1>u DEF Spread, Lost
  <2>c. Contact(s, x)'  BY <1>s, <1>u, <1>h, <2>n, <2>a DEF Steady, Contact
  <2>w. Waiting(s, x)'  BY <1>s, <1>u, <2>a DEF Steady, Waiting
  <2>q. QED  BY <1>s, <1>u, <1>l, <1>h, <1>o, <2>f, <2>m, <2>c, <2>w DEF Steady
<1>g. ASSUME NEW x \in Node, Hanging(s, x) PROVE Hanging(s, x)'
  BY <1>g, <1>u, <1>l, <1>h, <1>o, <1>w DEF Hanging
<1>r. /\ \A n \in Node : Holds(n)' = Holds(n) /\ WindowAge(n)' = WindowAge(n)
      /\ \A n, m \in Node : Before(n, m)' = Before(n, m)
      /\ Latest' = Latest
  BY <1>u DEF Holds, WindowAge, Before, Latest
<1>p. \A x \in Node : Peace(s, x)' = Peace(s, x)  BY <1>u, <1>h, <1>r DEF Peace
<1>d. ASSUME NEW x \in Node, Doubted(s, x) PROVE Doubted(s, x)'
  BY <1>d, <1>u, <1>r, <1>p DEF Doubted
<1>t. ASSUME NEW x \in Node, Told(s, x) PROVE Told(s, x)'
  BY <1>t, <1>u, <1>r, <1>p DEF Told
<1>c. ASSUME NEW c \in Node, GivenUp(s, c) PROVE GivenUp(s, c)'
  <2>a. Succession(s, c)' /\ Standbys(s, c)'
    BY <1>c, <1>u DEF GivenUp, Succession, Standbys
  <2>b. Waits(c, s)' = Waits(c, s) /\ Stalled(s)' = Stalled(s)  BY <1>u DEF Waits, Stalled
  <2>d. Overdue(s, c)' = Overdue(s, c)  BY <1>u, <1>w, <2>b DEF Overdue
  <2>e. Yields(s)' = Yields(s)  BY <1>u DEF Yields
  <2>o. Out(s, c)'  BY <1>c, <1>u, <2>d, <2>e DEF GivenUp, Out
  <2>q. QED  BY <1>c, <1>u, <1>o, <2>a, <2>o DEF GivenUp
<1>q. QED  BY <1>s, <1>g, <1>d, <1>t, <1>c DEF Safe

LEMMA StepTimed ==
  ASSUME Timely, FollowInv, TimedInv, [Next]_vars
  PROVE  TimedInv'
<1>a. Aged'  BY StepAged DEF TimedInv
<1>c. covered' => covered
  BY QuietSteps, CommitStep, LosingSteps, UncoveredSteps, PassStep
  DEF Next, RaftStep, Fault, vars, network
<1> SUFFICES ASSUME covered' PROVE \E s \in Node : Safe(s)'
  BY <1>a DEF TimedInv
<1>s. PICK s \in Node : Safe(s)  BY <1>c DEF TimedInv
<1>u. CASE UNCHANGED vars  BY <1>s, <1>u, SafeSame
<1>n. CASE Next
  <2>i. Aged  BY DEF TimedInv
  <2>a. ASSUME NEW x \in Node, Steady(s, x) PROVE Safe(s)'  BY <1>n, <2>i, <2>a, SteadyStep
  <2>b. ASSUME NEW x \in Node, Hanging(s, x) PROVE Safe(s)'
    <3>a. Hanging(s, x)' \/ \E c \in Node : GivenUp(s, c)'  BY <1>n, <2>i, <2>b, HangingStep
    <3>q. QED  BY <3>a DEF Safe
  <2>c. ASSUME NEW c \in Node, GivenUp(s, c) PROVE Safe(s)'
    <3>a. GivenUp(s, c)'  BY <1>n, <2>i, <2>c, GivenUpStep
    <3>q. QED  BY <3>a DEF Safe
  <2>d. ASSUME NEW x \in Node, Doubted(s, x) PROVE Safe(s)'  BY <1>n, <2>i, <2>d, DoubtedStep
  <2>t. ASSUME NEW x \in Node, Told(s, x) PROVE Safe(s)'
    <3>a. Told(s, x)'  BY <1>n, <2>i, <2>t, ToldStep
    <3>q. QED  BY <3>a DEF Safe
  <2>q. QED  BY <1>s, <2>a, <2>b, <2>c, <2>d, <2>t DEF Safe
<1>q. QED  BY <1>u, <1>n

LEMMA InitTimed ==
  ASSUME Timely, Init
  PROVE  TimedInv
<1>s. PICK start \in Starts :
        /\ turn = 1 /\ running = Node /\ hung = {} /\ cut = {} /\ faults = 0 /\ covered = TRUE
        /\ leader = start[2] /\ settled = TRUE
        /\ pending = <<>> /\ holders = Node
        /\ log = (IF start[3] THEN <<[seq |-> 1, primary |-> start[1]]>> ELSE <<>>)
        /\ applied = [n \in Node |-> Len(log)]
        /\ inbox = [n \in Node |-> {}]
        /\ worker = [n \in Node |->
             IF start[3]
               THEN [Started([seq |-> 1, primary |-> start[1]]) EXCEPT
                       !.heard = [m \in Node |-> 1], !.peer_seq = TRUE,
                       !.applied_read_only = IF n = start[1] THEN "off" ELSE "none",
                       !.authorized_since = IF n = start[1] THEN 1 ELSE Never,
                       !.last_loop = 1]
               ELSE Started(NoDecision)]
        /\ in_recovery = [n \in Node |-> n # start[1]]
        /\ rejoin = {}
  BY DEF Init
<1>t. start[3] /\ start[1] \in Node /\ start[2] \in Node
  BY FailoverAssumption DEF FailoverAssumption, Timely, Established, Node
<1> DEFINE s == start[1]
           first == [seq |-> 1, primary |-> s]
<1>l. log = <<first>>  BY <1>s, <1>t
<1>m. Len(log) = 1 /\ log[1] = first /\ log[1].primary = s  BY <1>l
<1>w. ASSUME NEW n \in Node
      PROVE  /\ worker[n].decided = first /\ worker[n].heard = [m \in Node |-> 1]
             /\ worker[n].asking = {} /\ worker[n].reconfirm_pending = FALSE
             /\ worker[n].applied_read_only # "on"
             /\ worker[n].authorized_since \in {Never, 1} /\ worker[n].last_loop = 1
             /\ worker[n].last_proposed = [seq |-> 0, age |-> 0]
  BY <1>s, <1>t DEF Started, NoProposal
<1>n. /\ N \in Nat /\ N >= 1 /\ Dead \in Nat /\ Dead >= 3 /\ WdStale \in Nat /\ WdStale >= 1
      /\ Confirm \in Nat /\ Confirm >= 1
  BY Counts DEF Timely
<1>e. /\ turn = 1 /\ running = Node /\ hung = {} /\ cut = {} /\ faults = 0
      /\ leader \in Node /\ settled = TRUE /\ pending = <<>> /\ rejoin = {}
  BY <1>s, <1>t
<1> HIDE DEF s, first
<1>a. Aged
  <2>a. ASSUME NEW n \in Node PROVE Memory(worker[n])
    <3>w. /\ worker[n].heard = [m \in Node |-> 1] /\ worker[n].last_loop = 1
          /\ worker[n].authorized_since \in {Never, 1}
          /\ worker[n].last_proposed = [seq |-> 0, age |-> 0]
      BY <1>w
    <3>a. worker[n].heard \in [Node -> 0 .. Dead]  BY <3>w, <1>n
    <3>b. worker[n].last_loop \in 0 .. WdStale  BY <3>w, <1>n
    <3>c. worker[n].authorized_since \in -1 .. Confirm  BY <3>w, <1>n DEF Never
    <3>d. worker[n].last_proposed \in [seq : Nat, age : 0 .. Retry]
      <4>a. 0 \in 0 .. Retry  BY Counts
      <4>q. QED  BY <3>w, <4>a
    <3>q. QED  BY <3>a, <3>b, <3>c, <3>d DEF Memory
  <2>b. \A n \in Node : applied[n] = 1  BY <1>s, <1>m
  <2>c. turn \in 1 .. N + 1 /\ leader \in 0 .. N /\ faults \in Nat
    BY <1>e, <1>n DEF Node
  <2>d. inbox \in [Node -> SUBSET Node]  BY <1>s
  <2>e. ASSUME NEW n \in Node
        PROVE  /\ applied[n] >= 1 /\ worker[n].decided = log[applied[n]]
               /\ worker[n].applied_read_only # "on"
    <3>a. worker[n].decided = first /\ worker[n].applied_read_only # "on"  BY <1>w
    <3>q. QED  BY <1>m, <2>b, <3>a
  <2>q. QED  BY <2>a, <2>c, <2>d, <2>e DEF Aged
<1>b. s \in Node /\ leader \in Node  BY <1>s, <1>t DEF s
<1>i. /\ \A n \in Node : InTime(n)
      /\ \A n, m \in Node : Hears(n, m)
  <2>a. ASSUME NEW n \in Node PROVE InTime(n)
    <3>a. ~(turn > n)  BY <1>e, <1>n DEF Node
    <3>b. worker[n].last_loop = 1  BY <1>w
    <3>q. QED  BY <3>a, <3>b DEF InTime
  <2>b. ASSUME NEW n \in Node, NEW m \in Node PROVE Hears(n, m)
    <3>a. worker[n].heard[m] = 1 /\ worker[m].last_loop = 1  BY <1>w
    <3>q. QED  BY <3>a DEF Hears
  <2>q. QED  BY <2>a, <2>b
<1>y. Loyal(s)
  <2>a. \A n \in Node : in_recovery[n] <=> n # s  BY <1>s DEF s
  <2>b. \A i \in 1 .. Len(log) : log[i].primary = s  BY <1>m
  <2>q. QED  BY <1>s, <2>a, <2>b DEF Loyal
<1>f. Fresh /\ Calm
  BY <1>s, <1>m, <1>w, <1>i DEF Fresh, Calm
<1>o. OneOut(s) /\ Unharmed(s)  BY <1>s, <1>i DEF OneOut, Unharmed
<1>v. Led /\ Waiting(s, s)  BY <1>e DEF Led, Waiting
<1>g. Missing(s)
  <2> SUFFICES ASSUME NEW n \in Node \ {s}
               PROVE  /\ cut = {}
                      /\ ~(worker[n].heard[s] >= Dead - 1 + worker[s].last_loop)
    BY DEF Missing
  <2>a. worker[n].heard[s] = 1 /\ worker[s].last_loop = 1  BY <1>b, <1>w
  <2>q. QED  BY <1>e, <1>n, <2>a
<1>k. Contact(s, s)  BY <1>g DEF Contact
<1>q. QED  BY <1>s, <1>a, <1>b, <1>i, <1>y, <1>f, <1>o, <1>v, <1>k DEF TimedInv, Safe, Steady

-----------------------------------------------------------------------------
(* Who writes.                                                             *)
LEMMA SafeWriters ==
  ASSUME Aged, NEW s \in Node, Safe(s)
  PROVE  \E k \in Node : Writers \subseteq {k}
<1>l. CASE Loyal(s)  BY <1>l DEF Loyal, Writers, Writable
<1>c. ASSUME NEW c \in Node, GivenUp(s, c) PROVE \E k \in Node : Writers \subseteq {k}
  <2>a. Writers \subseteq {s, c}  BY <1>c DEF GivenUp, Standbys, Writers, Writable
  <2>b. CASE Writable(s)
    <3>a. ~Yields(s) /\ s \in running /\ ~in_recovery[s]  BY <2>b DEF Writable, Yields
    <3>b. Waits(c, s)  BY <1>c, <2>b, <3>a DEF GivenUp, Out, Overdue
    <3>c. ~Writable(c)  BY <3>b DEF Waits, Writable
    <3>q. QED  BY <2>a, <3>c DEF Writers
  <2>c. CASE ~Writable(s)  BY <2>a, <2>c DEF Writers
  <2>q. QED  BY <2>b, <2>c
<1>d. ASSUME NEW x \in Node, Doubted(s, x) PROVE Writers \subseteq {s}
  BY <1>d DEF Doubted, Holds, Writers, Writable
<1>t. ASSUME NEW x \in Node, Told(s, x) PROVE \E k \in Node : Writers \subseteq {k}
  <2>a. \A n \in Writers : n \in Node /\ Holds(n)  BY DEF Holds, Writers, Writable
  <2>b. \A n \in Writers \ {s} : log[Len(log)].primary = n /\ ~Holds(s)
    BY <1>t, <2>a DEF Told
  <2>c. CASE Writers \subseteq {s}  BY <2>c
  <2>d. CASE ~(Writers \subseteq {s})
    <3>a. PICK n \in Writers : n # s  BY <2>d
    <3>b. \A m \in Writers : m = n  BY <2>a, <2>b, <3>a
    <3>q. QED  BY <2>a, <3>a, <3>b
  <2>q. QED  BY <2>c, <2>d
<1>q. QED  BY <1>l, <1>c, <1>d, <1>t DEF Safe, Steady, Hanging

(* The invariant that carries the timing: from the start on, the seeded    *)
(* node is in touch, or it is gone, cut off, hanging or has just come      *)
(* back, and by the time another is promoted it has fenced itself, or      *)
(* knows that it stalled, or is told by the decision that all follow.      *)
THEOREM FailoverTimed ==
  ASSUME Timely
  PROVE  Spec => [](FollowInv /\ TimedInv)
<1>i. Init => TimedInv  BY InitTimed
<1>s. FollowInv /\ TimedInv /\ [Next]_vars => TimedInv'  BY StepTimed
<1>q. QED  BY <1>i, <1>s, FailoverFollows, PTL DEF Spec

(* "Never two writable primaries" (ARCHITECTURE.md), for every number of   *)
(* nodes, in an established cluster and whichever node is isolated,        *)
(* crashes, hangs or is deposed as leader: authority that each node        *)
(* derives from its own clock and its own view never overlaps, however     *)
(* long an election takes.                                                 *)
THEOREM FailoverOneWritable ==
  ASSUME Timely
  PROVE  Spec => []OneWritable
<1>a. TimedInv => OneWritable
  BY SafeWriters DEF TimedInv, OneWritable, Writers
<1>q. QED  BY <1>a, FailoverTimed, PTL

(* "Self-fence the loser ... before a new one is promoted"                 *)
(* (ARCHITECTURE.md), for every number of nodes and however long an        *)
(* election takes: quorum_lease is up on the primary that lost its peers,  *)
(* and it has fenced itself, before dead_timeout is up on them and one is  *)
(* promoted. If it is still writable then, either its worker hangs for     *)
(* longer than stall_threshold, or it never missed them, and follows the   *)
(* decision of a leader that did not hear of it in time.                   *)
THEOREM FailoverFencedBeforePromotion ==
  ASSUME Timely
  PROVE  Spec => FencedBeforePromotion
<1>s. FollowInv /\ TimedInv /\ [Next]_vars
        => [covered' => \A n \in Node : in_recovery[n] /\ ~in_recovery'[n] =>
              \A m \in Writers \ {n} : Stalled(m) \/ Serves(m)]_vars
  <2> SUFFICES ASSUME FollowInv, TimedInv, Next, covered', NEW n \in Node,
                      in_recovery[n], ~in_recovery'[n], NEW m \in Writers \ {n}
               PROVE  Stalled(m) \/ Serves(m)
    OBVIOUS
  <2>i. Aged /\ in_recovery \in [Node -> BOOLEAN]  BY DEF TimedInv, FollowInv, Roles
  <2>a. ASSUME UNCHANGED in_recovery PROVE FALSE  BY <2>a
  <2>b. ASSUME NEW k \in Node, Watchdog(k) \/ Crash(k) \/ Restart(k) PROVE FALSE
    BY <2>a, <2>b DEF Watchdog, Crash, Restart, postgres
  <2>c. ASSUME NEW k \in Node, Rejoin(k) PROVE FALSE
    BY <2>c, <2>i DEF Rejoin
  <2>d. ASSUME NEW k \in Node, NEW j \in Node, CutLink(k, j) PROVE FALSE
    BY <2>a, <2>d DEF CutLink, postgres
  <2>p. ASSUME NEW k \in Node, NEW d \in 0 .. N, Pass(k, d) PROVE Stalled(m) \/ Serves(m)
    <3>a. /\ in_recovery' = [in_recovery EXCEPT ![k] = @ /\ ~Promotes(k)] /\ covered' = covered
      BY <2>p DEF Pass, network
    <3>b. k = n /\ Promotes(n)  BY <2>i, <3>a
    <3>c. PICK s \in Node : Safe(s)  BY <3>a DEF TimedInv
    <3>l. ~Loyal(s)  BY <2>i, <3>b, LoyalDecided
    <3>m. m \in Node  BY DEF Writers
    <3>t. ASSUME NEW x \in Node, Doubted(s, x) \/ Told(s, x) PROVE Serves(m)
      <4>a. Peace(s, x)  BY <3>t DEF Doubted, Told
      <4>q. QED  BY <2>i, <3>m, <4>a, PeaceServes
    <3> SUFFICES ASSUME ~Serves(m) PROVE Stalled(m)
      OBVIOUS
    <3>d. PICK c \in Node : GivenUp(s, c)  BY <3>c, <3>l, <3>t DEF Safe, Steady, Hanging
    <3>e. Decided(n).primary \in {s, c}  BY <2>i, <3>d, GoesBy DEF GivenUp, Succession
    <3>f. n = c
      <4>a. CASE n = s
        <5>a. log[applied[s]].primary = c  BY <4>a, <3>d DEF GivenUp, Standbys
        <5>b. Decided(n).primary = c  BY <2>i, <3>d, <4>a, <5>a, Follows DEF GivenUp
        <5>q. QED  BY <3>b, <5>b DEF Promotes
      <4>b. CASE n # s  BY <3>b, <3>e, <4>b DEF Promotes
      <4>q. QED  BY <4>a, <4>b
    <3>g. m = s /\ Writable(s)  BY <3>d, <3>f DEF GivenUp, Standbys, Writers, Writable
    <3>h. Overdue(s, c)  BY <3>d, <3>g DEF GivenUp, Out, Yields, Writable
    <3>q. QED  BY <3>g, <3>h DEF Overdue
  <2>q. QED  BY <2>a, <2>b, <2>c, <2>d, <2>p, QuietSteps, CommitStep DEF Next, RaftStep, Fault
<1>q. QED  BY <1>s, FailoverTimed, PTL DEF Spec, FencedBeforePromotion

(* Failover implements Authority: with the timing proved, nothing of the   *)
(* refinement is left to an assumption about behaviours.                   *)
THEOREM FailoverHoldsAuthority ==
  ASSUME Timely
  PROVE  Spec => HoldsAuthority
BY FailoverOneWritable, FailoverImplements, PTL
=============================================================================
