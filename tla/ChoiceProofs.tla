---------------------------- MODULE ChoiceProofs ----------------------------
(***************************************************************************)
(* For any number of nodes, records and decisions, and one fault: a write  *)
(* acknowledged in time is on the node that is promoted.                   *)
(*                                                                         *)
(* Before the decision all nodes write one timeline, and a record that was *)
(* acknowledged is on a standby. If the one fault hit the primary, every   *)
(* standby is up and answers the probe with all it has, so the most        *)
(* advanced answer is at or beyond that record. After the decision the     *)
(* decided node is neither down nor fenced and its WAL only grows.         *)
(***************************************************************************)
EXTENDS Choice, FiniteSetTheorems, SequenceTheorems, WellFoundedInduction, TLAPS

-----------------------------------------------------------------------------
(* A nonempty set of natural numbers has a least element.                  *)
LEMMA Smallest ==
  ASSUME NEW T \in SUBSET Nat, T # {}
  PROVE  \E x \in T : \A y \in T : x <= y
<1>a. PICK x \in T : \A y \in T : ~(<<y, x>> \in OpToRel(<, Nat))
  BY NatLessThanWellFounded, WFMin
<1>b. \A y \in T : ~(y < x)  BY <1>a DEF OpToRel
<1>q. QED  BY <1>b

(* choose_primary among standbys: an answer that no other exceeds.         *)
LEMMA ChooseMost ==
  ASSUME NEW D \in SUBSET Node, D # {}, NEW answers \in [D -> 0 .. MaxWal],
         \A m \in D : in_recovery[m] = TRUE
  PROVE  /\ choose_primary(answers) \in D
         /\ \A b \in D : answers[b] <= answers[choose_primary(answers)]
<1>m. MaxWal \in Nat /\ \A b \in D : answers[b] \in 0 .. MaxWal /\ b \in Nat
  BY ChoiceAssumption DEF ChoiceAssumption, Node
<1> DEFINE V == {MaxWal - answers[b] : b \in D}
<1>v. V \in SUBSET Nat /\ V # {}  BY <1>m
<1>w. PICK w \in V : \A y \in V : w <= y  BY <1>v, Smallest
<1> DEFINE T == {b \in D : MaxWal - answers[b] = w}
<1>t. T \in SUBSET Nat /\ T # {}  BY <1>m, <1>w
<1>a. PICK a \in T : \A y \in T : a <= y  BY <1>t, Smallest
<1>x. a \in D /\ MaxWal - answers[a] = w  BY <1>a
<1>b. ASSUME NEW b \in D PROVE Better(a, b, answers)
  <2>a. MaxWal - answers[b] \in V  OBVIOUS
  <2>b. MaxWal - answers[a] <= MaxWal - answers[b]  BY <1>w, <1>x, <2>a
  <2>c. answers[b] <= answers[a]  BY <1>m, <1>x, <2>b
  <2>d. answers[b] = answers[a] => a <= b  BY <1>a, <1>x
  <2>r. in_recovery[a] = in_recovery[b]  BY <1>x
  <2>e. CASE answers[b] < answers[a]  BY <2>e DEF Better
  <2>f. CASE answers[b] = answers[a]  BY <2>d, <2>f, <2>r DEF Better
  <2>q. QED  BY <1>m, <1>x, <2>c, <2>e, <2>f
<1> DEFINE c == choose_primary(answers)
<1>c. c \in D /\ \A b \in D : Better(c, b, answers)
  <2>a. \E x \in DOMAIN answers : \A b \in DOMAIN answers : Better(x, b, answers)  BY <1>x, <1>b
  <2>q. QED  BY <2>a DEF choose_primary
<1>q. QED  BY <1>m, <1>c DEF Better

(* A standby that receives a record keeps what it has.                     *)
LEMMA Extends ==
  ASSUME NEW S, NEW s \in Seq(S), NEW t \in Seq(S), IsPrefix(s, t), NEW u,
         u = SubSeq(t, 1, IF s = t THEN Len(s) ELSE Len(s) + 1)
  PROVE  /\ u \in Seq(S) /\ Len(s) <= Len(u) /\ Len(u) <= Len(t)
         /\ \A i \in 1 .. Len(s) : u[i] = s[i]
<1>a. /\ Len(s) \in Nat /\ Len(t) \in Nat /\ Len(s) <= Len(t)
      /\ \A i \in 1 .. Len(s) : s[i] = t[i]
  <2>a. Len(s) <= Len(t)  BY DEF IsPrefix
  <2>c. SubSeq(t, 1, Len(s)) = SubSeq(s, 1, Len(s))  BY DEF IsPrefix
  <2>b. ASSUME NEW i \in 1 .. Len(s) PROVE s[i] = t[i]
    <3>a. SubSeq(s, 1, Len(s))[i] = s[i] /\ SubSeq(t, 1, Len(s))[i] = t[i]  BY <2>a
    <3>q. QED  BY <2>c, <3>a
  <2>q. QED  BY <2>a, <2>b
<1>b. s # t => Len(s) < Len(t)
  <2>a. ASSUME Len(s) = Len(t) PROVE s = t  BY <1>a, <2>a, SeqEqual
  <2>q. QED  BY <1>a, <2>a
<1> DEFINE k == IF s = t THEN Len(s) ELSE Len(s) + 1
<1>k. k \in Nat /\ Len(s) <= k /\ k <= Len(t)  BY <1>a, <1>b
<1> HIDE DEF k
<1>u. u = SubSeq(t, 1, k)  BY DEF k
<1>c. u \in Seq(S) /\ Len(u) = k /\ \A i \in 1 .. k : u[i] = t[i]  BY <1>a, <1>k, <1>u
<1>q. QED  BY <1>a, <1>k, <1>c

-----------------------------------------------------------------------------
(* The primary that everybody started with is out of reach.                *)
PrimaryOut == 1 \in fenced \/ 1 \notin up

(* Every standby is running and reports all the WAL it has.                *)
Fresh == \A m \in Node \ {1} : m \in up /\ received[m] = Len(wal[m])

(* The first primary's timeline is the only one there is.                  *)
FirstTimeline ==
  /\ decision = [seq |-> 1, primary |-> 1]
  /\ wal \in [Node -> Seq({1})] /\ \A n \in Node : Len(wal[n]) <= MaxWal
  /\ in_recovery = [n \in Node |-> n # 1]
  /\ timeline = [n \in Node |-> 1] /\ follows = [n \in Node |-> 1]
  /\ received \in [Node -> Nat] /\ gossiped \in [Node -> 0 .. MaxWal]
  /\ up \subseteq Node /\ fenced \subseteq {1}

(* The one fault hits the primary, whose standbys stay, or a standby, and  *)
(* then nobody looks for another primary.                                  *)
OneOutage ==
  /\ faults = 0 => up = Node /\ fenced = {} /\ Fresh
  /\ PrimaryOut => Fresh /\ faults >= MaxFaults
  /\ probing # Idle => PrimaryOut

(* The leader asks every standby, and none answers more than it has.       *)
Asking ==
  probing # Idle =>
    /\ N >= 3
    /\ probing = [leader |-> probing.leader, answers |-> probing.answers]
    /\ probing.leader \in Node \ {1}
    /\ probing.answers \in [Node \ {1} -> {Unknown} \cup 0 .. MaxWal]
    /\ ~blind => \A m \in Node \ {1} : probing.answers[m] <= Len(wal[m])

(* A standby has the record, and does not answer less.                     *)
HeldBy(m, position) ==
  /\ position <= Len(wal[m])
  /\ probing # Idle /\ ~blind /\ probing.answers[m] # Unknown => position <= probing.answers[m]

(* Every acknowledged record is on the primary and, where one can be       *)
(* elected in its place, on a standby.                                     *)
Kept ==
  /\ waiting[1] \subseteq 1 .. Len(wal[1])
  /\ \A record \in acked : record[3] =>
       /\ record[1] \in 1 .. Len(wal[1]) /\ record[2] = 1
       /\ N >= 3 => \E m \in Node \ {1} : HeldBy(m, record[1])

Before ==
  /\ waiting = [n \in Node |-> IF n = 1 THEN waiting[1] ELSE {}]
  /\ FirstTimeline /\ OneOutage /\ Asking /\ Kept

(* The decided primary.                                                    *)
Decided == decision.primary

After ==
  /\ decision.seq \in Nat /\ Decided \in Node
  /\ faults >= MaxFaults /\ probing = Idle
  /\ Decided \in up \ fenced
  /\ DOMAIN wal = Node /\ DOMAIN in_recovery = Node /\ DOMAIN waiting = Node
  /\ wal[Decided] \in Seq(Nat)
  /\ timeline \in [Node -> Nat] /\ follows \in [Node -> Node]
  /\ in_recovery[Decided] => waiting[Decided] = {} /\ wal \in [Node -> Seq(Nat)]
  /\ \A position \in waiting[Decided] :
       position \in Nat \ {0} /\ Has(Decided, <<position, timeline[Decided]>>)
  /\ \A record \in acked : record[3] => record[1] \in Nat \ {0}
  /\ AckedKept

(* Before the first decision of a leader, and after it.                    *)
ChoiceInv == faults \in Nat /\ (Before \/ After)

-----------------------------------------------------------------------------
(* Nothing has happened.                                                   *)
LEMMA InitChoice == Init => ChoiceInv
<1>i. SUFFICES ASSUME Init PROVE faults \in Nat /\ Before  BY DEF ChoiceInv
<1>n. 1 \in Node /\ MaxWal \in Nat  BY ChoiceAssumption DEF ChoiceAssumption, Node
<1>e. <<>> \in Seq({1}) /\ Len(<<>>) = 0  OBVIOUS
<1>f. FirstTimeline  BY <1>i, <1>n, <1>e DEF FirstTimeline, Init
<1>o. OneOutage  BY <1>i, <1>n, <1>e DEF OneOutage, Init, Fresh, PrimaryOut
<1>a. Asking  BY <1>i DEF Asking, Init
<1>k. Kept  BY <1>i, <1>n DEF Kept, Init
<1>q. QED  BY <1>i, <1>n, <1>f, <1>o, <1>a, <1>k DEF Before, Init

(* Who is what before the decision.                                        *)
LEMMA BeforeFacts ==
  ASSUME Before
  PROVE  /\ 1 \in Node /\ MaxWal \in Nat /\ Decided = 1 /\ decision.seq = 1
         /\ \A n \in Node : /\ in_recovery[n] = (n # 1) /\ follows[n] = 1 /\ timeline[n] = 1
                            /\ wal[n] \in Seq({1}) /\ Len(wal[n]) \in Nat
         /\ \A n \in Node \ {1} : waiting[n] = {}
<1>a. 1 \in Node /\ MaxWal \in Nat  BY ChoiceAssumption DEF ChoiceAssumption, Node
<1>b. FirstTimeline /\ waiting = [n \in Node |-> IF n = 1 THEN waiting[1] ELSE {}]  BY DEF Before
<1>q. QED  BY <1>a, <1>b DEF FirstTimeline, Decided

(* WAL that only grows keeps what is held.                                 *)
LEMMA Grows ==
  ASSUME Before, FirstTimeline', UNCHANGED <<probing, blind, acked>>,
         \A n \in Node : Len(wal[n]) <= Len(wal'[n]),
         waiting'[1] \subseteq 1 .. Len(wal'[1])
  PROVE  Asking' /\ Kept'
<1>n. /\ 1 \in Node
      /\ \A n \in Node : Len(wal[n]) \in Nat /\ Len(wal'[n]) \in Nat /\ Len(wal[n]) <= Len(wal'[n])
  BY BeforeFacts DEF FirstTimeline
<1>b. Asking /\ Kept  BY DEF Before
<1>a. Asking'
  <2>p. SUFFICES ASSUME probing # Idle PROVE Asking'  BY DEF Asking
  <2>a. probing.answers \in [Node \ {1} -> {Unknown} \cup 0 .. MaxWal]  BY <1>b, <2>p DEF Asking
  <2>c. ASSUME ~blind, NEW m \in Node \ {1} PROVE probing.answers[m] <= Len(wal'[m])
    <3>a. probing.answers[m] <= Len(wal[m])  BY <1>b, <2>p, <2>c DEF Asking
    <3>b. probing.answers[m] \in Int  BY <2>a, BeforeFacts DEF Unknown
    <3>q. QED  BY <1>n, <3>a, <3>b
  <2>q. QED  BY <1>b, <2>p, <2>c DEF Asking
<1>k. Kept'
  <2>a. ASSUME NEW record \in acked, record[3]
        PROVE  /\ record[1] \in 1 .. Len(wal'[1]) /\ record[2] = 1
               /\ N >= 3 => \E m \in Node \ {1} : HeldBy(m, record[1])'
    <3>a. /\ record[1] \in 1 .. Len(wal[1]) /\ record[2] = 1
          /\ N >= 3 => \E m \in Node \ {1} : HeldBy(m, record[1])
      BY <1>b, <2>a DEF Kept
    <3>b. record[1] \in Nat /\ record[1] \in 1 .. Len(wal'[1])  BY <1>n, <3>a
    <3>c. ASSUME NEW m \in Node \ {1}, HeldBy(m, record[1]) PROVE HeldBy(m, record[1])'
      BY <1>n, <3>b, <3>c DEF HeldBy
    <3>q. QED  BY <3>a, <3>b, <3>c
  <2>q. QED  BY <2>a DEF Kept
<1>q. QED  BY <1>a, <1>k

(* A write of the first primary.                                           *)
LEMMA WriteBefore ==
  ASSUME Before, NEW n \in Node, Write(n)
  PROVE  Before'
<1>w. /\ n \in up \ fenced /\ ~in_recovery[n] /\ Len(wal[n]) < MaxWal
      /\ wal' = [wal EXCEPT ![n] = Append(@, timeline[n])]
      /\ waiting' = [waiting EXCEPT ![n] = @ \cup {Len(wal'[n])}]
      /\ UNCHANGED <<received, gossiped, in_recovery, timeline, follows, up, fenced,
                     decision, probing, acked, faults, blind>>
  BY DEF Write
<1>b. /\ FirstTimeline /\ OneOutage /\ Asking /\ Kept
      /\ waiting = [m \in Node |-> IF m = 1 THEN waiting[1] ELSE {}]
  BY DEF Before
<1>n. n = 1 /\ 1 \in Node /\ timeline[1] = 1 /\ wal[1] \in Seq({1}) /\ Len(wal[1]) \in Nat /\ MaxWal \in Nat
  BY <1>w, BeforeFacts
<1>a. wal'[1] = Append(wal[1], 1) /\ \A m \in Node \ {1} : wal'[m] = wal[m]
  BY <1>w, <1>n, <1>b DEF FirstTimeline
<1>l. wal'[1] \in Seq({1}) /\ Len(wal'[1]) = Len(wal[1]) + 1  BY <1>a, <1>n
<1>f. FirstTimeline'
  <2>a. wal' \in [Node -> Seq({1})]  BY <1>w, <1>n, <1>b DEF FirstTimeline
  <2>b. \A m \in Node : Len(wal'[m]) <= MaxWal  BY <1>a, <1>l, <1>w, <1>n, <1>b DEF FirstTimeline
  <2>q. QED  BY <2>a, <2>b, <1>w, <1>b DEF FirstTimeline
<1>o. OneOutage'
  <2>a. Fresh => Fresh'  BY <1>w, <1>a DEF Fresh
  <2>q. QED  BY <2>a, <1>w, <1>b DEF OneOutage, PrimaryOut
<1>g. \A m \in Node : Len(wal[m]) <= Len(wal'[m])
  BY <1>a, <1>l, <1>n, BeforeFacts
<1>v. waiting'[1] = waiting[1] \cup {Len(wal'[1])} /\ \A m \in Node \ {1} : waiting'[m] = {}
  BY <1>w, <1>n, <1>b
<1>c. waiting'[1] \subseteq 1 .. Len(wal'[1])  BY <1>v, <1>l, <1>n, <1>b DEF Kept
<1>d. waiting' = [m \in Node |-> IF m = 1 THEN waiting'[1] ELSE {}]
  <2>a. DOMAIN waiting = Node  BY <1>b
  <2>b. waiting' = [m \in Node |-> IF m = n THEN waiting'[n] ELSE waiting[m]]  BY <1>w, <2>a
  <2>q. QED  BY <2>b, <1>n, <1>b
<1>q. QED  BY <1>w, <1>f, <1>o, <1>g, <1>c, <1>d, Grows DEF Before

(* A standby connects or receives a record.                                *)
LEMMA StreamBefore ==
  ASSUME Before, NEW n \in Node, Stream(n)
  PROVE  Before'
<1>w. /\ in_recovery[n] /\ IsPrefix(wal[n], wal[follows[n]]) /\ n \in up
      /\ wal' = [wal EXCEPT ![n] = SubSeq(wal[follows[n]], 1,
                   IF @ = wal[follows[n]] THEN Len(@) ELSE Len(@) + 1)]
      /\ received' = [received EXCEPT ![n] = Len(wal'[n])]
      /\ timeline' = [timeline EXCEPT ![n] = timeline[follows[n]]]
      /\ UNCHANGED <<gossiped, in_recovery, follows, up, fenced, decision, probing, waiting,
                     acked, faults, blind>>
  BY DEF Stream
<1>b. /\ FirstTimeline /\ OneOutage /\ Asking /\ Kept
      /\ waiting = [m \in Node |-> IF m = 1 THEN waiting[1] ELSE {}]
  BY DEF Before
<1>n. /\ n # 1 /\ 1 \in Node /\ follows[n] = 1 /\ timeline[1] = 1 /\ MaxWal \in Nat
      /\ wal[1] \in Seq({1}) /\ wal[n] \in Seq({1}) /\ Len(wal[1]) <= MaxWal
  BY <1>w, <1>b, BeforeFacts DEF FirstTimeline
<1>a. /\ wal'[n] = SubSeq(wal[1], 1, IF wal[n] = wal[1] THEN Len(wal[n]) ELSE Len(wal[n]) + 1)
      /\ \A m \in Node \ {n} : wal'[m] = wal[m]
  BY <1>w, <1>n, <1>b DEF FirstTimeline
<1>l. wal'[n] \in Seq({1}) /\ Len(wal[n]) <= Len(wal'[n]) /\ Len(wal'[n]) <= Len(wal[1])
  <2>a. IsPrefix(wal[n], wal[1])  BY <1>w, <1>n
  <2> DEFINE s == wal[n]  t == wal[1]  u == wal'[n]
  <2>b. s \in Seq({1}) /\ t \in Seq({1}) /\ IsPrefix(s, t)  BY <2>a, <1>n
  <2>c. u = SubSeq(t, 1, IF s = t THEN Len(s) ELSE Len(s) + 1)  BY <1>a
  <2> HIDE DEF s, t, u
  <2>d. u \in Seq({1}) /\ Len(s) <= Len(u) /\ Len(u) <= Len(t)  BY <2>b, <2>c, Extends
  <2>q. QED  BY <2>d DEF s, t, u
<1>f. FirstTimeline'
  <2>a. wal' = [m \in Node |-> IF m = n THEN wal'[n] ELSE wal[m]]
    BY <1>w, <1>b DEF FirstTimeline
  <2>b. wal' \in [Node -> Seq({1})]  BY <2>a, <1>l, <1>b DEF FirstTimeline
  <2>c. \A m \in Node : Len(wal'[m]) <= MaxWal
    <3>a. Len(wal'[n]) \in Nat /\ Len(wal[1]) \in Nat  BY <1>l, <1>n
    <3>b. Len(wal'[n]) <= MaxWal  BY <3>a, <1>l, <1>n
    <3>q. QED  BY <3>b, <1>a, <1>b DEF FirstTimeline
  <2>d. received' \in [Node -> Nat]  BY <1>w, <1>l, <1>b DEF FirstTimeline
  <2>e. timeline' = [m \in Node |-> 1]  BY <1>w, <1>n, <1>b DEF FirstTimeline
  <2>q. QED  BY <2>b, <2>c, <2>d, <2>e, <1>w, <1>b DEF FirstTimeline
<1>o. OneOutage'
  <2>a. Fresh => Fresh'  BY <1>w, <1>a, <1>b DEF Fresh, FirstTimeline
  <2>q. QED  BY <2>a, <1>w, <1>b DEF OneOutage, PrimaryOut
<1>g. \A m \in Node : Len(wal[m]) <= Len(wal'[m])
  BY <1>a, <1>l, BeforeFacts
<1>c. waiting'[1] \subseteq 1 .. Len(wal'[1])  BY <1>w, <1>n, <1>a, <1>b DEF Kept
<1>q. QED  BY <1>w, <1>b, <1>f, <1>o, <1>g, <1>c, Grows DEF Before

(* A commit is acknowledged: in time only when standbys enough have it.    *)
LEMMA AckBefore ==
  ASSUME Before, NEW n \in Node, Ack(n)
  PROVE  Before'
<1>w. /\ ~in_recovery[n]
      /\ UNCHANGED <<wal, received, in_recovery, timeline, follows, gossiped, up, fenced, decision,
                     probing, faults, blind>>
  BY DEF Ack, postgres
<1>p. PICK position \in waiting[n] :
        /\ Cardinality(Confirming(n, position)) >= SyncQuorum
        /\ acked' = acked \cup {<<position, timeline[n], InTime(n)>>}
        /\ waiting' = [waiting EXCEPT ![n] = @ \ {position}]
  BY DEF Ack
<1>b. /\ FirstTimeline /\ OneOutage /\ Asking /\ Kept
      /\ waiting = [m \in Node |-> IF m = 1 THEN waiting[1] ELSE {}]
  BY DEF Before
<1>n. n = 1 /\ 1 \in Node /\ timeline[1] = 1 /\ Len(wal[1]) \in Nat  BY <1>w, BeforeFacts
<1>f. FirstTimeline' /\ OneOutage' /\ Asking'
  <2>a. FirstTimeline'  BY <1>w, <1>b DEF FirstTimeline
  <2>b. OneOutage'  BY <1>w, <1>b DEF OneOutage, PrimaryOut, Fresh
  <2>c. Asking'  BY <1>w, <1>b DEF Asking
  <2>q. QED  BY <2>a, <2>b, <2>c
<1>v. waiting' = [m \in Node |-> IF m = 1 THEN waiting[1] \ {position} ELSE {}]
  BY <1>p, <1>n, <1>b
<1>x. position \in 1 .. Len(wal[1])  BY <1>p, <1>n, <1>b DEF Kept
<1>h. ASSUME InTime(n), N >= 3 PROVE \E m \in Node \ {1} : HeldBy(m, position)
  <2>a. probing = Idle  BY <1>h DEF InTime
  <2>b. Confirming(n, position) # {}
    <3>a. SyncQuorum >= 1
      BY <1>h, ChoiceAssumption DEF SyncQuorum, Majority, ChoiceAssumption
    <3>b. Cardinality({}) = 0  BY FS_EmptySet
    <3>c. ASSUME Confirming(n, position) = {} PROVE FALSE
      <4>a. 0 >= SyncQuorum  BY <1>p, <3>b, <3>c
      <4>b. SyncQuorum \in Int  BY ChoiceAssumption DEF SyncQuorum, Majority, ChoiceAssumption
      <4>q. QED  BY <4>a, <4>b, <3>a
    <3>q. QED  BY <3>c
  <2>c. PICK m \in up \ {n} : Len(wal[m]) >= position  BY <2>b DEF Confirming
  <2>d. m \in Node \ {1}  BY <2>c, <1>n, <1>b DEF FirstTimeline
  <2>e. position <= Len(wal[m])  BY <2>c, <2>d, <1>x, BeforeFacts
  <2>q. QED  BY <2>a, <2>d, <2>e DEF HeldBy
<1>k. Kept'
  <2>a. waiting'[1] \subseteq 1 .. Len(wal'[1])  BY <1>v, <1>n, <1>w, <1>b DEF Kept
  <2>b. ASSUME NEW record \in acked', record[3]
        PROVE  /\ record[1] \in 1 .. Len(wal[1]) /\ record[2] = 1
               /\ N >= 3 => \E m \in Node \ {1} : HeldBy(m, record[1])
    <3>a. CASE record \in acked  BY <3>a, <2>b, <1>b DEF Kept
    <3>b. CASE record = <<position, timeline[n], InTime(n)>>
      <4>a. record[1] = position /\ record[2] = 1 /\ InTime(n)  BY <3>b, <2>b, <1>n
      <4>q. QED  BY <4>a, <1>x, <1>h
    <3>q. QED  BY <2>b, <3>a, <3>b, <1>p
  <2>c. \A m, position_ : HeldBy(m, position_) <=> HeldBy(m, position_)'  BY <1>w DEF HeldBy
  <2>q. QED  BY <2>a, <2>b, <2>c, <1>w DEF Kept
<1>d. waiting' = [m \in Node |-> IF m = 1 THEN waiting'[1] ELSE {}]  BY <1>v, <1>n
<1>q. QED  BY <1>f, <1>k, <1>d DEF Before

(* Steps that leave the WAL, the probes and what was acknowledged alone.   *)
LEMMA Leaves ==
  ASSUME Before, UNCHANGED <<wal, acked, blind, waiting>>, probing' = probing
  PROVE  Asking' /\ Kept' /\ waiting' = [m \in Node |-> IF m = 1 THEN waiting'[1] ELSE {}]
<1>b. Asking /\ Kept /\ waiting = [m \in Node |-> IF m = 1 THEN waiting[1] ELSE {}]  BY DEF Before
<1>a. Asking'  BY <1>b DEF Asking
<1>c. \A m, position : HeldBy(m, position) <=> HeldBy(m, position)'  BY DEF HeldBy
<1>k. Kept'  BY <1>b, <1>c DEF Kept
<1>q. QED  BY <1>a, <1>k, <1>b

(* The one crash: of the primary, with all standbys there, or of a standby.*)
LEMMA CrashBefore ==
  ASSUME Before, MaxFaults <= 1, faults \in Nat, NEW n \in Node, Crash(n)
  PROVE  Before'
<1>w. /\ n \in up /\ faults < MaxFaults /\ faults' = faults + 1 /\ up' = up \ {n}
      /\ probing' = IF probing.leader = n THEN Idle ELSE probing
      /\ waiting' = [waiting EXCEPT ![n] = {}]
      /\ UNCHANGED <<wal, received, in_recovery, timeline, follows, gossiped, fenced, decision,
                     acked, blind>>
  BY DEF Crash, May, postgres
<1>b. /\ FirstTimeline /\ OneOutage /\ Kept
      /\ waiting = [m \in Node |-> IF m = 1 THEN waiting[1] ELSE {}]
  BY DEF Before
<1>n. faults = 0 /\ MaxFaults \in Nat /\ faults' = 1 /\ 1 \in Node
  BY <1>w, BeforeFacts, ChoiceAssumption DEF ChoiceAssumption
<1>o. up = Node /\ fenced = {} /\ Fresh /\ probing = Idle
  BY <1>b, <1>n DEF OneOutage, PrimaryOut
<1>p. probing' = Idle  BY <1>w, <1>o
<1>f. FirstTimeline'  BY <1>w, <1>b DEF FirstTimeline
<1>g. OneOutage'
  <2>a. ASSUME PrimaryOut' PROVE Fresh'
    <3>a. n = 1  BY <2>a, <1>w, <1>o, <1>n DEF PrimaryOut
    <3>q. QED  BY <3>a, <1>o, <1>w DEF Fresh
  <2>q. QED  BY <2>a, <1>n, <1>p, <1>w DEF OneOutage
<1>v. waiting' = [m \in Node |-> IF m = 1 THEN waiting'[1] ELSE {}] /\ waiting'[1] \subseteq waiting[1]
  BY <1>w, <1>b, <1>n
<1>a. Asking'  BY <1>p DEF Asking
<1>k. Kept'
  <2>c. \A m, position : HeldBy(m, position) <=> HeldBy(m, position)'  BY <1>w, <1>p, <1>o DEF HeldBy
  <2>q. QED  BY <2>c, <1>v, <1>w, <1>b DEF Kept
<1>q. QED  BY <1>f, <1>g, <1>a, <1>k, <1>v DEF Before

(* A primary that returns is read-only, so that it still counts as out.    *)
LEMMA ReturnBefore ==
  ASSUME Before, NEW n \in Node, Return(n)
  PROVE  Before'
<1>w. /\ n \notin up /\ up' = up \cup {n}
      /\ received' = [received EXCEPT ![n] = 0]
      /\ fenced' = IF in_recovery[n] THEN fenced ELSE fenced \cup {n}
      /\ UNCHANGED <<wal, gossiped, in_recovery, timeline, follows, decision, probing, waiting,
                     acked, faults, blind>>
  BY DEF Return
<1>b. FirstTimeline /\ OneOutage  BY DEF Before
<1>n. 1 \in Node /\ in_recovery[n] = (n # 1)  BY BeforeFacts
<1>z. faults # 0  BY <1>w, <1>b DEF OneOutage
<1>f. FirstTimeline'  BY <1>w, <1>b, <1>n DEF FirstTimeline
<1>o. OneOutage'
  <2>a. CASE n = 1
    <3>a. PrimaryOut /\ Fresh /\ faults >= MaxFaults  BY <2>a, <1>w, <1>b DEF PrimaryOut, OneOutage
    <3>b. Fresh' /\ PrimaryOut'  BY <2>a, <3>a, <1>w, <1>n, <1>b DEF Fresh, PrimaryOut, FirstTimeline
    <3>q. QED  BY <3>a, <3>b, <1>z, <1>w DEF OneOutage
  <2>b. CASE n # 1
    <3>a. ~Fresh  BY <2>b, <1>w DEF Fresh
    <3>b. ~PrimaryOut /\ probing = Idle  BY <3>a, <1>b DEF OneOutage
    <3>c. ~PrimaryOut'  BY <2>b, <3>b, <1>w, <1>n DEF PrimaryOut
    <3>q. QED  BY <3>b, <3>c, <1>z, <1>w DEF OneOutage
  <2>q. QED  BY <2>a, <2>b
<1>q. QED  BY <1>f, <1>o, <1>w, Leaves DEF Before

(* The primary loses its peers: every standby is up and fresh.             *)
LEMMA CutBefore ==
  ASSUME Before, MaxFaults <= 1, faults \in Nat, NEW n \in Node, Cut(n)
  PROVE  Before'
<1>w. /\ faults < MaxFaults /\ faults' = faults + 1 /\ ~in_recovery[n]
      /\ fenced' = fenced \cup {n}
      /\ UNCHANGED <<wal, received, in_recovery, timeline, follows, gossiped, up, decision,
                     probing, waiting, acked, blind>>
  BY DEF Cut, May, postgres
<1>b. FirstTimeline /\ OneOutage  BY DEF Before
<1>n. n = 1 /\ 1 \in Node  BY <1>w, BeforeFacts
<1>m. faults = 0 /\ MaxFaults \in Nat /\ faults' = 1
  BY <1>w, ChoiceAssumption DEF ChoiceAssumption
<1>o. Fresh /\ Fresh' /\ PrimaryOut'
  BY <1>b, <1>m, <1>n, <1>w DEF OneOutage, Fresh, PrimaryOut
<1>f. FirstTimeline'  BY <1>w, <1>n, <1>b DEF FirstTimeline
<1>g. OneOutage'  BY <1>o, <1>m DEF OneOutage
<1>q. QED  BY <1>f, <1>g, <1>w, Leaves DEF Before

(* A broadcast position.                                                   *)
LEMMA GossipBefore ==
  ASSUME Before, NEW n \in Node, Gossip(n)
  PROVE  Before'
<1>w. UNCHANGED <<wal, received, in_recovery, timeline, follows, up, fenced, decision,
                  probing, waiting, acked, faults, blind>>
  BY DEF Gossip, postgres
<1>b. FirstTimeline /\ OneOutage  BY DEF Before
<1>p. PICK lsn \in 0 .. Len(wal[n]) : gossiped' = [gossiped EXCEPT ![n] = lsn]  BY DEF Gossip
<1>l. lsn \in 0 .. MaxWal  BY BeforeFacts, <1>b DEF FirstTimeline
<1>g. gossiped' \in [Node -> 0 .. MaxWal]  BY <1>p, <1>l, <1>b DEF FirstTimeline
<1>f. FirstTimeline'  BY <1>w, <1>b, <1>g DEF FirstTimeline
<1>o. OneOutage'  BY <1>w, <1>b DEF OneOutage, Fresh, PrimaryOut
<1>q. QED  BY <1>f, <1>o, <1>w, Leaves DEF Before

(* The first primary is authorized again.                                  *)
LEMMA PromoteBefore ==
  ASSUME Before, NEW n \in Node, Promote(n)
  PROVE  Before'
<1>n. n = 1 /\ 1 \in Node /\ in_recovery[1] = FALSE  BY BeforeFacts DEF Promote, Decided
<1>w. /\ n \in up /\ probing = Idle /\ n \in fenced
      /\ in_recovery' = [in_recovery EXCEPT ![n] = FALSE]
      /\ timeline' = [timeline EXCEPT ![n] = @]
      /\ fenced' = fenced \ {n}
      /\ UNCHANGED <<wal, received, gossiped, follows, up, decision, probing, waiting, acked, faults, blind>>
  BY <1>n DEF Promote
<1>b. FirstTimeline /\ OneOutage  BY DEF Before
<1>f. FirstTimeline'
  <2>a. in_recovery' = in_recovery /\ timeline' = timeline  BY <1>w, <1>n, <1>b DEF FirstTimeline
  <2>q. QED  BY <2>a, <1>w, <1>b DEF FirstTimeline
<1>o. OneOutage'
  <2>a. faults # 0  BY <1>w, <1>b DEF OneOutage
  <2>b. ~PrimaryOut'  BY <1>w, <1>n DEF PrimaryOut
  <2>q. QED  BY <2>a, <2>b, <1>w DEF OneOutage
<1>q. QED  BY <1>f, <1>o, <1>w, Leaves DEF Before

(* A leader starts to ask: a majority without the primary is three nodes   *)
(* at least, and every standby is asked.                                   *)
LEMMA BeginBefore ==
  ASSUME Before, NEW n \in Node, Begin(n)
  PROVE  Before'
<1>d. Decided = 1 /\ 1 \in Node /\ MaxWal \in Nat  BY BeforeFacts
<1>w. /\ 1 \in fenced \/ 1 \notin up
      /\ n \in Live /\ Cardinality(Live) >= Majority /\ Live = up \ {1}
      /\ probing = Idle
      /\ probing' = [leader |-> n, answers |-> [m \in Live |-> Unknown]]
      /\ UNCHANGED <<wal, received, in_recovery, timeline, follows, gossiped, up, fenced, decision,
                     waiting, acked, faults, blind>>
  BY <1>d DEF Begin, postgres, Live, Decided
<1>b. /\ FirstTimeline /\ OneOutage /\ Kept
      /\ waiting = [m \in Node |-> IF m = 1 THEN waiting[1] ELSE {}]
  BY DEF Before
<1>o. PrimaryOut /\ Fresh /\ Live = Node \ {1}
  <2>a. PrimaryOut  BY <1>w DEF PrimaryOut
  <2>q. QED  BY <2>a, <1>w, <1>b DEF OneOutage, Fresh, FirstTimeline
<1>m. N >= 3
  <2>a. N \in Nat /\ 1 <= N  BY ChoiceAssumption DEF ChoiceAssumption
  <2>b. IsFiniteSet(Node) /\ Cardinality(Node) = N  BY <2>a, FS_Interval DEF Node
  <2>c. Cardinality(Node \ {1}) = N - 1  BY <2>b, <1>d, FS_RemoveElement
  <2>d. N - 1 >= N \div 2 + 1  BY <2>c, <1>w, <1>o DEF Majority
  <2>q. QED  BY <2>a, <2>d
<1>f. FirstTimeline'  BY <1>w, <1>b DEF FirstTimeline
<1>g. OneOutage'  BY <1>w, <1>b, <1>o DEF OneOutage, PrimaryOut, Fresh
<1>a. Asking'
  <2>a. /\ probing' = [leader |-> probing'.leader, answers |-> probing'.answers]
        /\ probing'.leader = n /\ probing'.answers = [m \in Node \ {1} |-> Unknown]
    BY <1>w, <1>o
  <2>b. probing'.answers \in [Node \ {1} -> {Unknown} \cup 0 .. MaxWal]  BY <2>a
  <2>c. \A m \in Node \ {1} : probing'.answers[m] <= Len(wal'[m])  BY <2>a, <1>w, BeforeFacts DEF Unknown
  <2>q. QED  BY <2>a, <2>b, <2>c, <1>m, <1>w, <1>o DEF Asking
<1>k. Kept'
  <2>a. \A m \in Node \ {1} : probing'.answers[m] = Unknown  BY <1>w, <1>o
  <2>c. \A m \in Node \ {1} : \A position : HeldBy(m, position) => HeldBy(m, position)'  BY <2>a, <1>w DEF HeldBy
  <2>q. QED  BY <2>c, <1>w, <1>b DEF Kept
<1>q. QED  BY <1>f, <1>g, <1>a, <1>k, <1>w, <1>b DEF Before

(* An answer is all the standby has, or the decision will be a blind one.  *)
LEMMA ProbeBefore ==
  ASSUME Before, NEW m \in Node, Probe(m)
  PROVE  Before'
<1>b. /\ FirstTimeline /\ OneOutage /\ Asking /\ Kept
      /\ waiting = [i \in Node |-> IF i = 1 THEN waiting[1] ELSE {}]
  BY DEF Before
<1>i. probing # Idle
  <2>a. m \in DOMAIN probing.answers  BY DEF Probe
  <2>b. DOMAIN Idle.answers = {}  BY DEF Idle
  <2>q. QED  BY <2>a, <2>b
<1> DEFINE A == probing.answers
           L == probing.leader
<1>s. /\ N >= 3 /\ probing = [leader |-> L, answers |-> A] /\ L \in Node \ {1}
      /\ A \in [Node \ {1} -> {Unknown} \cup 0 .. MaxWal]
      /\ ~blind => \A i \in Node \ {1} : A[i] <= Len(wal[i])
  BY <1>b, <1>i DEF Asking
<1>m. m \in Node \ {1} /\ A[m] = Unknown  BY <1>s DEF Probe
<1>o. PrimaryOut /\ Fresh  BY <1>b, <1>i DEF OneOutage
<1>u. UNCHANGED <<wal, received, in_recovery, timeline, follows, gossiped, up, fenced, decision,
                  waiting, acked, faults>>
  BY DEF Probe, postgres
<1>v. PICK v : /\ probing' = [probing EXCEPT !.answers[m] = v]
               /\ v \in 0 .. MaxWal
               /\ (UNCHANGED blind /\ v = Len(wal[m])) \/ blind' = TRUE
  <2>n. MaxWal \in Nat /\ in_recovery[m] = TRUE /\ Len(wal[m]) \in 0 .. MaxWal /\ gossiped[m] \in 0 .. MaxWal
    <3>a. MaxWal \in Nat /\ in_recovery[m] = TRUE /\ Len(wal[m]) \in Nat  BY <1>m, BeforeFacts
    <3>b. Len(wal[m]) <= MaxWal /\ gossiped[m] \in 0 .. MaxWal  BY <1>m, <1>b DEF FirstTimeline
    <3>q. QED  BY <3>a, <3>b
  <2>a. CASE m \in up /\ probing' = [probing EXCEPT !.answers[m] = Measured(m)] /\ UNCHANGED blind
    <3>a. Measured(m) = Len(wal[m])  BY <2>n, <1>m, <1>o DEF Measured, Fresh
    <3>q. QED  BY <2>a, <2>n, <3>a
  <2>b. CASE probing' = [probing EXCEPT !.answers[m] = Fallback(m)] /\ blind' = TRUE
    <3>a. Fallback(m) \in 0 .. MaxWal  BY <2>n DEF Fallback
    <3>q. QED  BY <2>b, <3>a
  <2>q. QED  BY <2>a, <2>b DEF Probe
<1> DEFINE B == probing'.answers
<1>p. /\ probing' = [leader |-> L, answers |-> B] /\ B = [A EXCEPT ![m] = v] /\ probing'.leader = L
  BY <1>v, <1>s
<1>t. /\ B \in [Node \ {1} -> {Unknown} \cup 0 .. MaxWal]
      /\ B[m] = v /\ \A i \in Node \ {1} : i # m => B[i] = A[i]
  BY <1>p, <1>s, <1>v, <1>m
<1> HIDE DEF A, B, L
<1>f. FirstTimeline'  BY <1>u, <1>b DEF FirstTimeline
<1>g. OneOutage'  BY <1>u, <1>b, <1>o DEF OneOutage, PrimaryOut, Fresh
<1>c. ~blind' => ~blind /\ v = Len(wal[m])  BY <1>v
<1>a. Asking'
  <2>a. ASSUME ~blind', NEW i \in Node \ {1} PROVE B[i] <= Len(wal[i])
    <3>a. CASE i = m  BY <3>a, <1>t, <1>c, <2>a, BeforeFacts
    <3>b. CASE i # m  BY <3>b, <1>t, <1>c, <1>s, <2>a
    <3>q. QED  BY <3>a, <3>b
  <2>q. QED  BY <2>a, <1>p, <1>t, <1>s, <1>u DEF Asking, A, B, L
<1>k. Kept'
  <2>c. ASSUME NEW i \in Node \ {1}, NEW position, HeldBy(i, position) PROVE HeldBy(i, position)'
    <3>a. position <= Len(wal[i])  BY <2>c DEF HeldBy
    <3>b. ASSUME ~blind', B[i] # Unknown PROVE position <= B[i]
      <4>a. CASE i = m  BY <4>a, <1>t, <1>c, <3>a, <3>b
      <4>b. CASE i # m  BY <4>b, <1>t, <1>c, <2>c, <3>b, <1>i DEF HeldBy, A
      <4>q. QED  BY <4>a, <4>b
    <3>q. QED  BY <3>a, <3>b, <1>u DEF HeldBy, B
  <2>q. QED  BY <2>c, <1>u, <1>b DEF Kept
<1>q. QED  BY <1>f, <1>g, <1>a, <1>k, <1>u, <1>b DEF Before

(* The decision: the node chosen has every record that a standby has.      *)
LEMMA ChooseAfter ==
  ASSUME Before, Choose, faults \in Nat
  PROVE  After'
<1>b. /\ FirstTimeline /\ OneOutage /\ Asking /\ Kept
      /\ waiting = [i \in Node |-> IF i = 1 THEN waiting[1] ELSE {}]
  BY DEF Before
<1>w. /\ probing # Idle
      /\ \A m \in DOMAIN probing.answers : probing.answers[m] # Unknown
      /\ decision' = [seq |-> NextSeq, primary |-> choose_primary(probing.answers)]
      /\ probing' = Idle
      /\ UNCHANGED <<wal, received, in_recovery, timeline, follows, gossiped, up, fenced, waiting,
                     acked, faults, blind>>
  BY DEF Choose, postgres
<1> DEFINE A == probing.answers
           c == choose_primary(A)
<1>s. /\ N >= 3 /\ A \in [Node \ {1} -> 0 .. MaxWal]
      /\ ~blind => \A i \in Node \ {1} : A[i] <= Len(wal[i])
  <2>a. /\ N >= 3 /\ A \in [Node \ {1} -> {Unknown} \cup 0 .. MaxWal]
        /\ ~blind => \A i \in Node \ {1} : A[i] <= Len(wal[i])
    BY <1>b, <1>w DEF Asking
  <2>b. \A i \in Node \ {1} : A[i] \in 0 .. MaxWal  BY <2>a, <1>w
  <2>q. QED  BY <2>a, <2>b
<1>c. c \in Node \ {1} /\ \A i \in Node \ {1} : A[i] <= A[c]
  <2>a. Node \ {1} # {} /\ Node \ {1} \in SUBSET Node
    <3>a. N \in Nat  BY ChoiceAssumption DEF ChoiceAssumption
    <3>b. 2 \in Node \ {1}  BY <3>a, <1>s DEF Node
    <3>q. QED  BY <3>b
  <2>b. \A m \in Node \ {1} : in_recovery[m] = TRUE  BY BeforeFacts
  <2> HIDE DEF A
  <2>q. QED  BY <2>a, <2>b, <1>s, ChooseMost
<1> HIDE DEF A, c
<1>d. decision' = [seq |-> 2, primary |-> c] /\ Decided' = c /\ decision'.primary = c
  BY <1>w, BeforeFacts DEF NextSeq, Decided, A, c
<1>o. PrimaryOut /\ Fresh /\ faults >= MaxFaults  BY <1>b, <1>w DEF OneOutage
<1>u. c \in up \ fenced  BY <1>c, <1>o, <1>b DEF Fresh, FirstTimeline
<1>l. wal \in [Node -> Seq(Nat)]
  <2>a. \A x \in Seq({1}) : x \in Seq(Nat)  OBVIOUS
  <2>q. QED  BY <2>a, <1>b DEF FirstTimeline
<1>k. AckedKept'
  <2>a. ASSUME ~blind, NEW record \in acked, record[3] PROVE Has(c, record)
    <3>a. record[1] \in 1 .. Len(wal[1]) /\ record[2] = 1
      BY <1>b, <2>a DEF Kept
    <3>b. PICK m \in Node \ {1} : HeldBy(m, record[1])  BY <1>b, <2>a, <1>s DEF Kept
    <3>c. A[m] \in 0 .. MaxWal /\ A[c] \in 0 .. MaxWal /\ A[m] # Unknown
      BY <3>b, <1>c, <1>s, BeforeFacts DEF Unknown
    <3>d. record[1] <= A[m]  BY <3>b, <3>c, <1>w, <2>a DEF HeldBy, A
    <3>e. A[m] <= A[c] /\ A[c] <= Len(wal[c])  BY <3>b, <1>c, <1>s, <2>a
    <3>f. Len(wal[1]) \in Nat /\ Len(wal[c]) \in Nat /\ wal[c] \in Seq({1})  BY <1>c, BeforeFacts
    <3>g. record[1] \in 1 .. Len(wal[c])  BY <3>a, <3>c, <3>d, <3>e, <3>f, BeforeFacts
    <3>h. wal[c][record[1]] = 1  BY <3>g, <3>f
    <3>q. QED  BY <3>a, <3>g, <3>f, <3>h DEF Has
  <2>q. QED  BY <2>a, <1>w, <1>d DEF AckedKept, Has
<1>p. \A record \in acked : record[3] => record[1] \in Nat \ {0}  BY <1>b, BeforeFacts DEF Kept
<1>v. waiting[c] = {} /\ DOMAIN waiting = Node  BY <1>b, <1>c, BeforeFacts
<1>t. /\ timeline \in [Node -> Nat] /\ follows \in [Node -> Node]
      /\ DOMAIN wal = Node /\ DOMAIN in_recovery = Node
  BY <1>b, BeforeFacts DEF FirstTimeline
<1>q. QED  BY <1>w, <1>c, <1>d, <1>o, <1>u, <1>l, <1>k, <1>p, <1>v, <1>t DEF After

-----------------------------------------------------------------------------
(* After the decision the decided node is there, nobody looks for another  *)
(* one, and only its own steps change its WAL, which grows.                *)
LEMMA AfterKeeps ==
  ASSUME After, UNCHANGED <<decision, probing, blind, acked>>,
         wal'[Decided] \in Seq(Nat), Len(wal[Decided]) <= Len(wal'[Decided]),
         \A i \in 1 .. Len(wal[Decided]) : wal'[Decided][i] = wal[Decided][i]
  PROVE  AckedKept'
<1>a. /\ AckedKept /\ wal[Decided] \in Seq(Nat)
      /\ \A record \in acked : record[3] => record[1] \in Nat \ {0}
  BY DEF After
<1>b. ASSUME ~blind, NEW record \in acked, record[3] PROVE Has(Decided, record)'
  <2>a. Has(Decided, record) /\ record[1] \in Nat \ {0}  BY <1>a, <1>b DEF AckedKept, Decided
  <2>b. Len(wal[Decided]) \in Nat /\ Len(wal'[Decided]) \in Nat  BY <1>a
  <2>c. record[1] \in 1 .. Len(wal[Decided])  BY <2>a, <2>b DEF Has
  <2>d. record[1] <= Len(wal[Decided]) /\ wal[Decided][record[1]] = record[2]  BY <2>a DEF Has
  <2>e. record[1] <= Len(wal'[Decided])  BY <2>b, <2>c
  <2>f. wal'[Decided][record[1]] = record[2]  BY <2>c, <2>d
  <2>g. Decided' = Decided  BY DEF Decided
  <2>q. QED  BY <2>e, <2>f, <2>g DEF Has
<1>q. QED  BY <1>b DEF AckedKept, Decided

(* Steps of other nodes.                                                   *)
LEMMA AfterElse ==
  ASSUME After, UNCHANGED <<decision, probing, blind, faults>>,
         Decided \in up' \ fenced',
         UNCHANGED <<wal[Decided], in_recovery[Decided], timeline[Decided], waiting[Decided]>>,
         DOMAIN wal' = Node, DOMAIN in_recovery' = Node, DOMAIN waiting' = Node,
         timeline' \in [Node -> Nat], follows' \in [Node -> Node],
         in_recovery[Decided] => wal' \in [Node -> Seq(Nat)],
         acked \subseteq acked', \A record \in acked' \ acked : ~record[3]
  PROVE  After'
<1>d. Decided' = Decided  BY DEF Decided
<1>w. wal'[Decided] = wal[Decided] /\ in_recovery'[Decided] = in_recovery[Decided]
      /\ timeline'[Decided] = timeline[Decided] /\ waiting'[Decided] = waiting[Decided]
  BY <1>d
<1>a. \A record : Has(Decided, record)' <=> Has(Decided, record)  BY <1>d, <1>w DEF Has
<1>b. AckedKept'  BY <1>a, <1>d DEF After, AckedKept, Decided
<1>c. \A record \in acked' : record[3] => record[1] \in Nat \ {0}  BY DEF After
<1>q. QED  BY <1>a, <1>b, <1>c, <1>d, <1>w DEF After

(* A write of the decided node adds a record and waits for it.             *)
LEMMA WriteAfter ==
  ASSUME After, NEW n \in Node, Write(n)
  PROVE  After'
<1>w. /\ ~in_recovery[n]
      /\ wal' = [wal EXCEPT ![n] = Append(@, timeline[n])]
      /\ waiting' = [waiting EXCEPT ![n] = @ \cup {Len(wal'[n])}]
      /\ UNCHANGED <<received, gossiped, in_recovery, timeline, follows, up, fenced,
                     decision, probing, acked, faults, blind>>
  BY DEF Write
<1>t. /\ DOMAIN wal' = Node /\ DOMAIN waiting' = Node /\ timeline \in [Node -> Nat] /\ follows \in [Node -> Node]
      /\ DOMAIN in_recovery = Node /\ Decided \in Node /\ Decided \in up \ fenced
      /\ DOMAIN wal = Node /\ DOMAIN waiting = Node /\ wal[Decided] \in Seq(Nat)
  BY <1>w DEF After
<1>d. Decided' = Decided  BY <1>w DEF Decided
<1>a. CASE n # Decided
  <2>a. wal'[Decided] = wal[Decided] /\ waiting'[Decided] = waiting[Decided]  BY <1>a, <1>w, <1>t
  <2>b. ASSUME in_recovery[Decided] PROVE wal' \in [Node -> Seq(Nat)]
    <3>a. wal \in [Node -> Seq(Nat)]  BY <2>b DEF After
    <3>b. Append(wal[n], timeline[n]) \in Seq(Nat)  BY <3>a, <1>t
    <3>q. QED  BY <3>a, <3>b, <1>w
  <2>q. QED  BY <2>a, <2>b, <1>w, <1>t, <1>d, AfterElse
<1>b. CASE n = Decided
  <2>a. wal'[n] = Append(wal[n], timeline[n]) /\ waiting'[n] = waiting[n] \cup {Len(wal'[n])}
    BY <1>w, <1>t
  <2>b. timeline[n] \in Nat /\ wal[n] \in Seq(Nat) /\ Len(wal[n]) \in Nat  BY <1>t, <1>b
  <2>c. /\ wal'[n] \in Seq(Nat) /\ Len(wal'[n]) = Len(wal[n]) + 1
        /\ wal'[n][Len(wal'[n])] = timeline[n]
        /\ \A i \in 1 .. Len(wal[n]) : wal'[n][i] = wal[n][i]
    BY <2>a, <2>b
  <2>d. AckedKept'  BY <2>b, <2>c, <1>b, <1>w, AfterKeeps
  <2>e. ASSUME NEW position \in waiting'[n]
        PROVE  position \in Nat \ {0} /\ Has(n, <<position, timeline[n]>>)'
    <3>a. CASE position \in waiting[n]
      <4>a. position \in Nat \ {0} /\ Has(n, <<position, timeline[n]>>)  BY <3>a, <1>b DEF After
      <4>b. position <= Len(wal[n]) /\ wal[n][position] = timeline[n]  BY <4>a DEF Has
      <4>c. position \in 1 .. Len(wal[n])  BY <4>a, <4>b, <2>b
      <4>d. wal'[n][position] = timeline[n] /\ position <= Len(wal'[n])  BY <4>b, <4>c, <2>b, <2>c
      <4>q. QED  BY <4>a, <4>d, <1>w DEF Has
    <3>b. CASE position = Len(wal'[n])  BY <3>b, <2>b, <2>c, <1>w DEF Has
    <3>q. QED  BY <2>a, <2>e, <3>a, <3>b
  <2>f. \A position \in waiting'[Decided] : position \in Nat \ {0} /\ Has(Decided, <<position, timeline[Decided]>>)'
    BY <2>e, <1>b, <1>d, <1>w DEF Has
  <2>q. QED  BY <2>c, <2>d, <2>f, <1>b, <1>d, <1>w, <1>t DEF After
<1>q. QED  BY <1>a, <1>b

(* The decided node, until it is promoted, may still receive records.      *)
LEMMA StreamAfter ==
  ASSUME After, NEW n \in Node, Stream(n)
  PROVE  After'
<1>w. /\ in_recovery[n] /\ IsPrefix(wal[n], wal[follows[n]])
      /\ wal' = [wal EXCEPT ![n] = SubSeq(wal[follows[n]], 1,
                   IF @ = wal[follows[n]] THEN Len(@) ELSE Len(@) + 1)]
      /\ timeline' = [timeline EXCEPT ![n] = timeline[follows[n]]]
      /\ UNCHANGED <<gossiped, in_recovery, follows, up, fenced, decision, probing, waiting,
                     acked, faults, blind>>
  BY DEF Stream
<1>t. /\ DOMAIN wal = Node /\ DOMAIN waiting = Node /\ timeline \in [Node -> Nat] /\ follows \in [Node -> Node]
      /\ DOMAIN in_recovery = Node /\ Decided \in Node /\ Decided \in up \ fenced
      /\ wal[Decided] \in Seq(Nat)
  BY DEF After
<1>d. Decided' = Decided  BY <1>w DEF Decided
<1>p. timeline' \in [Node -> Nat] /\ DOMAIN wal' = Node  BY <1>w, <1>t
<1> DEFINE s == wal[n]  t == wal[follows[n]]  u == wal'[n]
<1>u. u = SubSeq(t, 1, IF s = t THEN Len(s) ELSE Len(s) + 1)  BY <1>w, <1>t
<1>e. ASSUME wal \in [Node -> Seq(Nat)]
      PROVE  /\ u \in Seq(Nat) /\ Len(s) <= Len(u)
             /\ \A i \in 1 .. Len(s) : u[i] = s[i]
  <2> DEFINE S == Nat
  <2>a. s \in Seq(S) /\ t \in Seq(S) /\ IsPrefix(s, t)  BY <1>e, <1>t, <1>w
  <2> HIDE DEF s, t, u, S
  <2>b. u = SubSeq(t, 1, IF s = t THEN Len(s) ELSE Len(s) + 1)  BY <1>u
  <2>c. /\ u \in Seq(S) /\ Len(s) <= Len(u) /\ Len(u) <= Len(t)
        /\ \A i \in 1 .. Len(s) : u[i] = s[i]
    BY <2>a, <2>b, Extends
  <2>q. QED  BY <2>c DEF S
<1>r. ASSUME in_recovery[Decided] PROVE wal \in [Node -> Seq(Nat)] /\ wal' \in [Node -> Seq(Nat)]
  <2>a. wal \in [Node -> Seq(Nat)]  BY <1>r DEF After
  <2>b. wal' = [m \in Node |-> IF m = n THEN u ELSE wal[m]]  BY <1>w, <1>t
  <2>q. QED  BY <2>a, <2>b, <1>e
<1>a. CASE n # Decided
  <2>a. wal'[Decided] = wal[Decided] /\ timeline'[Decided] = timeline[Decided]  BY <1>a, <1>w, <1>t
  <2>q. QED  BY <2>a, <1>r, <1>w, <1>t, <1>p, <1>d, AfterElse
<1>b. CASE n = Decided
  <2>a. /\ wal' \in [Node -> Seq(Nat)] /\ Len(wal[n]) <= Len(wal'[n])
        /\ \A i \in 1 .. Len(wal[n]) : wal'[n][i] = wal[n][i]
    BY <1>b, <1>r, <1>e, <1>w
  <2>b. AckedKept'
    <3>a. wal'[Decided] \in Seq(Nat)  BY <2>a, <1>t
    <3>q. QED  BY <3>a, <2>a, <1>b, <1>w, AfterKeeps
  <2>c. waiting[Decided] = {}  BY <1>b, <1>w DEF After
  <2>q. QED  BY <2>a, <2>b, <2>c, <1>d, <1>w, <1>t, <1>p DEF After
<1>q. QED  BY <1>a, <1>b

(* Only a commit on the decided node is in time, and it has the record.    *)
LEMMA AckAfter ==
  ASSUME After, NEW n \in Node, Ack(n)
  PROVE  After'
<1>w. UNCHANGED <<wal, received, in_recovery, timeline, follows, gossiped, up, fenced, decision,
                  probing, faults, blind>>
  BY DEF Ack, postgres
<1>p. PICK position \in waiting[n] :
        /\ acked' = acked \cup {<<position, timeline[n], InTime(n)>>}
        /\ waiting' = [waiting EXCEPT ![n] = @ \ {position}]
  BY DEF Ack
<1>t. /\ DOMAIN wal = Node /\ DOMAIN waiting = Node /\ timeline \in [Node -> Nat] /\ follows \in [Node -> Node]
      /\ DOMAIN in_recovery = Node /\ Decided \in Node /\ Decided \in up \ fenced
      /\ in_recovery[Decided] => waiting[Decided] = {} /\ wal \in [Node -> Seq(Nat)]
  BY DEF After
<1>v. DOMAIN waiting' = Node  BY <1>p, <1>t
<1>d. Decided' = Decided  BY <1>w DEF Decided
<1>a. CASE n # Decided
  <2>a. waiting'[Decided] = waiting[Decided]  BY <1>a, <1>p, <1>t
  <2>b. InTime(n) = FALSE  BY <1>a DEF InTime, Decided
  <2>c. acked \subseteq acked' /\ \A record \in acked' \ acked : ~record[3]  BY <1>p, <2>b
  <2>q. QED  BY <2>a, <2>c, <1>w, <1>t, <1>v, <1>d, AfterElse
<1>b. CASE n = Decided
  <2>a. position \in Nat \ {0} /\ Has(n, <<position, timeline[n]>>)  BY <1>b, <1>p DEF After
  <2>r. \A record : Has(Decided, record)' <=> Has(Decided, record)  BY <1>w, <1>d DEF Has
  <2>b. ASSUME NEW record \in acked', record[3]
        PROVE  record[1] \in Nat \ {0} /\ (~blind => Has(Decided, record))
    <3>a. CASE record \in acked  BY <3>a, <2>b DEF After, AckedKept, Decided
    <3>b. CASE record = <<position, timeline[n], InTime(n)>>
      <4>a. record[1] = position /\ record[2] = timeline[n]  BY <3>b
      <4>q. QED  BY <4>a, <2>a, <1>b DEF Has
    <3>q. QED  BY <2>b, <3>a, <3>b, <1>p
  <2>c. AckedKept'  BY <2>b, <2>r, <1>w, <1>d DEF AckedKept, Decided
  <2>d. waiting'[n] \subseteq waiting[n]  BY <1>p, <1>t
  <2>e. \A p \in waiting[Decided] : p \in Nat \ {0} /\ Has(Decided, <<p, timeline[Decided]>>)
    BY DEF After
  <2>f. \A p \in waiting'[Decided] : p \in Nat \ {0} /\ Has(Decided, <<p, timeline[Decided]>>)'
    BY <2>d, <2>e, <2>r, <1>b, <1>w, <1>d DEF Has
  <2>g. in_recovery[Decided] => waiting'[Decided] = {}  BY <1>b, <1>t, <2>d
  <2>h. \A record \in acked' : record[3] => record[1] \in Nat \ {0}  BY <2>b
  <2>q. QED  BY <2>c, <2>f, <2>g, <2>h, <1>w, <1>t, <1>v, <1>d DEF After
<1>q. QED  BY <1>a, <1>b

(* The decided standby is promoted, with all the WAL it has.               *)
LEMMA PromoteAfter ==
  ASSUME After, NEW n \in Node, Promote(n)
  PROVE  After'
<1>n. n = Decided /\ n \notin fenced  BY DEF Promote, Decided, After
<1>w. /\ in_recovery[n]
      /\ in_recovery' = [in_recovery EXCEPT ![n] = FALSE]
      /\ timeline' = [timeline EXCEPT ![n] = decision.seq]
      /\ fenced' = fenced \ {n}
      /\ UNCHANGED <<wal, received, gossiped, follows, up, decision, probing, waiting, acked, faults, blind>>
  BY <1>n DEF Promote
<1>t. /\ DOMAIN wal = Node /\ DOMAIN waiting = Node /\ timeline \in [Node -> Nat] /\ follows \in [Node -> Node]
      /\ DOMAIN in_recovery = Node /\ Decided \in Node /\ Decided \in up \ fenced
      /\ wal[Decided] \in Seq(Nat) /\ waiting[Decided] = {} /\ decision.seq \in Nat
  BY <1>w, <1>n DEF After
<1>d. Decided' = Decided  BY <1>w DEF Decided
<1>a. timeline' \in [Node -> Nat] /\ DOMAIN in_recovery' = Node /\ in_recovery'[Decided] = FALSE
  BY <1>w, <1>t, <1>n
<1>k. AckedKept'  BY <1>w, <1>t, AfterKeeps
<1>q. QED  BY <1>w, <1>t, <1>d, <1>a, <1>k DEF After

(* What the other nodes do, and what nobody does any more.                 *)
LEMMA ElseAfter ==
  ASSUME After, faults \in Nat, NEW n \in Node,
         \/ Crash(n) \/ Return(n) \/ Cut(n) \/ Gossip(n) \/ Begin(n) \/ Probe(n)
         \/ Repoint(n) \/ Rejoin(n) \/ Choose
  PROVE  After'
<1>t. /\ DOMAIN wal = Node /\ DOMAIN waiting = Node /\ timeline \in [Node -> Nat] /\ follows \in [Node -> Node]
      /\ DOMAIN in_recovery = Node /\ Decided \in Node /\ Decided \in up \ fenced
      /\ in_recovery[Decided] => wal \in [Node -> Seq(Nat)]
      /\ probing = Idle /\ faults >= MaxFaults
  BY DEF After
<1>f. ~(faults < MaxFaults)  BY <1>t, ChoiceAssumption DEF ChoiceAssumption
<1>a. ~Crash(n) /\ ~Cut(n)  BY <1>f DEF Crash, Cut, May
<1>b. ~Begin(n) /\ ~Choose  BY <1>t DEF Begin, Choose, Decided
<1>c. ~Probe(n)
  <2>a. DOMAIN Idle.answers = {}  BY DEF Idle
  <2>q. QED  BY <2>a, <1>t DEF Probe
<1>e. CASE Return(n)
  <2>a. /\ n # Decided
        /\ UNCHANGED <<wal, in_recovery, timeline, follows, decision, probing, waiting, acked, faults, blind>>
        /\ up' = up \cup {n} /\ (fenced' = fenced \/ fenced' = fenced \cup {n})
    BY <1>e, <1>t DEF Return
  <2>b. Decided' = Decided  BY <2>a DEF Decided
  <2>q. QED  BY <2>a, <2>b, <1>t, AfterElse
<1>g. CASE Gossip(n)
  <2>a. UNCHANGED <<wal, in_recovery, timeline, follows, up, fenced, decision, probing, waiting,
                    acked, faults, blind>>
    BY <1>g DEF Gossip, postgres
  <2>b. Decided' = Decided  BY <2>a DEF Decided
  <2>q. QED  BY <2>a, <2>b, <1>t, AfterElse
<1>h. CASE Repoint(n)
  <2>a. /\ UNCHANGED <<wal, in_recovery, timeline, up, fenced, decision, probing, waiting,
                       acked, faults, blind>>
        /\ follows' = [follows EXCEPT ![n] = Decided]
    BY <1>h DEF Repoint, Decided
  <2>b. Decided' = Decided /\ follows' \in [Node -> Node]  BY <2>a, <1>t DEF Decided
  <2>q. QED  BY <2>a, <2>b, <1>t, AfterElse
<1>i. CASE Rejoin(n)
  <2>a. /\ n # Decided /\ ~in_recovery[Decided]
        /\ wal' = [wal EXCEPT ![n] = LongestCommonPrefix({@, wal[decision.primary]})]
        /\ in_recovery' = [in_recovery EXCEPT ![n] = TRUE]
        /\ follows' = [follows EXCEPT ![n] = Decided]
        /\ fenced' = fenced \ {n}
        /\ waiting' = [waiting EXCEPT ![n] = {}]
        /\ UNCHANGED <<timeline, up, decision, probing, acked, faults, blind>>
    BY <1>i DEF Rejoin, Decided
  <2>b. Decided' = Decided /\ follows' \in [Node -> Node]  BY <2>a, <1>t DEF Decided
  <2>c. /\ DOMAIN wal' = Node /\ DOMAIN in_recovery' = Node /\ DOMAIN waiting' = Node
        /\ wal'[Decided] = wal[Decided] /\ in_recovery'[Decided] = in_recovery[Decided]
        /\ waiting'[Decided] = waiting[Decided]
    BY <2>a, <1>t
  <2>q. QED  BY <2>a, <2>b, <2>c, <1>t, AfterElse
<1>q. QED  BY <1>a, <1>b, <1>c, <1>e, <1>g, <1>h, <1>i

-----------------------------------------------------------------------------
(* Every step keeps the invariant, when at most one fault happens.         *)
LEMMA StepChoice ==
  ASSUME MaxFaults <= 1, ChoiceInv, [Next]_vars
  PROVE  ChoiceInv'
<1>f. faults' \in Nat
  <2>a. faults' = faults \/ faults' = faults + 1
    BY DEF Next, vars, Write, Stream, Ack, Crash, Return, Cut, Gossip, Begin, Probe,
           Choose, Promote, Repoint, Rejoin
  <2>q. QED  BY <2>a DEF ChoiceInv
<1>b. CASE Before
  <2>u. CASE UNCHANGED vars
    <3>a. Before'
      BY <1>b, <2>u DEF vars, Before, FirstTimeline, OneOutage, PrimaryOut, Fresh, Asking, Kept, HeldBy
    <3>q. QED  BY <3>a, <1>f DEF ChoiceInv
  <2>c. CASE Choose  BY <1>b, <1>f, <2>c, ChooseAfter DEF ChoiceInv
  <2>n. ASSUME NEW n \in Node,
               \/ Write(n) \/ Stream(n) \/ Ack(n) \/ Crash(n) \/ Return(n) \/ Cut(n)
               \/ Gossip(n) \/ Begin(n) \/ Probe(n) \/ Promote(n) \/ Repoint(n) \/ Rejoin(n)
        PROVE  Before'
    <3>a. ~Repoint(n)  BY <1>b, BeforeFacts DEF Repoint, Decided
    <3>b. ~Rejoin(n)  BY <1>b, BeforeFacts DEF Rejoin, Decided
    <3>q. QED
      BY <1>b, <2>n, <3>a, <3>b, WriteBefore, StreamBefore, AckBefore, CrashBefore, ReturnBefore,
         CutBefore, GossipBefore, BeginBefore, ProbeBefore, PromoteBefore DEF ChoiceInv
  <2>q. QED  BY <1>f, <2>u, <2>c, <2>n DEF ChoiceInv, Next
<1>a. CASE After
  <2>u. CASE UNCHANGED vars
    <3>a. After'  BY <1>a, <2>u DEF vars, After, AckedKept, Has, Decided
    <3>q. QED  BY <3>a, <1>f DEF ChoiceInv
  <2>c. CASE Choose
    <3>a. 1 \in Node  BY ChoiceAssumption DEF ChoiceAssumption, Node
    <3>q. QED  BY <3>a, <1>a, <1>f, <2>c, ElseAfter DEF ChoiceInv
  <2>n. ASSUME NEW n \in Node,
               \/ Write(n) \/ Stream(n) \/ Ack(n) \/ Crash(n) \/ Return(n) \/ Cut(n)
               \/ Gossip(n) \/ Begin(n) \/ Probe(n) \/ Promote(n) \/ Repoint(n) \/ Rejoin(n)
        PROVE  After'
    BY <1>a, <2>n, WriteAfter, StreamAfter, AckAfter, PromoteAfter, ElseAfter DEF ChoiceInv
  <2>q. QED  BY <1>f, <2>u, <2>c, <2>n DEF ChoiceInv, Next
<1>q. QED  BY <1>a, <1>b DEF ChoiceInv

(* "An acked write is always present on the node that gets promoted"       *)
(* (README.md), for every number of nodes, records and decisions, when one *)
(* fault of any kind happens and the probes may fail.                      *)
THEOREM ChoiceKeepsAcked ==
  ASSUME MaxFaults <= 1
  PROVE  Spec => []AckedKept
<1>a. ChoiceInv => AckedKept
  <2>a. ASSUME Before PROVE AckedKept
    <3>a. ASSUME NEW record \in acked, record[3] PROVE Has(1, record)
      <4>a. record[1] \in 1 .. Len(wal[1]) /\ record[2] = 1  BY <2>a, <3>a DEF Before, Kept
      <4>b. wal[1] \in Seq({1}) /\ Len(wal[1]) \in Nat  BY <2>a, BeforeFacts
      <4>c. wal[1][record[1]] = 1  BY <4>a, <4>b
      <4>q. QED  BY <4>a, <4>b, <4>c DEF Has
    <3>q. QED  BY <3>a, <2>a, BeforeFacts DEF AckedKept, Decided
  <2>q. QED  BY <2>a DEF ChoiceInv, After
<1>b. ChoiceInv /\ [Next]_vars => ChoiceInv'  BY StepChoice
<1>q. QED  BY <1>a, <1>b, InitChoice, PTL DEF Spec
=============================================================================
