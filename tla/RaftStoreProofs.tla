-------------------------- MODULE RaftStoreProofs ---------------------------
(***************************************************************************)
(* For every bound on the log, the votes, the batches and the faults: what *)
(* the store has promised survives power loss and failed writes.           *)
(*                                                                         *)
(* The argument has two halves. Memory, the files and what power loss      *)
(* leaves of them are three generations of the log and three of the state  *)
(* machine; each is well formed by itself (a log without gaps, the outcome *)
(* of a committed prefix), and where no operation is under way they are    *)
(* the same. And nothing is purged from any generation of the log that the *)
(* oldest generation of the state machine does not cover.                  *)
(***************************************************************************)
EXTENDS RaftStore, WellFoundedInduction, SequenceTheorems, TLAPS

-----------------------------------------------------------------------------
(* Numbers.                                                                *)

(* A nonempty set of natural numbers has a least element.                  *)
LEMMA Least ==
  ASSUME NEW T \in SUBSET Nat, T # {}
  PROVE  \E x \in T : \A y \in T : x <= y
<1>a. PICK x \in T : \A y \in T : ~(<<y, x>> \in OpToRel(<, Nat))
  BY NatLessThanWellFounded, WFMin
<1>b. ASSUME NEW y \in T PROVE x <= y
  <2>a. ~(<<y, x>> \in {ss \in Nat \X Nat : ss[1] < ss[2]})
    BY <1>a DEF OpToRel
  <2>q. QED  BY <2>a
<1>q. QED  BY <1>b

(* A nonempty set of natural numbers with a bound has a greatest element.  *)
LEMMA Greatest ==
  ASSUME NEW n \in Nat, NEW T \in SUBSET (0 .. n), T # {}
  PROVE  \E x \in T : \A y \in T : y <= x
<1> DEFINE U == {n - y : y \in T}
<1>z. PICK z \in T : TRUE  OBVIOUS
<1>y. \A y \in T : y \in Int /\ n - y \in Nat  OBVIOUS
<1>x. U \subseteq Nat  BY <1>y
<1>w. n - z \in U  OBVIOUS
<1>a. U \in SUBSET Nat /\ U # {}  BY <1>x, <1>w
<1>b. PICK u \in U : \A v \in U : u <= v  BY <1>a, Least
<1>c. PICK x \in T : u = n - x  OBVIOUS
<1>d. ASSUME NEW y \in T PROVE y <= x
  <2>a. n - y \in U  OBVIOUS
  <2>b. n - x <= n - y  BY <1>b, <1>c, <2>a
  <2>q. QED  BY <1>y, <2>b
<1>q. QED  BY <1>d

-----------------------------------------------------------------------------
(* The outcome of a prefix of the committed entries c.                     *)
LastIn(c, payload, n) ==
  CHOOSE i \in 0 .. n :
    /\ i = 0 \/ c[i] = payload
    /\ \A j \in 1 .. n : c[j] = payload => j <= i
StateIn(c, n) ==
  [last_applied |-> n, last_membership |-> LastIn(c, "Membership", n),
   decision |-> LastIn(c, "Normal", n)]
ExactIn(c, s) == \E n \in 0 .. Len(c) : s = StateIn(c, n)

(* They are the operators of the store, taken of the variable chosen.      *)
LEMMA InChosen ==
  ASSUME NEW payload, NEW n
  PROVE  LastOf(payload, n) = LastIn(chosen, payload, n) /\ StateAt(n) = StateIn(chosen, n)
  BY DEF LastOf, LastIn, StateAt, StateIn

(* The last entry of a kind exists, and is told by what it satisfies.      *)
LEMMA LastExists ==
  ASSUME NEW c, NEW payload, NEW n \in Nat
  PROVE  /\ LastIn(c, payload, n) \in 0 .. n
         /\ LastIn(c, payload, n) = 0 \/ c[LastIn(c, payload, n)] = payload
         /\ \A j \in 1 .. n : c[j] = payload => j <= LastIn(c, payload, n)
<1> DEFINE T == {i \in 0 .. n : i = 0 \/ c[i] = payload}
           P(i) == /\ i = 0 \/ c[i] = payload
                   /\ \A j \in 1 .. n : c[j] = payload => j <= i
<1>a. 0 \in T /\ T \in SUBSET (0 .. n)  OBVIOUS
<1>b. PICK x \in T : \A y \in T : y <= x  BY <1>a, Greatest
<1>c. x \in 0 .. n /\ P(x)  BY <1>b
<1>d. P(CHOOSE i \in 0 .. n : P(i)) /\ (CHOOSE i \in 0 .. n : P(i)) \in 0 .. n  BY <1>c
<1>q. QED  BY <1>d DEF LastIn

(* An entry that satisfies it is the last of its kind.                     *)
LEMMA LastUnique ==
  ASSUME NEW c, NEW payload, NEW n \in Nat, NEW i \in 0 .. n,
         i = 0 \/ c[i] = payload, \A j \in 1 .. n : c[j] = payload => j <= i
  PROVE  LastIn(c, payload, n) = i
<1> DEFINE k == LastIn(c, payload, n)
<1>a. /\ k \in 0 .. n /\ (k = 0 \/ c[k] = payload)
      /\ \A j \in 1 .. n : c[j] = payload => j <= k
  BY LastExists
<1>b. i <= k  BY <1>a
<1>c. k <= i  BY <1>a
<1>q. QED  BY <1>a, <1>b, <1>c

(* It grows with the prefix, and is the old one unless there is a later.   *)
LEMMA LastGrows ==
  ASSUME NEW c, NEW payload, NEW n \in Nat, NEW m \in Nat, n <= m
  PROVE  /\ LastIn(c, payload, n) <= LastIn(c, payload, m)
         /\ LastIn(c, payload, m) <= n => LastIn(c, payload, m) = LastIn(c, payload, n)
<1> DEFINE a == LastIn(c, payload, n)
           b == LastIn(c, payload, m)
<1>a. /\ a \in 0 .. n /\ (a = 0 \/ c[a] = payload)
      /\ \A j \in 1 .. n : c[j] = payload => j <= a
  BY LastExists
<1>b. /\ b \in 0 .. m /\ (b = 0 \/ c[b] = payload)
      /\ \A j \in 1 .. m : c[j] = payload => j <= b
  BY LastExists
<1>c. a <= b  BY <1>a, <1>b
<1>d. b <= n => b <= a  BY <1>a, <1>b
<1>q. QED  BY <1>a, <1>b, <1>c, <1>d

(* It does not depend on what comes after the prefix.                      *)
LEMMA LastStays ==
  ASSUME NEW c, NEW d, NEW payload, NEW n \in Nat, \A j \in 1 .. n : c[j] = d[j]
  PROVE  LastIn(c, payload, n) = LastIn(d, payload, n)
<1> DEFINE k == LastIn(d, payload, n)
<1>a. /\ k \in 0 .. n /\ (k = 0 \/ d[k] = payload)
      /\ \A j \in 1 .. n : d[j] = payload => j <= k
  BY LastExists
<1>b. k = 0 \/ c[k] = payload  BY <1>a
<1>c. \A j \in 1 .. n : c[j] = payload => j <= k  BY <1>a
<1>q. QED  BY <1>a, <1>b, <1>c, LastUnique

(* A state that was exact stays so when the committed entries grow.        *)
LEMMA ExactStays ==
  ASSUME NEW c, NEW d, Len(c) \in Nat, Len(d) \in Nat, Len(c) <= Len(d),
         \A j \in 1 .. Len(c) : c[j] = d[j], NEW s, ExactIn(c, s)
  PROVE  ExactIn(d, s)
<1>a. PICK n \in 0 .. Len(c) : s = StateIn(c, n)  BY DEF ExactIn
<1>b. \A j \in 1 .. n : c[j] = d[j]  OBVIOUS
<1>c. \A payload : LastIn(c, payload, n) = LastIn(d, payload, n)  BY <1>b, LastStays
<1>d. s = StateIn(d, n)  BY <1>a, <1>c DEF StateIn
<1>q. QED  BY <1>d DEF ExactIn

(* What an exact state says.                                               *)
LEMMA ExactSays ==
  ASSUME NEW c, Len(c) \in Nat, NEW s, ExactIn(c, s)
  PROVE  /\ s.last_applied \in 0 .. Len(c) /\ s = StateIn(c, s.last_applied)
         /\ s.decision = LastIn(c, "Normal", s.last_applied)
         /\ s.last_membership = LastIn(c, "Membership", s.last_applied)
  BY DEF ExactIn, StateIn

(* The loop of apply arrives at the outcome of the longer prefix.          *)
LEMMA ApplyExact ==
  ASSUME chosen \in Seq(Payload), ExactIn(chosen, sm), NEW c \in 1 .. Len(chosen), c > sm.last_applied
  PROVE  AfterApply(c) = StateIn(chosen, c)
<1> DEFINE n == sm.last_applied
<1>l. Len(chosen) \in Nat  OBVIOUS
<1>a. /\ n \in 0 .. Len(chosen)
      /\ sm.decision = LastIn(chosen, "Normal", n)
      /\ sm.last_membership = LastIn(chosen, "Membership", n)
  BY <1>l, ExactSays
<1>b. n \in Nat /\ c \in Nat /\ n <= c  BY <1>a
<1>c. \A p : /\ LastIn(chosen, p, c) <= n => LastIn(chosen, p, c) = LastIn(chosen, p, n)
             /\ LastIn(chosen, p, c) \in 0 .. c
             /\ LastIn(chosen, p, c) = 0 \/ chosen[LastIn(chosen, p, c)] = p
             /\ \A j \in 1 .. c : chosen[j] = p => j <= LastIn(chosen, p, c)
  BY <1>b, LastGrows, LastExists
<1>m. AfterApply(c).last_membership = LastIn(chosen, "Membership", c)
  BY <1>a, <1>b, <1>c, InChosen DEF AfterApply
<1>d. HasNormal(n + 1, c) <=> LastIn(chosen, "Normal", c) > n
  <2>a. ASSUME NEW i \in n + 1 .. c, chosen[i] = "Normal" PROVE LastIn(chosen, "Normal", c) > n
    BY <1>b, <1>c, <2>a
  <2>b. ASSUME LastIn(chosen, "Normal", c) > n PROVE HasNormal(n + 1, c)
    BY <1>b, <1>c, <2>b DEF HasNormal
  <2>q. QED  BY <2>a, <2>b DEF HasNormal
<1>e. AfterApply(c).decision = LastIn(chosen, "Normal", c)
  BY <1>a, <1>b, <1>c, <1>d, InChosen DEF AfterApply
<1>q. QED  BY <1>m, <1>e DEF AfterApply, StateIn

-----------------------------------------------------------------------------
(* A log holds its entries without a gap, from its last purged one.        *)
HoldsTo(l, k) == l.last_purged <= k /\ DOMAIN l.log = l.last_purged + 1 .. k
Whole(l) == l \in LogState /\ \E k \in 0 .. MaxIndex : HoldsTo(l, k)

(* Entries are functions on some of the indices.                           *)
LEMMA EntriesAre ==
  ASSUME NEW S \in SUBSET Index, NEW f \in [S -> Payload]
  PROVE  f \in Entries
  BY DEF Entries

(* And what that says of their domain and values.                          *)
LEMMA EntriesSay ==
  ASSUME NEW f \in Entries
  PROVE  DOMAIN f \subseteq Index /\ f \in [DOMAIN f -> Payload]
  BY DEF Entries

(* What a whole log says field by field.                                   *)
LEMMA WholeSays ==
  ASSUME NEW l, Whole(l)
  PROVE  /\ l \in LogState /\ NonePurged(l)
         /\ l.vote \in 0 .. MaxVote /\ l.last_purged \in 0 .. MaxIndex
         /\ l.committed \in 0 .. MaxIndex
         /\ DOMAIN l.log \subseteq Index /\ l.log \in [DOMAIN l.log -> Payload]
         /\ \E k \in 0 .. MaxIndex : HoldsTo(l, k)
<1>a. l \in LogState /\ \E k \in 0 .. MaxIndex : HoldsTo(l, k)  BY DEF Whole
<1>b. /\ l.vote \in 0 .. MaxVote /\ l.last_purged \in 0 .. MaxIndex
      /\ l.committed \in 0 .. MaxIndex /\ l.log \in Entries
  BY <1>a DEF LogState
<1>c. DOMAIN l.log \subseteq Index /\ l.log \in [DOMAIN l.log -> Payload]
  BY <1>b, EntriesSay
<1>d. NonePurged(l)  BY <1>a, <1>b DEF NonePurged, HoldsTo
<1>q. QED  BY <1>a, <1>b, <1>c, <1>d

(* get_log_state finds the end of the log.                                 *)
LEMMA LastLogIs ==
  ASSUME Whole(log), NEW k \in 0 .. MaxIndex, HoldsTo(log, k)
  PROVE  LastLog = k
<1>a. log.last_purged \in 0 .. MaxIndex  BY WholeSays
<1>b. CASE log.last_purged = k
  <2>a. DOMAIN log.log = {}  BY <1>a, <1>b DEF HoldsTo
  <2>q. QED  BY <1>b, <2>a DEF LastLog
<1>c. CASE log.last_purged < k
  <2>a. k \in DOMAIN log.log /\ \A j \in DOMAIN log.log : j <= k  BY <1>a, <1>c DEF HoldsTo
  <2>b. \A i \in DOMAIN log.log : (\A j \in DOMAIN log.log : j <= i) => i = k
    BY <1>a, <2>a DEF HoldsTo
  <2>c. (CHOOSE i \in DOMAIN log.log : \A j \in DOMAIN log.log : j <= i) = k
    BY <2>a, <2>b
  <2>q. QED  BY <2>a, <2>c DEF LastLog
<1>q. QED  BY <1>a, <1>b, <1>c DEF HoldsTo

(* The log after an append: longer by the batch.                           *)
LEMMA AppendWhole ==
  ASSUME Whole(log), NEW entries \in Batches, LastLog + Len(entries) <= MaxIndex,
         NEW new,
         new = [log EXCEPT !.log = [i \in DOMAIN log.log \cup (LastLog + 1 .. LastLog + Len(entries)) |->
                                      IF i > LastLog THEN entries[i - LastLog] ELSE log.log[i]]]
  PROVE  /\ Whole(new) /\ LastLog \in 0 .. MaxIndex
         /\ new.vote = log.vote /\ new.committed = log.committed /\ new.last_purged = log.last_purged
         /\ DOMAIN log.log \subseteq DOMAIN new.log
         /\ \A i \in DOMAIN log.log : new.log[i] = log.log[i]
<1> USE RaftStoreAssumption DEF RaftStoreAssumption
<1>w. /\ log \in LogState /\ log.last_purged \in 0 .. MaxIndex
      /\ DOMAIN log.log \subseteq Index /\ log.log \in [DOMAIN log.log -> Payload]
  BY WholeSays
<1>k. PICK k \in 0 .. MaxIndex : HoldsTo(log, k)  BY WholeSays
<1>l. LastLog = k  BY <1>k, LastLogIs
<1>n. PICK n \in 1 .. MaxBatch : entries \in [1 .. n -> Payload]  BY DEF Batches
<1>m. Len(entries) = n /\ n \in Nat  BY <1>n
<1> DEFINE D == DOMAIN log.log \cup (k + 1 .. k + n)
           f == [i \in D |-> IF i > k THEN entries[i - k] ELSE log.log[i]]
<1>d. D = log.last_purged + 1 .. k + n  BY <1>w, <1>k, <1>m DEF HoldsTo
<1>e. k + n \in 0 .. MaxIndex  BY <1>l, <1>m
<1>f. D \in SUBSET Index  BY <1>d, <1>e, <1>w DEF Index
<1>g. ASSUME NEW i \in D PROVE f[i] \in Payload
  <2>a. CASE i > k
    <3>a. i - k \in 1 .. n  BY <1>d, <1>m, <1>w, <2>a
    <3>q. QED  BY <1>n, <2>a, <3>a
  <2>b. CASE ~(i > k)
    <3>a. i \in DOMAIN log.log  BY <1>m, <2>b
    <3>q. QED  BY <1>w, <2>b, <3>a
  <2>q. QED  BY <2>a, <2>b
<1>h. f \in [D -> Payload]  BY <1>g
<1>i. f \in Entries  BY <1>f, <1>h, EntriesAre
<1>j. new = [log EXCEPT !.log = f]  BY <1>l, <1>m
<1>o. /\ new \in LogState /\ new.log = f /\ new.vote = log.vote
      /\ new.committed = log.committed /\ new.last_purged = log.last_purged
  BY <1>w, <1>i, <1>j DEF LogState
<1>p. HoldsTo(new, k + n)  BY <1>o, <1>d, <1>e, <1>k, <1>m, <1>w DEF HoldsTo
<1>r. \A i \in DOMAIN log.log : i \in D /\ ~(i > k)  BY <1>k, <1>w DEF HoldsTo
<1>s. \A i \in DOMAIN log.log : new.log[i] = log.log[i]  BY <1>o, <1>r
<1>q. QED  BY <1>l, <1>e, <1>o, <1>p, <1>r, <1>s DEF Whole

(* The log after its entries from i on are truncated.                      *)
LEMMA TruncateWhole ==
  ASSUME Whole(log), NEW i \in DOMAIN log.log, NEW new,
         new = [log EXCEPT !.log = Restriction(log.log, 0 .. i - 1)]
  PROVE  /\ Whole(new)
         /\ new.vote = log.vote /\ new.committed = log.committed /\ new.last_purged = log.last_purged
         /\ \A j \in DOMAIN log.log : j < i => j \in DOMAIN new.log /\ new.log[j] = log.log[j]
<1>w. /\ log \in LogState /\ log.last_purged \in 0 .. MaxIndex
      /\ DOMAIN log.log \subseteq Index /\ log.log \in [DOMAIN log.log -> Payload]
  BY WholeSays
<1>k. PICK k \in 0 .. MaxIndex : HoldsTo(log, k)  BY WholeSays
<1>i. i \in log.last_purged + 1 .. k  BY <1>k DEF HoldsTo
<1> DEFINE D == DOMAIN log.log \cap (0 .. i - 1)
           f == [j \in D |-> log.log[j]]
<1>d. D = log.last_purged + 1 .. i - 1  BY <1>w, <1>k, <1>i DEF HoldsTo
<1>f. D \in SUBSET Index  BY <1>w
<1>h. f \in [D -> Payload]  BY <1>w
<1>e. f \in Entries  BY <1>f, <1>h, EntriesAre
<1>j. new = [log EXCEPT !.log = f]  BY DEF Restriction
<1>o. /\ new \in LogState /\ new.log = f /\ new.vote = log.vote
      /\ new.committed = log.committed /\ new.last_purged = log.last_purged
  BY <1>w, <1>e, <1>j DEF LogState
<1>l. log.last_purged \in Int /\ 0 <= log.last_purged /\ k \in Int /\ k <= MaxIndex /\ i \in Int
  BY <1>w, <1>k, <1>i
<1>n. log.last_purged + 1 <= i /\ i <= k  BY <1>i, <1>l
<1>m. i - 1 \in 0 .. MaxIndex /\ log.last_purged <= i - 1
  BY <1>l, <1>n, RaftStoreAssumption DEF RaftStoreAssumption
<1>p. HoldsTo(new, i - 1)  BY <1>o, <1>d, <1>m DEF HoldsTo
<1>r. \A j \in DOMAIN log.log : j < i => j \in D  BY <1>w DEF Index
<1>q. QED  BY <1>o, <1>m, <1>p, <1>r DEF Whole

(* The log after a purge up to and with p.                                 *)
LEMMA PurgeWhole ==
  ASSUME Whole(log), NEW p \in 0 .. MaxIndex, p >= log.last_purged
  PROVE  /\ Whole(Purged(p))
         /\ Purged(p).vote = log.vote /\ Purged(p).committed = log.committed
         /\ Purged(p).last_purged = p
         /\ \A j \in DOMAIN log.log :
              j > p => j \in DOMAIN Purged(p).log /\ Purged(p).log[j] = log.log[j]
<1> DEFINE new == Purged(p)
<1>w. /\ log \in LogState /\ log.last_purged \in 0 .. MaxIndex
      /\ DOMAIN log.log \subseteq Index /\ log.log \in [DOMAIN log.log -> Payload]
  BY WholeSays
<1>k. PICK k \in 0 .. MaxIndex : HoldsTo(log, k)  BY WholeSays
<1> DEFINE D == DOMAIN log.log \cap (p + 1 .. MaxIndex)
           f == [j \in D |-> log.log[j]]
           m == IF p > k THEN p ELSE k
<1>a. DOMAIN log.log = log.last_purged + 1 .. k /\ log.last_purged <= k  BY <1>k DEF HoldsTo
<1>b. \A j \in D : j \in p + 1 .. m  BY <1>a, <1>w
<1>c. \A j \in p + 1 .. m : j \in D
  BY <1>a, <1>w, RaftStoreAssumption DEF RaftStoreAssumption
<1>d. D = p + 1 .. m
  <2>a. D \subseteq p + 1 .. m  BY <1>b
  <2>b. p + 1 .. m \subseteq D  BY <1>c
  <2>q. QED  BY <2>a, <2>b
<1>f. D \in SUBSET Index  BY <1>w
<1>h. f \in [D -> Payload]  BY <1>w
<1>e. f \in Entries  BY <1>f, <1>h, EntriesAre
<1>j. new = [log EXCEPT !.last_purged = p, !.log = f]  BY DEF Restriction, Purged
<1>o. /\ new \in LogState /\ new.log = f /\ new.vote = log.vote
      /\ new.committed = log.committed /\ new.last_purged = p
  BY <1>w, <1>e, <1>j DEF LogState
<1>p. HoldsTo(new, m) /\ m \in 0 .. MaxIndex  BY <1>o, <1>d, <1>k DEF HoldsTo
<1>r. \A j \in DOMAIN log.log : j > p => j \in D  BY <1>w DEF Index
<1>s. Whole(new)  BY <1>o, <1>p DEF Whole
<1>q. QED  BY <1>o, <1>r, <1>s

(* Changing the vote or the committed index keeps the entries.             *)
LEMMA FieldWhole ==
  ASSUME Whole(log)
  PROVE  /\ \A v \in 0 .. MaxVote :
              LET new == [log EXCEPT !.vote = v]
              IN  /\ Whole(new) /\ new.vote = v /\ new.committed = log.committed
                  /\ new.last_purged = log.last_purged /\ new.log = log.log
         /\ \A c \in 0 .. MaxIndex :
              LET new == [log EXCEPT !.committed = c]
              IN  /\ Whole(new) /\ new.committed = c /\ new.vote = log.vote
                  /\ new.last_purged = log.last_purged /\ new.log = log.log
<1>w. log \in LogState  BY WholeSays
<1>k. PICK k \in 0 .. MaxIndex : HoldsTo(log, k)  BY WholeSays
<1>v. ASSUME NEW v \in 0 .. MaxVote, NEW new, new = [log EXCEPT !.vote = v]
      PROVE  /\ Whole(new) /\ new.vote = v /\ new.committed = log.committed
             /\ new.last_purged = log.last_purged /\ new.log = log.log
  <2>a. /\ new \in LogState /\ new.vote = v /\ new.committed = log.committed
        /\ new.last_purged = log.last_purged /\ new.log = log.log
    BY <1>w, <1>v DEF LogState
  <2>b. HoldsTo(new, k)  BY <1>k, <2>a DEF HoldsTo
  <2>q. QED  BY <2>a, <2>b DEF Whole
<1>c. ASSUME NEW c \in 0 .. MaxIndex, NEW new, new = [log EXCEPT !.committed = c]
      PROVE  /\ Whole(new) /\ new.committed = c /\ new.vote = log.vote
             /\ new.last_purged = log.last_purged /\ new.log = log.log
  <2>a. /\ new \in LogState /\ new.committed = c /\ new.vote = log.vote
        /\ new.last_purged = log.last_purged /\ new.log = log.log
    BY <1>w, <1>c DEF LogState
  <2>b. HoldsTo(new, k)  BY <1>k, <2>a DEF HoldsTo
  <2>q. QED  BY <2>a, <2>b DEF Whole
<1>q. QED  BY <1>v, <1>c

-----------------------------------------------------------------------------
(* The first half: each generation is well formed, and where nothing is    *)
(* under way they are the same.                                            *)
LogInv ==
  /\ Whole(log) /\ Whole(file.log) /\ Whole(disk.log)
  /\ log.committed <= Len(chosen)
  /\ file.log.committed <= Len(chosen)
  /\ disk.log.committed <= Len(chosen)
  /\ ready \in 0 .. Len(chosen)
  /\ log_op \in {Idle} \cup LogOp
  /\ log_op.at = "fsync" => file.log = log
  /\ log_op = Idle /\ phase # "failed" => file.log = log /\ disk.log = log

SmInv ==
  /\ ExactIn(chosen, sm) /\ ExactIn(chosen, file.sm) /\ ExactIn(chosen, disk.sm)
  /\ build # None => ExactIn(chosen, build)
  /\ snapshot # None => ExactIn(chosen, snapshot)
  /\ sm_op \in {Idle} \cup SmOp
  /\ sm_op.at \in {"fsync", "publish"} => file.sm = sm
  /\ sm_op.at = "publish" => disk.sm = sm
  /\ sm_op = Idle /\ phase # "failed" => file.sm = sm /\ disk.sm = sm
  /\ disk.sm.last_applied <= file.sm.last_applied
  /\ file.sm.last_applied <= sm.last_applied
  /\ \E n \in 0 .. disk.sm.last_applied : shared = LastIn(chosen, "Normal", n)

Rest ==
  /\ file = [log |-> file.log, sm |-> file.sm]
  /\ disk = [log |-> disk.log, sm |-> disk.sm]
  /\ phase \in {"start", "run", "failed"}
  /\ purge_upto \in 0 .. MaxIndex
  /\ chosen \in Seq(Payload) /\ Len(chosen) <= MaxIndex
  /\ acked \in Entries
  /\ voted \in 0 .. MaxVote
  /\ faults \in 0 .. MaxFaults

Formed == LogInv /\ SmInv /\ Rest

(* The places in atomic_write tell the operations apart.                   *)
LEMMA Places ==
  /\ Idle.at = "none"
  /\ \A op \in LogOp : op # Idle /\ op.at \in {"rename", "fsync"}
  /\ \A op \in SmOp : op # Idle /\ op.at \in {"rename", "fsync", "publish"}
<1>a. Idle.at = "none"  BY DEF Idle
<1>q. QED  BY <1>a DEF LogOp, SmOp

(* The three state machines in numbers.                                    *)
LEMMA Applied ==
  ASSUME SmInv, Rest
  PROVE  /\ Len(chosen) \in Nat
         /\ sm.last_applied \in 0 .. Len(chosen)
         /\ file.sm.last_applied \in 0 .. Len(chosen)
         /\ disk.sm.last_applied \in 0 .. Len(chosen)
         /\ build # None => build.last_applied \in 0 .. Len(chosen)
<1>a. Len(chosen) \in Nat  BY DEF Rest
<1>q. QED  BY <1>a, ExactSays DEF SmInv

(* The outcome of a prefix is of the type of the state machine.            *)
LEMMA ExactType ==
  ASSUME Rest, NEW s, ExactIn(chosen, s)
  PROVE  s \in SmState
<1>a. Len(chosen) \in Nat /\ Len(chosen) <= MaxIndex /\ MaxIndex \in Nat
  BY RaftStoreAssumption DEF Rest, RaftStoreAssumption
<1>b. PICK n \in 0 .. Len(chosen) : s = StateIn(chosen, n)  BY DEF ExactIn
<1>c. n \in Nat /\ LastIn(chosen, "Membership", n) \in 0 .. n /\ LastIn(chosen, "Normal", n) \in 0 .. n
  BY LastExists
<1>q. QED  BY <1>a, <1>b, <1>c DEF StateIn, SmState

(* The invariant gives every type.                                         *)
LEMMA FormedTypes == Formed /\ ahead \in {"no", "now", "lost"} => TypeOK
<1> SUFFICES ASSUME Formed, ahead \in {"no", "now", "lost"} PROVE TypeOK  OBVIOUS
<1>i. LogInv /\ SmInv /\ Rest  BY DEF Formed
<1>a. /\ log \in LogState /\ file.log \in LogState /\ disk.log \in LogState
      /\ NonePurged(log) /\ NonePurged(file.log) /\ NonePurged(disk.log)
  BY <1>i, WholeSays DEF LogInv
<1>b. sm \in SmState /\ file.sm \in SmState /\ disk.sm \in SmState
  BY <1>i, ExactType DEF SmInv
<1>c. snapshot \in SmState \cup {None} /\ build \in SmState \cup {None}
  BY <1>i, ExactType DEF SmInv
<1>d. file \in [log : LogState, sm : SmState] /\ disk \in [log : LogState, sm : SmState]
  BY <1>i, <1>a, <1>b DEF Rest
<1>n. Len(chosen) \in Nat /\ Len(chosen) <= MaxIndex /\ MaxIndex \in Nat
  BY <1>i, RaftStoreAssumption DEF Rest, RaftStoreAssumption
<1>e. ready \in 0 .. MaxIndex  BY <1>i, <1>n DEF LogInv
<1>f. shared \in 0 .. MaxIndex
  <2>a. PICK n \in 0 .. disk.sm.last_applied : shared = LastIn(chosen, "Normal", n)
    BY <1>i DEF SmInv
  <2>b. disk.sm.last_applied \in 0 .. Len(chosen)  BY <1>i, Applied
  <2>c. n \in Nat /\ n <= MaxIndex  BY <1>n, <2>b
  <2>d. shared \in 0 .. n  BY <2>a, <2>c, LastExists
  <2>q. QED  BY <1>n, <2>c, <2>d
<1>g. log_op \in {Idle} \cup LogOp /\ sm_op \in {Idle} \cup SmOp  BY <1>i DEF LogInv, SmInv
<1>h. /\ phase \in {"start", "run", "failed"} /\ purge_upto \in 0 .. MaxIndex
      /\ chosen \in Seq(Payload) /\ acked \in Entries
      /\ voted \in 0 .. MaxVote /\ faults \in 0 .. MaxFaults
  BY <1>i DEF Rest
<1>q. QED  BY <1>a, <1>b, <1>c, <1>d, <1>e, <1>f, <1>g, <1>h, <1>n DEF TypeOK

(* The empty store is well formed.                                         *)
LEMMA InitFormed == Init => Formed
<1> SUFFICES ASSUME Init PROVE Formed  OBVIOUS
<1> USE RaftStoreAssumption DEF RaftStoreAssumption
<1>n. chosen = <<>> /\ chosen \in Seq(Payload) /\ Len(chosen) = 0  BY DEF Init
<1>e. <<>> \in Entries
  <2>a. {} \in SUBSET Index /\ <<>> \in [{} -> Payload]  OBVIOUS
  <2>q. QED  BY <2>a, EntriesAre
<1>w. Whole(EmptyLog) /\ EmptyLog.committed = 0
  <2>a. EmptyLog \in LogState  BY <1>e DEF EmptyLog, LogState
  <2>b. HoldsTo(EmptyLog, 0)  BY DEF EmptyLog, HoldsTo
  <2>q. QED  BY <2>a, <2>b DEF Whole, EmptyLog
<1>x. ExactIn(chosen, EmptySm) /\ EmptySm.last_applied = 0 /\ LastIn(chosen, "Normal", 0) = 0
  <2>a. \A p : LastIn(chosen, p, 0) = 0  BY LastUnique
  <2>b. EmptySm = StateIn(chosen, 0)  BY <2>a DEF EmptySm, StateIn
  <2>q. QED  BY <1>n, <2>a, <2>b DEF ExactIn, EmptySm
<1>l. LogInv
  <2>a. log = EmptyLog /\ file.log = EmptyLog /\ disk.log = EmptyLog /\ log_op = Idle /\ ready = 0
    BY DEF Init
  <2>q. QED  BY <1>n, <1>w, <2>a, Places DEF LogInv
<1>s. SmInv
  <2>a. /\ sm = EmptySm /\ file.sm = EmptySm /\ disk.sm = EmptySm /\ sm_op = Idle
        /\ build = None /\ snapshot = None /\ shared = 0
    BY DEF Init
  <2>b. \E n \in 0 .. disk.sm.last_applied : shared = LastIn(chosen, "Normal", n)
    BY <1>x, <2>a
  <2>q. QED  BY <1>x, <2>a, <2>b, Places DEF SmInv
<1>r. Rest  BY <1>n, <1>e DEF Init, Rest
<1>q. QED  BY <1>l, <1>s, <1>r DEF Formed

-----------------------------------------------------------------------------
(* What every step keeps of the half it does not touch.                    *)
LEMMA LogFrame ==
  ASSUME LogInv,
         UNCHANGED <<log, log_op, ready, chosen>>,
         file'.log = file.log, disk'.log = disk.log,
         phase' = phase \/ phase' = "failed"
  PROVE  LogInv'
  BY DEF LogInv

(* The same for the state machine.                                         *)
LEMMA SmFrame ==
  ASSUME SmInv,
         UNCHANGED <<sm, snapshot, shared, sm_op, build, chosen>>,
         file'.sm = file.sm, disk'.sm = disk.sm,
         phase' = phase \/ phase' = "failed"
  PROVE  SmInv'
  BY DEF SmInv

(* A log operation that has changed the memory to a whole log.             *)
LEMMA BeginsFormed ==
  ASSUME Formed, NEW op \in {"vote", "committed", "append", "truncate", "purge"},
         NEW new, LogBegins(op, new), Whole(new), new.committed <= Len(chosen),
         acked' \in Entries
  PROVE  Formed'
<1>i. LogInv /\ SmInv /\ Rest  BY DEF Formed
<1>u. /\ log' = new /\ log_op' = AtRename(op)
      /\ UNCHANGED <<sm, snapshot, shared, file, disk, sm_op, build, phase, ready, purge_upto,
                     chosen, voted, faults>>
  BY DEF LogBegins, files, engine
<1>o. log_op' \in LogOp /\ log_op'.at = "rename"  BY <1>u DEF AtRename, LogOp
<1>l. LogInv'  BY <1>i, <1>u, <1>o, Places DEF LogInv
<1>s. SmInv'  BY <1>i, <1>u, SmFrame
<1>r. Rest'  BY <1>i, <1>u DEF Rest
<1>q. QED  BY <1>l, <1>s, <1>r DEF Formed

(* The five log operations, and the purge at the start, begin with one.    *)
LEMMA LogOpFormed ==
  ASSUME Formed,
         \/ \E v \in 1 .. MaxVote : save_vote(v)
         \/ \E c \in 1 .. Len(chosen) : save_committed(c)
         \/ \E entries \in Batches : append(entries)
         \/ \E i \in Index : truncate(i)
         \/ purge
         \/ StartPurge
  PROVE  Formed'
<1> USE RaftStoreAssumption DEF RaftStoreAssumption
<1>i. LogInv /\ SmInv /\ Rest  BY DEF Formed
<1>w. /\ Whole(log) /\ log.committed <= Len(chosen)
      /\ acked \in Entries /\ Len(chosen) \in Nat /\ Len(chosen) <= MaxIndex
  BY <1>i DEF LogInv, Rest
<1>vote. ASSUME NEW v \in 1 .. MaxVote, save_vote(v) PROVE Formed'
  <2> DEFINE new == [log EXCEPT !.vote = v]
  <2>a. LogBegins("vote", new) /\ acked' \in Entries  BY <1>w, <1>vote DEF save_vote
  <2>b. v \in 0 .. MaxVote  OBVIOUS
  <2>c. Whole(new) /\ new.committed = log.committed  BY <1>w, <2>b, FieldWhole
  <2>d. new.committed <= Len(chosen)  BY <1>w, <2>c
  <2> HIDE DEF new
  <2>q. QED  BY <2>a, <2>c, <2>d, BeginsFormed
<1>committed. ASSUME NEW c \in 1 .. Len(chosen), save_committed(c) PROVE Formed'
  <2> DEFINE new == [log EXCEPT !.committed = c]
  <2>a. LogBegins("committed", new) /\ acked' \in Entries  BY <1>w, <1>committed DEF save_committed
  <2>b. c \in 0 .. MaxIndex  BY <1>w
  <2>c. Whole(new) /\ new.committed = c  BY <1>w, <2>b, FieldWhole
  <2>d. new.committed <= Len(chosen)  BY <1>w, <2>c
  <2> HIDE DEF new
  <2>q. QED  BY <2>a, <2>c, <2>d, BeginsFormed
<1>append. ASSUME NEW entries \in Batches, append(entries) PROVE Formed'
  <2> DEFINE new == [log EXCEPT !.log = [i \in DOMAIN log.log \cup (LastLog + 1 .. LastLog + Len(entries)) |->
                                           IF i > LastLog THEN entries[i - LastLog] ELSE log.log[i]]]
  <2>a. LogBegins("append", new) /\ acked' \in Entries /\ LastLog + Len(entries) <= MaxIndex
    BY <1>w, <1>append DEF append
  <2>c. Whole(new) /\ new.committed = log.committed  BY <1>w, <2>a, AppendWhole
  <2>d. new.committed <= Len(chosen)  BY <1>w, <2>c
  <2> HIDE DEF new
  <2>q. QED  BY <2>a, <2>c, <2>d, BeginsFormed
<1>truncate. ASSUME NEW i \in Index, truncate(i) PROVE Formed'
  <2> DEFINE new == [log EXCEPT !.log = Restriction(log.log, 0 .. i - 1)]
  <2>a. LogBegins("truncate", new) /\ i \in DOMAIN log.log
    BY <1>truncate DEF truncate
  <2>b. acked' \in Entries
    <3>a. acked' = Restriction(acked, 0 .. i - 1)  BY <1>truncate DEF truncate
    <3>b. DOMAIN acked \subseteq Index /\ acked \in [DOMAIN acked -> Payload]  BY <1>w, EntriesSay
    <3> DEFINE D == DOMAIN acked \cap (0 .. i - 1)
    <3>c. D \in SUBSET Index /\ acked' \in [D -> Payload]  BY <3>a, <3>b DEF Restriction
    <3>q. QED  BY <3>c, EntriesAre
  <2>c. Whole(new) /\ new.committed = log.committed  BY <1>w, <2>a, TruncateWhole
  <2>d. new.committed <= Len(chosen)  BY <1>w, <2>c
  <2> HIDE DEF new
  <2>q. QED  BY <2>a, <2>b, <2>c, <2>d, BeginsFormed
<1>purged. ASSUME NEW p \in 0 .. MaxIndex, p >= log.last_purged, LogBegins("purge", Purged(p)),
                  UNCHANGED acked
           PROVE  Formed'
  <2>c. Whole(Purged(p)) /\ Purged(p).committed = log.committed  BY <1>w, <1>purged, PurgeWhole
  <2>d. Purged(p).committed <= Len(chosen)  BY <1>w, <2>c
  <2>q. QED  BY <1>w, <1>purged, <2>c, <2>d, BeginsFormed
<1>p. log.last_purged \in 0 .. MaxIndex /\ purge_upto \in 0 .. MaxIndex
  BY <1>i, <1>w, WholeSays DEF Rest
<1>purge. CASE purge
  <2>a. purge_upto >= log.last_purged  BY <1>p, <1>purge DEF purge
  <2>q. QED  BY <1>p, <1>purge, <1>purged, <2>a DEF purge
<1>start. CASE StartPurge
  <2>k. PICK k \in 0 .. MaxIndex : HoldsTo(log, k)  BY <1>w, WholeSays
  <2>l. LastLog = k /\ log.last_purged <= k  BY <1>w, <2>k, LastLogIs DEF HoldsTo
  <2>s. sm.last_applied \in 0 .. Len(chosen)  BY <1>i, Applied
  <2>a. sm.last_applied \in 0 .. MaxIndex /\ sm.last_applied >= log.last_purged
    BY <1>w, <1>p, <1>start, <2>k, <2>l, <2>s DEF StartPurge
  <2>q. QED  BY <1>start, <1>purged, <2>a DEF StartPurge
<1>q. QED  BY <1>vote, <1>committed, <1>append, <1>truncate, <1>purge, <1>start

(* The steps of atomic_write for the log.                                  *)
LEMMA LogWriteFormed ==
  ASSUME Formed, LogRename \/ LogDone \/ LogFails
  PROVE  Formed'
<1>i. LogInv /\ SmInv /\ Rest  BY DEF Formed
<1>rename. CASE LogRename
  <2>u. /\ file' = [file EXCEPT !.log = log] /\ log_op' = AtFsync(log_op.op) /\ log_op.at = "rename"
        /\ UNCHANGED <<log, sm, snapshot, shared, disk, sm_op, build, phase, ready, purge_upto,
                       chosen, acked, voted, faults>>
    BY <1>rename DEF LogRename, store, engine, promises
  <2>f. file' = [log |-> log, sm |-> file.sm]  BY <1>i, <2>u DEF Rest
  <2>g. file'.log = log /\ file'.sm = file.sm  BY <2>f
  <2>o. log_op' \in LogOp /\ log_op'.at = "fsync"
    <3>a. log_op \in LogOp  BY <1>i, <2>u, Places DEF LogInv
    <3>q. QED  BY <2>u, <3>a DEF LogOp, AtFsync
  <2>l. LogInv'  BY <1>i, <2>u, <2>g, <2>o, Places DEF LogInv
  <2>s. SmInv'  BY <1>i, <2>u, <2>g, SmFrame
  <2>r. Rest'  BY <1>i, <2>u, <2>f, <2>g DEF Rest
  <2>q. QED  BY <2>l, <2>s, <2>r DEF Formed
<1>done. CASE LogDone
  <2>u. /\ disk' = file /\ log_op' = Idle /\ log_op.at = "fsync"
        /\ voted' \in {voted, log.vote} /\ ready' \in {ready, log.committed}
        /\ UNCHANGED <<log, sm, snapshot, shared, file, sm_op, build, phase, purge_upto, chosen, faults>>
    BY <1>done DEF LogDone, DirFsync, store
  <2>w. /\ DOMAIN log.log \subseteq Index /\ log.log \in [DOMAIN log.log -> Payload]
        /\ log.vote \in 0 .. MaxVote /\ log.committed \in 0 .. MaxIndex
    BY <1>i, WholeSays DEF LogInv
  <2>l. LogInv'
    <3>a. ready' \in 0 .. Len(chosen)  BY <1>i, <2>u, <2>w DEF LogInv, Rest
    <3>b. file.log = log  BY <1>i, <2>u DEF LogInv
    <3>q. QED  BY <1>i, <2>u, <3>a, <3>b, Places DEF LogInv
  <2>s. SmInv'
    <3>a. /\ disk.sm.last_applied \in Nat /\ file.sm.last_applied \in Nat
          /\ disk.sm.last_applied <= file.sm.last_applied
      BY <1>i, Applied DEF SmInv
    <3>b. \E n \in 0 .. file.sm.last_applied : shared = LastIn(chosen, "Normal", n)
      BY <1>i, <3>a DEF SmInv
    <3>q. QED  BY <1>i, <2>u, <3>a, <3>b DEF SmInv
  <2>a. acked' \in Entries
    <3>e. DOMAIN acked \subseteq Index /\ acked \in [DOMAIN acked -> Payload]
      BY <1>i, EntriesSay DEF Rest
    <3> DEFINE D == DOMAIN acked \cup DOMAIN log.log
               f == [i \in D |-> IF i \in DOMAIN log.log THEN log.log[i] ELSE acked[i]]
    <3>a. D \in SUBSET Index /\ f \in [D -> Payload]  BY <2>w, <3>e
    <3>b. f \in Entries  BY <3>a, EntriesAre
    <3>q. QED  BY <1>done, <1>i, <3>b DEF LogDone, Rest
  <2>r. Rest'  BY <1>i, <2>u, <2>w, <2>a DEF Rest
  <2>q. QED  BY <2>l, <2>s, <2>r DEF Formed
<1>fails. CASE LogFails
  <2>u. /\ log_op' = Idle /\ phase' = "failed" /\ faults < MaxFaults /\ faults' = faults + 1
        /\ UNCHANGED <<log, sm, snapshot, shared, file, disk, sm_op, build, ready, purge_upto,
                       chosen, acked, voted>>
    BY <1>fails DEF LogFails, May, store, files, promises
  <2>l. LogInv'  BY <1>i, <2>u, Places DEF LogInv
  <2>s. SmInv'  BY <1>i, <2>u, SmFrame
  <2>r. Rest'  BY <1>i, <2>u, RaftStoreAssumption DEF Rest, RaftStoreAssumption
  <2>q. QED  BY <2>l, <2>s, <2>r DEF Formed
<1>q. QED  BY <1>rename, <1>done, <1>fails

(* The steps of atomic_write for the state machine.                        *)
LEMMA SmWriteFormed ==
  ASSUME Formed, SmRename \/ SmFsync \/ SmFails
  PROVE  Formed'
<1>i. LogInv /\ SmInv /\ Rest  BY DEF Formed
<1>n. /\ sm.last_applied \in Nat /\ file.sm.last_applied \in Nat /\ disk.sm.last_applied \in Nat
      /\ disk.sm.last_applied <= file.sm.last_applied /\ file.sm.last_applied <= sm.last_applied
  BY <1>i, Applied DEF SmInv
<1>rename. CASE SmRename
  <2>u. /\ file' = [file EXCEPT !.sm = sm] /\ sm_op' = AtFsync(sm_op.op) /\ sm_op.at = "rename"
        /\ UNCHANGED <<log, sm, snapshot, shared, disk, log_op, build, phase, ready, purge_upto,
                       chosen, acked, voted, faults>>
    BY <1>rename DEF SmRename, store, engine, promises
  <2>f. file' = [log |-> file.log, sm |-> sm]  BY <1>i, <2>u DEF Rest
  <2>g. file'.log = file.log /\ file'.sm = sm  BY <2>f
  <2>o. sm_op' \in SmOp /\ sm_op'.at = "fsync"
    <3>a. sm_op \in SmOp  BY <1>i, <2>u, Places DEF SmInv
    <3>q. QED  BY <2>u, <3>a DEF SmOp, AtFsync
  <2>l. LogInv'  BY <1>i, <2>u, <2>g, LogFrame
  <2>s. SmInv'  BY <1>i, <1>n, <2>u, <2>g, <2>o, Places DEF SmInv
  <2>r. Rest'  BY <1>i, <2>u, <2>f, <2>g DEF Rest
  <2>q. QED  BY <2>l, <2>s, <2>r DEF Formed
<1>fsync. CASE SmFsync
  <2>u. /\ disk' = file /\ sm_op' = [op |-> sm_op.op, at |-> "publish"] /\ sm_op.at = "fsync"
        /\ UNCHANGED <<log, sm, snapshot, shared, file, log_op, build, phase, ready, purge_upto,
                       chosen, acked, voted, faults>>
    BY <1>fsync DEF SmFsync, DirFsync, store, engine, promises
  <2>o. sm_op' \in SmOp /\ sm_op'.at = "publish" /\ file.sm = sm
    <3>a. sm_op \in SmOp  BY <1>i, <2>u, Places DEF SmInv
    <3>q. QED  BY <1>i, <2>u, <3>a DEF SmOp, SmInv
  <2>l. LogInv'  BY <1>i, <2>u DEF LogInv
  <2>b. \E n \in 0 .. file.sm.last_applied : shared = LastIn(chosen, "Normal", n)
    BY <1>i, <1>n DEF SmInv
  <2>s. SmInv'  BY <1>i, <1>n, <2>u, <2>o, <2>b, Places DEF SmInv
  <2>r. Rest'  BY <1>i, <2>u DEF Rest
  <2>q. QED  BY <2>l, <2>s, <2>r DEF Formed
<1>fails. CASE SmFails
  <2>u. /\ sm_op' = Idle /\ phase' = "failed" /\ faults < MaxFaults /\ faults' = faults + 1
        /\ UNCHANGED <<log, sm, snapshot, shared, file, disk, log_op, build, ready, purge_upto,
                       chosen, acked, voted>>
    BY <1>fails DEF SmFails, May, store, files, promises
  <2>l. LogInv'  BY <1>i, <2>u, LogFrame
  <2>s. SmInv'  BY <1>i, <2>u, Places DEF SmInv
  <2>r. Rest'  BY <1>i, <2>u, RaftStoreAssumption DEF Rest, RaftStoreAssumption
  <2>q. QED  BY <2>l, <2>s, <2>r DEF Formed
<1>q. QED  BY <1>rename, <1>fsync, <1>fails

(* The operations of the state machine.                                    *)
LEMMA SmOpFormed ==
  ASSUME Formed,
         \/ \E c \in 1 .. ready : apply(c)
         \/ \E s \in 1 .. Len(chosen) : install_snapshot(s)
         \/ SmDone
  PROVE  Formed'
<1>i. LogInv /\ SmInv /\ Rest  BY DEF Formed
<1>n. /\ sm.last_applied \in Nat /\ file.sm.last_applied \in Nat /\ disk.sm.last_applied \in Nat
      /\ disk.sm.last_applied <= file.sm.last_applied /\ file.sm.last_applied <= sm.last_applied
      /\ chosen \in Seq(Payload) /\ Len(chosen) \in Nat /\ Len(chosen) <= MaxIndex
      /\ ready \in 0 .. Len(chosen) /\ purge_upto \in 0 .. MaxIndex
      /\ sm.last_applied <= Len(chosen)
  BY <1>i, Applied DEF SmInv, Rest, LogInv
<1>begin. ASSUME NEW c \in 1 .. Len(chosen), c > sm.last_applied, sm' = StateIn(chosen, c),
                 snapshot' \in {snapshot, sm'}, NEW op \in {"apply", "decide", "install"},
                 sm_op' = AtRename(op),
                 UNCHANGED <<log, shared, file, disk, log_op, build, phase, ready, purge_upto,
                             chosen, acked, voted, faults>>
          PROVE  Formed'
  <2>a. ExactIn(chosen, sm') /\ sm'.last_applied = c
    BY <1>begin DEF ExactIn, StateIn
  <2>o. sm_op' \in SmOp /\ sm_op'.at = "rename"  BY <1>begin DEF AtRename, SmOp
  <2>l. LogInv'  BY <1>i, <1>begin, LogFrame
  <2>s. SmInv'  BY <1>i, <1>n, <1>begin, <2>a, <2>o, Places DEF SmInv
  <2>r. Rest'  BY <1>i, <1>begin DEF Rest
  <2>q. QED  BY <2>l, <2>s, <2>r DEF Formed
<1>apply. ASSUME NEW c \in 1 .. ready, apply(c) PROVE Formed'
  <2>a. c \in 1 .. Len(chosen) /\ c > sm.last_applied  BY <1>n, <1>apply DEF apply
  <2>b. sm' = StateIn(chosen, c)  BY <1>i, <1>n, <1>apply, <2>a, ApplyExact DEF apply, SmInv
  <2> DEFINE op == IF HasNormal(sm.last_applied + 1, c) THEN "decide" ELSE "apply"
  <2>c. op \in {"apply", "decide", "install"} /\ sm_op' = AtRename(op)  BY <1>apply DEF apply
  <2>u. UNCHANGED <<log, snapshot, shared, file, disk, log_op, build, phase, ready, purge_upto,
                    chosen, acked, voted, faults>>
    BY <1>apply DEF apply, files, engine, promises
  <2> HIDE DEF op
  <2>q. QED  BY <1>begin, <2>a, <2>b, <2>c, <2>u
<1>install. ASSUME NEW s \in 1 .. Len(chosen), install_snapshot(s) PROVE Formed'
  <2>a. s > sm.last_applied
    <3>a. log.committed \in Nat  BY <1>i, WholeSays DEF LogInv
    <3>q. QED  BY <1>n, <1>install, <3>a DEF install_snapshot, Committed, Larger
  <2>b. sm' = StateIn(chosen, s) /\ snapshot' = sm' /\ sm_op' = AtRename("install")
    BY <1>install, InChosen DEF install_snapshot
  <2>u. UNCHANGED <<log, shared, file, disk, log_op, build, phase, ready, purge_upto,
                    chosen, acked, voted, faults>>
    BY <1>install DEF install_snapshot, files, engine, promises
  <2>q. QED  BY <1>begin, <2>a, <2>b, <2>u
<1>done. CASE SmDone
  <2>u. /\ shared' \in {shared, sm.decision} /\ sm_op' = Idle /\ sm_op.at = "publish"
        /\ purge_upto' \in {purge_upto, Larger(purge_upto, sm.last_applied)}
        /\ UNCHANGED <<log, sm, snapshot, file, disk, log_op, build, phase, ready,
                       chosen, acked, voted, faults>>
    BY <1>done DEF SmDone, files, promises
  <2>d. disk.sm = sm /\ file.sm = sm /\ sm.decision = LastIn(chosen, "Normal", sm.last_applied)
    BY <1>i, <1>n, <2>u, ExactSays DEF SmInv
  <2>l. LogInv'  BY <1>i, <2>u, LogFrame
  <2>b. \E n \in 0 .. disk.sm.last_applied : shared' = LastIn(chosen, "Normal", n)
    <3>a. CASE shared' = shared  BY <1>i, <3>a DEF SmInv
    <3>b. CASE shared' = sm.decision  BY <1>n, <2>d, <3>b
    <3>q. QED  BY <2>u, <3>a, <3>b
  <2>s. SmInv'  BY <1>i, <2>u, <2>d, <2>b, Places DEF SmInv
  <2>p. purge_upto' \in 0 .. MaxIndex
    BY <1>n, <2>u, RaftStoreAssumption DEF Larger, RaftStoreAssumption
  <2>r. Rest'  BY <1>i, <2>u, <2>p DEF Rest
  <2>q. QED  BY <2>l, <2>s, <2>r DEF Formed
<1>q. QED  BY <1>apply, <1>install, <1>done

(* The snapshot builder, and the end of the start.                         *)
LEMMA BuildFormed ==
  ASSUME Formed, BuildRead \/ BuildDone \/ StartDone
  PROVE  Formed'
<1>i. LogInv /\ SmInv /\ Rest  BY DEF Formed
<1>read. CASE BuildRead
  <2>u. /\ build' = sm
        /\ UNCHANGED <<log, sm, snapshot, shared, file, disk, log_op, sm_op, phase, ready, purge_upto,
                       chosen, acked, voted, faults>>
    BY <1>read DEF BuildRead, store, files, engine, promises
  <2>l. LogInv'  BY <1>i, <2>u, LogFrame
  <2>s. SmInv'  BY <1>i, <2>u DEF SmInv
  <2>r. Rest'  BY <1>i, <2>u DEF Rest
  <2>q. QED  BY <2>l, <2>s, <2>r DEF Formed
<1>done. CASE BuildDone
  <2>u. /\ build # None /\ snapshot' = build /\ build' = None
        /\ purge_upto' = Larger(purge_upto, build.last_applied)
        /\ UNCHANGED <<log, sm, shared, file, disk, log_op, sm_op, phase, ready,
                       chosen, acked, voted, faults>>
    BY <1>done DEF BuildDone, files, promises
  <2>l. LogInv'  BY <1>i, <2>u, LogFrame
  <2>s. SmInv'  BY <1>i, <2>u DEF SmInv
  <2>b. build.last_applied \in 0 .. Len(chosen) /\ Len(chosen) \in Nat /\ Len(chosen) <= MaxIndex
    BY <1>i, <2>u, Applied DEF Rest
  <2>p. purge_upto' \in 0 .. MaxIndex
    BY <1>i, <2>u, <2>b, RaftStoreAssumption DEF Larger, RaftStoreAssumption, Rest
  <2>r. Rest'  BY <1>i, <2>u, <2>p DEF Rest
  <2>q. QED  BY <2>l, <2>s, <2>r DEF Formed
<1>start. CASE StartDone
  <2>u. /\ phase = "start" /\ phase' = "run" /\ snapshot' \in {sm, None}
        /\ log_op = Idle /\ sm_op = Idle
        /\ UNCHANGED <<log, sm, shared, file, disk, log_op, sm_op, build, ready, purge_upto,
                       chosen, acked, voted, faults>>
    BY <1>start DEF StartDone, files, ops, promises
  <2>l. LogInv'  BY <1>i, <2>u DEF LogInv
  <2>s. SmInv'  BY <1>i, <2>u DEF SmInv
  <2>r. Rest'  BY <1>i, <2>u DEF Rest
  <2>q. QED  BY <2>l, <2>s, <2>r DEF Formed
<1>q. QED  BY <1>read, <1>done, <1>start

(* Power loss leaves one of the files' generations, and memory follows it. *)
LEMMA CrashFormed ==
  ASSUME Formed, NEW l \in {file.log, disk.log}, NEW s \in {file.sm, disk.sm}, Crash(l, s)
  PROVE  Formed'
<1>i. LogInv /\ SmInv /\ Rest  BY DEF Formed
<1>u. /\ log' = l /\ sm' = s /\ shared' = s.decision /\ file' = [log |-> l, sm |-> s]
      /\ disk' = file' /\ snapshot' = None /\ log_op' = Idle /\ sm_op' = Idle /\ build' = None
      /\ phase' = "start" /\ ready' = l.committed /\ purge_upto' = l.last_purged
      /\ UNCHANGED <<chosen, acked, voted>>
  BY DEF Crash, Reopened, promises
<1>f. faults' \in 0 .. MaxFaults
  <2>a. \/ faults' = faults
        \/ faults < MaxFaults /\ faults' = faults + 1
    BY DEF Crash, May
  <2>q. QED  BY <1>i, <2>a, RaftStoreAssumption DEF Rest, RaftStoreAssumption
<1>w. /\ Whole(l) /\ l.committed \in Nat /\ l.committed <= Len(chosen)
      /\ l.last_purged \in 0 .. MaxIndex
  BY <1>i, WholeSays DEF LogInv
<1>n. Len(chosen) \in Nat  BY <1>i DEF Rest
<1>x. ExactIn(chosen, s)  BY <1>i DEF SmInv
<1>y. s.last_applied \in Nat /\ s.decision = LastIn(chosen, "Normal", s.last_applied)
  BY <1>n, <1>x, ExactSays
<1>g. file'.log = l /\ file'.sm = s /\ disk'.log = l /\ disk'.sm = s  BY <1>u
<1>l. LogInv'  BY <1>u, <1>w, <1>n, <1>g, Places DEF LogInv
<1>b. \E n \in 0 .. s.last_applied : shared' = LastIn(chosen, "Normal", n)  BY <1>u, <1>y
<1>s. SmInv'  BY <1>u, <1>x, <1>y, <1>g, <1>b, Places DEF SmInv
<1>r. Rest'  BY <1>i, <1>u, <1>f, <1>w, <1>g DEF Rest
<1>q. QED  BY <1>l, <1>s, <1>r DEF Formed

(* Another committed entry leaves the outcome of every prefix as it was.   *)
LEMMA ChooseFormed ==
  ASSUME Formed, NEW payload \in Payload, Choose(payload)
  PROVE  Formed'
<1>i. LogInv /\ SmInv /\ Rest  BY DEF Formed
<1>u. /\ Len(chosen) < MaxIndex /\ chosen' = Append(chosen, payload)
      /\ UNCHANGED <<log, sm, snapshot, shared, file, disk, log_op, sm_op, build, phase, ready,
                     purge_upto, acked, voted, faults>>
  BY DEF Choose, store, files, ops, engine, promises
<1>c. /\ chosen \in Seq(Payload) /\ Len(chosen) \in Nat
      /\ chosen' \in Seq(Payload) /\ Len(chosen') = Len(chosen) + 1
      /\ \A j \in 1 .. Len(chosen) : chosen[j] = chosen'[j]
  BY <1>i, <1>u DEF Rest
<1>x. \A t : ExactIn(chosen, t) => ExactIn(chosen', t)
  <2>a. Len(chosen') \in Nat /\ Len(chosen) <= Len(chosen')  BY <1>c
  <2>q. QED  BY <1>c, <2>a, ExactStays
<1>n. /\ log.committed \in Nat /\ file.log.committed \in Nat /\ disk.log.committed \in Nat
  BY <1>i, WholeSays DEF LogInv
<1>l. LogInv'  BY <1>i, <1>u, <1>c, <1>n DEF LogInv
<1>b. \E n \in 0 .. disk.sm.last_applied : shared = LastIn(chosen', "Normal", n)
  <2>a. PICK n \in 0 .. disk.sm.last_applied : shared = LastIn(chosen, "Normal", n)
    BY <1>i DEF SmInv
  <2>b. disk.sm.last_applied \in 0 .. Len(chosen)  BY <1>i, Applied
  <2>c. n \in Nat /\ \A j \in 1 .. n : chosen[j] = chosen'[j]  BY <1>c, <2>b
  <2>d. LastIn(chosen, "Normal", n) = LastIn(chosen', "Normal", n)  BY <2>c, LastStays
  <2>q. QED  BY <2>a, <2>d
<1>s. SmInv'  BY <1>i, <1>u, <1>x, <1>b DEF SmInv
<1>m. Len(chosen') <= MaxIndex  BY <1>u, <1>c, RaftStoreAssumption DEF RaftStoreAssumption
<1>r. Rest'  BY <1>i, <1>u, <1>c, <1>m DEF Rest
<1>q. QED  BY <1>l, <1>s, <1>r DEF Formed

(* Every step keeps the store well formed.                                 *)
LEMMA StepFormed == Formed /\ [Next]_vars => Formed'
<1> SUFFICES ASSUME Formed, [Next]_vars PROVE Formed'  OBVIOUS
<1>u. CASE UNCHANGED vars
  <2>a. UNCHANGED <<log, sm, snapshot, shared, file, disk, log_op, sm_op, build, phase, ready,
                    purge_upto, chosen, acked, voted, faults>>
    BY <1>u DEF vars, store, files, ops, engine, promises
  <2>q. QED  BY <2>a DEF Formed, LogInv, SmInv, Rest
<1>n. CASE Next
  <2>q. QED
    BY <1>n, LogOpFormed, LogWriteFormed, SmWriteFormed, SmOpFormed, BuildFormed, CrashFormed, ChooseFormed
    DEF Next, LogStep, SmStep
<1>q. QED  BY <1>u, <1>n

(* The store is well formed throughout: memory, the files and what power   *)
(* loss leaves of them.                                                    *)
THEOREM StoreFormed == Spec => []Formed
  BY InitFormed, StepFormed, PTL DEF Spec

(* Every step but three leaves alone what is known of the builder.         *)
LEMMA AheadStep ==
  ASSUME [Next]_vars
  PROVE  \/ ahead' = ahead
         \/ SmFsync \/ BuildRead
         \/ \E l \in {file.log, disk.log}, s \in {file.sm, disk.sm} : Crash(l, s)
  BY DEF Next, vars, LogStep, SmStep, save_vote, save_committed, append, truncate, purge, StartPurge,
         LogBegins, LogRename, LogDone, LogFails, SmRename, SmFails, apply, install_snapshot, SmDone,
         BuildDone, StartDone, Choose

(* Every operation of the store keeps its types, and no generation of the  *)
(* log keeps an entry at or below its last_purged.                         *)
THEOREM StoreTypes == Spec => []TypeOK
<1> DEFINE A == ahead \in {"no", "now", "lost"}
<1>a. Init => A  BY DEF Init
<1>b. A /\ [Next]_vars => A'
  <2> SUFFICES ASSUME A, [Next]_vars PROVE A'  OBVIOUS
  <2>q. QED  BY AheadStep DEF SmFsync, BuildRead, Crash
<1>c. Formed /\ A => TypeOK  BY FormedTypes
<1>q. QED  BY <1>a, <1>b, <1>c, StoreFormed, PTL DEF Spec

(* The decision the supervisor reads (SharedDecision) is the outcome of    *)
(* committed entries, and one a power loss never takes back: every file    *)
(* the store may come back with holds it or a later one.                   *)
THEOREM StorePublishes == Spec => []PublishedIsDurable
<1>a. Formed => PublishedIsDurable
  <2> SUFFICES ASSUME Formed PROVE PublishedIsDurable  OBVIOUS
  <2>i. LogInv /\ SmInv /\ Rest  BY DEF Formed
  <2>n. /\ Len(chosen) \in Nat /\ sm.last_applied \in Nat /\ disk.sm.last_applied \in Nat
        /\ file.sm.last_applied \in Nat
        /\ disk.sm.last_applied <= file.sm.last_applied /\ file.sm.last_applied <= sm.last_applied
    BY <2>i, Applied DEF SmInv
  <2>b. PICK n \in 0 .. disk.sm.last_applied : shared = LastIn(chosen, "Normal", n)
    BY <2>i DEF SmInv
  <2>c. ASSUME NEW s \in SmFiles PROVE s = StateAt(s.last_applied) /\ s.decision >= shared
    <3>a. ExactIn(chosen, s) /\ s.last_applied \in Nat /\ n <= s.last_applied /\ n \in Nat
      BY <2>i, <2>n DEF SmFiles, SmInv
    <3>b. s = StateIn(chosen, s.last_applied) /\ s.decision = LastIn(chosen, "Normal", s.last_applied)
      BY <2>n, <3>a, ExactSays
    <3>c. LastIn(chosen, "Normal", n) <= LastIn(chosen, "Normal", s.last_applied)
      BY <3>a, LastGrows
    <3>e. LastIn(chosen, "Normal", n) \in Nat /\ LastIn(chosen, "Normal", s.last_applied) \in Nat
      BY <3>a, LastExists
    <3>q. QED  BY <2>b, <3>b, <3>c, <3>e, InChosen
  <2>d. n \in 0 .. sm.last_applied /\ shared = StateAt(n).decision
    BY <2>n, <2>b, InChosen DEF StateIn
  <2>q. QED  BY <2>c, <2>d DEF PublishedIsDurable
<1>q. QED  BY <1>a, StoreFormed, PTL

-----------------------------------------------------------------------------
(* The second half: whichever generation of the log comes back, it has     *)
(* what the node has voted and covers the acknowledged entries a, together *)
(* with a state machine that has applied the entries up to d.              *)
Covers(l, a, d) ==
  /\ l.last_purged <= d
  /\ l.committed <= d \/ l.committed \in DOMAIN l.log
  /\ \A i \in DOMAIN a : (i \in DOMAIN l.log /\ l.log[i] = a[i]) \/ i <= d

Votes == log.vote >= voted /\ file.log.vote >= voted /\ disk.log.vote >= voted

(* A builder that has read what is not on disk may have the log purged up  *)
(* to there; that is the memory, which stays as it is until it is on disk  *)
(* or power is lost.                                                       *)
Reach == IF ahead = "now" THEN sm.last_applied ELSE disk.sm.last_applied
SafeTo(d) ==
  /\ Covers(log, acked, d)
  /\ Covers(file.log, acked, d)
  /\ Covers(disk.log, acked, d)
  /\ purge_upto <= d
  /\ build # None => build.last_applied <= d

Safe ==
  /\ Votes
  /\ ahead \in {"no", "now", "lost"}
  /\ ahead = "now" => sm_op.at \in {"rename", "fsync"} \/ phase = "failed"
  /\ ahead # "lost" => SafeTo(Reach)

(* A state machine that has applied more covers more.                      *)
LEMMA CoversGrows ==
  ASSUME NEW l, Whole(l), NEW a \in Entries, NEW d \in Nat, NEW e \in Nat, d <= e,
         Covers(l, a, d)
  PROVE  Covers(l, a, e)
<1>a. l.last_purged \in Nat /\ l.committed \in Nat  BY WholeSays
<1>b. \A i \in DOMAIN a : i \in Nat  BY EntriesSay DEF Index
<1>q. QED  BY <1>a, <1>b DEF Covers

(* What Safe says between two losses, by its parts.                        *)
LEMMA ReachIs ==
  ASSUME Formed
  PROVE  Reach \in Nat /\ disk.sm.last_applied <= Reach /\ Reach <= sm.last_applied
  BY Applied DEF Formed, SmInv, Reach

(* A log operation begins: only the log in memory changes.                 *)
LEMMA BeginsSafe ==
  ASSUME Safe, NEW op, NEW new, LogBegins(op, new), new.vote >= voted,
         ahead # "lost" => Covers(new, acked, Reach), UNCHANGED acked
  PROVE  Safe'
<1>u. log' = new /\ UNCHANGED <<sm, file, disk, sm_op, build, phase, purge_upto, voted, ahead>>
  BY DEF LogBegins, files, engine
<1>r. Reach' = Reach  BY <1>u DEF Reach
<1>q. QED  BY <1>u, <1>r DEF Safe, SafeTo, Votes

(* Every operation of the log keeps what is promised covered.              *)
LEMMA LogOpSafe ==
  ASSUME Formed, Safe,
         \/ \E v \in 1 .. MaxVote : save_vote(v)
         \/ \E c \in 1 .. Len(chosen) : save_committed(c)
         \/ \E entries \in Batches : append(entries)
         \/ \E i \in Index : truncate(i)
         \/ purge
         \/ StartPurge
  PROVE  Safe'
<1> USE RaftStoreAssumption DEF RaftStoreAssumption
<1> DEFINE d == Reach
<1>d. d \in Nat  BY ReachIs
<1> HIDE DEF d
<1>i. LogInv /\ SmInv /\ Rest  BY DEF Formed
<1>w. /\ Whole(log) /\ log \in LogState /\ log.last_purged \in 0 .. MaxIndex
      /\ log.vote \in 0 .. MaxVote /\ log.committed \in 0 .. MaxIndex
      /\ DOMAIN log.log \subseteq Index
  BY <1>i, WholeSays DEF LogInv
<1>n. /\ acked \in Entries /\ Len(chosen) \in Nat /\ Len(chosen) <= MaxIndex /\ voted \in 0 .. MaxVote
      /\ d \in Nat /\ sm.last_applied \in Nat /\ sm.last_applied <= Len(chosen)
  BY <1>d, <1>i, Applied DEF Rest
<1>c. /\ log.vote >= voted
      /\ ahead # "lost" => Covers(log, acked, d) /\ purge_upto <= d
  BY DEF Safe, SafeTo, Votes, d
<1>begins. ASSUME NEW op, NEW new, LogBegins(op, new), new.vote >= voted,
                  ahead # "lost" => Covers(new, acked, d), UNCHANGED acked
           PROVE  Safe'
  BY <1>begins, BeginsSafe DEF d
<1>m. \A i \in DOMAIN acked : i \in Nat  BY <1>n, EntriesSay DEF Index
<1>o. Committed \in Nat /\ log.committed <= Committed  BY <1>w, <1>n DEF Committed, Larger
<1>vote. ASSUME NEW v \in 1 .. MaxVote, save_vote(v) PROVE Safe'
  <2> DEFINE new == [log EXCEPT !.vote = v]
  <2>a. LogBegins("vote", new) /\ UNCHANGED acked /\ v > log.vote  BY <1>vote DEF save_vote
  <2>b. v \in 0 .. MaxVote  OBVIOUS
  <2>c. /\ new.vote = v /\ new.committed = log.committed /\ new.last_purged = log.last_purged
        /\ new.log = log.log
    BY <1>w DEF LogState
  <2>d. new.vote >= voted /\ (ahead # "lost" => Covers(new, acked, d))
    BY <1>w, <1>n, <1>c, <2>a, <2>c DEF Covers
  <2> HIDE DEF new
  <2>q. QED  BY <1>begins, <2>a, <2>d
<1>committed. ASSUME NEW c \in 1 .. Len(chosen), save_committed(c) PROVE Safe'
  <2> DEFINE new == [log EXCEPT !.committed = c]
  <2>a. LogBegins("committed", new) /\ UNCHANGED acked  BY <1>committed DEF save_committed
  <2>b. c \in Committed + 1 .. c  BY <1>o, <1>committed DEF save_committed
  <2>c. c \in DOMAIN log.log  BY <1>committed, <2>b DEF save_committed
  <2>e. /\ new.vote = log.vote /\ new.committed = c /\ new.last_purged = log.last_purged
        /\ new.log = log.log
    BY <1>w DEF LogState
  <2>d. new.vote >= voted /\ (ahead # "lost" => Covers(new, acked, d))
    BY <1>c, <2>a, <2>c, <2>e DEF Covers
  <2> HIDE DEF new
  <2>q. QED  BY <1>begins, <2>a, <2>d
<1>append. ASSUME NEW entries \in Batches, append(entries) PROVE Safe'
  <2> DEFINE new == [log EXCEPT !.log = [i \in DOMAIN log.log \cup (LastLog + 1 .. LastLog + Len(entries)) |->
                                           IF i > LastLog THEN entries[i - LastLog] ELSE log.log[i]]]
  <2>a. LogBegins("append", new) /\ UNCHANGED acked /\ LastLog + Len(entries) <= MaxIndex
    BY <1>append DEF append
  <2>c. /\ new.vote = log.vote /\ new.committed = log.committed /\ new.last_purged = log.last_purged
        /\ DOMAIN log.log \subseteq DOMAIN new.log
        /\ \A i \in DOMAIN log.log : new.log[i] = log.log[i]
    BY <1>w, <2>a, AppendWhole
  <2> HIDE DEF new
  <2>d. new.vote >= voted /\ (ahead # "lost" => Covers(new, acked, d))
    BY <1>c, <2>a, <2>c DEF Covers
  <2>q. QED  BY <1>begins, <2>a, <2>d
<1>truncate. ASSUME NEW i \in Index, truncate(i) PROVE Safe'
  <2> DEFINE new == [log EXCEPT !.log = Restriction(log.log, 0 .. i - 1)]
  <2>a. /\ LogBegins("truncate", new) /\ i \in DOMAIN log.log /\ i > Committed
        /\ acked' = Restriction(acked, 0 .. i - 1)
    BY <1>truncate DEF truncate
  <2>c. /\ new.vote = log.vote /\ new.committed = log.committed /\ new.last_purged = log.last_purged
        /\ \A j \in DOMAIN log.log : j < i => j \in DOMAIN new.log /\ new.log[j] = log.log[j]
    BY <1>w, <2>a, TruncateWhole
  <2> HIDE DEF new
  <2>i. i \in Int  BY DEF Index
  <2>e. \A j \in DOMAIN acked' : j \in DOMAIN acked /\ acked'[j] = acked[j] /\ j < i
    BY <1>m, <2>a, <2>i DEF Restriction
  <2>f. log.committed < i  BY <1>o, <1>w, <2>a, <2>i
  <2>h. log' = new /\ UNCHANGED <<sm, file, disk, sm_op, phase, build, purge_upto, voted, ahead>>
    BY <2>a DEF LogBegins, files, engine
  <2>r. Reach' = d  BY <2>h DEF Reach, d
  <2>d. ASSUME ahead # "lost" PROVE SafeTo(d)'
    <3>a. Covers(new, acked', d)  BY <1>c, <2>d, <2>c, <2>e, <2>f DEF Covers
    <3>b. Covers(file.log, acked', d) /\ Covers(disk.log, acked', d)
      BY <2>d, <2>e DEF Safe, SafeTo, Covers, d
    <3>c. purge_upto <= d /\ (build # None => build.last_applied <= d)
      BY <2>d DEF Safe, SafeTo, d
    <3>e. d' = d  BY <2>r DEF d
    <3>q. QED  BY <2>h, <3>a, <3>b, <3>c, <3>e DEF SafeTo
  <2>e1. d' = d  BY <2>r DEF d
  <2>v. Votes'  BY <1>c, <2>c, <2>h DEF Safe, Votes
  <2>q. QED  BY <2>d, <2>h, <2>r, <2>e1, <2>v DEF Safe
<1>purged. ASSUME NEW p \in 0 .. MaxIndex, p >= log.last_purged, ahead # "lost" => p <= d,
                  LogBegins("purge", Purged(p)), UNCHANGED acked
           PROVE  Safe'
  <2>c. /\ Purged(p).vote = log.vote /\ Purged(p).committed = log.committed
        /\ Purged(p).last_purged = p
        /\ \A j \in DOMAIN log.log :
             j > p => j \in DOMAIN Purged(p).log /\ Purged(p).log[j] = log.log[j]
    BY <1>w, <1>purged, PurgeWhole
  <2>e. ahead # "lost" => log.committed <= d \/ log.committed \in DOMAIN Purged(p).log
    BY <1>w, <1>n, <1>c, <1>purged, <2>c DEF Covers
  <2>f. ahead # "lost" => \A i \in DOMAIN acked :
          (i \in DOMAIN Purged(p).log /\ Purged(p).log[i] = acked[i]) \/ i <= d
    BY <1>n, <1>m, <1>c, <1>purged, <2>c DEF Covers
  <2>d. ahead # "lost" => Covers(Purged(p), acked, d)
    BY <1>c, <1>purged, <2>c, <2>e, <2>f DEF Covers
  <2>v. Purged(p).vote >= voted  BY <1>c, <2>c
  <2>q. QED  BY <1>purged, <1>begins, <2>d, <2>v
<1>purge. CASE purge
  <2>a. purge_upto \in 0 .. MaxIndex  BY <1>i DEF Rest
  <2>b. purge_upto >= log.last_purged  BY <1>w, <1>purge, <2>a DEF purge
  <2>q. QED  BY <1>purge, <1>purged, <1>c, <2>a, <2>b DEF purge
<1>start. CASE StartPurge
  <2>l. sm.last_applied > LastLog /\ LogBegins("purge", Purged(sm.last_applied)) /\ UNCHANGED acked
        /\ phase = "start" /\ sm_op = Idle
    BY <1>start DEF StartPurge
  <2>a. disk.sm = sm  BY <1>i, <2>l DEF SmInv
  <2>b. sm.last_applied \in 0 .. MaxIndex  BY <1>n
  <2>c. sm.last_applied >= log.last_purged
    <3>k. PICK k \in 0 .. MaxIndex : HoldsTo(log, k)  BY <1>w, WholeSays
    <3>a. LastLog \in Nat /\ LastLog >= log.last_purged  BY <1>w, <3>k, LastLogIs DEF HoldsTo
    <3>q. QED  BY <1>n, <1>w, <2>l, <3>a
  <2>e. sm.last_applied <= d  BY <1>n, <2>a DEF Reach, d
  <2>q. QED  BY <1>purged, <2>l, <2>b, <2>c, <2>e
<1>q. QED  BY <1>vote, <1>committed, <1>append, <1>truncate, <1>purge, <1>start

(* The steps of atomic_write: the files follow the memory.                 *)
LEMMA WriteSafe ==
  ASSUME Formed, Safe,
         LogRename \/ LogDone \/ LogFails \/ SmRename \/ SmFsync \/ SmFails
  PROVE  Safe'
<1> DEFINE d == Reach
           e == IF ahead = "now" THEN sm.last_applied ELSE file.sm.last_applied
<1>i. LogInv /\ SmInv /\ Rest  BY DEF Formed
<1>n. /\ d \in Nat /\ e \in Nat /\ d <= e /\ acked \in Entries
      /\ purge_upto \in Int /\ (build # None => build.last_applied \in Int)
  BY <1>i, Applied DEF SmInv, Rest, Reach
<1>w. Whole(log) /\ Whole(file.log) /\ Whole(disk.log)  BY <1>i DEF LogInv
<1>c. ASSUME ahead # "lost"
      PROVE  /\ Covers(log, acked, e) /\ Covers(file.log, acked, e)
             /\ purge_upto <= e /\ (build # None => build.last_applied <= e)
  <2>a. SafeTo(d)  BY <1>c DEF Safe
  <2> HIDE DEF d, e
  <2>q. QED  BY <1>n, <1>w, <2>a, CoversGrows DEF SafeTo
<1>v. Votes  BY DEF Safe
<1>rename. CASE LogRename
  <2>u. /\ file' = [file EXCEPT !.log = log]
        /\ UNCHANGED <<log, sm, disk, sm_op, build, phase, purge_upto, acked, voted, ahead>>
    BY <1>rename DEF LogRename, store, engine, promises
  <2>f. file'.log = log  BY <1>i, <2>u DEF Rest
  <2>r. Reach' = Reach  BY <2>u DEF Reach
  <2>q. QED  BY <2>u, <2>f, <2>r DEF Safe, SafeTo, Votes
<1>done. CASE LogDone
  <2>u. /\ disk' = file /\ UNCHANGED <<log, sm, file, sm_op, build, phase, purge_upto, ahead>>
        /\ log_op.at = "fsync"
        /\ voted' \in {voted, log.vote}
        /\ \/ acked' = acked
           \/ acked' = [i \in DOMAIN acked \cup DOMAIN log.log |->
                          IF i \in DOMAIN log.log THEN log.log[i] ELSE acked[i]]
    BY <1>done DEF LogDone, DirFsync, store
  <2>l. file.log = log  BY <1>i, <2>u DEF LogInv
  <2>v. log.vote >= voted'
    <3>a. log.vote \in Int  BY <1>w, WholeSays
    <3>q. QED  BY <1>v, <2>u, <3>a DEF Votes
  <2>r. Reach' = e  BY <2>u DEF Reach
  <2>c. ASSUME ahead # "lost" PROVE Covers(log, acked', e)
    <3>a. \A i \in DOMAIN acked' : (i \in DOMAIN log.log /\ log.log[i] = acked'[i]) \/ i <= e
      <4>a. CASE acked' = acked  BY <1>c, <2>c, <4>a DEF Covers
      <4>b. CASE acked' = [i \in DOMAIN acked \cup DOMAIN log.log |->
                             IF i \in DOMAIN log.log THEN log.log[i] ELSE acked[i]]
        BY <1>c, <2>c, <4>b DEF Covers
      <4>q. QED  BY <2>u, <4>a, <4>b
    <3>q. QED  BY <1>c, <2>c, <3>a DEF Covers
  <2> HIDE DEF e
  <2>q. QED  BY <1>c, <2>u, <2>l, <2>v, <2>r, <2>c DEF Safe, SafeTo, Votes
<1>fsync. CASE SmFsync
  <2>u. /\ disk' = file /\ UNCHANGED <<log, sm, file, build, phase, purge_upto, acked, voted>>
        /\ sm_op.at = "fsync" /\ ahead' = IF ahead = "now" THEN "no" ELSE ahead
    BY <1>fsync DEF SmFsync, DirFsync, store, engine, promises
  <2>s. file.sm = sm  BY <1>i, <2>u DEF SmInv
  <2>r. Reach' = e  BY <2>u, <2>s DEF Reach
  <2> HIDE DEF e
  <2>q. QED  BY <1>c, <1>v, <2>u, <2>r DEF Safe, SafeTo, Votes
<1>smrename. CASE SmRename
  <2>u. /\ file' = [file EXCEPT !.sm = sm] /\ sm_op'.at = "fsync"
        /\ UNCHANGED <<log, sm, disk, build, phase, purge_upto, acked, voted, ahead>>
    BY <1>smrename DEF SmRename, AtFsync, store, engine, promises
  <2>f. file'.log = file.log  BY <1>i, <2>u DEF Rest
  <2>r. Reach' = Reach  BY <2>u DEF Reach
  <2>q. QED  BY <2>u, <2>f, <2>r DEF Safe, SafeTo, Votes
<1>fails. CASE LogFails \/ SmFails
  <2>u. /\ phase' = "failed"
        /\ UNCHANGED <<log, sm, file, disk, build, purge_upto, acked, voted, ahead>>
    BY <1>fails DEF LogFails, SmFails, store, files, promises
  <2>r. Reach' = Reach  BY <2>u DEF Reach
  <2>q. QED  BY <2>u, <2>r DEF Safe, SafeTo, Votes
<1>q. QED  BY <1>rename, <1>done, <1>fsync, <1>smrename, <1>fails

(* The state machine and the builder: what openraft is told to purge is    *)
(* durable, or is the memory a persist is about to make durable.           *)
LEMMA SmSafe ==
  ASSUME Formed, Safe,
         \/ \E c \in 1 .. ready : apply(c)
         \/ \E s \in 1 .. Len(chosen) : install_snapshot(s)
         \/ SmDone \/ BuildRead \/ BuildDone \/ StartDone
         \/ \E payload \in Payload : Choose(payload)
  PROVE  Safe'
<1>i. LogInv /\ SmInv /\ Rest  BY DEF Formed
<1>n. /\ Reach \in Nat /\ sm.last_applied \in Nat /\ disk.sm.last_applied \in Nat
      /\ disk.sm.last_applied <= Reach /\ Reach <= sm.last_applied
      /\ purge_upto \in Int /\ (build # None => build.last_applied \in Int)
  BY <1>i, ReachIs, Applied DEF Rest, SmInv
<1>p. sm_op = Idle => sm_op.at \notin {"rename", "fsync"}  BY Places
<1>frame. ASSUME UNCHANGED <<log, file, disk, acked, voted, ahead, phase>>,
                 ahead = "now" => sm_op' = sm_op,
                 ahead # "lost" => /\ Reach' = Reach /\ purge_upto' <= Reach
                                   /\ build' # None => build'.last_applied <= Reach
          PROVE  Safe'
  BY <1>frame DEF Safe, SafeTo, Votes
<1>same. ASSUME \/ \E c \in 1 .. ready : apply(c)
                \/ \E s \in 1 .. Len(chosen) : install_snapshot(s)
         PROVE  Safe'
  <2>u. /\ UNCHANGED <<log, file, disk, acked, voted, purge_upto, build, ahead, phase>>
        /\ sm_op = Idle /\ phase # "failed"
    BY <1>same DEF apply, install_snapshot, store, files, ops, engine, promises
  <2>a. ahead # "now"  BY <1>p, <2>u DEF Safe
  <2>r. Reach' = Reach  BY <2>u, <2>a DEF Reach
  <2>q. QED  BY <1>frame, <2>u, <2>a, <2>r DEF Safe, SafeTo
<1>choose. ASSUME \E payload \in Payload : Choose(payload) PROVE Safe'
  <2>u. UNCHANGED <<log, sm, file, disk, acked, voted, purge_upto, build, ahead, sm_op, phase>>
    BY <1>choose DEF Choose, store, files, ops, engine, promises
  <2>r. Reach' = Reach  BY <2>u DEF Reach
  <2>q. QED  BY <1>frame, <2>u, <2>r DEF Safe, SafeTo
<1>started. CASE StartDone
  <2>u. /\ UNCHANGED <<log, sm, file, disk, acked, voted, purge_upto, build, ahead, sm_op>>
        /\ sm_op = Idle /\ phase = "start"
    BY <1>started DEF StartDone, files, ops, promises
  <2>a. ahead # "now"  BY <1>p, <2>u DEF Safe
  <2>r. Reach' = Reach  BY <2>u DEF Reach
  <2>q. QED  BY <2>u, <2>a, <2>r DEF Safe, SafeTo, Votes
<1>done. CASE SmDone
  <2>u. /\ UNCHANGED <<log, sm, file, disk, acked, voted, build, ahead, phase>> /\ sm_op.at = "publish"
        /\ purge_upto' \in {purge_upto, Larger(purge_upto, sm.last_applied)}
    BY <1>done DEF SmDone, files, promises
  <2>a. disk.sm = sm  BY <1>i, <2>u DEF SmInv
  <2>r. Reach' = Reach /\ Reach = sm.last_applied  BY <2>u, <2>a DEF Reach
  <2>b. ahead # "lost" => purge_upto' <= Reach  BY <1>n, <2>u, <2>r DEF Safe, SafeTo, Larger
  <2>c. ASSUME ahead = "now" PROVE phase = "failed"  BY <2>u, <2>c DEF Safe
  <2>q. QED  BY <2>u, <2>b, <2>c, <2>r DEF Safe, SafeTo, Votes
<1>read. CASE BuildRead
  <2>u. /\ UNCHANGED <<log, sm, file, disk, acked, voted, purge_upto, sm_op, phase>> /\ build' = sm
        /\ phase = "run"
        /\ ahead' = IF ahead = "no" /\ sm_op.at \in {"rename", "fsync"} THEN "now" ELSE ahead
    BY <1>read DEF BuildRead, store, files, engine, promises
  <2>w. Whole(log) /\ Whole(file.log) /\ Whole(disk.log) /\ acked \in Entries
    BY <1>i DEF LogInv, Rest
  <2>a. ahead # "lost" => Reach' = sm.last_applied
    <3>a. CASE sm_op.at \in {"rename", "fsync"}
      BY <2>u, <3>a DEF Reach, Safe
    <3>b. CASE sm_op.at \notin {"rename", "fsync"}
      <4>a. sm_op = Idle \/ sm_op.at = "publish"  BY <1>i, <3>b, Places DEF SmInv
      <4>b. disk.sm = sm  BY <1>i, <2>u, <4>a DEF SmInv
      <4>q. QED  BY <2>u, <4>b DEF Reach
    <3>q. QED  BY <3>a, <3>b
  <2>b. ASSUME ahead # "lost" PROVE SafeTo(sm.last_applied)
    <3>a. SafeTo(Reach)  BY <2>b DEF Safe
    <3>q. QED  BY <1>n, <2>w, <3>a, CoversGrows DEF SafeTo
  <2>q. QED  BY <1>n, <2>u, <2>a, <2>b DEF Safe, SafeTo, Votes
<1>build. CASE BuildDone
  <2>u. /\ UNCHANGED <<log, sm, file, disk, acked, voted, ahead, sm_op, phase>> /\ build' = None /\ build # None
        /\ purge_upto' = Larger(purge_upto, build.last_applied)
    BY <1>build DEF BuildDone, files, promises
  <2>r. Reach' = Reach  BY <2>u DEF Reach
  <2>b. ahead # "lost" => purge_upto' <= Reach  BY <2>u DEF Safe, SafeTo, Larger
  <2>q. QED  BY <1>frame, <2>u, <2>r, <2>b
<1>q. QED  BY <1>same, <1>choose, <1>started, <1>done, <1>read, <1>build

(* Power loss: memory and both files become one of the covered logs.       *)
LEMMA CrashSafe ==
  ASSUME Formed, Safe, NEW l \in {file.log, disk.log}, NEW s \in {file.sm, disk.sm}, Crash(l, s)
  PROVE  Safe'
<1>i. LogInv /\ SmInv /\ Rest  BY DEF Formed
<1>n. /\ disk.sm.last_applied \in Nat /\ s.last_applied \in Nat
      /\ disk.sm.last_applied <= s.last_applied /\ acked \in Entries
  BY <1>i, Applied DEF SmInv, Rest
<1>u. /\ log' = l /\ file' = [log |-> l, sm |-> s] /\ disk' = file' /\ build' = None
      /\ purge_upto' = l.last_purged /\ UNCHANGED <<acked, voted>>
      /\ ahead' = IF ahead = "now" THEN "lost" ELSE ahead
  BY DEF Crash, Reopened, promises
<1>g. file'.log = l /\ disk'.log = l /\ disk'.sm = s  BY <1>u
<1>v. Votes'  BY <1>u, <1>g DEF Safe, Votes
<1>c. ASSUME ahead' # "lost" PROVE SafeTo(Reach)'
  <2>a. ahead \notin {"now", "lost"} /\ Reach = disk.sm.last_applied /\ Reach' = s.last_applied
    BY <1>c, <1>u, <1>g DEF Safe, Reach
  <2>b. Whole(l) /\ Covers(l, acked, disk.sm.last_applied)
    BY <1>i, <2>a DEF LogInv, Safe, SafeTo
  <2>c. Covers(l, acked, s.last_applied)  BY <1>n, <2>b, CoversGrows
  <2>q. QED  BY <1>u, <1>g, <2>a, <2>c DEF SafeTo, Covers
<1>q. QED  BY <1>u, <1>v, <1>c DEF Safe

(* Nothing is promised at first.                                           *)
LEMMA InitSafe == Init => Safe
<1> SUFFICES ASSUME Init PROVE Safe  OBVIOUS
<1>a. /\ log = EmptyLog /\ file.log = EmptyLog /\ disk.log = EmptyLog /\ disk.sm = EmptySm
      /\ build = None /\ purge_upto = 0 /\ acked = <<>> /\ voted = 0 /\ ahead = "no"
  BY DEF Init
<1>b. Covers(EmptyLog, <<>>, 0) /\ EmptyLog.vote = 0  BY DEF Covers, EmptyLog
<1>c. Reach = 0  BY <1>a DEF Reach, EmptySm
<1>q. QED  BY <1>a, <1>b, <1>c DEF Safe, SafeTo, Votes

(* What is promised stays covered by the files, or by them and the memory  *)
(* a persist is about to make durable, unless power is lost in between.    *)
THEOREM StoreSafe == Spec => []Safe
<1>a. Formed /\ Safe /\ [Next]_vars => Safe'
  <2> SUFFICES ASSUME Formed, Safe, [Next]_vars PROVE Safe'  OBVIOUS
  <2>u. CASE UNCHANGED vars
    <3>a. UNCHANGED <<log, sm, file, disk, sm_op, phase, build, purge_upto, acked, voted, ahead>>
      BY <2>u DEF vars, store, files, ops, engine, promises
    <3>b. Reach' = Reach  BY <3>a DEF Reach
    <3>q. QED  BY <3>a, <3>b DEF Safe, SafeTo, Votes
  <2>n. CASE Next
    BY <2>n, LogOpSafe, WriteSafe, SmSafe, CrashSafe DEF Next, LogStep, SmStep
  <2>q. QED  BY <2>u, <2>n
<1>q. QED  BY <1>a, InitSafe, StoreFormed, PTL DEF Spec

(* A vote that save_vote has returned for survives whatever a power loss   *)
(* leaves, and so does an entry whose append has called back (LogFlushed), *)
(* as long as no builder has read a state that was not on disk.            *)
THEOREM StoreSurvives == Spec => []AcknowledgedSurvives
<1>a. Formed /\ Safe => AcknowledgedSurvives
  <2> SUFFICES ASSUME Formed, Safe, NEW l \in LogFiles
               PROVE  /\ l.vote >= voted
                      /\ ahead = "no" => \A s \in SmFiles, i \in DOMAIN acked :
                           (i \in DOMAIN l.log /\ l.log[i] = acked[i]) \/ i <= s.last_applied
    BY DEF AcknowledgedSurvives
  <2>i. LogInv /\ SmInv /\ Rest  BY DEF Formed
  <2>v. l.vote >= voted  BY DEF Safe, Votes, LogFiles
  <2>c. ahead = "no" => Covers(l, acked, disk.sm.last_applied)
    BY DEF Safe, SafeTo, Reach, LogFiles
  <2>n. \A s \in SmFiles : s.last_applied \in Nat /\ disk.sm.last_applied <= s.last_applied
    BY <2>i, Applied DEF SmFiles, SmInv
  <2>m. /\ disk.sm.last_applied \in Nat
        /\ \A i \in DOMAIN acked : i \in Nat
    BY <2>i, Applied, EntriesSay DEF Index, Rest
  <2>q. QED  BY <2>v, <2>c, <2>n, <2>m DEF Covers
<1>q. QED  BY <1>a, StoreFormed, StoreSafe, PTL

(* Whichever of the two files a power loss leaves, the state machine file  *)
(* reaches what the log file has purged, and the log file holds every      *)
(* committed entry the state machine file has yet to apply: from the       *)
(* moment what a builder has read is on disk, unless power is lost before. *)
THEOREM StoreFits == Spec => []FilesFit
<1>a. Formed /\ Safe => FilesFit
  <2> SUFFICES ASSUME Formed, Safe, ahead = "no", NEW l \in LogFiles, NEW s \in SmFiles
               PROVE  /\ l.last_purged <= s.last_applied
                      /\ s.last_applied + 1 .. l.committed \subseteq DOMAIN l.log
    BY DEF FilesFit
  <2> DEFINE d == disk.sm.last_applied
  <2>i. LogInv /\ SmInv /\ Rest  BY DEF Formed
  <2>c. Covers(l, acked, d)  BY DEF Safe, SafeTo, Reach, LogFiles
  <2>n. s.last_applied \in Nat /\ d \in Nat /\ d <= s.last_applied
    BY <2>i, Applied DEF SmFiles, SmInv
  <2>w. Whole(l)  BY <2>i DEF LogFiles, LogInv
  <2>x. l.last_purged \in Nat /\ l.committed \in Nat  BY <2>w, WholeSays
  <2>k. PICK k \in 0 .. MaxIndex : HoldsTo(l, k)  BY <2>w, WholeSays
  <2>a. l.last_purged <= s.last_applied  BY <2>c, <2>n, <2>x DEF Covers
  <2>b. ASSUME NEW i \in s.last_applied + 1 .. l.committed PROVE i \in DOMAIN l.log
    <3>a. i \in Int /\ s.last_applied < i /\ i <= l.committed  BY <2>n, <2>x
    <3>b. ~(l.committed <= d)  BY <2>n, <2>x, <3>a
    <3>c. l.committed \in DOMAIN l.log  BY <2>c, <3>b DEF Covers
    <3>d. k \in Int /\ l.committed <= k  BY <2>k, <3>c DEF HoldsTo
    <3>q. QED  BY <2>a, <2>n, <2>x, <2>k, <3>a, <3>d DEF HoldsTo
  <2>q. QED  BY <2>a, <2>b
<1>q. QED  BY <1>a, StoreFormed, StoreSafe, PTL
=============================================================================
