------------------------------- MODULE Gossip -------------------------------
(***************************************************************************)
(* Gossip from some senders to one node: broadcast into the queue of each  *)
(* peer's task, the task that sends only the newest frame and forgets a    *)
(* connection that failed (spawn_gossip_sender), the receiving tasks with  *)
(* their filter (handle_conn), and the worker that drains the channel.     *)
(*                                                                         *)
(* A connection keeps the order of its frames; one that the sender has     *)
(* given up may still deliver what was written to it, after newer frames.  *)
(***************************************************************************)
EXTENDS Integers, Sequences, SequencesExt

CONSTANTS
  Senders,   \* who sends
  Voters,    \* the members of the cluster
  Width,     \* length of each sender's payload; encode_gossip makes 18 bytes
  MaxSeq,    \* bound on the decisions each sender hears of
  MaxQueue   \* bound on its frames in a queue, a channel or a connection

ASSUME GossipAssumption ==
  /\ Width \in [Senders -> Nat]
  /\ MaxSeq \in [Senders -> Nat] /\ MaxQueue \in [Senders -> Nat \ {0}]

VARIABLES
  seq,       \* the sender's decision
  queue,     \* frames broadcast and not taken by the sending task
  taken,     \* the frame the task is sending, or NoFrame
  conn,      \* frames under way on its connection, or NoConn
  late,      \* frames under way on connections it has given up
  up,        \* is the network up
  inbox,     \* frames the worker has not read
  heard,     \* whom the worker has heard from (last_heard)
  view,      \* what it last read of the sender's state (peers_lsn, peers_reconfirm)
  known      \* the worker's peers_seq

vars == <<seq, queue, taken, conn, late, up, inbox, heard, view, known>>
sender == <<seq, queue, taken>>
receiver == <<inbox, heard, view, known>>

-----------------------------------------------------------------------------
NoFrame == [from |-> 0, len |-> 0, seq |-> 0]
NoConn == [open |-> FALSE, dead |-> FALSE, frames |-> <<>>]
Nothing == -1
Fresh == [open |-> TRUE, dead |-> FALSE, frames |-> <<>>]

Init ==
  /\ seq = [s \in Senders |-> 0]
  /\ queue = [s \in Senders |-> <<>>]
  /\ taken = [s \in Senders |-> NoFrame]
  /\ conn = [s \in Senders |-> NoConn]
  /\ late = [s \in Senders |-> <<>>]
  /\ up = TRUE
  /\ inbox = <<>> /\ heard = {} /\ known = [s \in Senders |-> 0]
  /\ view = [s \in Senders |-> Nothing]

\* The sender adopts a decision.
Adopt(s) ==
  /\ seq[s] < MaxSeq[s]
  /\ seq' = [seq EXCEPT ![s] = @ + 1]
  /\ UNCHANGED <<queue, taken, conn, late, up, receiver>>

Broadcast(s) ==
  /\ Len(queue[s]) < MaxQueue[s]
  /\ queue' = [queue EXCEPT ![s] = Append(@, [from |-> s, len |-> Width[s], seq |-> seq[s]])]
  /\ UNCHANGED <<seq, taken, conn, late, up, receiver>>

-----------------------------------------------------------------------------
(* The sending task.                                                       *)

Take(s) ==
  /\ taken[s] = NoFrame
  /\ queue[s] # <<>>
  /\ taken' = [taken EXCEPT ![s] = Last(queue[s])]
  /\ queue' = [queue EXCEPT ![s] = <<>>]
  /\ UNCHANGED <<seq, conn, late, up, receiver>>

\* Without a connection the frame is lost.
Connect(s) ==
  /\ taken[s] # NoFrame
  /\ ~conn[s].open
  /\ \/ /\ up
        /\ conn' = [conn EXCEPT ![s] = Fresh]
        /\ UNCHANGED taken
     \/ /\ ~up
        /\ taken' = [taken EXCEPT ![s] = NoFrame]
        /\ UNCHANGED conn
  /\ UNCHANGED <<seq, queue, late, up, receiver>>

Write(s) ==
  /\ taken[s] # NoFrame
  /\ up /\ conn[s].open /\ ~conn[s].dead
  /\ Len(conn[s].frames) < MaxQueue[s]
  /\ conn' = [conn EXCEPT ![s].frames = Append(@, taken[s])]
  /\ taken' = [taken EXCEPT ![s] = NoFrame]
  /\ UNCHANGED <<seq, queue, late, up, receiver>>

\* Mutant of AfterFailure: the connection is used again.
AfterFailureKept(s) == [conn[s] EXCEPT !.frames = <<>>]

AfterFailure(s) == NoConn

\* GOSSIP_SEND_TIMEOUT, or an error: what was written may arrive later.
WriteFails(s) ==
  /\ taken[s] # NoFrame
  /\ conn[s].open /\ (conn[s].dead \/ ~up)
  /\ late' = [late EXCEPT ![s] = IF @ = <<>> THEN conn[s].frames ELSE @]
  /\ conn' = [conn EXCEPT ![s] = AfterFailure(s)]
  /\ taken' = [taken EXCEPT ![s] = NoFrame]
  /\ UNCHANGED <<seq, queue, up, receiver>>

-----------------------------------------------------------------------------
(* The receiving node.                                                     *)

\* Mutant of Accepted: whoever connects is listened to.
AcceptedAll(frame) == TRUE

Accepted(frame) == frame.from \in Voters

Channel(frame) == IF Accepted(frame) THEN Append(inbox, frame) ELSE inbox

Deliver(s) ==
  /\ up /\ conn[s].frames # <<>>
  /\ Len(inbox) < MaxQueue[s]
  /\ inbox' = Channel(Head(conn[s].frames))
  /\ conn' = [conn EXCEPT ![s].frames = Tail(@)]
  /\ UNCHANGED <<sender, late, up, heard, view, known>>

DeliverLate(s) ==
  /\ up /\ late[s] # <<>>
  /\ Len(inbox) < MaxQueue[s]
  /\ inbox' = Channel(Head(late[s]))
  /\ late' = [late EXCEPT ![s] = Tail(@)]
  /\ UNCHANGED <<sender, conn, up, heard, view, known>>

\* Somebody else connects to the port and sends a frame of the same kind.
Intrude(s) ==
  /\ up
  /\ Len(inbox) < MaxQueue[s]
  /\ \E k \in 0 .. MaxSeq[s] : inbox' = Channel([from |-> s, len |-> Width[s], seq |-> k])
  /\ UNCHANGED <<sender, conn, late, up, heard, view, known>>

\* decode_gossip: too short for an LSN and a role, nothing; too short for a
\* sequence number, 0.
Decodes(frame) == frame.len >= 9
DecodedSeq(frame) == IF frame.len >= 18 THEN frame.seq ELSE 0

KnownAfter(frame) ==
  IF Decodes(frame) /\ DecodedSeq(frame) > known[frame.from]
    THEN DecodedSeq(frame) ELSE known[frame.from]

\* Mutant of ViewAfter: an entry that is there is kept.
ViewAfterKept(frame) ==
  IF Decodes(frame) /\ view[frame.from] = Nothing THEN frame.seq ELSE view[frame.from]

\* Position, role and request are taken from whatever frame is read last. The
\* frame's seq stands here for all that it says of its sender.
ViewAfter(frame) == IF Decodes(frame) THEN frame.seq ELSE view[frame.from]

Drain ==
  /\ inbox # <<>>
  /\ inbox' = Tail(inbox)
  /\ heard' = heard \cup {Head(inbox).from}
  /\ view' = [view EXCEPT ![Head(inbox).from] = ViewAfter(Head(inbox))]
  /\ known' = [known EXCEPT ![Head(inbox).from] = KnownAfter(Head(inbox))]
  /\ UNCHANGED <<sender, conn, late, up>>

-----------------------------------------------------------------------------
\* The network. A reset loses what is under way, and the connection with it.
Switch ==
  /\ up' = ~up
  /\ UNCHANGED <<sender, conn, late, receiver>>

Reset(s) ==
  /\ ~up
  /\ conn[s].open \/ late[s] # <<>>
  /\ conn' = [conn EXCEPT ![s].frames = <<>>, ![s].dead = conn[s].open]
  /\ late' = [late EXCEPT ![s] = <<>>]
  /\ UNCHANGED <<sender, up, receiver>>

Next ==
  \/ \E s \in Senders \cap Voters :
       \/ Adopt(s) \/ Broadcast(s) \/ Take(s) \/ Connect(s) \/ Write(s)
       \/ WriteFails(s) \/ Deliver(s) \/ DeliverLate(s) \/ Reset(s)
  \/ \E s \in Senders \ Voters : Intrude(s)
  \/ Drain
  \/ Switch

\* Workers broadcast every 500 ms and drain in every pass; tasks
\* run. Nothing is assumed of who is not a voter.
Fairness ==
  /\ WF_vars(Drain)
  /\ \A s \in Senders \cap Voters :
       /\ WF_vars(Broadcast(s)) /\ WF_vars(Take(s)) /\ WF_vars(Connect(s))
       /\ WF_vars(Write(s)) /\ WF_vars(WriteFails(s))
       /\ SF_vars(Deliver(s)) /\ SF_vars(DeliverLate(s))

Spec == Init /\ [][Next]_vars
FairSpec == Spec /\ Fairness

-----------------------------------------------------------------------------
(* Every variable keeps its type, and nobody outside the cluster is heard. *)
Frames == [from : Senders, len : Nat, seq : Nat]
TypeOK ==
  /\ seq \in [Senders -> Nat] /\ known \in [Senders -> Nat]
  /\ view \in [Senders -> Nat \cup {Nothing}]
  /\ queue \in [Senders -> Seq(Frames)] /\ late \in [Senders -> Seq(Frames)]
  /\ taken \in [Senders -> Frames \cup {NoFrame}]
  /\ conn \in [Senders -> [open : BOOLEAN, dead : BOOLEAN, frames : Seq(Frames)]]
  /\ up \in BOOLEAN
  /\ inbox \in Seq({f \in Frames : f.from \in Voters})
  /\ heard \subseteq Senders \cap Voters

(* A frame that was written to a connection the sender has given up may be *)
(* read after newer ones and take back the position, the role and the      *)
(* request they carried. Once the network stays up and the sender's state  *)
(* no longer changes, that ends: the view becomes that state for good.     *)
ViewSettles ==
  <>[]up => \A s \in Senders \cap Voters : \A k \in 0 .. MaxSeq[s] :
              Width[s] >= 9 => (<>[](seq[s] = k) => <>[](view[s] = k))

(* Once the network stays up, a decision a sender knows of becomes known   *)
(* to the receiver, although frames are dropped and coalesced on the way.  *)
NewestArrives ==
  <>[]up => \A s \in Senders \cap Voters : \A k \in 1 .. MaxSeq[s] :
              Width[s] >= 18 => (seq[s] >= k ~> known[s] >= k)
=============================================================================
