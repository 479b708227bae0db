----------------------------- MODULE Transport ------------------------------
(***************************************************************************)
(* rpc.rs between one Raft node and one of its peers: Connection.call with *)
(* its reused stream, its single retry on a fresh connection and its       *)
(* deadline, and the peer's connection tasks (handle_conn, dispatch_raft). *)
(*                                                                         *)
(* A request is a number. TCP keeps the order within a connection; what a  *)
(* dropped connection had delivered is still served by its task. openraft  *)
(* makes one call at a time and may drop it at any await.                  *)
(***************************************************************************)
EXTENDS Integers, Sequences

CONSTANT MaxCalls  \* bound on the calls

ASSUME TransportAssumption == MaxCalls \in Nat \ {0}

VARIABLES
  \* The client.
  phase,     \* what the call waits for: "idle", "reused", "connecting", "fresh"
  request,   \* the request of the last call
  stream,    \* the connection kept for the next call, or 0 (self.stream)
  current,   \* the connection the call uses, or 0
  results,   \* what the calls that succeeded returned: request and answer
  \* The connections.
  opened,    \* how many there have been
  sent,      \* requests under way to the peer, by connection
  back,      \* answers under way to the client
  broken,    \* connections that were reset or that the peer has closed
  serving,   \* the request each connection's task is executing, or 0
  executed   \* how often the peer's Raft node was given each request

client == <<phase, request, stream, current, results>>
vars == <<client, opened, sent, back, broken, serving, executed>>

-----------------------------------------------------------------------------
Request == 1 .. MaxCalls
Conn == 1 .. MaxCalls   \* a call opens at most one

Init ==
  /\ phase = "idle" /\ request = 0 /\ stream = 0 /\ current = 0 /\ results = <<>>
  /\ opened = 0
  /\ sent = [c \in Conn |-> <<>>] /\ back = [c \in Conn |-> <<>>]
  /\ broken = {} /\ serving = [c \in Conn |-> 0]
  /\ executed = [r \in Request |-> 0]

\* Mutant of Sent: another request than the call's.
SentOther(c, r) == [sent EXCEPT ![c] = Append(@, r + 1)]

\* write_frame on a connection that is gone fails, now or at the next read.
Sent(c, r) == IF c \in broken THEN sent ELSE [sent EXCEPT ![c] = Append(@, r)]

\* call takes the stream out of self before it uses it.
Call ==
  /\ phase = "idle"
  /\ request < MaxCalls
  /\ request' = request + 1
  /\ phase' = IF stream # 0 THEN "reused" ELSE "connecting"
  /\ current' = stream
  /\ stream' = 0
  /\ sent' = IF stream # 0 THEN Sent(stream, request') ELSE sent
  /\ UNCHANGED <<results, opened, back, broken, serving, executed>>

Connect ==
  /\ phase = "connecting"
  /\ opened' = opened + 1
  /\ current' = opened'
  /\ phase' = "fresh"
  /\ sent' = Sent(opened', request)
  /\ UNCHANGED <<request, stream, results, back, broken, serving, executed>>

Receive ==
  /\ phase \in {"reused", "fresh"}
  /\ back[current] # <<>>
  /\ results' = Append(results, [request |-> request, answer |-> Head(back[current])])
  /\ back' = [back EXCEPT ![current] = Tail(@)]
  /\ stream' = current
  /\ current' = 0
  /\ phase' = "idle"
  /\ UNCHANGED <<request, opened, sent, broken, serving, executed>>

\* Mutant of StreamAfterFailure: the connection is put back.
StreamAfterFailureKept == current

StreamAfterFailure == 0

\* Mutant of AfterFailure: every failed exchange is tried again.
AfterFailureAlways == "connecting"

AfterFailure == IF phase = "reused" THEN "connecting" ELSE "idle"

Fail ==
  /\ phase \in {"reused", "fresh"}
  /\ current \in broken /\ back[current] = <<>>
  /\ phase' = AfterFailure
  /\ current' = 0
  /\ stream' = StreamAfterFailure
  /\ UNCHANGED <<request, results, opened, sent, back, broken, serving, executed>>

\* The peer cannot be reached, the deadline is over, or openraft drops the
\* call: it ends without an answer.
GiveUp ==
  /\ phase # "idle"
  /\ phase' = "idle"
  /\ current' = 0
  /\ stream' = StreamAfterFailure
  /\ UNCHANGED <<request, results, opened, sent, back, broken, serving, executed>>

-----------------------------------------------------------------------------
(* The peer: one task per connection, one request at a time.               *)

Dispatch(c) ==
  /\ serving[c] = 0 /\ sent[c] # <<>>
  /\ sent' = [sent EXCEPT ![c] = Tail(@)]
  /\ serving' = [serving EXCEPT ![c] = Head(sent[c])]
  /\ executed' = [executed EXCEPT ![Head(sent[c])] = @ + 1]
  /\ UNCHANGED <<client, opened, back, broken>>

Answer(c) ==
  /\ serving[c] # 0
  /\ back' = IF c \in broken THEN back ELSE [back EXCEPT ![c] = Append(@, serving[c])]
  /\ serving' = [serving EXCEPT ![c] = 0]
  /\ UNCHANGED <<client, opened, sent, broken, executed>>

\* The Raft node has not started yet, or the frame is not one it knows.
Refuse(c) ==
  /\ serving[c] = 0 /\ sent[c] # <<>>
  /\ broken' = broken \cup {c}
  /\ sent' = [sent EXCEPT ![c] = <<>>]
  /\ UNCHANGED <<client, opened, back, serving, executed>>

\* The network, or the peer going down, resets a connection.
Reset(c) ==
  /\ c \in 1 .. opened \ broken
  /\ broken' = broken \cup {c}
  /\ sent' = [sent EXCEPT ![c] = <<>>]
  /\ back' = [back EXCEPT ![c] = <<>>]
  /\ UNCHANGED <<client, opened, serving, executed>>

Next ==
  \/ Call \/ Connect \/ Receive \/ Fail \/ GiveUp
  \/ \E c \in Conn : Dispatch(c) \/ Answer(c) \/ Refuse(c) \/ Reset(c)

Spec == Init /\ [][Next]_vars

-----------------------------------------------------------------------------
(* Every variable keeps its type.                                          *)
TypeOK ==
  /\ phase \in {"idle", "reused", "connecting", "fresh"}
  /\ request \in 0 .. MaxCalls
  /\ {stream, current, opened} \subseteq 0 .. MaxCalls
  /\ results \in Seq([request : Request, answer : Request])
  /\ sent \in [Conn -> Seq(Request)] /\ back \in [Conn -> Seq(Request)]
  /\ broken \subseteq Conn
  /\ serving \in [Conn -> 0 .. MaxCalls]
  /\ executed \in [Request -> Nat]

(* A call returns the answer to its own request, although frames carry no  *)
(* number: a stream on which an answer is outstanding is never used again, *)
(* also when the call was dropped half way.                                *)
AnswersMatch == \A i \in DOMAIN results : results[i].answer = results[i].request

(* What makes it so: the stream that is kept has nothing under way, and    *)
(* the one in use at most the request of the call.                         *)
Outstanding(c) == sent[c] \o (IF serving[c] = 0 THEN <<>> ELSE <<serving[c]>>) \o back[c]
StreamIsClean ==
  /\ stream # 0 => Outstanding(stream) = <<>>
  /\ current # 0 => Outstanding(current) \in {<<>>, <<request>>}

(* A retry may execute a request again, but no more than once: the peer's  *)
(* Raft node sees every request at most twice.                             *)
AtMostTwice == \A r \in Request : executed[r] <= 2
=============================================================================
