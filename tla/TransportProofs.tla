-------------------------- MODULE TransportProofs ---------------------------
(***************************************************************************)
(* For every number of calls: a call never returns the answer to another   *)
(* request. The stream kept for the next call is silent, the one in use    *)
(* carries at most this call's request or its answer, and connections not  *)
(* yet opened carry nothing. And for the gossip of the same file (rpc.rs): *)
(* only voters are heard, and what is known of them is not taken back.     *)
(***************************************************************************)
EXTENDS Transport, FiniteSetTheorems, SequenceTheorems, TLAPS

Silent(c) == sent[c] = <<>> /\ serving[c] = 0 /\ back[c] = <<>>

Carries(c, r) ==
  \/ sent[c] = <<r>> /\ serving[c] = 0 /\ back[c] = <<>>
  \/ sent[c] = <<>> /\ serving[c] = r /\ back[c] = <<>>
  \/ sent[c] = <<>> /\ serving[c] = 0 /\ back[c] = <<r>>

\* A call opens at most one connection, and uses or keeps an opened one.
Opening ==
  /\ opened <= request
  /\ phase \in {"reused", "connecting"} => opened < request
  /\ phase # "idle" => request \in Request /\ stream = 0
  /\ stream <= opened /\ current <= opened
  /\ phase \in {"reused", "fresh"} => current # 0
  /\ phase \in {"idle", "connecting"} => current = 0

Unopened == \A c \in Conn : c > opened => Silent(c) /\ c \notin broken

Clean ==
  /\ stream # 0 => Silent(stream)
  /\ current # 0 => Silent(current) \/ Carries(current, request)

Inv == TypeOK /\ Opening /\ Unopened /\ Clean /\ AnswersMatch

-----------------------------------------------------------------------------
(* Sequences of one element.                                               *)
LEMMA OneElement ==
  ASSUME NEW x
  PROVE  /\ Append(<<>>, x) = <<x>>
         /\ Head(<<x>>) = x
         /\ Tail(<<x>>) = <<>>
         /\ <<x>> # <<>>
  OBVIOUS

(* A nonempty sequence has a head and a tail of its type.                  *)
LEMMA Parts ==
  ASSUME NEW S, NEW s \in Seq(S), s # <<>>
  PROVE  Head(s) \in S /\ Tail(s) \in Seq(S)
  BY HeadTailProperties

(* Joining sequences of which at most one is not empty.                    *)
LEMMA Joined ==
  ASSUME NEW S, NEW x \in S
  PROVE  /\ <<>> \o <<>> = <<>>
         /\ <<x>> \o <<>> = <<x>>
         /\ <<>> \o <<x>> = <<x>>
<1>a. <<>> \in Seq(S) /\ <<x>> \in Seq(S)  OBVIOUS
<1>b. \A s \in Seq(S) : s \o <<>> = s /\ <<>> \o s = s  BY ConcatEmptySeq
<1>q. QED  BY <1>a, <1>b

(* What is under way on a connection, told by its three places.            *)
LEMMA Outstandings ==
  ASSUME NEW c, NEW r \in Request
  PROVE  /\ Silent(c) => Outstanding(c) = <<>>
         /\ Carries(c, r) => Outstanding(c) \in {<<>>, <<r>>}
<1>j. /\ <<>> \o <<>> = <<>> /\ <<r>> \o <<>> = <<r>> /\ <<>> \o <<r>> = <<r>>
  BY Joined
<1>s. ASSUME Silent(c) PROVE Outstanding(c) = <<>>
  BY <1>j, <1>s, Zenon DEF Silent, Outstanding
<1>k. ASSUME sent[c] = <<r>>, serving[c] = 0, back[c] = <<>> PROVE Outstanding(c) = <<r>>
  BY <1>j, <1>k, Zenon DEF Outstanding
<1>l. ASSUME sent[c] = <<>>, serving[c] = r, back[c] = <<>> PROVE Outstanding(c) = <<r>>
  <2>n. r # 0  BY DEF Request
  <2>q. QED  BY <1>j, <1>l, <2>n, Zenon DEF Outstanding
<1>m. ASSUME sent[c] = <<>>, serving[c] = 0, back[c] = <<r>> PROVE Outstanding(c) = <<r>>
  BY <1>j, <1>m, Zenon DEF Outstanding
<1>q. QED  BY <1>s, <1>k, <1>l, <1>m, Zenon DEF Carries

-----------------------------------------------------------------------------
(* The initial state: nothing is open and nothing is under way.            *)
LEMMA InitInv == Init => Inv
<1> SUFFICES ASSUME Init PROVE Inv  OBVIOUS
<1>t. TypeOK  BY TransportAssumption DEF Init, TypeOK, TransportAssumption, Conn, Request
<1>o. Opening  BY DEF Init, Opening
<1>u. Unopened  BY DEF Init, Unopened, Silent
<1>c. Clean  BY DEF Init, Clean
<1>a. AnswersMatch  BY DEF Init, AnswersMatch
<1>q. QED  BY <1>t, <1>o, <1>u, <1>c, <1>a DEF Inv

(* A call begins: it sends on the stream that was kept, which is silent.   *)
LEMMA CallInv == Inv /\ Call => Inv'
<1> SUFFICES ASSUME Inv, Call PROVE Inv'  OBVIOUS
<1> USE TransportAssumption DEF TransportAssumption
<1>i. TypeOK /\ Opening /\ Unopened /\ Clean /\ AnswersMatch  BY DEF Inv
<1>r. request' \in Request /\ request' = request + 1 /\ request \in Nat
  BY <1>i DEF Call, TypeOK, Request
<1>s. stream # 0 => stream \in Conn  BY <1>i DEF TypeOK, Conn
<1>t. TypeOK'
  <2>a. sent' \in [Conn -> Seq(Request)]
    BY <1>i, <1>r, <1>s DEF Call, TypeOK, Sent
  <2>q. QED  BY <1>i, <1>r, <2>a DEF Call, TypeOK, Request
<1>o. Opening'  BY <1>i, <1>r DEF Call, TypeOK, Opening
<1>u. Unopened'
  <2> SUFFICES ASSUME NEW c \in Conn, c > opened PROVE Silent(c)' /\ c \notin broken'
    BY DEF Call, Unopened
  <2>a. Silent(c) /\ c \notin broken  BY <1>i DEF Unopened
  <2>b. c # stream  BY <1>i DEF Opening, TypeOK, Conn
  <2>q. QED  BY <1>i, <2>a, <2>b DEF Call, Silent, Sent, TypeOK
<1>c. Clean'
  <2> SUFFICES ASSUME NEW c \in Conn, c = stream PROVE Silent(c)' \/ Carries(c, request)'
    <3>a. stream' = 0 /\ current' = stream  BY DEF Call
    <3>q. QED  BY <1>s, <3>a DEF Clean
  <2>a. Silent(c) /\ c # 0  BY <1>i DEF Clean, Conn
  <2>b. UNCHANGED <<serving, back>>  BY DEF Call
  <2>c. CASE c \in broken
    BY <2>a, <2>b, <2>c DEF Call, Sent, Silent
  <2>d. CASE c \notin broken
    <3>a. sent'[c] = Append(<<>>, request')
      BY <1>i, <2>a, <2>d DEF Call, Sent, Silent, TypeOK
    <3>b. sent'[c] = <<request'>>  BY <3>a, OneElement
    <3>q. QED  BY <2>a, <2>b, <3>b DEF Silent, Carries
  <2>q. QED  BY <2>c, <2>d
<1>a. AnswersMatch'  BY <1>i DEF Call, AnswersMatch
<1>q. QED  BY <1>t, <1>o, <1>u, <1>c, <1>a DEF Inv

(* A fresh connection: it has carried nothing, and now this request.       *)
LEMMA ConnectInv == Inv /\ Connect => Inv'
<1> SUFFICES ASSUME Inv, Connect PROVE Inv'  OBVIOUS
<1> USE TransportAssumption DEF TransportAssumption
<1>i. TypeOK /\ Opening /\ Unopened /\ Clean /\ AnswersMatch  BY DEF Inv
<1>r. request \in Request /\ stream = 0 /\ current' = opened + 1 /\ opened' = opened + 1
  BY <1>i DEF Connect, Opening
<1>s. opened + 1 \in Conn /\ opened \in Nat /\ opened + 1 <= request
  <2>a. opened \in 0 .. MaxCalls /\ request \in 1 .. MaxCalls  BY <1>i, <1>r DEF TypeOK, Request
  <2>b. opened < request  BY <1>i DEF Connect, Opening
  <2>q. QED  BY <2>a, <2>b DEF Conn
<1>f. Silent(opened + 1) /\ opened + 1 \notin broken  BY <1>i, <1>s DEF Unopened
<1>g. sent' = [sent EXCEPT ![opened + 1] = Append(@, request)]
  BY <1>r, <1>f DEF Connect, Sent
<1>t. TypeOK'
  <2>a. sent' \in [Conn -> Seq(Request)]  BY <1>i, <1>r, <1>s, <1>g DEF TypeOK
  <2>b. {stream', current', opened'} \subseteq 0 .. MaxCalls
    BY <1>r, <1>s DEF Connect, Conn
  <2>q. QED  BY <1>i, <2>a, <2>b DEF Connect, TypeOK
<1>o. Opening'  BY <1>i, <1>r, <1>s DEF Connect, Opening, TypeOK
<1>u. Unopened'
  <2> SUFFICES ASSUME NEW c \in Conn, c > opened + 1 PROVE Silent(c)' /\ c \notin broken'
    BY <1>r DEF Unopened
  <2>a. c > opened /\ c # opened + 1  BY <1>s DEF Conn
  <2>b. Silent(c) /\ c \notin broken  BY <1>i, <2>a DEF Unopened
  <2>q. QED  BY <1>i, <1>g, <2>a, <2>b DEF Connect, Silent, TypeOK
<1>c. Clean'
  <2>a. sent'[opened + 1] = Append(<<>>, request)  BY <1>i, <1>s, <1>f, <1>g DEF Silent, TypeOK
  <2>b. sent'[current'] = <<request'>>  BY <1>r, <2>a, OneElement DEF Connect
  <2>d. serving'[current'] = 0 /\ back'[current'] = <<>>  BY <1>r, <1>f DEF Connect, Silent
  <2>e. stream' = 0  BY <1>r DEF Connect
  <2>q. QED  BY <2>b, <2>d, <2>e DEF Clean, Carries
<1>a. AnswersMatch'  BY <1>i DEF Connect, AnswersMatch
<1>q. QED  BY <1>t, <1>o, <1>u, <1>c, <1>a DEF Inv

(* The answer that arrives is the one this call waits for.                 *)
LEMMA ReceiveInv == Inv /\ Receive => Inv'
<1> SUFFICES ASSUME Inv, Receive PROVE Inv'  OBVIOUS
<1> USE TransportAssumption DEF TransportAssumption
<1>i. TypeOK /\ Opening /\ Unopened /\ Clean /\ AnswersMatch  BY DEF Inv
<1>r. current \in Conn /\ request \in Request
  BY <1>i DEF Receive, Opening, TypeOK, Conn
<1>b. back[current] = <<request>> /\ sent[current] = <<>> /\ serving[current] = 0
  BY <1>i, <1>r DEF Receive, Clean, Silent, Carries, Conn
<1>h. Head(back[current]) = request /\ Tail(back[current]) = <<>>  BY <1>b, OneElement
<1>n. back' = [back EXCEPT ![current] = <<>>]  BY <1>h DEF Receive
<1>m. results' = Append(results, [request |-> request, answer |-> request])
  BY <1>h DEF Receive
<1>t. TypeOK'
  <2>e. <<>> \in Seq(Request)  OBVIOUS
  <2>a. back' \in [Conn -> Seq(Request)]  BY <1>i, <1>n, <2>e DEF TypeOK
  <2>b. results' \in Seq([request : Request, answer : Request])
    <3>a. [request |-> request, answer |-> request] \in [request : Request, answer : Request]
      BY <1>r
    <3>q. QED  BY <1>i, <1>m, <3>a DEF TypeOK
  <2>c. {stream', current', opened'} \subseteq 0 .. MaxCalls  BY <1>i DEF Receive, TypeOK
  <2>q. QED  BY <1>i, <2>a, <2>b, <2>c DEF Receive, TypeOK
<1>o. Opening'  BY <1>i DEF Receive, Opening, TypeOK
<1>u. Unopened'
  <2> SUFFICES ASSUME NEW c \in Conn, c > opened PROVE Silent(c)' /\ c \notin broken'
    BY DEF Receive, Unopened
  <2>a. Silent(c) /\ c \notin broken  BY <1>i DEF Unopened
  <2>q. QED  BY <1>i, <1>n, <2>a DEF Receive, Silent, TypeOK
<1>c. Clean'
  <2>a. stream' = current /\ current' = 0  BY DEF Receive
  <2>b. sent'[current] = <<>> /\ serving'[current] = 0 /\ back'[current] = <<>>
    BY <1>i, <1>r, <1>b, <1>n DEF Receive, TypeOK
  <2>q. QED  BY <2>a, <2>b DEF Clean, Silent
<1>a. AnswersMatch'
  <2> DEFINE new == [request |-> request, answer |-> request]
  <2>l. results \in Seq([request : Request, answer : Request])  BY <1>i DEF TypeOK
  <2> SUFFICES ASSUME NEW i \in DOMAIN results' PROVE results'[i].answer = results'[i].request
    BY DEF AnswersMatch
  <2>a. CASE i \in DOMAIN results
    <3>a. results'[i] = results[i]  BY <1>m, <2>l, <2>a
    <3>q. QED  BY <1>i, <2>a, <3>a DEF AnswersMatch
  <2>b. CASE i \notin DOMAIN results
    <3>a. results'[i] = new  BY <1>m, <2>l, <2>b
    <3>q. QED  BY <3>a
  <2>q. QED  BY <2>a, <2>b
<1>q. QED  BY <1>t, <1>o, <1>u, <1>c, <1>a DEF Inv

(* A failed or abandoned exchange: its connection is not kept.             *)
LEMMA LossInv == Inv /\ (Fail \/ GiveUp) => Inv'
<1> SUFFICES ASSUME Inv, Fail \/ GiveUp PROVE Inv'  OBVIOUS
<1> USE TransportAssumption DEF TransportAssumption
<1>i. TypeOK /\ Opening /\ Unopened /\ Clean /\ AnswersMatch  BY DEF Inv
<1>f. /\ phase' \in {"idle", "connecting"} /\ (phase' = "connecting" => phase = "reused")
      /\ stream' = 0 /\ current' = 0
      /\ UNCHANGED <<request, results, opened, sent, back, broken, serving, executed>>
  BY DEF Fail, GiveUp, AfterFailure, StreamAfterFailure
<1>t. TypeOK'  BY <1>i, <1>f DEF TypeOK
<1>o. Opening'  BY <1>i, <1>f DEF Opening, TypeOK
<1>u. Unopened'  BY <1>i, <1>f DEF Unopened, Silent
<1>c. Clean'  BY <1>f DEF Clean
<1>a. AnswersMatch'  BY <1>i, <1>f DEF AnswersMatch
<1>q. QED  BY <1>t, <1>o, <1>u, <1>c, <1>a DEF Inv

-----------------------------------------------------------------------------
(* The peer takes a request off a connection.                              *)
LEMMA DispatchInv == Inv /\ (\E c \in Conn : Dispatch(c)) => Inv'
<1> SUFFICES ASSUME Inv, NEW c \in Conn, Dispatch(c) PROVE Inv'
  OBVIOUS
<1> USE TransportAssumption DEF TransportAssumption
<1>i. TypeOK /\ Opening /\ Unopened /\ Clean /\ AnswersMatch  BY DEF Inv
<1>p. Head(sent[c]) \in Request /\ Tail(sent[c]) \in Seq(Request)
  BY <1>i, Parts DEF Dispatch, TypeOK
<1>n. ~Silent(c)  BY DEF Dispatch, Silent
<1>d. \A k \in Conn : k # c => /\ Silent(k) <=> Silent(k)'
                               /\ Carries(k, request) <=> Carries(k, request)'
  BY <1>i DEF Dispatch, client, Silent, Carries, TypeOK
<1>t. TypeOK'
  <2>a. executed' \in [Request -> Nat]  BY <1>i, <1>p DEF Dispatch, TypeOK
  <2>b. sent' \in [Conn -> Seq(Request)]  BY <1>i, <1>p DEF Dispatch, TypeOK
  <2>d. serving' \in [Conn -> 0 .. MaxCalls]  BY <1>i, <1>p DEF Dispatch, TypeOK, Request
  <2>q. QED  BY <1>i, <2>a, <2>b, <2>d DEF Dispatch, client, TypeOK
<1>u. Unopened'
  <2> SUFFICES ASSUME NEW k \in Conn, k > opened PROVE Silent(k)' /\ k \notin broken'
    BY DEF Dispatch, Unopened
  <2>q. QED  BY <1>i, <1>n, <1>d DEF Dispatch, Unopened
<1>c. Clean'
  <2>a. stream # 0 => Silent(stream)'
    <3>a. stream # 0 => stream \in Conn /\ stream # c /\ Silent(stream)
      BY <1>i, <1>n DEF Clean, TypeOK, Conn
    <3>q. QED  BY <1>d, <3>a DEF Silent, Dispatch, client
  <2>b. current # 0 => Silent(current)' \/ Carries(current, request)'
    <3>a. CASE current = c
      <4>a. sent[c] = <<request>> /\ back[c] = <<>>
        BY <1>i, <1>n, <3>a DEF Clean, Carries, Dispatch, Conn
      <4>b. Head(sent[c]) = request /\ Tail(sent[c]) = <<>>  BY <4>a, OneElement
      <4>d. sent'[c] = <<>> /\ serving'[c] = request /\ back'[c] = <<>>
        BY <1>i, <4>a, <4>b DEF Dispatch, TypeOK
      <4>q. QED  BY <3>a, <4>d DEF Carries, Dispatch, client
    <3>b. CASE current # c
      <4>a. current # 0 => current \in Conn /\ (Silent(current) \/ Carries(current, request))
        BY <1>i DEF Clean, TypeOK, Conn
      <4>q. QED  BY <1>d, <3>b, <4>a DEF Silent, Carries, Dispatch, client
    <3>q. QED  BY <3>a, <3>b
  <2>q. QED  BY <2>a, <2>b DEF Clean, Dispatch, client
<1>o. Opening'  BY <1>i DEF Dispatch, client, Opening
<1>a. AnswersMatch'  BY <1>i DEF Dispatch, client, AnswersMatch
<1>q. QED  BY <1>t, <1>o, <1>u, <1>c, <1>a DEF Inv

(* The peer answers.                                                       *)
LEMMA AnswerInv == Inv /\ (\E c \in Conn : Answer(c)) => Inv'
<1> SUFFICES ASSUME Inv, NEW c \in Conn, Answer(c) PROVE Inv'
  OBVIOUS
<1> USE TransportAssumption DEF TransportAssumption
<1>i. TypeOK /\ Opening /\ Unopened /\ Clean /\ AnswersMatch  BY DEF Inv
<1>n. ~Silent(c) /\ serving[c] \in Request
  BY <1>i DEF Answer, Silent, TypeOK, Request
<1>d. \A k \in Conn : k # c => /\ Silent(k) <=> Silent(k)'
                               /\ Carries(k, request) <=> Carries(k, request)'
  BY <1>i DEF Answer, client, Silent, Carries, TypeOK
<1>t. TypeOK'
  <2>b. back' \in [Conn -> Seq(Request)]  BY <1>i, <1>n DEF Answer, TypeOK
  <2>d. serving' \in [Conn -> 0 .. MaxCalls]  BY <1>i DEF Answer, TypeOK
  <2>q. QED  BY <1>i, <2>b, <2>d DEF Answer, client, TypeOK
<1>u. Unopened'
  <2> SUFFICES ASSUME NEW k \in Conn, k > opened PROVE Silent(k)' /\ k \notin broken'
    BY DEF Answer, Unopened
  <2>q. QED  BY <1>i, <1>n, <1>d DEF Answer, Unopened
<1>c. Clean'
  <2>a. stream # 0 => Silent(stream)'
    <3>a. stream # 0 => stream \in Conn /\ stream # c /\ Silent(stream)
      BY <1>i, <1>n DEF Clean, TypeOK, Conn
    <3>q. QED  BY <1>d, <3>a DEF Silent, Answer, client
  <2>b. current # 0 => Silent(current)' \/ Carries(current, request)'
    <3>a. CASE current = c
      <4>a. sent[c] = <<>> /\ serving[c] = request /\ back[c] = <<>>
        BY <1>i, <1>n, <3>a DEF Clean, Carries, Answer, Conn
      <4>b. sent'[c] = <<>> /\ serving'[c] = 0  BY <1>i, <4>a DEF Answer, TypeOK
      <4>d. back'[c] = <<>> \/ back'[c] = Append(<<>>, request)
        BY <1>i, <4>a DEF Answer, TypeOK
      <4>e. back'[c] = <<>> \/ back'[c] = <<request>>  BY <4>d, OneElement
      <4>q. QED  BY <3>a, <4>b, <4>e DEF Silent, Carries, Answer, client
    <3>b. CASE current # c
      <4>a. current # 0 => current \in Conn /\ (Silent(current) \/ Carries(current, request))
        BY <1>i DEF Clean, TypeOK, Conn
      <4>q. QED  BY <1>d, <3>b, <4>a DEF Silent, Carries, Answer, client
    <3>q. QED  BY <3>a, <3>b
  <2>q. QED  BY <2>a, <2>b DEF Clean, Answer, client
<1>o. Opening'  BY <1>i DEF Answer, client, Opening
<1>a. AnswersMatch'  BY <1>i DEF Answer, client, AnswersMatch
<1>q. QED  BY <1>t, <1>o, <1>u, <1>c, <1>a DEF Inv

(* A connection that breaks loses what was under way on it, or part of it. *)
LEMMA BreakInv == Inv /\ (\E c \in Conn : Refuse(c) \/ Reset(c)) => Inv'
<1> SUFFICES ASSUME Inv, NEW c \in Conn, Refuse(c) \/ Reset(c) PROVE Inv'
  OBVIOUS
<1> USE TransportAssumption DEF TransportAssumption
<1>i. TypeOK /\ Opening /\ Unopened /\ Clean /\ AnswersMatch  BY DEF Inv
<1>e. <<>> \in Seq(Request)  OBVIOUS
<1>g. /\ sent' = [sent EXCEPT ![c] = <<>>]
      /\ back' = back \/ back' = [back EXCEPT ![c] = <<>>]
      /\ broken' = broken \cup {c}
      /\ UNCHANGED <<client, opened, serving, executed>>
  BY DEF Refuse, Reset
<1>p. c <= opened
  <2>a. CASE Refuse(c)  BY <1>i, <2>a DEF Refuse, Unopened, Silent, TypeOK, Conn
  <2>b. CASE Reset(c)  BY <1>i, <2>b DEF Reset, TypeOK
  <2>q. QED  BY <2>a, <2>b
<1>s. \A k \in Conn : Silent(k) => Silent(k)'
  BY <1>i, <1>g DEF Silent, TypeOK
<1>d. \A k \in Conn : Carries(k, request) => Silent(k)' \/ Carries(k, request)'
  <2> SUFFICES ASSUME NEW k \in Conn, Carries(k, request)
               PROVE  Silent(k)' \/ Carries(k, request)'
    OBVIOUS
  <2>a. sent'[k] = sent[k] \/ sent'[k] = <<>>  BY <1>i, <1>g DEF TypeOK
  <2>b. back'[k] = back[k] \/ back'[k] = <<>>  BY <1>i, <1>g DEF TypeOK
  <2>c. serving'[k] = serving[k] /\ request' = request  BY <1>g DEF client
  <2>q. QED  BY <2>a, <2>b, <2>c DEF Silent, Carries
<1>t. TypeOK'
  <2>a. sent' \in [Conn -> Seq(Request)]  BY <1>i, <1>e, <1>g DEF TypeOK
  <2>b. back' \in [Conn -> Seq(Request)]  BY <1>i, <1>e, <1>g DEF TypeOK
  <2>q. QED  BY <1>i, <1>g, <2>a, <2>b DEF client, TypeOK
<1>o. Opening'  BY <1>i, <1>g DEF client, Opening
<1>u. Unopened'
  <2> SUFFICES ASSUME NEW k \in Conn, k > opened PROVE Silent(k)' /\ k \notin broken'
    BY <1>g DEF Unopened
  <2>a. Silent(k) /\ k \notin broken  BY <1>i DEF Unopened
  <2>b. k # c  BY <1>i, <1>p DEF TypeOK, Conn
  <2>q. QED  BY <1>g, <1>s, <2>a, <2>b
<1>c. Clean'
  <2>a. stream # 0 => Silent(stream)'
    <3>a. stream # 0 => stream \in Conn /\ Silent(stream)  BY <1>i DEF Clean, TypeOK, Conn
    <3>q. QED  BY <1>g, <1>s, <3>a DEF Silent, client
  <2>b. current # 0 => Silent(current)' \/ Carries(current, request)'
    <3>a. current # 0 => current \in Conn /\ (Silent(current) \/ Carries(current, request))
      BY <1>i DEF Clean, TypeOK, Conn
    <3>q. QED  BY <1>g, <1>s, <1>d, <3>a DEF Silent, Carries, client
  <2>q. QED  BY <1>g, <2>a, <2>b DEF Clean, client
<1>a. AnswersMatch'  BY <1>i, <1>g DEF client, AnswersMatch
<1>q. QED  BY <1>t, <1>o, <1>u, <1>c, <1>a DEF Inv

(* Every step, and a stutter.                                              *)
LEMMA StepInv == Inv /\ [Next]_vars => Inv'
<1>a. Inv /\ Next => Inv'
  BY CallInv, ConnectInv, ReceiveInv, LossInv, DispatchInv, AnswerInv, BreakInv DEF Next
<1>b. Inv /\ UNCHANGED vars => Inv'
  BY DEF vars, client, Inv, TypeOK, Opening, Unopened, Clean, AnswersMatch, Silent, Carries
<1>q. QED  BY <1>a, <1>b

(* The inductive invariant holds throughout.                               *)
LEMMA Invariant == Spec => []Inv
  BY InitInv, StepInv, PTL DEF Spec

-----------------------------------------------------------------------------
(* Every variable keeps its type: a call opens at most one connection.     *)
THEOREM TransportTypeOK == Spec => []TypeOK
<1>a. Inv => TypeOK  BY DEF Inv
<1>q. QED  BY Invariant, <1>a, PTL

(* However connections break, calls are dropped and requests repeated, a   *)
(* call returns the answer to its own request.                             *)
THEOREM TransportAnswersMatch == Spec => []AnswersMatch
<1>a. Inv => AnswersMatch  BY DEF Inv
<1>q. QED  BY Invariant, <1>a, PTL

(* The stream that is kept has nothing under way on it, the one in use at  *)
(* most the request of the call or its answer.                             *)
THEOREM TransportStreamIsClean == Spec => []StreamIsClean
<1>a. Inv => StreamIsClean
  <2> SUFFICES ASSUME Inv PROVE StreamIsClean  OBVIOUS
  <2>s. ASSUME stream # 0 PROVE Outstanding(stream) = <<>>
    <3>a. Silent(stream)  BY <2>s DEF Inv, Clean
    <3>b. 1 \in Request  BY TransportAssumption DEF TransportAssumption, Request
    <3>q. QED  BY <3>a, <3>b, Outstandings
  <2>c. ASSUME current # 0 PROVE Outstanding(current) \in {<<>>, <<request>>}
    <3>a. Silent(current) \/ Carries(current, request)  BY <2>c DEF Inv, Clean
    <3>b. request \in Request  BY <2>c DEF Inv, Opening, TypeOK
    <3>q. QED  BY <3>a, <3>b, Outstandings
  <2>q. QED  BY <2>s, <2>c DEF StreamIsClean
<1>q. QED  BY Invariant, <1>a, PTL

-----------------------------------------------------------------------------
(* How often a request is executed. A connection holds at most one request *)
(* not yet dispatched; a request that has been executed, waits on some     *)
(* connections and may still be sent again adds up to at most two.         *)
Waiting(r) == {c \in Conn : sent[c] = <<r>>}
Left(r) ==
  IF r > request THEN 2
  ELSE IF r = request /\ phase \in {"reused", "connecting"} THEN 1
  ELSE 0

OneWaits == \A c \in Conn : sent[c] = <<>> \/ \E r \in Request : sent[c] = <<r>>
Budget == \A r \in Request : executed[r] + Cardinality(Waiting(r)) + Left(r) <= 2

(* The connections on which a request waits are finitely many.             *)
LEMMA WaitingFinite ==
  ASSUME NEW r
  PROVE  /\ IsFiniteSet(Waiting(r)) /\ Cardinality(Waiting(r)) \in Nat
         /\ IsFiniteSet(Waiting(r)') /\ Cardinality(Waiting(r)') \in Nat
<1>a. IsFiniteSet(Conn)
  BY TransportAssumption, FS_Interval DEF TransportAssumption, Conn
<1>b. Waiting(r) \in SUBSET Conn /\ Waiting(r)' \in SUBSET Conn  BY DEF Waiting
<1>q. QED  BY <1>a, <1>b, FS_Subset, FS_CardinalityType

(* A request is one element; another request is another sequence.          *)
LEMMA Singles ==
  ASSUME NEW r, NEW q
  PROVE  (<<r>> = <<q>>) <=> (r = q)
  OBVIOUS

(* A connection that gains or loses its request changes the count of that  *)
(* request by one, and of no other.                                        *)
LEMMA Gains ==
  ASSUME NEW c, NEW r, Waiting(r)' \subseteq Waiting(r) \cup {c}
  PROVE  Cardinality(Waiting(r)') <= Cardinality(Waiting(r)) + 1
<1>a. IsFiniteSet(Waiting(r)) /\ Cardinality(Waiting(r)) \in Nat  BY WaitingFinite
<1>b. /\ IsFiniteSet(Waiting(r) \cup {c})
      /\ Cardinality(Waiting(r) \cup {c}) <= Cardinality(Waiting(r)) + 1
      /\ Cardinality(Waiting(r) \cup {c}) \in Nat
  BY <1>a, FS_AddElement, FS_CardinalityType
<1>c. Cardinality(Waiting(r)') <= Cardinality(Waiting(r) \cup {c})  BY <1>b, FS_Subset
<1>q. QED  BY <1>a, <1>b, <1>c, WaitingFinite

(* No more connections wait for a request if none is added.                *)
LEMMA Keeps ==
  ASSUME NEW r, Waiting(r)' \subseteq Waiting(r)
  PROVE  Cardinality(Waiting(r)') <= Cardinality(Waiting(r))
  BY WaitingFinite, FS_Subset

(* One less waits when one is done with it.                                *)
LEMMA Loses ==
  ASSUME NEW c, NEW r, c \in Waiting(r), Waiting(r)' \subseteq Waiting(r) \ {c}
  PROVE  Cardinality(Waiting(r)') <= Cardinality(Waiting(r)) - 1
<1>a. IsFiniteSet(Waiting(r)) /\ Cardinality(Waiting(r)) \in Nat  BY WaitingFinite
<1>b. /\ IsFiniteSet(Waiting(r) \ {c})
      /\ Cardinality(Waiting(r) \ {c}) = Cardinality(Waiting(r)) - 1
  BY <1>a, FS_RemoveElement
<1>q. QED  BY <1>b, FS_Subset

(* Sending the call's request on a connection that is silent uses up one   *)
(* of the two sendings the request has.                                    *)
LEMMA SendBudget ==
  ASSUME TypeOK, OneWaits, Budget,
         NEW c \in Conn, Silent(c), request' \in Request,
         sent' \in {sent, [sent EXCEPT ![c] = <<request'>>]},
         executed' = executed,
         \A r \in Request : r # request' => Left(r)' <= Left(r),
         \A r \in Request : r = request' => Left(r)' <= Left(r) - 1
  PROVE  OneWaits' /\ Budget'
<1>z. \A r \in Request : executed[r] \in Nat /\ Left(r) \in Int /\ Left(r)' \in Int
  BY DEF TypeOK, Left
<1>o. OneWaits'
  BY DEF OneWaits, TypeOK
<1>b. ASSUME NEW r \in Request
      PROVE  executed'[r] + Cardinality(Waiting(r)') + Left(r)' <= 2
  <2>a. CASE r = request'
    <3>a. Waiting(r)' \subseteq Waiting(r) \cup {c}  BY DEF Waiting, TypeOK
    <3>b. Cardinality(Waiting(r)') <= Cardinality(Waiting(r)) + 1  BY <3>a, Gains
    <3>c. Left(r)' <= Left(r) - 1  BY <2>a
    <3>q. QED  BY <1>z, <3>b, <3>c, WaitingFinite DEF Budget
  <2>b. CASE r # request'
    <3>n. <<request'>> # <<r>>  BY <2>b, Singles
    <3>a. Waiting(r)' \subseteq Waiting(r)  BY <3>n DEF Waiting, TypeOK
    <3>b. Cardinality(Waiting(r)') <= Cardinality(Waiting(r))  BY <3>a, Keeps
    <3>q. QED  BY <1>z, <2>b, <3>b, WaitingFinite DEF Budget
  <2>q. QED  BY <2>a, <2>b
<1>q. QED  BY <1>o, <1>b DEF Budget

(* Steps that send nothing and execute nothing.                            *)
LEMMA QuietBudget ==
  ASSUME TypeOK, OneWaits, Budget,
         \A c \in Conn : sent'[c] \in {sent[c], <<>>},
         executed' = executed,
         \A r \in Request : Left(r)' <= Left(r)
  PROVE  OneWaits' /\ Budget'
<1>z. \A r \in Request : executed[r] \in Nat /\ Left(r) \in Int /\ Left(r)' \in Int
  BY DEF TypeOK, Left
<1>o. OneWaits'  BY DEF OneWaits
<1>b. ASSUME NEW r \in Request
      PROVE  executed'[r] + Cardinality(Waiting(r)') + Left(r)' <= 2
  <2>a. Waiting(r)' \subseteq Waiting(r)  BY OneElement DEF Waiting
  <2>b. Cardinality(Waiting(r)') <= Cardinality(Waiting(r))  BY <2>a, Keeps
  <2>q. QED  BY <1>z, <2>b, WaitingFinite DEF Budget
<1>q. QED  BY <1>o, <1>b DEF Budget

(* Every step keeps the budget.                                            *)
LEMMA StepBudget == Inv /\ OneWaits /\ Budget /\ [Next]_vars => OneWaits' /\ Budget'
<1> SUFFICES ASSUME Inv, OneWaits, Budget, [Next]_vars PROVE OneWaits' /\ Budget'
  OBVIOUS
<1> USE TransportAssumption DEF TransportAssumption
<1>i. TypeOK /\ Opening /\ Unopened /\ Clean  BY DEF Inv
<1>r. request \in 0 .. MaxCalls  BY <1>i DEF TypeOK
<1>call. CASE Call
  <2>r. request' = request + 1 /\ request' \in Request  BY <1>r, <1>call DEF Call, Request
  <2>l. \A r \in Request : r # request' => Left(r)' <= Left(r)
    BY <1>r, <2>r, <1>call DEF Left, Call, Request
  <2>m. \A r \in Request : r = request' => Left(r)' <= Left(r) - 1
    BY <1>r, <2>r, <1>call DEF Left, Call, Request
  <2>e. executed' = executed  BY <1>call DEF Call
  <2>a. CASE stream # 0
    <3>a. stream \in Conn /\ Silent(stream)  BY <1>i, <2>a DEF TypeOK, Clean, Conn
    <3>b. Append(sent[stream], request') = <<request'>>  BY <3>a, OneElement DEF Silent
    <3>c. sent' \in {sent, [sent EXCEPT ![stream] = <<request'>>]}
      BY <1>call, <2>a, <3>b DEF Call, Sent
    <3>q. QED  BY <1>i, <2>r, <2>l, <2>m, <2>e, <3>a, <3>c, SendBudget
  <2>b. CASE stream = 0
    <3>a. sent' = sent  BY <1>call, <2>b DEF Call
    <3>b. \A r \in Request : Left(r)' <= Left(r)
      BY <1>r, <2>r, <1>call DEF Left, Call, Request
    <3>q. QED  BY <1>i, <2>e, <3>a, <3>b, QuietBudget
  <2>q. QED  BY <2>a, <2>b
<1>connect. CASE Connect
  <2>a. opened + 1 \in Conn /\ request \in Request /\ opened \in Nat
    <3>a. opened \in 0 .. MaxCalls /\ opened < request  BY <1>i, <1>connect DEF TypeOK, Connect, Opening
    <3>q. QED  BY <1>r, <3>a DEF Conn, Request
  <2>b. Silent(opened + 1)  BY <1>i, <2>a DEF Unopened
  <2>c. Append(sent[opened + 1], request) = <<request>>  BY <2>b, OneElement DEF Silent
  <2>d. sent' \in {sent, [sent EXCEPT ![opened + 1] = <<request'>>]} /\ request' = request
    BY <1>connect, <2>c DEF Connect, Sent
  <2>l. \A r \in Request : r # request' => Left(r)' <= Left(r)
    BY <1>r, <1>connect DEF Left, Connect, Request
  <2>m. \A r \in Request : r = request' => Left(r)' <= Left(r) - 1
    BY <1>r, <1>connect DEF Left, Connect, Request
  <2>e. executed' = executed  BY <1>connect DEF Connect
  <2>q. QED  BY <1>i, <2>a, <2>b, <2>d, <2>l, <2>m, <2>e, SendBudget
<1>client. CASE Receive \/ Fail \/ GiveUp
  <2>a. sent' = sent /\ executed' = executed  BY <1>client DEF Receive, Fail, GiveUp
  <2>b. request' = request /\ (phase' \in {"reused", "connecting"} => phase \in {"reused", "connecting"})
    BY <1>client DEF Receive, Fail, GiveUp, AfterFailure
  <2>l. \A r \in Request : Left(r)' <= Left(r)  BY <1>r, <2>b DEF Left, Request
  <2>q. QED  BY <1>i, <2>a, <2>l, QuietBudget
<1>dispatch. ASSUME NEW c \in Conn, Dispatch(c) PROVE OneWaits' /\ Budget'
  <2>a. PICK q \in Request : sent[c] = <<q>>  BY <1>dispatch DEF OneWaits, Dispatch
  <2>b. Head(sent[c]) = q /\ Tail(sent[c]) = <<>>  BY <2>a, OneElement
  <2>c. /\ sent' = [sent EXCEPT ![c] = <<>>]
        /\ executed' = [executed EXCEPT ![q] = @ + 1]
        /\ UNCHANGED <<request, phase>>
    BY <1>dispatch, <2>b DEF Dispatch, client
  <2>z. \A r \in Request : executed[r] \in Nat /\ Left(r) \in Int /\ Left(r)' = Left(r)
    BY <1>i, <2>c DEF TypeOK, Left
  <2>o. OneWaits'  BY <1>i, <2>c DEF OneWaits, TypeOK
  <2>d. ASSUME NEW r \in Request
        PROVE  executed'[r] + Cardinality(Waiting(r)') + Left(r)' <= 2
    <3>n. <<r>> # <<>>  BY OneElement
    <3>a. CASE r = q
      <4>a. c \in Waiting(r)  BY <2>a, <3>a DEF Waiting
      <4>b. Waiting(r)' \subseteq Waiting(r) \ {c}  BY <1>i, <2>c, <3>n DEF Waiting, TypeOK
      <4>c. Cardinality(Waiting(r)') <= Cardinality(Waiting(r)) - 1  BY <4>a, <4>b, Loses
      <4>d. executed'[r] = executed[r] + 1  BY <1>i, <2>c, <3>a DEF TypeOK
      <4>q. QED  BY <2>z, <4>c, <4>d, WaitingFinite DEF Budget
    <3>b. CASE r # q
      <4>a. Waiting(r)' \subseteq Waiting(r)  BY <1>i, <2>c, <3>n DEF Waiting, TypeOK
      <4>c. Cardinality(Waiting(r)') <= Cardinality(Waiting(r))  BY <4>a, Keeps
      <4>d. executed'[r] = executed[r]  BY <1>i, <2>c, <3>b DEF TypeOK
      <4>q. QED  BY <2>z, <4>c, <4>d, WaitingFinite DEF Budget
    <3>q. QED  BY <3>a, <3>b
  <2>q. QED  BY <2>o, <2>d DEF Budget
<1>peer. ASSUME NEW c \in Conn, Answer(c) \/ Refuse(c) \/ Reset(c) PROVE OneWaits' /\ Budget'
  <2>a. \A k \in Conn : sent'[k] \in {sent[k], <<>>}
    BY <1>i, <1>peer DEF Answer, Refuse, Reset, TypeOK
  <2>b. executed' = executed /\ UNCHANGED <<request, phase>>
    BY <1>peer DEF Answer, Refuse, Reset, client
  <2>l. \A r \in Request : Left(r)' <= Left(r)  BY <2>b DEF Left
  <2>q. QED  BY <1>i, <2>a, <2>b, <2>l, QuietBudget
<1>idle. CASE UNCHANGED vars
  <2>a. UNCHANGED <<sent, executed, request, phase>>  BY <1>idle DEF vars, client
  <2>l. \A r \in Request : Left(r)' <= Left(r)  BY <2>a DEF Left
  <2>q. QED  BY <1>i, <2>a, <2>l, QuietBudget
<1>q. QED  BY <1>call, <1>connect, <1>client, <1>dispatch, <1>peer, <1>idle DEF Next

(* The single retry is made on a fresh connection and only after the       *)
(* reused one has failed: whatever breaks, and whatever a given-up         *)
(* connection still delivers, a request is executed at most twice.         *)
THEOREM TransportAtMostTwice == Spec => []AtMostTwice
<1>a. Init => OneWaits /\ Budget
  <2> SUFFICES ASSUME Init PROVE OneWaits /\ Budget  OBVIOUS
  <2>a. OneWaits  BY DEF Init, OneWaits
  <2>b. ASSUME NEW r \in Request PROVE executed[r] + Cardinality(Waiting(r)) + Left(r) <= 2
    <3>a. <<r>> # <<>>  BY OneElement
    <3>b. Waiting(r) = {}  BY <3>a DEF Init, Waiting
    <3>c. Cardinality(Waiting(r)) = 0  BY <3>b, FS_EmptySet
    <3>q. QED  BY <3>c DEF Init, Left, Request
  <2>q. QED  BY <2>a, <2>b DEF Budget
<1>b. Inv /\ Budget => AtMostTwice
  <2> SUFFICES ASSUME Inv, Budget, NEW r \in Request PROVE executed[r] <= 2
    BY DEF AtMostTwice
  <2>a. executed[r] \in Nat /\ Left(r) \in Nat  BY DEF Inv, TypeOK, Left
  <2>q. QED  BY <2>a, WaitingFinite DEF Budget
<1>q. QED  BY <1>a, <1>b, Invariant, StepBudget, PTL DEF Spec

-----------------------------------------------------------------------------
(* Gossip, the other protocol of rpc.rs: any senders, voters, payload      *)
(* lengths and bounds.                                                     *)
CONSTANTS Senders, Voters, Width, MaxSeq, MaxQueue
VARIABLES seq, queue, taken, conn, late, up, inbox, heard, view, known

G == INSTANCE Gossip

FromVoters == {f \in G!Frames : f.from \in Voters}
Connections == [open : BOOLEAN, dead : BOOLEAN, frames : Seq(G!Frames)]

(* The ends of a sequence that is not empty.                               *)
LEMMA Ends ==
  ASSUME NEW S, NEW q \in Seq(S), q # <<>>
  PROVE  Head(q) \in S /\ Tail(q) \in Seq(S) /\ q[Len(q)] \in S
<1>a. Len(q) \in 1 .. Len(q)  OBVIOUS
<1>q. QED  BY <1>a

(* The filter of handle_conn: a frame joins the channel only if its sender *)
(* is a voter.                                                             *)
LEMMA Filtered ==
  ASSUME inbox \in Seq(FromVoters), NEW f \in G!Frames
  PROVE  G!Channel(f) \in Seq(FromVoters)
  BY DEF G!Channel, G!Accepted, FromVoters

(* The steps of a sender, its sending task and its connections.            *)
LEMMA SenderTypes ==
  ASSUME G!TypeOK, Width \in [Senders -> Nat], NEW s \in Senders,
         \/ G!Adopt(s) \/ G!Broadcast(s) \/ G!Take(s) \/ G!Connect(s) \/ G!Write(s)
         \/ G!WriteFails(s) \/ G!Deliver(s) \/ G!DeliverLate(s) \/ G!Reset(s) \/ G!Intrude(s),
         MaxSeq \in [Senders -> Nat]
  PROVE  G!TypeOK'
<1>t. /\ seq \in [Senders -> Nat] /\ known \in [Senders -> Nat]
      /\ queue \in [Senders -> Seq(G!Frames)] /\ late \in [Senders -> Seq(G!Frames)]
      /\ taken \in [Senders -> G!Frames \cup {G!NoFrame}]
      /\ conn \in [Senders -> Connections]
      /\ up \in BOOLEAN /\ inbox \in Seq(FromVoters) /\ heard \subseteq Senders \cap Voters
  BY DEF G!TypeOK, Connections, FromVoters
<1>k. ASSUME seq' \in [Senders -> Nat], known' = known, view' = view,
             queue' \in [Senders -> Seq(G!Frames)], late' \in [Senders -> Seq(G!Frames)],
             taken' \in [Senders -> G!Frames \cup {G!NoFrame}],
             conn' \in [Senders -> Connections],
             up' = up, inbox' \in Seq(FromVoters), heard' = heard
      PROVE  G!TypeOK'
  BY <1>t, <1>k DEF G!TypeOK, Connections, FromVoters
<1>n. <<>> \in Seq(G!Frames)  OBVIOUS
<1>c. G!NoConn \in Connections /\ G!Fresh \in Connections
  BY <1>n DEF G!NoConn, G!Fresh, Connections
<1>f. conn[s] \in Connections /\ conn[s].frames \in Seq(G!Frames)  BY <1>t DEF Connections
<1>adopt. CASE G!Adopt(s)
  <2>a. seq' \in [Senders -> Nat]  BY <1>t, <1>adopt DEF G!Adopt
  <2>q. QED  BY <1>t, <1>k, <1>adopt, <2>a DEF G!Adopt, G!receiver
<1>broadcast. CASE G!Broadcast(s)
  <2> DEFINE f == [from |-> s, len |-> Width[s], seq |-> seq[s]]
  <2>a. f \in G!Frames  BY <1>t DEF G!Frames
  <2> HIDE DEF f
  <2>b. queue' = [queue EXCEPT ![s] = Append(queue[s], f)]  BY <1>broadcast DEF G!Broadcast, f
  <2>c. queue' \in [Senders -> Seq(G!Frames)]  BY <1>t, <2>a, <2>b
  <2>q. QED  BY <1>t, <1>k, <1>broadcast, <2>c DEF G!Broadcast, G!receiver
<1>take. CASE G!Take(s)
  <2>a. queue[s] \in Seq(G!Frames) /\ queue[s] # <<>>  BY <1>t, <1>take DEF G!Take
  <2>b. G!Last(queue[s]) \in G!Frames  BY <2>a, Ends DEF G!Last
  <2>c. taken' \in [Senders -> G!Frames \cup {G!NoFrame}] /\ queue' \in [Senders -> Seq(G!Frames)]
    BY <1>t, <1>n, <1>take, <2>b DEF G!Take
  <2>q. QED  BY <1>t, <1>k, <1>take, <2>c DEF G!Take, G!receiver
<1>connect. CASE G!Connect(s)
  <2>a. taken' \in [Senders -> G!Frames \cup {G!NoFrame}] /\ conn' \in [Senders -> Connections]
    BY <1>t, <1>c, <1>connect DEF G!Connect
  <2>q. QED  BY <1>t, <1>k, <1>connect, <2>a DEF G!Connect, G!receiver
<1>frames. ASSUME NEW q \in Seq(G!Frames) PROVE [conn[s] EXCEPT !.frames = q] \in Connections
  BY <1>f, <1>frames DEF Connections
<1>write. CASE G!Write(s)
  <2>a. taken[s] \in G!Frames  BY <1>t, <1>write DEF G!Write
  <2>b. Append(conn[s].frames, taken[s]) \in Seq(G!Frames)  BY <1>f, <2>a
  <2>c. [conn[s] EXCEPT !.frames = Append(conn[s].frames, taken[s])] \in Connections
    BY <1>frames, <2>b
  <2>d. conn' = [conn EXCEPT ![s] = [conn[s] EXCEPT !.frames = Append(conn[s].frames, taken[s])]]
    BY <1>write DEF G!Write
  <2>e. conn' \in [Senders -> Connections]  BY <1>t, <2>c, <2>d
  <2>g. taken' \in [Senders -> G!Frames \cup {G!NoFrame}]  BY <1>t, <1>write DEF G!Write
  <2>q. QED  BY <1>t, <1>k, <1>write, <2>e, <2>g DEF G!Write, G!receiver
<1>fails. CASE G!WriteFails(s)
  <2>a. conn' \in [Senders -> Connections] /\ taken' \in [Senders -> G!Frames \cup {G!NoFrame}]
    BY <1>t, <1>c, <1>fails DEF G!WriteFails, G!AfterFailure
  <2>b. late' \in [Senders -> Seq(G!Frames)]  BY <1>t, <1>f, <1>fails DEF G!WriteFails
  <2>q. QED  BY <1>t, <1>k, <1>fails, <2>a, <2>b DEF G!WriteFails, G!receiver
<1>deliver. CASE G!Deliver(s)
  <2>a. Head(conn[s].frames) \in G!Frames /\ Tail(conn[s].frames) \in Seq(G!Frames)
    BY <1>f, <1>deliver, Ends DEF G!Deliver
  <2>b. inbox' \in Seq(FromVoters)  BY <1>t, <1>deliver, <2>a, Filtered DEF G!Deliver
  <2>c. [conn[s] EXCEPT !.frames = Tail(conn[s].frames)] \in Connections  BY <1>frames, <2>a
  <2>d. conn' = [conn EXCEPT ![s] = [conn[s] EXCEPT !.frames = Tail(conn[s].frames)]]
    BY <1>deliver DEF G!Deliver
  <2>e. conn' \in [Senders -> Connections]  BY <1>t, <2>c, <2>d
  <2>q. QED  BY <1>t, <1>k, <1>deliver, <2>b, <2>e DEF G!Deliver, G!sender
<1>late. CASE G!DeliverLate(s)
  <2>a. late[s] \in Seq(G!Frames) /\ late[s] # <<>>  BY <1>t, <1>late DEF G!DeliverLate
  <2>b. Head(late[s]) \in G!Frames /\ Tail(late[s]) \in Seq(G!Frames)  BY <2>a, Ends
  <2>c. inbox' \in Seq(FromVoters)  BY <1>t, <1>late, <2>b, Filtered DEF G!DeliverLate
  <2>d. late' \in [Senders -> Seq(G!Frames)]  BY <1>t, <1>late, <2>b DEF G!DeliverLate
  <2>q. QED  BY <1>t, <1>k, <1>late, <2>c, <2>d DEF G!DeliverLate, G!sender
<1>reset. CASE G!Reset(s)
  <2> DEFINE r == [conn[s] EXCEPT !.frames = <<>>, !.dead = conn[s].open]
  <2>a. r \in Connections  BY <1>f, <1>n DEF Connections
  <2>b. conn' = [conn EXCEPT ![s] = r]  BY <1>reset DEF G!Reset
  <2> HIDE DEF r
  <2>c. conn' \in [Senders -> Connections]  BY <1>t, <2>a, <2>b
  <2>d. late' \in [Senders -> Seq(G!Frames)]  BY <1>t, <1>n, <1>reset DEF G!Reset
  <2>q. QED  BY <1>t, <1>k, <1>reset, <2>c, <2>d DEF G!Reset, G!sender, G!receiver
<1>intrude. CASE G!Intrude(s)
  <2>a. PICK k \in 0 .. MaxSeq[s] : inbox' = G!Channel([from |-> s, len |-> Width[s], seq |-> k])
    BY <1>intrude DEF G!Intrude
  <2> DEFINE f == [from |-> s, len |-> Width[s], seq |-> k]
  <2>b. k \in Nat /\ f \in G!Frames  BY DEF G!Frames
  <2> HIDE DEF f
  <2>c. inbox' \in Seq(FromVoters)  BY <1>t, <2>a, <2>b, Filtered DEF f
  <2>q. QED  BY <1>t, <1>k, <1>intrude, <2>c DEF G!Intrude, G!sender
<1>q. QED
  BY <1>adopt, <1>broadcast, <1>take, <1>connect, <1>write, <1>fails, <1>deliver, <1>late, <1>reset,
     <1>intrude

(* A frame the worker drains.                                              *)
LEMMA DrainTypes ==
  ASSUME G!TypeOK, G!Drain
  PROVE  G!TypeOK'
<1>t. /\ known \in [Senders -> Nat] /\ view \in [Senders -> Nat \cup {G!Nothing}]
      /\ inbox \in Seq(FromVoters) /\ heard \subseteq Senders \cap Voters
  BY DEF G!TypeOK, FromVoters
<1> DEFINE f == Head(inbox)
<1>f. f \in FromVoters /\ Tail(inbox) \in Seq(FromVoters)  BY <1>t, Ends DEF G!Drain
<1>g. f \in G!Frames /\ f.from \in Senders \cap Voters /\ f.seq \in Nat /\ f.len \in Nat
  BY <1>f DEF FromVoters, G!Frames
<1>u. /\ inbox' = Tail(inbox) /\ heard' = heard \cup {f.from}
      /\ known' = [known EXCEPT ![f.from] = G!KnownAfter(f)]
      /\ view' = [view EXCEPT ![f.from] = G!ViewAfter(f)]
      /\ UNCHANGED <<seq, queue, taken, conn, late, up>>
  BY DEF G!Drain, G!sender
<1> HIDE DEF f
<1>k. G!KnownAfter(f) \in Nat /\ G!ViewAfter(f) \in Nat \cup {G!Nothing}
  BY <1>t, <1>g DEF G!KnownAfter, G!DecodedSeq, G!ViewAfter
<1>a. known' \in [Senders -> Nat] /\ view' \in [Senders -> Nat \cup {G!Nothing}]
  BY <1>t, <1>g, <1>u, <1>k
<1>b. inbox' \in Seq(FromVoters) /\ heard' \subseteq Senders \cap Voters  BY <1>t, <1>f, <1>g, <1>u
<1>q. QED  BY <1>a, <1>u, <1>b DEF G!TypeOK, FromVoters

(* Types, and the filter of handle_conn: whatever a stranger to the        *)
(* cluster sends and however connections fail, only voters are heard.      *)
THEOREM GossipTypes ==
  ASSUME Width \in [Senders -> Nat], MaxSeq \in [Senders -> Nat]
  PROVE  G!Spec => []G!TypeOK
<1>i. G!Init => G!TypeOK
  <2>a. <<>> \in Seq(G!Frames) /\ <<>> \in Seq(FromVoters)  OBVIOUS
  <2>q. QED  BY <2>a DEF G!Init, G!TypeOK, G!NoConn, FromVoters
<1>s. G!TypeOK /\ [G!Next]_(G!vars) => G!TypeOK'
  <2> SUFFICES ASSUME G!TypeOK, [G!Next]_(G!vars) PROVE G!TypeOK'  OBVIOUS
  <2>a. CASE G!Switch \/ UNCHANGED G!vars
    BY <2>a DEF G!Switch, G!vars, G!sender, G!receiver, G!TypeOK
  <2>q. QED  BY <2>a, SenderTypes, DrainTypes DEF G!Next
<1>q. QED  BY <1>i, <1>s, PTL DEF G!Spec
=============================================================================
