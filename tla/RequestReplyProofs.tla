-------------------------- MODULE RequestReplyProofs --------------------------
(***************************************************************************)
(* The safety of wait_for_response and message_listener for any number of  *)
(* requests, whatever the network loses, duplicates and delays and however *)
(* the timeout races the answers: the list of waiting responses stays      *)
(* intact, the listener follows none that was freed, and each thread gets  *)
(* the answer to its own request.                                          *)
(***************************************************************************)
EXTENDS RequestReply, TLAPS

-----------------------------------------------------------------------------
(* The inductive invariant                                                 *)

Asked    == [id : Id, code : { 101, 102 }]
Answers  == [id : Id, code : { 201, 202 }]
Codes    == { TimedOut, Unwritten, 201, 202 }

\* Types of what the EVC keeps and of the datagrams.
WaitTypeOK ==
    /\ pc \in [Thread -> Phase]
    /\ req_id \in [Thread -> Id \cup { NoId }]
    /\ response \in [Thread -> [code : Codes, ready : BOOLEAN]]
    /\ recv_message \in [Thread -> Codes]
    /\ message_list \in Seq(Thread)
    /\ listener \in [message : Answers \cup { NoMessage }, cursor : Thread \cup { Nobody }]
    /\ to_rbc \subseteq Asked /\ to_evc \subseteq Answers /\ handlers \subseteq Asked
    /\ rbc_request \in Asked \cup { NoMessage }

Travelling == to_rbc \cup to_evc \cup handlers \cup { rbc_request, listener.message }

\* The datagrams that bear the id of a thread are its request and its answer.
IdsOwned ==
    /\ \A th \in Thread : pc[th] = "free" <=> req_id[th] = NoId
    /\ \A th, u \in Thread : req_id[th] = req_id[u] /\ req_id[th] # NoId => th = u
    /\ \A th \in Thread : \A m \in Travelling :
          m.id = req_id[th] /\ m.id # NoId => m.code \in { Code(th), Ack(Code(th)) }

Right(th) == { Ack(Code(th)) } \cup (IF HasTimeout(th) THEN { TimedOut } ELSE {})

\* A response that is ready holds the answer of its thread or its timeout, and a
\* thread that has left its loop has one that is ready.
Answered ==
    \A th \in Thread :
        /\ response[th].ready = TRUE => response[th].code \in Right(th)
        /\ pc[th] \in { "over", "copied" } => response[th].ready = TRUE
        /\ pc[th] = "copied" => recv_message[th] \in Right(th)

CursorScans == listener.cursor # Nobody => Scanning

WaitInv == WaitTypeOK /\ IdsOwned /\ Answered /\ ListIntact /\ NoUseAfterFree /\ CursorScans

-----------------------------------------------------------------------------
LEMMA InitWaits == Init => WaitInv
<1> SUFFICES ASSUME Init PROVE WaitInv
  OBVIOUS
<1> USE DEF Init
<1>1. WaitTypeOK
  BY IdAssumption
  DEF WaitTypeOK, Phase, Codes, NoMessage, Answers, Asked, Thread, Nobody, Unwritten
<1>2. IdsOwned
  BY DEF IdsOwned, Travelling, NoMessage, Thread
<1>3. Answered
  BY DEF Answered, Thread
<1>4. ListIntact /\ NoUseAfterFree /\ CursorScans
  BY DEF ListIntact, NoUseAfterFree, CursorScans, Listed, Thread
<1> QED
  BY <1>1, <1>2, <1>3, <1>4 DEF WaitInv

-----------------------------------------------------------------------------
(* The list                                                                *)

\* A thread whose response is listed is found in the list.
LEMMA Placed ==
    ASSUME WaitTypeOK, ListIntact, NEW th \in Thread, Listed(th)
    PROVE  Place(th) \in 1 .. Len(message_list) /\ message_list[Place(th)] = th
<1>1. PICK i \in 1 .. Len(message_list) : message_list[i] = th
  BY DEF ListIntact
<1> QED
  BY <1>1 DEF Place

LEMMA ListTyped ==
    ASSUME WaitTypeOK
    PROVE  /\ Len(message_list) \in Nat
           /\ \A i \in 1 .. Len(message_list) : message_list[i] \in Thread
BY DEF WaitTypeOK

\* The next response of the list is a listed one.
LEMMA AfterListed ==
    ASSUME WaitTypeOK, ListIntact, NEW th \in Thread, Listed(th), After(th) # Nobody
    PROVE  After(th) \in Thread /\ Listed(After(th))
<1>1. Place(th) \in 1 .. Len(message_list) /\ Place(th) # Len(message_list)
  BY Placed DEF After
<1>2. Place(th) + 1 \in 1 .. Len(message_list) /\ After(th) = message_list[Place(th) + 1]
  BY <1>1, ListTyped DEF After
<1> QED
  BY <1>2 DEF ListIntact

\* Unlinking a response leaves the others, once each.
LEMMA Unlinked ==
    ASSUME WaitTypeOK, ListIntact, NEW th \in Thread, Listed(th)
    PROVE  /\ Without(th) \in Seq(Thread)
           /\ { Without(th)[i] : i \in 1 .. Len(Without(th)) }
                = { message_list[i] : i \in 1 .. Len(message_list) } \ { th }
           /\ \A i, j \in 1 .. Len(Without(th)) : Without(th)[i] = Without(th)[j] => i = j
<1> DEFINE n == Len(message_list)
           k == Place(th)
           L == Without(th)
<1>1. n \in Nat /\ k \in 1 .. n /\ message_list[k] = th
  BY Placed, ListTyped
<1>2. \A i \in 1 .. n : message_list[i] \in Thread
  BY ListTyped
<1>3. \A i, j \in 1 .. n : message_list[i] = message_list[j] => i = j
  BY DEF ListIntact
<1>4. L = [i \in 1 .. n - 1 |-> IF i < k THEN message_list[i] ELSE message_list[i + 1]]
  BY DEF Without
<1>5. L \in Seq(Thread) /\ Len(L) = n - 1
  BY <1>1, <1>2, <1>4
<1>6. \A i \in 1 .. n - 1 : L[i] = IF i < k THEN message_list[i] ELSE message_list[i + 1]
  BY <1>4
<1> HIDE DEF n, k, L
<1>7. \A i, j \in 1 .. n - 1 : L[i] = L[j] => i = j
  BY <1>1, <1>3, <1>6
<1>8. \A i \in 1 .. n - 1 : \E j \in 1 .. n : L[i] = message_list[j] /\ message_list[j] # th
  <2> TAKE i \in 1 .. n - 1
  <2>1. CASE i < k
    BY <1>1, <1>3, <1>6, <2>1
  <2>2. CASE ~(i < k)
    <3>1. i + 1 \in 1 .. n /\ i + 1 # k
      BY <1>1, <2>2
    <3> QED
      BY <1>1, <1>3, <1>6, <2>2, <3>1
  <2> QED
    BY <2>1, <2>2
<1>9. \A j \in 1 .. n : message_list[j] # th => \E i \in 1 .. n - 1 : L[i] = message_list[j]
  <2> SUFFICES ASSUME NEW j \in 1 .. n, message_list[j] # th
               PROVE  \E i \in 1 .. n - 1 : L[i] = message_list[j]
    OBVIOUS
  <2>1. j # k
    BY <1>1
  <2>2. CASE j < k
    <3>1. j \in 1 .. n - 1
      BY <1>1, <2>2
    <3> QED
      BY <1>6, <2>2, <3>1
  <2>3. CASE ~(j < k)
    <3>1. j - 1 \in 1 .. n - 1 /\ ~(j - 1 < k) /\ (j - 1) + 1 = j
      BY <1>1, <2>1, <2>3
    <3>2. L[j - 1] = message_list[j]
      BY <1>6, <3>1
    <3> QED
      BY <3>1, <3>2
  <2> QED
    BY <2>2, <2>3
<1>10. { L[i] : i \in 1 .. n - 1 } = { message_list[i] : i \in 1 .. n } \ { th }
  BY <1>8, <1>9
<1> QED
  BY <1>5, <1>7, <1>10 DEF n, L

\* Linking a response at the head keeps the others, once each.
LEMMA Linked ==
    ASSUME WaitTypeOK, ListIntact, NEW th \in Thread, ~Listed(th)
    PROVE  LET L == << th >> \o message_list IN
           /\ L \in Seq(Thread)
           /\ { L[i] : i \in 1 .. Len(L) }
                = { message_list[i] : i \in 1 .. Len(message_list) } \cup { th }
           /\ \A i, j \in 1 .. Len(L) : L[i] = L[j] => i = j
<1> DEFINE n == Len(message_list)
           L == << th >> \o message_list
<1>1. n \in Nat /\ \A i \in 1 .. n : message_list[i] \in Thread /\ message_list[i] # th
  BY ListTyped DEF ListIntact
<1>2. message_list \in Seq(Thread) /\ << th >> \in Seq(Thread)
  BY DEF WaitTypeOK
<1>3. L \in Seq(Thread) /\ Len(L) = n + 1
  BY <1>2
<1>4. L[1] = th /\ \A i \in 2 .. n + 1 : L[i] = message_list[i - 1]
  BY <1>1, <1>2
<1>5. \A i, j \in 1 .. n : message_list[i] = message_list[j] => i = j
  BY DEF ListIntact
<1> HIDE DEF n, L
<1>6. \A i, j \in 1 .. n + 1 : L[i] = L[j] => i = j
  <2> SUFFICES ASSUME NEW i \in 1 .. n + 1, NEW j \in 1 .. n + 1, L[i] = L[j] PROVE i = j
    OBVIOUS
  <2>1. \A m \in 2 .. n + 1 : m - 1 \in 1 .. n /\ L[m] # th
    BY <1>1, <1>4
  <2>2. CASE i = 1 \/ j = 1
    BY <1>1, <1>4, <2>1, <2>2
  <2>3. CASE i # 1 /\ j # 1
    <3>1. i - 1 \in 1 .. n /\ j - 1 \in 1 .. n /\ message_list[i - 1] = message_list[j - 1]
      BY <1>1, <1>4, <2>3
    <3> QED
      BY <1>1, <1>5, <3>1
  <2> QED
    BY <2>2, <2>3
<1>7. \A i \in 1 .. n + 1 : L[i] = th \/ \E j \in 1 .. n : L[i] = message_list[j]
  <2> TAKE i \in 1 .. n + 1
  <2>1. CASE i = 1
    BY <1>4, <2>1
  <2>2. CASE i # 1
    <3>1. i \in 2 .. n + 1 /\ i - 1 \in 1 .. n
      BY <1>1, <2>2
    <3> QED
      BY <1>4, <3>1
  <2> QED
    BY <2>1, <2>2
<1>8. \A j \in 1 .. n : j + 1 \in 1 .. n + 1 /\ L[j + 1] = message_list[j]
  BY <1>1, <1>4
<1>9. 1 \in 1 .. n + 1
  BY <1>1
<1>10. { L[i] : i \in 1 .. n + 1 } = { message_list[i] : i \in 1 .. n } \cup { th }
  BY <1>4, <1>7, <1>8, <1>9
<1> QED
  BY <1>3, <1>6, <1>10 DEF n, L

-----------------------------------------------------------------------------
(* The steps                                                               *)

\* The ids of the datagrams and the threads are in use.
LEMMA FreshId ==
    ASSUME NEW i \in Id \ InUse
    PROVE  /\ \A m \in Travelling : m.id # i
           /\ \A th \in Thread : req_id[th] # i
BY DEF InUse, Travelling

LEMMA TypeStep == WaitInv /\ [Next]_vars => WaitTypeOK'
<1> SUFFICES ASSUME WaitInv, [Next]_vars PROVE WaitTypeOK'
  OBVIOUS
<1> USE DEF WaitTypeOK
<1>0. WaitTypeOK
  BY DEF WaitInv
<1>1. ASSUME NEW th \in Thread, Send(th) PROVE WaitTypeOK'
  BY <1>0, <1>1 DEF Send, evc, Phase, Asked, Code
<1>2. ASSUME NEW th \in Thread, Register(th) PROVE WaitTypeOK'
  <2>1. << th >> \o message_list \in Seq(Thread)
    BY <1>0
  <2> QED
    BY <1>0, <1>2, <2>1 DEF Register, net, Phase
<1>3. ASSUME NEW th \in Thread, Check(th) PROVE WaitTypeOK'
  BY <1>0, <1>3 DEF Check, evc, net, Phase
<1>4. ASSUME NEW th \in Thread, TimeOut(th) PROVE WaitTypeOK'
  BY <1>0, <1>4 DEF TimeOut, net, Phase, Codes
<1>5. ASSUME NEW th \in Thread, Copy(th) PROVE WaitTypeOK'
  BY <1>0, <1>5 DEF Copy, net, Phase, Codes
<1>6. ASSUME NEW th \in Thread, Return(th) PROVE WaitTypeOK'
  <2>1. Without(th) \in Seq(Thread)
    BY <1>6, Unlinked DEF WaitInv, Return, Leave, Listed
  <2> QED
    BY <1>0, <1>6, <2>1 DEF Return, Leave, net, Phase, Codes
<1>7. ASSUME NEW m \in to_evc, Receive(m) PROVE WaitTypeOK'
  <2>1. message_list # << >> => Head(message_list) \in Thread
    BY <1>0
  <2> QED
    BY <1>0, <1>7, <2>1 DEF Receive
<1>8. CASE Advance
  <2>1. listener.cursor \in Thread /\ Listed(listener.cursor)
    BY <1>0, <1>8 DEF Advance, WaitInv, NoUseAfterFree
  <2>2. After(listener.cursor) \in Thread \cup { Nobody }
    BY <2>1, AfterListed DEF WaitInv
  <2> QED
    BY <1>0, <1>8, <2>2 DEF Advance, net
<1>9. CASE Deliver
  <2>1. listener.cursor \in Thread /\ listener.message \in Answers
    BY <1>0, <1>9 DEF Deliver, Matches, Scanning
  <2>2. listener.message.code \in Codes
    BY <2>1 DEF Answers, Codes
  <2> QED
    BY <1>0, <1>9, <2>1, <2>2 DEF Deliver, net, Phase
<1>10. CASE StoreRequest
  BY <1>0, <1>10 DEF StoreRequest, net
<1>11. ASSUME NEW m \in to_rbc, RbcReceive(m) PROVE WaitTypeOK'
  BY <1>0, <1>11 DEF RbcReceive, evc
<1>12. CASE Dispatch
  BY <1>0, <1>12 DEF Dispatch, evc
<1>13. ASSUME NEW m \in handlers, Respond(m) PROVE WaitTypeOK'
  <2>1. [id |-> m.id, code |-> Ack(m.code)] \in Answers
    BY <1>0 DEF Asked, Answers, Ack
  <2> QED
    BY <1>0, <1>13, <2>1 DEF Respond, evc
<1>14. CASE Lose
  BY <1>0, <1>14 DEF Lose, evc
<1>15. CASE UNCHANGED vars
  BY <1>0, <1>15 DEF vars
<1> QED
  BY <1>1, <1>2, <1>3, <1>4, <1>5, <1>6, <1>7, <1>8, <1>9, <1>10, <1>11, <1>12, <1>13, <1>14,
     <1>15 DEF Next, Request

\* What no step but Send, Return and Respond does to ids and datagrams.
LEMMA SameIds ==
    ASSUME IdsOwned, Travelling' \subseteq Travelling, req_id' = req_id,
           \A th \in Thread : pc'[th] = "free" <=> pc[th] = "free"
    PROVE  IdsOwned'
BY DEF IdsOwned

LEMMA IdStep == WaitInv /\ [Next]_vars => IdsOwned'
<1> SUFFICES ASSUME WaitInv, [Next]_vars PROVE IdsOwned'
  OBVIOUS
<1>0. WaitTypeOK /\ IdsOwned
  BY DEF WaitInv
<1>a. pc \in [Thread -> Phase] /\ req_id \in [Thread -> Id \cup { NoId }] /\ NoId \notin Id
  BY <1>0, IdAssumption DEF WaitTypeOK
<1>1. ASSUME NEW th \in Thread, Send(th) PROVE IdsOwned'
  <2>1. PICK i \in Id \ InUse :
          /\ req_id' = [req_id EXCEPT ![th] = i]
          /\ to_rbc' = to_rbc \cup { [id |-> i, code |-> Code(th)] }
    BY <1>1 DEF Send
  <2>2. /\ Travelling' = Travelling \cup { [id |-> i, code |-> Code(th)] }
        /\ pc' = [pc EXCEPT ![th] = "sent"]
    BY <1>1, <2>1 DEF Send, Travelling, evc
  <2>3. /\ \A m \in Travelling : m.id # i
        /\ \A u \in Thread : req_id[u] # i
    BY FreshId
  <2>4. i # NoId
    BY <1>a
  <2>5. \A u \in Thread : pc'[u] = "free" <=> req_id'[u] = NoId
    BY <1>0, <1>a, <2>1, <2>2, <2>4 DEF IdsOwned
  <2>6. \A u, v \in Thread : req_id'[u] = req_id'[v] /\ req_id'[u] # NoId => u = v
    BY <1>0, <1>a, <2>1, <2>3 DEF IdsOwned
  <2>7. \A u \in Thread : \A m \in Travelling' :
          m.id = req_id'[u] /\ m.id # NoId => m.code \in { Code(u), Ack(Code(u)) }
    BY <1>0, <1>a, <2>1, <2>2, <2>3 DEF IdsOwned
  <2> QED
    BY <2>5, <2>6, <2>7 DEF IdsOwned
<1>2. ASSUME NEW th \in Thread, Register(th) \/ Check(th) \/ TimeOut(th) \/ Copy(th)
      PROVE IdsOwned'
  <2>1. req_id' = req_id /\ Travelling' = Travelling
    BY <1>2 DEF Register, Check, TimeOut, Copy, evc, net, Travelling
  <2>2. \A u \in Thread : pc'[u] = "free" <=> pc[u] = "free"
    BY <1>2, <1>a DEF Register, Check, TimeOut, Copy
  <2> QED
    BY <1>0, <2>1, <2>2, SameIds
<1>3. ASSUME NEW th \in Thread, Return(th) PROVE IdsOwned'
  <2>1. /\ req_id' = [req_id EXCEPT ![th] = NoId]
        /\ pc' = [pc EXCEPT ![th] = "free"]
        /\ Travelling' = Travelling
    BY <1>3 DEF Return, Leave, net, Travelling
  <2> QED
    BY <1>0, <1>a, <2>1 DEF IdsOwned
<1>4. ASSUME NEW m \in to_evc, Receive(m) PROVE IdsOwned'
  <2>1. Travelling' \subseteq Travelling /\ req_id' = req_id /\ pc' = pc
    BY <1>4 DEF Receive, Travelling
  <2> QED
    BY <1>0, <2>1, SameIds
<1>5. ASSUME Advance \/ Deliver \/ StoreRequest PROVE IdsOwned'
  <2>1. /\ to_rbc' = to_rbc /\ to_evc' = to_evc /\ handlers' = handlers
        /\ rbc_request' = rbc_request /\ req_id' = req_id
        /\ listener'.message \in { listener.message, NoMessage }
    BY <1>0, <1>5 DEF Advance, Deliver, StoreRequest, net, WaitTypeOK
  <2>2. \A u \in Thread : pc'[u] = "free" <=> pc[u] = "free"
    BY <1>5, <1>a DEF Advance, Deliver, StoreRequest
  <2>3. \A u \in Thread : \A m \in Travelling' :
          m.id = req_id'[u] /\ m.id # NoId => m.code \in { Code(u), Ack(Code(u)) }
    BY <1>0, <2>1 DEF IdsOwned, Travelling, NoMessage
  <2> QED
    BY <1>0, <2>1, <2>2, <2>3 DEF IdsOwned
<1>6. ASSUME NEW m \in to_rbc, RbcReceive(m) PROVE IdsOwned'
  <2>1. Travelling' \subseteq Travelling /\ req_id' = req_id /\ pc' = pc
    BY <1>6 DEF RbcReceive, Travelling, evc
  <2> QED
    BY <1>0, <2>1, SameIds
<1>7. CASE Dispatch
  <2>1. /\ Travelling' \subseteq Travelling \cup { NoMessage }
        /\ req_id' = req_id /\ pc' = pc
    BY <1>7 DEF Dispatch, Travelling, evc
  <2> QED
    BY <1>0, <2>1 DEF IdsOwned, NoMessage
<1>8. ASSUME NEW m \in handlers, Respond(m) PROVE IdsOwned'
  <2>1. /\ Travelling' \subseteq Travelling \cup { [id |-> m.id, code |-> Ack(m.code)] }
        /\ req_id' = req_id /\ pc' = pc
    BY <1>8 DEF Respond, Travelling, evc
  <2>2. m \in Travelling /\ m.code \in { 101, 102 }
    BY <1>0 DEF Travelling, WaitTypeOK, Asked
  <2>3. ASSUME NEW u \in Thread, m.id = req_id[u], m.id # NoId
        PROVE  Ack(m.code) = Ack(Code(u))
    <3>1. m.code \in { Code(u), Ack(Code(u)) }
      BY <1>0, <2>2, <2>3 DEF IdsOwned
    <3> QED
      BY <2>2, <3>1 DEF Code, Ack
  <2> QED
    BY <1>0, <2>1, <2>3 DEF IdsOwned
<1>9. CASE Lose
  <2>1. Travelling' \subseteq Travelling /\ req_id' = req_id /\ pc' = pc
    BY <1>9 DEF Lose, Travelling, evc
  <2> QED
    BY <1>0, <2>1, SameIds
<1>10. CASE UNCHANGED vars
  <2>1. Travelling' = Travelling /\ req_id' = req_id /\ pc' = pc
    BY <1>10 DEF vars, Travelling
  <2> QED
    BY <1>0, <2>1, SameIds
<1> QED
  BY <1>1, <1>2, <1>3, <1>4, <1>5, <1>6, <1>7, <1>8, <1>9, <1>10 DEF Next, Request

LEMMA SameAnswers ==
    ASSUME Answered, response' = response, recv_message' = recv_message,
           \A th \in Thread : pc'[th] \in { "over", "copied" } => pc'[th] = pc[th]
    PROVE  Answered'
BY DEF Answered

LEMMA AnsweredStep == WaitInv /\ [Next]_vars => Answered'
<1> SUFFICES ASSUME WaitInv, [Next]_vars PROVE Answered'
  OBVIOUS
<1>0. WaitTypeOK /\ IdsOwned /\ Answered
  BY DEF WaitInv
<1>a. /\ pc \in [Thread -> Phase]
      /\ response \in [Thread -> [code : Codes, ready : BOOLEAN]]
      /\ recv_message \in [Thread -> Codes]
  BY <1>0 DEF WaitTypeOK
<1>1. ASSUME NEW th \in Thread, Send(th) \/ Register(th) PROVE Answered'
  <2>1. /\ response' = response /\ recv_message' = recv_message
        /\ \A u \in Thread : pc'[u] \in { "over", "copied" } => pc'[u] = pc[u]
    BY <1>1, <1>a DEF Send, Register, evc
  <2> QED
    BY <1>0, <2>1, SameAnswers
<1>2. ASSUME NEW th \in Thread, Check(th) PROVE Answered'
  <2>1. /\ response' = response /\ recv_message' = recv_message
        /\ pc' = [pc EXCEPT ![th] = IF response[th].ready THEN "over" ELSE "waiting"]
    BY <1>2 DEF Check, evc
  <2>2. \A u \in Thread : pc'[u] = "over" => pc[u] = "over" \/ response[u].ready
    BY <1>a, <2>1
  <2>3. \A u \in Thread : pc'[u] = "copied" => pc[u] = "copied"
    BY <1>a, <2>1
  <2> QED
    BY <1>0, <1>a, <2>1, <2>2, <2>3 DEF Answered
<1>3. ASSUME NEW th \in Thread, TimeOut(th) PROVE Answered'
  <2>1. /\ response' = [response EXCEPT ![th] = [code |-> TimedOut, ready |-> TRUE]]
        /\ pc' = [pc EXCEPT ![th] = "over"]
        /\ recv_message' = recv_message
        /\ TimedOut \in Right(th)
    BY <1>3 DEF TimeOut, Right
  <2> QED
    BY <1>0, <1>a, <2>1 DEF Answered
<1>4. ASSUME NEW th \in Thread, Copy(th) PROVE Answered'
  <2>1. /\ response' = response
        /\ pc' = [pc EXCEPT ![th] = "copied"]
        /\ recv_message' = [recv_message EXCEPT ![th] = response[th].code]
        /\ pc[th] = "over"
    BY <1>4 DEF Copy
  <2> QED
    BY <1>0, <1>a, <2>1 DEF Answered
<1>5. ASSUME NEW th \in Thread, Return(th) PROVE Answered'
  <2>1. /\ response' = [response EXCEPT ![th] = [code |-> Unwritten, ready |-> FALSE]]
        /\ pc' = [pc EXCEPT ![th] = "free"]
        /\ recv_message' = [recv_message EXCEPT ![th] = Unwritten]
    BY <1>5 DEF Return, Leave
  <2> QED
    BY <1>0, <1>a, <2>1 DEF Answered
<1>6. CASE Deliver
  <2> DEFINE th == listener.cursor
  <2>1. th \in Thread /\ listener.message \in Answers /\ listener.message.id = req_id[th]
    BY <1>0, <1>6 DEF Deliver, Scanning, Matches, WaitTypeOK
  <2>2. listener.message.id # NoId /\ listener.message.code \in { 201, 202 }
    BY <2>1, IdAssumption DEF Answers
  <2>3. listener.message.code \in { Code(th), Ack(Code(th)) }
    BY <1>0, <2>1, <2>2 DEF IdsOwned, Travelling
  <2>4. listener.message.code \in Right(th)
    BY <2>1, <2>2, <2>3 DEF Code, Right
  <2>5. /\ response' = [response EXCEPT ![th] = [code |-> listener.message.code, ready |-> TRUE]]
        /\ pc' = [pc EXCEPT ![th] = IF @ = "waiting" THEN "signalled" ELSE @]
        /\ recv_message' = recv_message
    BY <1>6 DEF Deliver
  <2> HIDE DEF th
  <2> QED
    BY <1>0, <1>a, <2>1, <2>4, <2>5 DEF Answered
<1>7. ASSUME \/ \E m \in to_evc : Receive(m)
             \/ Advance \/ StoreRequest
             \/ \E m \in to_rbc : RbcReceive(m)
             \/ Dispatch
             \/ \E m \in handlers : Respond(m)
             \/ Lose
             \/ UNCHANGED vars
      PROVE Answered'
  <2>1. response' = response /\ recv_message' = recv_message /\ pc' = pc
    BY <1>7 DEF Receive, Advance, StoreRequest, RbcReceive, Dispatch, Respond, Lose, evc, vars
  <2> QED
    BY <1>0, <2>1, SameAnswers
<1> QED
  BY <1>1, <1>2, <1>3, <1>4, <1>5, <1>6, <1>7 DEF Next, Request

\* The list and its reader: what the three conjuncts need of a step that does
\* not link, unlink or move the cursor.
LEMMA SameList ==
    ASSUME ListIntact, NoUseAfterFree, CursorScans,
           message_list' = message_list, listener' = listener,
           \A th \in Thread : pc'[th] \in { "free", "sent" } <=> pc[th] \in { "free", "sent" },
           listener.cursor \in Thread \cup { Nobody }
    PROVE  ListIntact' /\ NoUseAfterFree' /\ CursorScans'
<1>1. \A th \in Thread : Listed(th)' <=> Listed(th)
  BY DEF Listed
<1>2. ListIntact'
  BY <1>1 DEF ListIntact
<1> QED
  BY <1>1, <1>2 DEF NoUseAfterFree, CursorScans, Scanning

LEMMA ListStep == WaitInv /\ [Next]_vars => ListIntact' /\ NoUseAfterFree' /\ CursorScans'
<1> SUFFICES ASSUME WaitInv, [Next]_vars PROVE ListIntact' /\ NoUseAfterFree' /\ CursorScans'
  OBVIOUS
<1>0. WaitTypeOK /\ ListIntact /\ NoUseAfterFree /\ CursorScans
  BY DEF WaitInv
<1>a. /\ pc \in [Thread -> Phase]
      /\ listener \in [message : Answers \cup { NoMessage }, cursor : Thread \cup { Nobody }]
      /\ Nobody \notin Thread
  BY <1>0 DEF WaitTypeOK, Nobody, Thread
<1>1. ASSUME NEW th \in Thread, Send(th) \/ Check(th) \/ TimeOut(th) \/ Copy(th)
      PROVE ListIntact' /\ NoUseAfterFree' /\ CursorScans'
  <2>1. message_list' = message_list /\ listener' = listener
    BY <1>1 DEF Send, Check, TimeOut, Copy, evc
  <2>2. \A u \in Thread : pc'[u] \in { "free", "sent" } <=> pc[u] \in { "free", "sent" }
    BY <1>1, <1>a DEF Send, Check, TimeOut, Copy
  <2> QED
    BY <1>0, <1>a, <2>1, <2>2, SameList
<1>2. ASSUME NEW th \in Thread, Register(th)
      PROVE ListIntact' /\ NoUseAfterFree' /\ CursorScans'
  <2>1. /\ ~Scanning /\ ~Listed(th) /\ listener' = listener
        /\ message_list' = << th >> \o message_list
        /\ pc' = [pc EXCEPT ![th] = "check"]
    BY <1>2 DEF Register, Listed
  <2>2. \A u \in Thread : Listed(u)' <=> Listed(u) \/ u = th
    BY <1>a, <2>1 DEF Listed
  <2>3. { message_list'[i] : i \in 1 .. Len(message_list') } = { u \in Thread : Listed(u)' }
    <3>1. { message_list'[i] : i \in 1 .. Len(message_list') }
            = { message_list[i] : i \in 1 .. Len(message_list) } \cup { th }
      BY <1>0, <2>1, Linked
    <3>2. { message_list[i] : i \in 1 .. Len(message_list) } = { u \in Thread : Listed(u) }
      BY <1>0 DEF ListIntact
    <3>3. { u \in Thread : Listed(u) } \cup { th } = { u \in Thread : Listed(u)' }
      BY <2>2
    <3> QED
      BY <3>1, <3>2, <3>3
  <2>4. \A i, j \in 1 .. Len(message_list') : message_list'[i] = message_list'[j] => i = j
    BY <1>0, <2>1, Linked
  <2>5. ListIntact'
    BY <2>3, <2>4 DEF ListIntact
  <2>6. listener'.cursor = Nobody
    BY <1>0, <2>1 DEF CursorScans
  <2> QED
    BY <2>5, <2>6 DEF NoUseAfterFree, CursorScans
<1>3. ASSUME NEW th \in Thread, Return(th)
      PROVE ListIntact' /\ NoUseAfterFree' /\ CursorScans'
  <2>1. /\ ~Scanning /\ Listed(th) /\ listener' = listener
        /\ message_list' = Without(th)
        /\ pc' = [pc EXCEPT ![th] = "free"]
    BY <1>3 DEF Return, Leave, Listed
  <2>2. \A u \in Thread : Listed(u)' <=> Listed(u) /\ u # th
    BY <1>a, <2>1 DEF Listed
  <2>3. { message_list'[i] : i \in 1 .. Len(message_list') } = { u \in Thread : Listed(u)' }
    <3>1. { message_list'[i] : i \in 1 .. Len(message_list') }
            = { message_list[i] : i \in 1 .. Len(message_list) } \ { th }
      BY <1>0, <2>1, Unlinked
    <3>2. { message_list[i] : i \in 1 .. Len(message_list) } = { u \in Thread : Listed(u) }
      BY <1>0 DEF ListIntact
    <3>3. { u \in Thread : Listed(u) } \ { th } = { u \in Thread : Listed(u)' }
      BY <2>2
    <3> QED
      BY <3>1, <3>2, <3>3
  <2>4. \A i, j \in 1 .. Len(message_list') : message_list'[i] = message_list'[j] => i = j
    BY <1>0, <2>1, Unlinked
  <2>5. ListIntact'
    BY <2>3, <2>4 DEF ListIntact
  <2>6. listener'.cursor = Nobody
    BY <1>0, <2>1 DEF CursorScans
  <2> QED
    BY <2>5, <2>6 DEF NoUseAfterFree, CursorScans
<1>4. ASSUME NEW m \in to_evc, Receive(m)
      PROVE ListIntact' /\ NoUseAfterFree' /\ CursorScans'
  <2>1. /\ message_list' = message_list /\ pc' = pc
        /\ listener' = [message |-> m,
             cursor |-> IF message_list = << >> THEN Nobody ELSE Head(message_list)]
    BY <1>4 DEF Receive
  <2>2. \A u \in Thread : Listed(u)' <=> Listed(u)
    BY <2>1 DEF Listed
  <2>3. ListIntact'
    BY <1>0, <2>1, <2>2 DEF ListIntact
  <2>4. m # NoMessage
    <3>1. m \in Answers
      BY <1>0 DEF WaitTypeOK
    <3> QED
      BY <3>1, IdAssumption DEF Answers, NoMessage
  <2>5. ASSUME message_list # << >> PROVE Head(message_list) \in Thread /\ Listed(Head(message_list))
    <3>1. 1 \in 1 .. Len(message_list) /\ Head(message_list) = message_list[1]
      BY <1>0, <2>5 DEF WaitTypeOK
    <3> QED
      BY <1>0, <3>1 DEF ListIntact
  <2>6. NoUseAfterFree'
    BY <1>a, <2>1, <2>2, <2>5 DEF NoUseAfterFree
  <2> QED
    BY <2>1, <2>3, <2>4, <2>6 DEF CursorScans, Scanning
<1>5. CASE Advance
  <2>1. /\ message_list' = message_list /\ pc' = pc /\ Scanning
        /\ listener.cursor \in Thread /\ Listed(listener.cursor)
        /\ listener' = [listener EXCEPT !.cursor = After(@)]
    BY <1>0, <1>5, <1>a DEF Advance, NoUseAfterFree
  <2>2. \A u \in Thread : Listed(u)' <=> Listed(u)
    BY <2>1 DEF Listed
  <2>3. ListIntact'
    BY <1>0, <2>1, <2>2 DEF ListIntact
  <2>4. listener'.cursor = After(listener.cursor) /\ listener'.message = listener.message
    BY <1>a, <2>1
  <2>5. NoUseAfterFree'
    <3> SUFFICES ASSUME After(listener.cursor) # Nobody PROVE Listed(listener.cursor)'
      BY <2>4 DEF NoUseAfterFree
    <3>1. After(listener.cursor) \in Thread /\ Listed(After(listener.cursor))
      BY <1>0, <2>1, AfterListed
    <3> QED
      BY <2>1, <2>4, <3>1 DEF Listed
  <2> QED
    BY <2>1, <2>3, <2>4, <2>5 DEF CursorScans, Scanning
<1>6. ASSUME Deliver \/ StoreRequest
      PROVE ListIntact' /\ NoUseAfterFree' /\ CursorScans'
  <2>1. message_list' = message_list /\ listener'.cursor = Nobody
    BY <1>6 DEF Deliver, StoreRequest
  <2>2. \A u \in Thread : Listed(u)' <=> Listed(u)
    BY <1>6, <1>a DEF Deliver, StoreRequest, Listed
  <2>3. ListIntact'
    BY <1>0, <2>1, <2>2 DEF ListIntact
  <2> QED
    BY <2>1, <2>3 DEF NoUseAfterFree, CursorScans
<1>7. ASSUME \/ \E m \in to_rbc : RbcReceive(m)
             \/ Dispatch
             \/ \E m \in handlers : Respond(m)
             \/ Lose
             \/ UNCHANGED vars
      PROVE ListIntact' /\ NoUseAfterFree' /\ CursorScans'
  <2>1. message_list' = message_list /\ listener' = listener /\ pc' = pc
    BY <1>7 DEF RbcReceive, Dispatch, Respond, Lose, evc, vars
  <2> QED
    BY <1>0, <1>a, <2>1, SameList
<1> QED
  BY <1>1, <1>2, <1>3, <1>4, <1>5, <1>6, <1>7 DEF Next, Request

-----------------------------------------------------------------------------
(* The theorems                                                            *)

\* What wait_for_response and message_listener keep between them: every datagram
\* that bears the id of a thread is its request or its answer, a response that
\* is ready holds that answer or the timeout, and the list links what is awaited.
THEOREM WaitInvariant == Spec => []WaitInv
<1>1. WaitInv /\ [Next]_vars => WaitInv'
  BY TypeStep, IdStep, AnsweredStep, ListStep DEF WaitInv
<1> QED
  BY InitWaits, <1>1, PTL DEF Spec

\* The removal at the end of wait_for_response, which searches the list for its
\* node, never unlinks that of the other thread nor leaves its own behind.
THEOREM ListStaysIntact == Spec => []ListIntact
<1>1. WaitInv => ListIntact
  BY DEF WaitInv
<1> QED
  BY WaitInvariant, <1>1, PTL

\* message_listener walks the list under its mutex: a thread that has given up
\* after 5 s cannot free the response the walk is at.
THEOREM NeverFollowsFreed == Spec => []NoUseAfterFree
<1>1. WaitInv => NoUseAfterFree
  BY DEF WaitInv
<1> QED
  BY WaitInvariant, <1>1, PTL

\* wait_for_response returns the answer of its own request, or -1 after 5 s,
\* though it copies the message once it has left the mutex of the response.
THEOREM OwnAnswer == Spec => []ReturnsItsAnswer
<1>1. WaitInv => ReturnsItsAnswer
  BY DEF WaitInv, Answered, ReturnsItsAnswer, Right
<1> QED
  BY WaitInvariant, <1>1, PTL

-----------------------------------------------------------------------------
(* The first position                                                      *)

\* Until the RBC has a position of the train, nothing the EVC or the network
\* holds says so.
NotYetKnown ==
    /\ pos_initialized = FALSE /\ pc["eoa_handler"] = "free"
    /\ \A m \in Travelling : m.code # 201
    /\ \A th \in Thread : response[th].code # 201 /\ recv_message[th] # 201

KnownFirst == ~stored.known => NotYetKnown

StoredTyped == stored \in [known : BOOLEAN, after : SUBSET Id]

LEMMA InitKnown == Init => KnownFirst
BY DEF Init, KnownFirst, NotYetKnown, Travelling, NoMessage, Unwritten, Thread

LEMMA KnownStep ==
    ASSUME WaitInv, WaitInv', StoredTyped, KnownFirst, [Next]_vars
    PROVE  KnownFirst'
<1> SUFFICES ASSUME ~stored'.known
             PROVE  NotYetKnown'
  BY DEF KnownFirst
<1>0. WaitTypeOK /\ WaitTypeOK'
  BY DEF WaitInv
<1> USE DEF WaitTypeOK
<1>a. stored.known = stored'.known => NotYetKnown
  BY DEF KnownFirst
<1>1. ASSUME NEW th \in Thread, Send(th) PROVE NotYetKnown'
  <2>1. stored.known = stored'.known
    BY <1>1 DEF Send, StoredTyped
  <2>2. th = "report_position"
    BY <1>1, <1>a, <2>1 DEF Send, NotYetKnown, Thread
  <2>3. PICK i \in Id : to_rbc' = to_rbc \cup { [id |-> i, code |-> 101] }
    BY <1>1, <2>2 DEF Send, Code
  <2>4. \A m \in Travelling' : m \in Travelling \/ m.code = 101
    BY <1>1, <2>3 DEF Send, evc, Travelling
  <2> QED
    BY <1>0, <1>1, <1>a, <2>1, <2>2, <2>4 DEF Send, evc, NotYetKnown, Thread
<1>2. ASSUME NEW th \in Thread, Register(th) PROVE NotYetKnown'
  BY <1>0, <1>2, <1>a DEF Register, net, NotYetKnown, Travelling
<1>3. ASSUME NEW th \in Thread, Check(th) PROVE NotYetKnown'
  BY <1>0, <1>3, <1>a DEF Check, evc, net, NotYetKnown, Travelling
<1>4. ASSUME NEW th \in Thread, TimeOut(th) PROVE NotYetKnown'
  BY <1>0, <1>4, <1>a DEF TimeOut, net, NotYetKnown, Travelling, TimedOut, HasTimeout
<1>5. ASSUME NEW th \in Thread, Copy(th) PROVE NotYetKnown'
  BY <1>0, <1>5, <1>a DEF Copy, net, NotYetKnown, Travelling
<1>6. ASSUME NEW th \in Thread, Return(th) PROVE NotYetKnown'
  <2>1. /\ NotYetKnown /\ pc[th] = "copied" /\ Travelling' = Travelling
        /\ pos_initialized' = (pos_initialized \/ recv_message[th] = 201)
        /\ pc' = [pc EXCEPT ![th] = "free"]
        /\ response' = [response EXCEPT ![th] = [code |-> Unwritten, ready |-> FALSE]]
        /\ recv_message' = [recv_message EXCEPT ![th] = Unwritten]
    BY <1>6, <1>a DEF Return, Leave, net, Travelling
  <2>2. pos_initialized' = FALSE
    BY <2>1 DEF NotYetKnown
  <2>3. pc'["eoa_handler"] = "free"
    BY <1>0, <2>1 DEF NotYetKnown
  <2>4. \A u \in Thread : response'[u].code # 201 /\ recv_message'[u] # 201
    BY <1>0, <2>1 DEF NotYetKnown, Unwritten
  <2> QED
    BY <2>1, <2>2, <2>3, <2>4 DEF NotYetKnown
<1>7. ASSUME NEW m \in to_evc, Receive(m) PROVE NotYetKnown'
  <2>1. \A n \in Travelling' : n \in Travelling
    BY <1>0, <1>7 DEF Receive, Travelling
  <2> QED
    BY <1>7, <1>a, <2>1 DEF Receive, NotYetKnown
<1>8. CASE Advance
  BY <1>0, <1>8, <1>a DEF Advance, net, NotYetKnown, Travelling
<1>9. CASE Deliver
  <2>1. listener.cursor \in Thread /\ listener.message.code # 201
    BY <1>0, <1>9, <1>a DEF Deliver, Matches, net, NotYetKnown, Travelling
  <2>2. \A n \in Travelling' : n \in Travelling \/ n = NoMessage
    BY <1>9 DEF Deliver, net, Travelling
  <2>3. \A th \in Thread : response'[th].code # 201
    BY <1>0, <1>9, <1>a, <2>1 DEF Deliver, net, NotYetKnown
  <2> QED
    BY <1>0, <1>9, <1>a, <2>2, <2>3 DEF Deliver, net, NotYetKnown, NoMessage, Unwritten
<1>10. CASE StoreRequest
  <2>1. \A n \in Travelling' : n \in Travelling \/ n = NoMessage
    BY <1>10 DEF StoreRequest, net, Travelling
  <2> QED
    BY <1>10, <1>a, <2>1 DEF StoreRequest, net, NotYetKnown, NoMessage, Unwritten
<1>11. ASSUME NEW m \in to_rbc, RbcReceive(m) PROVE NotYetKnown'
  BY <1>0, <1>11, <1>a DEF RbcReceive, evc, NotYetKnown, Travelling
<1>12. CASE Dispatch
  BY <1>0, <1>12, <1>a DEF Dispatch, evc, NotYetKnown, Travelling, NoMessage, Unwritten
<1>13. ASSUME NEW m \in handlers, Respond(m) PROVE NotYetKnown'
  <2>1. m.code # 101 /\ stored' = stored
    BY <1>13 DEF Respond
  <2>2. m \in Asked
    BY <1>0
  <2>3. Ack(m.code) = 202
    BY <2>1, <2>2 DEF Asked, Ack
  <2>4. \A n \in Travelling' : n \in Travelling \/ n.code = 202
    BY <1>13, <2>3 DEF Respond, evc, Travelling
  <2> QED
    BY <1>13, <1>a, <2>1, <2>4 DEF Respond, evc, NotYetKnown
<1>14. CASE Lose
  <2>1. \A n \in Travelling' : n \in Travelling
    BY <1>14 DEF Lose, evc, Travelling
  <2> QED
    BY <1>14, <1>a, <2>1 DEF Lose, evc, NotYetKnown
<1>15. CASE UNCHANGED vars
  BY <1>15, <1>a DEF vars, NotYetKnown, Travelling
<1> QED
  BY <1>1, <1>2, <1>3, <1>4, <1>5, <1>6, <1>7, <1>8, <1>9, <1>10, <1>11, <1>12, <1>13, <1>14,
     <1>15 DEF Next, Request

HistoryTyped == StoredTyped /\ older \in [Id -> SUBSET Id]

LEMMA InitHistory == Init => HistoryTyped
BY DEF Init, HistoryTyped, StoredTyped

LEMMA HistoryStep == WaitInv /\ HistoryTyped /\ [Next]_vars => HistoryTyped'
<1> SUFFICES ASSUME WaitInv, HistoryTyped, [Next]_vars PROVE HistoryTyped'
  OBVIOUS
<1> USE DEF HistoryTyped, StoredTyped
<1>1. ASSUME NEW th \in Thread, Send(th) PROVE HistoryTyped'
  <2>1. Pending \subseteq Id
    BY IdAssumption DEF Pending, WaitInv, WaitTypeOK, Asked, NoMessage, Unwritten
  <2>2. PICK i \in Id :
           older' = [j \in Id |-> IF j = i /\ th = "report_position" THEN Pending
                                  ELSE IF j \in Pending THEN older[j] \cap Pending ELSE {}]
    BY <1>1 DEF Send
  <2>3. stored' = [stored EXCEPT !.after = @ \cap Pending]
    BY <1>1 DEF Send
  <2> QED
    BY <2>1, <2>2, <2>3
<1>2. ASSUME NEW m \in handlers, Respond(m) PROVE HistoryTyped'
  <2>1. m.id \in Id
    BY DEF WaitInv, WaitTypeOK, Asked
  <2> QED
    BY <1>2, <2>1 DEF Respond
<1>3. ASSUME NEW th \in Thread,
             Register(th) \/ Check(th) \/ TimeOut(th) \/ Copy(th) \/ Return(th)
      PROVE HistoryTyped'
  BY <1>3 DEF Register, Check, TimeOut, Copy, Return, Leave, net
<1>4. ASSUME \/ \E m \in to_evc : Receive(m)
             \/ Advance \/ Deliver \/ StoreRequest
             \/ \E m \in to_rbc : RbcReceive(m)
             \/ Dispatch \/ Lose
             \/ UNCHANGED vars
      PROVE HistoryTyped'
  BY <1>4 DEF Receive, Advance, Deliver, StoreRequest, RbcReceive, Dispatch, Lose, net, vars
<1> QED
  BY <1>1, <1>2, <1>3, <1>4 DEF Next, Request

\* The thread of the EOA asks for nothing before the RBC knows where the train
\* is: only a 201 lets it start, and the RBC sends the first one after it has
\* stored a position, however many answers are lost, late or doubled.
THEOREM AuthoritiesNeedPosition == Spec => []AsksOncePositioned
<1>1. WaitInv /\ WaitInv' /\ HistoryTyped /\ KnownFirst /\ [Next]_vars => KnownFirst'
  BY KnownStep DEF HistoryTyped
<1>2. HistoryTyped /\ KnownFirst => AsksOncePositioned
  BY DEF HistoryTyped, StoredTyped, KnownFirst, NotYetKnown, AsksOncePositioned, Positioned
<1>3. Spec => []HistoryTyped
  BY InitHistory, HistoryStep, WaitInvariant, PTL DEF Spec
<1>4. Spec => []KnownFirst
  BY InitKnown, <1>1, <1>3, WaitInvariant, PTL DEF Spec
<1> QED
  BY <1>2, <1>3, <1>4, PTL

-----------------------------------------------------------------------------
(* The order of the reports, when no answer takes more than 5 s            *)

Requests == to_rbc \cup handlers \cup { rbc_request }

\* A report the RBC has still to handle is the one report_position waits for.
Awaited ==
    \A m \in Requests : m.code = 101 =>
        /\ m.id = req_id["report_position"]
        /\ pc["report_position"] \in { "sent", "check", "waiting" }
        /\ response["report_position"].ready = FALSE

NotReadyYet ==
    pc["report_position"] \in { "free", "sent" } => response["report_position"].ready = FALSE

\* A report that has its answer is handled, and each is in one place.
AnsweredOnce ==
    /\ \A m \in to_evc \cup { listener.message } : \A n \in Requests :
          m.code = 201 /\ n.code = 101 => m.id # n.id
    /\ \A m \in to_rbc : m.code = 101 => m \notin handlers /\ m # rbc_request
    /\ \A m \in handlers : m.code = 101 => m # rbc_request

NoneBefore == stored.after = {} /\ \A i \in Id : older[i] = {}

OneReport == Awaited /\ NotReadyYet /\ AnsweredOnce /\ NoneBefore

LEMMA InitOneReport == Init => OneReport
BY DEF Init, OneReport, Awaited, NotReadyYet, AnsweredOnce, NoneBefore, Requests, NoMessage,
       Unwritten, Thread

\* What a step that leaves the RBC, the datagrams and the histories alone needs.
LEMMA SameReports ==
    ASSUME OneReport, UNCHANGED net, listener'.message \in { listener.message, NoMessage },
           Awaited', NotReadyYet'
    PROVE  OneReport'
BY DEF OneReport, AnsweredOnce, NoneBefore, Requests, net, NoMessage, Unwritten

LEMMA OneReportStep ==
    ASSUME Slow = FALSE, WaitInv, WaitInv', HistoryTyped, OneReport, [Next]_vars
    PROVE  OneReport'
<1> DEFINE rp == "report_position"
<1>0. WaitTypeOK /\ WaitTypeOK' /\ IdsOwned /\ NoUseAfterFree
  BY DEF WaitInv
<1>a. /\ pc \in [Thread -> Phase] /\ rp \in Thread
      /\ req_id \in [Thread -> Id \cup { NoId }]
      /\ response \in [Thread -> [code : Codes, ready : BOOLEAN]]
      /\ Requests \subseteq Asked \cup { NoMessage }
      /\ to_rbc \subseteq Asked /\ handlers \subseteq Asked
  BY <1>0 DEF WaitTypeOK, Thread, Requests
<1>b. /\ Awaited /\ NotReadyYet /\ AnsweredOnce /\ NoneBefore
      /\ stored \in [known : BOOLEAN, after : SUBSET Id] /\ older \in [Id -> SUBSET Id]
  BY DEF OneReport, HistoryTyped, StoredTyped
<1>1. ASSUME NEW th \in Thread, Send(th) PROVE OneReport'
  <2>1. PICK i \in Id \ InUse :
          /\ req_id' = [req_id EXCEPT ![th] = i]
          /\ to_rbc' = to_rbc \cup { [id |-> i, code |-> Code(th)] }
          /\ older' = [j \in Id |-> IF j = i /\ th = "report_position" THEN Pending
                                   ELSE IF j \in Pending THEN older[j] \cap Pending ELSE {}]
    BY <1>1 DEF Send
  <2>2. /\ pc[th] = "free" /\ pc' = [pc EXCEPT ![th] = "sent"]
        /\ stored' = [stored EXCEPT !.after = @ \cap Pending]
        /\ response' = response /\ listener' = listener /\ to_evc' = to_evc
        /\ handlers' = handlers /\ rbc_request' = rbc_request
    BY <1>1 DEF Send, evc
  <2>3. \A m \in Travelling : m.id # i
    BY FreshId
  <2>4. Requests' = Requests \cup { [id |-> i, code |-> Code(th)] } /\ Requests \subseteq Travelling
    BY <2>1, <2>2 DEF Requests, Travelling
  <2>5. th = rp => Pending = {}
    BY <1>b, <2>2 DEF Awaited, Pending, Requests
  <2>6. NoneBefore'
    BY <1>b, <2>1, <2>2, <2>5 DEF NoneBefore
  <2>7. Awaited'
    <3>1. CASE th = rp
      BY <1>a, <1>b, <2>1, <2>2, <2>4, <3>1 DEF Awaited, NotReadyYet
    <3>2. CASE th # rp
      BY <1>a, <1>b, <2>1, <2>2, <2>4, <3>2 DEF Awaited, Code
    <3> QED
      BY <3>1, <3>2
  <2>8. NotReadyYet'
    BY <1>a, <1>b, <2>2 DEF NotReadyYet
  <2>9. AnsweredOnce'
    <3>1. \A m \in to_evc \cup { listener.message } : m \in Travelling
      BY DEF Travelling
    <3>2. \A m \in to_evc' \cup { listener'.message } : \A n \in Requests' :
             m.code = 201 /\ n.code = 101 => m.id # n.id
      BY <1>b, <2>2, <2>3, <2>4, <3>1 DEF AnsweredOnce
    <3>3. [id |-> i, code |-> Code(th)] \notin handlers \cup { rbc_request }
      BY <2>3, <2>4 DEF Requests
    <3> QED
      BY <1>b, <2>1, <2>2, <3>2, <3>3 DEF AnsweredOnce
  <2> QED
    BY <2>6, <2>7, <2>8, <2>9 DEF OneReport
<1>2. ASSUME NEW th \in Thread, Register(th) PROVE OneReport'
  <2>1. /\ UNCHANGED net /\ listener' = listener /\ req_id' = req_id /\ response' = response
        /\ pc[th] = "sent" /\ pc' = [pc EXCEPT ![th] = "check"] /\ Requests' = Requests
    BY <1>2 DEF Register, net, Requests
  <2> QED
    BY <1>a, <1>b, <2>1, SameReports DEF Awaited, NotReadyYet
<1>3. ASSUME NEW th \in Thread, Check(th) PROVE OneReport'
  <2>1. /\ UNCHANGED net /\ listener' = listener /\ req_id' = req_id /\ response' = response
        /\ pc[th] \in { "check", "signalled" } /\ Requests' = Requests
        /\ pc' = [pc EXCEPT ![th] = IF response[th].ready THEN "over" ELSE "waiting"]
    BY <1>3 DEF Check, evc, net, Requests
  <2> QED
    BY <1>a, <1>b, <2>1, SameReports DEF Awaited, NotReadyYet
<1>4. ASSUME NEW th \in Thread, TimeOut(th) PROVE OneReport'
  <2>1. /\ UNCHANGED net /\ listener' = listener /\ req_id' = req_id
        /\ pc[th] \in { "waiting", "signalled" } /\ Requests' = Requests
        /\ pc' = [pc EXCEPT ![th] = "over"]
        /\ th = rp /\ (~UnderWay(th) \/ pc[th] = "signalled")
    BY <1>4 DEF TimeOut, net, Requests, HasTimeout, Elapsed
  <2>2. ~ \E m \in Requests : m.code = 101
    BY <1>b, <2>1 DEF Awaited, UnderWay, Requests
  <2>3. Awaited' /\ NotReadyYet'
    BY <1>a, <2>1, <2>2 DEF Awaited, NotReadyYet
  <2> QED
    BY <2>1, <2>3, SameReports
<1>5. ASSUME NEW th \in Thread, Copy(th) PROVE OneReport'
  <2>1. /\ UNCHANGED net /\ listener' = listener /\ req_id' = req_id /\ response' = response
        /\ pc[th] = "over" /\ pc' = [pc EXCEPT ![th] = "copied"] /\ Requests' = Requests
    BY <1>5 DEF Copy, net, Requests
  <2> QED
    BY <1>a, <1>b, <2>1, SameReports DEF Awaited, NotReadyYet
<1>6. ASSUME NEW th \in Thread, Return(th) PROVE OneReport'
  <2>1. /\ UNCHANGED net /\ listener' = listener
        /\ req_id' = [req_id EXCEPT ![th] = NoId]
        /\ response' = [response EXCEPT ![th] = [code |-> Unwritten, ready |-> FALSE]]
        /\ pc[th] = "copied" /\ pc' = [pc EXCEPT ![th] = "free"] /\ Requests' = Requests
    BY <1>6 DEF Return, Leave, net, Requests
  <2> QED
    BY <1>a, <1>b, <2>1, SameReports DEF Awaited, NotReadyYet
<1>7. ASSUME NEW m \in to_evc, Receive(m) PROVE OneReport'
  <2>1. /\ to_evc' \subseteq to_evc /\ listener'.message = m /\ Requests' = Requests
        /\ UNCHANGED << pc, req_id, response, to_rbc, rbc_request, handlers, older, stored >>
    BY <1>7 DEF Receive, Requests
  <2> QED
    BY <1>b, <2>1 DEF OneReport, Awaited, NotReadyYet, AnsweredOnce, NoneBefore
<1>8. ASSUME Advance \/ StoreRequest PROVE OneReport'
  <2>1. /\ listener'.message \in { listener.message, NoMessage } /\ Requests' = Requests
        /\ UNCHANGED << pc, req_id, response, net >>
    BY <1>0, <1>8 DEF Advance, StoreRequest, net, Requests, WaitTypeOK
  <2> QED
    BY <1>b, <2>1, SameReports DEF Awaited, NotReadyYet
<1>9. CASE Deliver
  <2> DEFINE th == listener.cursor
  <2>1. /\ th \in Thread /\ listener.message \in Answers /\ listener.message.id = req_id[th]
        /\ Listed(th)
    BY <1>0, <1>9 DEF Deliver, Scanning, Matches, WaitTypeOK, NoUseAfterFree
  <2>2. /\ UNCHANGED net /\ listener'.message = NoMessage /\ req_id' = req_id
        /\ response' = [response EXCEPT ![th] = [code |-> listener.message.code, ready |-> TRUE]]
        /\ pc' = [pc EXCEPT ![th] = IF @ = "waiting" THEN "signalled" ELSE @]
        /\ Requests' = Requests
    BY <1>9 DEF Deliver, net, Requests
  <2>3. th = rp => listener.message.code = 201
    <3>1. listener.message.id # NoId /\ listener.message.code \in { 201, 202 }
      BY <2>1, IdAssumption DEF Answers
    <3>2. listener.message.code \in { Code(th), Ack(Code(th)) }
      BY <1>0, <2>1, <3>1 DEF IdsOwned, Travelling
    <3> QED
      BY <3>1, <3>2 DEF Code, Ack
  <2>4. th = rp => ~ \E m \in Requests : m.code = 101
    BY <1>b, <2>1, <2>3 DEF Awaited, AnsweredOnce
  <2>5. th = rp => pc'[rp] \notin { "free", "sent" }
    BY <1>a, <2>1, <2>2 DEF Listed
  <2> HIDE DEF th
  <2>6. th # rp => pc'[rp] = pc[rp] /\ response'[rp] = response[rp]
    BY <1>a, <2>2
  <2>7. Awaited'
    BY <1>b, <2>2, <2>4, <2>6 DEF Awaited
  <2>8. NotReadyYet'
    BY <1>b, <2>5, <2>6 DEF NotReadyYet
  <2> QED
    BY <2>2, <2>7, <2>8, SameReports
<1>10. ASSUME NEW m \in to_rbc, RbcReceive(m) PROVE OneReport'
  <2>1. /\ to_rbc' = to_rbc \ { m } /\ rbc_request' = m /\ handlers' = handlers
        /\ UNCHANGED << pc, req_id, response, listener, to_evc, older, stored >>
    BY <1>10 DEF RbcReceive, evc
  <2>2. Requests' \subseteq Requests
    BY <2>1 DEF Requests
  <2>3. Awaited' /\ NotReadyYet' /\ NoneBefore'
    BY <1>b, <2>1, <2>2 DEF Awaited, NotReadyYet, NoneBefore
  <2>4. AnsweredOnce'
    BY <1>b, <2>1, <2>2 DEF AnsweredOnce
  <2> QED
    BY <2>3, <2>4 DEF OneReport
<1>11. CASE Dispatch
  <2>1. /\ handlers' = handlers \cup { rbc_request } /\ rbc_request' = NoMessage
        /\ UNCHANGED << pc, req_id, response, listener, to_rbc, to_evc, older, stored >>
    BY <1>11 DEF Dispatch, evc
  <2>2. Requests' \subseteq Requests \cup { NoMessage } /\ NoMessage.code # 101
    BY <2>1 DEF Requests, NoMessage, Unwritten
  <2>3. Awaited' /\ NotReadyYet' /\ NoneBefore'
    BY <1>b, <2>1, <2>2 DEF Awaited, NotReadyYet, NoneBefore
  <2>4. AnsweredOnce'
    BY <1>b, <2>1, <2>2 DEF AnsweredOnce
  <2> QED
    BY <2>3, <2>4 DEF OneReport
<1>12. ASSUME NEW m \in handlers, Respond(m) PROVE OneReport'
  <2>1. /\ handlers' = handlers \ { m }
        /\ to_evc' = to_evc \cup { [id |-> m.id, code |-> Ack(m.code)] }
        /\ stored' = IF m.code = 101 THEN [known |-> TRUE, after |-> older[m.id]] ELSE stored
        /\ UNCHANGED << pc, req_id, response, listener, to_rbc, rbc_request, older >>
    BY <1>12 DEF Respond, evc
  <2>2. m \in Asked /\ m \in Requests
    BY <1>a DEF Requests
  <2>3. Requests' \subseteq Requests
    BY <2>1 DEF Requests
  <2>4. NoneBefore'
    BY <1>b, <2>1, <2>2 DEF NoneBefore, Asked
  <2>5. Awaited' /\ NotReadyYet'
    BY <1>b, <2>1, <2>3 DEF Awaited, NotReadyYet
  <2>6. ASSUME NEW n \in Requests', n.code = 101, Ack(m.code) = 201 PROVE m.id # n.id
    <3>1. m.code = 101
      BY <2>2, <2>6 DEF Asked, Ack
    <3>2. n \in Asked
      BY <1>a, <2>3, <2>6 DEF NoMessage, Unwritten
    <3>3. n # m
      BY <1>b, <2>1, <2>6, <3>1 DEF AnsweredOnce, Requests
    <3> QED
      BY <2>2, <2>6, <3>1, <3>2, <3>3 DEF Asked
  <2>7. AnsweredOnce'
    BY <1>b, <2>1, <2>3, <2>6 DEF AnsweredOnce
  <2> QED
    BY <2>4, <2>5, <2>7 DEF OneReport
<1>13. CASE Lose
  <2>1. /\ to_rbc' \subseteq to_rbc /\ to_evc' \subseteq to_evc
        /\ UNCHANGED << pc, req_id, response, listener, rbc_request, handlers, older, stored >>
    BY <1>13 DEF Lose, evc
  <2>2. Requests' \subseteq Requests
    BY <2>1 DEF Requests
  <2> QED
    BY <1>b, <2>1, <2>2 DEF OneReport, Awaited, NotReadyYet, AnsweredOnce, NoneBefore
<1>14. CASE UNCHANGED vars
  BY <1>14, <1>b DEF vars, OneReport, Awaited, NotReadyYet, AnsweredOnce, NoneBefore, Requests
<1> QED
  BY <1>1, <1>2, <1>3, <1>4, <1>5, <1>6, <1>7, <1>8, <1>9, <1>10, <1>11, <1>12, <1>13, <1>14
  DEF Next, Request

\* The RBC has one thread for each request, and only the 5 s wait of
\* report_position orders them: as long as no answer takes longer, whatever is
\* lost or doubled, no position replaces one that was sent after it.
THEOREM ReportsStayInOrder ==
    ASSUME Slow = FALSE
    PROVE  Spec => []ReportsInOrder
<1>1. WaitInv /\ WaitInv' /\ HistoryTyped /\ OneReport /\ [Next]_vars => OneReport'
  BY OneReportStep
<1>2. OneReport => ReportsInOrder
  BY DEF OneReport, NoneBefore, ReportsInOrder
<1>3. Spec => []HistoryTyped
  BY InitHistory, HistoryStep, WaitInvariant, PTL DEF Spec
<1> QED
  BY InitOneReport, <1>1, <1>2, <1>3, WaitInvariant, PTL DEF Spec
=============================================================================
