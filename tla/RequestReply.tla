----------------------------- MODULE RequestReply -----------------------------
(***************************************************************************)
(* How the two client threads of an EVC (report_position, eoa_handler) get *)
(* the answers to their requests: wait_for_response and message_listener   *)
(* of app/utility/src/comm_message_listener.c, the UDP datagrams between   *)
(* the train and the RBC, the main loop of the RBC with its single pending *)
(* request, and one handle_and_respond thread per request.                 *)
(*                                                                         *)
(* Grain: message_list_mutex is held by the listener over a whole scan of  *)
(* the list, one step per node; every other critical section is one step.  *)
(* A response is named by the thread that allocated it: a thread has at    *)
(* most one.  What the RBC does with a 102 request is in Interlocking.     *)
(***************************************************************************)
EXTENDS Integers, Sequences

CONSTANTS
    Id,           \* bound: the requests that can exist at one time
    NoId,         \* no request
    Lossy,        \* TRUE: the network may lose a datagram
    Duplicated,   \* TRUE: the network may deliver an answer more than once
    Slow          \* TRUE: an answer may take more than 5 s to come

ASSUME FlagsAssumption == Lossy \in BOOLEAN /\ Duplicated \in BOOLEAN /\ Slow \in BOOLEAN
ASSUME IdAssumption == NoId \notin Id

Thread == { "report_position", "eoa_handler" }
Nobody == "none"

\* comm.h: the request of each thread and its acknowledgement; -1 is what a
\* timeout leaves, 0 what a malloc'ed message holds before anyone writes it.
Code(th)    == IF th = "report_position" THEN 101 ELSE 102
Ack(code)   == code + 100
TimedOut    == -1
Unwritten   == 0
Message     == [id : Id, code : { 101, 102, 201, 202 }]
NoMessage   == [id |-> NoId, code |-> Unwritten]

\* position.c waits 5 s for its answer, eoa_handler.c passes 0: for ever.
HasTimeout(th) == th = "report_position"

VARIABLES
    pc,              \* where each thread is, see Phase
    req_id,          \* the request each thread has sent
    response,        \* the pending_message_t of each thread: message code and ready
    recv_message,    \* what wait_for_response returned to each thread
    message_list,    \* the list of waiting responses, head first
    listener,        \* message_listener: the message it looks for and its cursor
    pending_request, \* code of what the EVC listener last stored as a request
    pos_initialized, \* the RBC has acknowledged a position
    to_rbc, to_evc,  \* datagrams on the network
    rbc_request,     \* pending_request of the RBC main loop
    handlers,        \* requests that have their handle_and_respond thread
    older,           \* history: the reports that each report still awaited was sent after
    stored           \* history: of the report whose position is in pos_trains, if there
                     \* is one, whether there is and the reports it was sent after

vars == << pc, req_id, response, recv_message, message_list, listener, pending_request,
           pos_initialized, to_rbc, to_evc, rbc_request, handlers, older, stored >>
evc  == << response, recv_message, message_list, listener, pending_request,
           pos_initialized >>
net  == << to_rbc, to_evc, rbc_request, handlers, older, stored >>

\* free: outside a request.  sent: not yet in the list.  check: at the while
\* loop.  waiting: in pthread_cond_(timed)wait.  signalled: woken, at the loop
\* again when it runs.  over: out of the loop.  copied: has its answer.
Phase == { "free", "sent", "check", "waiting", "signalled", "over", "copied" }
Listed(th) == pc[th] \notin { "free", "sent" }
Scanning   == listener.message # NoMessage

Init ==
    /\ pc = [th \in Thread |-> "free"]
    /\ req_id = [th \in Thread |-> NoId]
    /\ response = [th \in Thread |-> [code |-> Unwritten, ready |-> FALSE]]
    /\ recv_message = [th \in Thread |-> Unwritten]
    /\ message_list = << >>
    /\ listener = [message |-> NoMessage, cursor |-> Nobody]
    /\ pending_request = Unwritten
    /\ pos_initialized = FALSE
    /\ to_rbc = {} /\ to_evc = {}
    /\ rbc_request = NoMessage
    /\ handlers = {}
    /\ older = [i \in Id |-> {}]
    /\ stored = [known |-> FALSE, after |-> {}]

-----------------------------------------------------------------------------
(* A request of one thread                                                 *)

\* The reports the RBC has still to handle.
Pending == { m.id : m \in { n \in to_rbc \cup handlers \cup { rbc_request } : n.code = 101 } }
InUse   == { m.id : m \in to_rbc \cup to_evc \cup handlers
                            \cup { rbc_request, listener.message } }
             \cup { req_id[th] : th \in Thread }
Positioned == stored.known

\* generate_unique_req_id and send_data.  next_req_id only grows: a new id is
\* one that nothing refers to any more.  eoa_handler starts once a position has
\* been acknowledged.
Send(th) ==
    /\ pc[th] = "free"
    /\ th = "eoa_handler" => pos_initialized
    /\ \E i \in Id \ InUse :
         /\ req_id' = [req_id EXCEPT ![th] = i]
         /\ to_rbc' = to_rbc \cup { [id |-> i, code |-> Code(th)] }
         /\ older' = [j \in Id |-> IF j = i /\ th = "report_position" THEN Pending
                                   ELSE IF j \in Pending THEN older[j] \cap Pending ELSE {}]
         /\ stored' = [stored EXCEPT !.after = @ \cap Pending]
    /\ pc' = [pc EXCEPT ![th] = "sent"]
    /\ UNCHANGED << evc, to_evc, rbc_request, handlers >>

\* wait_for_response: a new response, not ready, at the head of the list.
Register(th) ==
    /\ pc[th] = "sent"
    /\ ~Scanning
    /\ message_list' = << th >> \o message_list
    /\ pc' = [pc EXCEPT ![th] = "check"]
    /\ UNCHANGED << req_id, response, recv_message, listener, pending_request, pos_initialized, net >>

\* Mutant of Check: the thread does not wait.
Check_NoWait(th) ==
    /\ pc[th] \in { "check", "signalled" }
    /\ pc' = [pc EXCEPT ![th] = "over"]
    /\ UNCHANGED << req_id, evc, net >>

\* The test of the while loop, at first and after each signal.
Check(th) ==
    /\ pc[th] \in { "check", "signalled" }
    /\ pc' = [pc EXCEPT ![th] = IF response[th].ready THEN "over" ELSE "waiting"]
    /\ UNCHANGED << req_id, evc, net >>

\* The answer of thread th may still come.
UnderWay(th) ==
    req_id[th] \in { m.id : m \in to_rbc \cup to_evc \cup handlers
                                   \cup { rbc_request, listener.message } }

\* 5 s are over; an answer that is not slow has come and woken th before that.
Elapsed(th) == Slow \/ (pc[th] = "waiting" /\ ~UnderWay(th))

\* Mutants of TimeOut: the loop is not left; the message is not marked.
TimeOut_NoBreak(th) ==
    /\ HasTimeout(th) /\ Elapsed(th)
    /\ pc[th] \in { "waiting", "signalled" }
    /\ response' = [response EXCEPT ![th].code = TimedOut]
    /\ pc' = [pc EXCEPT ![th] = "check"]
    /\ UNCHANGED << req_id, recv_message, message_list, listener, pending_request,
                    pos_initialized, net >>

TimeOut_NoCode(th) ==
    /\ HasTimeout(th) /\ Elapsed(th)
    /\ pc[th] \in { "waiting", "signalled" }
    /\ response' = [response EXCEPT ![th].ready = TRUE]
    /\ pc' = [pc EXCEPT ![th] = "over"]
    /\ UNCHANGED << req_id, recv_message, message_list, listener, pending_request,
                    pos_initialized, net >>

\* pthread_cond_timedwait returns ETIMEDOUT, possibly when the answer has come
\* while it was waiting for the mutex: the answer is then lost.
TimeOut(th) ==
    /\ HasTimeout(th) /\ Elapsed(th)
    /\ pc[th] \in { "waiting", "signalled" }
    /\ response' = [response EXCEPT ![th] = [code |-> TimedOut, ready |-> TRUE]]
    /\ pc' = [pc EXCEPT ![th] = "over"]
    /\ UNCHANGED << req_id, recv_message, message_list, listener, pending_request,
                    pos_initialized, net >>

\* *recv_message = response->message, without the mutex of the response.
Copy(th) ==
    /\ pc[th] = "over"
    /\ recv_message' = [recv_message EXCEPT ![th] = response[th].code]
    /\ pc' = [pc EXCEPT ![th] = "copied"]
    /\ UNCHANGED << req_id, response, message_list, listener, pending_request,
                    pos_initialized, net >>

\* wait_for_response ends: the list becomes list, the response is freed, and the
\* thread goes on.
Leave(th, list, positioned) ==
    /\ pc[th] = "copied"
    /\ message_list' = list
    /\ pc' = [pc EXCEPT ![th] = "free"]
    /\ req_id' = [req_id EXCEPT ![th] = NoId]
    /\ response' = [response EXCEPT ![th] = [code |-> Unwritten, ready |-> FALSE]]
    /\ recv_message' = [recv_message EXCEPT ![th] = Unwritten]
    /\ pos_initialized' = (pos_initialized \/ positioned)
    /\ UNCHANGED << listener, pending_request, net >>

\* Where the response of thread th is in the list, and the list without it.
Place(th) == CHOOSE i \in 1 .. Len(message_list) : message_list[i] = th
Without(th) ==
    [ i \in 1 .. Len(message_list) - 1 |->
        IF i < Place(th) THEN message_list[i] ELSE message_list[i + 1] ]

\* Mutants of Return: without the mutex of the list; only from its head; any
\* answer, or none, initialises the position.
Return_NoMutex(th) == Leave(th, Without(th), recv_message[th] = 201)
Return_HeadOnly(th) ==
    /\ ~Scanning
    /\ Leave(th, IF Head(message_list) = th THEN Tail(message_list) ELSE message_list,
             recv_message[th] = 201)
Return_AnyCode(th) == ~Scanning /\ Leave(th, Without(th), th = "report_position")

\* The response leaves the list, under its mutex; report_position lets
\* eoa_handler start at its first 201.
Return(th) == ~Scanning /\ Leave(th, Without(th), recv_message[th] = 201)

-----------------------------------------------------------------------------
(* message_listener of the EVC                                             *)

After(th) ==
    IF Place(th) = Len(message_list) THEN Nobody ELSE message_list[Place(th) + 1]

\* receive_data, then the mutex of the list is taken until the scan is over.
Receive(m) ==
    /\ ~Scanning
    /\ to_evc' = to_evc \ { m } \/ (Duplicated /\ to_evc' = to_evc)
    /\ listener' = [message |-> m,
                    cursor |-> IF message_list = << >> THEN Nobody ELSE Head(message_list)]
    /\ UNCHANGED << pc, req_id, response, recv_message, message_list, pending_request,
                    pos_initialized, to_rbc, rbc_request, handlers, older, stored >>

Matches == listener.cursor # Nobody /\ req_id[listener.cursor] = listener.message.id

Advance ==
    /\ Scanning /\ listener.cursor # Nobody /\ ~Matches
    /\ listener' = [listener EXCEPT !.cursor = After(@)]
    /\ UNCHANGED << pc, req_id, response, recv_message, message_list, pending_request,
                    pos_initialized, net >>

\* Mutant of Deliver: the condition is not signalled.
Deliver_NoSignal ==
    /\ Scanning /\ Matches
    /\ response' = [response EXCEPT ![listener.cursor] =
                      [code |-> listener.message.code, ready |-> TRUE]]
    /\ listener' = [message |-> NoMessage, cursor |-> Nobody]
    /\ UNCHANGED << pc, req_id, recv_message, message_list, pending_request,
                    pos_initialized, net >>

\* The message is written to the response found, whose thread is signalled.
Deliver ==
    LET th == listener.cursor IN
    /\ Scanning /\ Matches
    /\ response' = [response EXCEPT ![th] = [code |-> listener.message.code, ready |-> TRUE]]
    /\ pc' = [pc EXCEPT ![th] = IF @ = "waiting" THEN "signalled" ELSE @]
    /\ listener' = [message |-> NoMessage, cursor |-> Nobody]
    /\ UNCHANGED << req_id, recv_message, message_list, pending_request,
                    pos_initialized, net >>

\* No response has that id: the message is stored as a request.  No thread of
\* the EVC ever takes it: requests_handler waits on the copy of pending_request
\* that main made before the listener started.
StoreRequest ==
    /\ Scanning /\ listener.cursor = Nobody
    /\ pending_request' = listener.message.code
    /\ listener' = [message |-> NoMessage, cursor |-> Nobody]
    /\ UNCHANGED << pc, req_id, response, recv_message, message_list,
                    pos_initialized, net >>

-----------------------------------------------------------------------------
(* The RBC and the network                                                 *)

\* message_listener of the RBC, where no thread waits for a response: what it
\* receives replaces the pending request, taken by the main loop or not.
RbcReceive(m) ==
    /\ to_rbc' = to_rbc \ { m }
    /\ rbc_request' = m
    /\ UNCHANGED << pc, req_id, evc, to_evc, handlers, older, stored >>

\* The main loop hands the pending request to a new thread.
Dispatch ==
    /\ rbc_request # NoMessage
    /\ handlers' = handlers \cup { rbc_request }
    /\ rbc_request' = NoMessage
    /\ UNCHANGED << pc, req_id, evc, to_rbc, to_evc, older, stored >>

\* handle_and_respond: a 101 stores its position, which replaces the one that
\* was known, and the answer is sent.
Respond(m) ==
    /\ handlers' = handlers \ { m }
    /\ to_evc' = to_evc \cup { [id |-> m.id, code |-> Ack(m.code)] }
    /\ stored' = IF m.code = 101 THEN [known |-> TRUE, after |-> older[m.id]] ELSE stored
    /\ UNCHANGED << pc, req_id, evc, to_rbc, rbc_request, older >>

\* UDP.
Lose ==
    /\ Lossy
    /\ \/ \E m \in to_rbc : to_rbc' = to_rbc \ { m } /\ UNCHANGED to_evc
       \/ \E m \in to_evc : to_evc' = to_evc \ { m } /\ UNCHANGED to_rbc
    /\ UNCHANGED << pc, req_id, evc, rbc_request, handlers, older, stored >>

Request(th) == \/ Send(th)
               \/ Register(th)
               \/ Check(th)
               \/ TimeOut(th)
               \/ Copy(th)
               \/ Return(th)

Next == \/ \E th \in Thread : Request(th)
        \/ \E m \in to_evc : Receive(m)
        \/ Advance \/ Deliver \/ StoreRequest
        \/ \E m \in to_rbc : RbcReceive(m)
        \/ Dispatch
        \/ \E m \in handlers : Respond(m)
        \/ Lose

Spec == Init /\ [][Next]_vars

\* Threads run; the mutex of the list is free whenever the listener waits for a
\* datagram, so a thread that wants it again and again gets it; a request is
\* received, dispatched and answered, and its answer received, unless it is lost.
Fairness ==
    /\ \A th \in Thread : SF_vars(Register(th) \/ Check(th) \/ Copy(th) \/ Return(th))
    /\ WF_vars(TimeOut("report_position"))
    /\ WF_vars(Send("report_position"))
    /\ WF_vars(Advance \/ Deliver \/ StoreRequest)
    /\ WF_vars(Dispatch)
    /\ \A th \in Thread :
         /\ WF_vars(\E m \in to_rbc : m.code = Code(th) /\ RbcReceive(m))
         /\ WF_vars(\E m \in handlers : m.code = Code(th) /\ Respond(m))
         /\ SF_vars(\E m \in to_evc : m.code = Ack(Code(th)) /\ Receive(m))

FairSpec == Spec /\ Fairness

-----------------------------------------------------------------------------
(* Properties                                                              *)

\* The list links exactly the responses between their registration and their
\* removal, once each: removing one that is not at the head keeps the others.
ListIntact ==
    /\ { message_list[i] : i \in 1 .. Len(message_list) } = { th \in Thread : Listed(th) }
    /\ \A i, j \in 1 .. Len(message_list) : message_list[i] = message_list[j] => i = j

\* The listener never follows or writes a response that its thread has taken
\* out of the list: the thread may free it at any time.
NoUseAfterFree == listener.cursor # Nobody => Listed(listener.cursor)

\* What wait_for_response returns was written, and is the answer to the request
\* of that thread or the mark of its timeout, whatever the other thread awaits
\* and whatever comes late or twice.
ReturnsItsAnswer ==
    \A th \in Thread : pc[th] = "copied" =>
        recv_message[th] \in { Ack(Code(th)) } \cup (IF HasTimeout(th) THEN { TimedOut } ELSE {})

\* eoa_handler asks for its first authority only when the RBC has a position of
\* the train (position.c: "Signals to the EOA handler that the RBC acknowledged
\* the first position").
AsksOncePositioned == pc["eoa_handler"] # "free" => Positioned

\* The RBC never replaces the position of a train by an older one: each request
\* has its own thread, and only the wait for the acknowledgement orders them.
ReportsInOrder == stored.after \cap Pending = {}

\* An answer that was delivered wakes its thread: no wake-up is lost between
\* the test of ready and the wait.
DeliveredIsReturned ==
    \A th \in Thread : pc[th] \in { "check", "waiting" } /\ response[th].ready ~> pc[th] = "free"

\* The train goes on reporting its position whatever the network loses.
KeepsReporting == []<>(pc["report_position"] = "sent")

\* comm_message_listener.h:14: wait_for_response awaits the response to a
\* request, which comes when nothing is lost and the RBC answers.
EoaAnswered == pc["eoa_handler"] = "sent" ~> pc["eoa_handler"] = "free"
=============================================================================
