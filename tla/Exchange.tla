------------------------------- MODULE Exchange -------------------------------
(***************************************************************************)
(* The services of the repository on a Pair.                               *)
(*                                                                         *)
(* "test": TestService on both ends, the ping-pong its main() starts with  *)
(* the same arguments on either side.  "echo": EchoService on the server   *)
(* and, as the client, any program that takes each message it gets.        *)
(*                                                                         *)
(* A callback is part of its handler's action.  What it gives to           *)
(* send_buffer_fill depends on what the handler read, so that the fill is  *)
(* the step after it; until then the strand runs no other handler.         *)
(*                                                                         *)
(* The contents of a message of the ping-pong is the number of copies of   *)
(* msg_blk it has.                                                         *)
(***************************************************************************)
EXTENDS Pair, SequencesExt

CONSTANTS
  Words,      \* contents the echo client sends
  hello_data  \* what EchoService sends first

ASSUME WordsAssumption ==
  1..MaxMessages \subseteq Payload /\ Words \cup {hello_data} \subseteq Payload

VARIABLES
  program,              \* "test" or "echo"
  m_text,               \* TestService: the type of its messages
  m_max_message_count,  \* TestService: where the ping-pong ends
  m_send_finish_count,  \* TestService: connections that got there, by side
  count,                \* the user data of the connection, by side
  owes,                 \* the fill the running callback still makes, by side
  asserted              \* an assert of a service failed

service == <<program, m_text, m_max_message_count, m_send_finish_count, count,
             owes, asserted>>
vars == <<client, server, link, service>>

Sides == {"client", "server"}

Message == [m_text : BOOLEAN, m_buffer : Payload]

-----------------------------------------------------------------------------
(***************************************************************************)
(* What a callback does to its connection and what it returns.             *)
(***************************************************************************)

Reaction(answer, n, fill, finishes, fails) ==
  [drop |-> 0, answer |-> answer, count |-> n, fill |-> fill,
   finishes |-> finishes, fails |-> fails]

Keeping(n)   == Reaction("keep", n, <<>>, 0, FALSE)
Finishing(n) == Reaction("abandon", n, <<>>, 1, FALSE)
Failing(n)   == Reaction("abandon", n, <<>>, 0, TRUE)
Filling(n, text, data) ==
  Reaction("keep", n, <<[m_text |-> text, m_buffer |-> data]>>, 0, FALSE)

\* The same, and recv_buffer_drop().
Dropping(r) == [r EXCEPT !.drop = 1]

(***************************************************************************)
(* What a callback reads of its connection: whether it has a message, and  *)
(* the type and the contents of the one at the front.                      *)
(***************************************************************************)
HasData(queue) == queue # <<>>
DataIsText(queue) == HasData(queue) /\ Head(queue).m_text
BufferData(queue) == Head(queue).m_buffer

(***************************************************************************)
(* TestService.                                                            *)
(***************************************************************************)

\* The count of a new connection.
InsertConnection == Keeping(0)

\* send_message: the next message is one block longer than the last of
\* either side, up to the limit.
SendUncounted(n) == IF m_max_message_count # 0 /\ n >= m_max_message_count
                    THEN Finishing(n) ELSE Filling(n, m_text, n + 1)
SendLast(n) == IF m_max_message_count # 0 /\ n >= m_max_message_count
               THEN Finishing(n) ELSE Filling(n + 1, m_text, n)
SendNoLimit(n) == IF n >= m_max_message_count
                  THEN Keeping(n) ELSE Filling(n + 1, m_text, n + 1)
SendMessage(n) ==
  CASE m_max_message_count = 0 -> Keeping(n)
    [] m_max_message_count # 0 /\ n >= m_max_message_count -> Finishing(n)
    [] n < m_max_message_count -> Filling(n + 1, m_text, n + 1)

\* check_message: a message below the limit that is one block longer.
CheckMessage(n, size) ==
  CASE n >= m_max_message_count -> Failing(n)
    [] n < m_max_message_count /\ size # n + 1 -> Failing(n + 1)
    [] OTHER -> Keeping(n + 1)

\* recv_message
RecvMessage(n, queue) ==
  IF m_max_message_count = 0 \/ ~HasData(queue) \/ DataIsText(queue) # m_text
  THEN Failing(n)
  ELSE LET check == CheckMessage(n, BufferData(queue))
       IN  IF check.fails THEN check
           ELSE Dropping(SendMessage(check.count))

(***************************************************************************)
(* EchoService, which leaves the user data alone, and its client.          *)
(***************************************************************************)

EchoSend(text, data) == Filling(0, text, data)

\* recv_message: what is at the front goes back with its type.
EchoAsText(queue) == Dropping(EchoSend(TRUE, BufferData(queue)))
EchoRecv(queue) ==
  IF ~HasData(queue) THEN Failing(0)
  ELSE Dropping(EchoSend(DataIsText(queue), BufferData(queue)))

EchoClientRecv ==
  {Dropping(Reaction(a, 0, <<>>, 0, FALSE)) : a \in {"keep", "abandon"}}

(***************************************************************************)
(* The callbacks.                                                          *)
(***************************************************************************)
OnConnect == IF program = "test" THEN SendMessage(InsertConnection.count)
                                 ELSE Keeping(0)

OnAccept == IF program = "test" THEN InsertConnection
                                ELSE EchoSend(TRUE, hello_data)

OnRecv(side, queue) ==
  CASE program = "test" -> {RecvMessage(count[side], queue)}
    [] program = "echo" /\ side = "server" -> {EchoRecv(queue)}
    [] program = "echo" /\ side = "client" -> EchoClientRecv

\* set_user_data
SetUserData(side, n) == count' = [count EXCEPT ![side] = n]

\* The service's side of a callback that does r.
Callback(side, r) ==
  /\ SetUserData(side, r.count)
  /\ owes' = [owes EXCEPT ![side] = r.fill]
  /\ m_send_finish_count' = [m_send_finish_count EXCEPT ![side] = @ + r.finishes]
  /\ asserted' = (asserted \/ r.fails)
  /\ UNCHANGED <<program, m_text, m_max_message_count>>

-----------------------------------------------------------------------------
(***************************************************************************)
(* Steps.                                                                  *)
(***************************************************************************)
ClientConnects ==
  /\ Client!RunIdentity(OnConnect.answer)
  /\ Callback("client", OnConnect)
  /\ UNCHANGED <<server, link>>

ServerAccepts ==
  /\ Server!OnAccept(OnAccept.answer)
  /\ Callback("server", OnAccept)
  /\ UNCHANGED <<client, link>>

ClientTakes ==
  /\ c_rd = "ok"
  /\ \E r \in OnRecv("client", Client!TypedBack(c_recv_queue)) :
       Client!OnRecv(r.drop, r.answer) /\ Callback("client", r)
  /\ UNCHANGED <<server, link>>

ServerTakes ==
  /\ s_rd = "ok"
  /\ \E r \in OnRecv("server", Server!TypedBack(s_recv_queue)) :
       Server!OnRecv(r.drop, r.answer) /\ Callback("server", r)
  /\ UNCHANGED <<client, link>>

\* A strand runs its next handler when the last returned.
ClientStrand ==
  /\ owes["client"] = <<>>
  /\ ClientConnects \/ ClientTakes \/ (ClientHandles /\ UNCHANGED service)

ServerStrand ==
  /\ owes["server"] = <<>>
  /\ ServerAccepts \/ ServerTakes \/ (ServerHandles /\ UNCHANGED service)

\* The running callback makes its fill.
Paid(side) == /\ owes' = [owes EXCEPT ![side] = <<>>]
              /\ UNCHANGED <<link, program, m_text, m_max_message_count,
                             m_send_finish_count, count, asserted>>

ClientFills == /\ owes["client"] # <<>>
               /\ Client!Fill(owes["client"][1])
               /\ Paid("client") /\ UNCHANGED server

ServerFills == /\ owes["server"] # <<>>
               /\ Server!Fill(owes["server"][1])
               /\ Paid("server") /\ UNCHANGED client

\* The echo client sends when it likes, from any thread; its last message is
\* bounded so that the hello and the echoes are within MaxMessages.
EchoClientFills ==
  /\ program = "echo" /\ Len(c_filled) + 1 < MaxMessages
  /\ \E message \in [m_text : BOOLEAN, m_buffer : Words] : Client!Fill(message)
  /\ UNCHANGED <<server, link, service>>

Init ==
  /\ PairInit
  /\ program \in {"test", "echo"}
  /\ IF program = "test"
     THEN m_text \in BOOLEAN /\ m_max_message_count \in 0..MaxMessages
     ELSE m_text = FALSE /\ m_max_message_count = 0
  /\ m_send_finish_count = [side \in Sides |-> 0]
  /\ count = [side \in Sides |-> 0]
  /\ owes = [side \in Sides |-> <<>>]
  /\ asserted = FALSE

Next ==
  \/ ClientStrand \/ ServerStrand
  \/ ClientFills \/ ServerFills \/ EchoClientFills
  \/ (ClientStream \/ ServerStream \/ Break) /\ UNCHANGED service

Spec == Init /\ [][Next]_vars

(***************************************************************************)
(* Fairness.  The threads of both processes run the handlers that are      *)
(* ready and go on inside a callback; the link carries what was written.   *)
(* Nothing is said of a broken link, and the echo client need not send.    *)
(***************************************************************************)
Fairness ==
  /\ WF_vars(ClientStrand) /\ WF_vars(ServerStrand)
  /\ WF_vars(ClientFills) /\ WF_vars(ServerFills)
  /\ WF_vars(ClientReads /\ UNCHANGED service)
  /\ WF_vars(ServerReads /\ UNCHANGED service)
  /\ WF_vars(ClientReadsClose /\ UNCHANGED service)
  /\ WF_vars(ServerReadsClose /\ UNCHANGED service)
  /\ WF_vars(ClientWrites /\ UNCHANGED service)
  /\ WF_vars(ServerWrites /\ UNCHANGED service)
  /\ WF_vars(ClientCloseEnds /\ UNCHANGED service)
  /\ WF_vars(ServerCloseEnds /\ UNCHANGED service)

FairSpec == Spec /\ Fairness

-----------------------------------------------------------------------------
(***************************************************************************)
(* Properties.                                                             *)
(***************************************************************************)

\* Types of both sessions and of the services; what a callback fills is a
\* message that was read, never the buffer of a read under way.
TypeOK ==
  /\ Client!TypeOK /\ Server!TypeOK
  /\ link \in {"up", "broken"}
  /\ program \in {"test", "echo"} /\ m_text \in BOOLEAN
  /\ m_max_message_count \in 0..MaxMessages
  /\ m_send_finish_count \in [Sides -> Nat]
  /\ count \in [Sides -> 0..MaxMessages]
  /\ owes \in [Sides -> {<<>>} \cup {<<message>> : message \in Message}]
  /\ asserted \in BOOLEAN

\* No assert of the test service or the echo service fails on either end
\* (test_service.cpp:242-310): the counts that the two ends keep on their own
\* stay in step through the queues, the strands and the link, whichever end
\* comes to the limit and whenever the link breaks.
AssertsHold == ~asserted

\* A client of the echo service is greeted and then gets back what it filled,
\* in order, each message once and with its type (echo_service.cpp:121).
Echoed ==
  program = "echo" =>
    IsPrefix(c_taken, <<[m_text |-> TRUE, m_buffer |-> hello_data]>> \o c_filled)

\* Unless the link breaks, a ping-pong ends: one side comes to the limit, the
\* other does not, and both are told that the connection is closed.
TestEnds ==
  program = "test" /\ m_max_message_count > 0 ~>
    \/ link = "broken"
    \/ /\ c_closes = 1 /\ s_closes = 1
       /\ m_send_finish_count["client"] + m_send_finish_count["server"] = 1

\* Unless the link breaks or the client gives the connection up, each message
\* comes back.
EchoesReturn ==
  \A n \in 1..MaxMessages :
    program = "echo" /\ Len(c_filled) >= n ~>
      Len(c_taken) > n \/ link = "broken" \/ c_asked

ExchangeEnds == TestEnds /\ EchoesReturn
===============================================================================
