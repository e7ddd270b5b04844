---------------------------- MODULE ExchangeProofs ----------------------------
(***************************************************************************)
(* Proofs about Exchange, for every set of payloads and words, every limit *)
(* of the ping-pong and every number of messages.                          *)
(*                                                                         *)
(* Base says of each session what WebsocketSessionProofs proves of one,    *)
(* and of the link that an end reads what the other wrote, in order.  Then *)
(* what a callback finds at the front of its queue is the next message     *)
(* the callbacks of the other end gave, which may have been made long      *)
(* before: "given" is what was filled and what the running callback is     *)
(* about to fill.  Turns says of the ping-pong which messages those are    *)
(* and how the two counts follow from them; Echoes says what the echo      *)
(* server gave.                                                            *)
(***************************************************************************)
EXTENDS Exchange, TLAPS, SequenceTheorems

ClientP == INSTANCE WebsocketSessionProofs WITH
  Payload <- Payload, Empty <- Empty, Ssl <- FALSE, SizeMod <- MaxMessages + 1,
  MaxFill <- MaxMessages, MaxArrive <- MaxMessages, DropByHasData <- FALSE,
  CloseOnce <- FALSE,
  m_recv_queue <- c_recv_queue, m_recv_queue_size <- c_recv_queue_size,
  m_send_queue <- c_send_queue, m_send_queue_size <- c_send_queue_size,
  m_has_close <- c_has_close, stage <- c_stage, posts <- c_posts, ws <- c_ws,
  ws_text <- c_ws_text, rd <- c_rd, wr <- c_wr, cl <- c_cl, filled <- c_filled,
  wire <- c_wire, arrived <- c_arrived, taken <- c_taken, asked <- c_asked,
  closes <- c_closes, late <- c_late, clash <- c_clash, dangling <- c_dangling

ServerP == INSTANCE WebsocketSessionProofs WITH
  Payload <- Payload, Empty <- Empty, Ssl <- FALSE, SizeMod <- MaxMessages + 1,
  MaxFill <- MaxMessages, MaxArrive <- MaxMessages, DropByHasData <- FALSE,
  CloseOnce <- FALSE,
  m_recv_queue <- s_recv_queue, m_recv_queue_size <- s_recv_queue_size,
  m_send_queue <- s_send_queue, m_send_queue_size <- s_send_queue_size,
  m_has_close <- s_has_close, stage <- s_stage, posts <- s_posts, ws <- s_ws,
  ws_text <- s_ws_text, rd <- s_rd, wr <- s_wr, cl <- s_cl, filled <- s_filled,
  wire <- s_wire, arrived <- s_arrived, taken <- s_taken, asked <- s_asked,
  closes <- s_closes, late <- s_late, clash <- s_clash, dangling <- s_dangling

-----------------------------------------------------------------------------
\* The assumptions of WebsocketSession hold at both ends.
LEMMA SessionAssumptions ==
  /\ Empty \notin Payload
  /\ {FALSE, FALSE, FALSE} \subseteq BOOLEAN
  /\ MaxMessages \in Nat /\ MaxMessages + 1 \in Nat
  /\ MaxMessages < MaxMessages + 1
BY PayloadAssumption, MessagesAssumption

\* The actions of an end are those the lemmas of WebsocketSessionProofs are
\* about.
LEMMA ClientSame ==
  /\ Client!Init => ClientP!Init
  /\ \A a : /\ Client!RunIdentity(a) => ClientP!RunIdentity(a)
            /\ Client!OnAccept(a) => ClientP!OnAccept(a)
  /\ \A a, d : Client!OnRecv(d, a) => ClientP!OnRecv(d, a)
  /\ Client!OnSend(0, "keep") => ClientP!OnSend(0, "keep")
  /\ Client!OnRecvError => ClientP!OnRecvError
  /\ Client!OnSendError => ClientP!OnSendError
  /\ Client!OnPost => ClientP!OnPost
  /\ Client!OnCloseDone => ClientP!OnCloseDone
  /\ Client!OnAcceptError => ClientP!OnAcceptError
  /\ \A m : Client!Fill(m) => ClientP!Fill(m)
  /\ \A m : Client!ReadOk(m) => ClientP!ReadOk(m)
  /\ \A e : /\ Client!ReadError(e) => ClientP!ReadError(e)
            /\ Client!WriteError(e) => ClientP!WriteError(e)
  /\ Client!WriteOk => ClientP!WriteOk
  /\ Client!CloseEnds => ClientP!CloseEnds
  /\ Client!TypedBack(c_recv_queue) = ClientP!TypedBack(c_recv_queue)
  /\ Message = ClientP!Message
<1>1. Client!Init => ClientP!Init
  BY DEF Client!Init, ClientP!Init
<1>2. ASSUME NEW a
      PROVE  /\ Client!RunIdentity(a) => ClientP!RunIdentity(a)
             /\ Client!OnAccept(a) => ClientP!OnAccept(a)
  BY DEF Client!OnAccept, Client!RunIdentity, Client!Open, Client!Keeps,
         Client!Recv, Client!Eof, Client!Closes, Client!Clash,
         ClientP!OnAccept, ClientP!RunIdentity, ClientP!Open, ClientP!Keeps,
         ClientP!Recv, ClientP!Eof, ClientP!Closes, ClientP!Clash
<1>3. ASSUME NEW a, NEW d PROVE Client!OnRecv(d, a) => ClientP!OnRecv(d, a)
  BY DEF Client!OnRecv, Client!TypedBack, Client!Drop, Client!Sized,
         Client!Keeps, Client!Recv, Client!Eof, Client!Closes, Client!Clash,
         Client!Tell, ClientP!OnRecv, ClientP!TypedBack, ClientP!Drop,
         ClientP!Sized, ClientP!Keeps, ClientP!Recv, ClientP!Eof,
         ClientP!Closes, ClientP!Clash, ClientP!Tell
<1>4. Client!OnSend(0, "keep") => ClientP!OnSend(0, "keep")
  BY DEF Client!OnSend, Client!Droppable, Client!Drop, Client!Sized,
         Client!SendNext, Client!Send, Client!Keeps, Client!Eof, Client!Closes,
         Client!Clash, Client!Tell, ClientP!OnSend, ClientP!Droppable,
         ClientP!Drop, ClientP!Sized, ClientP!SendNext, ClientP!Send,
         ClientP!Keeps, ClientP!Eof, ClientP!Closes, ClientP!Clash,
         ClientP!Tell
<1>5. /\ Client!OnRecvError => ClientP!OnRecvError
      /\ Client!OnSendError => ClientP!OnSendError
      /\ Client!OnPost => ClientP!OnPost
      /\ Client!OnCloseDone => ClientP!OnCloseDone
      /\ Client!OnAcceptError => ClientP!OnAcceptError
  <2>1. Client!OnRecvError => ClientP!OnRecvError
    BY DEF Client!OnRecvError, Client!ReadErrors, Client!Tell, Client!OnClose,
         ClientP!OnRecvError, ClientP!ReadErrors, ClientP!Tell, ClientP!OnClose
  <2>2. Client!OnSendError => ClientP!OnSendError
    BY DEF Client!OnSendError, Client!WriteErrors, Client!Tell, Client!OnClose,
         ClientP!OnSendError, ClientP!WriteErrors, ClientP!Tell,
         ClientP!OnClose
  <2>3. Client!OnPost => ClientP!OnPost
    BY DEF Client!OnPost, Client!Queued, Client!SendFirst, Client!Send,
         Client!Sized, Client!Clash, Client!Closes, ClientP!OnPost,
         ClientP!Queued, ClientP!SendFirst, ClientP!Send, ClientP!Sized,
         ClientP!Clash, ClientP!Closes
  <2>4. Client!OnCloseDone => ClientP!OnCloseDone
    BY DEF Client!OnCloseDone, Client!OnClose, ClientP!OnCloseDone,
         ClientP!OnClose
  <2>5. Client!OnAcceptError => ClientP!OnAcceptError
    BY DEF Client!OnAcceptError, Client!history, ClientP!OnAcceptError,
         ClientP!history
  <2> QED
    BY <2>1, <2>2, <2>3, <2>4, <2>5
<1>6. ASSUME NEW m
      PROVE  /\ Client!Fill(m) => ClientP!Fill(m)
             /\ Client!ReadOk(m) => ClientP!ReadOk(m)
             /\ Client!ReadError(m) => ClientP!ReadError(m)
             /\ Client!WriteError(m) => ClientP!WriteError(m)
  BY DEF Client!Fill, Client!Filled, Client!ReadOk, Client!ReadError,
         Client!WriteError, Client!session, Client!stream, Client!history,
         ClientP!Fill, ClientP!Filled, ClientP!ReadOk, ClientP!ReadError,
         ClientP!WriteError, ClientP!session, ClientP!stream, ClientP!history
<1>7. /\ Client!WriteOk => ClientP!WriteOk
      /\ Client!CloseEnds => ClientP!CloseEnds
      /\ Client!TypedBack(c_recv_queue) = ClientP!TypedBack(c_recv_queue)
      /\ Message = ClientP!Message
  BY DEF Client!WriteOk, Client!CloseEnds, Client!TypedBack, Client!session,
         Client!history, ClientP!WriteOk, ClientP!CloseEnds, ClientP!TypedBack,
         ClientP!session, ClientP!history, ClientP!Message, Message
<1> QED
  BY <1>1, <1>2, <1>3, <1>4, <1>5, <1>6, <1>7

\* The actions of an end are those the lemmas of WebsocketSessionProofs are
\* about.
LEMMA ServerSame ==
  /\ Server!Init => ServerP!Init
  /\ \A a : /\ Server!RunIdentity(a) => ServerP!RunIdentity(a)
            /\ Server!OnAccept(a) => ServerP!OnAccept(a)
  /\ \A a, d : Server!OnRecv(d, a) => ServerP!OnRecv(d, a)
  /\ Server!OnSend(0, "keep") => ServerP!OnSend(0, "keep")
  /\ Server!OnRecvError => ServerP!OnRecvError
  /\ Server!OnSendError => ServerP!OnSendError
  /\ Server!OnPost => ServerP!OnPost
  /\ Server!OnCloseDone => ServerP!OnCloseDone
  /\ Server!OnAcceptError => ServerP!OnAcceptError
  /\ \A m : Server!Fill(m) => ServerP!Fill(m)
  /\ \A m : Server!ReadOk(m) => ServerP!ReadOk(m)
  /\ \A e : /\ Server!ReadError(e) => ServerP!ReadError(e)
            /\ Server!WriteError(e) => ServerP!WriteError(e)
  /\ Server!WriteOk => ServerP!WriteOk
  /\ Server!CloseEnds => ServerP!CloseEnds
  /\ Server!TypedBack(s_recv_queue) = ServerP!TypedBack(s_recv_queue)
  /\ Message = ServerP!Message
<1>1. Server!Init => ServerP!Init
  BY DEF Server!Init, ServerP!Init
<1>2. ASSUME NEW a
      PROVE  /\ Server!RunIdentity(a) => ServerP!RunIdentity(a)
             /\ Server!OnAccept(a) => ServerP!OnAccept(a)
  BY DEF Server!OnAccept, Server!RunIdentity, Server!Open, Server!Keeps,
         Server!Recv, Server!Eof, Server!Closes, Server!Clash,
         ServerP!OnAccept, ServerP!RunIdentity, ServerP!Open, ServerP!Keeps,
         ServerP!Recv, ServerP!Eof, ServerP!Closes, ServerP!Clash
<1>3. ASSUME NEW a, NEW d PROVE Server!OnRecv(d, a) => ServerP!OnRecv(d, a)
  BY DEF Server!OnRecv, Server!TypedBack, Server!Drop, Server!Sized,
         Server!Keeps, Server!Recv, Server!Eof, Server!Closes, Server!Clash,
         Server!Tell, ServerP!OnRecv, ServerP!TypedBack, ServerP!Drop,
         ServerP!Sized, ServerP!Keeps, ServerP!Recv, ServerP!Eof,
         ServerP!Closes, ServerP!Clash, ServerP!Tell
<1>4. Server!OnSend(0, "keep") => ServerP!OnSend(0, "keep")
  BY DEF Server!OnSend, Server!Droppable, Server!Drop, Server!Sized,
         Server!SendNext, Server!Send, Server!Keeps, Server!Eof, Server!Closes,
         Server!Clash, Server!Tell, ServerP!OnSend, ServerP!Droppable,
         ServerP!Drop, ServerP!Sized, ServerP!SendNext, ServerP!Send,
         ServerP!Keeps, ServerP!Eof, ServerP!Closes, ServerP!Clash,
         ServerP!Tell
<1>5. /\ Server!OnRecvError => ServerP!OnRecvError
      /\ Server!OnSendError => ServerP!OnSendError
      /\ Server!OnPost => ServerP!OnPost
      /\ Server!OnCloseDone => ServerP!OnCloseDone
      /\ Server!OnAcceptError => ServerP!OnAcceptError
  <2>1. Server!OnRecvError => ServerP!OnRecvError
    BY DEF Server!OnRecvError, Server!ReadErrors, Server!Tell, Server!OnClose,
         ServerP!OnRecvError, ServerP!ReadErrors, ServerP!Tell, ServerP!OnClose
  <2>2. Server!OnSendError => ServerP!OnSendError
    BY DEF Server!OnSendError, Server!WriteErrors, Server!Tell, Server!OnClose,
         ServerP!OnSendError, ServerP!WriteErrors, ServerP!Tell,
         ServerP!OnClose
  <2>3. Server!OnPost => ServerP!OnPost
    BY DEF Server!OnPost, Server!Queued, Server!SendFirst, Server!Send,
         Server!Sized, Server!Clash, Server!Closes, ServerP!OnPost,
         ServerP!Queued, ServerP!SendFirst, ServerP!Send, ServerP!Sized,
         ServerP!Clash, ServerP!Closes
  <2>4. Server!OnCloseDone => ServerP!OnCloseDone
    BY DEF Server!OnCloseDone, Server!OnClose, ServerP!OnCloseDone,
         ServerP!OnClose
  <2>5. Server!OnAcceptError => ServerP!OnAcceptError
    BY DEF Server!OnAcceptError, Server!history, ServerP!OnAcceptError,
         ServerP!history
  <2> QED
    BY <2>1, <2>2, <2>3, <2>4, <2>5
<1>6. ASSUME NEW m
      PROVE  /\ Server!Fill(m) => ServerP!Fill(m)
             /\ Server!ReadOk(m) => ServerP!ReadOk(m)
             /\ Server!ReadError(m) => ServerP!ReadError(m)
             /\ Server!WriteError(m) => ServerP!WriteError(m)
  BY DEF Server!Fill, Server!Filled, Server!ReadOk, Server!ReadError,
         Server!WriteError, Server!session, Server!stream, Server!history,
         ServerP!Fill, ServerP!Filled, ServerP!ReadOk, ServerP!ReadError,
         ServerP!WriteError, ServerP!session, ServerP!stream, ServerP!history
<1>7. /\ Server!WriteOk => ServerP!WriteOk
      /\ Server!CloseEnds => ServerP!CloseEnds
      /\ Server!TypedBack(s_recv_queue) = ServerP!TypedBack(s_recv_queue)
      /\ Message = ServerP!Message
  BY DEF Server!WriteOk, Server!CloseEnds, Server!TypedBack, Server!session,
         Server!history, ServerP!WriteOk, ServerP!CloseEnds, ServerP!TypedBack,
         ServerP!session, ServerP!history, ServerP!Message, Message
<1> QED
  BY <1>1, <1>2, <1>3, <1>4, <1>5, <1>6, <1>7
-----------------------------------------------------------------------------
\* What holds of the services whatever is read.
ServiceOK ==
  /\ program \in {"test", "echo"} /\ m_text \in BOOLEAN
  /\ m_max_message_count \in 0..MaxMessages
  /\ count \in [Sides -> 0..MaxMessages]
  /\ m_send_finish_count \in [Sides -> Nat]
  /\ asserted \in BOOLEAN

\* A reaction but for what it fills.
Returned(r, d) ==
  /\ r.drop \in 0..d /\ r.answer \in {"keep", "abandon"}
  /\ r.count \in 0..MaxMessages /\ r.finishes \in 0..1 /\ r.fails \in BOOLEAN

\* What the four reactions return, and that dropping changes only the drop.
LEMMA Shapes ==
  ASSUME NEW n \in 0..MaxMessages
  PROVE  /\ Returned(Keeping(n), 0) /\ Returned(Finishing(n), 0)
         /\ Returned(Failing(n), 0)
         /\ Keeping(n).count = n /\ Failing(n).count = n
         /\ ~Keeping(n).fails /\ Failing(n).fails
         /\ \A text, data : Returned(Filling(n, text, data), 0)
BY DEF Returned, Keeping, Finishing, Failing, Filling, Reaction

\* The same when the message is dropped.
LEMMA DropShapes ==
  ASSUME NEW n \in 0..MaxMessages
  PROVE  /\ Returned(Dropping(Keeping(n)), 1) /\ Returned(Dropping(Finishing(n)), 1)
         /\ \A text, data : Returned(Dropping(Filling(n, text, data)), 1)
         /\ \A r \in EchoClientRecv : Returned(r, 1)
<1>1. \A r : r = Dropping(Keeping(n)) => Returned(r, 1)
  BY DEF Returned, Keeping, Reaction, Dropping
<1>2. \A r : r = Dropping(Finishing(n)) => Returned(r, 1)
  BY DEF Returned, Finishing, Reaction, Dropping
<1>3. \A r, text, data : r = Dropping(Filling(n, text, data)) => Returned(r, 1)
  BY DEF Returned, Filling, Reaction, Dropping
<1>4. ASSUME NEW r \in EchoClientRecv PROVE Returned(r, 1)
  <2>1. PICK a \in {"keep", "abandon"} : r = Dropping(Reaction(a, 0, <<>>, 0, FALSE))
    BY DEF EchoClientRecv
  <2>2. /\ r.drop = 1 /\ r.answer = a /\ r.count = 0 /\ r.finishes = 0
        /\ r.fails \in BOOLEAN
    BY <2>1 DEF Reaction, Dropping
  <2> QED
    <3>1. 1 \in 0..1 /\ 0 \in 0..1 /\ 0 \in 0..MaxMessages
      BY MessagesAssumption
    <3> QED
      BY <2>1, <2>2, <3>1, Zenon DEF Returned
<1> QED
  BY <1>1, <1>2, <1>3, <1>4

\* send_message: one of three, by the limit.
LEMMA SendMessageCases ==
  ASSUME ServiceOK, NEW n \in 0..MaxMessages
  PROVE  \/ m_max_message_count = 0 /\ SendMessage(n) = Keeping(n)
         \/ n >= m_max_message_count /\ SendMessage(n) = Finishing(n)
         \/ /\ n < m_max_message_count /\ n + 1 \in 0..MaxMessages
            /\ SendMessage(n) = Filling(n + 1, m_text, n + 1)
<1>1. m_max_message_count \in Nat /\ n \in Nat /\ m_max_message_count <= MaxMessages
  BY MessagesAssumption DEF ServiceOK
<1>2. CASE m_max_message_count = 0
  <2>1. ~(n < m_max_message_count)
    BY <1>1, <1>2
  <2> QED
    BY <1>2, <2>1 DEF SendMessage
<1>3. CASE m_max_message_count # 0 /\ n >= m_max_message_count
  <2>1. ~(n < m_max_message_count)
    BY <1>1, <1>3
  <2> QED
    BY <1>3, <2>1 DEF SendMessage
<1>4. CASE n < m_max_message_count
  <2>1. m_max_message_count # 0 /\ ~(n >= m_max_message_count)
    BY <1>1, <1>4
  <2>2. n + 1 \in 0..MaxMessages
    BY <1>1, <1>4, MessagesAssumption
  <2>3. SendMessage(n) = Filling(n + 1, m_text, n + 1)
    BY <1>4, <2>1, Zenon DEF SendMessage
  <2> QED
    BY <1>4, <2>2, <2>3
<1> QED
  BY <1>1, <1>2, <1>3, <1>4

\* check_message: one of three, by the count and the size.
LEMMA CheckMessageCases ==
  ASSUME ServiceOK, NEW n \in 0..MaxMessages, NEW size
  PROVE  \/ n >= m_max_message_count /\ CheckMessage(n, size) = Failing(n)
         \/ /\ n < m_max_message_count /\ n + 1 \in 0..MaxMessages /\ size # n + 1
            /\ CheckMessage(n, size) = Failing(n + 1)
         \/ /\ n < m_max_message_count /\ n + 1 \in 0..MaxMessages /\ size = n + 1
            /\ CheckMessage(n, size) = Keeping(n + 1)
<1>1. m_max_message_count \in Nat /\ n \in Nat /\ m_max_message_count <= MaxMessages
  BY MessagesAssumption DEF ServiceOK
<1>2. CASE n >= m_max_message_count
  <2>1. ~(n < m_max_message_count)
    BY <1>1, <1>2
  <2> QED
    BY <1>2, <2>1, Zenon DEF CheckMessage
<1>3. CASE n < m_max_message_count
  <2>1. ~(n >= m_max_message_count) /\ n + 1 \in 0..MaxMessages
    BY <1>1, <1>3, MessagesAssumption
  <2>2. CASE size = n + 1
    BY <1>3, <2>1, <2>2, Zenon DEF CheckMessage
  <2>3. CASE size # n + 1
    BY <1>3, <2>1, <2>3, Zenon DEF CheckMessage
  <2> QED
    BY <2>2, <2>3
<1> QED
  BY <1>1, <1>2, <1>3

\* What the services return when they are shown a connection.
LEMMA ShownReturns ==
  ASSUME ServiceOK
  PROVE  Returned(OnConnect, 0) /\ Returned(OnAccept, 0)
<1>1. 0 \in 0..MaxMessages
  BY MessagesAssumption
<1>2. InsertConnection.count = 0 /\ Returned(InsertConnection, 0)
  BY <1>1, Shapes DEF InsertConnection
<1>3. Returned(EchoSend(TRUE, hello_data), 0)
  BY <1>1 DEF EchoSend, Filling, Reaction, Returned
<1>4. Returned(SendMessage(0), 0) /\ Returned(Keeping(0), 0)
  BY <1>1, SendMessageCases, Shapes
<1> QED
  BY <1>2, <1>3, <1>4 DEF OnConnect, OnAccept

\* What they return for a message, whatever they are shown.
LEMMA RecvReturns ==
  ASSUME ServiceOK, NEW side \in Sides, NEW queue, NEW r \in OnRecv(side, queue)
  PROVE  Returned(r, 1)
<1> DEFINE n == count[side]
<1>1. n \in 0..MaxMessages /\ 0 \in 0..MaxMessages
  BY MessagesAssumption DEF ServiceOK
<1>2. \A k \in 0..MaxMessages : Returned(Failing(k), 1)
  BY Shapes DEF Returned
<1>3. CASE program = "test"
  <2>1. r = RecvMessage(n, queue)
    BY <1>3 DEF OnRecv
  <2> DEFINE check == CheckMessage(n, BufferData(queue))
  <2>2. \/ \E k \in 0..MaxMessages : check = Failing(k)
        \/ \E k \in 0..MaxMessages : check = Keeping(k)
    BY <1>1, CheckMessageCases
  <2> HIDE DEF check
  <2>3. CASE r = Failing(n)
    BY <2>3, <1>1, <1>2
  <2>4. CASE r = check /\ check.fails
    BY <2>4, <1>2, <2>2, Shapes
  <2>5. CASE ~check.fails /\ r = Dropping(SendMessage(check.count))
    <3>1. check.count \in 0..MaxMessages
      BY <2>2, Shapes
    <3> QED
      BY <2>5, <3>1, SendMessageCases, DropShapes
  <2> QED
    BY <2>1, <2>3, <2>4, <2>5 DEF RecvMessage, check
<1>4. CASE program = "echo"
  <2>1. CASE r = Failing(0)
    BY <2>1, <1>1, <1>2
  <2>2. ASSUME NEW text, NEW data, r = Dropping(Filling(0, text, data))
        PROVE  Returned(r, 1)
    BY <2>2, <1>1, DropShapes
  <2>3. CASE r \in EchoClientRecv
    BY <2>3, <1>1, DropShapes
  <2> QED
    BY <1>4, <2>1, <2>2, <2>3 DEF OnRecv, Sides, EchoRecv, EchoSend
<1> QED
  BY <1>3, <1>4 DEF ServiceOK

\* A callback keeps the types of the services.
LEMMA CallbackOK ==
  ASSUME ServiceOK, NEW side \in Sides, NEW r, Returned(r, 1), Callback(side, r)
  PROVE  ServiceOK'
<1>1. /\ count' = [count EXCEPT ![side] = r.count]
      /\ m_send_finish_count' = [m_send_finish_count EXCEPT ![side] = @ + r.finishes]
      /\ asserted' = (asserted \/ r.fails)
      /\ UNCHANGED <<program, m_text, m_max_message_count>>
  BY DEF Callback, SetUserData
<1>2. count' \in [Sides -> 0..MaxMessages]
  BY <1>1 DEF ServiceOK, Returned
<1>3. m_send_finish_count[side] + r.finishes \in Nat
  BY DEF ServiceOK, Returned
<1>4. m_send_finish_count' \in [Sides -> Nat]
  BY <1>1, <1>3 DEF ServiceOK
<1>5. asserted' \in BOOLEAN
  BY <1>1 DEF ServiceOK, Returned
<1> QED
  BY <1>1, <1>2, <1>4, <1>5 DEF ServiceOK

\* They hold in the beginning ...
LEMMA ServiceInit == Init => ServiceOK
<1> SUFFICES ASSUME Init PROVE ServiceOK
  OBVIOUS
<1>1. program \in {"test", "echo"} /\ 0 \in 0..MaxMessages /\ 0 \in Nat
  BY MessagesAssumption DEF Init
<1>2. m_text \in BOOLEAN /\ m_max_message_count \in 0..MaxMessages
  BY <1>1 DEF Init
<1>3. count \in [Sides -> 0..MaxMessages] /\ m_send_finish_count \in [Sides -> Nat]
  BY <1>1 DEF Init
<1> QED
  BY <1>1, <1>2, <1>3 DEF Init, ServiceOK

\* ... and every step keeps them.
LEMMA ServiceStep == ServiceOK /\ [Next]_vars => ServiceOK'
<1> SUFFICES ASSUME ServiceOK, [Next]_vars PROVE ServiceOK'
  OBVIOUS
<1>1. ASSUME UNCHANGED service PROVE ServiceOK'
  BY <1>1 DEF ServiceOK, service
<1>2. ASSUME NEW side \in Sides, Paid(side) PROVE ServiceOK'
  BY <1>2 DEF ServiceOK, Paid
<1>3. ASSUME NEW side \in Sides, NEW r, Returned(r, 0), Callback(side, r)
      PROVE  ServiceOK'
  BY <1>3, CallbackOK DEF Returned
<1>4. "client" \in Sides /\ "server" \in Sides
  BY DEF Sides
<1>5. CASE ClientConnects
  BY <1>3, <1>4, <1>5, ShownReturns DEF ClientConnects
<1>6. CASE ServerAccepts
  BY <1>3, <1>4, <1>6, ShownReturns DEF ServerAccepts
<1>7. CASE ClientTakes
  BY <1>4, <1>7, RecvReturns, CallbackOK DEF ClientTakes
<1>8. CASE ServerTakes
  BY <1>4, <1>8, RecvReturns, CallbackOK DEF ServerTakes
<1> QED
  BY <1>1, <1>2, <1>4, <1>5, <1>6, <1>7, <1>8
     DEF Next, vars, ClientStrand, ServerStrand, ClientFills, ServerFills,
         EchoClientFills

-----------------------------------------------------------------------------
(***************************************************************************)
(* The invariant.                                                          *)
(***************************************************************************)

\* s is the first part of t.
First(s, t) == Len(s) <= Len(t) /\ \A i \in 1..Len(s) : s[i] = t[i]

ClientInv == ClientP!IInv /\ ClientP!SendInv /\ ClientP!RecvInv
ServerInv == ServerP!IInv /\ ServerP!SendInv /\ ServerP!RecvInv

\* A callback owes one message at most.
OwesOK == owes \in [Sides -> {<<>>} \cup {<<message>> : message \in Message}]

\* Each end takes each message in the callback that reports it.
Single == c_recv_queue_size = 0 /\ s_recv_queue_size = 0

\* What an end reads is what the other wrote.
Linked == First(c_arrived, s_wire) /\ First(s_arrived, c_wire)

\* What the callbacks of an end gave to its session, or are about to.
ClientGiven == c_filled \o owes["client"]
ServerGiven == s_filled \o owes["server"]

\* Nothing was given or taken before the connection was shown.
Before ==
  /\ c_stage # "up" => ClientGiven = <<>> /\ c_taken = <<>>
  /\ s_stage # "up" => ServerGiven = <<>> /\ s_taken = <<>>

\* The turns of a ping-pong: the client gives the odd messages and the server
\* the even ones, each the next after what it took.
Order ==
  program = "test" =>
    /\ \A i \in 1..Len(ClientGiven) :
         ClientGiven[i] = [m_text |-> m_text, m_buffer |-> 2 * i - 1]
    /\ \A i \in 1..Len(ServerGiven) :
         ServerGiven[i] = [m_text |-> m_text, m_buffer |-> 2 * i]

\* What the two counts are, and whose turn it can be.
Counts ==
  program = "test" =>
    /\ count["client"] = Len(c_taken) + Len(ClientGiven)
    /\ count["server"] = Len(s_taken) + Len(ServerGiven)
    /\ count["client"] <= m_max_message_count
    /\ count["server"] <= m_max_message_count
    /\ Len(ClientGiven) - Len(c_taken) \in 0..1
    /\ Len(s_taken) - Len(ServerGiven) \in 0..1
    /\ c_rd # "idle" /\ m_max_message_count > 0 => Len(ClientGiven) = Len(c_taken) + 1
    /\ s_rd # "idle" => Len(ServerGiven) = Len(s_taken)

Turns == Order /\ Counts

\* The echo server gives its greeting and what it took.
Hello == [m_text |-> TRUE, m_buffer |-> hello_data]
Echoes ==
  program = "echo" =>
    /\ owes["client"] = <<>>
    /\ s_stage = "up" => /\ Len(ServerGiven) = Len(s_taken) + 1
                         /\ ServerGiven[1] = Hello
                         /\ \A i \in 1..Len(s_taken) : ServerGiven[i + 1] = s_taken[i]

Base == ServiceOK /\ OwesOK /\ ClientInv /\ ServerInv /\ Single /\ Linked

IInv == Base /\ Before /\ Turns /\ Echoes /\ ~asserted

\* The types that Base implies.
LEMMA BaseTypes ==
  ASSUME Base
  PROVE  /\ c_filled \in Seq(Message) /\ c_wire \in Seq(Message)
         /\ c_arrived \in Seq(Message) /\ c_taken \in Seq(ClientP!BufferNode)
         /\ s_filled \in Seq(Message) /\ s_wire \in Seq(Message)
         /\ s_arrived \in Seq(Message) /\ s_taken \in Seq(ServerP!BufferNode)
         /\ owes["client"] \in Seq(Message) /\ Len(owes["client"]) <= 1
         /\ owes["server"] \in Seq(Message) /\ Len(owes["server"]) <= 1
         /\ ClientGiven \in Seq(Message) /\ ServerGiven \in Seq(Message)
         /\ First(c_filled, ClientGiven) /\ First(s_filled, ServerGiven)
         /\ First(c_wire, c_filled) /\ First(s_wire, s_filled)
         /\ First(c_taken, c_arrived) /\ First(s_taken, s_arrived)
<1>1. /\ c_filled \in Seq(Message) /\ c_wire \in Seq(Message)
      /\ c_arrived \in Seq(Message) /\ c_taken \in Seq(ClientP!BufferNode)
  BY ClientSame DEF Base, ClientInv, ClientP!IInv, ClientP!Queues
<1>2. /\ s_filled \in Seq(Message) /\ s_wire \in Seq(Message)
      /\ s_arrived \in Seq(Message) /\ s_taken \in Seq(ServerP!BufferNode)
  BY ServerSame DEF Base, ServerInv, ServerP!IInv, ServerP!Queues
<1>3. ASSUME NEW side \in Sides
      PROVE  owes[side] = <<>> \/ \E m \in Message : owes[side] = <<m>>
  <2>1. owes[side] \in {<<>>} \cup {<<message>> : message \in Message}
    BY DEF Base, OwesOK
  <2> QED
    BY <2>1
<1>4. ASSUME NEW side \in Sides
      PROVE  owes[side] \in Seq(Message) /\ Len(owes[side]) <= 1
  <2>1. CASE owes[side] = <<>>
    BY <2>1
  <2>2. ASSUME NEW m \in Message, owes[side] = <<m>>
        PROVE  owes[side] \in Seq(Message) /\ Len(owes[side]) <= 1
    BY <2>2
  <2> QED
    BY <1>3, <2>1, <2>2
<1>5. /\ owes["client"] \in Seq(Message) /\ Len(owes["client"]) <= 1
      /\ owes["server"] \in Seq(Message) /\ Len(owes["server"]) <= 1
  BY <1>4 DEF Sides
<1>6. /\ ClientGiven \in Seq(Message) /\ ServerGiven \in Seq(Message)
      /\ First(c_filled, ClientGiven) /\ First(s_filled, ServerGiven)
  BY <1>1, <1>2, <1>5, ConcatProperties DEF First, ClientGiven, ServerGiven
<1>7. /\ First(c_wire, c_filled) /\ First(s_wire, s_filled)
      /\ First(c_taken, c_arrived) /\ First(s_taken, s_arrived)
  BY SessionAssumptions, ClientP!SentFirst, ServerP!SentFirst, ClientP!TakenFirst,
     ServerP!TakenFirst DEF Base, ClientInv, ServerInv, First
<1> QED
  BY <1>1, <1>2, <1>5, <1>6, <1>7

-----------------------------------------------------------------------------
\* What a callback is shown is the next message the other end gave.
LEMMA ClientFront ==
  ASSUME Base, c_rd = "ok"
  PROVE  /\ Client!TypedBack(c_recv_queue) = <<s_filled[Len(c_taken) + 1]>>
         /\ c_arrived[Len(c_taken) + 1] = s_filled[Len(c_taken) + 1]
         /\ s_filled[Len(c_taken) + 1] \in Message
         /\ Len(c_taken) + 1 \in 1..Len(s_filled)
<1> DEFINE k == Len(c_taken) + 1
<1>1. /\ Len(c_arrived) = k /\ c_arrived[k] \in Message
      /\ Client!TypedBack(c_recv_queue) = <<c_arrived[k]>>
  BY SessionAssumptions, ClientSame, ClientP!OneAtATime DEF Base, ClientInv, Single
<1>2. /\ k \in Nat /\ Len(s_wire) \in Nat /\ Len(s_filled) \in Nat /\ k >= 1
      /\ First(c_arrived, s_wire) /\ First(s_wire, s_filled)
  BY BaseTypes, LenProperties DEF Base, Linked
<1>3. k \in 1..Len(c_arrived) /\ k \in 1..Len(s_wire) /\ k \in 1..Len(s_filled)
  BY <1>1, <1>2 DEF First
<1>4. c_arrived[k] = s_wire[k] /\ s_wire[k] = s_filled[k]
  BY <1>2, <1>3 DEF First
<1> QED
  BY <1>1, <1>3, <1>4

\* What a callback is shown is the next message the other end gave.
LEMMA ServerFront ==
  ASSUME Base, s_rd = "ok"
  PROVE  /\ Server!TypedBack(s_recv_queue) = <<c_filled[Len(s_taken) + 1]>>
         /\ s_arrived[Len(s_taken) + 1] = c_filled[Len(s_taken) + 1]
         /\ c_filled[Len(s_taken) + 1] \in Message
         /\ Len(s_taken) + 1 \in 1..Len(c_filled)
<1> DEFINE k == Len(s_taken) + 1
<1>1. /\ Len(s_arrived) = k /\ s_arrived[k] \in Message
      /\ Server!TypedBack(s_recv_queue) = <<s_arrived[k]>>
  BY SessionAssumptions, ServerSame, ServerP!OneAtATime DEF Base, ServerInv, Single
<1>2. /\ k \in Nat /\ Len(c_wire) \in Nat /\ Len(c_filled) \in Nat /\ k >= 1
      /\ First(s_arrived, c_wire) /\ First(c_wire, c_filled)
  BY BaseTypes, LenProperties DEF Base, Linked
<1>3. k \in 1..Len(s_arrived) /\ k \in 1..Len(c_wire) /\ k \in 1..Len(c_filled)
  BY <1>1, <1>2 DEF First
<1>4. s_arrived[k] = c_wire[k] /\ c_wire[k] = c_filled[k]
  BY <1>2, <1>3 DEF First
<1> QED
  BY <1>1, <1>3, <1>4

-----------------------------------------------------------------------------
(***************************************************************************)
(* What a callback of the services does, in the states that are reached.   *)
(***************************************************************************)

\* A reaction whose fill, if there is one, is a message.
Fitting(r) == r.fill \in {<<>>} \cup {<<message>> : message \in Message}

\* The cases of what the test service fills.
LEMMA SendMessageFill ==
  ASSUME ServiceOK, NEW n \in 0..MaxMessages
  PROVE  LET r == SendMessage(n)
             d == Dropping(r)
         IN  /\ r.fails = FALSE /\ d.fails = FALSE /\ d.drop = 1
             /\ Fitting(r) /\ Fitting(d)
             /\ r.count = d.count /\ r.fill = d.fill /\ r.answer = d.answer
             /\ \/ /\ m_max_message_count = 0 /\ r.answer = "keep"
                   /\ r.count = n /\ r.fill = <<>>
                \/ /\ n >= m_max_message_count /\ r.answer = "abandon"
                   /\ r.count = n /\ r.fill = <<>>
                \/ /\ n < m_max_message_count /\ r.answer = "keep"
                   /\ r.count = n + 1
                   /\ r.fill = <<[m_text |-> m_text, m_buffer |-> n + 1]>>
<1> DEFINE r == SendMessage(n)
           d == Dropping(r)
           next == [m_text |-> m_text, m_buffer |-> n + 1]
<1>1. CASE m_max_message_count = 0 /\ r = Keeping(n)
  <2>1. /\ r.fails = FALSE /\ r.answer = "keep" /\ r.count = n /\ r.fill = <<>>
    BY <1>1 DEF Keeping, Reaction
  <2>2. /\ d.fails = FALSE /\ d.answer = "keep" /\ d.count = n /\ d.fill = <<>>
        /\ d.drop = 1
    BY <1>1 DEF Keeping, Reaction, Dropping
  <2> QED
    BY <1>1, <2>1, <2>2 DEF Fitting
<1>2. CASE n >= m_max_message_count /\ r = Finishing(n)
  <2>1. /\ r.fails = FALSE /\ r.answer = "abandon" /\ r.count = n /\ r.fill = <<>>
    BY <1>2 DEF Finishing, Reaction
  <2>2. /\ d.fails = FALSE /\ d.answer = "abandon" /\ d.count = n /\ d.fill = <<>>
        /\ d.drop = 1
    BY <1>2 DEF Finishing, Reaction, Dropping
  <2> QED
    BY <1>2, <2>1, <2>2 DEF Fitting
<1>3. CASE /\ n < m_max_message_count /\ n + 1 \in 0..MaxMessages
           /\ r = Filling(n + 1, m_text, n + 1)
  <2>1. /\ r.fails = FALSE /\ r.answer = "keep" /\ r.count = n + 1 /\ r.fill = <<next>>
    BY <1>3 DEF Filling, Reaction
  <2>2. /\ d.fails = FALSE /\ d.answer = "keep" /\ d.count = n + 1 /\ d.fill = <<next>>
        /\ d.drop = 1
    BY <1>3 DEF Filling, Reaction, Dropping
  <2>3. n + 1 \in Payload
    BY <1>3, MessagesAssumption, WordsAssumption
  <2>4. next \in Message
    BY <2>3 DEF ServiceOK, Message
  <2> HIDE DEF next
  <2>5. Fitting(r) /\ Fitting(d)
    BY <2>1, <2>2, <2>4 DEF Fitting
  <2> QED
    BY <1>3, <2>1, <2>2, <2>5 DEF next
<1> QED
  BY <1>1, <1>2, <1>3, SendMessageCases

\* A message that is the next after the count is taken and answered.
LEMMA RecvMessageTakes ==
  ASSUME ServiceOK, NEW n \in 0..MaxMessages, n < m_max_message_count
  PROVE  /\ n + 1 \in 0..MaxMessages
         /\ RecvMessage(n, <<[m_text |-> m_text, m_buffer |-> n + 1]>>)
              = Dropping(SendMessage(n + 1))
<1> DEFINE m == [m_text |-> m_text, m_buffer |-> n + 1]
<1>1. /\ HasData(<<m>>) /\ DataIsText(<<m>>) = m_text
      /\ BufferData(<<m>>) = n + 1
  <2>1. Head(<<m>>) = m /\ <<m>> # <<>> /\ m.m_text = m_text /\ m.m_buffer = n + 1
    OBVIOUS
  <2>2. m_text \in BOOLEAN
    BY DEF ServiceOK
  <2> HIDE DEF m
  <2> QED
    BY <2>1, <2>2, Zenon DEF HasData, DataIsText, BufferData
<1>2. m_max_message_count # 0 /\ ~(n >= m_max_message_count)
  BY MessagesAssumption DEF ServiceOK
<1>3. n + 1 \in 0..MaxMessages /\ CheckMessage(n, n + 1) = Keeping(n + 1)
  BY <1>2, CheckMessageCases
<1>4. Keeping(n + 1).fails = FALSE /\ Keeping(n + 1).count = n + 1
  BY DEF Keeping, Reaction
<1> HIDE DEF m
<1>5. RecvMessage(n, <<m>>) = Dropping(SendMessage(n + 1))
  BY <1>1, <1>2, <1>3, <1>4 DEF RecvMessage
<1> QED
  BY <1>3, <1>5 DEF m

\* What the echo service and its client make of a message.
LEMMA EchoTakes ==
  ASSUME NEW m \in Message
  PROVE  /\ LET r == EchoRecv(<<m>>)
            IN  /\ r.fill = <<m>> /\ r.drop = 1 /\ r.fails = FALSE
                /\ r.answer = "keep" /\ Fitting(r)
         /\ \A r \in EchoClientRecv :
              r.fill = <<>> /\ r.drop = 1 /\ r.fails = FALSE /\ Fitting(r)
<1>1. /\ <<m>> # <<>> /\ Head(<<m>>) = m
      /\ [m_text |-> m.m_text, m_buffer |-> m.m_buffer] = m
  BY DEF Message
<1>2. EchoRecv(<<m>>) = Dropping(EchoSend(m.m_text, m.m_buffer))
  <2>1. m.m_text \in BOOLEAN
    BY DEF Message
  <2>2. /\ HasData(<<m>>) /\ DataIsText(<<m>>) = m.m_text
        /\ BufferData(<<m>>) = m.m_buffer
    BY <1>1, <2>1, Zenon DEF HasData, DataIsText, BufferData
  <2> QED
    BY <2>2 DEF EchoRecv
<1>3. /\ EchoRecv(<<m>>).fill = <<[m_text |-> m.m_text, m_buffer |-> m.m_buffer]>>
      /\ EchoRecv(<<m>>).drop = 1 /\ EchoRecv(<<m>>).fails = FALSE
      /\ EchoRecv(<<m>>).answer = "keep"
  BY <1>2 DEF EchoSend, Filling, Reaction, Dropping
<1>4. EchoRecv(<<m>>).fill = <<m>> /\ Fitting(EchoRecv(<<m>>))
  BY <1>1, <1>3 DEF Fitting
<1>5. ASSUME NEW r \in EchoClientRecv
      PROVE  r.fill = <<>> /\ r.drop = 1 /\ r.fails = FALSE /\ Fitting(r)
  <2>1. PICK a \in {"keep", "abandon"} : r = Dropping(Reaction(a, 0, <<>>, 0, FALSE))
    BY DEF EchoClientRecv
  <2>2. r.fill = <<>> /\ r.drop = 1 /\ r.fails = FALSE
    BY <2>1 DEF Reaction, Dropping
  <2> QED
    BY <2>2 DEF Fitting
<1> QED
  BY <1>3, <1>4, <1>5
-----------------------------------------------------------------------------
(***************************************************************************)
(* Each step is a step of the session at either end, or leaves it alone.   *)
(***************************************************************************)
ClientServed ==
  \/ \E a \in {"keep", "abandon"} : Client!OnAccept(a) \/ Client!RunIdentity(a)
  \/ \E a \in {"keep", "abandon"}, d \in 0..1 : Client!OnRecv(d, a)
  \/ Client!OnRecvError \/ Client!OnSendError \/ Client!OnPost
  \/ Client!OnCloseDone \/ Client!OnAcceptError \/ Client!OnSend(0, "keep")
  \/ \E message \in Message : Client!Fill(message) \/ Client!ReadOk(message)
  \/ \E e \in {"closed", "other"} : Client!ReadError(e)
  \/ Client!WriteOk \/ Client!WriteError("other") \/ Client!CloseEnds

ClientMoves == ClientServed \/ UNCHANGED client

ServerServed ==
  \/ \E a \in {"keep", "abandon"} : Server!OnAccept(a) \/ Server!RunIdentity(a)
  \/ \E a \in {"keep", "abandon"}, d \in 0..1 : Server!OnRecv(d, a)
  \/ Server!OnRecvError \/ Server!OnSendError \/ Server!OnPost
  \/ Server!OnCloseDone \/ Server!OnAcceptError \/ Server!OnSend(0, "keep")
  \/ \E message \in Message : Server!Fill(message) \/ Server!ReadOk(message)
  \/ \E e \in {"closed", "other"} : Server!ReadError(e)
  \/ Server!WriteOk \/ Server!WriteError("other") \/ Server!CloseEnds

ServerMoves == ServerServed \/ UNCHANGED server

\* What an end reads and what it owes are messages.
LEMMA Messages ==
  ASSUME Base
  PROVE  /\ Len(c_arrived) < Len(s_wire) => s_wire[Len(c_arrived) + 1] \in Message
         /\ Len(s_arrived) < Len(c_wire) => c_wire[Len(s_arrived) + 1] \in Message
         /\ owes["client"] # <<>> => /\ owes["client"][1] \in Message
                                     /\ owes["client"] = <<owes["client"][1]>>
         /\ owes["server"] # <<>> => /\ owes["server"][1] \in Message
                                     /\ owes["server"] = <<owes["server"][1]>>
<1>1. /\ c_wire \in Seq(Message) /\ s_wire \in Seq(Message)
      /\ Len(c_arrived) \in Nat /\ Len(s_arrived) \in Nat
  BY BaseTypes, LenProperties
<1>2. ASSUME NEW side \in Sides, owes[side] # <<>>
      PROVE  owes[side][1] \in Message /\ owes[side] = <<owes[side][1]>>
  <2>1. owes[side] \in {<<>>} \cup {<<message>> : message \in Message}
    BY DEF Base, OwesOK
  <2>2. PICK m \in Message : owes[side] = <<m>>
    BY <1>2, <2>1
  <2> QED
    BY <2>2
<1> QED
  BY <1>1, <1>2 DEF Sides

\* Every step is one of those at either end, or the link breaks.
LEMMA Steps ==
  ASSUME Base, Next
  PROVE  \/ ClientServed /\ UNCHANGED <<server, link>>
         \/ ServerServed /\ UNCHANGED <<client, link>>
         \/ Break
<1>1. ServiceOK /\ "client" \in Sides /\ "server" \in Sides
  BY DEF Base, Sides
<1>2. CASE ClientConnects
  <2>1. OnConnect.answer \in {"keep", "abandon"}
    BY <1>1, ShownReturns DEF Returned
  <2> QED
    BY <1>2, <2>1 DEF ClientConnects, ClientServed
<1>3. CASE ServerAccepts
  <2>1. OnAccept.answer \in {"keep", "abandon"}
    BY <1>1, ShownReturns DEF Returned
  <2> QED
    BY <1>3, <2>1 DEF ServerAccepts, ServerServed
<1>4. CASE ClientTakes
  BY <1>1, <1>4, RecvReturns DEF ClientTakes, ClientServed, Returned
<1>5. CASE ServerTakes
  BY <1>1, <1>5, RecvReturns DEF ServerTakes, ServerServed, Returned
<1>6. CASE ClientHandles \/ ServerHandles
  BY <1>6 DEF ClientHandles, ServerHandles, ClientServed, ServerServed
<1>7. CASE ClientFills \/ ServerFills
  BY <1>7, Messages DEF ClientFills, ServerFills, Paid, ClientServed, ServerServed
<1>8. CASE EchoClientFills
  <2>1. [m_text : BOOLEAN, m_buffer : Words] \subseteq Message
    BY WordsAssumption DEF Message
  <2> QED
    BY <1>8, <2>1 DEF EchoClientFills, ClientServed
<1>9. CASE ClientStream
  BY <1>9, Messages DEF ClientStream, ClientReads, ClientReadsClose, ClientWrites,
     ClientCloseEnds, ClientFails, ClientServed
<1>10. CASE ServerStream
  BY <1>10, Messages DEF ServerStream, ServerReads, ServerReadsClose, ServerWrites,
     ServerCloseEnds, ServerFails, ServerServed
<1> QED
  BY <1>2, <1>3, <1>4, <1>5, <1>6, <1>7, <1>8, <1>9, <1>10
     DEF Next, ClientStrand, ServerStrand

\* So each end takes a step of its own or is left alone.
LEMMA Moves == Base /\ [Next]_vars => ClientMoves /\ ServerMoves
BY Steps DEF vars, Break, ClientMoves, ServerMoves

\* A step of an end is one of those that WebsocketSessionProofs is about.
LEMMA ClientServes == Base /\ ClientServed => ClientP!Next
BY SessionAssumptions, ClientSame, ClientP!ServedStep DEF Base, ClientInv, ClientServed

\* So the lemmas about one session say that what is true of it stays so.
LEMMA ClientKept == Base /\ ClientMoves => ClientInv'
<1> SUFFICES ASSUME Base, ClientMoves PROVE ClientInv'
  OBVIOUS
<1>1. ClientP!IInv /\ ClientP!SendInv /\ ClientP!RecvInv
  BY DEF Base, ClientInv
<1>2. CASE UNCHANGED client
  <2>1. UNCHANGED ClientP!vars
    BY <1>2 DEF client, ClientP!vars, ClientP!session, ClientP!stream, ClientP!history
  <2> QED
    BY <1>1, <2>1, SessionAssumptions, ClientP!NextIInv, ClientP!NextSendInv,
       ClientP!NextRecvInv DEF ClientInv
<1>3. CASE ~UNCHANGED client
  <2>1. ClientP!Next
    BY <1>3, ClientServes DEF ClientMoves
  <2> QED
    BY <1>1, <2>1, SessionAssumptions, ClientP!NextIInv, ClientP!NextSendInv,
       ClientP!NextRecvInv DEF ClientInv
<1> QED
  BY <1>2, <1>3

\* A step of an end is one of those that WebsocketSessionProofs is about.
LEMMA ServerServes == Base /\ ServerServed => ServerP!Next
BY SessionAssumptions, ServerSame, ServerP!ServedStep DEF Base, ServerInv, ServerServed

\* So the lemmas about one session say that what is true of it stays so.
LEMMA ServerKept == Base /\ ServerMoves => ServerInv'
<1> SUFFICES ASSUME Base, ServerMoves PROVE ServerInv'
  OBVIOUS
<1>1. ServerP!IInv /\ ServerP!SendInv /\ ServerP!RecvInv
  BY DEF Base, ServerInv
<1>2. CASE UNCHANGED server
  <2>1. UNCHANGED ServerP!vars
    BY <1>2 DEF server, ServerP!vars, ServerP!session, ServerP!stream, ServerP!history
  <2> QED
    BY <1>1, <2>1, SessionAssumptions, ServerP!NextIInv, ServerP!NextSendInv,
       ServerP!NextRecvInv DEF ServerInv
<1>3. CASE ~UNCHANGED server
  <2>1. ServerP!Next
    BY <1>3, ServerServes DEF ServerMoves
  <2> QED
    BY <1>1, <2>1, SessionAssumptions, ServerP!NextIInv, ServerP!NextSendInv,
       ServerP!NextRecvInv DEF ServerInv
<1> QED
  BY <1>2, <1>3
-----------------------------------------------------------------------------
(***************************************************************************)
(* What the steps change of what the services see.                         *)
(***************************************************************************)

\* Appending keeps a first part a first part, and so does the next element.
LEMMA FirstFacts ==
  ASSUME NEW S, NEW s \in Seq(S), NEW t \in Seq(S), First(s, t)
  PROVE  /\ \A e \in S : First(s, Append(t, e))
         /\ Len(s) < Len(t) => First(Append(s, t[Len(s) + 1]), t)
<1>1. Len(s) \in Nat /\ Len(t) \in Nat /\ Len(s) <= Len(t)
  BY DEF First
<1>2. ASSUME NEW e \in S PROVE First(s, Append(t, e))
  <2>1. /\ Len(Append(t, e)) = Len(t) + 1
        /\ \A i \in 1..Len(t) : Append(t, e)[i] = t[i]
    BY AppendProperties
  <2>2. \A i \in 1..Len(s) : i \in 1..Len(t)
    BY <1>1
  <2> QED
    BY <1>1, <2>1, <2>2 DEF First
<1>3. ASSUME Len(s) < Len(t) PROVE First(Append(s, t[Len(s) + 1]), t)
  <2> DEFINE e == t[Len(s) + 1]
  <2>1. e \in S
    BY <1>1, <1>3
  <2>2. /\ Len(Append(s, e)) = Len(s) + 1
        /\ \A i \in 1..Len(s) : Append(s, e)[i] = s[i]
        /\ Append(s, e)[Len(s) + 1] = e
    BY <2>1, AppendProperties
  <2>3. ASSUME NEW i \in 1..Len(Append(s, e)) PROVE Append(s, e)[i] = t[i]
    <3>1. i \in 1..Len(s) \/ i = Len(s) + 1
      BY <1>1, <2>2
    <3> QED
      BY <2>2, <3>1 DEF First
  <2> QED
    BY <1>1, <1>3, <2>2, <2>3 DEF First
<1> QED
  BY <1>2, <1>3

\* Nothing the services see happens at an end.
ClientStays ==
  /\ UNCHANGED <<c_filled, c_taken>>
  /\ c_rd' # "idle" => c_rd # "idle"
  /\ c_stage' = c_stage \/ (c_stage = "accept" /\ c_stage' = "refused")

\* A handler in which no service decides.
LEMMA ClientHandlesStep ==
  ASSUME Base, ClientHandles
  PROVE  ClientStays /\ UNCHANGED <<c_wire, c_arrived>> /\ c_recv_queue_size' = 0
<1>1. ClientP!IInv /\ ClientP!RecvInv /\ c_recv_queue_size = 0
  BY DEF Base, ClientInv, Single
<1>2. \/ ClientP!OnRecvError \/ ClientP!OnSendError \/ ClientP!OnPost
      \/ ClientP!OnCloseDone \/ ClientP!OnAcceptError \/ ClientP!OnSend(0, "keep")
  BY ClientSame DEF ClientHandles
<1> QED
  BY <1>1, <1>2, SessionAssumptions, ClientP!OtherHandlers DEF ClientStays

\* The stream of an end: it reads the next message, writes one, or fails.
LEMMA ClientStreamStep ==
  ASSUME Base, ClientStream
  PROVE  /\ ClientStays /\ c_recv_queue_size' = 0 /\ UNCHANGED server
         /\ \/ UNCHANGED <<c_wire, c_arrived>>
            \/ /\ Len(c_arrived) < Len(s_wire) /\ UNCHANGED c_wire
               /\ c_arrived' = Append(c_arrived, s_wire[Len(c_arrived) + 1])
            \/ UNCHANGED c_arrived /\ \E m : c_wire' = Append(c_wire, m)
<1>1. c_recv_queue_size = 0
  BY DEF Base, Single
<1>2. CASE ClientReads
  <2>1. /\ ClientP!ReadOk(s_wire[Len(c_arrived) + 1]) /\ UNCHANGED server
        /\ Len(c_arrived) < Len(s_wire)
    BY <1>2, ClientSame DEF ClientReads
  <2> QED
    BY <1>1, <2>1, SessionAssumptions, ClientP!ReadStep DEF ClientStays
<1>3. CASE ClientWrites
  <2>1. ClientP!WriteOk /\ UNCHANGED server
    BY <1>3, ClientSame DEF ClientWrites
  <2> QED
    BY <1>1, <2>1, SessionAssumptions, ClientP!WriteStep DEF ClientStays
<1>4. CASE ClientReadsClose \/ ClientCloseEnds \/ ClientFails
  <2>1. /\ \/ ClientP!CloseEnds
           \/ \E e : e # "idle" /\ (ClientP!ReadError(e) \/ ClientP!WriteError(e))
        /\ UNCHANGED server
    BY <1>4, ClientSame DEF ClientReadsClose, ClientCloseEnds, ClientFails
  <2> QED
    BY <1>1, <2>1, SessionAssumptions, ClientP!FailStep DEF ClientStays
<1> QED
  BY <1>2, <1>3, <1>4 DEF ClientStream

\* A fill.
LEMMA ClientFillStep ==
  ASSUME Base, NEW m, Client!Fill(m)
  PROVE  /\ c_stage = "up" /\ c_filled' = Append(c_filled, m)
         /\ c_recv_queue_size' = 0
         /\ UNCHANGED <<c_wire, c_arrived, c_taken, c_rd, c_stage>>
<1>1. ClientP!Fill(m) /\ c_recv_queue_size = 0
  BY ClientSame DEF Base, Single
<1> QED
  BY <1>1, SessionAssumptions, ClientP!FillStep

\* A callback takes the message it was shown.
LEMMA ClientTakeStep ==
  ASSUME Base, NEW a \in {"keep", "abandon"}, Client!OnRecv(1, a)
  PROVE  /\ c_taken' = Append(c_taken, s_filled[Len(c_taken) + 1])
         /\ c_recv_queue_size' = 0
         /\ UNCHANGED <<c_filled, c_wire, c_arrived, c_stage>>
         /\ a = "abandon" => c_rd' = "idle"
<1>1. /\ ClientP!IInv /\ ClientP!RecvInv /\ c_recv_queue_size = 0
      /\ ClientP!OnRecv(1, a)
  BY ClientSame DEF Base, ClientInv, Single
<1>2. c_rd = "ok"
  BY DEF Client!OnRecv
<1>3. a \in ClientP!Answers /\ (a = "abandon" => ~ClientP!Keeps(a))
  BY DEF ClientP!Answers, ClientP!Keeps
<1> QED
  BY <1>1, <1>2, <1>3, SessionAssumptions, ClientP!TakesOne, ClientFront

\* The connection is shown to the service.
LEMMA ClientShownStep ==
  ASSUME Base, NEW a \in {"keep", "abandon"},
         Client!OnAccept(a) \/ Client!RunIdentity(a)
  PROVE  /\ c_stage # "up" /\ c_stage' = "up" /\ c_recv_queue_size' = 0
         /\ UNCHANGED <<c_filled, c_wire, c_arrived, c_taken>>
<1>1. /\ ClientP!OnAccept(a) \/ ClientP!RunIdentity(a)
      /\ c_recv_queue_size = 0 /\ a \in ClientP!Answers
  BY ClientSame DEF Base, Single, ClientP!Answers
<1> QED
  BY <1>1, SessionAssumptions, ClientP!ShownStep

\* Nothing the services see happens at an end.
ServerStays ==
  /\ UNCHANGED <<s_filled, s_taken>>
  /\ s_rd' # "idle" => s_rd # "idle"
  /\ s_stage' = s_stage \/ (s_stage = "accept" /\ s_stage' = "refused")

\* A handler in which no service decides.
LEMMA ServerHandlesStep ==
  ASSUME Base, ServerHandles
  PROVE  ServerStays /\ UNCHANGED <<s_wire, s_arrived>> /\ s_recv_queue_size' = 0
<1>1. ServerP!IInv /\ ServerP!RecvInv /\ s_recv_queue_size = 0
  BY DEF Base, ServerInv, Single
<1>2. \/ ServerP!OnRecvError \/ ServerP!OnSendError \/ ServerP!OnPost
      \/ ServerP!OnCloseDone \/ ServerP!OnAcceptError \/ ServerP!OnSend(0, "keep")
  BY ServerSame DEF ServerHandles
<1> QED
  BY <1>1, <1>2, SessionAssumptions, ServerP!OtherHandlers DEF ServerStays

\* The stream of an end: it reads the next message, writes one, or fails.
LEMMA ServerStreamStep ==
  ASSUME Base, ServerStream
  PROVE  /\ ServerStays /\ s_recv_queue_size' = 0 /\ UNCHANGED client
         /\ \/ UNCHANGED <<s_wire, s_arrived>>
            \/ /\ Len(s_arrived) < Len(c_wire) /\ UNCHANGED s_wire
               /\ s_arrived' = Append(s_arrived, c_wire[Len(s_arrived) + 1])
            \/ UNCHANGED s_arrived /\ \E m : s_wire' = Append(s_wire, m)
<1>1. s_recv_queue_size = 0
  BY DEF Base, Single
<1>2. CASE ServerReads
  <2>1. /\ ServerP!ReadOk(c_wire[Len(s_arrived) + 1]) /\ UNCHANGED client
        /\ Len(s_arrived) < Len(c_wire)
    BY <1>2, ServerSame DEF ServerReads
  <2> QED
    BY <1>1, <2>1, SessionAssumptions, ServerP!ReadStep DEF ServerStays
<1>3. CASE ServerWrites
  <2>1. ServerP!WriteOk /\ UNCHANGED client
    BY <1>3, ServerSame DEF ServerWrites
  <2> QED
    BY <1>1, <2>1, SessionAssumptions, ServerP!WriteStep DEF ServerStays
<1>4. CASE ServerReadsClose \/ ServerCloseEnds \/ ServerFails
  <2>1. /\ \/ ServerP!CloseEnds
           \/ \E e : e # "idle" /\ (ServerP!ReadError(e) \/ ServerP!WriteError(e))
        /\ UNCHANGED client
    BY <1>4, ServerSame DEF ServerReadsClose, ServerCloseEnds, ServerFails
  <2> QED
    BY <1>1, <2>1, SessionAssumptions, ServerP!FailStep DEF ServerStays
<1> QED
  BY <1>2, <1>3, <1>4 DEF ServerStream

\* A fill.
LEMMA ServerFillStep ==
  ASSUME Base, NEW m, Server!Fill(m)
  PROVE  /\ s_stage = "up" /\ s_filled' = Append(s_filled, m)
         /\ s_recv_queue_size' = 0
         /\ UNCHANGED <<s_wire, s_arrived, s_taken, s_rd, s_stage>>
<1>1. ServerP!Fill(m) /\ s_recv_queue_size = 0
  BY ServerSame DEF Base, Single
<1> QED
  BY <1>1, SessionAssumptions, ServerP!FillStep

\* A callback takes the message it was shown.
LEMMA ServerTakeStep ==
  ASSUME Base, NEW a \in {"keep", "abandon"}, Server!OnRecv(1, a)
  PROVE  /\ s_taken' = Append(s_taken, c_filled[Len(s_taken) + 1])
         /\ s_recv_queue_size' = 0
         /\ UNCHANGED <<s_filled, s_wire, s_arrived, s_stage>>
         /\ a = "abandon" => s_rd' = "idle"
<1>1. /\ ServerP!IInv /\ ServerP!RecvInv /\ s_recv_queue_size = 0
      /\ ServerP!OnRecv(1, a)
  BY ServerSame DEF Base, ServerInv, Single
<1>2. s_rd = "ok"
  BY DEF Server!OnRecv
<1>3. a \in ServerP!Answers /\ (a = "abandon" => ~ServerP!Keeps(a))
  BY DEF ServerP!Answers, ServerP!Keeps
<1> QED
  BY <1>1, <1>2, <1>3, SessionAssumptions, ServerP!TakesOne, ServerFront

\* The connection is shown to the service.
LEMMA ServerShownStep ==
  ASSUME Base, NEW a \in {"keep", "abandon"},
         Server!OnAccept(a) \/ Server!RunIdentity(a)
  PROVE  /\ s_stage # "up" /\ s_stage' = "up" /\ s_recv_queue_size' = 0
         /\ UNCHANGED <<s_filled, s_wire, s_arrived, s_taken>>
<1>1. /\ ServerP!OnAccept(a) \/ ServerP!RunIdentity(a)
      /\ s_recv_queue_size = 0 /\ a \in ServerP!Answers
  BY ServerSame DEF Base, Single, ServerP!Answers
<1> QED
  BY <1>1, SessionAssumptions, ServerP!ShownStep

\* Nothing the link carries is changed by an action of this end.
ClientUnlinked ==
  \/ ClientHandles
  \/ \E m : Client!Fill(m)
  \/ \E a \in {"keep", "abandon"} :
       Client!OnRecv(1, a) \/ Client!OnAccept(a) \/ Client!RunIdentity(a)

\* It keeps what an end reads a part of what the other wrote.
LEMMA ClientUnlinkedStep ==
  ASSUME Base, ClientUnlinked, UNCHANGED server
  PROVE  Single' /\ Linked'
<1>1. /\ s_recv_queue_size = 0 /\ First(c_arrived, s_wire) /\ First(s_arrived, c_wire)
  BY DEF Base, Single, Linked
<1>2. c_recv_queue_size' = 0 /\ UNCHANGED <<c_wire, c_arrived>>
  BY ClientHandlesStep, ClientFillStep, ClientTakeStep, ClientShownStep
     DEF ClientUnlinked
<1>3. UNCHANGED <<s_wire, s_arrived, s_recv_queue_size>>
  BY DEF server
<1> QED
  BY <1>1, <1>2, <1>3 DEF Single, Linked, First

\* So does a stream, which reads what comes next on the wire.
LEMMA ClientLinkedStep ==
  ASSUME Base, ClientStream, ClientInv'
  PROVE  Single' /\ Linked'
<1>1. /\ s_recv_queue_size = 0 /\ First(c_arrived, s_wire) /\ First(s_arrived, c_wire)
  BY DEF Base, Single, Linked
<1>2. c_recv_queue_size' = 0 /\ UNCHANGED <<s_wire, s_arrived, s_recv_queue_size>>
  BY ClientStreamStep DEF server
<1>3. /\ c_wire \in Seq(Message) /\ s_wire \in Seq(Message)
      /\ c_arrived \in Seq(Message) /\ s_arrived \in Seq(Message)
  BY BaseTypes
<1>4. c_wire' \in Seq(Message)
  BY ClientSame DEF ClientInv, ClientP!IInv, ClientP!Queues, Message, ClientP!Message
<1>5. CASE UNCHANGED <<c_wire, c_arrived>>
  BY <1>1, <1>2, <1>5 DEF Single, Linked, First
<1>6. CASE /\ Len(c_arrived) < Len(s_wire) /\ UNCHANGED c_wire
           /\ c_arrived' = Append(c_arrived, s_wire[Len(c_arrived) + 1])
  <2>1. First(c_arrived', s_wire)
    BY <1>1, <1>3, <1>6, FirstFacts
  <2> QED
    BY <1>1, <1>2, <1>6, <2>1 DEF Single, Linked, First
<1>7. ASSUME NEW m, c_wire' = Append(c_wire, m), UNCHANGED c_arrived
      PROVE  Single' /\ Linked'
  <2>1. Len(c_wire') = Len(c_wire) + 1 /\ c_wire'[Len(c_wire) + 1] = m
    BY <1>3, <1>7
  <2>2. m \in Message
    BY <1>3, <1>4, <2>1
  <2>3. First(s_arrived, c_wire')
    BY <1>1, <1>3, <1>7, <2>2, FirstFacts
  <2> QED
    BY <1>1, <1>2, <1>7, <2>3 DEF Single, Linked, First
<1> QED
  BY <1>5, <1>6, <1>7, ClientStreamStep

ServerUnlinked ==
  \/ ServerHandles
  \/ \E m : Server!Fill(m)
  \/ \E a \in {"keep", "abandon"} :
       Server!OnRecv(1, a) \/ Server!OnAccept(a) \/ Server!RunIdentity(a)

\* It keeps what an end reads a part of what the other wrote.
LEMMA ServerUnlinkedStep ==
  ASSUME Base, ServerUnlinked, UNCHANGED client
  PROVE  Single' /\ Linked'
<1>1. /\ c_recv_queue_size = 0 /\ First(s_arrived, c_wire) /\ First(c_arrived, s_wire)
  BY DEF Base, Single, Linked
<1>2. s_recv_queue_size' = 0 /\ UNCHANGED <<s_wire, s_arrived>>
  BY ServerHandlesStep, ServerFillStep, ServerTakeStep, ServerShownStep
     DEF ServerUnlinked
<1>3. UNCHANGED <<c_wire, c_arrived, c_recv_queue_size>>
  BY DEF client
<1> QED
  BY <1>1, <1>2, <1>3 DEF Single, Linked, First

\* So does a stream, which reads what comes next on the wire.
LEMMA ServerLinkedStep ==
  ASSUME Base, ServerStream, ServerInv'
  PROVE  Single' /\ Linked'
<1>1. /\ c_recv_queue_size = 0 /\ First(s_arrived, c_wire) /\ First(c_arrived, s_wire)
  BY DEF Base, Single, Linked
<1>2. s_recv_queue_size' = 0 /\ UNCHANGED <<c_wire, c_arrived, c_recv_queue_size>>
  BY ServerStreamStep DEF client
<1>3. /\ s_wire \in Seq(Message) /\ c_wire \in Seq(Message)
      /\ s_arrived \in Seq(Message) /\ c_arrived \in Seq(Message)
  BY BaseTypes
<1>4. s_wire' \in Seq(Message)
  BY ServerSame DEF ServerInv, ServerP!IInv, ServerP!Queues, Message, ServerP!Message
<1>5. CASE UNCHANGED <<s_wire, s_arrived>>
  BY <1>1, <1>2, <1>5 DEF Single, Linked, First
<1>6. CASE /\ Len(s_arrived) < Len(c_wire) /\ UNCHANGED s_wire
           /\ s_arrived' = Append(s_arrived, c_wire[Len(s_arrived) + 1])
  <2>1. First(s_arrived', c_wire)
    BY <1>1, <1>3, <1>6, FirstFacts
  <2> QED
    BY <1>1, <1>2, <1>6, <2>1 DEF Single, Linked, First
<1>7. ASSUME NEW m, s_wire' = Append(s_wire, m), UNCHANGED s_arrived
      PROVE  Single' /\ Linked'
  <2>1. Len(s_wire') = Len(s_wire) + 1 /\ s_wire'[Len(s_wire) + 1] = m
    BY <1>3, <1>7
  <2>2. m \in Message
    BY <1>3, <1>4, <2>1
  <2>3. First(c_arrived, s_wire')
    BY <1>1, <1>3, <1>7, <2>2, FirstFacts
  <2> QED
    BY <1>1, <1>2, <1>7, <2>3 DEF Single, Linked, First
<1> QED
  BY <1>5, <1>6, <1>7, ServerStreamStep

-----------------------------------------------------------------------------
(***************************************************************************)
(* What the callbacks do in the states the invariant allows.               *)
(***************************************************************************)

\* What a callback that does r leaves of the service, if it fails nothing.
Called(side, r) ==
  /\ r.fails = FALSE /\ Fitting(r)
  /\ owes' = [owes EXCEPT ![side] = r.fill]
  /\ count' = [count EXCEPT ![side] = r.count]
  /\ asserted' = asserted
  /\ UNCHANGED <<program, m_text, m_max_message_count>>

\* What a callback of the ping-pong that counted a message, the nth of both
\* ends, does next: nothing without a limit, the end at the limit, else the
\* next message.
Continues(r, n) ==
  \/ n >= m_max_message_count /\ r.answer = "abandon" /\ r.count = n /\ r.fill = <<>>
  \/ /\ n < m_max_message_count /\ r.answer = "keep" /\ r.count = n + 1
     /\ r.fill = <<[m_text |-> m_text, m_buffer |-> n + 1]>>

\* Numbers of messages are natural numbers.
LEMMA Lengths ==
  ASSUME Base
  PROVE  /\ Len(c_taken) \in Nat /\ Len(s_taken) \in Nat
         /\ Len(c_filled) \in Nat /\ Len(s_filled) \in Nat
         /\ Len(ClientGiven) \in Nat /\ Len(ServerGiven) \in Nat
         /\ Len(c_filled) <= Len(ClientGiven) /\ Len(s_filled) <= Len(ServerGiven)
         /\ m_max_message_count \in Nat /\ m_max_message_count <= MaxMessages
         /\ count["client"] \in 0..MaxMessages /\ count["server"] \in 0..MaxMessages
         /\ MaxMessages \in Nat
BY BaseTypes, LenProperties, MessagesAssumption DEF Base, ServiceOK, Sides, First

\* What the invariant says of the two counts.
LEMMA CountFacts ==
  ASSUME IInv, program = "test"
  PROVE  /\ count["client"] = Len(c_taken) + Len(ClientGiven)
         /\ count["server"] = Len(s_taken) + Len(ServerGiven)
         /\ count["client"] <= m_max_message_count
         /\ count["server"] <= m_max_message_count
         /\ Len(ClientGiven) - Len(c_taken) \in 0..1
         /\ Len(s_taken) - Len(ServerGiven) \in 0..1
         /\ c_rd # "idle" /\ m_max_message_count > 0 =>
              Len(ClientGiven) = Len(c_taken) + 1
         /\ s_rd # "idle" => Len(ServerGiven) = Len(s_taken)
BY Zenon DEF IInv, Turns, Counts

\* The client of the ping-pong finds the message after its count.
LEMMA TestClientTakes ==
  ASSUME IInv, program = "test", owes["client"] = <<>>, c_rd = "ok",
         NEW r \in OnRecv("client", Client!TypedBack(c_recv_queue)),
         Callback("client", r)
  PROVE  /\ Called("client", r) /\ r.drop = 1
         /\ Continues(r, Len(c_taken) + 1 + Len(ClientGiven))
         /\ Len(ClientGiven) = Len(c_taken) + 1
         /\ Len(c_taken) + 1 + Len(ClientGiven) <= m_max_message_count
<1> DEFINE k == Len(c_taken) + 1
           n == count["client"]
<1>1. Base /\ ServiceOK
  BY DEF IInv, Base
<1>2. /\ Client!TypedBack(c_recv_queue) = <<s_filled[k]>>
      /\ k \in 1..Len(s_filled) /\ k \in 1..Len(ServerGiven)
      /\ ServerGiven[k] = s_filled[k]
  BY <1>1, ClientFront, BaseTypes, Lengths DEF First
<1>3. s_filled[k] = [m_text |-> m_text, m_buffer |-> 2 * k]
  BY <1>2 DEF IInv, Turns, Order, Counts
<1>4. m_max_message_count > 0
  <2>1. Len(ServerGiven) >= 1
    BY <1>1, <1>2, Lengths
  <2>2. Len(s_taken) >= 1
    BY <1>1, <2>1, Lengths DEF IInv, Turns, Order, Counts
  <2>3. count["server"] >= 2
    BY <1>1, <2>1, <2>2, Lengths DEF IInv, Turns, Order, Counts
  <2> QED
    BY <1>1, <2>3, Lengths DEF IInv, Turns, Order, Counts
<1>5. Len(ClientGiven) = k /\ n = Len(c_taken) + k /\ n + 1 = 2 * k
  <2>1. Len(ClientGiven) = Len(c_taken) + 1 /\ n = Len(c_taken) + Len(ClientGiven)
    BY <1>4, CountFacts
  <2> QED
    BY <1>1, <2>1, Lengths
<1>6. n < m_max_message_count
  <2>1. Len(ServerGiven) >= k
    BY <1>1, <1>2, Lengths
  <2>2. /\ count["server"] = Len(s_taken) + Len(ServerGiven)
        /\ Len(s_taken) - Len(ServerGiven) \in 0..1
        /\ count["server"] <= m_max_message_count
    BY CountFacts
  <2> QED
    BY <1>1, <1>5, <2>1, <2>2, Lengths
<1>7. n \in 0..MaxMessages /\ n + 1 \in 0..MaxMessages
  BY <1>1, <1>6, Lengths
<1>8. r = Dropping(SendMessage(n + 1))
  <2>1. r = RecvMessage(n, <<[m_text |-> m_text, m_buffer |-> n + 1]>>)
    BY <1>2, <1>3, <1>5 DEF OnRecv
  <2> QED
    BY <1>1, <1>6, <1>7, <2>1, RecvMessageTakes
<1>9. Continues(r, n + 1) /\ r.drop = 1 /\ r.fails = FALSE /\ Fitting(r)
  <2> DEFINE p == n + 1
             q == SendMessage(p)
  <2>1. p \in 0..MaxMessages /\ m_max_message_count # 0 /\ r = Dropping(q)
    BY <1>1, <1>4, <1>7, <1>8, Lengths
  <2> HIDE DEF p
  <2>2. /\ r.fails = FALSE /\ r.drop = 1 /\ Fitting(r)
        /\ r.count = q.count /\ r.fill = q.fill /\ r.answer = q.answer
    BY <1>1, <2>1, SendMessageFill
  <2>3. \/ /\ p >= m_max_message_count /\ q.answer = "abandon"
           /\ q.count = p /\ q.fill = <<>>
        \/ /\ p < m_max_message_count /\ q.answer = "keep" /\ q.count = p + 1
           /\ q.fill = <<[m_text |-> m_text, m_buffer |-> p + 1]>>
    BY <1>1, <2>1, SendMessageFill
  <2>4. Continues(r, p)
    BY <2>2, <2>3 DEF Continues
  <2> QED
    BY <2>2, <2>4 DEF p
<1>10. Called("client", r)
  <2>1. asserted' = asserted
    BY <1>1, <1>9 DEF Callback, ServiceOK
  <2> QED
    BY <1>9, <2>1 DEF Callback, SetUserData, Called
<1> QED
  BY <1>1, <1>5, <1>6, <1>9, <1>10, Lengths
\* So does the server, which has given a message for each it took.
LEMMA TestServerTakes ==
  ASSUME IInv, program = "test", owes["server"] = <<>>, s_rd = "ok",
         NEW r \in OnRecv("server", Server!TypedBack(s_recv_queue)),
         Callback("server", r)
  PROVE  /\ Called("server", r) /\ r.drop = 1
         /\ Continues(r, Len(s_taken) + 1 + Len(ServerGiven))
         /\ Len(ServerGiven) = Len(s_taken)
         /\ Len(s_taken) + 1 + Len(ServerGiven) <= m_max_message_count
<1> DEFINE k == Len(s_taken) + 1
           n == count["server"]
<1>1. Base /\ ServiceOK
  BY DEF IInv, Base
<1>2. /\ Server!TypedBack(s_recv_queue) = <<c_filled[k]>>
      /\ k \in 1..Len(c_filled) /\ k \in 1..Len(ClientGiven)
      /\ ClientGiven[k] = c_filled[k]
  BY <1>1, ServerFront, BaseTypes, Lengths DEF First
<1>3. c_filled[k] = [m_text |-> m_text, m_buffer |-> 2 * k - 1]
  BY <1>2 DEF IInv, Turns, Order, Counts
<1>4. Len(ServerGiven) = Len(s_taken) /\ n = 2 * Len(s_taken) /\ n + 1 = 2 * k - 1
  <2>1. s_rd # "idle"
    OBVIOUS
  <2>2. Len(ServerGiven) = Len(s_taken) /\ n = Len(s_taken) + Len(ServerGiven)
    BY <2>1, Zenon DEF IInv, Turns, Order, Counts
  <2> QED
    BY <1>1, <2>2, Lengths
<1>5. n < m_max_message_count
  <2>1. Len(ClientGiven) >= k
    BY <1>1, <1>2, Lengths
  <2>2. /\ count["client"] = Len(c_taken) + Len(ClientGiven)
        /\ Len(ClientGiven) - Len(c_taken) \in 0..1
        /\ count["client"] <= m_max_message_count
    BY CountFacts
  <2> QED
    BY <1>1, <1>4, <2>1, <2>2, Lengths
<1>6. n \in 0..MaxMessages /\ n + 1 \in 0..MaxMessages /\ m_max_message_count # 0
  BY <1>1, <1>5, Lengths
<1>7. r = Dropping(SendMessage(n + 1))
  <2>1. r = RecvMessage(n, <<[m_text |-> m_text, m_buffer |-> n + 1]>>)
    BY <1>2, <1>3, <1>4 DEF OnRecv
  <2> QED
    BY <1>1, <1>5, <1>6, <2>1, RecvMessageTakes
<1>8. Continues(r, n + 1) /\ r.drop = 1 /\ r.fails = FALSE /\ Fitting(r)
  <2> DEFINE p == n + 1
             q == SendMessage(p)
  <2>1. p \in 0..MaxMessages /\ m_max_message_count # 0 /\ r = Dropping(q)
    BY <1>6, <1>7
  <2> HIDE DEF p
  <2>2. /\ r.fails = FALSE /\ r.drop = 1 /\ Fitting(r)
        /\ r.count = q.count /\ r.fill = q.fill /\ r.answer = q.answer
    BY <1>1, <2>1, SendMessageFill
  <2>3. \/ /\ p >= m_max_message_count /\ q.answer = "abandon"
           /\ q.count = p /\ q.fill = <<>>
        \/ /\ p < m_max_message_count /\ q.answer = "keep" /\ q.count = p + 1
           /\ q.fill = <<[m_text |-> m_text, m_buffer |-> p + 1]>>
    BY <1>1, <2>1, SendMessageFill
  <2>4. Continues(r, p)
    BY <2>2, <2>3 DEF Continues
  <2> QED
    BY <2>2, <2>4 DEF p
<1>9. Called("server", r)
  <2>1. asserted' = asserted
    BY <1>1, <1>8 DEF Callback, ServiceOK
  <2> QED
    BY <1>8, <2>1 DEF Callback, SetUserData, Called
<1> QED
  BY <1>1, <1>4, <1>5, <1>8, <1>9, Lengths

\* The echo server fills the message it took.
LEMMA EchoServerTakes ==
  ASSUME IInv, program = "echo", s_rd = "ok",
         NEW r \in OnRecv("server", Server!TypedBack(s_recv_queue)),
         Callback("server", r)
  PROVE  /\ Called("server", r) /\ r.drop = 1
         /\ r.fill = <<c_filled[Len(s_taken) + 1]>>
<1>1. Base /\ ServiceOK
  BY DEF IInv, Base
<1> DEFINE m == c_filled[Len(s_taken) + 1]
<1>2. Server!TypedBack(s_recv_queue) = <<m>> /\ m \in Message
  BY <1>1, ServerFront
<1>3. r = EchoRecv(<<m>>)
  BY <1>2 DEF OnRecv
<1> HIDE DEF m
<1>4. r.fill = <<m>> /\ r.drop = 1 /\ r.fails = FALSE /\ Fitting(r)
  BY <1>2, <1>3, EchoTakes
<1>5. asserted' = asserted
  BY <1>1, <1>4 DEF Callback, ServiceOK
<1> QED
  BY <1>4, <1>5 DEF Callback, SetUserData, Called, m

\* Its client takes the message and fills nothing.
LEMMA EchoClientTakes ==
  ASSUME IInv, program = "echo", c_rd = "ok",
         NEW r \in OnRecv("client", Client!TypedBack(c_recv_queue)),
         Callback("client", r)
  PROVE  Called("client", r) /\ r.drop = 1 /\ r.fill = <<>>
<1>1. Base /\ ServiceOK
  BY DEF IInv, Base
<1>2. s_filled[Len(c_taken) + 1] \in Message
  BY <1>1, ClientFront
<1>3. r \in EchoClientRecv
  BY DEF OnRecv
<1>4. r.fill = <<>> /\ r.drop = 1 /\ r.fails = FALSE /\ Fitting(r)
  BY <1>2, <1>3, EchoTakes
<1>5. asserted' = asserted
  BY <1>1, <1>4 DEF Callback, ServiceOK
<1> QED
  BY <1>4, <1>5 DEF Callback, SetUserData, Called

\* The client of the ping-pong gives the first message, if there is one.
LEMMA Connects ==
  ASSUME Base, Callback("client", OnConnect)
  PROVE  /\ Called("client", OnConnect)
         /\ program = "echo" => OnConnect.fill = <<>>
         /\ program = "test" =>
              \/ m_max_message_count = 0 /\ OnConnect.count = 0 /\ OnConnect.fill = <<>>
              \/ /\ m_max_message_count > 0 /\ OnConnect.count = 1
                 /\ OnConnect.fill = <<[m_text |-> m_text, m_buffer |-> 1]>>
<1>1. ServiceOK /\ 0 \in 0..MaxMessages /\ m_max_message_count \in Nat
  BY MessagesAssumption DEF Base, ServiceOK
<1> DEFINE r == OnConnect
<1>2. CASE program = "test"
  <2>1. InsertConnection.count = 0
    BY DEF InsertConnection, Keeping, Reaction
  <2>2. r = SendMessage(0)
    BY <1>2, <2>1 DEF OnConnect
  <2>3. /\ r.fails = FALSE /\ Fitting(r)
        /\ \/ m_max_message_count = 0 /\ r.count = 0 /\ r.fill = <<>>
           \/ 0 >= m_max_message_count /\ r.count = 0 /\ r.fill = <<>>
           \/ /\ 0 < m_max_message_count /\ r.count = 0 + 1
              /\ r.fill = <<[m_text |-> m_text, m_buffer |-> 0 + 1]>>
    BY <1>1, <2>2, SendMessageFill
  <2> HIDE DEF r
  <2>4. \/ m_max_message_count = 0 /\ r.count = 0 /\ r.fill = <<>>
        \/ /\ m_max_message_count > 0 /\ r.count = 1
           /\ r.fill = <<[m_text |-> m_text, m_buffer |-> 1]>>
    BY <1>1, <2>3
  <2> QED
    BY <1>1, <1>2, <2>3, <2>4 DEF Callback, SetUserData, Called, ServiceOK, r
<1>3. CASE program = "echo"
  <2>1. r.fails = FALSE /\ r.fill = <<>>
    BY <1>3 DEF OnConnect, Keeping, Reaction
  <2>2. Fitting(r)
    BY <2>1 DEF Fitting
  <2> QED
    BY <1>1, <1>3, <2>1, <2>2 DEF Callback, SetUserData, Called, ServiceOK
<1> QED
  BY <1>1, <1>2, <1>3 DEF ServiceOK

\* The echo server gives its greeting, the server of the ping-pong waits.
LEMMA Accepts ==
  ASSUME Base, Callback("server", OnAccept)
  PROVE  /\ Called("server", OnAccept)
         /\ program = "echo" => OnAccept.fill = <<Hello>>
         /\ program = "test" => OnAccept.count = 0 /\ OnAccept.fill = <<>>
<1>1. ServiceOK
  BY DEF Base
<1>2. CASE program = "test"
  <2>1. OnAccept.fails = FALSE /\ OnAccept.fill = <<>> /\ OnAccept.count = 0
    BY <1>2 DEF OnAccept, InsertConnection, Keeping, Reaction
  <2>2. Fitting(OnAccept)
    BY <2>1 DEF Fitting
  <2> QED
    BY <1>1, <1>2, <2>1, <2>2 DEF Callback, SetUserData, Called, ServiceOK
<1>3. CASE program = "echo"
  <2>1. OnAccept.fails = FALSE /\ OnAccept.fill = <<Hello>>
    BY <1>3 DEF OnAccept, EchoSend, Filling, Reaction, Hello
  <2>2. Hello \in Message
    BY WordsAssumption DEF Hello, Message
  <2>3. Fitting(OnAccept)
    BY <2>1, <2>2 DEF Fitting
  <2> QED
    BY <1>1, <1>3, <2>1, <2>3 DEF Callback, SetUserData, Called, ServiceOK
<1> QED
  BY <1>1, <1>2, <1>3 DEF ServiceOK
-----------------------------------------------------------------------------
(***************************************************************************)
(* Each step keeps the invariant.                                          *)
(***************************************************************************)

\* A sequence that got one element more, or none.
LEMMA Grown ==
  ASSUME NEW S, NEW s \in Seq(S)
  PROVE  /\ s \o <<>> = s
         /\ \A e \in S : /\ s \o <<e>> = Append(s, e)
                         /\ Len(s \o <<e>>) = Len(s) + 1
                         /\ \A i \in 1..Len(s) : (s \o <<e>>)[i] = s[i]
                         /\ (s \o <<e>>)[Len(s) + 1] = e
                         /\ \A i \in 1..(Len(s) + 1) : i \in 1..Len(s) \/ i = Len(s) + 1
<1>1. s \o <<>> = s
  BY ConcatEmptySeq
<1>2. ASSUME NEW e \in S PROVE s \o <<e>> = Append(s, e)
  BY AppendIsConcat
<1>3. ASSUME NEW e \in S
      PROVE  /\ Len(Append(s, e)) = Len(s) + 1
             /\ \A i \in 1..Len(s) : Append(s, e)[i] = s[i]
             /\ Append(s, e)[Len(s) + 1] = e
  BY <1>3, AppendProperties
<1>4. \A i \in 1..(Len(s) + 1) : i \in 1..Len(s) \/ i = Len(s) + 1
  OBVIOUS
<1> QED
  BY <1>1, <1>2, <1>3, <1>4

\* A sequence of messages that got one more.
LEMMA GrownBy ==
  ASSUME NEW s \in Seq(Message), NEW m \in Message, NEW t, t = s \o <<m>>
  PROVE  /\ Len(t) = Len(s) + 1
         /\ \A i \in 1..Len(s) : t[i] = s[i]
         /\ t[Len(s) + 1] = m
         /\ \A i \in 1..(Len(s) + 1) : i \in 1..Len(s) \/ i = Len(s) + 1
BY Grown

\* Steps in which no callback gives, takes or counts anything.
Quiet ==
  /\ UNCHANGED <<c_taken, s_taken, program, m_text, m_max_message_count, count,
                 asserted>>
  /\ ClientGiven' = ClientGiven /\ ServerGiven' = ServerGiven
  /\ owes["client"] = <<>> => owes'["client"] = <<>>
  /\ c_rd' # "idle" => c_rd # "idle"
  /\ s_rd' # "idle" => s_rd # "idle"
  /\ c_stage' = "up" <=> c_stage = "up"
  /\ s_stage' = "up" <=> s_stage = "up"

\* They keep the parts of the invariant that are about the services.
LEMMA QuietKeeps ==
  ASSUME Before, Turns, Echoes, ~asserted, Quiet
  PROVE  (Before /\ Turns /\ Echoes /\ ~asserted)'
<1>1. Before' /\ ~asserted'
  BY DEF Before, Quiet
<1>2. Turns'
  BY DEF Turns, Order, Counts, Quiet
<1>3. Echoes'
  BY DEF Echoes, Quiet
<1> QED
  BY <1>1, <1>2, <1>3

\* The running callback makes the fill it owes: nothing is given but what was.
LEMMA ClientPays ==
  ASSUME Base, ClientFills
  PROVE  OwesOK' /\ Quiet
<1>1. /\ owes["client"] # <<>> /\ Paid("client") /\ UNCHANGED server
      /\ Client!Fill(owes["client"][1])
  BY DEF ClientFills
<1>2. /\ owes["client"][1] \in Message /\ owes["client"] = <<owes["client"][1]>>
      /\ c_filled \in Seq(Message)
      /\ owes \in [Sides -> {<<>>} \cup {<<m>> : m \in Message}]
  BY <1>1, Messages, BaseTypes DEF Base, OwesOK
<1>3. /\ c_filled' = Append(c_filled, owes["client"][1])
      /\ UNCHANGED <<c_taken, c_rd, c_stage>>
  BY <1>1, ClientFillStep
<1>4. /\ owes'["client"] = <<>> /\ owes'["server"] = owes["server"]
      /\ owes' \in [Sides -> {<<>>} \cup {<<m>> : m \in Message}]
      /\ UNCHANGED <<program, m_text, m_max_message_count, count, asserted>>
  BY <1>1, <1>2 DEF Paid, Sides
<1>5. c_filled \o owes["client"] = c_filled' \o <<>>
  <2>1. PICK m \in Message : owes["client"] = <<m>> /\ c_filled' = Append(c_filled, m)
    BY <1>2, <1>3
  <2>2. c_filled \o <<m>> = Append(c_filled, m) /\ Append(c_filled, m) \in Seq(Message)
    BY <1>2, Grown
  <2>3. Append(c_filled, m) \o <<>> = Append(c_filled, m)
    BY <2>2, Grown
  <2> QED
    BY <2>1, <2>2, <2>3
<1>6. UNCHANGED <<s_filled, s_taken, s_rd, s_stage>>
  BY <1>1 DEF server
<1> QED
  BY <1>3, <1>4, <1>5, <1>6 DEF Quiet, ClientGiven, ServerGiven, OwesOK

\* Nothing the services see.
LEMMA ClientQuiet ==
  ASSUME Base, ClientStays, UNCHANGED server, UNCHANGED service
  PROVE  OwesOK' /\ Quiet
BY DEF ClientStays, server, service, Quiet, ClientGiven, ServerGiven, Base, OwesOK

\* A callback in which r is what the service does.
ClientCalled(r) ==
  /\ Called("client", r) /\ UNCHANGED <<s_taken, s_rd, s_stage>>
  /\ ServerGiven' = ServerGiven /\ ClientGiven' = ClientGiven \o r.fill
  /\ owes'["client"] = r.fill /\ owes'["server"] = owes["server"]
  /\ count'["client"] = r.count /\ count'["server"] = count["server"]

\* What the end gives grows by the fill of the callback.
LEMMA ClientCalledStep ==
  ASSUME Base, NEW r, Called("client", r), owes["client"] = <<>>, UNCHANGED server,
         c_filled' = c_filled
  PROVE  OwesOK' /\ ClientCalled(r) /\ ClientGiven = c_filled
<1>1. /\ owes \in [Sides -> {<<>>} \cup {<<m>> : m \in Message}]
      /\ count \in [Sides -> 0..MaxMessages]
      /\ c_filled \in Seq(Message)
  BY BaseTypes DEF Base, OwesOK, ServiceOK
<1>2. /\ owes' \in [Sides -> {<<>>} \cup {<<m>> : m \in Message}]
      /\ owes'["client"] = r.fill /\ owes'["server"] = owes["server"]
      /\ count'["client"] = r.count /\ count'["server"] = count["server"]
  BY <1>1 DEF Called, Fitting, Sides
<1>3. ClientGiven = c_filled /\ ClientGiven' = c_filled \o r.fill
  BY <1>1, <1>2, Grown DEF ClientGiven
<1>4. UNCHANGED <<s_filled, s_taken, s_rd, s_stage>>
  BY DEF server
<1> QED
  BY <1>2, <1>3, <1>4 DEF ClientCalled, ServerGiven, OwesOK

\* The running callback makes the fill it owes: nothing is given but what was.
LEMMA ServerPays ==
  ASSUME Base, ServerFills
  PROVE  OwesOK' /\ Quiet
<1>1. /\ owes["server"] # <<>> /\ Paid("server") /\ UNCHANGED client
      /\ Server!Fill(owes["server"][1])
  BY DEF ServerFills
<1>2. /\ owes["server"][1] \in Message /\ owes["server"] = <<owes["server"][1]>>
      /\ s_filled \in Seq(Message)
      /\ owes \in [Sides -> {<<>>} \cup {<<m>> : m \in Message}]
  BY <1>1, Messages, BaseTypes DEF Base, OwesOK
<1>3. /\ s_filled' = Append(s_filled, owes["server"][1])
      /\ UNCHANGED <<s_taken, s_rd, s_stage>>
  BY <1>1, ServerFillStep
<1>4. /\ owes'["server"] = <<>> /\ owes'["client"] = owes["client"]
      /\ owes' \in [Sides -> {<<>>} \cup {<<m>> : m \in Message}]
      /\ UNCHANGED <<program, m_text, m_max_message_count, count, asserted>>
  BY <1>1, <1>2 DEF Paid, Sides
<1>5. s_filled \o owes["server"] = s_filled' \o <<>>
  <2>1. PICK m \in Message : owes["server"] = <<m>> /\ s_filled' = Append(s_filled, m)
    BY <1>2, <1>3
  <2>2. s_filled \o <<m>> = Append(s_filled, m) /\ Append(s_filled, m) \in Seq(Message)
    BY <1>2, Grown
  <2>3. Append(s_filled, m) \o <<>> = Append(s_filled, m)
    BY <2>2, Grown
  <2> QED
    BY <2>1, <2>2, <2>3
<1>6. UNCHANGED <<c_filled, c_taken, c_rd, c_stage>>
  BY <1>1 DEF client
<1> QED
  BY <1>3, <1>4, <1>5, <1>6 DEF Quiet, ServerGiven, ClientGiven, OwesOK

\* Nothing the services see.
LEMMA ServerQuiet ==
  ASSUME Base, ServerStays, UNCHANGED client, UNCHANGED service
  PROVE  OwesOK' /\ Quiet
BY DEF ServerStays, client, service, Quiet, ServerGiven, ClientGiven, Base, OwesOK

\* A callback in which r is what the service does.
ServerCalled(r) ==
  /\ Called("server", r) /\ UNCHANGED <<c_taken, c_rd, c_stage>>
  /\ ClientGiven' = ClientGiven /\ ServerGiven' = ServerGiven \o r.fill
  /\ owes'["server"] = r.fill /\ owes'["client"] = owes["client"]
  /\ count'["server"] = r.count /\ count'["client"] = count["client"]

\* What the end gives grows by the fill of the callback.
LEMMA ServerCalledStep ==
  ASSUME Base, NEW r, Called("server", r), owes["server"] = <<>>, UNCHANGED client,
         s_filled' = s_filled
  PROVE  OwesOK' /\ ServerCalled(r) /\ ServerGiven = s_filled
<1>1. /\ owes \in [Sides -> {<<>>} \cup {<<m>> : m \in Message}]
      /\ count \in [Sides -> 0..MaxMessages]
      /\ s_filled \in Seq(Message)
  BY BaseTypes DEF Base, OwesOK, ServiceOK
<1>2. /\ owes' \in [Sides -> {<<>>} \cup {<<m>> : m \in Message}]
      /\ owes'["server"] = r.fill /\ owes'["client"] = owes["client"]
      /\ count'["server"] = r.count /\ count'["client"] = count["client"]
  BY <1>1 DEF Called, Fitting, Sides
<1>3. ServerGiven = s_filled /\ ServerGiven' = s_filled \o r.fill
  BY <1>1, <1>2, Grown DEF ServerGiven
<1>4. UNCHANGED <<c_filled, c_taken, c_rd, c_stage>>
  BY DEF client
<1> QED
  BY <1>2, <1>3, <1>4 DEF ServerCalled, ClientGiven, OwesOK
\* What a callback takes is one more, and the connection was shown.
LEMMA ClientTook ==
  ASSUME Base, c_rd = "ok", NEW a \in {"keep", "abandon"}, Client!OnRecv(1, a)
  PROVE  /\ c_stage = "up" /\ c_stage' = "up" /\ c_filled' = c_filled
         /\ Len(c_taken') = Len(c_taken) + 1
         /\ \A i \in 1..Len(c_taken) : c_taken'[i] = c_taken[i]
         /\ c_taken'[Len(c_taken) + 1] = s_filled[Len(c_taken) + 1]
         /\ a = "abandon" => c_rd' = "idle"
<1> DEFINE m == s_filled[Len(c_taken) + 1]
<1>1. /\ c_taken' = Append(c_taken, m) /\ UNCHANGED <<c_filled, c_stage>>
      /\ a = "abandon" => c_rd' = "idle"
  BY ClientTakeStep
<1>2. c_stage = "up"
  BY DEF Base, ClientInv, ClientP!IInv, ClientP!Control, ClientP!NotBefore
<1>3. c_taken \in Seq(ClientP!BufferNode) /\ m \in ClientP!BufferNode
  BY BaseTypes, ClientFront DEF Message, ClientP!BufferNode
<1> HIDE DEF m
<1>4. /\ Len(Append(c_taken, m)) = Len(c_taken) + 1
      /\ \A i \in 1..Len(c_taken) : Append(c_taken, m)[i] = c_taken[i]
      /\ Append(c_taken, m)[Len(c_taken) + 1] = m
  BY <1>3, AppendProperties
<1> QED
  BY <1>1, <1>2, <1>4 DEF m

\* What a callback takes is one more, and the connection was shown.
LEMMA ServerTook ==
  ASSUME Base, s_rd = "ok", NEW a \in {"keep", "abandon"}, Server!OnRecv(1, a)
  PROVE  /\ s_stage = "up" /\ s_stage' = "up" /\ s_filled' = s_filled
         /\ Len(s_taken') = Len(s_taken) + 1
         /\ \A i \in 1..Len(s_taken) : s_taken'[i] = s_taken[i]
         /\ s_taken'[Len(s_taken) + 1] = c_filled[Len(s_taken) + 1]
         /\ a = "abandon" => s_rd' = "idle"
<1> DEFINE m == c_filled[Len(s_taken) + 1]
<1>1. /\ s_taken' = Append(s_taken, m) /\ UNCHANGED <<s_filled, s_stage>>
      /\ a = "abandon" => s_rd' = "idle"
  BY ServerTakeStep
<1>2. s_stage = "up"
  BY DEF Base, ServerInv, ServerP!IInv, ServerP!Control, ServerP!NotBefore
<1>3. s_taken \in Seq(ServerP!BufferNode) /\ m \in ServerP!BufferNode
  BY BaseTypes, ServerFront DEF Message, ServerP!BufferNode
<1> HIDE DEF m
<1>4. /\ Len(Append(s_taken, m)) = Len(s_taken) + 1
      /\ \A i \in 1..Len(s_taken) : Append(s_taken, m)[i] = s_taken[i]
      /\ Append(s_taken, m)[Len(s_taken) + 1] = m
  BY <1>3, AppendProperties
<1> QED
  BY <1>1, <1>2, <1>4 DEF m

\* A turn of the client.
LEMMA ClientTurn ==
  ASSUME IInv, program = "test", c_stage' = "up", NEW r, ClientCalled(r),
         Continues(r, Len(c_taken) + 1 + Len(ClientGiven)),
         Len(ClientGiven) = Len(c_taken) + 1,
         Len(c_taken) + 1 + Len(ClientGiven) <= m_max_message_count,
         Len(c_taken') = Len(c_taken) + 1,
         r.answer = "abandon" => c_rd' = "idle"
  PROVE  (Before /\ Turns /\ Echoes /\ ~asserted)'
<1> DEFINE t == Len(c_taken)
           g == Len(ClientGiven)
<1>1. Base
  BY DEF IInv
<1>2. /\ t \in Nat /\ g \in Nat /\ m_max_message_count \in Nat
      /\ ClientGiven \in Seq(Message)
  BY <1>1, Lengths, BaseTypes
<1>3. /\ count["client"] = t + g /\ count["server"] <= m_max_message_count
      /\ Len(ServerGiven) \in Nat /\ Len(s_taken) \in Nat
      /\ Len(s_taken) - Len(ServerGiven) \in 0..1
      /\ s_rd # "idle" => Len(ServerGiven) = Len(s_taken)
      /\ count["server"] = Len(s_taken) + Len(ServerGiven)
  BY <1>1, Lengths DEF IInv, Turns, Counts
<1>4. /\ count'["client"] = r.count /\ count'["server"] = count["server"]
      /\ UNCHANGED <<s_taken, s_rd, m_max_message_count, m_text, program>>
      /\ ServerGiven' = ServerGiven
  BY DEF ClientCalled, Called
<1>5. Before' /\ Echoes' /\ ~asserted'
  BY DEF IInv, Before, Echoes, ClientCalled, Called
<1>6. CASE /\ t + 1 + g >= m_max_message_count /\ r.answer = "abandon"
           /\ r.count = t + 1 + g /\ r.fill = <<>>
  <2>1. ClientGiven' = ClientGiven /\ c_rd' = "idle"
    BY <1>2, <1>6, Grown DEF ClientCalled
  <2>2. Counts'
    BY <1>2, <1>6, <1>3, <1>4, <2>1 DEF Counts
  <2>3. Order'
    BY <1>4, <2>1 DEF IInv, Turns, Order
  <2> QED
    BY <1>5, <2>2, <2>3 DEF Turns
<1>7. CASE /\ t + 1 + g < m_max_message_count /\ r.answer = "keep"
           /\ r.count = t + 1 + g + 1
           /\ r.fill = <<[m_text |-> m_text, m_buffer |-> t + 1 + g + 1]>>
  <2> DEFINE m == [m_text |-> m_text, m_buffer |-> t + 1 + g + 1]
  <2>1. m \in Message
    <3>1. m_max_message_count <= MaxMessages /\ MaxMessages \in Nat
      BY <1>1, Lengths
    <3>2. t + 1 + g + 1 \in 1..MaxMessages
      BY <1>2, <1>7, <3>1
    <3>3. t + 1 + g + 1 \in Payload
      BY <3>2, WordsAssumption
    <3> QED
      BY <1>1, <3>3 DEF Message, Base, ServiceOK
  <2>2. /\ Len(ClientGiven') = g + 1 /\ \A i \in 1..g : ClientGiven'[i] = ClientGiven[i]
        /\ ClientGiven'[g + 1] = m /\ \A i \in 1..(g + 1) : i \in 1..g \/ i = g + 1
    <3>1. ClientGiven' = ClientGiven \o <<m>>
      BY <1>7 DEF ClientCalled
    <3> HIDE DEF m
    <3> QED
      BY <1>2, <2>1, <3>1, GrownBy
  <2>3. m = [m_text |-> m_text, m_buffer |-> 2 * (g + 1) - 1]
    BY <1>2
  <2>4. \A i \in 1..Len(ClientGiven') :
          ClientGiven'[i] = [m_text |-> m_text, m_buffer |-> 2 * i - 1]
    BY <2>2, <2>3 DEF IInv, Turns, Order, Counts
  <2>5. Order'
    BY <1>4, <2>4 DEF IInv, Turns, Order
  <2>6. Counts'
    <3>1. Len(ClientGiven') = g + 1
      BY <2>2
    <3> HIDE DEF m
    <3> QED
      BY <1>2, <1>7, <1>3, <1>4, <3>1 DEF Counts
  <2> QED
    BY <1>5, <2>5, <2>6 DEF Turns
<1> QED
  BY <1>6, <1>7 DEF Continues

\* A turn of the server.
LEMMA ServerTurn ==
  ASSUME IInv, program = "test", s_stage' = "up", NEW r, ServerCalled(r),
         Continues(r, Len(s_taken) + 1 + Len(ServerGiven)),
         Len(ServerGiven) = Len(s_taken),
         Len(s_taken) + 1 + Len(ServerGiven) <= m_max_message_count,
         Len(s_taken') = Len(s_taken) + 1,
         r.answer = "abandon" => s_rd' = "idle"
  PROVE  (Before /\ Turns /\ Echoes /\ ~asserted)'
<1> DEFINE t == Len(s_taken)
           g == Len(ServerGiven)
<1>1. Base
  BY DEF IInv
<1>2. /\ t \in Nat /\ g \in Nat /\ m_max_message_count \in Nat
      /\ ServerGiven \in Seq(Message)
  BY <1>1, Lengths, BaseTypes
<1>3. /\ count["server"] = t + g /\ count["client"] <= m_max_message_count
      /\ Len(ClientGiven) \in Nat /\ Len(c_taken) \in Nat
      /\ Len(ClientGiven) - Len(c_taken) \in 0..1
      /\ c_rd # "idle" /\ m_max_message_count > 0 => Len(ClientGiven) = Len(c_taken) + 1
      /\ count["client"] = Len(c_taken) + Len(ClientGiven)
  BY <1>1, Lengths DEF IInv, Turns, Counts
<1>4. /\ count'["server"] = r.count /\ count'["client"] = count["client"]
      /\ UNCHANGED <<c_taken, c_rd, m_max_message_count, m_text, program>>
      /\ ClientGiven' = ClientGiven
  BY DEF ServerCalled, Called
<1>5. Before' /\ Echoes' /\ ~asserted'
  BY DEF IInv, Before, Echoes, ServerCalled, Called
<1>6. CASE /\ t + 1 + g >= m_max_message_count /\ r.answer = "abandon"
           /\ r.count = t + 1 + g /\ r.fill = <<>>
  <2>1. ServerGiven' = ServerGiven /\ s_rd' = "idle"
    BY <1>2, <1>6, Grown DEF ServerCalled
  <2>2. Counts'
    <3>1. /\ count'["server"] = t + 1 + g /\ t + 1 + g <= m_max_message_count
          /\ (t + 1) - g \in 0..1
      BY <1>2, <1>4, <1>6
    <3>2. Len(s_taken') = t + 1 /\ Len(ServerGiven') = g /\ s_rd' = "idle"
      BY <2>1
    <3> QED
      BY <1>3, <1>4, <3>1, <3>2 DEF Counts
  <2>3. Order'
    BY <1>4, <2>1 DEF IInv, Turns, Order
  <2> QED
    BY <1>5, <2>2, <2>3 DEF Turns
<1>7. CASE /\ t + 1 + g < m_max_message_count /\ r.answer = "keep"
           /\ r.count = t + 1 + g + 1
           /\ r.fill = <<[m_text |-> m_text, m_buffer |-> t + 1 + g + 1]>>
  <2> DEFINE m == [m_text |-> m_text, m_buffer |-> t + 1 + g + 1]
  <2>1. m \in Message
    <3>1. m_max_message_count <= MaxMessages /\ MaxMessages \in Nat
      BY <1>1, Lengths
    <3>2. t + 1 + g + 1 \in 1..MaxMessages
      BY <1>2, <1>7, <3>1
    <3>3. t + 1 + g + 1 \in Payload
      BY <3>2, WordsAssumption
    <3> QED
      BY <1>1, <3>3 DEF Message, Base, ServiceOK
  <2>2. /\ Len(ServerGiven') = g + 1 /\ \A i \in 1..g : ServerGiven'[i] = ServerGiven[i]
        /\ ServerGiven'[g + 1] = m /\ \A i \in 1..(g + 1) : i \in 1..g \/ i = g + 1
    <3>1. ServerGiven' = ServerGiven \o <<m>>
      BY <1>7 DEF ServerCalled
    <3> HIDE DEF m
    <3> QED
      BY <1>2, <2>1, <3>1, GrownBy
  <2>3. m = [m_text |-> m_text, m_buffer |-> 2 * (g + 1)]
    BY <1>2
  <2>4. \A i \in 1..Len(ServerGiven') :
          ServerGiven'[i] = [m_text |-> m_text, m_buffer |-> 2 * i]
    BY <2>2, <2>3 DEF IInv, Turns, Order, Counts
  <2>5. Order'
    BY <1>4, <2>4 DEF IInv, Turns, Order
  <2>6. Counts'
    <3>1. Len(ServerGiven') = g + 1
      BY <2>2
    <3> HIDE DEF m
    <3> QED
      BY <1>2, <1>7, <1>3, <1>4, <3>1 DEF Counts
  <2> QED
    BY <1>5, <2>5, <2>6 DEF Turns
<1> QED
  BY <1>6, <1>7 DEF Continues
\* The first turn is the client's, when the connection is shown to it.
LEMMA ClientOpens ==
  ASSUME IInv, c_stage # "up", c_stage' = "up", ClientCalled(OnConnect),
         c_taken' = c_taken,
         program = "echo" => OnConnect.fill = <<>>,
         program = "test" =>
           \/ m_max_message_count = 0 /\ OnConnect.count = 0 /\ OnConnect.fill = <<>>
           \/ /\ m_max_message_count > 0 /\ OnConnect.count = 1
              /\ OnConnect.fill = <<[m_text |-> m_text, m_buffer |-> 1]>>
  PROVE  (Before /\ Turns /\ Echoes /\ ~asserted)'
<1> DEFINE fill == OnConnect.fill
           m == [m_text |-> m_text, m_buffer |-> 1]
<1>1. Base /\ ClientGiven = <<>> /\ c_taken = <<>>
  BY DEF IInv, Before
<1>2. /\ ClientGiven' = ClientGiven \o fill /\ owes'["client"] = fill
      /\ count'["client"] = OnConnect.count /\ count'["server"] = count["server"]
      /\ UNCHANGED <<s_taken, s_rd, s_stage, program, m_text, m_max_message_count>>
      /\ ServerGiven' = ServerGiven /\ asserted' = asserted
  BY DEF ClientCalled, Called
<1>3. Before' /\ ~asserted'
  BY <1>2 DEF IInv, Before
<1>4. Len(c_taken') = 0 /\ Len(<<>>) = 0
  BY <1>1
<1>5. program = "test" =>
        /\ count["server"] = Len(s_taken) + Len(ServerGiven)
        /\ count["server"] <= m_max_message_count
        /\ Len(s_taken) - Len(ServerGiven) \in 0..1
        /\ s_rd # "idle" => Len(ServerGiven) = Len(s_taken)
  BY DEF IInv, Turns, Counts
<1>6. m_max_message_count \in Nat
  BY <1>1, Lengths
<1>7. CASE fill = <<>>
  <2>1. ClientGiven' = <<>>
    BY <1>1, <1>2, <1>7, BaseTypes, Grown
  <2>2. Order'
    BY <1>2, <2>1 DEF IInv, Turns, Order
  <2>3. Counts'
    BY <1>2, <1>4, <1>5, <1>6, <1>7, <2>1 DEF Counts
  <2>4. Echoes'
    BY <1>2, <1>7 DEF IInv, Echoes
  <2> QED
    BY <1>3, <2>2, <2>3, <2>4 DEF Turns
<1>8. CASE /\ program = "test" /\ m_max_message_count > 0
           /\ OnConnect.count = 1 /\ fill = <<m>>
  <2>1. m \in Message
    <3>1. 1 \in Payload
      BY <1>1, <1>8, Lengths, WordsAssumption
    <3> QED
      BY <1>1, <3>1 DEF Base, ServiceOK, Message
  <2>2. ClientGiven' = <<m>>
    <3> HIDE DEF m
    <3> QED
      BY <1>1, <1>2, <1>8, <2>1
  <2>3. Len(ClientGiven') = 1 /\ ClientGiven'[1] = m
    BY <2>2
  <2>4. \A i \in 1..Len(ClientGiven') :
          ClientGiven'[i] = [m_text |-> m_text, m_buffer |-> 2 * i - 1]
    BY <2>3
  <2>5. Order'
    BY <1>2, <2>4 DEF IInv, Turns, Order
  <2>6. Counts'
    <3> HIDE DEF m
    <3> QED
      BY <1>2, <1>4, <1>5, <1>6, <1>8, <2>3 DEF Counts
  <2>7. Echoes'
    BY <1>2, <1>8 DEF Echoes
  <2> QED
    BY <1>3, <2>5, <2>6, <2>7 DEF Turns
<1> QED
  BY <1>1, <1>7, <1>8 DEF Base, ServiceOK

\* The connection is shown to the server, whose turn it is not.
LEMMA ServerOpens ==
  ASSUME IInv, s_stage # "up", s_stage' = "up", ServerCalled(OnAccept),
         s_taken' = s_taken,
         program = "echo" => OnAccept.fill = <<Hello>>,
         program = "test" => OnAccept.count = 0 /\ OnAccept.fill = <<>>
  PROVE  (Before /\ Turns /\ Echoes /\ ~asserted)'
<1> DEFINE fill == OnAccept.fill
<1>1. Base /\ ServerGiven = <<>> /\ s_taken = <<>>
  BY DEF IInv, Before
<1>2. /\ ServerGiven' = ServerGiven \o fill
      /\ owes'["client"] = owes["client"]
      /\ count'["server"] = OnAccept.count /\ count'["client"] = count["client"]
      /\ UNCHANGED <<c_taken, c_rd, c_stage, program, m_text, m_max_message_count>>
      /\ ClientGiven' = ClientGiven /\ asserted' = asserted
  BY DEF ServerCalled, Called
<1>3. Before' /\ ~asserted'
  BY <1>2 DEF IInv, Before
<1>4. Len(s_taken') = 0 /\ Len(<<>>) = 0
  BY <1>1
<1>5. program = "test" =>
        /\ count["client"] = Len(c_taken) + Len(ClientGiven)
        /\ count["client"] <= m_max_message_count
        /\ Len(ClientGiven) - Len(c_taken) \in 0..1
        /\ c_rd # "idle" /\ m_max_message_count > 0 =>
             Len(ClientGiven) = Len(c_taken) + 1
  BY DEF IInv, Turns, Counts
<1>6. m_max_message_count \in Nat
  BY <1>1, Lengths
<1>7. CASE program = "test"
  <2>1. ServerGiven' = <<>> /\ count'["server"] = 0
    BY <1>1, <1>2, <1>7, BaseTypes, Grown
  <2>2. Order'
    BY <1>2, <2>1 DEF IInv, Turns, Order
  <2>3. Counts'
    <3>1. /\ Len(ServerGiven') = 0 /\ Len(s_taken') = 0 /\ count'["server"] = 0
          /\ Len(ClientGiven') = Len(ClientGiven) /\ Len(c_taken') = Len(c_taken)
          /\ count'["client"] = count["client"]
          /\ c_rd' = c_rd /\ m_max_message_count' = m_max_message_count
      BY <1>2, <1>4, <2>1
    <3> QED
      BY <1>5, <1>6, <1>7, <3>1 DEF Counts
  <2> QED
    BY <1>2, <1>3, <1>7, <2>2, <2>3 DEF Turns, Echoes
<1>8. CASE program = "echo"
  <2>1. Hello \in Message
    BY WordsAssumption DEF Hello, Message
  <2>2. ServerGiven' = <<Hello>>
    BY <1>1, <1>2, <1>8, <2>1
  <2>3. Len(ServerGiven') = 1 /\ ServerGiven'[1] = Hello
    BY <2>2
  <2>4. Echoes'
    BY <1>2, <1>4, <1>8, <2>3 DEF IInv, Echoes, Hello
  <2> QED
    BY <1>2, <1>3, <1>8, <2>4 DEF Turns, Order, Counts
<1> QED
  BY <1>1, <1>7, <1>8 DEF Base, ServiceOK

\* An echo.
LEMMA ServerEchoes ==
  ASSUME IInv, program = "echo", s_stage = "up", s_stage' = "up", NEW r,
         ServerCalled(r),
         c_filled[Len(s_taken) + 1] \in Message,
         r.fill = <<c_filled[Len(s_taken) + 1]>>,
         Len(s_taken') = Len(s_taken) + 1,
         \A i \in 1..Len(s_taken) : s_taken'[i] = s_taken[i],
         s_taken'[Len(s_taken) + 1] = c_filled[Len(s_taken) + 1]
  PROVE  (Before /\ Turns /\ Echoes /\ ~asserted)'
<1> DEFINE t == Len(s_taken)
           m == c_filled[t + 1]
<1>1. Base /\ t \in Nat /\ ServerGiven \in Seq(Message)
  BY Lengths, BaseTypes DEF IInv
<1>2. /\ ServerGiven' = ServerGiven \o <<m>>
      /\ owes'["client"] = owes["client"]
      /\ UNCHANGED <<c_taken, c_rd, c_stage, program, m_text, m_max_message_count>>
      /\ ClientGiven' = ClientGiven /\ asserted' = asserted
  BY DEF ServerCalled, Called
<1>3. Before' /\ ~asserted' /\ Turns'
  BY <1>2 DEF IInv, Before, Turns, Order, Counts
<1>4. /\ Len(ServerGiven) = t + 1 /\ ServerGiven[1] = Hello
      /\ \A i \in 1..t : ServerGiven[i + 1] = s_taken[i]
      /\ owes["client"] = <<>>
  BY DEF IInv, Echoes
<1> HIDE DEF m
<1>5. /\ Len(ServerGiven') = t + 2
      /\ \A i \in 1..(t + 1) : ServerGiven'[i] = ServerGiven[i]
      /\ ServerGiven'[t + 2] = m
  <2>1. m \in Message
    BY DEF m
  <2>2. /\ Len(ServerGiven \o <<m>>) = Len(ServerGiven) + 1
        /\ \A i \in 1..Len(ServerGiven) : (ServerGiven \o <<m>>)[i] = ServerGiven[i]
        /\ (ServerGiven \o <<m>>)[Len(ServerGiven) + 1] = m
    BY <1>1, <2>1, Grown
  <2> QED
    BY <1>1, <1>2, <1>4, <2>2
<1>6. ServerGiven'[1] = Hello
  BY <1>1, <1>4, <1>5
<1>7. ASSUME NEW i \in 1..Len(s_taken') PROVE ServerGiven'[i + 1] = s_taken'[i]
  <2>1. CASE i \in 1..t
    <3>1. i + 1 \in 1..(t + 1)
      BY <1>1, <2>1
    <3> QED
      BY <1>4, <1>5, <2>1, <3>1
  <2>2. CASE i = t + 1
    <3>1. s_taken'[t + 1] = m /\ i + 1 = t + 2
      BY <1>1, <2>2 DEF m
    <3> QED
      BY <1>5, <2>2, <3>1
  <2> QED
    BY <1>1, <2>1, <2>2
<1>8. Echoes'
  BY <1>1, <1>2, <1>4, <1>5, <1>6, <1>7 DEF Echoes, Hello
<1> QED
  BY <1>3, <1>8

\* The echo client takes, or fills on its own.
LEMMA ClientEchoed ==
  ASSUME IInv, program = "echo", c_stage' = "up", NEW r, ClientCalled(r), r.fill = <<>>
  PROVE  (Before /\ Turns /\ Echoes /\ ~asserted)'
BY DEF IInv, Before, Turns, Order, Counts, Echoes, ClientCalled, Called

\* Its own fill is not an answer to anything.
LEMMA EchoClientSends ==
  ASSUME IInv, EchoClientFills
  PROVE  (OwesOK /\ Before /\ Turns /\ Echoes /\ ~asserted)'
<1>1. PICK m : Client!Fill(m)
  BY DEF EchoClientFills
<1>2. program = "echo" /\ UNCHANGED server /\ UNCHANGED service
  BY DEF EchoClientFills
<1>3. c_stage = "up" /\ UNCHANGED <<c_taken, c_rd, c_stage>>
  BY <1>1, ClientFillStep DEF IInv
<1>4. /\ UNCHANGED <<s_filled, s_taken, s_stage, s_rd>> /\ UNCHANGED ServerGiven
      /\ UNCHANGED <<program, owes, asserted>>
  BY <1>2 DEF server, service, ServerGiven
<1> QED
  BY <1>2, <1>3, <1>4
     DEF IInv, Base, OwesOK, Before, Turns, Order, Counts, Echoes
\* A callback that is shown a message leaves the rest of the invariant.
LEMMA ClientTakesKeeps ==
  ASSUME IInv, ClientTakes, owes["client"] = <<>>
  PROVE  /\ ClientUnlinked /\ UNCHANGED server
         /\ (OwesOK /\ Before /\ Turns /\ Echoes /\ ~asserted)'
<1>1. PICK r \in OnRecv("client", Client!TypedBack(c_recv_queue)) :
        Client!OnRecv(r.drop, r.answer) /\ Callback("client", r)
  BY DEF ClientTakes
<1>2. Base /\ ServiceOK /\ c_rd = "ok" /\ UNCHANGED server /\ "client" \in Sides
  BY DEF IInv, Base, ClientTakes, Sides
<1>3. r.answer \in {"keep", "abandon"}
  BY <1>2, RecvReturns DEF Returned
<1>4. Called("client", r) /\ r.drop = 1
  BY <1>1, <1>2, TestClientTakes, EchoClientTakes, TestServerTakes, EchoServerTakes
     DEF ServiceOK
<1>5. Client!OnRecv(1, r.answer)
  BY <1>1, <1>4
<1>6. ClientUnlinked
  BY <1>3, <1>5 DEF ClientUnlinked
<1>7. /\ c_stage = "up" /\ c_stage' = "up" /\ c_filled' = c_filled
      /\ Len(c_taken') = Len(c_taken) + 1
      /\ \A i \in 1..Len(c_taken) : c_taken'[i] = c_taken[i]
      /\ c_taken'[Len(c_taken) + 1] = s_filled[Len(c_taken) + 1]
      /\ r.answer = "abandon" => c_rd' = "idle"
  BY <1>2, <1>3, <1>5, ClientTook
<1>8. OwesOK' /\ ClientCalled(r)
  BY <1>2, <1>4, <1>7, ClientCalledStep
<1>9. s_filled[Len(c_taken) + 1] \in Message
  BY <1>2, ClientFront
<1>10. (Before /\ Turns /\ Echoes /\ ~asserted)'
  <2>1. CASE program = "test"
    BY <1>1, <1>2, <1>7, <1>8, <2>1, TestClientTakes, ClientTurn
  <2>2. CASE program = "echo"
    BY <1>1, <1>2, <1>7, <1>8, <1>9, <2>2, EchoClientTakes, ClientEchoed
  <2> QED
    BY <1>2, <2>1, <2>2 DEF ServiceOK
<1> QED
  BY <1>2, <1>6, <1>8, <1>10

\* A callback that is shown a message leaves the rest of the invariant.
LEMMA ServerTakesKeeps ==
  ASSUME IInv, ServerTakes, owes["server"] = <<>>
  PROVE  /\ ServerUnlinked /\ UNCHANGED client
         /\ (OwesOK /\ Before /\ Turns /\ Echoes /\ ~asserted)'
<1>1. PICK r \in OnRecv("server", Server!TypedBack(s_recv_queue)) :
        Server!OnRecv(r.drop, r.answer) /\ Callback("server", r)
  BY DEF ServerTakes
<1>2. Base /\ ServiceOK /\ s_rd = "ok" /\ UNCHANGED client /\ "server" \in Sides
  BY DEF IInv, Base, ServerTakes, Sides
<1>3. r.answer \in {"keep", "abandon"}
  BY <1>2, RecvReturns DEF Returned
<1>4. Called("server", r) /\ r.drop = 1
  BY <1>1, <1>2, TestServerTakes, EchoServerTakes, TestClientTakes, EchoClientTakes
     DEF ServiceOK
<1>5. Server!OnRecv(1, r.answer)
  BY <1>1, <1>4
<1>6. ServerUnlinked
  BY <1>3, <1>5 DEF ServerUnlinked
<1>7. /\ s_stage = "up" /\ s_stage' = "up" /\ s_filled' = s_filled
      /\ Len(s_taken') = Len(s_taken) + 1
      /\ \A i \in 1..Len(s_taken) : s_taken'[i] = s_taken[i]
      /\ s_taken'[Len(s_taken) + 1] = c_filled[Len(s_taken) + 1]
      /\ r.answer = "abandon" => s_rd' = "idle"
  BY <1>2, <1>3, <1>5, ServerTook
<1>8. OwesOK' /\ ServerCalled(r)
  BY <1>2, <1>4, <1>7, ServerCalledStep
<1>9. c_filled[Len(s_taken) + 1] \in Message
  BY <1>2, ServerFront
<1>10. (Before /\ Turns /\ Echoes /\ ~asserted)'
  <2>1. CASE program = "test"
    BY <1>1, <1>2, <1>7, <1>8, <2>1, TestServerTakes, ServerTurn
  <2>2. CASE program = "echo"
    BY <1>1, <1>2, <1>7, <1>8, <1>9, <2>2, EchoServerTakes, ServerEchoes
  <2> QED
    BY <1>2, <2>1, <2>2 DEF ServiceOK
<1> QED
  BY <1>2, <1>6, <1>8, <1>10

\* The steps of the strands.
LEMMA ClientStrandKeeps ==
  ASSUME IInv, ClientStrand
  PROVE  /\ ClientUnlinked /\ UNCHANGED server
         /\ (OwesOK /\ Before /\ Turns /\ Echoes /\ ~asserted)'
<1>1. Base /\ ServiceOK /\ owes["client"] = <<>>
  BY DEF IInv, Base, ClientStrand
<1>2. CASE ClientTakes
  BY <1>1, <1>2, ClientTakesKeeps
<1>3. CASE ClientHandles /\ UNCHANGED service
  <2>1. ClientStays /\ UNCHANGED server
    BY <1>1, <1>3, ClientHandlesStep DEF ClientHandles
  <2>2. OwesOK' /\ Quiet
    BY <1>1, <1>3, <2>1, ClientQuiet
  <2> QED
    BY <1>3, <2>1, <2>2, QuietKeeps DEF IInv, ClientUnlinked
<1>4. CASE ClientConnects
  <2>1. /\ Client!RunIdentity(OnConnect.answer) /\ UNCHANGED server
        /\ Callback("client", OnConnect) /\ OnConnect.answer \in {"keep", "abandon"}
    BY <1>1, <1>4, ShownReturns DEF ClientConnects, Returned
  <2>2. c_stage # "up" /\ c_stage' = "up" /\ c_filled' = c_filled /\ c_taken' = c_taken
    BY <1>1, <2>1, ClientShownStep
  <2>3. /\ Called("client", OnConnect)
        /\ program = "echo" => OnConnect.fill = <<>>
        /\ program = "test" =>
             \/ m_max_message_count = 0 /\ OnConnect.count = 0 /\ OnConnect.fill = <<>>
             \/ /\ m_max_message_count > 0 /\ OnConnect.count = 1
                /\ OnConnect.fill = <<[m_text |-> m_text, m_buffer |-> 1]>>
    BY <1>1, <2>1, Connects
  <2>4. OwesOK' /\ ClientCalled(OnConnect)
    BY <1>1, <2>1, <2>2, <2>3, ClientCalledStep
  <2>5. (Before /\ Turns /\ Echoes /\ ~asserted)'
    BY <2>2, <2>3, <2>4, ClientOpens
  <2> QED
    BY <2>1, <2>4, <2>5 DEF ClientUnlinked
<1> QED
  BY <1>2, <1>3, <1>4 DEF ClientStrand

\* The same at the server.
LEMMA ServerStrandKeeps ==
  ASSUME IInv, ServerStrand
  PROVE  /\ ServerUnlinked /\ UNCHANGED client
         /\ (OwesOK /\ Before /\ Turns /\ Echoes /\ ~asserted)'
<1>1. Base /\ ServiceOK /\ owes["server"] = <<>>
  BY DEF IInv, Base, ServerStrand
<1>2. CASE ServerTakes
  BY <1>1, <1>2, ServerTakesKeeps
<1>3. CASE ServerHandles /\ UNCHANGED service
  <2>1. ServerStays /\ UNCHANGED client
    BY <1>1, <1>3, ServerHandlesStep DEF ServerHandles
  <2>2. OwesOK' /\ Quiet
    BY <1>1, <1>3, <2>1, ServerQuiet
  <2> QED
    BY <1>3, <2>1, <2>2, QuietKeeps DEF IInv, ServerUnlinked
<1>4. CASE ServerAccepts
  <2>1. /\ Server!OnAccept(OnAccept.answer) /\ UNCHANGED client
        /\ Callback("server", OnAccept) /\ OnAccept.answer \in {"keep", "abandon"}
    BY <1>1, <1>4, ShownReturns DEF ServerAccepts, Returned
  <2>2. s_stage # "up" /\ s_stage' = "up" /\ s_filled' = s_filled /\ s_taken' = s_taken
    BY <1>1, <2>1, ServerShownStep
  <2>3. /\ Called("server", OnAccept)
        /\ program = "echo" => OnAccept.fill = <<Hello>>
        /\ program = "test" => OnAccept.count = 0 /\ OnAccept.fill = <<>>
    BY <1>1, <2>1, Accepts
  <2>4. OwesOK' /\ ServerCalled(OnAccept)
    BY <1>1, <2>1, <2>2, <2>3, ServerCalledStep
  <2>5. (Before /\ Turns /\ Echoes /\ ~asserted)'
    BY <2>2, <2>3, <2>4, ServerOpens
  <2> QED
    BY <2>1, <2>4, <2>5 DEF ServerUnlinked
<1> QED
  BY <1>2, <1>3, <1>4 DEF ServerStrand

\* Every step keeps the invariant.
LEMMA NextIInv == IInv /\ [Next]_vars => IInv'
<1> SUFFICES ASSUME IInv, [Next]_vars PROVE IInv'
  OBVIOUS
<1>1. Base /\ ClientInv' /\ ServerInv' /\ ServiceOK'
  BY Moves, ClientKept, ServerKept, ServiceStep DEF IInv, Base
<1>2. ASSUME (Single /\ Linked)', (OwesOK /\ Before /\ Turns /\ Echoes /\ ~asserted)'
      PROVE  IInv'
  BY <1>1, <1>2 DEF IInv, Base
<1>3. ASSUME OwesOK', Quiet
      PROVE  (OwesOK /\ Before /\ Turns /\ Echoes /\ ~asserted)'
  BY <1>3, QuietKeeps DEF IInv
<1>4. CASE ClientStrand
  BY <1>1, <1>2, <1>4, ClientStrandKeeps, ClientUnlinkedStep
<1>5. CASE ServerStrand
  BY <1>1, <1>2, <1>5, ServerStrandKeeps, ServerUnlinkedStep
<1>6. CASE ClientFills
  BY <1>1, <1>2, <1>3, <1>6, ClientPays, ClientUnlinkedStep
     DEF ClientFills, ClientUnlinked
<1>7. CASE ServerFills
  BY <1>1, <1>2, <1>3, <1>7, ServerPays, ServerUnlinkedStep
     DEF ServerFills, ServerUnlinked
<1>8. CASE EchoClientFills
  BY <1>1, <1>2, <1>8, EchoClientSends, ClientUnlinkedStep
     DEF EchoClientFills, ClientUnlinked
<1>9. CASE ClientStream /\ UNCHANGED service
  BY <1>1, <1>2, <1>3, <1>9, ClientStreamStep, ClientQuiet, ClientLinkedStep
<1>10. CASE ServerStream /\ UNCHANGED service
  BY <1>1, <1>2, <1>3, <1>10, ServerStreamStep, ServerQuiet, ServerLinkedStep
<1>11. CASE UNCHANGED <<client, server, service>>
  <2>1. ClientStays /\ UNCHANGED server /\ UNCHANGED service
    BY <1>11 DEF ClientStays, client
  <2>2. Single' /\ Linked'
    BY <1>1, <1>11 DEF Base, Single, Linked, First, client, server
  <2> QED
    BY <1>1, <1>2, <1>3, <2>1, <2>2, ClientQuiet
<1> QED
  BY <1>4, <1>5, <1>6, <1>7, <1>8, <1>9, <1>10, <1>11 DEF Next, Break, vars

\* The invariant holds in the beginning.
LEMMA InitIInv == Init => IInv
<1> SUFFICES ASSUME Init PROVE IInv
  OBVIOUS
<1>1. Client!Init /\ Server!Init /\ c_stage = "connect" /\ s_stage = "accept"
  BY DEF Init, PairInit
<1>2. ClientP!Init /\ ServerP!Init
  BY <1>1, ClientSame, ServerSame
<1>3. ClientInv /\ ServerInv
  BY <1>2, SessionAssumptions, ClientP!InitIInv, ClientP!InitSendInv,
     ClientP!InitRecvInv, ServerP!InitIInv, ServerP!InitSendInv, ServerP!InitRecvInv
     DEF ClientInv, ServerInv
<1>4. /\ c_filled = <<>> /\ c_wire = <<>> /\ c_arrived = <<>> /\ c_taken = <<>>
      /\ s_filled = <<>> /\ s_wire = <<>> /\ s_arrived = <<>> /\ s_taken = <<>>
      /\ c_recv_queue_size = 0 /\ s_recv_queue_size = 0
      /\ c_rd = "idle" /\ s_rd = "idle"
  BY <1>1 DEF Client!Init, Server!Init
<1>5. /\ owes["client"] = <<>> /\ owes["server"] = <<>>
      /\ count["client"] = 0 /\ count["server"] = 0 /\ ~asserted
  BY DEF Init, Sides
<1>6. OwesOK /\ Single /\ Linked
  BY <1>4 DEF Init, OwesOK, Single, Linked, First
<1>7. ClientGiven = <<>> /\ ServerGiven = <<>>
  BY <1>4, <1>5, ConcatEmptySeq, EmptySeq DEF ClientGiven, ServerGiven
<1>8. Len(<<>>) = 0 /\ m_max_message_count \in Nat
  BY ServiceInit, MessagesAssumption DEF ServiceOK
<1>9. Before /\ Turns /\ Echoes
  BY <1>1, <1>4, <1>5, <1>7, <1>8 DEF Before, Turns, Order, Counts, Echoes
<1> QED
  BY <1>3, <1>5, <1>6, <1>9, ServiceInit DEF IInv, Base

\* In every behaviour.
THEOREM Inductive == Spec => []IInv
BY InitIInv, NextIInv, PTL DEF Spec

\* No assert of a service fails on either end of a connection, whatever the
\* limit, the number of messages and the order of the steps.
THEOREM AssertsNeverFail == Spec => []AssertsHold
<1>1. IInv => AssertsHold
  BY DEF IInv, AssertsHold
<1> QED
  BY <1>1, Inductive, PTL
\* The link is up until it breaks.
LinkOK == link \in {"up", "broken"}

\* No step makes it anything else.
LEMMA NextLinkOK == LinkOK /\ [Next]_vars => LinkOK'
BY DEF LinkOK, Next, vars, ClientStrand, ServerStrand, ClientConnects, ServerAccepts,
   ClientTakes, ServerTakes, ClientHandles, ServerHandles, ClientFills, ServerFills,
   Paid, EchoClientFills, ClientStream, ClientReads, ClientReadsClose, ClientWrites,
   ClientCloseEnds, ClientFails, ServerStream, ServerReads, ServerReadsClose,
   ServerWrites, ServerCloseEnds, ServerFails, Break

\* Both sessions, the link and the services keep their types, and what a
\* callback fills is a message.
THEOREM TypeCorrect == Spec => []TypeOK
<1>1. ASSUME IInv, LinkOK PROVE TypeOK
  <2>1. Base /\ ServiceOK /\ OwesOK
    BY <1>1 DEF IInv, Base
  <2>2. Client!TypeOK
    BY <2>1, ClientSame
    DEF Base, ClientInv, ClientP!IInv, ClientP!Flags, ClientP!Tokens,
       ClientP!Queues, Client!TypeOK, ClientP!BufferNode, Client!BufferNode,
       ClientP!ReadErrors, ClientP!WriteErrors, Client!ReadErrors, Client!WriteErrors,
       Client!Message, ClientP!Message
  <2>3. Server!TypeOK
    BY <2>1, ServerSame
    DEF Base, ServerInv, ServerP!IInv, ServerP!Flags, ServerP!Tokens,
       ServerP!Queues, Server!TypeOK, ServerP!BufferNode, Server!BufferNode,
       ServerP!ReadErrors, ServerP!WriteErrors, Server!ReadErrors, Server!WriteErrors,
       Server!Message, ServerP!Message
  <2> QED
    BY <1>1, <2>1, <2>2, <2>3 DEF LinkOK, ServiceOK, OwesOK, TypeOK
<1>2. Init => LinkOK
  BY DEF Init, PairInit, LinkOK
<1> QED
  BY <1>1, <1>2, NextLinkOK, Inductive, PTL DEF Spec

\* First parts of first parts.
LEMMA FirstOfFirst ==
  ASSUME NEW s, NEW t, NEW u, Len(s) \in Nat, Len(t) \in Nat, Len(u) \in Nat,
         First(s, t), First(t, u)
  PROVE  First(s, u)
BY DEF First

\* A client of the echo service gets its greeting and what it filled back, in
\* order, each message once and with its type, whatever it sends and when.
THEOREM EchoedInOrder == Spec => []Echoed
<1>1. ASSUME IInv PROVE Echoed
  <2> SUFFICES ASSUME program = "echo" PROVE IsPrefix(c_taken, <<Hello>> \o c_filled)
    BY DEF Echoed, Hello
  <2> DEFINE back == <<Hello>> \o c_filled
             n == Len(c_taken)
  <2>1. Base
    BY <1>1 DEF IInv
  <2>2. /\ Len(c_taken) \in Nat /\ Len(s_taken) \in Nat /\ Len(c_filled) \in Nat
        /\ Len(s_filled) \in Nat /\ Len(c_arrived) \in Nat /\ Len(s_arrived) \in Nat
        /\ Len(c_wire) \in Nat /\ Len(s_wire) \in Nat /\ Len(ServerGiven) \in Nat
    BY <2>1, BaseTypes, LenProperties
  <2>3. First(c_taken, ServerGiven)
    <3>1. /\ First(c_arrived, s_wire) /\ First(s_wire, s_filled)
          /\ First(s_filled, ServerGiven)
      BY <2>1, BaseTypes DEF Base, Linked
    <3>2. First(c_arrived, ServerGiven)
      BY <2>2, <3>1, FirstOfFirst
    <3> QED
      BY <2>1, <2>2, <3>2, BaseTypes, FirstOfFirst
  <2>4. First(s_taken, c_filled)
    <3>1. /\ First(s_taken, s_arrived) /\ First(s_arrived, c_wire)
          /\ First(c_wire, c_filled)
      BY <2>1, BaseTypes DEF Base, Linked
    <3>2. First(s_taken, c_wire)
      BY <2>2, <3>1, FirstOfFirst
    <3> QED
      BY <2>2, <3>1, <3>2, FirstOfFirst
  <2>5. /\ Len(back) = Len(c_filled) + 1 /\ back[1] = Hello
        /\ \A i \in 1..Len(c_filled) : back[i + 1] = c_filled[i]
        /\ back \in Seq(Message)
    <3>1. Hello \in Message
      BY WordsAssumption DEF Hello, Message
    <3> HIDE DEF back
    <3>2. c_filled \in Seq(Message) /\ <<Hello>> \in Seq(Message)
          /\ Len(<<Hello>>) = 1 /\ <<Hello>>[1] = Hello
      BY <2>1, <3>1, BaseTypes
    <3>3. /\ back \in Seq(Message) /\ Len(back) = 1 + Len(c_filled)
          /\ \A i \in 1..(1 + Len(c_filled)) :
               back[i] = IF i <= 1 THEN <<Hello>>[i] ELSE c_filled[i - 1]
      BY <3>2, ConcatProperties DEF back
    <3> QED
      BY <2>2, <3>2, <3>3
  <2>6. First(c_taken, back)
    <3>1. CASE s_stage # "up"
      <4>1. Len(ServerGiven) = 0
        BY <1>1, <3>1 DEF IInv, Before
      <4> QED
        BY <2>2, <2>3, <2>5, <4>1 DEF First
    <3>2. CASE s_stage = "up"
      <4>1. /\ Len(ServerGiven) = Len(s_taken) + 1 /\ ServerGiven[1] = Hello
            /\ \A i \in 1..Len(s_taken) : ServerGiven[i + 1] = s_taken[i]
        BY <1>1, <3>2 DEF IInv, Echoes
      <4>2. ASSUME NEW i \in 1..n PROVE c_taken[i] = back[i]
        <5>1. c_taken[i] = ServerGiven[i] /\ i \in 1..Len(ServerGiven)
          BY <2>2, <2>3 DEF First
        <5>2. CASE i = 1
          BY <2>5, <4>1, <5>1, <5>2
        <5>3. CASE i # 1
          <6>1. /\ i - 1 \in 1..Len(s_taken) /\ i - 1 \in 1..Len(c_filled)
                /\ (i - 1) + 1 = i
            BY <2>2, <2>4, <4>1, <5>1, <5>3 DEF First
          <6>2. ServerGiven[(i - 1) + 1] = s_taken[i - 1]
            BY <4>1, <6>1
          <6>3. s_taken[i - 1] = c_filled[i - 1]
            BY <2>4, <6>1 DEF First
          <6>4. back[(i - 1) + 1] = c_filled[i - 1]
            BY <2>5, <6>1
          <6> QED
            BY <5>1, <6>1, <6>2, <6>3, <6>4
        <5> QED
          BY <5>2, <5>3
      <4>3. n <= Len(back)
        BY <2>2, <2>3, <2>4, <2>5, <4>1 DEF First
      <4> QED
        BY <4>2, <4>3 DEF First
    <3> QED
      BY <3>1, <3>2
  <2> HIDE DEF back
  <2>7. /\ SubSeq(back, 1, n) \in Seq(Message) /\ Len(SubSeq(back, 1, n)) = n
        /\ \A i \in 1..n : SubSeq(back, 1, n)[i] = back[i]
    <3>1. \A i \in 1..n : back[i] \in Message
      BY <2>2, <2>5, <2>6 DEF First
    <3> QED
      BY <2>2, <3>1, SubSeqProperties
  <2>8. /\ SubSeq(c_taken, 1, n) \in Seq(Message) /\ Len(SubSeq(c_taken, 1, n)) = n
        /\ \A i \in 1..n : SubSeq(c_taken, 1, n)[i] = c_taken[i]
    <3>1. \A i \in 1..n : c_taken[i] \in Message
      BY <2>2, <2>5, <2>6 DEF First
    <3> QED
      BY <2>2, <3>1, SubSeqProperties
  <2>9. SubSeq(c_taken, 1, n) = SubSeq(back, 1, n)
    BY <2>6, <2>7, <2>8, SeqEqual DEF First
  <2> QED
    BY <2>6, <2>9 DEF IsPrefix, First, back
<1> QED
  BY <1>1, Inductive, PTL
===============================================================================
