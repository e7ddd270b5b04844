--------------------------- MODULE WebsocketSession ---------------------------
(***************************************************************************)
(* One websocket connection: WebsocketSessionBase<Derived>, as the server  *)
(* creates it from an upgrade request (accept(req)) or the connector from  *)
(* a finished handshake (run(identity)).                                   *)
(*                                                                         *)
(* Actors.  The handlers of the session run one at a time on the strand of *)
(* its stream, so a handler with the service callback inside it is one     *)
(* action.  Any thread that holds the connection may fill the send buffer  *)
(* (Fill), which only posts a node to the strand.  The beast stream ends   *)
(* the operations it was given at any moment (the Stream actions); the     *)
(* handler of an ended operation is a later step, so other handlers may    *)
(* run between the two.                                                    *)
(*                                                                         *)
(* What the service decides in a callback is an input of the handler: how  *)
(* many received messages it drops and its answer.  A fill made inside a   *)
(* callback is a Fill step taken just before the handler: both append to   *)
(* the posts the strand has not run.                                       *)
(***************************************************************************)
EXTENDS Integers, Sequences

CONSTANTS
  Payload,       \* contents a message may have
  Empty,         \* what a flat_buffer holds before a message is read into it
  Ssl,           \* TRUE for the wss session, FALSE for the ws session
  SizeMod,       \* number of values of the std::size_t counters
  MaxFill,       \* bound: calls of send_buffer_fill
  MaxArrive,     \* bound: messages the peer sends
  DropByHasData, \* TRUE: on_send drops while recv_buffer_has_data();
                 \* FALSE: it drops only what recv_queue_size() counts
  CloseOnce      \* TRUE: the service asks at most once for the close

ASSUME BufferAssumption == Empty \notin Payload
ASSUME FlagAssumption   == {Ssl, DropByHasData, CloseOnce} \subseteq BOOLEAN
ASSUME SizeAssumption   == /\ MaxFill \in Nat
                           /\ MaxArrive \in Nat
                           /\ SizeMod \in Nat
                           /\ MaxFill < SizeMod
                           /\ MaxArrive < SizeMod

VARIABLES
  \* the session
  m_recv_queue, m_recv_queue_size,
  m_send_queue, m_send_queue_size,
  m_has_close,
  stage,     \* "accept", "connect": handshake under way; "up"; "refused"
  posts,     \* nodes of send_buffer_fill whose on_post has not run
  \* the beast stream and the operations it was given
  ws,        \* "open" or "dead"
  ws_text,   \* its text option, the type of the next message written
  rd, wr,    \* async_read, async_write: "idle", "busy", "ok" or an error
  cl,        \* async_close: "idle", "busy" or "done"
  \* history, for the properties
  filled,    \* messages given to send_buffer_fill, in order
  wire,      \* messages put on the wire
  arrived,   \* messages read off the wire
  taken,     \* messages the service dropped, as it saw them
  asked,     \* the service asked for the close
  closes,    \* number of on_close callbacks
  late,      \* callbacks made after on_close
  clash,     \* kinds of operation started while one was outstanding
  dangling   \* the buffer of an outstanding read was destroyed

session == <<m_recv_queue, m_recv_queue_size, m_send_queue, m_send_queue_size,
             m_has_close, stage, posts>>
stream  == <<ws, ws_text, rd, wr, cl>>
history == <<filled, wire, arrived, taken, asked, closes, late, clash,
             dangling>>
vars    == <<session, stream, history>>

BufferNode == [m_text : BOOLEAN, m_buffer : Payload \cup {Empty}]
Message    == [m_text : BOOLEAN, m_buffer : Payload]

ReadErrors  == {"closed", "other"} \cup (IF Ssl THEN {"truncated"} ELSE {})
WriteErrors == {"other"} \cup (IF Ssl THEN {"truncated"} ELSE {})

\* What a callback answers: return true; return false; call close() and
\* return true; call close() and return false.
Answers == {"keep", "abandon", "close", "both"}
Keeps(a) == a \in {"keep", "close"}
Closes(a) == CASE a = "keep" -> 0 [] a = "both" -> 2 [] OTHER -> 1
May(a) == CloseOnce => a = "keep" \/ (~asked /\ a # "both")

Sized(n) == n % SizeMod

-----------------------------------------------------------------------------
(***************************************************************************)
(* Pieces the handlers share.                                              *)
(***************************************************************************)

\* The node send_buffer_fill makes of the caller's bytes.
FillUncommitted(message) == [message EXCEPT !.m_buffer = Empty]
Filled(message) == message

\* recv(): an empty node is queued, the stream is told to read into it.
RecvReusesNode(queue) ==
  /\ m_recv_queue' = IF queue # <<>> THEN queue
                     ELSE <<[m_text |-> TRUE, m_buffer |-> Empty]>>
  /\ rd' = "busy"
Recv(queue) == /\ m_recv_queue' = Append(queue, [m_text |-> TRUE, m_buffer |-> Empty])
               /\ rd' = "busy"

\* send(): the type of the front message is set, its buffer is written.
SendForgetsText(queue) == wr' = "busy" /\ UNCHANGED ws_text
Send(queue) == /\ ws_text' = Head(queue).m_text
               /\ wr' = "busy"

\* on_post queues its node and, under a condition on the queue, calls send().
QueuedFront(node) == <<node>> \o m_send_queue
Queued(node) == Append(m_send_queue, node)
SendAlways(queue) == queue # <<>>
SendFirst(queue) == Len(queue) = 1

\* The tail of on_send: what is queued is sent next, unless the service
\* answered false.
SendNothingNext(queue, a) == wr' = "idle" /\ UNCHANGED ws_text
SendNext(queue, a) == IF Keeps(a) /\ queue # <<>>
                      THEN Send(queue)
                      ELSE wr' = "idle" /\ UNCHANGED ws_text

\* The message at the back of the receive queue gets its type.
UntypedBack(queue) == queue
TypedBack(queue) ==
  [queue EXCEPT ![Len(queue)].m_text = arrived[Len(arrived)].m_text]

\* recv_buffer_drop(), d times: the front nodes leave the queue and the count.
DropUncounted(queue, size, d) ==
  /\ m_recv_queue_size' = Sized(size)
  /\ taken' = taken \o SubSeq(queue, 1, d)
Drop(queue, size, d) ==
  /\ m_recv_queue_size' = Sized(size - d)
  /\ taken' = taken \o SubSeq(queue, 1, d)

\* eof(), once for each time a callback asks for it.
EofNever(a) == cl' = cl /\ asked' = (asked \/ Closes(a) > 0)
Eof(a) == /\ cl' = IF Closes(a) = 0 THEN cl ELSE "busy"
          /\ asked' = (asked \/ Closes(a) > 0)

\* The kinds of operation a handler starts while one of the kind is
\* outstanding.
Clash(read, write, a) ==
  LET close == Closes(a) = 2 \/ (Closes(a) = 1 /\ cl # "idle")
  IN  clash' = clash \cup {k \in {"read", "write", "close"} :
                             \/ k = "read" /\ read
                             \/ k = "write" /\ write
                             \/ k = "close" /\ close}

\* A callback other than on_close is made.
Tell(callback) == late' = IF closes > 0 THEN late \cup {callback} ELSE late

\* on_close(ec)
OnCloseAgain == m_has_close' = TRUE /\ closes' = closes + 1
OnClose == /\ m_has_close' = TRUE
           /\ closes' = IF m_has_close THEN closes ELSE closes + 1

-----------------------------------------------------------------------------
(***************************************************************************)
(* Handlers.                                                               *)
(***************************************************************************)

\* on_accept(ec) with an error: nothing was started, the session ends.
OnAcceptError ==
  /\ stage = "accept"
  /\ stage' = "refused"
  /\ ws' = "dead"
  /\ UNCHANGED <<m_recv_queue, m_recv_queue_size, m_send_queue,
                 m_send_queue_size, m_has_close, posts, ws_text, rd, wr, cl,
                 history>>

\* on_accept without error and run(identity): the service is shown the
\* connection; if it keeps it the first read starts, else the close.
Open(a) ==
  /\ stage' = "up"
  /\ IF Keeps(a) THEN Recv(m_recv_queue) ELSE UNCHANGED <<m_recv_queue, rd>>
  /\ Eof(a)
  /\ Clash(Keeps(a) /\ rd # "idle", FALSE, a)
  /\ UNCHANGED <<m_recv_queue_size, m_send_queue, m_send_queue_size,
                 m_has_close, posts, ws, ws_text, wr, filled, wire, arrived,
                 taken, closes, late, dangling>>

OnAccept(a) == stage = "accept" /\ Open(a)

RunIdentity(a) == stage = "connect" /\ Open(a)

\* on_recv(ec) with an error: reported unless the peer closed, then on_close.
\* The node that was read into stays at the back of the queue.
OnRecvError ==
  /\ rd \in ReadErrors
  /\ rd' = "idle"
  /\ IF rd = "other" THEN Tell("on_error") ELSE UNCHANGED late
  /\ OnClose
  /\ UNCHANGED <<m_recv_queue, m_recv_queue_size, m_send_queue,
                 m_send_queue_size, stage, posts, ws, ws_text, wr, cl, filled,
                 wire, arrived, taken, asked, clash, dangling>>

\* on_recv without error: the message at the back gets its type and is
\* counted, the service takes the first d, and the next read or the close
\* starts.
OnRecv(d, a) ==
  LET last  == Len(m_recv_queue)
      queue == TypedBack(m_recv_queue)
      rest  == SubSeq(queue, d + 1, last)
  IN  /\ rd = "ok"
      /\ Drop(queue, m_recv_queue_size + 1, d)
      /\ IF Keeps(a) THEN Recv(rest)
                     ELSE m_recv_queue' = rest /\ rd' = "idle"
      /\ Eof(a)
      /\ Clash(FALSE, FALSE, a)
      /\ Tell("on_recv")
      /\ UNCHANGED <<m_send_queue, m_send_queue_size, m_has_close, stage,
                     posts, ws, ws_text, wr, filled, wire, arrived, closes,
                     dangling>>

\* on_send(ec) with an error: the message stays in the queue.
OnSendError ==
  /\ wr \in WriteErrors
  /\ wr' = "idle"
  /\ IF wr = "other" THEN Tell("on_error") ELSE UNCHANGED late
  /\ OnClose
  /\ UNCHANGED <<m_recv_queue, m_recv_queue_size, m_send_queue,
                 m_send_queue_size, stage, posts, ws, ws_text, rd, cl, filled,
                 wire, arrived, taken, asked, clash, dangling>>

\* How many nodes a service that drops inside on_send may drop: as many as
\* are in the queue, or as many as are counted.
Droppable == IF DropByHasData THEN Len(m_recv_queue) ELSE m_recv_queue_size

\* on_send without error (async_write ends when the whole message is
\* written): the front is popped, the service may take d messages, and the
\* next write or the close starts.
OnSend(d, a) ==
  LET queue == Tail(m_send_queue)
      last  == Len(m_recv_queue)
  IN  /\ wr = "ok"
      /\ d <= Droppable
      /\ m_send_queue' = queue
      /\ m_send_queue_size' = Sized(m_send_queue_size - 1)
      /\ m_recv_queue' = SubSeq(m_recv_queue, d + 1, last)
      /\ Drop(m_recv_queue, m_recv_queue_size, d)
      /\ dangling' = (rd # "idle" /\ d > 0 /\ d = last)
      /\ SendNext(queue, a)
      /\ Eof(a)
      /\ Clash(FALSE, FALSE, a)
      /\ Tell("on_send")
      /\ UNCHANGED <<m_has_close, stage, posts, ws, rd, filled, wire, arrived,
                     closes>>

\* on_post(buffer_node): the node is queued; the first in the queue is sent.
OnPost ==
  LET queue == Queued(Head(posts))
  IN  /\ posts # <<>>
      /\ posts' = Tail(posts)
      /\ m_send_queue' = queue
      /\ m_send_queue_size' = Sized(m_send_queue_size + 1)
      /\ IF SendFirst(queue) THEN Send(queue) ELSE UNCHANGED <<ws_text, wr>>
      /\ Clash(FALSE, SendFirst(queue) /\ wr # "idle", "keep")
      /\ UNCHANGED <<m_recv_queue, m_recv_queue_size, m_has_close, stage, ws,
                     rd, cl, filled, wire, arrived, taken, asked, closes, late,
                     dangling>>

\* The handler of async_close.
OnCloseDone ==
  /\ cl = "done"
  /\ cl' = "idle"
  /\ OnClose
  /\ UNCHANGED <<m_recv_queue, m_recv_queue_size, m_send_queue,
                 m_send_queue_size, stage, posts, ws, ws_text, rd, wr, filled,
                 wire, arrived, taken, asked, late, clash, dangling>>

\* send_buffer_fill(text, data, len), by any thread that was shown the
\* connection.
Fill(message) ==
  /\ stage = "up"
  /\ Len(filled) < MaxFill
  /\ posts' = Append(posts, Filled(message))
  /\ filled' = Append(filled, message)
  /\ UNCHANGED <<m_recv_queue, m_recv_queue_size, m_send_queue,
                 m_send_queue_size, m_has_close, stage, stream, wire, arrived,
                 taken, asked, closes, late, clash, dangling>>

-----------------------------------------------------------------------------
(***************************************************************************)
(* The beast stream.  An operation succeeds only while the stream is open; *)
(* the first error, and the end of async_close, leave it dead.             *)
(***************************************************************************)

ReadOk(message) ==
  /\ rd = "busy" /\ ws = "open"
  /\ Len(arrived) < MaxArrive
  /\ rd' = "ok"
  /\ arrived' = Append(arrived, message)
  /\ m_recv_queue' = [m_recv_queue EXCEPT ![Len(m_recv_queue)].m_buffer = message.m_buffer]
  /\ UNCHANGED <<m_recv_queue_size, m_send_queue, m_send_queue_size,
                 m_has_close, stage, posts, ws, ws_text, wr, cl, filled, wire,
                 taken, asked, closes, late, clash, dangling>>

ReadError(e) ==
  /\ rd = "busy"
  /\ ws = "dead" => e = "other"
  /\ rd' = e
  /\ ws' = "dead"
  /\ UNCHANGED <<session, ws_text, wr, cl, history>>

WriteOk ==
  /\ wr = "busy" /\ ws = "open"
  /\ wr' = "ok"
  /\ wire' = Append(wire, [Head(m_send_queue) EXCEPT !.m_text = ws_text])
  /\ UNCHANGED <<session, ws, ws_text, rd, cl, filled, arrived, taken, asked,
                 closes, late, clash, dangling>>

WriteError(e) ==
  /\ wr = "busy"
  /\ ws = "dead" => e = "other"
  /\ wr' = e
  /\ ws' = "dead"
  /\ UNCHANGED <<session, ws_text, rd, cl, history>>

CloseEnds ==
  /\ cl = "busy"
  /\ cl' = "done"
  /\ ws' = "dead"
  /\ UNCHANGED <<session, ws_text, rd, wr, history>>

-----------------------------------------------------------------------------
Init ==
  /\ m_recv_queue = <<>> /\ m_recv_queue_size = 0
  /\ m_send_queue = <<>> /\ m_send_queue_size = 0
  /\ m_has_close = FALSE
  /\ stage \in {"accept", "connect"}
  /\ posts = <<>>
  /\ ws = "open" /\ ws_text = TRUE
  /\ rd = "idle" /\ wr = "idle" /\ cl = "idle"
  /\ filled = <<>> /\ wire = <<>> /\ arrived = <<>> /\ taken = <<>>
  /\ asked = FALSE /\ closes = 0 /\ late = {} /\ clash = {}
  /\ dangling = FALSE

Handlers ==
  \/ OnAcceptError
  \/ \E a \in Answers : May(a) /\ (OnAccept(a) \/ RunIdentity(a))
  \/ OnRecvError
  \/ \E a \in Answers, d \in 0..Len(m_recv_queue) : May(a) /\ OnRecv(d, a)
  \/ OnSendError
  \/ \E a \in Answers, d \in 0..Len(m_recv_queue) : May(a) /\ OnSend(d, a)
  \/ OnPost
  \/ OnCloseDone

ReadFails  == \E e \in ReadErrors : ReadError(e)
WriteFails == \E e \in WriteErrors : WriteError(e)

Stream ==
  \/ \E message \in Message : ReadOk(message)
  \/ ReadFails
  \/ WriteOk
  \/ WriteFails
  \/ CloseEnds

\* Using a destroyed buffer is undefined: nothing is said after it.
Defined(A) == ~dangling /\ A

Next == Defined(Handlers \/ Stream \/ \E message \in Message : Fill(message))

Spec == Init /\ [][Next]_vars

(***************************************************************************)
(* Fairness.  The threads of the manager run every handler that is ready.  *)
(* A write ends because the peer reads it or a timeout of the stream kills *)
(* it, async_close ends by the handshake timeout that covers closing, and  *)
(* on a dead stream a read is aborted.  A read on an open stream may wait  *)
(* for ever.                                                               *)
(***************************************************************************)
Fairness ==
  /\ WF_vars(Defined(Handlers))
  /\ WF_vars(Defined(WriteOk \/ WriteFails))
  /\ WF_vars(Defined(ws = "dead" /\ ReadFails))
  /\ WF_vars(Defined(CloseEnds))

FairSpec == Spec /\ Fairness

-----------------------------------------------------------------------------
(***************************************************************************)
(* Properties.                                                             *)
(***************************************************************************)

\* Types of the session, the stream and the history; a queued outgoing node
\* holds a whole message and never an emptied buffer (on_post, line 430).
TypeOK ==
  /\ m_recv_queue \in Seq(BufferNode) /\ m_recv_queue_size \in 0..SizeMod-1
  /\ m_send_queue \in Seq(Message) /\ m_send_queue_size \in 0..SizeMod-1
  /\ m_has_close \in BOOLEAN
  /\ stage \in {"accept", "connect", "up", "refused"}
  /\ posts \in Seq(Message)
  /\ ws \in {"open", "dead"} /\ ws_text \in BOOLEAN
  /\ rd \in {"idle", "busy", "ok"} \cup ReadErrors
  /\ wr \in {"idle", "busy", "ok"} \cup WriteErrors
  /\ cl \in {"idle", "busy", "done"}
  /\ filled \in Seq(Message) /\ wire \in Seq(Message)
  /\ arrived \in Seq(Message) /\ taken \in Seq(BufferNode)
  /\ asked \in BOOLEAN /\ closes \in Nat
  /\ late \subseteq {"on_recv", "on_send", "on_error"}
  /\ clash \subseteq {"read", "write", "close"}
  /\ dangling \in BOOLEAN

\* Messages given to send_buffer_fill and not on the wire yet.
Unsent == (IF wr = "ok" THEN Tail(m_send_queue) ELSE m_send_queue) \o posts

\* Whatever threads fill the buffer, and however their posts, the writes and
\* the errors interleave, messages reach the wire in the order filled, each
\* once and with its own text or binary type.
SendFifo == filled = wire \o Unsent

\* A message read off the wire that on_recv has not counted yet.
Uncounted ==
  IF rd = "ok"
  THEN <<[m_text   |-> arrived[Len(arrived)].m_text,
          m_buffer |-> m_recv_queue[Len(m_recv_queue)].m_buffer]>>
  ELSE <<>>

\* The service gets the messages of the peer in order, each once and with
\* its type, and recv_queue_size() counts those it has not dropped.
RecvFifo ==
  arrived = taken \o SubSeq(m_recv_queue, 1, m_recv_queue_size) \o Uncounted

\* The counters other threads read agree with the queues: send_queue_size()
\* is the length of the send queue, and the receive queue holds one node
\* more than it counts while a read is outstanding (or ended in an error).
QueueSizes ==
  /\ m_send_queue_size = Len(m_send_queue)
  /\ Len(m_recv_queue) - m_recv_queue_size \in
       IF rd = "idle" THEN (IF closes > 0 THEN {0, 1} ELSE {0}) ELSE {1}

\* A stream carries at most one read, one write and one close at a time: no
\* interleaving of on_post, on_send and on_recv starts a second one.
OneOfEachKind == clash = {}

\* The buffer of the message being written stays in the send queue until its
\* handler ran, and the buffer being read into stays in the receive queue
\* (the BOOST_ASSERTs of recv, send, on_recv and on_send).
BuffersAlive ==
  /\ rd # "idle" => m_recv_queue # <<>>
  /\ wr # "idle" => m_send_queue # <<>>
  /\ ~dangling

\* A queued message is being written, unless the service gave the connection
\* up or the stream failed: no wakeup of the sender is lost.
SenderAwake ==
  m_send_queue # <<>> => wr # "idle" \/ asked \/ ws = "dead"

\* Only the handlers of outstanding operations keep the session alive: until
\* on_close was called there is one that will call it.
NotOrphaned ==
  stage = "up" /\ closes = 0 => rd # "idle" \/ cl # "idle"

\* on_close is called at most once, whichever of a failed read, a failed
\* write and a finished close come first, only on a connection the service
\* was shown, and only when the stream is finished.
ClosedOnce ==
  /\ closes = IF m_has_close THEN 1 ELSE 0
  /\ m_has_close => stage = "up" /\ ws = "dead"

\* Every frame the service finds in the receive queue is a frame the peer
\* sent.
NoPhantomFrame == \A i \in 1..Len(taken) : taken[i].m_buffer # Empty

\* on_close is the last callback of the connection.
OnCloseIsLast == late = {}

\* on_send is called when all data was sent.
OnSendWhenAllSent ==
  [][wr = "ok" /\ m_send_queue' # m_send_queue /\ posts' = posts
       => m_send_queue' = <<>>]_vars

\* Once the service gave the connection up or the stream failed, on_close is
\* called.
CloseReported ==
  stage = "up" /\ (asked \/ ws = "dead") ~> m_has_close

\* A message given to send_buffer_fill is put on the wire unless the
\* connection ends.
Flushed ==
  \A n \in 1..MaxFill :
    Len(filled) >= n ~> Len(wire) >= n \/ asked \/ ws = "dead"

(***************************************************************************)
(* The session implements the connection the service is promised.         *)
(***************************************************************************)
\* The stage of the connection as its service sees it.
PublicStage ==
  IF closes > 0 THEN "closed" ELSE IF stage \in {"accept", "connect"} THEN "new" ELSE stage

C == INSTANCE Connection WITH stage <- PublicStage

\* The session, its queues, counters, posts and outstanding operations behave
\* to the service as a Connection: two reliable ordered streams of typed
\* messages and one on_close, after which nothing moves on the wire.
ImplementsConnection == C!Spec
===============================================================================
