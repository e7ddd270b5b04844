------------------------ MODULE WebsocketSessionProofs ------------------------
(***************************************************************************)
(* Proofs about WebsocketSession, for every set of payloads, every bound   *)
(* on the messages and every width of the counters.                        *)
(*                                                                         *)
(* IInv is inductive whatever the service does in its callbacks: it does   *)
(* not use DropByHasData or CloseOnce.                                     *)
(***************************************************************************)
EXTENDS WebsocketSession, TLAPS, SequenceTheorems

\* TypeOK in three parts: Boolean flags, states, and queues.
Flags == /\ m_has_close \in BOOLEAN /\ ws_text \in BOOLEAN
         /\ asked \in BOOLEAN /\ dangling \in BOOLEAN

Tokens ==
  /\ stage \in {"accept", "connect", "up", "refused"}
  /\ ws \in {"open", "dead"}
  /\ rd \in {"idle", "busy", "ok"} \cup ReadErrors
  /\ wr \in {"idle", "busy", "ok"} \cup WriteErrors
  /\ cl \in {"idle", "busy", "done"}
  /\ closes \in Nat
  /\ late \subseteq {"on_recv", "on_send", "on_error"}
  /\ clash \subseteq {"read", "write", "close"}

Queues ==
  /\ m_recv_queue \in Seq(BufferNode) /\ m_recv_queue_size \in 0..SizeMod-1
  /\ m_send_queue \in Seq(Message) /\ m_send_queue_size \in 0..SizeMod-1
  /\ posts \in Seq(Message)
  /\ filled \in Seq(Message) /\ wire \in Seq(Message)
  /\ arrived \in Seq(Message) /\ taken \in Seq(BufferNode)

\* The buffer of an outstanding operation is in its queue.
NonEmpty ==
  /\ wr # "idle" => m_send_queue # <<>>
  /\ rd # "idle" /\ ~dangling => m_recv_queue # <<>>
  /\ rd = "ok" => arrived # <<>>

\* Nothing is started before the connection was shown to the service.
NotBefore ==
  stage # "up" => /\ rd = "idle" /\ wr = "idle" /\ cl = "idle"
                  /\ posts = <<>> /\ m_send_queue = <<>>

\* An operation ends in an error, and async_close ends, on a dead stream only.
Failed ==
  rd \in ReadErrors \/ wr \in WriteErrors \/ cl = "done" => ws = "dead"

Control == /\ NonEmpty /\ NotBefore /\ Failed
           /\ SenderAwake /\ NotOrphaned /\ ClosedOnce

IInv == Flags /\ Tokens /\ Queues /\ Control

-----------------------------------------------------------------------------
\* What the answer of a callback asks for.
LEMMA AnswerFacts ==
  ASSUME NEW a \in Answers
  PROVE  /\ Closes(a) \in 0..2
         /\ Keeps(a) \in BOOLEAN
         /\ ~Keeps(a) => Closes(a) # 0
BY DEF Answers, Closes, Keeps

\* An error is not one of the other states of an operation.
LEMMA ErrorFacts ==
  /\ ReadErrors \subseteq {"closed", "other", "truncated"}
  /\ WriteErrors \subseteq {"other", "truncated"}
BY DEF ReadErrors, WriteErrors

\* A counter keeps its width.
LEMMA SizedFacts == ASSUME NEW n \in Int PROVE Sized(n) \in 0..SizeMod-1
BY SizeAssumption DEF Sized

\* What is left of a queue, and what is taken from it, has its type.
LEMMA SubSeqFacts ==
  ASSUME NEW S, NEW queue \in Seq(S), NEW d \in 0..Len(queue)
  PROVE  /\ SubSeq(queue, 1, d) \in Seq(S)
         /\ SubSeq(queue, d + 1, Len(queue)) \in Seq(S)
         /\ Len(SubSeq(queue, 1, d)) = d
         /\ Len(SubSeq(queue, d + 1, Len(queue))) = Len(queue) - d
         /\ d < Len(queue) => SubSeq(queue, d + 1, Len(queue)) # <<>>
<1>1. /\ SubSeq(queue, 1, d) \in Seq(S)
      /\ SubSeq(queue, d + 1, Len(queue)) \in Seq(S)
      /\ Len(SubSeq(queue, 1, d)) = d
      /\ Len(SubSeq(queue, d + 1, Len(queue))) = Len(queue) - d
  OBVIOUS
<1>2. ASSUME d < Len(queue) PROVE SubSeq(queue, d + 1, Len(queue)) # <<>>
  <2> SUFFICES ASSUME SubSeq(queue, d + 1, Len(queue)) = <<>> PROVE FALSE
    OBVIOUS
  <2>1. Len(SubSeq(queue, d + 1, Len(queue))) = 0
    BY EmptySeq
  <2> QED
    BY <1>1, <1>2, <2>1
<1> QED
  BY <1>1, <1>2

\* The elements of the queues.
LEMMA EndFacts ==
  ASSUME NEW S, NEW queue \in Seq(S), queue # <<>>
  PROVE  /\ Len(queue) \in Nat \ {0}
         /\ queue[Len(queue)] \in S
         /\ Head(queue) \in S
         /\ Tail(queue) \in Seq(S)
         /\ Len(Tail(queue)) = Len(queue) - 1
OBVIOUS

\* What appending a node does to a queue.
LEMMA AppendFacts ==
  ASSUME NEW S, NEW queue \in Seq(S), NEW node \in S
  PROVE  Append(queue, node) \in Seq(S) /\ Append(queue, node) # <<>>
BY AppendProperties

\* The node that is read into gets a type, or a content, and stays in place.
LEMMA NodeFacts ==
  /\ \A node \in BufferNode, text \in BOOLEAN : [node EXCEPT !.m_text = text] \in BufferNode
  /\ \A node \in BufferNode, message \in Message :
       [node EXCEPT !.m_buffer = message.m_buffer] \in BufferNode
  /\ \A message \in Message, text \in BOOLEAN : [message EXCEPT !.m_text = text] \in Message
  /\ \A message \in Message : message.m_text \in BOOLEAN
  /\ [m_text |-> TRUE, m_buffer |-> Empty] \in BufferNode
<1>1. \A node \in BufferNode, text \in BOOLEAN : [node EXCEPT !.m_text = text] \in BufferNode
  BY DEF BufferNode
<1>2. \A node \in BufferNode, message \in Message :
        [node EXCEPT !.m_buffer = message.m_buffer] \in BufferNode
  BY DEF BufferNode, Message
<1>3. \A message \in Message, text \in BOOLEAN : [message EXCEPT !.m_text = text] \in Message
  BY DEF Message
<1>4. \A message \in Message : message.m_text \in BOOLEAN
  BY DEF Message
<1>5. [m_text |-> TRUE, m_buffer |-> Empty] \in BufferNode
  BY DEF BufferNode
<1> QED
  BY <1>1, <1>2, <1>3, <1>4, <1>5

\* recv() leaves the node it reads into at the back.
LEMMA RecvFacts ==
  ASSUME NEW queue \in Seq(BufferNode), Recv(queue)
  PROVE  m_recv_queue' \in Seq(BufferNode) /\ m_recv_queue' # <<>>
BY NodeFacts DEF Recv

\* What the callbacks record.
LEMMA CallbackFacts ==
  /\ closes \in Nat /\ OnClose => closes' \in Nat
  /\ \A callback \in {"on_recv", "on_send", "on_error"} :
       late \subseteq {"on_recv", "on_send", "on_error"} /\ Tell(callback)
         => late' \subseteq {"on_recv", "on_send", "on_error"}
BY DEF OnClose, Tell

\* The message that is read goes into the back of the queue.
LEMMA ReadFacts ==
  ASSUME m_recv_queue \in Seq(BufferNode), m_recv_queue # <<>>,
         NEW message \in Message, ReadOk(message)
  PROVE  m_recv_queue' \in Seq(BufferNode) /\ m_recv_queue' # <<>>
<1>1. m_recv_queue[Len(m_recv_queue)] \in BufferNode
  BY EndFacts
<1>2. [m_recv_queue[Len(m_recv_queue)] EXCEPT !.m_buffer = message.m_buffer]
        \in BufferNode
  BY <1>1, NodeFacts
<1> QED
  BY <1>2 DEF ReadOk

\* Only the type of the node at the back is set.
LEMMA TypedBackFacts ==
  ASSUME m_recv_queue \in Seq(BufferNode), m_recv_queue # <<>>,
         arrived \in Seq(Message), arrived # <<>>
  PROVE  /\ TypedBack(m_recv_queue) \in Seq(BufferNode)
         /\ Len(TypedBack(m_recv_queue)) = Len(m_recv_queue)
<1>1. arrived[Len(arrived)] \in Message /\ m_recv_queue[Len(m_recv_queue)] \in BufferNode
  BY EndFacts
<1>2. [m_recv_queue[Len(m_recv_queue)] EXCEPT !.m_text = arrived[Len(arrived)].m_text]
        \in BufferNode
  BY <1>1, NodeFacts
<1> QED
  BY <1>2 DEF TypedBack

-----------------------------------------------------------------------------
\* Nothing has happened to the session that is created.
LEMMA InitIInv == Init => IInv
<1> SUFFICES ASSUME Init PROVE IInv
  OBVIOUS
<1>1. Flags
  BY DEF Init, Flags
<1>2. Tokens
  BY DEF Init, Tokens
<1>3. Queues
  BY SizeAssumption DEF Init, Queues
<1>4. Control
  BY ErrorFacts DEF Init, Control, NonEmpty, NotBefore, Failed, SenderAwake, NotOrphaned, ClosedOnce
<1> QED
  BY <1>1, <1>2, <1>3, <1>4 DEF IInv

\* A handler or an event of the stream, one step for each.
LEMMA NextIInv == IInv /\ [Next]_vars => IInv'
<1> SUFFICES ASSUME IInv, [Next]_vars PROVE IInv'
  OBVIOUS
<1>1. CASE OnAcceptError
  <2>1. Flags'
    BY <1>1 DEF IInv, Flags, OnAcceptError, history
  <2>2. Tokens'
    BY <1>1 DEF IInv, Tokens, OnAcceptError, history
  <2>3. Queues'
    BY <1>1 DEF IInv, Queues, OnAcceptError, history
  <2>4. Control'
    BY <1>1 DEF IInv, Tokens, Queues, Control, NonEmpty, NotBefore, Failed,
       SenderAwake, NotOrphaned, ClosedOnce, OnAcceptError, history
  <2> QED
    BY <2>1, <2>2, <2>3, <2>4 DEF IInv
<1>2. ASSUME ~dangling, NEW a \in Answers, OnAccept(a) \/ RunIdentity(a)
      PROVE  IInv'
  <2>1. Flags'
    BY <1>2, AnswerFacts DEF IInv, Flags, OnAccept, RunIdentity, Open, Recv,
       Eof
  <2>2. Tokens'
    BY <1>2, AnswerFacts DEF IInv, Tokens, OnAccept, RunIdentity, Open, Recv,
       Eof, Clash
  <2>3. Queues'
    BY <1>2, AnswerFacts, RecvFacts DEF IInv, Queues, OnAccept, RunIdentity,
       Open, Recv, Eof
  <2>4. Control'
    <3>1. /\ stage' = "up" /\ wr = "idle" /\ m_send_queue = <<>> /\ closes = 0
          /\ ~m_has_close /\ rd = "idle" /\ cl = "idle"
      BY <1>2 DEF IInv, Control, NotBefore, ClosedOnce, OnAccept, RunIdentity, Open
    <3>4. UNCHANGED <<wr, m_send_queue, closes, m_has_close>>
      BY <1>2 DEF OnAccept, RunIdentity, Open
    <3>2. CASE Keeps(a)
      <4>1. rd' = "busy" /\ m_recv_queue' # <<>> /\ cl' \in {"idle", "busy"}
        BY <1>2, <3>1, <3>2, RecvFacts DEF IInv, Queues, OnAccept, RunIdentity, Open,
           Recv, Eof
      <4> QED
        BY <1>2, <3>1, <3>4, <4>1, ErrorFacts DEF Control, NonEmpty, NotBefore, Failed,
           SenderAwake, NotOrphaned, ClosedOnce
    <3>3. CASE ~Keeps(a)
      <4>1. rd' = "idle" /\ cl' = "busy"
        BY <1>2, <3>1, <3>3, AnswerFacts DEF OnAccept, RunIdentity, Open, Eof
      <4> QED
        BY <1>2, <3>1, <3>4, <4>1, ErrorFacts DEF Control, NonEmpty, NotBefore, Failed,
           SenderAwake, NotOrphaned, ClosedOnce
    <3> QED
      BY <3>2, <3>3
  <2> QED
    BY <2>1, <2>2, <2>3, <2>4 DEF IInv
<1>3. CASE OnRecvError
  <2>1. Flags'
    BY <1>3 DEF IInv, Flags, OnRecvError, OnClose
  <2>2. Tokens'
    BY <1>3, CallbackFacts DEF IInv, Tokens, OnRecvError
  <2>3. Queues'
    BY <1>3 DEF IInv, Queues, OnRecvError
  <2>4. Control'
    BY <1>3, ErrorFacts DEF IInv, Tokens, Queues, Control, NonEmpty, NotBefore,
       Failed, SenderAwake, NotOrphaned, ClosedOnce, OnRecvError, OnClose
  <2> QED
    BY <2>1, <2>2, <2>3, <2>4 DEF IInv
<1>4. ASSUME ~dangling, NEW a \in Answers, NEW d \in 0..Len(m_recv_queue), OnRecv(d, a)
      PROVE  IInv'
  <2>1. Flags'
    BY <1>4, AnswerFacts DEF IInv, Flags, OnRecv, Recv, Eof
  <2>2. Tokens'
    BY <1>4, AnswerFacts DEF IInv, Tokens, OnRecv, Recv, Eof, Clash, Tell
  <2>3. Queues'
    <3>1. rd = "ok" /\ m_recv_queue # <<>> /\ arrived # <<>>
      BY <1>4 DEF IInv, Control, NonEmpty, OnRecv
    <3> DEFINE queue == TypedBack(m_recv_queue)
               rest  == SubSeq(queue, d + 1, Len(m_recv_queue))
    <3>2. queue \in Seq(BufferNode) /\ Len(queue) = Len(m_recv_queue)
      BY <3>1, TypedBackFacts DEF IInv, Queues
    <3> HIDE DEF queue
    <3>3. rest \in Seq(BufferNode) /\ SubSeq(queue, 1, d) \in Seq(BufferNode)
      BY <3>2, SubSeqFacts
    <3> HIDE DEF rest
    <3>4. m_recv_queue' \in Seq(BufferNode)
      BY <1>4, <3>3, RecvFacts DEF OnRecv, queue, rest
    <3>5. taken' \in Seq(BufferNode) /\ m_recv_queue_size' \in 0..SizeMod-1
      BY <1>4, <3>3, SizedFacts DEF IInv, Queues, OnRecv, Drop, queue
    <3> QED
      BY <1>4, <3>4, <3>5 DEF IInv, Queues, OnRecv
  <2>4. Control'
    <3>1. rd = "ok" /\ m_recv_queue # <<>> /\ stage = "up"
      BY <1>4 DEF IInv, Control, NonEmpty, NotBefore, OnRecv
    <3>2. SubSeq(TypedBack(m_recv_queue), d + 1, Len(m_recv_queue)) \in Seq(BufferNode)
      BY <1>4, <3>1, TypedBackFacts, SubSeqFacts DEF IInv, Queues, Control, NonEmpty
    <3>3. \/ rd' = "idle" /\ cl' = "busy"
          \/ rd' = "busy" /\ m_recv_queue' # <<>>
      BY <1>4, <3>2, RecvFacts, AnswerFacts DEF OnRecv, Recv, Eof
    <3>4. cl' = "done" => cl = "done"
      BY <1>4 DEF OnRecv, Eof
    <3>5. asked => asked'
      BY <1>4 DEF OnRecv, Eof
    <3> QED
      BY <1>4, <3>1, <3>3, <3>4, <3>5, ErrorFacts DEF IInv, Tokens, OnRecv, Control,
         NonEmpty, NotBefore, Failed, SenderAwake, NotOrphaned, ClosedOnce
  <2> QED
    BY <2>1, <2>2, <2>3, <2>4 DEF IInv
<1>5. CASE OnSendError
  <2>1. Flags'
    BY <1>5 DEF IInv, Flags, OnSendError, OnClose
  <2>2. Tokens'
    BY <1>5, CallbackFacts DEF IInv, Tokens, OnSendError
  <2>3. Queues'
    BY <1>5 DEF IInv, Queues, OnSendError
  <2>4. Control'
    BY <1>5, ErrorFacts DEF IInv, Tokens, Queues, Control, NonEmpty, NotBefore,
       Failed, SenderAwake, NotOrphaned, ClosedOnce, OnSendError, OnClose
  <2> QED
    BY <2>1, <2>2, <2>3, <2>4 DEF IInv
<1>6. ASSUME ~dangling, NEW a \in Answers, NEW d \in 0..Len(m_recv_queue), OnSend(d, a)
      PROVE  IInv'
  <2>1. Flags'
    BY <1>6, AnswerFacts, EndFacts, NodeFacts DEF IInv, Flags, OnSend,
       SendNext, Send, Eof, Queues, Control, NonEmpty
  <2>2. Tokens'
    BY <1>6, AnswerFacts DEF IInv, Tokens, OnSend, SendNext, Send, Eof, Clash,
       Tell
  <2>3. Queues'
    <3>1. m_send_queue # <<>>
      BY <1>6 DEF IInv, Control, NonEmpty, OnSend
    <3>2. m_send_queue' \in Seq(Message)
      BY <1>6, <3>1, EndFacts DEF IInv, Queues, OnSend
    <3>3. m_recv_queue' \in Seq(BufferNode)
      BY <1>6, SubSeqFacts DEF IInv, Queues, OnSend
    <3>4. SubSeq(m_recv_queue, 1, d) \in Seq(BufferNode)
      BY SubSeqFacts DEF IInv, Queues
    <3>5. taken' \in Seq(BufferNode) /\ m_recv_queue_size' \in 0..SizeMod-1
      BY <1>6, <3>4, SizedFacts DEF IInv, Queues, OnSend, Drop
    <3>6. m_send_queue_size' \in 0..SizeMod-1
      BY <1>6, SizedFacts DEF IInv, Queues, OnSend
    <3> QED
      BY <1>6, <3>2, <3>3, <3>5, <3>6 DEF IInv, Queues, OnSend
  <2>4. Control'
    <3>1. wr = "ok" /\ m_send_queue # <<>> /\ stage = "up"
      BY <1>6 DEF IInv, Control, NonEmpty, NotBefore, OnSend
    <3>2. NonEmpty'
      <4>1. wr' # "idle" => m_send_queue' # <<>>
        BY <1>6 DEF OnSend, SendNext, Send
      <4>2. rd' # "idle" /\ ~dangling' => m_recv_queue' # <<>>
        <5>1. CASE d < Len(m_recv_queue)
          BY <1>6, <5>1, SubSeqFacts DEF IInv, Queues, OnSend
        <5>2. CASE d = Len(m_recv_queue)
          <6>1. rd # "idle" => d > 0
            BY <1>6, <5>2, EndFacts DEF IInv, Queues, Control, NonEmpty
          <6>2. rd # "idle" => dangling'
            BY <1>6, <5>2, <6>1 DEF OnSend
          <6> QED
            BY <1>6, <6>2 DEF OnSend
        <5> QED
          BY <1>6, <5>1, <5>2 DEF IInv, Queues
      <4> QED
        BY <1>6, <4>1, <4>2 DEF IInv, Control, NonEmpty, OnSend
    <3>3. NotBefore' /\ Failed'
      BY <1>6, <3>1, ErrorFacts DEF IInv, Control, NotBefore, Failed, OnSend, SendNext,
         Send, Eof
    <3>4. SenderAwake'
      <4>1. CASE Keeps(a)
        BY <1>6, <4>1 DEF OnSend, SendNext, Send, SenderAwake
      <4>2. CASE ~Keeps(a)
        <5>1. Closes(a) > 0
          BY <4>2, AnswerFacts
        <5>2. asked'
          BY <1>6, <5>1 DEF OnSend, Eof
        <5> QED
          BY <5>2 DEF SenderAwake
      <4> QED
        BY <4>1, <4>2
    <3>5. NotOrphaned' /\ ClosedOnce'
      BY <1>6 DEF IInv, Control, NotOrphaned, ClosedOnce, OnSend, Eof
    <3> QED
      BY <3>2, <3>3, <3>4, <3>5 DEF Control
  <2> QED
    BY <2>1, <2>2, <2>3, <2>4 DEF IInv
<1>7. CASE OnPost
  <2>1. Flags'
    <3>1. posts # <<>> /\ posts \in Seq(Message) /\ m_send_queue \in Seq(Message)
      BY <1>7 DEF OnPost, IInv, Queues
    <3>2. Head(Queued(Head(posts))).m_text \in BOOLEAN
      BY <3>1, EndFacts, NodeFacts DEF Queued
    <3>3. ws_text' \in {ws_text, Head(Queued(Head(posts))).m_text}
      BY <1>7 DEF OnPost, Send
    <3>4. UNCHANGED <<m_has_close, asked, dangling>>
      BY <1>7 DEF OnPost
    <3> QED
      BY <3>2, <3>3, <3>4 DEF IInv, Flags
  <2>2. Tokens'
    BY <1>7 DEF IInv, Tokens, OnPost, Queued, SendFirst, Send, Clash
  <2>3. Queues'
    BY <1>7, SizedFacts, EndFacts DEF IInv, Queues, OnPost, Queued, SendFirst,
       Send
  <2>4. Control'
    BY <1>7, ErrorFacts DEF IInv, Tokens, Queues, Control, NonEmpty, NotBefore,
       Failed, SenderAwake, NotOrphaned, ClosedOnce, OnPost, Queued, SendFirst,
       Send
  <2> QED
    BY <2>1, <2>2, <2>3, <2>4 DEF IInv
<1>8. CASE OnCloseDone
  <2>1. Flags'
    BY <1>8 DEF IInv, Flags, OnCloseDone, OnClose
  <2>2. Tokens'
    BY <1>8 DEF IInv, Tokens, OnCloseDone, OnClose
  <2>3. Queues'
    BY <1>8 DEF IInv, Queues, OnCloseDone, OnClose
  <2>4. Control'
    BY <1>8 DEF IInv, Tokens, Queues, Control, NonEmpty, NotBefore, Failed,
       SenderAwake, NotOrphaned, ClosedOnce, OnCloseDone, OnClose
  <2> QED
    BY <2>1, <2>2, <2>3, <2>4 DEF IInv
<1>9. ASSUME NEW message \in Message, Fill(message) PROVE IInv'
  <2>1. Flags'
    BY <1>9 DEF IInv, Flags, Fill, Filled, stream
  <2>2. Tokens'
    BY <1>9 DEF IInv, Tokens, Fill, Filled, stream
  <2>3. Queues'
    BY <1>9 DEF IInv, Queues, Fill, Filled, stream
  <2>4. Control'
    BY <1>9 DEF IInv, Tokens, Queues, Control, NonEmpty, NotBefore, Failed,
       SenderAwake, NotOrphaned, ClosedOnce, Fill, Filled, stream
  <2> QED
    BY <2>1, <2>2, <2>3, <2>4 DEF IInv
<1>10. ASSUME ~dangling, NEW message \in Message, ReadOk(message) PROVE IInv'
  <2>1. Flags'
    BY <1>10 DEF IInv, Flags, ReadOk
  <2>2. Tokens'
    BY <1>10 DEF IInv, Tokens, ReadOk
  <2>3. Queues'
    BY <1>10, ReadFacts, AppendFacts DEF IInv, Queues, ReadOk, Control, NonEmpty
  <2>4. Control'
    <3>1. rd = "busy" /\ rd' = "ok" /\ arrived' # <<>> /\ m_recv_queue' # <<>>
      BY <1>10, ReadFacts, AppendFacts DEF IInv, Queues, ReadOk, Control, NonEmpty
    <3> QED
      BY <1>10, <3>1, ErrorFacts DEF IInv, Tokens, Control, NonEmpty, NotBefore, Failed,
         SenderAwake, NotOrphaned, ClosedOnce, ReadOk
  <2> QED
    BY <2>1, <2>2, <2>3, <2>4 DEF IInv
<1>11. ASSUME NEW e \in ReadErrors, ReadError(e) PROVE IInv'
  <2>1. Flags'
    BY <1>11 DEF IInv, Flags, ReadError, session, history
  <2>2. Tokens'
    BY <1>11 DEF IInv, Tokens, ReadError, session, history
  <2>3. Queues'
    BY <1>11 DEF IInv, Queues, ReadError, session, history
  <2>4. Control'
    BY <1>11, ErrorFacts DEF IInv, Tokens, Queues, Control, NonEmpty,
       NotBefore, Failed, SenderAwake, NotOrphaned, ClosedOnce, ReadError,
       session, history
  <2> QED
    BY <2>1, <2>2, <2>3, <2>4 DEF IInv
<1>12. CASE WriteOk
  <2>1. Flags'
    BY <1>12 DEF IInv, Flags, WriteOk, session
  <2>2. Tokens'
    BY <1>12 DEF IInv, Tokens, WriteOk, session
  <2>3. Queues'
    BY <1>12, NodeFacts, EndFacts DEF IInv, Queues, WriteOk, session, Flags,
       Control, NonEmpty
  <2>4. Control'
    BY <1>12, ErrorFacts DEF IInv, Tokens, Queues, Control, NonEmpty,
       NotBefore, Failed, SenderAwake, NotOrphaned, ClosedOnce, WriteOk,
       session
  <2> QED
    BY <2>1, <2>2, <2>3, <2>4 DEF IInv
<1>13. ASSUME NEW e \in WriteErrors, WriteError(e) PROVE IInv'
  <2>1. Flags'
    BY <1>13 DEF IInv, Flags, WriteError, session, history
  <2>2. Tokens'
    BY <1>13 DEF IInv, Tokens, WriteError, session, history
  <2>3. Queues'
    BY <1>13 DEF IInv, Queues, WriteError, session, history
  <2>4. Control'
    BY <1>13, ErrorFacts DEF IInv, Tokens, Queues, Control, NonEmpty,
       NotBefore, Failed, SenderAwake, NotOrphaned, ClosedOnce, WriteError,
       session, history
  <2> QED
    BY <2>1, <2>2, <2>3, <2>4 DEF IInv
<1>14. CASE CloseEnds
  <2>1. Flags'
    BY <1>14 DEF IInv, Flags, CloseEnds, session, history
  <2>2. Tokens'
    BY <1>14 DEF IInv, Tokens, CloseEnds, session, history
  <2>3. Queues'
    BY <1>14 DEF IInv, Queues, CloseEnds, session, history
  <2>4. Control'
    BY <1>14 DEF IInv, Tokens, Queues, Control, NonEmpty, NotBefore, Failed,
       SenderAwake, NotOrphaned, ClosedOnce, CloseEnds, session, history
  <2> QED
    BY <2>1, <2>2, <2>3, <2>4 DEF IInv
<1>15. CASE UNCHANGED vars
  <2>1. Flags'
    BY <1>15 DEF IInv, Flags, vars, session, stream, history
  <2>2. Tokens'
    BY <1>15 DEF IInv, Tokens, vars, session, stream, history
  <2>3. Queues'
    BY <1>15 DEF IInv, Queues, vars, session, stream, history
  <2>4. Control'
    BY <1>15 DEF IInv, Tokens, Queues, Control, NonEmpty, NotBefore, Failed,
       SenderAwake, NotOrphaned, ClosedOnce, vars, session, stream, history
  <2> QED
    BY <2>1, <2>2, <2>3, <2>4 DEF IInv
<1> QED
  BY <1>1, <1>2, <1>3, <1>4, <1>5, <1>6, <1>7, <1>8, <1>9, <1>10, <1>11, <1>12,
     <1>13, <1>14, <1>15
     DEF Next, Defined, Handlers, Stream, ReadFails, WriteFails

\* The inductive invariant holds in every state of the session.
THEOREM Inductive == Spec => []IInv
<1>1. Init => IInv
  BY InitIInv
<1>2. IInv /\ [Next]_vars => IInv'
  BY NextIInv
<1> QED
  BY <1>1, <1>2, PTL DEF Spec

\* Every variable keeps its type: a queued outgoing node always holds a whole
\* message, and the counters never leave their width.
THEOREM TypeCorrect == Spec => []TypeOK
<1>1. IInv => TypeOK
  BY DEF IInv, Flags, Tokens, Queues, TypeOK
<1> QED
  BY <1>1, Inductive, PTL

\* on_post and on_send never leave a message queued with nobody sending it.
THEOREM SenderNeverSleeps == Spec => []SenderAwake
<1>1. IInv => SenderAwake
  BY DEF IInv, Control
<1> QED
  BY <1>1, Inductive, PTL

\* A connection that was shown and not closed has an operation outstanding
\* whose handler keeps the session alive and will call on_close.
THEOREM NeverOrphaned == Spec => []NotOrphaned
<1>1. IInv => NotOrphaned
  BY DEF IInv, Control
<1> QED
  BY <1>1, Inductive, PTL

\* Three handlers call on_close and the service hears it at most once.
THEOREM CloseIsOnce == Spec => []ClosedOnce
<1>1. IInv => ClosedOnce
  BY DEF IInv, Control
<1> QED
  BY <1>1, Inductive, PTL

-----------------------------------------------------------------------------
(***************************************************************************)
(* Order of the messages sent.                                             *)
(***************************************************************************)

\* Moving the front of one queue to the back of another keeps the sequence
\* the two make up.
LEMMA MoveFront ==
  ASSUME NEW S, NEW q \in Seq(S), NEW p \in Seq(S), p # <<>>
  PROVE  Append(q, Head(p)) \o Tail(p) = q \o p
<1>1. Head(p) \in S /\ Tail(p) \in Seq(S) /\ p = <<Head(p)>> \o Tail(p)
  <2>1. Head(p) \in S /\ Tail(p) \in Seq(S) /\ Len(Tail(p)) = Len(p) - 1
        /\ \A i \in 1..Len(Tail(p)) : Tail(p)[i] = p[i + 1]
    BY HeadTailProperties
  <2>2. <<Head(p)>> \in Seq(S) /\ Len(<<Head(p)>>) = 1 /\ <<Head(p)>>[1] = p[1]
    BY <2>1
  <2>3. /\ <<Head(p)>> \o Tail(p) \in Seq(S)
        /\ Len(<<Head(p)>> \o Tail(p)) = Len(p)
        /\ \A i \in 1..Len(p) : (<<Head(p)>> \o Tail(p))[i]
                                  = IF i <= 1 THEN <<Head(p)>>[i] ELSE Tail(p)[i - 1]
    BY <2>1, <2>2, ConcatProperties
  <2>4. \A i \in 1..Len(p) : (<<Head(p)>> \o Tail(p))[i] = p[i]
    BY <2>1, <2>2, <2>3
  <2> QED
    BY <2>1, <2>3, <2>4, SeqEqual
<1>2. Append(q, Head(p)) = q \o <<Head(p)>>
  BY <1>1, AppendIsConcat
<1> QED
  BY <1>1, <1>2, ConcatAssociative

\* A message filled goes behind everything that is not on the wire.
LEMMA FillBack ==
  ASSUME NEW S, NEW q \in Seq(S), NEW p \in Seq(S), NEW m \in S
  PROVE  q \o Append(p, m) = Append(q \o p, m)
<1>1. Append(p, m) = p \o <<m>> /\ <<m>> \in Seq(S)
  BY AppendIsConcat
<1>2. q \o p \in Seq(S) /\ Append(q \o p, m) = (q \o p) \o <<m>>
  BY ConcatProperties, AppendIsConcat
<1> QED
  BY <1>1, <1>2, ConcatAssociative

\* The front of a sequence is the front of its first part.
LEMMA FrontFacts ==
  ASSUME NEW S, NEW q \in Seq(S), NEW p \in Seq(S), q # <<>>
  PROVE  /\ q \o p \in Seq(S) /\ q \o p # <<>>
         /\ Head(q \o p) = Head(q)
         /\ Tail(q \o p) = Tail(q) \o p
<1>1. /\ q \o p \in Seq(S) /\ Len(q \o p) = Len(q) + Len(p)
      /\ \A i \in 1..Len(q) + Len(p) :
           (q \o p)[i] = IF i <= Len(q) THEN q[i] ELSE p[i - Len(q)]
  BY ConcatProperties
<1>2. Len(q) > 0 /\ q \o p # <<>>
  BY <1>1, EmptySeq
<1>3. Head(q \o p) = Head(q)
  BY <1>1, <1>2
<1>4. /\ Tail(q) \in Seq(S) /\ Len(Tail(q)) = Len(q) - 1
      /\ \A i \in 1..Len(Tail(q)) : Tail(q)[i] = q[i + 1]
  BY HeadTailProperties
<1>5. /\ Tail(q \o p) \in Seq(S) /\ Len(Tail(q \o p)) = Len(q) + Len(p) - 1
      /\ \A i \in 1..Len(Tail(q \o p)) : Tail(q \o p)[i] = (q \o p)[i + 1]
  BY <1>1, <1>2, HeadTailProperties
<1>6. /\ Tail(q) \o p \in Seq(S) /\ Len(Tail(q) \o p) = Len(q) + Len(p) - 1
      /\ \A i \in 1..Len(q) + Len(p) - 1 :
           (Tail(q) \o p)[i] = IF i <= Len(q) - 1 THEN Tail(q)[i] ELSE p[i - (Len(q) - 1)]
  BY <1>4, ConcatProperties
<1>7. \A i \in 1..Len(q) + Len(p) - 1 : Tail(q \o p)[i] = (Tail(q) \o p)[i]
  <2> TAKE i \in 1..Len(q) + Len(p) - 1
  <2>1. Tail(q \o p)[i] = IF i + 1 <= Len(q) THEN q[i + 1] ELSE p[i + 1 - Len(q)]
    BY <1>1, <1>2, <1>5
  <2>2. (Tail(q) \o p)[i] = IF i <= Len(q) - 1 THEN q[i + 1] ELSE p[i - (Len(q) - 1)]
    BY <1>2, <1>4, <1>6
  <2>3. i + 1 - Len(q) = i - (Len(q) - 1)
    BY <1>2
  <2> QED
    BY <2>1, <2>2, <2>3
<1>8. Tail(q \o p) = Tail(q) \o p
  BY <1>5, <1>6, <1>7, SeqEqual
<1> QED
  BY <1>1, <1>2, <1>3, <1>8

\* The order of what was filled, with what makes it inductive: the stream was
\* told the type of the message it writes, and the counter did not wrap.
SendInv ==
  /\ SendFifo
  /\ wr = "busy" => ws_text = Head(m_send_queue).m_text
  /\ wr = "ok" => wire # <<>>
  /\ m_send_queue_size = Len(m_send_queue)
  /\ Len(filled) <= MaxFill

\* What is queued or posted is part of what was filled.
LEMMA SendBound ==
  ASSUME IInv, SendInv
  PROVE  /\ Unsent \in Seq(Message)
         /\ Len(m_send_queue) + Len(posts) <= MaxFill
<1>1. /\ m_send_queue \in Seq(Message) /\ posts \in Seq(Message)
      /\ wire \in Seq(Message) /\ filled \in Seq(Message)
  BY DEF IInv, Queues
<1>2. CASE wr = "ok"
  <2>1. m_send_queue # <<>> /\ wire # <<>>
    BY <1>2 DEF IInv, Control, NonEmpty, SendInv
  <2>2. Tail(m_send_queue) \in Seq(Message) /\ Len(Tail(m_send_queue)) = Len(m_send_queue) - 1
    BY <1>1, <2>1, EndFacts
  <2>3. Unsent \in Seq(Message) /\ Len(Unsent) = Len(m_send_queue) - 1 + Len(posts)
    BY <1>1, <1>2, <2>2, ConcatProperties DEF Unsent
  <2>4. Len(filled) = Len(wire) + Len(Unsent)
    BY <1>1, <2>3, ConcatProperties DEF SendInv, SendFifo
  <2>5. Len(wire) \in Nat \ {0}
    BY <1>1, <2>1, EndFacts
  <2> QED
    BY <1>1, <2>3, <2>4, <2>5, SizeAssumption DEF SendInv
<1>3. CASE wr # "ok"
  <2>1. Unsent \in Seq(Message) /\ Len(Unsent) = Len(m_send_queue) + Len(posts)
    BY <1>1, <1>3, ConcatProperties DEF Unsent
  <2>2. Len(filled) = Len(wire) + Len(Unsent)
    BY <1>1, <2>1, ConcatProperties DEF SendInv, SendFifo
  <2> QED
    BY <1>1, <2>1, <2>2, SizeAssumption DEF SendInv
<1> QED
  BY <1>2, <1>3

\* The counter of a queue that is not longer than the bound did not wrap.
LEMMA SizedExact == ASSUME NEW n \in 0..MaxFill PROVE Sized(n) = n
BY SizeAssumption DEF Sized

\* Nothing is filled in the beginning.
LEMMA InitSendInv == Init => SendInv
BY SizeAssumption, ConcatEmptySeq, EmptySeq DEF Init, SendInv, SendFifo, Unsent

\* The steps that change what SendInv is about.
LEMMA NextSendInv == IInv /\ SendInv /\ [Next]_vars => SendInv'
<1> SUFFICES ASSUME IInv, SendInv, [Next]_vars PROVE SendInv'
  OBVIOUS
<1> DEFINE sent == <<m_send_queue, m_send_queue_size, posts, ws_text, wr, filled, wire>>
<1>t. /\ m_send_queue \in Seq(Message) /\ posts \in Seq(Message)
      /\ wire \in Seq(Message) /\ filled \in Seq(Message)
  BY DEF IInv, Queues
<1>b. Unsent \in Seq(Message) /\ Len(m_send_queue) + Len(posts) <= MaxFill
  BY SendBound
<1>1. CASE UNCHANGED sent
  BY <1>1 DEF SendInv, SendFifo, Unsent
<1>2. CASE OnSendError
  <2>1. wr # "ok" /\ wr' = "idle"
    BY <1>2, ErrorFacts DEF OnSendError
  <2>2. UNCHANGED <<m_send_queue, m_send_queue_size, posts, filled, wire>>
    BY <1>2 DEF OnSendError
  <2> QED
    BY <2>1, <2>2 DEF SendInv, SendFifo, Unsent
<1>3. ASSUME NEW a \in Answers, NEW d \in 0..Len(m_recv_queue), OnSend(d, a)
      PROVE  SendInv'
  <2>1. /\ wr = "ok" /\ m_send_queue' = Tail(m_send_queue)
        /\ m_send_queue_size' = Sized(m_send_queue_size - 1)
        /\ UNCHANGED <<posts, filled, wire>>
    BY <1>3 DEF OnSend
  <2>2. \/ wr' = "idle"
        \/ wr' = "busy" /\ ws_text' = Head(m_send_queue').m_text
    BY <1>3 DEF OnSend, SendNext, Send
  <2>3. m_send_queue # <<>>
    BY <2>1 DEF IInv, Control, NonEmpty
  <2>4. Len(m_send_queue) \in Nat \ {0} /\ Len(Tail(m_send_queue)) = Len(m_send_queue) - 1
    BY <1>t, <2>3, EndFacts
  <2>5. m_send_queue_size' = Len(m_send_queue')
    <3>1. m_send_queue_size - 1 \in 0..MaxFill
      BY <1>t, <1>b, <2>4, SizeAssumption DEF SendInv
    <3> QED
      BY <2>1, <2>4, <3>1, SizedExact DEF SendInv
  <2>6. SendFifo'
    BY <2>1, <2>2 DEF SendInv, SendFifo, Unsent
  <2> QED
    BY <2>1, <2>2, <2>5, <2>6 DEF SendInv
<1>4. CASE OnPost
  <2> DEFINE queue == Append(m_send_queue, Head(posts))
  <2>1. /\ posts # <<>> /\ posts' = Tail(posts) /\ m_send_queue' = queue
        /\ m_send_queue_size' = Sized(m_send_queue_size + 1)
        /\ UNCHANGED <<filled, wire>>
    BY <1>4 DEF OnPost, Queued
  <2>2. \/ Len(queue) = 1 /\ wr' = "busy" /\ ws_text' = Head(queue).m_text
        \/ Len(queue) # 1 /\ UNCHANGED <<wr, ws_text>>
    BY <1>4 DEF OnPost, Queued, SendFirst, Send
  <2>3. Head(posts) \in Message /\ Tail(posts) \in Seq(Message) /\ Len(posts) \in Nat \ {0}
    BY <1>t, <2>1, EndFacts
  <2>4. Len(queue) = Len(m_send_queue) + 1 /\ queue \in Seq(Message)
    BY <1>t, <2>3, AppendProperties
  <2>5. m_send_queue_size' = Len(m_send_queue')
    <3>1. m_send_queue_size + 1 \in 0..MaxFill
      BY <1>t, <1>b, <2>3, SizeAssumption DEF SendInv
    <3> QED
      BY <2>1, <2>4, <3>1, SizedExact DEF SendInv
  <2>6. wr' = "busy" => ws_text' = Head(queue).m_text
    <3>1. CASE m_send_queue = <<>>
      BY <1>t, <2>2, <2>4, <3>1, EmptySeq
    <3>2. CASE m_send_queue # <<>>
      <4>1. Head(queue) = Head(m_send_queue) /\ Len(queue) # 1
        BY <1>t, <2>3, <2>4, <3>2, EndFacts, HeadTailAppend
      <4> QED
        BY <2>2, <4>1 DEF SendInv
    <3> QED
      BY <3>1, <3>2
  <2>7. wr' = "ok" => wr = "ok"
    BY <2>2
  <2>8. SendFifo'
    <3>1. queue \o Tail(posts) = m_send_queue \o posts
      BY <1>t, <2>1, MoveFront
    <3>2. CASE m_send_queue = <<>>
      <4>1. wr = "idle" /\ wr' = "busy"
        BY <1>t, <2>2, <2>4, <3>2, EmptySeq DEF IInv, Control, NonEmpty
      <4> QED
        BY <2>1, <3>1, <4>1 DEF SendInv, SendFifo, Unsent
    <3>3. CASE m_send_queue # <<>>
      <4>1. UNCHANGED wr
        BY <1>t, <2>2, <2>4, <3>3, EndFacts
      <4>2. Tail(queue) = Append(Tail(m_send_queue), Head(posts))
        BY <1>t, <2>3, <3>3, HeadTailAppend
      <4>3. Append(Tail(m_send_queue), Head(posts)) \o Tail(posts) = Tail(m_send_queue) \o posts
        BY <1>t, <2>1, <3>3, EndFacts, MoveFront
      <4> QED
        BY <2>1, <3>1, <4>1, <4>2, <4>3 DEF SendInv, SendFifo, Unsent
    <3> QED
      BY <3>2, <3>3
  <2> QED
    BY <2>1, <2>5, <2>6, <2>7, <2>8 DEF SendInv
<1>5. ASSUME NEW message \in Message, Fill(message) PROVE SendInv'
  <2>1. /\ posts' = Append(posts, message) /\ filled' = Append(filled, message)
        /\ Len(filled) < MaxFill
        /\ UNCHANGED <<m_send_queue, m_send_queue_size, ws_text, wr, wire>>
    BY <1>5 DEF Fill, Filled, stream
  <2>2. Len(filled') <= MaxFill
    BY <1>t, <2>1, AppendProperties, SizeAssumption
  <2>3. Unsent' = Append(Unsent, message)
    <3>1. CASE wr = "ok"
      <4>1. Tail(m_send_queue) \in Seq(Message)
        BY <1>t, <3>1, EndFacts DEF IInv, Control, NonEmpty
      <4>2. Tail(m_send_queue) \o Append(posts, message)
              = Append(Tail(m_send_queue) \o posts, message)
        BY <1>t, <4>1, FillBack
      <4> QED
        BY <2>1, <3>1, <4>2 DEF Unsent
    <3>2. CASE wr # "ok"
      <4>1. m_send_queue \o Append(posts, message) = Append(m_send_queue \o posts, message)
        BY <1>t, FillBack
      <4> QED
        BY <2>1, <3>2, <4>1 DEF Unsent
    <3> QED
      BY <3>1, <3>2
  <2>4. wire \o Append(Unsent, message) = Append(wire \o Unsent, message)
    BY <1>t, <1>b, FillBack
  <2> QED
    BY <2>1, <2>2, <2>3, <2>4 DEF SendInv, SendFifo
<1>6. CASE WriteOk
  <2>1. /\ wr = "busy" /\ wr' = "ok"
        /\ wire' = Append(wire, [Head(m_send_queue) EXCEPT !.m_text = ws_text])
        /\ UNCHANGED <<m_send_queue, m_send_queue_size, posts, filled>>
    BY <1>6 DEF WriteOk, session
  <2>2. m_send_queue # <<>> /\ Head(m_send_queue) \in Message
    BY <1>t, <2>1, EndFacts DEF IInv, Control, NonEmpty
  <2>3. wire' = Append(wire, Head(m_send_queue))
    BY <2>1, <2>2 DEF SendInv, Message
  <2>4. wire' # <<>>
    BY <1>t, <2>2, <2>3, AppendProperties
  <2>5. Unsent = m_send_queue \o posts /\ Unsent' = Tail(m_send_queue) \o posts
    BY <2>1 DEF Unsent
  <2>6. Unsent # <<>> /\ Head(Unsent) = Head(m_send_queue) /\ Tail(Unsent) = Unsent'
    BY <1>t, <2>2, <2>5, FrontFacts
  <2>7. wire' \o Unsent' = wire \o Unsent
    BY <1>t, <1>b, <2>3, <2>6, MoveFront
  <2> QED
    BY <2>1, <2>4, <2>7 DEF SendInv, SendFifo
<1>7. ASSUME NEW e \in WriteErrors, WriteError(e) PROVE SendInv'
  <2>1. wr = "busy" /\ wr' # "ok" /\ wr' # "busy"
    BY <1>7, ErrorFacts DEF WriteError
  <2>2. UNCHANGED <<m_send_queue, m_send_queue_size, posts, filled, wire>>
    BY <1>7 DEF WriteError, session, history
  <2> QED
    BY <2>1, <2>2 DEF SendInv, SendFifo, Unsent
<1>8. CASE OnAcceptError
  BY <1>1, <1>8 DEF OnAcceptError, history
<1>9. ASSUME NEW a \in Answers, OnAccept(a) \/ RunIdentity(a) PROVE SendInv'
  BY <1>1, <1>9 DEF OnAccept, RunIdentity, Open
<1>10. CASE OnRecvError
  BY <1>1, <1>10 DEF OnRecvError
<1>11. ASSUME NEW a \in Answers, NEW d \in 0..Len(m_recv_queue), OnRecv(d, a)
       PROVE  SendInv'
  BY <1>1, <1>11 DEF OnRecv
<1>12. CASE OnCloseDone
  BY <1>1, <1>12 DEF OnCloseDone
<1>13. ASSUME NEW message \in Message, ReadOk(message) PROVE SendInv'
  BY <1>1, <1>13 DEF ReadOk
<1>14. ASSUME NEW e \in ReadErrors, ReadError(e) PROVE SendInv'
  BY <1>1, <1>14 DEF ReadError, session, history
<1>15. CASE CloseEnds
  BY <1>1, <1>15 DEF CloseEnds, session, history
<1>16. CASE UNCHANGED vars
  BY <1>1, <1>16 DEF vars, session, stream, history
<1> QED
  BY <1>2, <1>3, <1>4, <1>5, <1>6, <1>7, <1>8, <1>9, <1>10, <1>11, <1>12, <1>13,
     <1>14, <1>15, <1>16
     DEF Next, Defined, Handlers, Stream, ReadFails, WriteFails

\* Whatever threads fill, and however posts, writes and errors interleave,
\* messages reach the wire in the order filled, once each, with their types.
THEOREM SentInOrder == Spec => []SendFifo
<1>1. Init => IInv /\ SendInv
  BY InitIInv, InitSendInv
<1>2. IInv /\ SendInv /\ [Next]_vars => IInv' /\ SendInv'
  BY NextIInv, NextSendInv
<1>3. SendInv => SendFifo
  BY DEF SendInv
<1> QED
  BY <1>1, <1>2, <1>3, PTL DEF Spec

-----------------------------------------------------------------------------
(***************************************************************************)
(* One operation of a kind.                                                *)
(***************************************************************************)

\* A close is outstanding only after the service asked for it.
CloseInv == clash = {} /\ (cl # "idle" => asked)

\* An answer the service may give starts no second close.
LEMMA NoSecondClose ==
  ASSUME CloseOnce, IInv, CloseInv, NEW a \in Answers, May(a)
  PROVE  /\ Closes(a) # 2
         /\ Closes(a) = 1 => cl = "idle"
BY DEF May, Closes, Answers, CloseInv

\* No step starts a second close.
LEMMA NextCloseInv ==
  ASSUME CloseOnce
  PROVE  IInv /\ CloseInv /\ [Next]_vars => CloseInv'
<1> SUFFICES ASSUME IInv, CloseInv, [Next]_vars PROVE CloseInv'
  OBVIOUS
<1>1. ASSUME NEW a \in Answers, May(a), Eof(a), NEW read \in BOOLEAN, ~read,
             Clash(read, FALSE, a)
      PROVE  CloseInv'
  <2>1. Closes(a) # 2 /\ (Closes(a) = 1 => cl = "idle")
    BY <1>1, NoSecondClose
  <2>2. clash' = {}
    BY <1>1, <2>1 DEF Clash, CloseInv
  <2>3. cl' # "idle" => asked'
    <3>1. CASE Closes(a) = 0
      BY <1>1, <3>1 DEF Eof, CloseInv
    <3>2. CASE Closes(a) # 0
      <4>1. Closes(a) > 0
        BY <3>2, AnswerFacts
      <4> QED
        BY <1>1, <4>1 DEF Eof
    <3> QED
      BY <3>1, <3>2
  <2> QED
    BY <2>2, <2>3 DEF CloseInv
<1>2. ASSUME NEW a \in Answers, May(a), OnAccept(a) \/ RunIdentity(a) PROVE CloseInv'
  <2>1. Eof(a) /\ Clash(Keeps(a) /\ rd # "idle", FALSE, a) /\ rd = "idle"
    BY <1>2 DEF IInv, Control, NotBefore, OnAccept, RunIdentity, Open
  <2>2. (Keeps(a) /\ rd # "idle") \in BOOLEAN /\ ~(Keeps(a) /\ rd # "idle")
    BY <2>1
  <2> QED
    BY <1>1, <1>2, <2>1, <2>2
<1>3. ASSUME NEW a \in Answers, May(a), NEW d \in 0..Len(m_recv_queue),
             OnRecv(d, a) \/ OnSend(d, a)
      PROVE  CloseInv'
  <2>1. Eof(a) /\ Clash(FALSE, FALSE, a)
    BY <1>3 DEF OnRecv, OnSend
  <2> QED
    BY <1>1, <1>3, <2>1
<1>4. CASE OnPost
  <2> DEFINE queue == Append(m_send_queue, Head(posts))
  <2>1. /\ Clash(FALSE, Len(queue) = 1 /\ wr # "idle", "keep")
        /\ UNCHANGED <<cl, asked>> /\ posts # <<>>
    BY <1>4 DEF OnPost, Queued, SendFirst
  <2>2. m_send_queue \in Seq(Message) /\ Head(posts) \in Message
    BY <2>1, EndFacts DEF IInv, Queues
  <2>3. Len(queue) = Len(m_send_queue) + 1
    BY <2>2, AppendProperties
  <2>4. m_send_queue # <<>> => Len(m_send_queue) \in Nat \ {0}
    BY <2>2, EndFacts
  <2>5. Len(queue) = 1 => wr = "idle"
    BY <2>3, <2>4 DEF IInv, Control, NonEmpty
  <2>6. Closes("keep") = 0
    BY DEF Closes
  <2> QED
    BY <2>1, <2>5, <2>6 DEF Clash, CloseInv
<1>5. CASE OnCloseDone
  BY <1>5 DEF OnCloseDone, CloseInv
<1>6. CASE CloseEnds
  BY <1>6 DEF CloseEnds, CloseInv, session, history
<1>7. CASE UNCHANGED <<clash, cl, asked>>
  BY <1>7 DEF CloseInv
<1>8. CASE OnAcceptError \/ OnRecvError \/ OnSendError
  BY <1>7, <1>8 DEF OnAcceptError, OnRecvError, OnSendError, history
<1>9. ASSUME NEW message \in Message, Fill(message) \/ ReadOk(message) PROVE CloseInv'
  BY <1>7, <1>9 DEF Fill, ReadOk, stream
<1>10. CASE ReadFails \/ WriteOk \/ WriteFails
  BY <1>7, <1>10 DEF ReadFails, ReadError, WriteOk, WriteFails, WriteError, history
<1>11. CASE UNCHANGED vars
  BY <1>7, <1>11 DEF vars, stream, history
<1> QED
  BY <1>2, <1>3, <1>4, <1>5, <1>6, <1>8, <1>9, <1>10, <1>11
     DEF Next, Defined, Handlers, Stream

\* With a service that asks once for the close, no interleaving of the
\* handlers starts a second read, write or close on the stream.
THEOREM OneOperation == ASSUME CloseOnce PROVE Spec => []OneOfEachKind
<1>1. Init => IInv /\ CloseInv
  BY InitIInv DEF Init, CloseInv
<1>2. IInv /\ CloseInv /\ [Next]_vars => IInv' /\ CloseInv'
  BY NextIInv, NextCloseInv
<1>3. CloseInv => OneOfEachKind
  BY DEF CloseInv, OneOfEachKind
<1> QED
  BY <1>1, <1>2, <1>3, PTL DEF Spec

-----------------------------------------------------------------------------
(***************************************************************************)
(* Order of the messages received.                                         *)
(***************************************************************************)

\* The node being read into is behind those that are counted; it stays there
\* after a read that failed.
RecvInv ==
  /\ ~dangling
  /\ rd # "idle" => Len(m_recv_queue) = m_recv_queue_size + 1
  /\ rd = "idle" => \/ Len(m_recv_queue) = m_recv_queue_size
                    \/ closes > 0 /\ Len(m_recv_queue) = m_recv_queue_size + 1
  /\ RecvFifo
  /\ Len(arrived) <= MaxArrive

\* What the service took and what is counted, as two parts of the arrived.
Counted == SubSeq(m_recv_queue, 1, m_recv_queue_size)

\* A whole message is a node.
LEMMA MessageIsNode == Message \subseteq BufferNode
BY DEF Message, BufferNode

\* Facts every step below starts from.
LEMMA RecvShape ==
  ASSUME IInv, RecvInv
  PROVE  /\ m_recv_queue \in Seq(BufferNode) /\ taken \in Seq(BufferNode)
         /\ arrived \in Seq(Message) /\ arrived \in Seq(BufferNode)
         /\ m_recv_queue_size \in 0..Len(m_recv_queue)
         /\ Counted \in Seq(BufferNode) /\ Len(Counted) = m_recv_queue_size
         /\ Uncounted \in Seq(BufferNode)
         /\ arrived = taken \o (Counted \o Uncounted)
         /\ Len(taken) + m_recv_queue_size + Len(Uncounted) <= MaxArrive
<1>1. /\ m_recv_queue \in Seq(BufferNode) /\ taken \in Seq(BufferNode)
      /\ arrived \in Seq(Message) /\ m_recv_queue_size \in Nat
  BY SizeAssumption DEF IInv, Queues
<1>2. m_recv_queue_size \in 0..Len(m_recv_queue)
  BY <1>1 DEF RecvInv
<1>3. Counted \in Seq(BufferNode) /\ Len(Counted) = m_recv_queue_size
  BY <1>1, <1>2, SubSeqFacts DEF Counted
<1>4. Uncounted \in Seq(BufferNode)
  <2>1. CASE rd = "ok"
    <3>1. arrived # <<>> /\ m_recv_queue # <<>>
      BY <2>1 DEF IInv, Control, NonEmpty, RecvInv
    <3>2. arrived[Len(arrived)] \in Message /\ m_recv_queue[Len(m_recv_queue)] \in BufferNode
      BY <1>1, <3>1, EndFacts
    <3>3. [m_text   |-> arrived[Len(arrived)].m_text,
           m_buffer |-> m_recv_queue[Len(m_recv_queue)].m_buffer] \in BufferNode
      BY <3>2 DEF Message, BufferNode
    <3> QED
      BY <2>1, <3>3 DEF Uncounted
  <2>2. CASE rd # "ok"
    BY <2>2 DEF Uncounted
  <2> QED
    BY <2>1, <2>2
<1>5. arrived = taken \o (Counted \o Uncounted)
  <2>1. arrived = (taken \o Counted) \o Uncounted
    BY DEF RecvInv, RecvFifo, Counted
  <2> QED
    BY <1>1, <1>3, <1>4, <2>1, ConcatAssociative, SMTT(20)
<1>6. arrived \in Seq(BufferNode)
  BY <1>1, MessageIsNode, SeqMonotonic
<1>7. /\ Len(Counted \o Uncounted) = m_recv_queue_size + Len(Uncounted)
      /\ Counted \o Uncounted \in Seq(BufferNode)
  BY <1>3, <1>4, ConcatProperties
<1>8. Len(arrived) = Len(taken) + (m_recv_queue_size + Len(Uncounted))
  <2>1. Len(taken \o (Counted \o Uncounted)) = Len(taken) + Len(Counted \o Uncounted)
    BY <1>1, <1>7, ConcatProperties
  <2> QED
    BY <1>5, <1>7, <2>1
<1> QED
  BY <1>1, <1>2, <1>3, <1>4, <1>5, <1>6, <1>8 DEF RecvInv

\* A queue is its first part and its rest.
LEMMA SplitFacts ==
  ASSUME NEW S, NEW q \in Seq(S), NEW d \in 0..Len(q), NEW n \in d..Len(q)
  PROVE  SubSeq(q, 1, d) \o SubSeq(q, d + 1, n) = SubSeq(q, 1, n)
BY ConcatAdjacentSubSeq

\* The first part of what is left after d nodes were dropped.
LEMMA RestFacts ==
  ASSUME NEW S, NEW q \in Seq(S), NEW d \in 0..Len(q), NEW n \in d..Len(q)
  PROVE  SubSeq(SubSeq(q, d + 1, Len(q)), 1, n - d) = SubSeq(q, d + 1, n)
<1>1. CASE n = d
  BY <1>1, SubSeqEmpty
<1>2. CASE n > d
  BY <1>2, SubSeqOfSubSeq
<1> QED
  BY <1>1, <1>2

\* A part of a queue does not see what is appended.
LEMMA AppendPart ==
  ASSUME NEW S, NEW q \in Seq(S), NEW e \in S
  PROVE  SubSeq(Append(q, e), 1, Len(q)) = q
<1>1. CASE q = <<>>
  BY <1>1, SubSeqEmpty, EmptySeq
<1>2. CASE q # <<>>
  <2>1. Append(q, e) = q \o <<e>> /\ <<e>> \in Seq(S) /\ Len(q) \in Nat \ {0}
    BY <1>2, AppendIsConcat, EndFacts
  <2>2. SubSeq(q \o <<e>>, 1, Len(q)) = SubSeq(q, 1, Len(q))
    BY <2>1, SubSeqOfConcat1
  <2> QED
    BY <2>1, <2>2, SubSeqFull
<1> QED
  BY <1>1, <1>2

\* With a typed back, the queue is what is counted and what is not.
LEMMA TypedShape ==
  ASSUME IInv, RecvInv, rd = "ok"
  PROVE  /\ TypedBack(m_recv_queue) \in Seq(BufferNode)
         /\ Len(TypedBack(m_recv_queue)) = Len(m_recv_queue)
         /\ TypedBack(m_recv_queue) = Counted \o Uncounted
<1> DEFINE last  == Len(m_recv_queue)
           queue == TypedBack(m_recv_queue)
           node  == [m_text |-> arrived[Len(arrived)].m_text,
                     m_buffer |-> m_recv_queue[last].m_buffer]
<1>1. arrived # <<>> /\ m_recv_queue # <<>> /\ last = m_recv_queue_size + 1
  BY DEF IInv, Control, NonEmpty, RecvInv
<1>2. /\ m_recv_queue \in Seq(BufferNode) /\ arrived \in Seq(Message)
      /\ Counted \in Seq(BufferNode) /\ Len(Counted) = m_recv_queue_size
      /\ m_recv_queue_size \in Nat
  BY RecvShape
<1>3. queue \in Seq(BufferNode) /\ Len(queue) = last
  BY <1>1, <1>2, TypedBackFacts
<1>4. arrived[Len(arrived)] \in Message /\ m_recv_queue[last] \in BufferNode
  BY <1>1, <1>2, EndFacts
<1>5. node \in BufferNode /\ [m_recv_queue[last] EXCEPT !.m_text = arrived[Len(arrived)].m_text] = node
  BY <1>4 DEF Message, BufferNode
<1>6. queue = [m_recv_queue EXCEPT ![last] = node]
  BY <1>5 DEF TypedBack
<1>7. Uncounted = <<node>>
  BY DEF Uncounted
<1> HIDE DEF node, queue
<1>8. \A i \in 1..last : queue[i] = IF i = last THEN node ELSE m_recv_queue[i]
  BY <1>2, <1>6
<1>9. /\ Counted \o <<node>> \in Seq(BufferNode)
      /\ Len(Counted \o <<node>>) = last
      /\ \A i \in 1..last : (Counted \o <<node>>)[i]
            = IF i <= m_recv_queue_size THEN Counted[i] ELSE <<node>>[i - m_recv_queue_size]
  <2>1. <<node>> \in Seq(BufferNode) /\ Len(<<node>>) = 1
    BY <1>5
  <2> QED
    BY <1>1, <1>2, <2>1, ConcatProperties
<1>10. \A i \in 1..m_recv_queue_size : Counted[i] = m_recv_queue[i]
  BY <1>1, <1>2 DEF Counted
<1>11. \A i \in 1..last : queue[i] = (Counted \o <<node>>)[i]
  <2> TAKE i \in 1..last
  <2>1. CASE i = last
    BY <1>1, <1>2, <1>8, <1>9, <2>1
  <2>2. CASE i # last
    <3>1. i \in 1..m_recv_queue_size
      BY <1>1, <1>2, <2>2
    <3> QED
      BY <1>8, <1>9, <1>10, <2>2, <3>1
  <2> QED
    BY <2>1, <2>2
<1>12. queue = Counted \o <<node>>
  BY <1>3, <1>9, <1>11, SeqEqual
<1> QED
  BY <1>3, <1>7, <1>12 DEF queue

\* on_recv: what is taken and what is left are what had arrived.
LEMMA OnRecvOrder ==
  ASSUME IInv, RecvInv, NEW a \in Answers, NEW d \in 0..Len(m_recv_queue), OnRecv(d, a)
  PROVE  RecvInv'
<1> DEFINE typed == TypedBack(m_recv_queue)
           last  == Len(m_recv_queue)
           rest  == SubSeq(typed, d + 1, last)
<1>1. /\ rd = "ok" /\ m_recv_queue_size' = Sized((m_recv_queue_size + 1) - d)
      /\ taken' = taken \o SubSeq(typed, 1, d)
      /\ UNCHANGED <<arrived, closes, dangling>>
  <2>1. rd = "ok" /\ UNCHANGED <<arrived, closes, dangling>>
    BY DEF OnRecv
  <2>2. Drop(typed, m_recv_queue_size + 1, d)
    BY DEF OnRecv
  <2> QED
    BY <2>1, <2>2 DEF Drop
<1>2. \/ rd' = "idle" /\ m_recv_queue' = rest
      \/ rd' = "busy" /\ m_recv_queue' = Append(rest, [m_text |-> TRUE, m_buffer |-> Empty])
  BY DEF OnRecv, Recv
<1>3. typed \in Seq(BufferNode) /\ Len(typed) = last /\ typed = Counted \o Uncounted
  BY <1>1, TypedShape
<1>4. /\ m_recv_queue_size \in Nat /\ last = m_recv_queue_size + 1
      /\ taken \in Seq(BufferNode) /\ arrived = taken \o typed
      /\ last <= MaxArrive
  <2>1. Len(Uncounted) = 1
    BY <1>1 DEF Uncounted
  <2>2. last = m_recv_queue_size + 1
    BY <1>1 DEF RecvInv
  <2>3. /\ taken \in Seq(BufferNode) /\ m_recv_queue_size \in 0..last
        /\ arrived = taken \o (Counted \o Uncounted) /\ MaxArrive \in Nat
        /\ Len(taken) + m_recv_queue_size + Len(Uncounted) <= MaxArrive
    BY RecvShape, SizeAssumption
  <2> QED
    BY <1>3, <2>1, <2>2, <2>3
<1> HIDE DEF typed, last
<1>5. /\ rest \in Seq(BufferNode) /\ SubSeq(typed, 1, d) \in Seq(BufferNode)
      /\ Len(rest) = last - d
  BY <1>3, SubSeqFacts DEF last
<1>6. SubSeq(typed, 1, d) \o rest = typed
  <2>1. d \in 0..Len(typed) /\ Len(typed) \in d..Len(typed)
    BY <1>3 DEF last
  <2>2. SubSeq(typed, 1, d) \o SubSeq(typed, d + 1, Len(typed)) = SubSeq(typed, 1, Len(typed))
    BY <1>3, <2>1, SplitFacts
  <2> QED
    BY <1>3, <2>2, SubSeqFull
<1> HIDE DEF rest
<1>7. m_recv_queue_size' = Len(rest)
  <2>1. (m_recv_queue_size + 1) - d \in 0..MaxArrive
    BY <1>4, SizeAssumption DEF last
  <2>2. Sized((m_recv_queue_size + 1) - d) = (m_recv_queue_size + 1) - d
    BY <2>1, SizeAssumption DEF Sized
  <2> QED
    BY <1>1, <1>4, <1>5, <2>2
<1>8. /\ SubSeq(m_recv_queue', 1, m_recv_queue_size') = rest
      /\ Len(m_recv_queue') = IF rd' = "idle" THEN m_recv_queue_size' ELSE m_recv_queue_size' + 1
  <2>1. CASE rd' = "idle"
    BY <1>2, <1>5, <1>7, <2>1, SubSeqFull
  <2>2. CASE rd' # "idle"
    BY <1>2, <1>5, <1>7, <2>2, NodeFacts, AppendPart, AppendProperties, SMTT(20)
  <2> QED
    BY <2>1, <2>2
<1>9. RecvFifo'
  <2>1. Uncounted' = <<>>
    BY <1>2 DEF Uncounted
  <2>2. arrived = taken' \o rest
    <3> DEFINE front == SubSeq(typed, 1, d)
    <3>1. front \in Seq(BufferNode) /\ front \o rest = typed /\ taken' = taken \o front
      BY <1>1, <1>5, <1>6
    <3> HIDE DEF front
    <3>2. (taken \o front) \o rest = taken \o (front \o rest)
      <4>1. taken \in Seq(BufferNode) /\ front \in Seq(BufferNode) /\ rest \in Seq(BufferNode)
        BY <1>4, <1>5, <3>1
      <4> QED
        BY <4>1, ConcatAssociative, SMTT(30)
    <3> QED
      BY <1>4, <3>1, <3>2
  <2>3. taken' \in Seq(BufferNode)
    BY <1>1, <1>4, <1>5, ConcatProperties
  <2>4. taken' \o rest \in Seq(BufferNode)
    BY <1>5, <2>3, ConcatProperties
  <2>5. (taken' \o rest) \o <<>> = taken' \o rest
    BY <2>4, ConcatEmptySeq
  <2> QED
    BY <1>1, <1>8, <2>1, <2>2, <2>5 DEF RecvFifo
<1> QED
  BY <1>1, <1>2, <1>8, <1>9 DEF RecvInv

\* Three runs of nodes, one behind the other.
LEMMA NodesAssociative ==
  ASSUME NEW s \in Seq(BufferNode), NEW t \in Seq(BufferNode), NEW u \in Seq(BufferNode)
  PROVE  (s \o t) \o u = s \o (t \o u)
<1> DEFINE S == BufferNode
<1>1. s \in Seq(S) /\ t \in Seq(S) /\ u \in Seq(S)
  OBVIOUS
<1> HIDE DEF S
<1> QED
  BY <1>1, ConcatAssociative

\* on_send: a service that drops what is counted never takes the node that is
\* being read into.
LEMMA OnSendOrder ==
  ASSUME ~DropByHasData, IInv, RecvInv,
         NEW a \in Answers, NEW d \in 0..Len(m_recv_queue), OnSend(d, a)
  PROVE  RecvInv'
<1> DEFINE last == Len(m_recv_queue)
           left == SubSeq(m_recv_queue, d + 1, last)
           head == SubSeq(m_recv_queue, 1, d)
           more == SubSeq(m_recv_queue, d + 1, m_recv_queue_size)
<1>1. /\ m_recv_queue' = left /\ m_recv_queue_size' = Sized(m_recv_queue_size - d)
      /\ taken' = taken \o head
      /\ dangling' = (rd # "idle" /\ d > 0 /\ d = last)
      /\ UNCHANGED <<rd, arrived, closes>>
  BY DEF OnSend, Drop
<1>2. /\ m_recv_queue \in Seq(BufferNode) /\ taken \in Seq(BufferNode)
      /\ m_recv_queue_size \in 0..last /\ Uncounted \in Seq(BufferNode)
      /\ arrived = taken \o (Counted \o Uncounted)
      /\ m_recv_queue_size <= MaxArrive
  <2>1. /\ m_recv_queue \in Seq(BufferNode) /\ taken \in Seq(BufferNode)
        /\ m_recv_queue_size \in 0..last /\ Uncounted \in Seq(BufferNode)
        /\ arrived = taken \o (Counted \o Uncounted)
        /\ Len(taken) + m_recv_queue_size + Len(Uncounted) <= MaxArrive
    BY RecvShape
  <2>2. Len(taken) \in Nat /\ Len(Uncounted) \in Nat
    BY <2>1
  <2> QED
    BY <2>1, <2>2, SizeAssumption
<1>3. d \in 0..m_recv_queue_size /\ m_recv_queue_size - d \in 0..MaxArrive
  <2>1. d <= m_recv_queue_size
    BY DEF OnSend, Droppable
  <2> QED
    BY <1>2, <2>1, SizeAssumption
<1>4. m_recv_queue_size' = m_recv_queue_size - d
  <2>1. Sized(m_recv_queue_size - d) = m_recv_queue_size - d
    BY <1>3, SizeAssumption DEF Sized
  <2> QED
    BY <1>1, <2>1
<1>5. /\ left \in Seq(BufferNode) /\ Len(left) = last - d /\ head \in Seq(BufferNode)
      /\ last \in Nat
  BY <1>2, SubSeqFacts
<1>6. ~dangling'
  <2>1. rd # "idle" => d # last
    BY <1>2, <1>3 DEF RecvInv
  <2> QED
    BY <1>1, <2>1
<1>7. SubSeq(left, 1, m_recv_queue_size - d) = more /\ head \o more = Counted
  BY <1>2, <1>3, RestFacts, SplitFacts DEF Counted
<1>8. Uncounted' = Uncounted
  <2>1. CASE rd = "ok"
    <3>1. last = m_recv_queue_size + 1
      BY <2>1 DEF RecvInv
    <3>2. left[Len(left)] = m_recv_queue[last]
      BY <1>2, <1>3, <1>5, <3>1
    <3> QED
      BY <1>1, <2>1, <3>2 DEF Uncounted
  <2>2. CASE rd # "ok"
    BY <1>1, <2>2 DEF Uncounted
  <2> QED
    BY <2>1, <2>2
<1>9. RecvFifo'
  <2>1. more \in Seq(BufferNode)
    <3>1. SubSeq(left, 1, m_recv_queue_size - d) \in Seq(BufferNode)
      BY <1>2, <1>3, <1>5, SubSeqFacts
    <3> QED
      BY <1>7, <3>1
  <2>2. taken' \o more = taken \o Counted
    <3>a. taken \in Seq(BufferNode) /\ head \in Seq(BufferNode)
      BY <1>2, <1>5
    <3> HIDE DEF head, more
    <3>1. (taken \o head) \o more = taken \o (head \o more)
      BY <2>1, <3>a, NodesAssociative
    <3> QED
      BY <1>1, <1>7, <3>1
  <2>3. arrived = (taken \o Counted) \o Uncounted
    BY DEF RecvInv, RecvFifo, Counted
  <2>4. SubSeq(m_recv_queue', 1, m_recv_queue_size') = more
    BY <1>1, <1>4, <1>7
  <2> HIDE DEF more
  <2> QED
    BY <1>1, <1>8, <2>2, <2>3, <2>4 DEF RecvFifo
<1> QED
  BY <1>1, <1>2, <1>3, <1>4, <1>5, <1>6, <1>9 DEF RecvInv

\* The message that is read joins what had arrived.
LEMMA ReadOkOrder ==
  ASSUME IInv, RecvInv, NEW message \in Message, ReadOk(message)
  PROVE  RecvInv'
<1> DEFINE last == Len(m_recv_queue)
<1>1. /\ rd = "busy" /\ rd' = "ok" /\ Len(arrived) < MaxArrive
      /\ arrived' = Append(arrived, message)
      /\ m_recv_queue' = [m_recv_queue EXCEPT ![last].m_buffer = message.m_buffer]
      /\ UNCHANGED <<m_recv_queue_size, taken, closes, dangling>>
  BY DEF ReadOk
<1>2. /\ m_recv_queue \in Seq(BufferNode) /\ arrived \in Seq(Message)
      /\ m_recv_queue_size \in Nat /\ last = m_recv_queue_size + 1
      /\ taken \in Seq(BufferNode) /\ Counted \in Seq(BufferNode)
  BY <1>1, RecvShape DEF RecvInv
<1>3. /\ Len(m_recv_queue') = last
      /\ \A i \in 1..m_recv_queue_size : m_recv_queue'[i] = m_recv_queue[i]
      /\ m_recv_queue'[last].m_buffer = message.m_buffer
  <2>1. m_recv_queue[last] \in BufferNode
    BY <1>2
  <2> QED
    BY <1>1, <1>2, <2>1 DEF BufferNode
<1>4. m_recv_queue' \in Seq(BufferNode)
  <2>1. m_recv_queue # <<>>
    BY <1>1 DEF IInv, Control, NonEmpty, RecvInv
  <2> QED
    BY <1>2, <2>1, ReadFacts
<1>5. Counted' = Counted
  <2>1. /\ Counted' \in Seq(BufferNode) /\ Len(Counted') = m_recv_queue_size
        /\ \A i \in 1..m_recv_queue_size : Counted'[i] = m_recv_queue'[i]
    BY <1>1, <1>2, <1>3, <1>4, SubSeqProperties DEF Counted
  <2>2. /\ Len(Counted) = m_recv_queue_size
        /\ \A i \in 1..m_recv_queue_size : Counted[i] = m_recv_queue[i]
    BY <1>2, SubSeqProperties DEF Counted
  <2> QED
    BY <1>2, <1>3, <2>1, <2>2, SeqEqual
<1>6. Uncounted' = <<message>> /\ Uncounted = <<>>
  <2>1. arrived'[Len(arrived')] = message
    BY <1>1, <1>2, AppendProperties
  <2>2. [m_text |-> message.m_text, m_buffer |-> message.m_buffer] = message
    BY DEF Message
  <2> QED
    BY <1>1, <1>2, <1>3, <2>1, <2>2 DEF Uncounted
<1>7. arrived = taken \o Counted
  <2>1. arrived = (taken \o Counted) \o <<>>
    BY <1>6 DEF RecvInv, RecvFifo, Counted
  <2>2. taken \o Counted \in Seq(BufferNode)
    BY <1>2, ConcatProperties
  <2> QED
    BY <2>1, <2>2, ConcatEmptySeq
<1>8. arrived' = (taken' \o Counted') \o Uncounted'
  BY <1>1, <1>2, <1>5, <1>6, <1>7, AppendIsConcat
<1>9. RecvFifo'
  BY <1>8 DEF RecvFifo, Counted
<1>10. Len(arrived') <= MaxArrive
  BY <1>1, <1>2, SizeAssumption, AppendProperties
<1> QED
  BY <1>1, <1>2, <1>3, <1>9, <1>10 DEF RecvInv

\* A read that fails, before and after its handler.
LEMMA ReadFailsOrder ==
  ASSUME IInv, RecvInv, OnRecvError \/ ReadFails
  PROVE  RecvInv'
<1>1. UNCHANGED <<m_recv_queue, m_recv_queue_size, taken, arrived, dangling>>
  BY DEF OnRecvError, ReadFails, ReadError, session, history
<1>2. rd # "ok" /\ rd # "idle" /\ rd' # "ok"
  BY ErrorFacts DEF OnRecvError, ReadFails, ReadError
<1>3. rd' = "idle" => closes' > 0
  <2>1. OnRecvError => closes' > 0
    BY DEF OnRecvError, OnClose, IInv, Tokens, Control, ClosedOnce
  <2>2. ReadFails => rd' # "idle"
    BY ErrorFacts DEF ReadFails, ReadError
  <2> QED
    BY <2>1, <2>2
<1>4. UNCHANGED Uncounted
  BY <1>2 DEF Uncounted
<1> QED
  BY <1>1, <1>2, <1>3, <1>4 DEF RecvInv, RecvFifo

\* Every step keeps the receive queue and the messages taken in step.
LEMMA NextRecvInv ==
  ASSUME ~DropByHasData
  PROVE  IInv /\ RecvInv /\ [Next]_vars => RecvInv'
<1> SUFFICES ASSUME IInv, RecvInv, [Next]_vars PROVE RecvInv'
  OBVIOUS
<1> DEFINE received == <<m_recv_queue, m_recv_queue_size, taken, arrived, rd, dangling>>
<1>1. CASE UNCHANGED received /\ (closes > 0 => closes' > 0)
  BY <1>1 DEF RecvInv, RecvFifo, Uncounted
<1>2. ASSUME NEW a \in Answers, OnAccept(a) \/ RunIdentity(a) PROVE RecvInv'
  <2>1. /\ rd = "idle" /\ closes = 0
        /\ UNCHANGED <<m_recv_queue_size, taken, arrived, dangling>>
    BY <1>2 DEF IInv, Control, NotBefore, ClosedOnce, OnAccept, RunIdentity, Open
  <2>2. /\ m_recv_queue \in Seq(BufferNode) /\ Len(m_recv_queue) = m_recv_queue_size
    BY <2>1 DEF RecvInv, IInv, Queues
  <2>3. CASE ~Keeps(a)
    BY <1>1, <1>2, <2>3 DEF OnAccept, RunIdentity, Open
  <2>4. CASE Keeps(a)
    <3>1. /\ rd' = "busy"
          /\ m_recv_queue' = Append(m_recv_queue, [m_text |-> TRUE, m_buffer |-> Empty])
      BY <1>2, <2>4 DEF OnAccept, RunIdentity, Open, Recv
    <3>2. Len(m_recv_queue') = m_recv_queue_size' + 1
      BY <2>1, <2>2, <3>1, NodeFacts, AppendProperties
    <3>3. SubSeq(m_recv_queue', 1, m_recv_queue_size') = m_recv_queue
      BY <2>1, <2>2, <3>1, NodeFacts, AppendPart
    <3>4. SubSeq(m_recv_queue, 1, m_recv_queue_size) = m_recv_queue
      BY <2>2, SubSeqFull
    <3>5. Uncounted' = Uncounted
      BY <2>1, <3>1 DEF Uncounted
    <3>6. RecvFifo'
      BY <2>1, <3>3, <3>4, <3>5 DEF RecvInv, RecvFifo
    <3> QED
      BY <2>1, <3>1, <3>2, <3>6 DEF RecvInv
  <2> QED
    BY <2>3, <2>4
<1>3. ASSUME NEW a \in Answers, NEW d \in 0..Len(m_recv_queue), OnRecv(d, a) PROVE RecvInv'
  BY <1>3, OnRecvOrder
<1>4. ASSUME NEW a \in Answers, NEW d \in 0..Len(m_recv_queue), OnSend(d, a) PROVE RecvInv'
  BY <1>4, OnSendOrder
<1>5. ASSUME NEW message \in Message, ReadOk(message) PROVE RecvInv'
  BY <1>5, ReadOkOrder
<1>6. CASE OnRecvError \/ ReadFails
  BY <1>6, ReadFailsOrder
<1>7. CASE OnSendError \/ OnCloseDone
  <2>1. closes > 0 => closes' > 0
    BY <1>7 DEF OnSendError, OnCloseDone, OnClose, IInv, Tokens
  <2> QED
    BY <1>1, <1>7, <2>1 DEF OnSendError, OnCloseDone
<1>8. CASE OnAcceptError \/ OnPost
  BY <1>1, <1>8 DEF OnAcceptError, OnPost, history
<1>9. ASSUME NEW message \in Message, Fill(message) PROVE RecvInv'
  BY <1>1, <1>9 DEF Fill, stream
<1>10. CASE WriteOk \/ WriteFails \/ CloseEnds
  BY <1>1, <1>10 DEF WriteOk, WriteFails, WriteError, CloseEnds, session, history
<1>11. CASE UNCHANGED vars
  BY <1>1, <1>11 DEF vars, session, stream, history
<1> QED
  BY <1>2, <1>3, <1>4, <1>5, <1>6, <1>7, <1>8, <1>9, <1>10, <1>11
     DEF Next, Defined, Handlers, Stream, ReadFails

\* Nothing arrived in the beginning.
LEMMA InitRecvInv == Init => RecvInv
<1> SUFFICES ASSUME Init PROVE RecvInv
  OBVIOUS
<1>1. SubSeq(m_recv_queue, 1, m_recv_queue_size) = <<>>
  BY SubSeqEmpty DEF Init
<1>2. Uncounted = <<>>
  BY DEF Init, Uncounted
<1>3. RecvFifo
  BY <1>1, <1>2, EmptySeq, ConcatEmptySeq DEF Init, RecvFifo
<1> QED
  BY <1>3, SizeAssumption, EmptySeq DEF Init, RecvInv

\* What on_recv and on_send rest on together.
LEMMA InductiveAll ==
  ASSUME ~DropByHasData PROVE Spec => [](IInv /\ SendInv /\ RecvInv)
<1>1. Init => IInv /\ SendInv /\ RecvInv
  BY InitIInv, InitSendInv, InitRecvInv
<1>2. IInv /\ SendInv /\ RecvInv /\ [Next]_vars => (IInv /\ SendInv /\ RecvInv)'
  BY NextIInv, NextSendInv, NextRecvInv
<1> QED
  BY <1>1, <1>2, PTL DEF Spec

\* The service gets every message that was read off the wire, in order, once
\* and with its type, if it drops what recv_queue_size() counts.
THEOREM ReceivedInOrder == ASSUME ~DropByHasData PROVE Spec => []RecvFifo
<1>1. RecvInv => RecvFifo
  BY DEF RecvInv
<1> QED
  BY <1>1, InductiveAll, PTL

\* For such a service the two atomic counters agree with the queues.
THEOREM CountersAgree == ASSUME ~DropByHasData PROVE Spec => []QueueSizes
<1>1. ASSUME IInv, SendInv, RecvInv PROVE QueueSizes
  <2>1. m_recv_queue_size \in Nat /\ Len(m_recv_queue) \in Nat /\ closes \in Nat
    BY <1>1, SizeAssumption DEF IInv, Queues, Tokens
  <2> QED
    BY <1>1, <2>1 DEF SendInv, RecvInv, QueueSizes
<1> QED
  BY <1>1, InductiveAll, PTL

\* For such a service no buffer of an outstanding operation is destroyed, and
\* the BOOST_ASSERTs of the session hold.
THEOREM BuffersStayAlive == ASSUME ~DropByHasData PROVE Spec => []BuffersAlive
<1>1. IInv /\ RecvInv => BuffersAlive
  BY DEF IInv, Control, NonEmpty, RecvInv, BuffersAlive
<1> QED
  BY <1>1, InductiveAll, PTL

-----------------------------------------------------------------------------
(***************************************************************************)
(* The session implements the connection.                                  *)
(***************************************************************************)

\* The service took a prefix of what arrived.
LEMMA TakenPrefix ==
  IInv /\ RecvInv => /\ Len(taken) \in 0..Len(arrived)
                     /\ taken = SubSeq(arrived, 1, Len(taken))
<1> SUFFICES ASSUME IInv, RecvInv
             PROVE  Len(taken) \in 0..Len(arrived) /\ taken = SubSeq(arrived, 1, Len(taken))
  OBVIOUS
<1> DEFINE more == Counted \o Uncounted
<1>1. taken \in Seq(BufferNode) /\ more \in Seq(BufferNode) /\ arrived = taken \o more
  BY RecvShape, ConcatProperties
<1> HIDE DEF more
<1>2. Len(arrived) = Len(taken) + Len(more) /\ Len(more) \in Nat /\ Len(taken) \in Nat
  BY <1>1, ConcatProperties
<1>3. CASE taken = <<>>
  BY <1>2, <1>3, EmptySeq, SubSeqEmpty
<1>4. CASE taken # <<>>
  <2>1. Len(taken) \in Nat \ {0}
    BY <1>1, <1>4, EndFacts
  <2>2. SubSeq(taken \o more, 1, Len(taken)) = SubSeq(taken, 1, Len(taken))
    BY <1>1, <2>1, SubSeqOfConcat1
  <2> QED
    BY <1>1, <1>2, <2>2, SubSeqFull
<1> QED
  BY <1>3, <1>4

\* A callback that drops takes the next messages, or none.
LEMMA TakeStep ==
  ASSUME IInv, RecvInv, IInv', RecvInv',
         NEW a \in Answers, NEW d \in 0..Len(m_recv_queue), OnRecv(d, a) \/ OnSend(d, a)
  PROVE  C!Next \/ UNCHANGED C!vars
<1>1. /\ UNCHANGED <<stage, closes, filled, wire, arrived>> /\ stage = "up"
  BY ErrorFacts DEF OnRecv, OnSend, IInv, Control, NotBefore
<1>2. \E front \in Seq(BufferNode) : taken' = taken \o front
  <2>1. CASE OnRecv(d, a)
    <3>1. TypedBack(m_recv_queue) \in Seq(BufferNode)
          /\ Len(TypedBack(m_recv_queue)) = Len(m_recv_queue)
      BY <2>1, TypedShape DEF OnRecv
    <3>2. SubSeq(TypedBack(m_recv_queue), 1, d) \in Seq(BufferNode)
      BY <3>1, SubSeqFacts
    <3>3. taken' = taken \o SubSeq(TypedBack(m_recv_queue), 1, d)
      BY <2>1 DEF OnRecv, Drop
    <3> QED
      BY <3>2, <3>3
  <2>2. CASE OnSend(d, a)
    <3>1. SubSeq(m_recv_queue, 1, d) \in Seq(BufferNode)
      BY SubSeqFacts DEF IInv, Queues
    <3>2. taken' = taken \o SubSeq(m_recv_queue, 1, d)
      BY <2>2 DEF OnSend, Drop
    <3> QED
      BY <3>1, <3>2
  <2> QED
    BY <2>1, <2>2
<1>3. Len(taken) \in Nat /\ Len(taken') - Len(taken) \in Nat
  <2>1. PICK front \in Seq(BufferNode) : taken' = taken \o front
    BY <1>2
  <2>2. taken \in Seq(BufferNode)
    BY DEF IInv, Queues
  <2>3. Len(taken \o front) = Len(taken) + Len(front)
    BY <2>1, <2>2, ConcatProperties
  <2> QED
    BY <2>1, <2>2, <2>3
<1>4. /\ Len(taken) \in 0..Len(arrived) /\ taken = SubSeq(arrived, 1, Len(taken))
  BY TakenPrefix
<1>5. /\ Len(taken') \in 0..Len(arrived') /\ taken' = SubSeq(arrived', 1, Len(taken'))
  <2>1. (IInv /\ RecvInv => /\ Len(taken) \in 0..Len(arrived)
                            /\ taken = SubSeq(arrived, 1, Len(taken)))'
    BY TakenPrefix, PTL
  <2> QED
    BY <2>1
<1> DEFINE n == Len(taken') - Len(taken)
<1>6. Len(taken') = Len(taken) + n /\ Len(taken) + n <= Len(arrived) /\ n \in Nat
  BY <1>1, <1>3, <1>5
<1> HIDE DEF n
<1>7. UNCHANGED PublicStage /\ PublicStage \in {"up", "closed"}
  BY <1>1 DEF PublicStage
<1>8. CASE n = 0
  BY <1>1, <1>4, <1>5, <1>6, <1>7, <1>8 DEF C!vars
<1>9. CASE n # 0
  <2>1. n \in 1..MaxArrive
    BY <1>3, <1>4, <1>6, <1>9, SizeAssumption DEF RecvInv, IInv, Queues
  <2>2. C!Take(n)
    BY <1>1, <1>5, <1>6, <1>7 DEF C!Take
  <2> QED
    BY <2>1, <2>2 DEF C!Next
<1> QED
  BY <1>8, <1>9

\* A write that ends puts on the wire the oldest message that is not there.
LEMMA TransmitStep ==
  ASSUME IInv, SendInv, WriteOk
  PROVE  C!Transmit
<1>1. /\ wr = "busy" /\ ws = "open"
      /\ wire' = Append(wire, [Head(m_send_queue) EXCEPT !.m_text = ws_text])
      /\ UNCHANGED <<stage, closes, filled, arrived, taken>>
  BY DEF WriteOk, session
<1>2. stage = "up" /\ closes = 0
  BY <1>1 DEF IInv, Control, NotBefore, ClosedOnce
<1>3. PublicStage = "up" /\ UNCHANGED PublicStage
  BY <1>1, <1>2 DEF PublicStage
<1>4. /\ m_send_queue \in Seq(Message) /\ m_send_queue # <<>> /\ posts \in Seq(Message)
      /\ wire \in Seq(Message) /\ filled = wire \o (m_send_queue \o posts)
  BY <1>1 DEF IInv, Queues, Control, NonEmpty, SendInv, SendFifo, Unsent
<1>5. Head(m_send_queue) \in Message /\ ws_text = Head(m_send_queue).m_text
  BY <1>1, <1>4, EndFacts DEF SendInv
<1>6. wire' = Append(wire, Head(m_send_queue))
  BY <1>1, <1>5 DEF Message
<1> DEFINE more == m_send_queue \o posts
<1>7. more \in Seq(Message) /\ more # <<>> /\ Head(more) = Head(m_send_queue)
  BY <1>4, FrontFacts
<1>8. filled = wire \o more
  BY <1>4
<1> HIDE DEF more
<1>9. Len(more) \in Nat \ {0} /\ more[1] = Head(more)
  BY <1>7, EndFacts
<1>10. /\ Len(filled) = Len(wire) + Len(more) /\ Len(wire) \in Nat
       /\ filled[Len(wire) + 1] = more[1]
  BY <1>4, <1>7, <1>8, <1>9, ConcatProperties
<1> QED
  BY <1>1, <1>3, <1>6, <1>7, <1>9, <1>10 DEF C!Transmit

\* A handler that may call on_close.
LEMMA CloseStep ==
  ASSUME IInv, OnRecvError \/ OnSendError \/ OnCloseDone
  PROVE  C!Next \/ UNCHANGED C!vars
<1>1. UNCHANGED <<stage, filled, wire, arrived, taken>> /\ OnClose
  BY DEF OnRecvError, OnSendError, OnCloseDone
<1>2. stage = "up"
  BY ErrorFacts DEF OnRecvError, OnSendError, OnCloseDone, IInv, Control, NotBefore
<1>3. CASE m_has_close
  BY <1>1, <1>3 DEF OnClose, C!vars, PublicStage
<1>4. CASE ~m_has_close
  <2>1. closes = 0 /\ closes' = 1
    BY <1>1, <1>4 DEF OnClose, IInv, Control, ClosedOnce
  <2>2. PublicStage = "up" /\ PublicStage' = "closed"
    BY <1>1, <1>2, <2>1 DEF PublicStage
  <2> QED
    BY <1>1, <2>2 DEF C!Next, C!Close
<1> QED
  BY <1>3, <1>4

\* Every step of the session is a step of the connection, or none.
LEMMA ConnectionStep ==
  IInv /\ SendInv /\ RecvInv /\ IInv' /\ RecvInv' /\ [Next]_vars => [C!Next]_C!vars
<1> SUFFICES ASSUME IInv, SendInv, RecvInv, IInv', RecvInv', [Next]_vars
             PROVE  C!Next \/ UNCHANGED C!vars
  OBVIOUS
<1> DEFINE public == <<stage, closes, filled, wire, arrived, taken>>
<1>1. CASE UNCHANGED public
  BY <1>1 DEF C!vars, PublicStage
<1>2. CASE OnAcceptError
  <2>1. stage = "accept" /\ stage' = "refused" /\ closes = 0
        /\ UNCHANGED <<closes, filled, wire, arrived, taken>>
    BY <1>2 DEF OnAcceptError, history, IInv, Control, ClosedOnce
  <2> QED
    BY <2>1 DEF C!Next, C!Refuse, PublicStage
<1>3. ASSUME NEW a \in Answers, OnAccept(a) \/ RunIdentity(a)
      PROVE  C!Next \/ UNCHANGED C!vars
  <2>1. stage \in {"accept", "connect"} /\ stage' = "up" /\ closes = 0
        /\ UNCHANGED <<closes, filled, wire, arrived, taken>>
    BY <1>3 DEF OnAccept, RunIdentity, Open, IInv, Control, ClosedOnce
  <2> QED
    BY <2>1 DEF C!Next, C!Show, PublicStage
<1>4. CASE OnRecvError \/ OnSendError \/ OnCloseDone
  BY <1>4, CloseStep
<1>5. ASSUME NEW a \in Answers, NEW d \in 0..Len(m_recv_queue), OnRecv(d, a) \/ OnSend(d, a)
      PROVE  C!Next \/ UNCHANGED C!vars
  BY <1>5, TakeStep
<1>6. CASE OnPost
  BY <1>1, <1>6 DEF OnPost
<1>7. ASSUME NEW message \in Message, Fill(message)
      PROVE  C!Next \/ UNCHANGED C!vars
  <2>1. /\ stage = "up" /\ filled' = Append(filled, message)
        /\ UNCHANGED <<stage, closes, wire, arrived, taken>>
    BY <1>7 DEF Fill, stream
  <2>2. PublicStage \in {"up", "closed"} /\ UNCHANGED PublicStage
    BY <2>1 DEF PublicStage
  <2>3. message \in C!Message
    BY DEF C!Message, Message
  <2> QED
    BY <2>1, <2>2, <2>3 DEF C!Next, C!Fill
<1>8. ASSUME NEW message \in Message, ReadOk(message)
      PROVE  C!Next \/ UNCHANGED C!vars
  <2>1. /\ rd = "busy" /\ ws = "open" /\ arrived' = Append(arrived, message)
        /\ UNCHANGED <<stage, closes, filled, wire, taken>>
    BY <1>8 DEF ReadOk
  <2>2. stage = "up" /\ closes = 0
    BY <2>1 DEF IInv, Control, NotBefore, ClosedOnce
  <2>3. PublicStage = "up" /\ UNCHANGED PublicStage
    BY <2>1, <2>2 DEF PublicStage
  <2>4. message \in C!Message
    BY DEF C!Message, Message
  <2> QED
    BY <2>1, <2>3, <2>4 DEF C!Next, C!Arrive
<1>9. CASE WriteOk
  BY <1>9, TransmitStep DEF C!Next
<1>10. CASE ReadFails \/ WriteFails \/ CloseEnds
  BY <1>1, <1>10 DEF ReadFails, ReadError, WriteFails, WriteError, CloseEnds, session, history
<1>11. CASE UNCHANGED vars
  BY <1>1, <1>11 DEF vars, session, history
<1> QED
  BY <1>2, <1>3, <1>4, <1>5, <1>6, <1>7, <1>8, <1>9, <1>10, <1>11
     DEF Next, Defined, Handlers, Stream

\* The initial states are initial states of a Connection.
LEMMA ConnectionInit == Init => C!Init
BY DEF Init, C!Init, PublicStage

\* The session implements the connection its service is promised, if the
\* service drops what recv_queue_size() counts.
THEOREM Implements == ASSUME ~DropByHasData PROVE Spec => ImplementsConnection
<1>1. Init => C!Init
  BY ConnectionInit
<1>2. IInv /\ SendInv /\ RecvInv /\ IInv' /\ RecvInv' /\ [Next]_vars => [C!Next]_C!vars
  BY ConnectionStep
<1> QED
  BY <1>1, <1>2, InductiveAll, PTL DEF Spec, C!Spec, ImplementsConnection
-----------------------------------------------------------------------------
(***************************************************************************)
(* Steps as a service sees them that takes each message when it comes, so  *)
(* that nothing is counted between two callbacks.                          *)
(***************************************************************************)

\* What such a service finds in on_recv is the message that arrived last.
LEMMA OneAtATime ==
  ASSUME IInv, RecvInv, m_recv_queue_size = 0, rd = "ok"
  PROVE  /\ Len(arrived) = Len(taken) + 1
         /\ TypedBack(m_recv_queue) = <<arrived[Len(taken) + 1]>>
         /\ arrived[Len(taken) + 1] \in Message
         /\ Len(m_recv_queue) = 1
<1>1. PICK u : Uncounted = <<u>>
  BY DEF Uncounted
<1>2. Counted = <<>>
  BY RecvShape, EmptySeq
<1>3. <<u>> \in Seq(BufferNode) /\ taken \in Seq(BufferNode) /\ arrived \in Seq(Message)
  BY <1>1, RecvShape
<1>4. arrived = taken \o <<u>> /\ TypedBack(m_recv_queue) = <<u>>
  <2>1. Counted \o Uncounted = <<u>>
    BY <1>1, <1>2, <1>3, ConcatEmptySeq
  <2> QED
    BY <2>1, RecvShape, TypedShape
<1>5. Len(arrived) = Len(taken) + 1 /\ arrived[Len(taken) + 1] = u
  BY <1>3, <1>4, ConcatProperties
<1>6. Len(m_recv_queue) = 1
  BY DEF RecvInv
<1>7. arrived[Len(taken) + 1] \in Message
  BY <1>3, <1>5
<1> QED
  BY <1>4, <1>5, <1>6, <1>7

\* It takes that message, and goes on reading if it keeps the connection.
LEMMA TakesOne ==
  ASSUME IInv, RecvInv, m_recv_queue_size = 0, NEW a \in Answers, OnRecv(1, a)
  PROVE  /\ taken' = Append(taken, arrived[Len(taken) + 1])
         /\ m_recv_queue_size' = 0
         /\ UNCHANGED <<filled, wire, arrived, stage>>
         /\ rd' = IF Keeps(a) THEN "busy" ELSE "idle"
<1>1. /\ rd = "ok" /\ m_recv_queue_size' = Sized((m_recv_queue_size + 1) - 1)
      /\ taken' = taken \o SubSeq(TypedBack(m_recv_queue), 1, 1)
      /\ UNCHANGED <<filled, wire, arrived, stage>>
      /\ rd' = IF Keeps(a) THEN "busy" ELSE "idle"
  BY DEF OnRecv, Drop, Recv
<1>2. Sized((m_recv_queue_size + 1) - 1) = 0
  BY SizeAssumption, SizedExact
<1>3. taken' = taken \o <<arrived[Len(taken) + 1]>>
  BY <1>1, OneAtATime
<1>4. taken \in Seq(BufferNode) /\ arrived[Len(taken) + 1] \in BufferNode
  BY <1>1, OneAtATime, RecvShape, MessageIsNode
<1> QED
  BY <1>1, <1>2, <1>3, <1>4, AppendIsConcat

\* The handlers of failed operations, of posts, closes and writes leave what
\* was filled, sent, read and taken, and start no read.
LEMMA OtherHandlers ==
  ASSUME IInv, RecvInv, m_recv_queue_size = 0,
         \/ OnRecvError \/ OnSendError \/ OnPost \/ OnCloseDone \/ OnAcceptError
         \/ OnSend(0, "keep")
  PROVE  /\ UNCHANGED <<m_recv_queue_size, filled, wire, arrived, taken>>
         /\ rd' # "idle" => rd # "idle"
         /\ stage' = stage \/ (stage = "accept" /\ stage' = "refused")
<1>1. CASE OnRecvError \/ OnSendError \/ OnPost \/ OnCloseDone \/ OnAcceptError
  BY <1>1 DEF OnRecvError, OnSendError, OnPost, OnCloseDone, OnAcceptError, history
<1>2. CASE OnSend(0, "keep")
  <2>1. /\ UNCHANGED <<filled, wire, arrived, rd, stage>>
        /\ m_recv_queue_size' = Sized(m_recv_queue_size - 0)
        /\ taken' = taken \o SubSeq(m_recv_queue, 1, 0)
    BY <1>2 DEF OnSend, Drop
  <2>2. m_recv_queue_size' = 0
    BY <2>1, SizeAssumption, SizedExact
  <2>3. taken' = taken
    BY <2>1, RecvShape, SubSeqEmpty, ConcatEmptySeq
  <2> QED
    BY <2>1, <2>2, <2>3
<1> QED
  BY <1>1, <1>2

\* The connection is shown, and read from if it is kept.
LEMMA ShownStep ==
  ASSUME NEW a \in Answers, OnAccept(a) \/ RunIdentity(a)
  PROVE  /\ stage \in {"accept", "connect"} /\ stage' = "up"
         /\ UNCHANGED <<m_recv_queue_size, filled, wire, arrived, taken>>
BY DEF OnAccept, RunIdentity, Open

LEMMA FillStep ==
  ASSUME NEW message, Fill(message)
  PROVE  /\ stage = "up" /\ filled' = Append(filled, message)
         /\ UNCHANGED <<m_recv_queue_size, wire, arrived, taken, rd, stage>>
BY DEF Fill, Filled, stream

\* The stream appends to what arrived and to what is on the wire.
LEMMA ReadStep ==
  ASSUME NEW message, ReadOk(message)
  PROVE  /\ rd # "idle" /\ arrived' = Append(arrived, message)
         /\ UNCHANGED <<m_recv_queue_size, wire, filled, taken, stage>>
BY DEF ReadOk

LEMMA WriteStep ==
  ASSUME WriteOk
  PROVE  /\ \E message : wire' = Append(wire, message)
         /\ UNCHANGED <<m_recv_queue_size, arrived, filled, taken, rd, stage>>
BY DEF WriteOk, session

LEMMA FailStep ==
  ASSUME \/ CloseEnds
         \/ \E e : e # "idle" /\ (ReadError(e) \/ WriteError(e))
  PROVE  /\ UNCHANGED <<m_recv_queue_size, wire, arrived, filled, taken, stage>>
         /\ rd' # "idle" => rd # "idle"
BY DEF CloseEnds, ReadError, WriteError, session, history

\* All of these are steps of the session.
LEMMA ServedStep ==
  ASSUME ~CloseOnce, IInv, RecvInv,
         \/ \E a \in {"keep", "abandon"} : OnAccept(a) \/ RunIdentity(a)
         \/ \E a \in {"keep", "abandon"}, d \in 0..1 : OnRecv(d, a)
         \/ OnRecvError \/ OnSendError \/ OnPost \/ OnCloseDone \/ OnAcceptError
         \/ OnSend(0, "keep")
         \/ \E message \in Message : Fill(message) \/ ReadOk(message)
         \/ \E e \in {"closed", "other"} : ReadError(e)
         \/ WriteOk \/ WriteError("other") \/ CloseEnds
  PROVE  Next
<1>1. ~dangling /\ \A a \in {"keep", "abandon"} : a \in Answers /\ May(a)
  BY DEF RecvInv, Answers, May
<1>2. 0 \in 0..Len(m_recv_queue) /\ (rd = "ok" => 0..1 \subseteq 0..Len(m_recv_queue))
  <2>1. Len(m_recv_queue) \in Nat
    BY RecvShape
  <2>2. ASSUME rd = "ok" PROVE Len(m_recv_queue) >= 1
    BY <2>1, <2>2, RecvShape DEF RecvInv
  <2> QED
    BY <2>1, <2>2
<1>3. \A a, d : OnRecv(d, a) => rd = "ok"
  BY DEF OnRecv
<1>4. "closed" \in ReadErrors /\ "other" \in ReadErrors /\ "other" \in WriteErrors
  BY DEF ReadErrors, WriteErrors
<1>5. CASE \E a \in {"keep", "abandon"}, d \in 0..1 : OnRecv(d, a)
  BY <1>1, <1>2, <1>3, <1>5 DEF Next, Defined, Handlers
<1>6. CASE \E a \in {"keep", "abandon"} : OnAccept(a) \/ RunIdentity(a)
  BY <1>1, <1>6 DEF Next, Defined, Handlers
<1>7. CASE OnSend(0, "keep")
  BY <1>1, <1>2, <1>7 DEF Next, Defined, Handlers
<1>8. CASE OnRecvError \/ OnSendError \/ OnPost \/ OnCloseDone \/ OnAcceptError
  BY <1>1, <1>8 DEF Next, Defined, Handlers
<1>9. CASE \E message \in Message : Fill(message) \/ ReadOk(message)
  BY <1>1, <1>9 DEF Next, Defined, Stream
<1>10. CASE (\E e \in {"closed", "other"} : ReadError(e)) \/ WriteOk
            \/ WriteError("other") \/ CloseEnds
  BY <1>1, <1>4, <1>10 DEF Next, Defined, Stream, ReadFails, WriteFails
<1> QED
  BY <1>5, <1>6, <1>7, <1>8, <1>9, <1>10

\* What is on the wire is the first part of what was filled.
LEMMA SentFirst ==
  ASSUME IInv, SendInv
  PROVE  /\ Len(wire) <= Len(filled)
         /\ \A i \in 1..Len(wire) : wire[i] = filled[i]
<1>1. wire \in Seq(Message) /\ Unsent \in Seq(Message) /\ filled = wire \o Unsent
  BY SendBound DEF IInv, Queues, SendInv, SendFifo
<1> QED
  BY <1>1, ConcatProperties

\* What the service took is the first part of what arrived.
LEMMA TakenFirst ==
  ASSUME IInv, RecvInv
  PROVE  /\ Len(taken) <= Len(arrived)
         /\ \A i \in 1..Len(taken) : taken[i] = arrived[i]
<1>1. /\ taken \in Seq(BufferNode) /\ Counted \o Uncounted \in Seq(BufferNode)
      /\ arrived = taken \o (Counted \o Uncounted)
  BY RecvShape, ConcatProperties
<1> QED
  BY <1>1, ConcatProperties

\* A session that has nothing to do and was not asked to close has everything
\* on the wire that was filled.
LEMMA AllSent ==
  ASSUME IInv, SendInv, posts = <<>>, wr = "idle", ~asked, ws = "open"
  PROVE  Len(wire) = Len(filled)
<1>1. m_send_queue = <<>>
  BY DEF IInv, Control, SenderAwake
<1>2. Unsent = <<>>
  BY <1>1, ConcatEmptySeq, EmptySeq DEF Unsent
<1>3. wire \in Seq(Message) /\ filled = wire \o <<>>
  BY <1>2 DEF IInv, Queues, SendInv, SendFifo
<1> QED
  BY <1>3, ConcatEmptySeq

\* While it reads, the service has taken all that arrived but what is counted.
LEMMA AllTaken ==
  ASSUME IInv, RecvInv, rd = "busy", m_recv_queue_size = 0
  PROVE  Len(taken) = Len(arrived)
<1>1. Uncounted = <<>> /\ Counted = <<>> /\ taken \in Seq(BufferNode)
  BY RecvShape, EmptySeq DEF Uncounted
<1>2. Counted \o Uncounted = <<>>
  BY <1>1, ConcatEmptySeq, EmptySeq
<1> QED
  BY <1>1, <1>2, RecvShape, ConcatEmptySeq

-----------------------------------------------------------------------------
(***************************************************************************)
(* The work that is left.                                                  *)
(***************************************************************************)

\* An operation costs its end and the handler of its end; the handler of a read
\* or a callback may start a read and a close, the one of a write the next write.
ReadWork(operation) ==
  IF operation = "idle" THEN 0 ELSE IF operation = "ok" THEN 5
  ELSE IF operation = "busy" THEN 2 ELSE 1
Operation(operation) == IF operation = "idle" THEN 0 ELSE IF operation = "busy" THEN 2 ELSE 1
Handshake(at) == IF at \in {"accept", "connect"} THEN 5 ELSE 0

\* The messages that may come, the messages that are queued, the operations.
Inputs     == 8 * (MaxFill - Len(filled)) + 4 * (MaxArrive - Len(arrived))
Nodes      == 7 * Len(posts) + 4 * Len(m_send_queue)
Operations == ReadWork(rd) + Operation(wr) + Operation(cl) + Handshake(stage)

Work == Inputs + Nodes + Operations

\* Threads fill at most MaxFill messages, the peer sends at most MaxArrive.
Bounded == Len(filled) <= MaxFill /\ Len(arrived) <= MaxArrive

\* What the handlers and the operations cost.
LEMMA WorkFacts ==
  /\ ReadWork("idle") = 0 /\ ReadWork("ok") = 5 /\ ReadWork("busy") = 2
  /\ \A e \in ReadErrors : ReadWork(e) = 1
  /\ \A o : ReadWork(o) \in 0..5
  /\ Operation("idle") = 0 /\ Operation("busy") = 2 /\ Operation("ok") = 1
  /\ Operation("done") = 1 /\ \A e \in WriteErrors : Operation(e) = 1
  /\ \A o : Operation(o) \in 0..2
  /\ \A s \in {"accept", "connect"} : Handshake(s) = 5
  /\ \A s \in {"up", "refused"} : Handshake(s) = 0
  /\ \A s : Handshake(s) \in {0, 5}
BY DEF ReadWork, Operation, Handshake, ReadErrors, WriteErrors

\* The lengths the work is counted in.
LEMMA WorkLengths ==
  ASSUME IInv
  PROVE  /\ Len(filled) \in Nat /\ Len(arrived) \in Nat
         /\ Len(posts) \in Nat /\ Len(m_send_queue) \in Nat
         /\ MaxFill \in Nat /\ MaxArrive \in Nat
BY SizeAssumption DEF IInv, Queues

\* What is appended adds one to a length.
LEMMA AppendLengths ==
  ASSUME IInv
  PROVE  \A e : /\ Len(Append(filled, e)) = Len(filled) + 1
              /\ Len(Append(arrived, e)) = Len(arrived) + 1
              /\ Len(Append(posts, e)) = Len(posts) + 1
              /\ Len(Append(m_send_queue, e)) = Len(m_send_queue) + 1
BY DEF IInv, Queues

\* The three sums are integers.
LEMMA WorkSums ==
  ASSUME IInv
  PROVE  Inputs \in Int /\ Nodes \in Int /\ Operations \in Int
<1>1. /\ ReadWork(rd) \in Int /\ Operation(wr) \in Int /\ Operation(cl) \in Int
      /\ Handshake(stage) \in Int
  BY WorkFacts
<1>2. Inputs \in Int
  BY WorkLengths DEF Inputs
<1>3. Nodes \in Int
  BY WorkLengths DEF Nodes
<1>4. Operations \in Int
  BY <1>1 DEF Operations
<1> QED
  BY <1>2, <1>3, <1>4

\* A step that ends something and neither fills, receives nor queues.
LEMMA LessOperations ==
  ASSUME IInv, UNCHANGED <<filled, arrived, posts, m_send_queue>>,
         Operations' \in Int, Operations' < Operations
  PROVE  Work' < Work
<1>1. Inputs' = Inputs /\ Nodes' = Nodes
  BY DEF Inputs, Nodes
<1> QED
  BY <1>1, WorkSums DEF Work

\* Fill and ReadOk keep to the bounds.
LEMMA BoundedStep == IInv /\ Bounded /\ [Next]_vars => Bounded'
<1> SUFFICES ASSUME IInv, Bounded, [Next]_vars PROVE Bounded'
  OBVIOUS
<1>1. ASSUME NEW message \in Message, Fill(message) PROVE Bounded'
  BY <1>1, WorkLengths, AppendLengths DEF Bounded, Fill
<1>2. ASSUME NEW message \in Message, ReadOk(message) PROVE Bounded'
  BY <1>2, WorkLengths, AppendLengths DEF Bounded, ReadOk
<1>3. CASE UNCHANGED <<filled, arrived>>
  BY <1>3 DEF Bounded
<1> QED
  BY <1>1, <1>2, <1>3 DEF Next, Defined, Handlers, Stream, ReadFails, WriteFails, vars, session,
     stream, history, OnAcceptError, OnAccept, RunIdentity, Open, OnRecvError, OnRecv,
     OnSendError, OnSend, OnPost, OnCloseDone, ReadError, WriteOk, WriteError, CloseEnds

\* Asking for the close starts one operation at most.
LEMMA EofWork ==
  ASSUME NEW a, Eof(a)
  PROVE  Operation(cl') \in 0..2 /\ Operation(cl') <= Operation(cl) + 2
BY WorkFacts DEF Eof

\* Every step of a session leaves less to do.
LEMMA LessWork ==
  ASSUME IInv, Bounded, Next
  PROVE  Work' < Work
<1>r. /\ ReadWork(rd) \in Nat /\ Operation(wr) \in Nat /\ Operation(cl) \in Nat
      /\ Handshake(stage) \in Nat
  BY WorkFacts
<1>0. Tokens /\ NonEmpty /\ NotBefore
  BY DEF IInv, Control
<1>1. CASE OnAcceptError
  <2>1. /\ Handshake(stage) = 5 /\ Handshake(stage') = 0
        /\ UNCHANGED <<filled, arrived, posts, m_send_queue, rd, wr, cl>>
    BY <1>1, WorkFacts DEF OnAcceptError, history
  <2>w. Operations' \in Int /\ Operations' < Operations
    BY <1>r, <2>1 DEF Operations
  <2> QED
    BY <2>1, <2>w, LessOperations
<1>2. ASSUME NEW a \in Answers, OnAccept(a) \/ RunIdentity(a) PROVE Work' < Work
  <2>1. /\ stage \in {"accept", "connect"} /\ stage' = "up" /\ Eof(a)
        /\ rd' \in {rd, "busy"} /\ UNCHANGED <<filled, arrived, posts, m_send_queue, wr>>
    BY <1>2 DEF OnAccept, RunIdentity, Open, Recv
  <2>2. rd = "idle"
    BY <1>0, <2>1 DEF NotBefore
  <2>3. /\ Handshake(stage) = 5 /\ Handshake(stage') = 0 /\ ReadWork(rd) = 0
        /\ ReadWork(rd') \in {0, 2}
    BY <2>1, <2>2, WorkFacts
  <2>4. Operation(cl') \in 0..2 /\ Operation(cl') <= Operation(cl) + 2
    BY <2>1, EofWork
  <2>w. Operations' \in Int /\ Operations' < Operations
    BY <1>r, <2>1, <2>3, <2>4 DEF Operations
  <2> QED
    BY <2>1, <2>w, LessOperations
<1>3. CASE OnRecvError
  <2>1. /\ ReadWork(rd) = 1 /\ ReadWork(rd') = 0
        /\ UNCHANGED <<filled, arrived, posts, m_send_queue, wr, cl, stage>>
    BY <1>3, WorkFacts DEF OnRecvError
  <2>w. Operations' \in Int /\ Operations' < Operations
    BY <1>r, <2>1 DEF Operations
  <2> QED
    BY <2>1, <2>w, LessOperations
<1>4. ASSUME NEW a \in Answers, NEW d \in 0..Len(m_recv_queue), OnRecv(d, a) PROVE Work' < Work
  <2>1. /\ rd = "ok" /\ rd' \in {"idle", "busy"} /\ Eof(a)
        /\ UNCHANGED <<filled, arrived, posts, m_send_queue, wr, stage>>
    BY <1>4 DEF OnRecv, Recv
  <2>2. ReadWork(rd) = 5 /\ ReadWork(rd') \in {0, 2}
    BY <2>1, WorkFacts
  <2>3. Operation(cl') \in 0..2 /\ Operation(cl') <= Operation(cl) + 2
    BY <2>1, EofWork
  <2>w. Operations' \in Int /\ Operations' < Operations
    <3> DEFINE r == ReadWork(rd)
               rNext == ReadWork(rd')
               h == Handshake(stage)
               w == Operation(wr)
               c == Operation(cl)
               cNext == Operation(cl')
    <3>1. /\ h \in Int /\ w \in Int /\ c \in Int /\ r = 5
          /\ rNext \in {0, 2} /\ cNext \in Int /\ cNext <= c + 2
      BY <1>r, <2>2, <2>3
    <3>2. Operations = r + w + c + h
      BY DEF Operations
    <3>3. Operations' = rNext + w + cNext + h
      BY <2>1 DEF Operations
    <3> HIDE DEF r, rNext, h, w, c, cNext
    <3> QED
      BY <3>1, <3>2, <3>3
  <2> QED
    BY <2>1, <2>w, LessOperations
<1>5. CASE OnSendError
  <2>1. /\ Operation(wr) = 1 /\ Operation(wr') = 0
        /\ UNCHANGED <<filled, arrived, posts, m_send_queue, rd, cl, stage>>
    BY <1>5, WorkFacts DEF OnSendError
  <2>w. Operations' \in Int /\ Operations' < Operations
    BY <1>r, <2>1 DEF Operations
  <2> QED
    BY <2>1, <2>w, LessOperations
<1>6. ASSUME NEW a \in Answers, NEW d \in 0..Len(m_recv_queue), OnSend(d, a) PROVE Work' < Work
  <2>1. /\ wr = "ok" /\ wr' \in {"idle", "busy"} /\ Eof(a) /\ m_send_queue' = Tail(m_send_queue)
        /\ UNCHANGED <<filled, arrived, posts, rd, stage>>
    BY <1>6 DEF OnSend, SendNext, Send
  <2>2. m_send_queue # <<>> /\ m_send_queue \in Seq(Message)
    BY <1>0, <2>1 DEF NonEmpty, IInv, Queues
  <2>3. Len(m_send_queue') = Len(m_send_queue) - 1
    BY <2>1, <2>2, EndFacts
  <2>4. Operation(wr) = 1 /\ Operation(wr') \in {0, 2}
    BY <2>1, WorkFacts
  <2>5. Operation(cl') \in 0..2 /\ Operation(cl') <= Operation(cl) + 2
    BY <2>1, EofWork
  <2>6. Operations' \in Int /\ Operations' <= Operations + 3
    <3> DEFINE r == ReadWork(rd)
               h == Handshake(stage)
               w == Operation(wr)
               wNext == Operation(wr')
               c == Operation(cl)
               cNext == Operation(cl')
    <3>1. r \in Int /\ h \in Int /\ w \in Int /\ c \in Int
      BY <1>r
    <3>2. wNext \in Int /\ wNext <= w + 1
      BY <2>4
    <3>3. cNext \in Int /\ cNext <= c + 2
      BY <2>5
    <3>4. Operations = r + w + c + h
      BY DEF Operations
    <3>5. Operations' = r + wNext + cNext + h
      BY <2>1 DEF Operations
    <3> HIDE DEF r, h, w, wNext, c, cNext
    <3> QED
      BY <3>1, <3>2, <3>3, <3>4, <3>5
  <2>7. Inputs' = Inputs
    BY <2>1 DEF Inputs
  <2>8. Nodes' = Nodes - 4
    <3>1. Nodes' = 7 * Len(posts) + 4 * (Len(m_send_queue) - 1)
      BY <2>1, <2>3 DEF Nodes
    <3>2. \A m, n \in Nat : 7 * m + 4 * (n - 1) = 7 * m + 4 * n - 4
      OBVIOUS
    <3> QED
      BY <3>1, <3>2, WorkLengths DEF Nodes
  <2> QED
    BY <2>6, <2>7, <2>8, WorkSums DEF Work
<1>7. CASE OnPost
  <2>1. /\ posts # <<>> /\ posts' = Tail(posts) /\ m_send_queue' = Append(m_send_queue, Head(posts))
        /\ wr' \in {wr, "busy"} /\ UNCHANGED <<filled, arrived, rd, cl, stage>>
    BY <1>7 DEF OnPost, Send, Queued
  <2>2. Len(posts') = Len(posts) - 1 /\ Len(m_send_queue') = Len(m_send_queue) + 1
    BY <2>1, EndFacts, AppendLengths DEF IInv, Queues
  <2>3. Operation(wr') \in 0..2
    BY WorkFacts
  <2>4. Operations' \in Int /\ Operations' <= Operations + 2
    <3> DEFINE r == ReadWork(rd)
               h == Handshake(stage)
               c == Operation(cl)
               w == Operation(wr)
               wNext == Operation(wr')
    <3>1. /\ r \in Int /\ h \in Int /\ c \in Int /\ w \in Int /\ 0 <= w
          /\ wNext \in 0..2
      BY <1>r, <2>3
    <3>2. Operations = r + w + c + h
      BY DEF Operations
    <3>3. Operations' = r + wNext + c + h
      BY <2>1 DEF Operations
    <3> HIDE DEF r, h, c, w, wNext
    <3> QED
      BY <3>1, <3>2, <3>3
  <2>5. Inputs' = Inputs
    BY <2>1 DEF Inputs
  <2>6. Nodes' = Nodes - 3
    BY <2>1, <2>2, WorkLengths DEF Nodes
  <2> QED
    BY <2>4, <2>5, <2>6, WorkSums DEF Work
<1>8. CASE OnCloseDone
  <2>1. /\ Operation(cl) = 1 /\ Operation(cl') = 0
        /\ UNCHANGED <<filled, arrived, posts, m_send_queue, rd, wr, stage>>
    BY <1>8, WorkFacts DEF OnCloseDone
  <2>w. Operations' \in Int /\ Operations' < Operations
    BY <1>r, <2>1 DEF Operations
  <2> QED
    BY <2>1, <2>w, LessOperations
<1>9. ASSUME NEW message \in Message, Fill(message) PROVE Work' < Work
  <2>1. /\ Len(filled') = Len(filled) + 1 /\ Len(posts') = Len(posts) + 1
        /\ UNCHANGED <<arrived, m_send_queue, rd, wr, cl, stage>>
    BY <1>9, AppendLengths DEF Fill, stream
  <2>2. Operations' = Operations
    BY <2>1 DEF Operations
  <2>3. Inputs' = Inputs - 8
    BY <2>1, WorkLengths DEF Inputs
  <2>4. Nodes' = Nodes + 7
    BY <2>1, WorkLengths DEF Nodes
  <2> QED
    BY <2>2, <2>3, <2>4, WorkSums DEF Work
<1>10. ASSUME NEW message \in Message, ReadOk(message) PROVE Work' < Work
  <2>1. /\ ReadWork(rd) = 2 /\ ReadWork(rd') = 5 /\ Len(arrived') = Len(arrived) + 1
        /\ UNCHANGED <<filled, posts, m_send_queue, wr, cl, stage>>
    BY <1>10, WorkFacts, AppendLengths DEF ReadOk
  <2>2. Operations' = Operations + 3
    BY <1>r, <2>1 DEF Operations
  <2>3. Inputs' = Inputs - 4
    <3> DEFINE fills == 8 * (MaxFill - Len(filled))
               n == Len(arrived)
    <3>1. fills \in Int /\ n \in Nat /\ MaxArrive \in Nat
      BY WorkLengths
    <3>2. Inputs = fills + 4 * (MaxArrive - n)
      BY DEF Inputs
    <3>3. Inputs' = fills + 4 * (MaxArrive - (n + 1))
      BY <2>1 DEF Inputs
    <3> HIDE DEF fills, n
    <3> QED
      BY <3>1, <3>2, <3>3
  <2>4. Nodes' = Nodes
    BY <2>1 DEF Nodes
  <2> QED
    BY <2>2, <2>3, <2>4, WorkSums DEF Work
<1>11. ASSUME NEW e \in ReadErrors, ReadError(e) PROVE Work' < Work
  <2>1. /\ ReadWork(rd) = 2 /\ ReadWork(rd') = 1
        /\ UNCHANGED <<filled, arrived, posts, m_send_queue, wr, cl, stage>>
    BY <1>11, WorkFacts DEF ReadError, session, history
  <2>w. Operations' \in Int /\ Operations' < Operations
    BY <1>r, <2>1 DEF Operations
  <2> QED
    BY <2>1, <2>w, LessOperations
<1>12. CASE WriteOk \/ \E e \in WriteErrors : WriteError(e)
  <2>1. /\ Operation(wr) = 2 /\ Operation(wr') = 1
        /\ UNCHANGED <<filled, arrived, posts, m_send_queue, rd, cl, stage>>
    BY <1>12, WorkFacts DEF WriteOk, WriteError, session, history
  <2>w. Operations' \in Int /\ Operations' < Operations
    BY <1>r, <2>1 DEF Operations
  <2> QED
    BY <2>1, <2>w, LessOperations
<1>13. CASE CloseEnds
  <2>1. /\ Operation(cl) = 2 /\ Operation(cl') = 1
        /\ UNCHANGED <<filled, arrived, posts, m_send_queue, rd, wr, stage>>
    BY <1>13, WorkFacts DEF CloseEnds, session, history
  <2>w. Operations' \in Int /\ Operations' < Operations
    BY <1>r, <2>1 DEF Operations
  <2> QED
    BY <2>1, <2>w, LessOperations
<1> QED
  BY <1>1, <1>2, <1>3, <1>4, <1>5, <1>6, <1>7, <1>8, <1>9, <1>10, <1>11, <1>12, <1>13
     DEF Next, Defined, Handlers, Stream, ReadFails, WriteFails

\* The work is never negative.
LEMMA WorkIsNat == IInv /\ Bounded => Work \in Nat
<1> SUFFICES ASSUME IInv, Bounded PROVE Work \in Nat
  OBVIOUS
<1>1. MaxFill - Len(filled) \in Nat /\ MaxArrive - Len(arrived) \in Nat
  BY WorkLengths DEF Bounded
<1>2. /\ ReadWork(rd) \in Nat /\ Operation(wr) \in Nat /\ Operation(cl) \in Nat
      /\ Handshake(stage) \in Nat
  BY WorkFacts
<1> QED
  <2>1. Inputs \in Nat
    BY <1>1 DEF Inputs
  <2>2. Nodes \in Nat
    BY WorkLengths DEF Nodes
  <2>3. Operations \in Nat
    BY <1>2 DEF Operations
  <2> QED
    BY <2>1, <2>2, <2>3 DEF Work

\* A session has no work of its own: whatever the service answers in its
\* callbacks and whatever fails, every step lowers a number that only the
\* messages filled and the messages of the peer feed.
THEOREM NoEndlessWork ==
  Spec => /\ [](Work \in Nat)
          /\ [][Work' < Work]_vars
<1>1. Init => Bounded
  BY SizeAssumption DEF Init, Bounded
<1>2. IInv /\ Bounded /\ [Next]_vars => Bounded'
  BY BoundedStep
<1>3. IInv /\ Bounded /\ [Next]_vars => [Work' < Work]_vars
  BY LessWork
<1> QED
  BY <1>1, <1>2, <1>3, WorkIsNat, Inductive, PTL DEF Spec

-----------------------------------------------------------------------------
(***************************************************************************)
(* What the service finds in the receive queue.                            *)
(***************************************************************************)

\* A service that drops what recv_queue_size() counts finds only frames that
\* the peer sent, in each of its callbacks.
THEOREM OnlyFramesOfThePeer == ASSUME ~DropByHasData PROVE Spec => []NoPhantomFrame
<1>1. ASSUME IInv, RecvInv PROVE NoPhantomFrame
  <2>1. SUFFICES ASSUME NEW i \in 1..Len(taken) PROVE taken[i].m_buffer # Empty
    BY DEF NoPhantomFrame
  <2>2. arrived \in Seq(Message) /\ taken \in Seq(BufferNode)
    BY <1>1 DEF IInv, Queues
  <2>3. taken[i] = arrived[i] /\ i \in 1..Len(arrived)
    BY <1>1, <2>2, TakenFirst
  <2>4. taken[i] \in Message
    BY <2>2, <2>3
  <2> QED
    BY <2>4, BufferAssumption DEF Message
<1> QED
  BY <1>1, InductiveAll, PTL
===============================================================================
