-------------------------- MODULE HttpSessionProofs --------------------------
(***************************************************************************)
(* Proofs about HttpSession, for every queue limit, number of requests,    *)
(* protocol mask and kind of peer (NoMisuse: for a peer that upgrades only *)
(* when it has its answers).                                               *)
(***************************************************************************)
EXTENDS HttpSession, TLAPS

USE DEF Response, Requests

-----------------------------------------------------------------------------
(***************************************************************************)
(* The inductive invariant.                                                *)
(***************************************************************************)
Types ==
  /\ ssl \in BOOLEAN /\ m_protocol \subseteq {"http", "ws"}
  /\ m_response_queue \in Seq(Response)
  /\ stage \in {"new", "handshake", "http", "websocket", "refused"}
  /\ tcp \in {"open", "dead"}
  /\ rd \in {"idle", "busy", "error", "end_of_stream", "keep", "close", "upgrade"}
  /\ wr \in {"idle", "busy", "late", "ok", "error"}
  /\ sd \in Nat /\ shut \in BOOLEAN
  /\ handled \in Seq(BOOLEAN) /\ wire \in Seq(Nat)
  /\ stopped \in BOOLEAN /\ misuse \subseteq {"read", "write", "shutdown", "release"}

\* Before the first read nothing was handled, queued or started.
Fresh ==
  stage \in {"new", "handshake", "refused"} =>
    /\ rd = "idle" /\ wr = "idle" /\ sd = 0 /\ ~shut /\ ~stopped
    /\ m_response_queue = <<>> /\ handled = <<>>

\* A read is outstanding only while there is room for its response, and one
\* that ended the reading leaves that room for ever.
Room ==
  /\ Len(m_response_queue) <= queue_limit
  /\ rd # "idle" => Len(m_response_queue) < queue_limit
  /\ stopped => rd = "idle" /\ Len(m_response_queue) < queue_limit

\* The response being written is the front of the queue.
Fronted == wr # "idle" => m_response_queue # <<>>

\* A write fails, and one is started too late, only when the session is over.
Failed == wr \in {"error", "late"} => Over

\* The writer gave up: what is queued stays there.
Stuck == wr = "idle" /\ m_response_queue # <<>>

\* One shutdown is due to the end of reading, one to the end of writing.
Shutdowns == sd <= (IF stopped THEN 1 ELSE 0) + (IF Stuck THEN 1 ELSE 0)

Control == Fresh /\ Room /\ Fronted /\ Failed /\ Shutdowns

\* A response closes the connection if its request does.
Kept ==
  \A i \in 1..Len(m_response_queue) :
    /\ m_response_queue[i].id \in 1..Len(handled)
    /\ m_response_queue[i].keep_alive = handled[m_response_queue[i].id]

\* Only the end of reading and a response that closes shut the stream down.
Cause == shut \/ sd > 0 => stopped \/ \E i \in 1..Len(handled) : ~handled[i]

\* on_send runs for the response that was written, and for no other.
Front == (wr = "ok" => Written) /\ (wr \in {"busy", "late", "error"} => ~Written)

IInv ==
  /\ Types /\ Control /\ WriterAwake /\ ReaderAwake /\ Kept /\ Cause
  /\ Front /\ AnswersInOrder

\* From an upgrade on, nothing is outstanding that would use the stream.
Upgrading ==
  rd = "upgrade" \/ stage = "websocket" =>
    /\ ~shut /\ sd = 0 /\ wr \in {"idle", "ok"}
    /\ Len(wire) = Len(handled)
    /\ \A i \in 1..Len(handled) : handled[i]
    /\ stage = "websocket" => stopped

-----------------------------------------------------------------------------
(***************************************************************************)
(* Facts about the queue.                                                  *)
(***************************************************************************)

\* A queued response: what appending and popping do to it.
LEMMA AppendQueue ==
  ASSUME NEW S, NEW q \in Seq(S), NEW e \in S
  PROVE  /\ Append(q, e) \in Seq(S) /\ Len(Append(q, e)) = Len(q) + 1
         /\ Append(q, e) # <<>>
         /\ \A i \in 1..Len(q) : Append(q, e)[i] = q[i]
         /\ Append(q, e)[Len(q) + 1] = e
         /\ q # <<>> => Tail(Append(q, e)) = Append(Tail(q), e)
<1>1. /\ Append(q, e) \in Seq(S) /\ Len(Append(q, e)) = Len(q) + 1
      /\ \A i \in 1..Len(q) : Append(q, e)[i] = q[i]
      /\ Append(q, e)[Len(q) + 1] = e
  OBVIOUS
<1>2. Append(q, e) # <<>>
  BY <1>1
<1>3. ASSUME q # <<>> PROVE Tail(Append(q, e)) = Append(Tail(q), e)
  BY <1>3
<1> QED
  BY <1>1, <1>2, <1>3

\* Popping a queue shifts its entries.
LEMMA TailQueue ==
  ASSUME NEW S, NEW q \in Seq(S), q # <<>>
  PROVE  /\ Tail(q) \in Seq(S) /\ Len(Tail(q)) = Len(q) - 1 /\ Len(q) \in Nat \ {0}
         /\ Head(q) \in S /\ Head(q) = q[1]
         /\ \A i \in 1..Len(Tail(q)) : Tail(q)[i] = q[i + 1]
OBVIOUS

-----------------------------------------------------------------------------
(***************************************************************************)
(* Types.                                                                  *)
(***************************************************************************)

\* A misuse is one of four.
LEMMA MisuseType ==
  ASSUME Types, NEW reads, NEW writes, NEW shuts, Misuse(reads, writes, shuts)
  PROVE  misuse' \subseteq {"read", "write", "shutdown", "release"}
BY DEF Types, Misuse

\* The initial values have their types.
LEMMA TypesInit == Init => Types
<1> SUFFICES ASSUME Init PROVE Types
  OBVIOUS
<1>1. m_protocol \subseteq {"http", "ws"} /\ misuse \subseteq {"read", "write", "shutdown", "release"}
  BY DEF Init
<1>2. m_response_queue \in Seq(Response) /\ handled \in Seq(BOOLEAN) /\ wire \in Seq(Nat)
  BY DEF Init
<1> QED
  BY <1>1, <1>2 DEF Init, Types

\* What handling a request keeps.
LEMMA RequestTypes ==
  ASSUME IInv, OnRecvRequest
  PROVE  Types'
<1> USE DEF session, stream, history
<1>0. Types
  BY DEF IInv
<1>1. misuse' \subseteq {"read", "write", "shutdown", "release"}
  BY <1>0, MisuseType DEF OnRecvRequest
<1>2. Len(handled) \in Nat /\ handled' \in Seq(BOOLEAN)
  BY <1>0 DEF Types, OnRecvRequest
<1>3. [id |-> Len(handled) + 1, keep_alive |-> rd = "keep"] \in Response
  BY <1>2
<1>4. m_response_queue' \in Seq(Response)
  BY <1>0, <1>3, AppendQueue DEF Types, OnRecvRequest
<1>5. rd' \in {"idle", "busy"} /\ wr' \in {"idle", "busy", "late", wr}
  BY DEF OnRecvRequest, Recv, Send
<1> QED
  BY <1>0, <1>1, <1>2, <1>4, <1>5 DEF Types, OnRecvRequest

\* Every step keeps the types.
LEMMA TypesStep ==
  ASSUME IInv, [Next]_vars
  PROVE  Types'
<1> USE DEF session, stream, history
<1>0. Types
  BY DEF IInv
<1>1. CASE Run
  BY <1>0, <1>1 DEF Types, Run, Recv
<1>2. CASE OnHandshake
  BY <1>0, <1>2 DEF Types, OnHandshake, Recv
<1>3. CASE OnHandshakeError
  BY <1>0, <1>3 DEF Types, OnHandshakeError
<1>4. CASE OnRecvEnd
  <2>1. misuse' \subseteq {"read", "write", "shutdown", "release"}
    BY <1>0, <1>4, MisuseType DEF OnRecvEnd
  <2> QED
    BY <1>0, <1>4, <2>1 DEF Types, OnRecvEnd, Recv, Eof
<1>5. CASE OnRecvError
  BY <1>0, <1>5 DEF Types, OnRecvError, Recv
<1>6. CASE OnRecvUpgrade
  BY <1>0, <1>6 DEF Types, OnRecvUpgrade, Recv
<1>7. CASE OnRecvUnsupported
  BY <1>0, <1>7 DEF Types, OnRecvUnsupported, Recv
<1>8. CASE OnRecvRequest
  BY <1>8, RequestTypes
<1>9. CASE OnSendError
  BY <1>0, <1>9 DEF Types, OnSendError
<1>10. CASE OnSendClose
  <2>1. misuse' \subseteq {"read", "write", "shutdown", "release"}
    BY <1>0, <1>10, MisuseType DEF OnSendClose
  <2> QED
    BY <1>0, <1>10, <2>1 DEF Types, OnSendClose, Eof
<1>11. CASE OnSend
  <2>1. misuse' \subseteq {"read", "write", "shutdown", "release"}
    BY <1>0, <1>11, MisuseType DEF OnSend
  <2>2. m_response_queue # <<>> /\ m_response_queue \in Seq(Response)
    BY <1>11 DEF IInv, Types, Control, Fronted, OnSend
  <2>3. m_response_queue' \in Seq(Response)
    BY <1>11, <2>2, TailQueue DEF OnSend, Popped
  <2>4. rd' \in {rd, "busy"} /\ wr' \in {"idle", "busy", "late"}
    BY <1>11 DEF OnSend, Send
  <2> QED
    BY <1>0, <1>11, <2>1, <2>3, <2>4 DEF Types, OnSend
<1>12. CASE OnShutdown
  BY <1>0, <1>12 DEF Types, OnShutdown
<1>13. CASE Reads
  <2>1. rd' \in {"error", "end_of_stream", "keep", "close", "upgrade"} /\ tcp' \in {tcp, "dead"}
    BY <1>13 DEF Reads, ReadFails, ReadEnds
  <2>2. UNCHANGED <<session, wr, sd, shut, history>>
    BY <1>13 DEF Reads, ReadFails, ReadEnds
  <2> QED
    BY <1>0, <2>1, <2>2 DEF Types
<1>14. CASE WriteOk
  <2>1. m_response_queue # <<>> /\ m_response_queue \in Seq(Response)
    BY <1>14 DEF IInv, Types, Control, Fronted, WriteOk
  <2>2. Head(m_response_queue) \in Response
    BY <2>1, TailQueue
  <2>3. Head(m_response_queue).id \in Nat
    BY <2>2
  <2> QED
    BY <1>0, <1>14, <2>3 DEF Types, WriteOk
<1>15. CASE WriteFails
  BY <1>0, <1>15 DEF Types, WriteFails, Writing
<1>16. CASE UNCHANGED vars
  BY <1>0, <1>16 DEF Types, vars
<1> QED
  BY <1>1, <1>2, <1>3, <1>4, <1>5, <1>6, <1>7, <1>8, <1>9, <1>10, <1>11, <1>12,
     <1>13, <1>14, <1>15, <1>16 DEF Next, Handlers, Writes

-----------------------------------------------------------------------------
(***************************************************************************)
(* Reader and writer.                                                      *)
(***************************************************************************)

\* A queue is empty when its length is 0.
LEMMA QueueLength ==
  ASSUME Types
  PROVE  /\ Len(m_response_queue) \in Nat
         /\ m_response_queue = <<>> <=> Len(m_response_queue) = 0
BY DEF Types

\* What handling a request does to the queue and to the two operations.
LEMMA RequestFacts ==
  ASSUME IInv, OnRecvRequest
  PROVE  /\ Len(m_response_queue') = Len(m_response_queue) + 1
         /\ m_response_queue' # <<>>
         /\ ~stopped /\ Len(m_response_queue) < queue_limit
         /\ rd' = IF Len(m_response_queue) + 1 < queue_limit THEN "busy" ELSE "idle"
         /\ wr' = IF m_response_queue = <<>> THEN IF shut THEN "late" ELSE "busy" ELSE wr
<1> DEFINE response == [id |-> Len(handled) + 1, keep_alive |-> rd = "keep"]
<1>1. Types /\ Len(handled) \in Nat
  BY DEF IInv, Types
<1>2. response \in Response
  BY <1>1
<1>a. m_response_queue' = Append(m_response_queue, response)
  BY DEF OnRecvRequest
<1>b. m_response_queue \in Seq(Response)
  BY <1>1 DEF Types
<1> HIDE DEF response, Response
<1>3. /\ Len(m_response_queue') = Len(m_response_queue) + 1
      /\ m_response_queue' # <<>>
  BY <1>2, <1>a, <1>b, AppendQueue
<1>4. rd # "idle"
  BY DEF OnRecvRequest
<1>5. ~stopped /\ Len(m_response_queue) < queue_limit
  BY <1>4 DEF IInv, Control, Room
<1>6. rd' = IF Len(m_response_queue) + 1 < queue_limit THEN "busy" ELSE "idle"
  BY <1>3 DEF OnRecvRequest, Recv, ReadsOn
<1>7. wr' = IF m_response_queue = <<>> THEN IF shut THEN "late" ELSE "busy" ELSE wr
  BY <1>1, <1>3, QueueLength DEF OnRecvRequest, Send, First
<1> QED
  BY <1>3, <1>5, <1>6, <1>7

\* What sending a response does to them.
LEMMA SendFacts ==
  ASSUME IInv, OnSend
  PROVE  /\ m_response_queue # <<>> /\ m_response_queue' = Tail(m_response_queue)
         /\ Len(m_response_queue') = Len(m_response_queue) - 1
         /\ rd' = IF Len(m_response_queue) = queue_limit THEN "busy" ELSE rd
         /\ wr' = IF m_response_queue' = <<>> THEN "idle" ELSE IF shut THEN "late" ELSE "busy"
<1>1. m_response_queue # <<>> /\ m_response_queue \in Seq(Response)
  BY DEF IInv, Types, Control, Fronted, OnSend
<1>2. m_response_queue' = Tail(m_response_queue)
  BY DEF OnSend, Popped
<1>3. Len(m_response_queue') = Len(m_response_queue) - 1
  BY <1>1, <1>2, TailQueue
<1>4. rd' = IF Len(m_response_queue) = queue_limit THEN "busy" ELSE rd
  BY DEF OnSend, Resumes
<1>5. wr' = IF m_response_queue' = <<>> THEN "idle" ELSE IF shut THEN "late" ELSE "busy"
  BY DEF OnSend, Send
<1> QED
  BY <1>1, <1>2, <1>3, <1>4, <1>5

\* Nothing is outstanding in the beginning.
LEMMA ControlInit == Init => Control /\ WriterAwake /\ ReaderAwake
<1> SUFFICES ASSUME Init PROVE Control /\ WriterAwake /\ ReaderAwake
  OBVIOUS
<1>1. Len(m_response_queue) = 0
  BY DEF Init
<1>2. Control
  BY <1>1, LimitAssumption DEF Init, Control, Fresh, Room, Fronted, Failed, Over, Shutdowns, Stuck
<1> QED
  BY <1>2 DEF Init, WriterAwake, ReaderAwake

\* Nothing starts before run().
LEMMA FreshStep ==
  ASSUME IInv, [Next]_vars
  PROVE  Fresh'
<1> USE DEF session, stream, history
<1>0. Types /\ Control /\ Len(m_response_queue) \in Nat /\ (m_response_queue = <<>> <=> Len(m_response_queue) = 0)
  BY QueueLength DEF IInv
<1>1. CASE Run
  BY <1>1, <1>0 DEF Fresh, Control, Types, Fronted, Run, Recv
<1>2. CASE OnHandshake
  BY <1>2, <1>0 DEF Fresh, Control, Types, Fronted, OnHandshake, Recv
<1>3. CASE OnHandshakeError
  BY <1>3, <1>0 DEF Fresh, Control, Types, Fronted, OnHandshakeError
<1>4. CASE OnRecvEnd
  BY <1>4, <1>0 DEF Fresh, Control, Types, Fronted, OnRecvEnd, Recv, Eof
<1>5. CASE OnRecvError
  BY <1>5, <1>0 DEF Fresh, Control, Types, Fronted, OnRecvError, Recv
<1>6. CASE OnRecvUpgrade
  BY <1>6, <1>0 DEF Fresh, Control, Types, Fronted, OnRecvUpgrade, Recv
<1>7. CASE OnRecvUnsupported
  BY <1>7, <1>0 DEF Fresh, Control, Types, Fronted, OnRecvUnsupported, Recv
<1>8. CASE OnRecvRequest
  BY <1>8, <1>0 DEF Control, Fresh, OnRecvRequest
<1>9. CASE OnSendError
  BY <1>9, <1>0 DEF Fresh, Control, Types, Fronted, OnSendError
<1>10. CASE OnSendClose
  BY <1>10, <1>0 DEF Fresh, Control, Types, Fronted, OnSendClose, Eof
<1>11. CASE OnSend
  BY <1>11, <1>0 DEF Control, Fresh, OnSend
<1>12. CASE OnShutdown
  BY <1>12, <1>0 DEF Fresh, Control, Types, Fronted, OnShutdown
<1>13. CASE Reads
  BY <1>13, <1>0 DEF Fresh, Control, Types, Fronted, Reads, ReadFails, ReadEnds
<1>14. CASE WriteOk
  BY <1>14, <1>0 DEF Fresh, Control, Types, Fronted, WriteOk
<1>15. CASE WriteFails
  BY <1>15, <1>0 DEF Fresh, Control, Types, Fronted, WriteFails, Writing
<1>16. CASE UNCHANGED vars
  BY <1>16, <1>0 DEF Fresh, Control, Types, Fronted, vars
<1> QED
  BY <1>1, <1>2, <1>3, <1>4, <1>5, <1>6, <1>7, <1>8, <1>9, <1>10, <1>11, <1>12,
     <1>13, <1>14, <1>15, <1>16 DEF Next, Handlers, Writes

\* on_recv reads on while there is room, on_send before it makes room.
LEMMA RoomStep ==
  ASSUME IInv, [Next]_vars
  PROVE  Room'
<1> USE DEF session, stream, history
<1>0. Types /\ Control /\ Len(m_response_queue) \in Nat /\ (m_response_queue = <<>> <=> Len(m_response_queue) = 0)
  BY QueueLength DEF IInv
<1>1. CASE Run
  BY <1>1, <1>0, LimitAssumption DEF Control, Fresh, Room, Run, Recv
<1>2. CASE OnHandshake
  BY <1>2, <1>0, LimitAssumption DEF Control, Fresh, Room, OnHandshake, Recv
<1>3. CASE OnHandshakeError
  BY <1>3, <1>0, LimitAssumption DEF Control, Fresh, Room, OnHandshakeError
<1>4. CASE OnRecvEnd
  BY <1>4, <1>0, LimitAssumption DEF Control, Fresh, Room, OnRecvEnd, Recv, Eof
<1>5. CASE OnRecvError
  BY <1>5, <1>0, LimitAssumption DEF Control, Fresh, Room, OnRecvError, Recv
<1>6. CASE OnRecvUpgrade
  BY <1>6, <1>0, LimitAssumption DEF Control, Fresh, Room, OnRecvUpgrade, Recv
<1>7. CASE OnRecvUnsupported
  BY <1>7, <1>0, LimitAssumption DEF Control, Fresh, Room, OnRecvUnsupported, Recv
<1>8. CASE OnRecvRequest
  <2>1. ~stopped'
    BY <1>8, RequestFacts DEF OnRecvRequest
  <2>2. Len(m_response_queue') <= queue_limit /\ (rd' # "idle" => Len(m_response_queue') < queue_limit)
    BY <1>8, <1>0, RequestFacts, LimitAssumption
  <2> QED
    BY <2>1, <2>2 DEF Room
<1>9. CASE OnSendError
  BY <1>9, <1>0, LimitAssumption DEF Control, Fresh, Room, OnSendError
<1>10. CASE OnSendClose
  BY <1>10, <1>0, LimitAssumption DEF Control, Fresh, Room, OnSendClose, Eof
<1>11. CASE OnSend
  <2>1. stopped' => stopped
    BY <1>11 DEF OnSend
  <2>2. Len(m_response_queue') < queue_limit
    BY <1>11, <1>0, SendFacts, LimitAssumption DEF Control, Room
  <2>3. stopped => rd' = "idle"
    BY <1>11, <1>0, SendFacts, LimitAssumption DEF Control, Room
  <2> QED
    BY <1>0, <2>1, <2>2, <2>3, SendFacts, LimitAssumption DEF Room
<1>12. CASE OnShutdown
  BY <1>12, <1>0, LimitAssumption DEF Control, Fresh, Room, OnShutdown
<1>13. CASE Reads
  BY <1>13, <1>0, LimitAssumption DEF Control, Fresh, Room, Reads, ReadFails, ReadEnds
<1>14. CASE WriteOk
  BY <1>14, <1>0, LimitAssumption DEF Control, Fresh, Room, WriteOk
<1>15. CASE WriteFails
  BY <1>15, <1>0, LimitAssumption DEF Control, Fresh, Room, WriteFails, Writing
<1>16. CASE UNCHANGED vars
  BY <1>16, <1>0, LimitAssumption DEF Control, Fresh, Room, vars
<1> QED
  BY <1>1, <1>2, <1>3, <1>4, <1>5, <1>6, <1>7, <1>8, <1>9, <1>10, <1>11, <1>12,
     <1>13, <1>14, <1>15, <1>16 DEF Next, Handlers, Writes

\* The response being written is popped only by on_send.
LEMMA FrontedStep ==
  ASSUME IInv, [Next]_vars
  PROVE  Fronted'
<1> USE DEF session, stream, history
<1>0. Types /\ Control /\ Len(m_response_queue) \in Nat /\ (m_response_queue = <<>> <=> Len(m_response_queue) = 0)
  BY QueueLength DEF IInv
<1>1. CASE Run
  BY <1>1, <1>0 DEF Control, Fronted, Run, Recv
<1>2. CASE OnHandshake
  BY <1>2, <1>0 DEF Control, Fronted, OnHandshake, Recv
<1>3. CASE OnHandshakeError
  BY <1>3, <1>0 DEF Control, Fronted, OnHandshakeError
<1>4. CASE OnRecvEnd
  BY <1>4, <1>0 DEF Control, Fronted, OnRecvEnd, Recv, Eof
<1>5. CASE OnRecvError
  BY <1>5, <1>0 DEF Control, Fronted, OnRecvError, Recv
<1>6. CASE OnRecvUpgrade
  BY <1>6, <1>0 DEF Control, Fronted, OnRecvUpgrade, Recv
<1>7. CASE OnRecvUnsupported
  BY <1>7, <1>0 DEF Control, Fronted, OnRecvUnsupported, Recv
<1>8. CASE OnRecvRequest
  BY <1>8, RequestFacts DEF Fronted
<1>9. CASE OnSendError
  BY <1>9, <1>0 DEF Control, Fronted, OnSendError
<1>10. CASE OnSendClose
  BY <1>10, <1>0 DEF Control, Fronted, OnSendClose, Eof
<1>11. CASE OnSend
  BY <1>11, SendFacts DEF Fronted
<1>12. CASE OnShutdown
  BY <1>12, <1>0 DEF Control, Fronted, OnShutdown
<1>13. CASE Reads
  BY <1>13, <1>0 DEF Control, Fronted, Reads, ReadFails, ReadEnds
<1>14. CASE WriteOk
  BY <1>14, <1>0 DEF Control, Fronted, WriteOk
<1>15. CASE WriteFails
  BY <1>15, <1>0 DEF Control, Fronted, WriteFails, Writing
<1>16. CASE UNCHANGED vars
  BY <1>16, <1>0 DEF Control, Fronted, vars
<1> QED
  BY <1>1, <1>2, <1>3, <1>4, <1>5, <1>6, <1>7, <1>8, <1>9, <1>10, <1>11, <1>12,
     <1>13, <1>14, <1>15, <1>16 DEF Next, Handlers, Writes

\* A session over for writing stays so.
LEMMA FailedStep ==
  ASSUME IInv, [Next]_vars
  PROVE  Failed'
<1> USE DEF session, stream, history
<1>0. Types /\ Control /\ Len(m_response_queue) \in Nat /\ (m_response_queue = <<>> <=> Len(m_response_queue) = 0)
  BY QueueLength DEF IInv
<1>1. CASE Run
  BY <1>1, <1>0 DEF Types, Control, Fresh, Failed, Over, Run, Recv
<1>2. CASE OnHandshake
  BY <1>2, <1>0 DEF Types, Control, Fresh, Failed, Over, OnHandshake, Recv
<1>3. CASE OnHandshakeError
  BY <1>3, <1>0 DEF Types, Control, Fresh, Failed, Over, OnHandshakeError
<1>4. CASE OnRecvEnd
  BY <1>4, <1>0 DEF Types, Control, Fresh, Failed, Over, OnRecvEnd, Recv, Eof
<1>5. CASE OnRecvError
  BY <1>5, <1>0 DEF Types, Control, Fresh, Failed, Over, OnRecvError, Recv
<1>6. CASE OnRecvUpgrade
  BY <1>6, <1>0 DEF Types, Control, Fresh, Failed, Over, OnRecvUpgrade, Recv
<1>7. CASE OnRecvUnsupported
  BY <1>7, <1>0 DEF Types, Control, Fresh, Failed, Over, OnRecvUnsupported, Recv
<1>8. CASE OnRecvRequest
  BY <1>8, <1>0, RequestFacts DEF Types, Control, Fresh, Failed, Over, OnRecvRequest
<1>9. CASE OnSendError
  BY <1>9, <1>0 DEF Types, Control, Fresh, Failed, Over, OnSendError
<1>10. CASE OnSendClose
  BY <1>10, <1>0 DEF Types, Control, Fresh, Failed, Over, OnSendClose, Eof
<1>11. CASE OnSend
  BY <1>11, SendFacts DEF Failed, Over, OnSend
<1>12. CASE OnShutdown
  BY <1>12, <1>0 DEF Types, Control, Fresh, Failed, Over, OnShutdown
<1>13. CASE Reads
  BY <1>13, <1>0 DEF Types, Control, Fresh, Failed, Over, Reads, ReadFails, ReadEnds
<1>14. CASE WriteOk
  BY <1>14, <1>0 DEF Types, Control, Fresh, Failed, Over, WriteOk
<1>15. CASE WriteFails
  BY <1>15, <1>0 DEF Types, Control, Fresh, Failed, Over, WriteFails, Writing
<1>16. CASE UNCHANGED vars
  BY <1>16, <1>0 DEF Types, Control, Fresh, Failed, Over, vars
<1> QED
  BY <1>1, <1>2, <1>3, <1>4, <1>5, <1>6, <1>7, <1>8, <1>9, <1>10, <1>11, <1>12,
     <1>13, <1>14, <1>15, <1>16 DEF Next, Handlers, Writes

\* Reading and writing each end once.
LEMMA ShutdownsStep ==
  ASSUME IInv, [Next]_vars
  PROVE  Shutdowns'
<1> USE DEF session, stream, history
<1>0. Types /\ Control /\ Len(m_response_queue) \in Nat /\ (m_response_queue = <<>> <=> Len(m_response_queue) = 0)
  BY QueueLength DEF IInv
<1>1. CASE Run
  BY <1>1, <1>0 DEF Types, Control, Room, Fronted, Shutdowns, Stuck, Run, Recv
<1>2. CASE OnHandshake
  BY <1>2, <1>0 DEF Types, Control, Room, Fronted, Shutdowns, Stuck, OnHandshake, Recv
<1>3. CASE OnHandshakeError
  BY <1>3, <1>0 DEF Types, Control, Room, Fronted, Shutdowns, Stuck, OnHandshakeError
<1>4. CASE OnRecvEnd
  BY <1>4, <1>0 DEF Types, Control, Room, Fronted, Shutdowns, Stuck, OnRecvEnd, Recv, Eof
<1>5. CASE OnRecvError
  BY <1>5, <1>0 DEF Types, Control, Room, Fronted, Shutdowns, Stuck, OnRecvError, Recv
<1>6. CASE OnRecvUpgrade
  BY <1>6, <1>0 DEF Types, Control, Room, Fronted, Shutdowns, Stuck, OnRecvUpgrade, Recv
<1>7. CASE OnRecvUnsupported
  BY <1>7, <1>0 DEF Types, Control, Room, Fronted, Shutdowns, Stuck, OnRecvUnsupported, Recv
<1>8. CASE OnRecvRequest
  BY <1>8, <1>0, RequestFacts DEF Types, Control, Shutdowns, Stuck, OnRecvRequest
<1>9. CASE OnSendError
  BY <1>9, <1>0 DEF Types, Control, Room, Fronted, Shutdowns, Stuck, OnSendError
<1>10. CASE OnSendClose
  BY <1>10, <1>0 DEF Types, Control, Room, Fronted, Shutdowns, Stuck, OnSendClose, Eof
<1>11. CASE OnSend
  BY <1>11, <1>0, SendFacts DEF Types, Control, Shutdowns, Stuck, OnSend
<1>12. CASE OnShutdown
  BY <1>12, <1>0 DEF Types, Control, Room, Fronted, Shutdowns, Stuck, OnShutdown
<1>13. CASE Reads
  BY <1>13, <1>0 DEF Types, Control, Room, Fronted, Shutdowns, Stuck, Reads, ReadFails, ReadEnds
<1>14. CASE WriteOk
  BY <1>14, <1>0 DEF Types, Control, Room, Fronted, Shutdowns, Stuck, WriteOk
<1>15. CASE WriteFails
  BY <1>15, <1>0 DEF Types, Control, Room, Fronted, Shutdowns, Stuck, WriteFails, Writing
<1>16. CASE UNCHANGED vars
  BY <1>16, <1>0 DEF Types, Control, Room, Fronted, Shutdowns, Stuck, vars
<1> QED
  BY <1>1, <1>2, <1>3, <1>4, <1>5, <1>6, <1>7, <1>8, <1>9, <1>10, <1>11, <1>12,
     <1>13, <1>14, <1>15, <1>16 DEF Next, Handlers, Writes

\* on_recv and on_send keep the writer awake.
LEMMA WriterStep ==
  ASSUME IInv, [Next]_vars
  PROVE  WriterAwake'
<1> USE DEF session, stream, history
<1>0. Types /\ Control /\ Len(m_response_queue) \in Nat /\ (m_response_queue = <<>> <=> Len(m_response_queue) = 0)
  BY QueueLength DEF IInv
<1>a. WriterAwake
  BY DEF IInv
<1>1. CASE Run
  BY <1>1, <1>0, <1>a DEF Control, Failed, WriterAwake, Over, Run, Recv
<1>2. CASE OnHandshake
  BY <1>2, <1>0, <1>a DEF Control, Failed, WriterAwake, Over, OnHandshake, Recv
<1>3. CASE OnHandshakeError
  BY <1>3, <1>0, <1>a DEF Control, Failed, WriterAwake, Over, OnHandshakeError
<1>4. CASE OnRecvEnd
  BY <1>4, <1>0, <1>a DEF Control, Failed, WriterAwake, Over, OnRecvEnd, Recv, Eof
<1>5. CASE OnRecvError
  BY <1>5, <1>0, <1>a DEF Control, Failed, WriterAwake, Over, OnRecvError, Recv
<1>6. CASE OnRecvUpgrade
  BY <1>6, <1>0, <1>a DEF Control, Failed, WriterAwake, Over, OnRecvUpgrade, Recv
<1>7. CASE OnRecvUnsupported
  BY <1>7, <1>0, <1>a DEF Control, Failed, WriterAwake, Over, OnRecvUnsupported, Recv
<1>8. CASE OnRecvRequest
  BY <1>8, <1>0, <1>a, RequestFacts DEF WriterAwake, Over, OnRecvRequest
<1>9. CASE OnSendError
  BY <1>9, <1>0, <1>a DEF Control, Failed, WriterAwake, Over, OnSendError
<1>10. CASE OnSendClose
  BY <1>10, <1>0, <1>a DEF Control, Failed, WriterAwake, Over, OnSendClose, Eof
<1>11. CASE OnSend
  BY <1>11, SendFacts DEF WriterAwake
<1>12. CASE OnShutdown
  BY <1>12, <1>0, <1>a DEF Control, Failed, WriterAwake, Over, OnShutdown
<1>13. CASE Reads
  BY <1>13, <1>0, <1>a DEF Control, Failed, WriterAwake, Over, Reads, ReadFails, ReadEnds
<1>14. CASE WriteOk
  BY <1>14, <1>0, <1>a DEF Control, Failed, WriterAwake, Over, WriteOk
<1>15. CASE WriteFails
  BY <1>15, <1>0, <1>a DEF Control, Failed, WriterAwake, Over, WriteFails, Writing
<1>16. CASE UNCHANGED vars
  BY <1>16, <1>0, <1>a DEF Control, Failed, WriterAwake, Over, vars
<1> QED
  BY <1>1, <1>2, <1>3, <1>4, <1>5, <1>6, <1>7, <1>8, <1>9, <1>10, <1>11, <1>12,
     <1>13, <1>14, <1>15, <1>16 DEF Next, Handlers, Writes

\* on_recv and on_send keep the reader awake.
LEMMA ReaderStep ==
  ASSUME IInv, [Next]_vars
  PROVE  ReaderAwake'
<1> USE DEF session, stream, history
<1>0. Types /\ Control /\ Len(m_response_queue) \in Nat /\ (m_response_queue = <<>> <=> Len(m_response_queue) = 0)
  BY QueueLength DEF IInv
<1>a. ReaderAwake
  BY DEF IInv
<1>1. CASE Run
  BY <1>1, <1>0, <1>a DEF Types, Control, Fresh, Room, Failed, ReaderAwake, Over, Run, Recv
<1>2. CASE OnHandshake
  BY <1>2, <1>0, <1>a DEF Types, Control, Fresh, Room, Failed, ReaderAwake, Over, OnHandshake, Recv
<1>3. CASE OnHandshakeError
  BY <1>3, <1>0, <1>a DEF Types, Control, Fresh, Room, Failed, ReaderAwake, Over, OnHandshakeError
<1>4. CASE OnRecvEnd
  BY <1>4, <1>0, <1>a DEF Types, Control, Fresh, Room, Failed, ReaderAwake, Over, OnRecvEnd, Recv, Eof
<1>5. CASE OnRecvError
  BY <1>5, <1>0, <1>a DEF Types, Control, Fresh, Room, Failed, ReaderAwake, Over, OnRecvError, Recv
<1>6. CASE OnRecvUpgrade
  BY <1>6, <1>0, <1>a DEF Types, Control, Fresh, Room, Failed, ReaderAwake, Over, OnRecvUpgrade, Recv
<1>7. CASE OnRecvUnsupported
  BY <1>7, <1>0, <1>a DEF Types, Control, Fresh, Room, Failed, ReaderAwake, Over, OnRecvUnsupported, Recv
<1>8. CASE OnRecvRequest
  <2>1. WriterAwake'
    BY WriterStep
  <2> QED
    BY <1>8, <2>1, <1>0, RequestFacts, LimitAssumption DEF WriterAwake, ReaderAwake, Over
<1>9. CASE OnSendError
  BY <1>9, <1>0, <1>a DEF Types, Control, Fresh, Room, Failed, ReaderAwake, Over, OnSendError
<1>10. CASE OnSendClose
  BY <1>10, <1>0, <1>a DEF Types, Control, Fresh, Room, Failed, ReaderAwake, Over, OnSendClose, Eof
<1>11. CASE OnSend
  BY <1>11, <1>0, <1>a, SendFacts DEF ReaderAwake, Over, OnSend
<1>12. CASE OnShutdown
  BY <1>12, <1>0, <1>a DEF Types, Control, Fresh, Room, Failed, ReaderAwake, Over, OnShutdown
<1>13. CASE Reads
  BY <1>13, <1>0, <1>a DEF Types, Control, Fresh, Room, Failed, ReaderAwake, Over, Reads, ReadFails, ReadEnds
<1>14. CASE WriteOk
  BY <1>14, <1>0, <1>a DEF Types, Control, Fresh, Room, Failed, ReaderAwake, Over, WriteOk
<1>15. CASE WriteFails
  BY <1>15, <1>0, <1>a DEF Types, Control, Fresh, Room, Failed, ReaderAwake, Over, WriteFails, Writing
<1>16. CASE UNCHANGED vars
  BY <1>16, <1>0, <1>a DEF Types, Control, Fresh, Room, Failed, ReaderAwake, Over, vars
<1> QED
  BY <1>1, <1>2, <1>3, <1>4, <1>5, <1>6, <1>7, <1>8, <1>9, <1>10, <1>11, <1>12,
     <1>13, <1>14, <1>15, <1>16 DEF Next, Handlers, Writes

-----------------------------------------------------------------------------
(***************************************************************************)
(* Answers.                                                                *)
(***************************************************************************)

\* What handling a request does to the requests handled and the entries of
\* the queue.
LEMMA RequestEntries ==
  ASSUME IInv, OnRecvRequest
  PROVE  /\ Len(handled') = Len(handled) + 1
         /\ \A i \in 1..Len(handled) : handled'[i] = handled[i]
         /\ \A i \in 1..Len(m_response_queue) : m_response_queue'[i] = m_response_queue[i]
         /\ m_response_queue'[Len(m_response_queue) + 1].id = Len(handled) + 1
         /\ m_response_queue'[Len(m_response_queue) + 1].keep_alive = handled'[Len(handled) + 1]
<1> DEFINE keep == rd = "keep"
<1> DEFINE response == [id |-> Len(handled) + 1, keep_alive |-> keep]
<1>1. m_response_queue \in Seq(Response) /\ handled \in Seq(BOOLEAN) /\ Len(handled) \in Nat
  BY DEF IInv, Types
<1>2. keep \in BOOLEAN
  OBVIOUS
<1>3. m_response_queue' = Append(m_response_queue, response) /\ handled' = Append(handled, keep)
  BY DEF OnRecvRequest
<1> HIDE DEF keep
<1>4. response \in Response
  BY <1>1, <1>2
<1>5. response.id = Len(handled) + 1 /\ response.keep_alive = keep
  OBVIOUS
<1> HIDE DEF response, Response
<1>6. /\ Len(handled') = Len(handled) + 1
      /\ \A i \in 1..Len(handled) : handled'[i] = handled[i]
      /\ handled'[Len(handled) + 1] = keep
  BY <1>1, <1>2, <1>3, AppendQueue
<1>7. /\ \A i \in 1..Len(m_response_queue) : m_response_queue'[i] = m_response_queue[i]
      /\ m_response_queue'[Len(m_response_queue) + 1] = response
  BY <1>1, <1>3, <1>4, AppendQueue
<1> QED
  BY <1>5, <1>6, <1>7

\* The first response that is unsent is the next of the wire.
LEMMA NextAnswer ==
  ASSUME IInv, m_response_queue # <<>>
  PROVE  /\ Len(wire) \in Nat
         /\ ~Written => Head(m_response_queue).id = Len(wire) + 1
         /\ Written /\ Tail(m_response_queue) # <<>>
              => Head(Tail(m_response_queue)).id = Len(wire) + 1
<1> HIDE DEF Response
<1>1. m_response_queue \in Seq(Response) /\ Len(wire) \in Nat
  BY DEF IInv, Types
<1>2. \A i \in 1..Len(Unsent) : Unsent[i].id = Len(wire) + i
  BY DEF IInv, AnswersInOrder
<1>3. /\ Tail(m_response_queue) \in Seq(Response) /\ Len(m_response_queue) \in Nat \ {0}
      /\ Head(m_response_queue) = m_response_queue[1]
  BY <1>1, TailQueue
<1>4. ASSUME ~Written PROVE Head(m_response_queue).id = Len(wire) + 1
  <2>1. Unsent = m_response_queue
    BY <1>4 DEF Unsent
  <2> QED
    BY <1>2, <1>3, <2>1
<1>5. ASSUME Written, Tail(m_response_queue) # <<>>
      PROVE  Head(Tail(m_response_queue)).id = Len(wire) + 1
  <2>1. Unsent = Tail(m_response_queue)
    BY <1>5 DEF Unsent
  <2>2. /\ Head(Tail(m_response_queue)) = Tail(m_response_queue)[1]
        /\ Len(Tail(m_response_queue)) \in Nat \ {0}
    BY <1>3, <1>5, TailQueue
  <2>3. Len(Unsent) \in Nat \ {0}
    BY <2>1, <2>2
  <2>4. Unsent[1].id = Len(wire) + 1
    BY <1>2, <2>3
  <2> QED
    BY <2>1, <2>2, <2>4
<1> QED
  BY <1>1, <1>4, <1>5

\* A request that comes is not written yet, and one at the front stays there.
LEMMA RequestWritten ==
  ASSUME IInv, OnRecvRequest
  PROVE  Written' <=> Written
<1>1. /\ m_response_queue \in Seq(Response) /\ m_response_queue' \in Seq(Response)
      /\ Len(wire) \in Nat /\ Len(handled) \in Nat
  BY RequestTypes DEF IInv, Types
<1>2. m_response_queue' # <<>> /\ wire' = wire
  BY RequestFacts DEF OnRecvRequest
<1>3. Head(m_response_queue') = m_response_queue'[1]
  BY <1>1, <1>2, TailQueue
<1>4. CASE m_response_queue = <<>>
  <2>1. ~Written /\ Unsent = <<>>
    BY <1>4 DEF Written, Unsent
  <2>2. Len(wire) = Len(handled)
    BY <1>1, <2>1 DEF IInv, AnswersInOrder
  <2>3. m_response_queue'[1].id = Len(handled) + 1
    BY <1>4, RequestEntries
  <2> QED
    BY <1>1, <1>2, <1>3, <2>1, <2>2, <2>3 DEF Written
<1>5. CASE m_response_queue # <<>>
  <2>1. Head(m_response_queue) = m_response_queue[1] /\ 1 \in 1..Len(m_response_queue)
    BY <1>1, <1>5, TailQueue
  <2>2. m_response_queue'[1] = m_response_queue[1]
    BY <2>1, RequestEntries
  <2> QED
    BY <1>2, <1>3, <1>5, <2>1, <2>2 DEF Written
<1> QED
  BY <1>4, <1>5

\* How the unsent responses change with it.
LEMMA RequestUnsent ==
  ASSUME IInv, OnRecvRequest
  PROVE  /\ Len(Unsent) \in Nat /\ Len(Unsent') = Len(Unsent) + 1
         /\ \A i \in 1..Len(Unsent) : Unsent'[i] = Unsent[i]
         /\ Unsent'[Len(Unsent) + 1] = m_response_queue'[Len(m_response_queue) + 1]
<1>1. Types /\ m_response_queue \in Seq(Response) /\ m_response_queue' \in Seq(Response)
  BY RequestTypes DEF IInv, Types
<1>2. /\ Len(m_response_queue') = Len(m_response_queue) + 1 /\ m_response_queue' # <<>>
      /\ Len(m_response_queue) \in Nat
      /\ \A i \in 1..Len(m_response_queue) : m_response_queue'[i] = m_response_queue[i]
  BY <1>1, RequestFacts, RequestEntries, QueueLength
<1>3. CASE Written
  <2>1. m_response_queue # <<>>
    BY <1>3 DEF Written
  <2>2. Unsent = Tail(m_response_queue) /\ Unsent' = Tail(m_response_queue')
    BY <1>3, RequestWritten DEF Unsent
  <2>3. /\ Len(Unsent) = Len(m_response_queue) - 1 /\ Len(Unsent') = Len(m_response_queue)
        /\ \A i \in 1..Len(Unsent) : Unsent[i] = m_response_queue[i + 1]
        /\ \A i \in 1..Len(Unsent') : Unsent'[i] = m_response_queue'[i + 1]
    BY <1>1, <1>2, <2>1, <2>2, TailQueue
  <2>4. Len(m_response_queue) > 0
    BY <1>1, <2>1, QueueLength
  <2> HIDE DEF Response
  <2> QED
    BY <1>2, <2>3, <2>4, SMTT(20)
<1>4. CASE ~Written
  <2>1. Unsent = m_response_queue /\ Unsent' = m_response_queue'
    BY <1>4, RequestWritten DEF Unsent
  <2> HIDE DEF Response
  <2> QED
    BY <1>2, <2>1
<1> QED
  BY <1>3, <1>4

\* Sending a response leaves the unsent ones as they are.
LEMMA SendUnsent ==
  ASSUME IInv, OnSend
  PROVE  ~Written' /\ Unsent' = Unsent
<1>1. /\ m_response_queue # <<>> /\ m_response_queue' = Tail(m_response_queue)
      /\ wire' = wire /\ wr = "ok"
  BY SendFacts DEF OnSend
<1>2. Written
  BY <1>1 DEF IInv, Front
<1>3. Len(wire) \in Nat /\ (Tail(m_response_queue) # <<>> => Head(Tail(m_response_queue)).id = Len(wire) + 1)
  BY <1>1, <1>2, NextAnswer
<1>4. ~Written'
  BY <1>1, <1>3 DEF Written
<1> QED
  BY <1>1, <1>2, <1>4 DEF Unsent

\* Nothing is handled in the beginning.
LEMMA AnswersInit == Init => Kept /\ Cause /\ Front /\ AnswersInOrder
<1> SUFFICES ASSUME Init PROVE Kept /\ Cause /\ Front /\ AnswersInOrder
  OBVIOUS
<1>1. Len(m_response_queue) = 0 /\ Len(wire) = 0 /\ Len(handled) = 0 /\ Unsent = <<>>
  BY DEF Init, Unsent, Written
<1> QED
  BY <1>1 DEF Init, Kept, Cause, Front, AnswersInOrder

\* Queued responses stay those of their requests.
LEMMA KeptStep ==
  ASSUME IInv, [Next]_vars
  PROVE  Kept'
<1> USE DEF session, stream, history
<1>0. Types /\ Control /\ Kept /\ Cause /\ Len(m_response_queue) \in Nat /\ Len(handled) \in Nat
  BY QueueLength DEF IInv, Types
<1>1. CASE Run
  BY <1>1, <1>0 DEF Kept, Run, Recv
<1>2. CASE OnHandshake
  BY <1>2, <1>0 DEF Kept, OnHandshake, Recv
<1>3. CASE OnHandshakeError
  BY <1>3, <1>0 DEF Kept, OnHandshakeError
<1>4. CASE OnRecvEnd
  BY <1>4, <1>0 DEF Kept, OnRecvEnd, Recv, Eof
<1>5. CASE OnRecvError
  BY <1>5, <1>0 DEF Kept, OnRecvError, Recv
<1>6. CASE OnRecvUpgrade
  BY <1>6, <1>0 DEF Kept, OnRecvUpgrade, Recv
<1>7. CASE OnRecvUnsupported
  BY <1>7, <1>0 DEF Kept, OnRecvUnsupported, Recv
<1>8. CASE OnRecvRequest
  <2>1. SUFFICES ASSUME NEW i \in 1..Len(m_response_queue')
                 PROVE  /\ m_response_queue'[i].id \in 1..Len(handled')
                        /\ m_response_queue'[i].keep_alive = handled'[m_response_queue'[i].id]
    BY DEF Kept
  <2>2. Len(m_response_queue') = Len(m_response_queue) + 1
    BY <1>8, RequestFacts
  <2>3. CASE i \in 1..Len(m_response_queue)
    BY <1>0, <1>8, <2>3, RequestEntries DEF Kept
  <2>4. CASE i = Len(m_response_queue) + 1
    BY <1>0, <1>8, <2>4, RequestEntries
  <2> QED
    BY <1>0, <2>1, <2>2, <2>3, <2>4
<1>9. CASE OnSendError
  BY <1>9, <1>0 DEF Kept, OnSendError
<1>10. CASE OnSendClose
  BY <1>10, <1>0 DEF Kept, OnSendClose, Eof
<1>11. CASE OnSend
  <2>1. handled' = handled /\ m_response_queue' = Tail(m_response_queue)
    BY <1>11, SendFacts DEF OnSend
  <2>2. /\ Len(m_response_queue') = Len(m_response_queue) - 1
        /\ \A i \in 1..Len(m_response_queue') : m_response_queue'[i] = m_response_queue[i + 1]
    BY <1>0, <1>11, <2>1, SendFacts, TailQueue DEF Types
  <2> QED
    BY <1>0, <2>1, <2>2 DEF Kept
<1>12. CASE OnShutdown
  BY <1>12, <1>0 DEF Kept, OnShutdown
<1>13. CASE Reads
  BY <1>13, <1>0 DEF Kept, Reads, ReadFails, ReadEnds
<1>14. CASE WriteOk
  BY <1>14, <1>0 DEF Kept, WriteOk
<1>15. CASE WriteFails
  BY <1>15, <1>0 DEF Kept, WriteFails, Writing
<1>16. CASE UNCHANGED vars
  BY <1>16, <1>0 DEF Kept, vars
<1> QED
  BY <1>1, <1>2, <1>3, <1>4, <1>5, <1>6, <1>7, <1>8, <1>9, <1>10, <1>11, <1>12,
     <1>13, <1>14, <1>15, <1>16 DEF Next, Handlers, Writes

\* eof() is called for a cause only.
LEMMA CauseStep ==
  ASSUME IInv, [Next]_vars
  PROVE  Cause'
<1> USE DEF session, stream, history
<1>0. Types /\ Control /\ Kept /\ Cause /\ Len(m_response_queue) \in Nat /\ Len(handled) \in Nat
  BY QueueLength DEF IInv, Types
<1>1. CASE Run
  BY <1>1, <1>0 DEF Types, Control, Fresh, Cause, Run, Recv
<1>2. CASE OnHandshake
  BY <1>2, <1>0 DEF Types, Control, Fresh, Cause, OnHandshake, Recv
<1>3. CASE OnHandshakeError
  BY <1>3, <1>0 DEF Types, Control, Fresh, Cause, OnHandshakeError
<1>4. CASE OnRecvEnd
  BY <1>4, <1>0 DEF Types, Control, Fresh, Cause, OnRecvEnd, Recv, Eof
<1>5. CASE OnRecvError
  BY <1>5, <1>0 DEF Types, Control, Fresh, Cause, OnRecvError, Recv
<1>6. CASE OnRecvUpgrade
  BY <1>6, <1>0 DEF Types, Control, Fresh, Cause, OnRecvUpgrade, Recv
<1>7. CASE OnRecvUnsupported
  BY <1>7, <1>0 DEF Types, Control, Fresh, Cause, OnRecvUnsupported, Recv
<1>8. CASE OnRecvRequest
  <2>1. ~stopped /\ shut' = shut /\ sd' = sd
    BY <1>8, RequestFacts DEF OnRecvRequest
  <2> QED
    BY <1>0, <1>8, <2>1, RequestEntries DEF Cause
<1>9. CASE OnSendError
  BY <1>9, <1>0 DEF Types, Control, Fresh, Cause, OnSendError
<1>10. CASE OnSendClose
  <2>1. /\ m_response_queue # <<>> /\ ~Head(m_response_queue).keep_alive /\ handled' = handled
    BY <1>0, <1>10 DEF Control, Fronted, OnSendClose
  <2>2. Head(m_response_queue) = m_response_queue[1] /\ 1 \in 1..Len(m_response_queue)
    BY <1>0, <2>1, TailQueue DEF Types
  <2>3. \E i \in 1..Len(handled) : ~handled[i]
    BY <1>0, <2>1, <2>2 DEF Kept
  <2> QED
    BY <2>1, <2>3 DEF Cause
<1>11. CASE OnSend
  BY <1>11, <1>0 DEF Cause, OnSend
<1>12. CASE OnShutdown
  BY <1>12, <1>0 DEF Types, Control, Fresh, Cause, OnShutdown
<1>13. CASE Reads
  BY <1>13, <1>0 DEF Types, Control, Fresh, Cause, Reads, ReadFails, ReadEnds
<1>14. CASE WriteOk
  BY <1>14, <1>0 DEF Types, Control, Fresh, Cause, WriteOk
<1>15. CASE WriteFails
  BY <1>15, <1>0 DEF Types, Control, Fresh, Cause, WriteFails, Writing
<1>16. CASE UNCHANGED vars
  BY <1>16, <1>0 DEF Types, Control, Fresh, Cause, vars
<1> QED
  BY <1>1, <1>2, <1>3, <1>4, <1>5, <1>6, <1>7, <1>8, <1>9, <1>10, <1>11, <1>12,
     <1>13, <1>14, <1>15, <1>16 DEF Next, Handlers, Writes

\* A response is written once: before that it is not, after that it is.
LEMMA WrittenOnce ==
  ASSUME IInv, WriteOk
  PROVE  ~Written /\ Written'
<1>1. m_response_queue # <<>> /\ ~Written
  BY DEF IInv, Front, Control, Fronted, WriteOk
<1>2. Len(wire) \in Nat /\ Head(m_response_queue).id = Len(wire) + 1
  BY <1>1, NextAnswer
<1>3. wire \in Seq(Nat) /\ wire' = Append(wire, Len(wire) + 1)
  BY <1>2 DEF IInv, Types, WriteOk
<1>4. Len(wire') = Len(wire) + 1 /\ m_response_queue' = m_response_queue
  BY <1>2, <1>3 DEF WriteOk, session
<1> QED
  BY <1>1, <1>2, <1>4 DEF Written

\* on_send keeps running for the response that was written.
LEMMA FrontStep ==
  ASSUME IInv, [Next]_vars
  PROVE  Front'
<1> USE DEF session, stream, history
<1>0. Types /\ Fresh /\ Front /\ (wr # "idle" => m_response_queue # <<>>)
  BY DEF IInv, Control, Fronted
<1>1. CASE Run
  BY <1>1, <1>0 DEF Types, Fresh, Front, Written, Run, Recv
<1>2. CASE OnHandshake
  BY <1>2, <1>0 DEF Types, Fresh, Front, Written, OnHandshake, Recv
<1>3. CASE OnHandshakeError
  BY <1>3, <1>0 DEF Types, Fresh, Front, Written, OnHandshakeError
<1>4. CASE OnRecvEnd
  BY <1>4, <1>0 DEF Types, Fresh, Front, Written, OnRecvEnd, Recv, Eof
<1>5. CASE OnRecvError
  BY <1>5, <1>0 DEF Types, Fresh, Front, Written, OnRecvError, Recv
<1>6. CASE OnRecvUpgrade
  BY <1>6, <1>0 DEF Types, Fresh, Front, Written, OnRecvUpgrade, Recv
<1>7. CASE OnRecvUnsupported
  BY <1>7, <1>0 DEF Types, Fresh, Front, Written, OnRecvUnsupported, Recv
<1>8. CASE OnRecvRequest
  <2>1. CASE m_response_queue = <<>>
    BY <1>0, <1>8, <2>1, RequestFacts, RequestWritten DEF Front, Written
  <2>2. CASE m_response_queue # <<>>
    BY <1>0, <1>8, <2>2, RequestFacts, RequestWritten DEF Front
  <2> QED
    BY <2>1, <2>2
<1>9. CASE OnSendError
  BY <1>9, <1>0 DEF Types, Fresh, Front, Written, OnSendError
<1>10. CASE OnSendClose
  BY <1>10, <1>0 DEF Types, Fresh, Front, Written, OnSendClose, Eof
<1>11. CASE OnSend
  BY <1>11, SendFacts, SendUnsent DEF Front
<1>12. CASE OnShutdown
  BY <1>12, <1>0 DEF Types, Fresh, Front, Written, OnShutdown
<1>13. CASE Reads
  BY <1>13, <1>0 DEF Types, Fresh, Front, Written, Reads, ReadFails, ReadEnds
<1>14. CASE WriteOk
  BY <1>14, WrittenOnce DEF Front, WriteOk
<1>15. CASE WriteFails
  BY <1>15, <1>0 DEF Types, Fresh, Front, Written, WriteFails, Writing
<1>16. CASE UNCHANGED vars
  BY <1>16, <1>0 DEF Types, Fresh, Front, Written, vars
<1> QED
  BY <1>1, <1>2, <1>3, <1>4, <1>5, <1>6, <1>7, <1>8, <1>9, <1>10, <1>11, <1>12,
     <1>13, <1>14, <1>15, <1>16 DEF Next, Handlers, Writes

\* The written and the queued responses stay the requests handled.
LEMMA AnswersStep ==
  ASSUME IInv, [Next]_vars
  PROVE  AnswersInOrder'
<1> USE DEF session, stream, history
<1>0. Types /\ Control /\ Kept /\ Cause /\ Len(m_response_queue) \in Nat /\ Len(handled) \in Nat
  BY QueueLength DEF IInv, Types
<1>a. AnswersInOrder
  BY DEF IInv
<1>1. CASE Run
  BY <1>1, <1>0, <1>a DEF Types, Control, Fresh, Fronted, AnswersInOrder, Unsent, Written, Run, Recv
<1>2. CASE OnHandshake
  BY <1>2, <1>0, <1>a DEF Types, Control, Fresh, Fronted, AnswersInOrder, Unsent, Written, OnHandshake, Recv
<1>3. CASE OnHandshakeError
  BY <1>3, <1>0, <1>a DEF Types, Control, Fresh, Fronted, AnswersInOrder, Unsent, Written, OnHandshakeError
<1>4. CASE OnRecvEnd
  BY <1>4, <1>0, <1>a DEF Types, Control, Fresh, Fronted, AnswersInOrder, Unsent, Written, OnRecvEnd, Recv, Eof
<1>5. CASE OnRecvError
  BY <1>5, <1>0, <1>a DEF Types, Control, Fresh, Fronted, AnswersInOrder, Unsent, Written, OnRecvError, Recv
<1>6. CASE OnRecvUpgrade
  BY <1>6, <1>0, <1>a DEF Types, Control, Fresh, Fronted, AnswersInOrder, Unsent, Written, OnRecvUpgrade, Recv
<1>7. CASE OnRecvUnsupported
  BY <1>7, <1>0, <1>a DEF Types, Control, Fresh, Fronted, AnswersInOrder, Unsent, Written, OnRecvUnsupported, Recv
<1>8. CASE OnRecvRequest
  <2>1. wire' = wire
    BY <1>8 DEF OnRecvRequest
  <2>2. \A i \in 1..Len(wire') : wire'[i] = i
    BY <1>a, <2>1 DEF AnswersInOrder
  <2>3. /\ Len(wire) + Len(Unsent) = Len(handled)
        /\ \A i \in 1..Len(Unsent) : Unsent[i].id = Len(wire) + i
    BY <1>a DEF AnswersInOrder
  <2>4. Len(wire) \in Nat
    BY <1>0 DEF Types
  <2>5. Len(wire) + Len(Unsent') = Len(handled')
    BY <1>0, <1>8, <2>3, <2>4, RequestUnsent, RequestEntries
  <2>6. Unsent'[Len(Unsent) + 1].id = Len(wire) + (Len(Unsent) + 1)
    BY <1>0, <1>8, <2>3, <2>4, RequestUnsent, RequestEntries
  <2>7. ASSUME NEW i \in 1..Len(Unsent') PROVE Unsent'[i].id = Len(wire) + i
    <3>1. Len(Unsent) \in Nat /\ Len(Unsent') = Len(Unsent) + 1
      BY <1>8, RequestUnsent
    <3>2. CASE i \in 1..Len(Unsent)
      BY <1>8, <2>3, <3>2, RequestUnsent
    <3>3. CASE i = Len(Unsent) + 1
      BY <2>6, <3>3
    <3> QED
      BY <3>1, <3>2, <3>3
  <2> QED
    BY <2>1, <2>2, <2>5, <2>7 DEF AnswersInOrder
<1>9. CASE OnSendError
  BY <1>9, <1>0, <1>a DEF Types, Control, Fresh, Fronted, AnswersInOrder, Unsent, Written, OnSendError
<1>10. CASE OnSendClose
  BY <1>10, <1>0, <1>a DEF Types, Control, Fresh, Fronted, AnswersInOrder, Unsent, Written, OnSendClose, Eof
<1>11. CASE OnSend
  <2>1. wire' = wire /\ handled' = handled /\ Unsent' = Unsent
    BY <1>11, SendUnsent DEF OnSend
  <2> QED
    BY <1>a, <2>1 DEF AnswersInOrder
<1>12. CASE OnShutdown
  BY <1>12, <1>0, <1>a DEF Types, Control, Fresh, Fronted, AnswersInOrder, Unsent, Written, OnShutdown
<1>13. CASE Reads
  BY <1>13, <1>0, <1>a DEF Types, Control, Fresh, Fronted, AnswersInOrder, Unsent, Written, Reads, ReadFails, ReadEnds
<1>14. CASE WriteOk
  <2>1. handled' = handled
    BY <1>14 DEF WriteOk
  <2>d. m_response_queue # <<>> /\ m_response_queue \in Seq(Response)
    BY <1>14, <1>0 DEF WriteOk, Types, Control, Fronted
  <2>e. ~Written /\ Written'
    BY <1>14, WrittenOnce
  <2>2. Unsent = m_response_queue /\ Unsent' = Tail(m_response_queue)
    BY <1>14, <2>e DEF WriteOk, Unsent
  <2>3. /\ Len(Unsent') = Len(Unsent) - 1 /\ Len(Unsent) \in Nat \ {0}
        /\ Head(m_response_queue) = Unsent[1]
        /\ \A i \in 1..Len(Unsent') : Unsent'[i] = Unsent[i + 1]
    BY <2>2, <2>d, TailQueue
  <2>4. /\ Len(wire) + Len(Unsent) = Len(handled)
        /\ \A i \in 1..Len(Unsent) : Unsent[i].id = Len(wire) + i
        /\ \A i \in 1..Len(wire) : wire[i] = i
    BY <1>a DEF AnswersInOrder
  <2>5. Len(wire) \in Nat /\ wire \in Seq(Nat)
    BY <1>0 DEF Types
  <2>6. wire' = Append(wire, Len(wire) + 1)
    BY <1>14, <2>3, <2>4 DEF WriteOk
  <2>7. Len(wire') = Len(wire) + 1 /\ \A i \in 1..Len(wire') : wire'[i] = i
    BY <2>4, <2>5, <2>6
  <2>a. Len(wire') = Len(wire) + 1 /\ Len(Unsent') = Len(Unsent) - 1 /\ Len(handled') = Len(handled)
    BY <2>1, <2>3, <2>7
  <2>b. Len(wire) \in Nat /\ Len(Unsent) \in Nat /\ Len(wire) + Len(Unsent) = Len(handled)
    BY <2>3, <2>4, <2>5
  <2>c. \A x, y \in Nat : (x + 1) + (y - 1) = x + y
    OBVIOUS
  <2>8. Len(wire') + Len(Unsent') = Len(handled')
    BY <2>a, <2>b, <2>c
  <2>9. ASSUME NEW i \in 1..Len(Unsent') PROVE Unsent'[i].id = Len(wire') + i
    <3>1. i + 1 \in 1..Len(Unsent) /\ i \in Nat /\ Unsent'[i] = Unsent[i + 1]
      BY <2>3
    <3>2. Unsent'[i].id = Len(wire) + (i + 1)
      BY <2>4, <3>1
    <3> QED
      BY <2>5, <2>7, <3>1, <3>2
  <2> QED
    BY <2>7, <2>8, <2>9 DEF AnswersInOrder
<1>15. CASE WriteFails
  BY <1>15, <1>0, <1>a DEF Types, Control, Fresh, Fronted, AnswersInOrder, Unsent, Written, WriteFails, Writing
<1>16. CASE UNCHANGED vars
  BY <1>16, <1>0, <1>a DEF Types, Control, Fresh, Fronted, AnswersInOrder, Unsent, Written, vars
<1> QED
  BY <1>1, <1>2, <1>3, <1>4, <1>5, <1>6, <1>7, <1>8, <1>9, <1>10, <1>11, <1>12,
     <1>13, <1>14, <1>15, <1>16 DEF Next, Handlers, Writes

-----------------------------------------------------------------------------
(***************************************************************************)
(* The theorems.                                                           *)
(***************************************************************************)

\* The invariant holds of every reachable state.
THEOREM Inductive == Spec => []IInv
<1>1. Init => IInv
  BY TypesInit, ControlInit, AnswersInit DEF IInv
<1>2. IInv /\ [Next]_vars => IInv'
  BY TypesStep, FreshStep, RoomStep, FrontedStep, FailedStep, ShutdownsStep,
     WriterStep, ReaderStep, KeptStep, CauseStep, FrontStep, AnswersStep DEF IInv, Control
<1> QED
  BY <1>1, <1>2, PTL DEF Spec

\* The variables keep their types, the queue its limit, and at most two
\* shutdowns are outstanding, for every limit.
THEOREM TypeCorrect == Spec => []TypeOK
<1>1. ASSUME IInv PROVE TypeOK
  <2>1. Types /\ Room /\ Shutdowns
    BY <1>1 DEF IInv, Control
  <2>2. sd \in 0..2
    BY <2>1 DEF Types, Shutdowns
  <2> QED
    BY <2>1, <2>2 DEF Types, Room, TypeOK
<1> QED
  BY <1>1, Inductive, PTL

\* Pipelined requests are answered in order, each once.
THEOREM AnsweredInOrder == Spec => []AnswersInOrder
<1>1. IInv => AnswersInOrder
  BY DEF IInv
<1> QED
  BY <1>1, Inductive, PTL

\* No wakeup of the writer is lost between on_recv and on_send.
THEOREM WriterNeverSleeps == Spec => []WriterAwake
<1>1. IInv => WriterAwake
  BY DEF IInv
<1> QED
  BY <1>1, Inductive, PTL

\* No wakeup of the reader is lost when the queue is full.
THEOREM ReaderNeverSleeps == Spec => []ReaderAwake
<1>1. IInv => ReaderAwake
  BY DEF IInv
<1> QED
  BY <1>1, Inductive, PTL

-----------------------------------------------------------------------------
(***************************************************************************)
(* The upgrade.                                                            *)
(***************************************************************************)

\* From the upgrade on, a response whose handler has to run is the last.
LEMMA UpgradeQueue ==
  ASSUME IInv, Upgrading, rd = "upgrade" \/ stage = "websocket", wr = "ok"
  PROVE  /\ Tail(m_response_queue) = <<>>
         /\ Head(m_response_queue).keep_alive
<1>1. m_response_queue # <<>> /\ m_response_queue \in Seq(Response) /\ Len(wire) \in Nat
  BY DEF IInv, Types, Control, Fronted
<1>2. /\ Tail(m_response_queue) \in Seq(Response)
      /\ Head(m_response_queue) = m_response_queue[1] /\ 1 \in 1..Len(m_response_queue)
  BY <1>1, TailQueue
<1>3. Len(wire) = Len(handled) /\ \A i \in 1..Len(handled) : handled[i]
  BY DEF Upgrading
<1>c. Unsent = Tail(m_response_queue)
  BY DEF IInv, Front, Unsent
<1>4. Len(wire) + Len(Tail(m_response_queue)) = Len(handled)
  BY <1>c DEF IInv, AnswersInOrder
<1>a. /\ Len(wire) \in Nat /\ Len(Tail(m_response_queue)) \in Nat
      /\ Len(wire) + Len(Tail(m_response_queue)) = Len(wire)
  BY <1>1, <1>2, <1>3, <1>4
<1>b. \A x, y \in Nat : x + y = x => y = 0
  OBVIOUS
<1>5. Len(Tail(m_response_queue)) = 0
  BY <1>a, <1>b
<1>6. Tail(m_response_queue) = <<>>
  BY <1>2, <1>5, SMTT(20)
<1>7. Head(m_response_queue).keep_alive
  BY <1>2, <1>3 DEF IInv, Kept
<1> QED
  BY <1>6, <1>7

\* An upgrade is read from a patient peer when the session is at rest.
LEMMA UpgradeRead ==
  ASSUME IInv, "upgrade" \notin Hasty, ReadEnds("upgrade")
  PROVE  /\ ~shut /\ sd = 0 /\ wr \in {"idle", "ok"}
         /\ Len(wire) = Len(handled)
         /\ \A i \in 1..Len(handled) : handled[i]
<1>1. /\ rd = "busy" /\ Len(wire) = Len(handled)
      /\ \A i \in 1..Len(handled) : handled[i]
  BY DEF ReadEnds, Patient
<1>2. ~stopped
  BY <1>1 DEF IInv, Control, Room
<1>3. ~shut /\ sd = 0
  BY <1>1, <1>2 DEF IInv, Cause, Types
<1>4. ASSUME wr \in {"busy", "late", "error"} PROVE FALSE
  <2>1. m_response_queue # <<>> /\ m_response_queue \in Seq(Response) /\ Len(wire) \in Nat
    BY <1>4 DEF IInv, Types, Control, Fronted
  <2>2. Unsent = m_response_queue
    BY <1>4 DEF IInv, Front, Unsent
  <2>3. Len(wire) + Len(m_response_queue) = Len(handled)
    BY <2>2 DEF IInv, AnswersInOrder
  <2>4. Len(m_response_queue) \in Nat \ {0}
    BY <2>1, TailQueue
  <2> QED
    BY <1>1, <2>1, <2>3, <2>4
<1> QED
  BY <1>1, <1>3, <1>4 DEF IInv, Types

\* Nothing is misused in the beginning.
LEMMA PatientInit == Init => Upgrading /\ NoMisuse
BY DEF Init, Upgrading, NoMisuse

\* Nothing starts between an upgrade and the release of the stream.
LEMMA UpgradingStep ==
  ASSUME IInv, Upgrading, "upgrade" \notin Hasty, [Next]_vars
  PROVE  Upgrading'
<1> USE DEF session, stream, history
<1>0. Types /\ Fresh /\ Room /\ Upgrading /\ (stage = "websocket" => rd = "idle")
  BY DEF IInv, Control, Room, Upgrading
<1>1. CASE Run
  BY <1>1, <1>0 DEF Types, Fresh, Room, Upgrading, Run, Recv
<1>2. CASE OnHandshake
  BY <1>2, <1>0 DEF Types, Fresh, Room, Upgrading, OnHandshake, Recv
<1>3. CASE OnHandshakeError
  BY <1>3, <1>0 DEF Types, Fresh, Room, Upgrading, OnHandshakeError
<1>4. CASE OnRecvEnd
  BY <1>4, <1>0 DEF Types, Fresh, Room, Upgrading, OnRecvEnd, Recv, Eof
<1>5. CASE OnRecvError
  BY <1>5, <1>0 DEF Types, Fresh, Room, Upgrading, OnRecvError, Recv
<1>6. CASE OnRecvUpgrade
  BY <1>6, <1>0 DEF Types, Fresh, Room, Upgrading, OnRecvUpgrade, Recv
<1>7. CASE OnRecvUnsupported
  BY <1>7, <1>0 DEF Types, Fresh, Room, Upgrading, OnRecvUnsupported, Recv
<1>8. CASE OnRecvRequest
  <2>1. rd' # "upgrade" /\ stage' # "websocket"
    BY <1>0, <1>8 DEF OnRecvRequest, Recv
  <2> QED
    BY <2>1 DEF Upgrading
<1>9. CASE OnSendError
  BY <1>9, <1>0 DEF Types, Fresh, Room, Upgrading, OnSendError
<1>10. CASE OnSendClose
  <2>1. ~(rd = "upgrade" \/ stage = "websocket")
    BY <1>10, UpgradeQueue DEF OnSendClose
  <2> QED
    BY <1>10, <2>1 DEF Upgrading, OnSendClose
<1>11. CASE OnSend
  <2>1. SUFFICES ASSUME rd' = "upgrade" \/ stage' = "websocket" PROVE Upgrading'
    BY DEF Upgrading
  <2>2. rd = "upgrade" \/ stage = "websocket"
    BY <1>11, <2>1 DEF OnSend
  <2>3. wr' = "idle"
    BY <1>11, <2>2, UpgradeQueue DEF OnSend, Popped, Send
  <2> QED
    BY <1>0, <1>11, <2>2, <2>3 DEF OnSend, Upgrading
<1>12. CASE OnShutdown
  BY <1>12, <1>0 DEF Types, Fresh, Room, Upgrading, OnShutdown
<1>13. CASE Reads
  <2>1. CASE ReadEnds("upgrade")
    BY <1>0, <2>1, UpgradeRead DEF ReadEnds, Upgrading
  <2>2. CASE ~ReadEnds("upgrade")
    BY <1>0, <1>13, <2>2 DEF Reads, ReadFails, ReadEnds, Upgrading
  <2> QED
    BY <2>1, <2>2
<1>14. CASE WriteOk
  BY <1>14, <1>0 DEF Types, Fresh, Room, Upgrading, WriteOk
<1>15. CASE WriteFails
  BY <1>15, <1>0 DEF Types, Fresh, Room, Upgrading, WriteFails, Writing
<1>16. CASE UNCHANGED vars
  BY <1>16, <1>0 DEF Types, Fresh, Room, Upgrading, vars
<1> QED
  BY <1>1, <1>2, <1>3, <1>4, <1>5, <1>6, <1>7, <1>8, <1>9, <1>10, <1>11, <1>12,
     <1>13, <1>14, <1>15, <1>16 DEF Next, Handlers, Writes

\* No step gives the stream an operation it cannot take.
LEMMA NoMisuseStep ==
  ASSUME IInv, Upgrading, NoMisuse, "upgrade" \notin Hasty, [Next]_vars
  PROVE  NoMisuse'
<1> USE DEF session, stream, history
<1>0. Types /\ Fresh /\ Room /\ Upgrading /\ (stage = "websocket" => rd = "idle")
  BY DEF IInv, Control, Room, Upgrading
<1>a. misuse = {}
  BY DEF NoMisuse
<1>1. CASE Run
  BY <1>1, <1>0, <1>a DEF Types, NoMisuse, Misuse, Run, Recv
<1>2. CASE OnHandshake
  BY <1>2, <1>0, <1>a DEF Types, NoMisuse, Misuse, OnHandshake, Recv
<1>3. CASE OnHandshakeError
  BY <1>3, <1>0, <1>a DEF Types, NoMisuse, Misuse, OnHandshakeError
<1>4. CASE OnRecvEnd
  BY <1>4, <1>0, <1>a DEF Types, NoMisuse, Misuse, OnRecvEnd, Recv, Eof
<1>5. CASE OnRecvError
  BY <1>5, <1>0, <1>a DEF Types, NoMisuse, Misuse, OnRecvError, Recv
<1>6. CASE OnRecvUpgrade
  <2>1. ~Writing /\ sd = 0
    BY <1>0, <1>6 DEF OnRecvUpgrade, Upgrading, Writing
  <2> QED
    BY <1>a, <1>6, <2>1 DEF OnRecvUpgrade, NoMisuse
<1>7. CASE OnRecvUnsupported
  BY <1>7, <1>0, <1>a DEF Types, NoMisuse, Misuse, OnRecvUnsupported, Recv
<1>8. CASE OnRecvRequest
  <2>1. stage # "websocket"
    BY <1>0, <1>8 DEF OnRecvRequest
  <2>2. m_response_queue = <<>> => wr = "idle"
    BY DEF IInv, Control, Fronted
  <2>3. First(m_response_queue') => m_response_queue = <<>>
    BY <1>0, <1>8, RequestFacts, QueueLength DEF First
  <2>4. Misuse(FALSE, First(m_response_queue'), FALSE)
    BY <1>8 DEF OnRecvRequest
  <2> QED
    BY <1>a, <2>1, <2>2, <2>3, <2>4 DEF Misuse, NoMisuse, Writing
<1>9. CASE OnSendError
  BY <1>9, <1>0, <1>a DEF Types, NoMisuse, Misuse, OnSendError
<1>10. CASE OnSendClose
  <2>1. stage # "websocket"
    BY <1>10, UpgradeQueue DEF OnSendClose
  <2> QED
    BY <1>10, <1>a, <2>1 DEF OnSendClose, Misuse, NoMisuse
<1>11. CASE OnSend
  <2>1. Resumes(m_response_queue) => rd # "busy" /\ stage # "websocket"
    BY <1>0, LimitAssumption, QueueLength DEF Room, Resumes, Upgrading
  <2>2. Popped(m_response_queue) # <<>> => ~Writing /\ stage # "websocket"
    BY <1>11, UpgradeQueue DEF OnSend, Popped, Writing
  <2>3. Misuse(Resumes(m_response_queue), Popped(m_response_queue) # <<>>, FALSE)
    BY <1>11 DEF OnSend
  <2> QED
    BY <1>a, <2>1, <2>2, <2>3 DEF Misuse, NoMisuse, Writing
<1>12. CASE OnShutdown
  BY <1>12, <1>0, <1>a DEF Types, NoMisuse, Misuse, OnShutdown
<1>13. CASE Reads
  BY <1>13, <1>0, <1>a DEF Types, NoMisuse, Misuse, Reads, ReadFails, ReadEnds
<1>14. CASE WriteOk
  BY <1>14, <1>0, <1>a DEF Types, NoMisuse, Misuse, WriteOk
<1>15. CASE WriteFails
  BY <1>15, <1>0, <1>a DEF Types, NoMisuse, Misuse, WriteFails, Writing
<1>16. CASE UNCHANGED vars
  BY <1>16, <1>0, <1>a DEF Types, NoMisuse, Misuse, vars
<1> QED
  BY <1>1, <1>2, <1>3, <1>4, <1>5, <1>6, <1>7, <1>8, <1>9, <1>10, <1>11, <1>12,
     <1>13, <1>14, <1>15, <1>16 DEF Next, Handlers, Writes

\* With a peer that upgrades only when it has its answers, the stream is given
\* one read and one write at a time and is at rest when it is released.
THEOREM OneReaderOneWriter == ASSUME "upgrade" \notin Hasty PROVE Spec => []NoMisuse
<1>1. Init => IInv /\ Upgrading /\ NoMisuse
  BY TypesInit, ControlInit, AnswersInit, PatientInit DEF IInv
<1>2. IInv /\ Upgrading /\ NoMisuse /\ [Next]_vars => IInv' /\ Upgrading' /\ NoMisuse'
  BY TypesStep, FreshStep, RoomStep, FrontedStep, FailedStep, ShutdownsStep, WriterStep,
     ReaderStep, KeptStep, CauseStep, FrontStep, AnswersStep, UpgradingStep,
     NoMisuseStep DEF IInv, Control
<1> QED
  BY <1>1, <1>2, PTL DEF Spec

-----------------------------------------------------------------------------
(***************************************************************************)
(* What is answered before this side is shut down.                         *)
(***************************************************************************)

\* What a peer that waits for its answers before it ends its side leaves to be
\* answered when the session shuts down: nothing, or what came behind a request
\* that closes the connection.
AnsweredFirst ==
  /\ rd = "end_of_stream" => Len(wire) = Len(handled)
  /\ shut => \/ stopped /\ Len(wire) = Len(handled)
             \/ \E i \in 1..Len(wire) : ~handled[i]

\* While a response is being written, a request waits for its answer.
LEMMA WritingWaits ==
  ASSUME IInv, wr \in {"busy", "late", "error"}
  PROVE  /\ m_response_queue # <<>> /\ ~Written
         /\ Len(wire) \in Nat /\ Len(handled) \in Nat /\ Len(wire) < Len(handled)
<1>1. /\ m_response_queue # <<>> /\ m_response_queue \in Seq(Response)
      /\ Len(wire) \in Nat /\ Len(handled) \in Nat
  BY DEF IInv, Types, Control, Fronted
<1>2. Unsent = m_response_queue
  BY DEF IInv, Front, Unsent
<1>3. Len(wire) + Len(m_response_queue) = Len(handled)
  BY <1>2 DEF IInv, AnswersInOrder
<1>4. Len(m_response_queue) \in Nat \ {0}
  BY <1>1, TailQueue
<1> QED
  BY <1>1, <1>3, <1>4 DEF IInv, Front

\* No more is written than was handled.
LEMMA WireLength ==
  ASSUME IInv
  PROVE  Len(wire) \in Nat /\ Len(handled) \in Nat /\ Len(wire) <= Len(handled)
<1>1. Len(wire) \in Nat /\ Len(handled) \in Nat /\ m_response_queue \in Seq(Response)
  BY DEF IInv, Types
<1>2. Unsent \in Seq(Response)
  BY <1>1, TailQueue DEF Unsent, Written
<1>3. Len(Unsent) \in Nat /\ Len(wire) + Len(Unsent) = Len(handled)
  BY <1>2 DEF IInv, AnswersInOrder
<1> QED
  BY <1>1, <1>3

\* The response whose handler runs was written, and closes the connection if
\* its request did.
LEMMA AnswerSent ==
  ASSUME IInv, wr = "ok"
  PROVE  /\ m_response_queue # <<>> /\ Head(m_response_queue).id \in 1..Len(wire)
         /\ Head(m_response_queue).keep_alive = handled[Head(m_response_queue).id]
<1> HIDE DEF Response
<1>1. m_response_queue # <<>> /\ m_response_queue \in Seq(Response) /\ Written
  BY DEF IInv, Types, Control, Fronted, Front
<1>2. 1 \in 1..Len(m_response_queue) /\ Head(m_response_queue) = m_response_queue[1]
  BY <1>1, TailQueue
<1>3. /\ Head(m_response_queue).id \in 1..Len(handled)
      /\ Head(m_response_queue).keep_alive = handled[Head(m_response_queue).id]
  BY <1>2 DEF IInv, Kept
<1> QED
  BY <1>1, <1>3, WireLength DEF Written

\* Every step keeps it.
LEMMA AnsweredFirstStep ==
  ASSUME IInv, AnsweredFirst, "end_of_stream" \notin Hasty, [Next]_vars
  PROVE  AnsweredFirst'
<1> USE DEF session, stream, history
<1>0. Types /\ Fresh /\ Room /\ Len(wire) \in Nat /\ Len(handled) \in Nat /\ Len(wire) <= Len(handled)
  BY WireLength DEF IInv, Control
<1>1. CASE Run
  BY <1>1, <1>0 DEF AnsweredFirst, Fresh, Run, Recv
<1>2. CASE OnHandshake
  BY <1>2, <1>0 DEF AnsweredFirst, Fresh, OnHandshake, Recv
<1>3. CASE OnHandshakeError
  BY <1>3 DEF AnsweredFirst, OnHandshakeError
<1>4. CASE OnRecvEnd
  BY <1>4 DEF AnsweredFirst, OnRecvEnd, Recv, Eof
<1>5. CASE OnRecvError
  BY <1>5 DEF AnsweredFirst, OnRecvError, Recv
<1>6. CASE OnRecvUpgrade
  BY <1>6 DEF AnsweredFirst, OnRecvUpgrade, Recv
<1>7. CASE OnRecvUnsupported
  BY <1>7 DEF AnsweredFirst, OnRecvUnsupported, Recv
<1>8. CASE OnRecvRequest
  <2>1. rd' # "end_of_stream" /\ ~stopped /\ UNCHANGED <<shut, wire>>
    BY <1>8, RequestFacts DEF OnRecvRequest
  <2>2. \A i \in 1..Len(wire) : handled'[i] = handled[i]
    BY <1>0, <1>8, RequestEntries
  <2> QED
    BY <2>1, <2>2 DEF AnsweredFirst
<1>9. CASE OnSendError
  BY <1>9 DEF AnsweredFirst, OnSendError
<1>10. CASE OnSendClose
  <2>1. \E i \in 1..Len(wire) : ~handled[i]
    BY <1>10, AnswerSent DEF OnSendClose
  <2> QED
    BY <1>10, <2>1 DEF AnsweredFirst, OnSendClose
<1>11. CASE OnSend
  <2>1. rd' = "end_of_stream" => rd = "end_of_stream"
    BY <1>11, SendFacts
  <2> QED
    BY <1>11, <2>1 DEF AnsweredFirst, OnSend
<1>12. CASE OnShutdown
  BY <1>12 DEF AnsweredFirst, OnShutdown
<1>13. CASE Reads
  <2>1. CASE ReadEnds("end_of_stream")
    BY <2>1 DEF ReadEnds, Patient, AnsweredFirst
  <2>2. CASE ~ReadEnds("end_of_stream")
    BY <1>13, <2>2 DEF Reads, ReadFails, ReadEnds, AnsweredFirst
  <2> QED
    BY <2>1, <2>2
<1>14. CASE WriteOk
  <2>1. Len(wire) # Len(handled)
    BY <1>14, WritingWaits DEF WriteOk
  <2>2. \A i \in 1..Len(wire) : i \in 1..Len(wire')
    BY <1>0, <1>14 DEF Types, WriteOk
  <2> QED
    BY <1>14, <2>1, <2>2 DEF AnsweredFirst, WriteOk
<1>15. CASE WriteFails
  BY <1>15 DEF AnsweredFirst, WriteFails
<1>16. CASE UNCHANGED vars
  BY <1>16 DEF AnsweredFirst, vars
<1> QED
  BY <1>1, <1>2, <1>3, <1>4, <1>5, <1>6, <1>7, <1>8, <1>9, <1>10, <1>11, <1>12,
     <1>13, <1>14, <1>15, <1>16 DEF Next, Handlers, Writes

\* What readme.md says of responses holds of every peer that waits for its
\* answers before it ends its side: this side is shut down only when they are
\* sent, but for those behind a request that closes the connection.
THEOREM AnsweredFirstIfPatient ==
  ASSUME "end_of_stream" \notin Hasty PROVE Spec => []AnsweredBeforeShutdown
<1>1. Init => AnsweredFirst
  BY DEF Init, AnsweredFirst
<1>2. IInv /\ AnsweredFirst /\ [Next]_vars => AnsweredFirst'
  BY AnsweredFirstStep
<1>3. ASSUME IInv, AnsweredFirst PROVE AnsweredBeforeShutdown
  <2>1. SUFFICES ASSUME shut, NEW n \in 1..Len(handled), \A i \in 1..n : handled[i]
                 PROVE  n <= Len(wire) + (IF wr = "busy" THEN 1 ELSE 0)
    BY DEF AnsweredBeforeShutdown
  <2>2. n <= Len(wire)
    BY <1>3, <2>1, WireLength DEF AnsweredFirst
  <2> QED
    BY <1>3, <2>2, WireLength
<1> QED
  BY <1>1, <1>2, <1>3, Inductive, PTL DEF Spec

-----------------------------------------------------------------------------
(***************************************************************************)
(* The work that is left.                                                  *)
(***************************************************************************)

\* An operation costs its end and the handler of its end, a handler what it
\* may start: each step is paid by what it ends.
Cost(operation) == IF operation = "idle" THEN 0
                   ELSE IF operation \in {"busy", "late"} THEN 3 ELSE 2

Start(at) == IF at = "new" THEN 8 ELSE IF at = "handshake" THEN 4 ELSE 0

Work == 10 * (MaxRequests - Len(handled)) + 5 * Len(m_response_queue)
        + Cost(rd) + Cost(wr) + sd + Start(stage)

\* The peer sends at most MaxRequests requests.
Requested == /\ Len(handled) <= MaxRequests
             /\ rd \in {"keep", "close"} => Len(handled) < MaxRequests

LEMMA RequestedStep ==
  ASSUME IInv, Requested, [Next]_vars
  PROVE  Requested'
<1> USE DEF session, stream, history
<1>0. Types /\ Len(handled) \in Nat /\ MaxRequests \in Nat
  BY LimitAssumption DEF IInv, Types
<1>1. CASE OnRecvRequest
  <2>1. rd' \in {"idle", "busy"} /\ Len(handled') = Len(handled) + 1
    BY <1>1, RequestFacts, RequestEntries
  <2> QED
    BY <1>0, <1>1, <2>1 DEF Requested, OnRecvRequest
<1>2. CASE Reads
  BY <1>2 DEF Requested, Reads, ReadFails, ReadEnds
<1>3. CASE UNCHANGED handled /\ rd' \in {rd, "idle", "busy"}
  BY <1>3 DEF Requested
<1> QED
  BY <1>1, <1>2, <1>3 DEF Next, Handlers, Writes, vars, Run, OnHandshake, OnHandshakeError,
     OnRecvEnd, OnRecvError, OnRecvUpgrade, OnRecvUnsupported, OnSendError, OnSendClose,
     OnSend, OnShutdown, WriteOk, WriteFails, Recv

\* Every step of a session leaves less to do.
LEMMA LessWork ==
  ASSUME IInv, Requested, Next
  PROVE  Work' < Work
<1> USE DEF session, stream, history
<1> HIDE DEF Response
<1>0. /\ Types /\ Fresh /\ Room /\ sd \in Nat /\ MaxRequests \in Nat
      /\ Len(handled) \in Nat /\ Len(m_response_queue) \in Nat /\ queue_limit \in Nat \ {0}
  BY LimitAssumption DEF IInv, Control, Types
<1>c. /\ Cost("idle") = 0 /\ Cost("busy") = 3 /\ Cost("late") = 3
      /\ \A x \in {"ok", "error", "end_of_stream"} \cup Requests : Cost(x) = 2
      /\ \A x : Cost(x) \in {0, 2, 3}
  BY DEF Cost
<1>s. Start("new") = 8 /\ Start("handshake") = 4 /\ \A x \in {"http", "websocket", "refused"} : Start(x) = 0
  BY DEF Start
<1>n. Cost(rd) \in Nat /\ Cost(wr) \in Nat /\ Start(stage) \in Nat
  BY <1>c DEF Start
<1> HIDE DEF Cost, Start
<1>1. CASE Run
  <2>1. /\ Start(stage) = 8 /\ Start(stage') \in {0, 4} /\ Cost(rd) = 0 /\ Cost(rd') \in {0, 3}
        /\ UNCHANGED <<handled, m_response_queue, wr, sd>>
    BY <1>0, <1>1, <1>c, <1>s DEF Fresh, Run, Recv
  <2>2. Start(stage') + Cost(rd') < 8
    BY <1>1, <1>c, <1>s DEF Run, Recv
  <2> QED
    BY <1>0, <1>n, <2>1, <2>2 DEF Work
<1>2. CASE OnHandshake
  <2>1. /\ Start(stage) = 4 /\ Start(stage') = 0 /\ Cost(rd) = 0 /\ Cost(rd') = 3
        /\ UNCHANGED <<handled, m_response_queue, wr, sd>>
    BY <1>0, <1>2, <1>c, <1>s DEF Fresh, OnHandshake, Recv
  <2> QED
    BY <1>0, <1>n, <2>1 DEF Work
<1>3. CASE OnHandshakeError
  <2>1. /\ Start(stage) = 4 /\ Start(stage') = 0
        /\ UNCHANGED <<handled, m_response_queue, rd, wr, sd>>
    BY <1>3, <1>s DEF OnHandshakeError
  <2> QED
    BY <1>0, <1>n, <2>1 DEF Work
<1>4. CASE OnRecvEnd
  <2>1. /\ Cost(rd) = 2 /\ Cost(rd') = 0 /\ sd' \in {sd, sd + 1}
        /\ UNCHANGED <<handled, m_response_queue, wr, stage>>
    BY <1>4, <1>c DEF OnRecvEnd, Recv, Eof
  <2> QED
    BY <1>0, <1>n, <2>1 DEF Work
<1>5. CASE OnRecvError
  <2>1. /\ Cost(rd) = 2 /\ Cost(rd') = 0
        /\ UNCHANGED <<handled, m_response_queue, wr, sd, stage>>
    BY <1>5, <1>c DEF OnRecvError, Recv
  <2> QED
    BY <1>0, <1>n, <2>1 DEF Work
<1>6. CASE OnRecvUpgrade
  <2>1. /\ Cost(rd) = 2 /\ Cost(rd') = 0
        /\ UNCHANGED <<handled, m_response_queue, wr, sd>>
    BY <1>6, <1>c DEF OnRecvUpgrade, Recv
  <2>2. stage = "http" \/ stage = "websocket"
    BY <1>0, <1>6 DEF Types, Fresh, OnRecvUpgrade
  <2>3. Start(stage) = 0 /\ Start(stage') = 0
    BY <1>6, <1>s, <2>2 DEF OnRecvUpgrade
  <2> QED
    BY <1>0, <1>n, <2>1, <2>3 DEF Work
<1>7. CASE OnRecvUnsupported
  <2>1. /\ Cost(rd) = 2 /\ Cost(rd') = 0
        /\ UNCHANGED <<handled, m_response_queue, wr, sd, stage>>
    BY <1>7, <1>c DEF OnRecvUnsupported, Recv
  <2> QED
    BY <1>0, <1>n, <2>1 DEF Work
<1>8. CASE OnRecvRequest
  <2>1. /\ Len(handled') = Len(handled) + 1
        /\ Len(m_response_queue') = Len(m_response_queue) + 1
    BY <1>8, RequestFacts, RequestEntries
  <2>2. Cost(rd) = 2 /\ Cost(rd') \in {0, 3} /\ UNCHANGED <<sd, stage>>
    BY <1>8, <1>c, RequestFacts DEF OnRecvRequest
  <2>3. Cost(wr') \in Nat /\ Cost(wr') <= Cost(wr) + 3
    BY <1>8, <1>c, <1>n, RequestFacts
  <2>4. Cost(rd') \in Nat /\ Cost(rd') <= Cost(rd) + 1
    BY <2>2
  <2>5. 10 * (MaxRequests - Len(handled')) = 10 * (MaxRequests - Len(handled)) - 10
    BY <1>0, <2>1
  <2>6. 5 * Len(m_response_queue') = 5 * Len(m_response_queue) + 5
    BY <1>0, <2>1
  <2>7. sd' = sd /\ Start(stage') = Start(stage)
    BY <2>2
  <2>8. 10 * (MaxRequests - Len(handled)) \in Int /\ 5 * Len(m_response_queue) \in Int
    BY <1>0
  <2>9. \A a, b, r, w, s, t \in Int : \A r2, w2 \in Int :
          r2 <= r + 1 /\ w2 <= w + 3 =>
            (a - 10) + (b + 5) + r2 + w2 + s + t < a + b + r + w + s + t
    OBVIOUS
  <2> DEFINE a == 10 * (MaxRequests - Len(handled))
             b == 5 * Len(m_response_queue)
  <2>10. Work' = (a - 10) + (b + 5) + Cost(rd') + Cost(wr') + sd + Start(stage)
    BY <2>5, <2>6, <2>7 DEF Work
  <2>11. Work = a + b + Cost(rd) + Cost(wr) + sd + Start(stage)
    BY DEF Work
  <2>12. a \in Int /\ b \in Int /\ sd \in Int
    BY <1>0, <2>8
  <2> HIDE DEF a, b
  <2> QED
    BY <1>n, <2>3, <2>4, <2>9, <2>10, <2>11, <2>12
<1>9. CASE OnSendError
  <2>1. /\ Cost(wr) = 2 /\ Cost(wr') = 0
        /\ UNCHANGED <<handled, m_response_queue, rd, sd, stage>>
    BY <1>9, <1>c DEF OnSendError
  <2> QED
    BY <1>0, <1>n, <2>1 DEF Work
<1>10. CASE OnSendClose
  <2>1. /\ Cost(wr) = 2 /\ Cost(wr') = 0 /\ sd' \in {sd, sd + 1}
        /\ UNCHANGED <<handled, m_response_queue, rd, stage>>
    BY <1>10, <1>c DEF OnSendClose, Eof
  <2> QED
    BY <1>0, <1>n, <2>1 DEF Work
<1>11. CASE OnSend
  <2>1. Len(m_response_queue') = Len(m_response_queue) - 1
    BY <1>11, SendFacts
  <2>2. Cost(wr) = 2 /\ Cost(wr') \in {0, 3} /\ UNCHANGED <<handled, sd, stage>>
    BY <1>11, <1>c, SendFacts DEF OnSend
  <2>3. CASE Len(m_response_queue) = queue_limit
    <3>1. rd = "idle" /\ rd' = "busy"
      BY <1>0, <1>11, <2>3, SendFacts DEF Room
    <3>2. Cost(rd) = 0 /\ Cost(rd') = 3
      BY <1>c, <3>1
    <3> QED
      BY <1>0, <1>n, <2>1, <2>2, <3>2, SMTT(30) DEF Work
  <2>4. CASE Len(m_response_queue) # queue_limit
    <3>1. rd' = rd
      BY <1>11, <2>4, SendFacts
    <3> QED
      BY <1>0, <1>n, <2>1, <2>2, <3>1, SMTT(30) DEF Work
  <2> QED
    BY <2>3, <2>4
<1>12. CASE OnShutdown
  <2>1. sd' = sd - 1 /\ UNCHANGED <<handled, m_response_queue, rd, wr, stage>>
    BY <1>12 DEF OnShutdown
  <2> QED
    BY <1>0, <1>n, <2>1 DEF Work
<1>13. CASE Reads
  <2>1. /\ Cost(rd) = 3 /\ Cost(rd') = 2
        /\ UNCHANGED <<handled, m_response_queue, wr, sd, stage>>
    BY <1>13, <1>c DEF Reads, ReadFails, ReadEnds
  <2> QED
    BY <1>0, <1>n, <2>1 DEF Work
<1>14. CASE WriteOk
  <2>1. /\ Cost(wr) = 3 /\ Cost(wr') = 2
        /\ UNCHANGED <<handled, m_response_queue, rd, sd, stage>>
    BY <1>14, <1>c DEF WriteOk
  <2> QED
    BY <1>0, <1>n, <2>1 DEF Work
<1>15. CASE WriteFails
  <2>1. /\ Cost(wr) = 3 /\ Cost(wr') = 2
        /\ UNCHANGED <<handled, m_response_queue, rd, sd, stage>>
    BY <1>15, <1>c DEF WriteFails, Writing
  <2> QED
    BY <1>0, <1>n, <2>1 DEF Work
<1> QED
  BY <1>1, <1>2, <1>3, <1>4, <1>5, <1>6, <1>7, <1>8, <1>9, <1>10, <1>11, <1>12,
     <1>13, <1>14, <1>15 DEF Next, Handlers, Writes

\* A session has no work of its own: whatever the peer, the timers and the
\* stream do, every step lowers a number that is 10 for each request of the peer
\* and 8 in the beginning.  A peer that sends finitely much cannot keep it busy.
THEOREM NoEndlessWork ==
  Spec => /\ [](Work \in Nat)
          /\ [][Work' < Work]_vars
<1>1. Init => Requested
  BY LimitAssumption DEF Init, Requested
<1>2. IInv /\ Requested /\ [Next]_vars => Requested'
  BY RequestedStep
<1>3. IInv /\ Requested /\ [Next]_vars => [Work' < Work]_vars
  BY LessWork
<1>4. ASSUME IInv, Requested PROVE Work \in Nat
  <2>1. /\ Len(handled) \in Nat /\ Len(m_response_queue) \in Nat /\ sd \in Nat
        /\ MaxRequests - Len(handled) \in Nat
    BY <1>4, LimitAssumption DEF IInv, Types, Requested
  <2>2. Cost(rd) \in Nat /\ Cost(wr) \in Nat /\ Start(stage) \in Nat
    BY DEF Cost, Start
  <2> QED
    BY <2>1, <2>2, SMTT(30) DEF Work
<1> QED
  BY <1>1, <1>2, <1>3, <1>4, Inductive, PTL DEF Spec

-----------------------------------------------------------------------------
(***************************************************************************)
(* Where the work ends.                                                    *)
(***************************************************************************)

\* A session with nothing outstanding, on a stream that did not fail and was not
\* shut down, owes nothing: every request it handled was answered, and on_recv
\* gave reading up.
SettlesWell ==
  stage = "http" /\ rd = "idle" /\ wr = "idle" /\ ~Over =>
    stopped /\ m_response_queue = <<>> /\ Len(wire) = Len(handled)

\* Neither on_recv and on_send, which wake each other, nor the limit of the
\* queue leave a request waiting for an answer that does not come.
THEOREM SettlesRight == Spec => []SettlesWell
<1>1. ASSUME IInv PROVE SettlesWell
  <2> SUFFICES ASSUME stage = "http", rd = "idle", wr = "idle", ~Over
               PROVE  stopped /\ m_response_queue = <<>> /\ Len(wire) = Len(handled)
    BY DEF SettlesWell
  <2>1. m_response_queue = <<>> /\ stopped
    BY <1>1 DEF IInv, WriterAwake, ReaderAwake
  <2>2. Unsent = <<>>
    BY <2>1 DEF Unsent, Written
  <2>3. Len(wire) \in Nat /\ Len(wire) + 0 = Len(handled)
    BY <1>1, <2>2 DEF IInv, Types, AnswersInOrder
  <2> QED
    BY <2>1, <2>3
<1> QED
  BY <1>1, Inductive, PTL
===============================================================================
