---------------------------- MODULE PipelineProofs ----------------------------
(***************************************************************************)
(* The http session implements the pipeline, for every queue limit, number *)
(* of requests and protocol mask, and every peer that upgrades only when   *)
(* it has its answers.                                                     *)
(***************************************************************************)
EXTENDS HttpSessionProofs

-----------------------------------------------------------------------------
(***************************************************************************)
(* The last answer.                                                        *)
(***************************************************************************)

\* The answer that closes the connection was the last to be written, and its
\* response stays at the front of the queue.
Closed ==
  /\ wr = "ok" => Head(m_response_queue).id = Len(wire)
  /\ wire # <<>> /\ ~handled[Len(wire)] =>
       /\ wr \in {"ok", "idle"} /\ m_response_queue # <<>>
       /\ Head(m_response_queue).id = Len(wire)

\* The last answer that was written is to a request that was handled.
LEMMA LastAnswer ==
  ASSUME IInv, wire # <<>>
  PROVE  Len(wire) \in 1..Len(handled)
<1>1. Len(wire) # 0
  BY DEF IInv, Types
<1> QED
  BY <1>1, WireLength

\* Handling a request keeps what is at the front.
LEMMA RequestFront ==
  ASSUME IInv, OnRecvRequest, m_response_queue # <<>>
  PROVE  Head(m_response_queue') = Head(m_response_queue) /\ wr' = wr
<1> HIDE DEF Response
<1>1. /\ m_response_queue \in Seq(Response) /\ m_response_queue' \in Seq(Response)
      /\ m_response_queue' # <<>>
  BY RequestTypes, RequestFacts DEF IInv, Types
<1>2. 1 \in 1..Len(m_response_queue) /\ Head(m_response_queue) = m_response_queue[1]
  BY <1>1, TailQueue
<1>3. Head(m_response_queue') = m_response_queue'[1]
  BY <1>1, TailQueue
<1> QED
  BY <1>2, <1>3, RequestEntries, RequestFacts

\* The response whose handler keeps the connection is not the closing one.
LEMMA SendKeeps ==
  ASSUME IInv, Closed, OnSend
  PROVE  ~(wire # <<>> /\ ~handled[Len(wire)])
<1>1. wr = "ok" /\ Head(m_response_queue).keep_alive
  BY DEF OnSend
<1>2. handled[Head(m_response_queue).id] /\ Head(m_response_queue).id = Len(wire)
  BY <1>1, AnswerSent DEF Closed
<1> QED
  BY <1>2

\* Every step keeps it.
LEMMA ClosedStep ==
  ASSUME IInv, Closed, [Next]_vars
  PROVE  Closed'
<1> USE DEF session, stream, history
<1>0. Types /\ Fresh /\ Fronted
  BY DEF IInv, Control
<1>1. CASE Run
  BY <1>1 DEF Closed, Run
<1>2. CASE OnHandshake
  BY <1>2 DEF Closed, OnHandshake
<1>3. CASE OnHandshakeError
  BY <1>3 DEF Closed, OnHandshakeError
<1>4. CASE OnRecvEnd
  BY <1>4 DEF Closed, OnRecvEnd
<1>5. CASE OnRecvError
  BY <1>5 DEF Closed, OnRecvError
<1>6. CASE OnRecvUpgrade
  BY <1>6 DEF Closed, OnRecvUpgrade
<1>7. CASE OnRecvUnsupported
  BY <1>7 DEF Closed, OnRecvUnsupported
<1>8. CASE OnRecvRequest
  <2>1. wire' = wire
    BY <1>8 DEF OnRecvRequest
  <2>2. wire # <<>> => handled'[Len(wire)] = handled[Len(wire)]
    BY <1>8, LastAnswer, RequestEntries
  <2>3. wr' = "ok" => wr = "ok" /\ m_response_queue # <<>>
    BY <1>0, <1>8, RequestFacts DEF Fronted
  <2>4. m_response_queue' # <<>>
    BY <1>8, RequestFacts
  <2>5. m_response_queue # <<>> => Head(m_response_queue') = Head(m_response_queue) /\ wr' = wr
    BY <1>8, RequestFront
  <2> QED
    BY <2>1, <2>2, <2>3, <2>4, <2>5 DEF Closed
<1>9. CASE OnSendError
  BY <1>9 DEF Closed, OnSendError
<1>10. CASE OnSendClose
  BY <1>10 DEF Closed, OnSendClose
<1>11. CASE OnSend
  <2>1. UNCHANGED <<wire, handled>> /\ wr' # "ok"
    BY <1>11, SendFacts DEF OnSend
  <2> QED
    BY <1>11, <2>1, SendKeeps DEF Closed
<1>12. CASE OnShutdown
  BY <1>12 DEF Closed, OnShutdown
<1>13. CASE Reads
  BY <1>13 DEF Closed, Reads, ReadFails, ReadEnds
<1>14. CASE WriteOk
  <2>1. /\ m_response_queue # <<>> /\ ~Written /\ Len(wire) \in Nat
        /\ m_response_queue' = m_response_queue /\ wr' = "ok"
    BY <1>14, WritingWaits DEF WriteOk
  <2>2. Head(m_response_queue).id = Len(wire) + 1
    BY <2>1, NextAnswer
  <2>3. Len(wire') = Len(wire) + 1
    BY <1>0, <1>14, <2>2 DEF Types, WriteOk
  <2> QED
    BY <2>1, <2>2, <2>3 DEF Closed
<1>15. CASE WriteFails
  BY <1>15 DEF Closed, WriteFails, Writing
<1>16. CASE UNCHANGED vars
  BY <1>16 DEF Closed, vars
<1> QED
  BY <1>1, <1>2, <1>3, <1>4, <1>5, <1>6, <1>7, <1>8, <1>9, <1>10, <1>11, <1>12,
     <1>13, <1>14, <1>15, <1>16 DEF Next, Handlers, Writes

-----------------------------------------------------------------------------
(***************************************************************************)
(* What follows the closing answer.                                        *)
(***************************************************************************)

\* Only the last answer closes the connection.
OnlyLastCloses == \A i \in 1..Len(wire) : ~handled[i] => i = Len(wire)

LEMMA OnlyLastStep ==
  ASSUME IInv, Closed, OnlyLastCloses, [Next]_vars
  PROVE  OnlyLastCloses'
<1> USE DEF session, stream, history
<1>0. Types /\ Len(wire) \in Nat /\ Len(wire) <= Len(handled) /\ Len(handled) \in Nat
  BY WireLength DEF IInv
<1>1. CASE OnRecvRequest
  <2>1. wire' = wire
    BY <1>1 DEF OnRecvRequest
  <2>2. \A i \in 1..Len(wire) : handled'[i] = handled[i]
    BY <1>0, <1>1, RequestEntries
  <2> QED
    BY <2>1, <2>2 DEF OnlyLastCloses
<1>2. CASE WriteOk
  <2>1. /\ m_response_queue # <<>> /\ ~Written /\ wr = "busy" /\ handled' = handled
        /\ wire' = Append(wire, Head(m_response_queue).id)
    BY <1>2, WritingWaits DEF WriteOk
  <2>2. wire # <<>> => handled[Len(wire)]
    BY <2>1 DEF Closed
  <2>3. \A i \in 1..Len(wire) : i = Len(wire) => wire # <<>>
    OBVIOUS
  <2>4. \A i \in 1..Len(wire) : handled[i]
    BY <2>2, <2>3 DEF OnlyLastCloses
  <2>5. Head(m_response_queue).id = Len(wire) + 1
    BY <2>1, NextAnswer
  <2>6. Len(wire') = Len(wire) + 1
    BY <1>0, <2>1, <2>5 DEF Types
  <2> QED
    BY <1>0, <2>1, <2>4, <2>6 DEF OnlyLastCloses
<1>3. CASE UNCHANGED <<handled, wire>>
  BY <1>3 DEF OnlyLastCloses
<1> QED
  BY <1>1, <1>2, <1>3 DEF Next, Handlers, Reads, Writes, vars, Run, OnHandshake, OnHandshakeError,
     OnRecvEnd, OnRecvError, OnRecvUpgrade, OnRecvUnsupported, OnSendError, OnSendClose,
     OnSend, OnShutdown, ReadFails, ReadEnds, WriteFails

\* Nothing is answered behind a request that closes the connection, however
\* many were pipelined behind it, of any peer.
THEOREM ClosingIsLast == Spec => []OnlyLastCloses
<1>1. Init => Closed /\ OnlyLastCloses
  BY DEF Init, Closed, OnlyLastCloses
<1>2. IInv /\ Closed /\ OnlyLastCloses /\ [Next]_vars => Closed' /\ OnlyLastCloses'
  BY ClosedStep, OnlyLastStep
<1> QED
  BY <1>1, <1>2, Inductive, PTL DEF Spec

-----------------------------------------------------------------------------
(***************************************************************************)
(* The refinement, action by action.                                       *)
(***************************************************************************)

\* While a read is outstanding or its handler has to run, the session reads.
LEMMA Reading ==
  ASSUME IInv, Upgrading, rd # "idle"
  PROVE  stage = "http" /\ ~stopped /\ PublicStage = "reading"
<1>1. ~stopped
  BY DEF IInv, Control, Room
<1>2. stage = "http"
  BY <1>1 DEF IInv, Types, Control, Fresh, Upgrading
<1> QED
  BY <1>1, <1>2 DEF PublicStage

\* While a response is written, the session has read it, and no closing answer
\* was written.
LEMMA Answering ==
  ASSUME IInv, Upgrading, Closed, wr \in {"busy", "late"}
  PROVE  stage = "http" /\ PublicStage \in {"reading", "stopped"} /\ ~P!Closing
<1>1. stage = "http"
  BY DEF IInv, Types, Control, Fresh, Upgrading
<1> QED
  BY <1>1 DEF PublicStage, P!Closing, Closed

\* Steps that the service and the peer do not see.
LEMMA Unseen ==
  ASSUME UNCHANGED <<stage, stopped, shut, handled, wire>>,
         shut => (wr = "busy" <=> wr' = "busy")
  PROVE  UNCHANGED P!vars
BY DEF PublicStage, Sending, P!vars

\* run() and on_handshake.
LEMMA OpenStep ==
  ASSUME IInv, Run \/ OnHandshake \/ OnHandshakeError
  PROVE  P!Open \/ P!Refuse \/ UNCHANGED P!vars
<1> USE DEF session, stream, history
<1>0. stage \in {"new", "handshake"} /\ ~stopped /\ ~shut
  BY DEF IInv, Control, Fresh, Run, OnHandshake, OnHandshakeError
<1>a. UNCHANGED <<handled, wire, stopped, shut>>
  BY DEF Run, OnHandshake, OnHandshakeError
<1>1. PublicStage = "new" /\ UNCHANGED <<handled, wire, Sending>> /\ ~stopped'
  BY <1>0, <1>a DEF PublicStage, Sending
<1>2. stage' \in {"handshake", "http", "refused"}
  BY DEF Run, OnHandshake, OnHandshakeError
<1>3. PublicStage' \in {"new", "reading", "refused"}
  BY <1>1, <1>2 DEF PublicStage
<1> QED
  BY <1>1, <1>3 DEF P!Open, P!Refuse, P!vars

\* on_recv when it reads no more.
LEMMA StopStep ==
  ASSUME IInv, Upgrading,
         \/ OnRecvEnd \/ OnRecvError \/ OnRecvUnsupported
         \/ OnRecvUpgrade /\ "ws" \notin m_protocol
  PROVE  P!Stop
<1> USE DEF session, stream, history
<1>1. rd # "idle" /\ stopped' /\ stage' = stage
  BY DEF OnRecvEnd, OnRecvError, OnRecvUnsupported, OnRecvUpgrade
<1>2. stage = "http" /\ PublicStage = "reading"
  BY <1>1, Reading
<1>3. PublicStage' = "stopped"
  BY <1>1, <1>2 DEF PublicStage
<1>4. UNCHANGED <<handled, wire, wr>> /\ (shut => shut') /\ shut \in BOOLEAN
  BY DEF IInv, Types, OnRecvEnd, OnRecvError, OnRecvUnsupported, OnRecvUpgrade, Eof
<1>5. Sending' \in IF Sending = "open" THEN {"open", "last", "over"} ELSE {Sending}
  BY <1>4 DEF Sending
<1> QED
  BY <1>2, <1>3, <1>4, <1>5 DEF P!Stop

\* on_recv when the stream moves on.
LEMMA UpgradeStep ==
  ASSUME IInv, Upgrading, OnRecvUpgrade, "ws" \in m_protocol
  PROVE  P!Upgrade
<1> USE DEF session, stream, history
<1>1. rd = "upgrade" /\ stage' = "websocket" /\ UNCHANGED <<handled, wire, wr, shut>>
  BY DEF OnRecvUpgrade
<1>2. PublicStage = "reading" /\ PublicStage' = "upgraded"
  BY <1>1, Reading DEF PublicStage
<1>3. ~shut /\ Len(wire) = Len(handled) /\ \A i \in 1..Len(handled) : handled[i]
  BY <1>1 DEF Upgrading
<1>4. ~P!Closing
  BY <1>3, LastAnswer DEF P!Closing
<1>5. Sending = "open" /\ Sending' = "open"
  BY <1>1, <1>3 DEF Sending
<1> QED
  BY <1>1, <1>2, <1>3, <1>4, <1>5 DEF P!Upgrade

\* on_recv of a request.
LEMMA HandleStep ==
  ASSUME IInv, Upgrading, OnRecvRequest
  PROVE  \E keep \in BOOLEAN : P!Handle(keep)
<1> USE DEF session, stream, history
<1>1. /\ rd # "idle" /\ UNCHANGED <<stage, stopped, shut, wire>>
      /\ handled' = Append(handled, rd = "keep")
  BY DEF OnRecvRequest
<1>2. PublicStage = "reading" /\ PublicStage' = "reading"
  BY <1>1, Reading DEF PublicStage
<1>3. Len(handled) < Len(wire) + queue_limit
  <2>1. /\ Len(m_response_queue) < queue_limit /\ m_response_queue \in Seq(Response)
        /\ queue_limit \in Nat
    BY RequestFacts, LimitAssumption DEF IInv, Types
  <2>2. Len(Unsent) \in Nat /\ Len(Unsent) <= Len(m_response_queue)
    BY <2>1, TailQueue DEF Unsent, Written
  <2>3. Len(m_response_queue) \in Nat
    BY <2>1
  <2> QED
    BY <2>1, <2>2, <2>3, WireLength DEF IInv, AnswersInOrder
<1>4. Sending' = Sending
  <2>1. m_response_queue = <<>> => wr # "busy"
    BY DEF IInv, Control, Fronted
  <2> QED
    BY <1>1, <2>1, RequestFacts DEF Sending
<1>5. P!Handle(rd = "keep")
  BY <1>1, <1>2, <1>3, <1>4 DEF P!Handle
<1>6. (rd = "keep") \in BOOLEAN
  OBVIOUS
<1> QED
  BY <1>5, <1>6

\* A response is written, or is not.
LEMMA AnswerStep ==
  ASSUME IInv, Upgrading, Closed, WriteOk
  PROVE  P!Answer
<1> USE DEF session, stream, history
<1>1. /\ wr = "busy" /\ wr' = "ok" /\ UNCHANGED <<stage, stopped, shut, handled, m_response_queue>>
      /\ wire' = Append(wire, Head(m_response_queue).id)
  BY DEF WriteOk
<1>2. m_response_queue # <<>> /\ ~Written /\ Len(wire) < Len(handled)
  BY <1>1, WritingWaits
<1>3. wire' = Append(wire, Len(wire) + 1)
  BY <1>1, <1>2, NextAnswer
<1>4. PublicStage \in {"reading", "stopped"} /\ ~P!Closing /\ PublicStage' = PublicStage
  BY <1>1, Answering DEF PublicStage
<1>5. Sending # "over" /\ Sending' = IF Sending = "last" THEN "over" ELSE "open"
  BY <1>1 DEF Sending
<1> QED
  BY <1>1, <1>2, <1>3, <1>4, <1>5 DEF P!Answer

LEMMA LoseStep ==
  ASSUME WriteFails
  PROVE  P!Lose \/ UNCHANGED P!vars
<1> USE DEF session, stream, history
<1>1. wr' = "error" /\ UNCHANGED <<stage, stopped, shut, handled, wire>>
  BY DEF WriteFails
<1>2. PublicStage' = PublicStage
  BY <1>1 DEF PublicStage
<1>3. CASE shut /\ wr = "busy"
  BY <1>1, <1>2, <1>3 DEF Sending, P!Lose
<1>4. CASE ~(shut /\ wr = "busy")
  BY <1>1, <1>4, Unseen
<1> QED
  BY <1>3, <1>4

\* on_send of the closing answer.
LEMMA CloseStep ==
  ASSUME IInv, Closed, OnSendClose
  PROVE  P!Close
<1> USE DEF session, stream, history
<1>1. /\ wr = "ok" /\ wr' = "idle" /\ shut' /\ ~Head(m_response_queue).keep_alive
      /\ UNCHANGED <<stage, stopped, handled, wire>>
  BY DEF OnSendClose, Eof
<1>2. /\ Head(m_response_queue).id = Len(wire) /\ Head(m_response_queue).id \in 1..Len(wire)
      /\ ~handled[Len(wire)]
  BY <1>1, AnswerSent DEF Closed
<1>3. wire # <<>>
  BY <1>2
<1>4. P!Closing
  BY <1>2, <1>3 DEF P!Closing
<1>5. PublicStage' = PublicStage /\ Sending' = "over"
  BY <1>1 DEF PublicStage, Sending
<1> QED
  BY <1>1, <1>4, <1>5 DEF P!Close

\* on_send of another answer.
LEMMA OnSendUnseen ==
  ASSUME IInv, OnSend
  PROVE  UNCHANGED P!vars
<1>1. wr = "ok" /\ UNCHANGED <<stage, stopped, shut, handled, wire>>
  BY DEF OnSend
<1>2. shut => wr' # "busy"
  BY SendFacts
<1> QED
  BY <1>1, <1>2, Unseen

\* Every step of the session is a step of the pipeline or is not seen.
LEMMA PipelineStep ==
  ASSUME IInv, Upgrading, Closed, [Next]_vars
  PROVE  [P!Next]_P!vars
<1> USE DEF session, stream, history
<1>1. CASE Run \/ OnHandshake \/ OnHandshakeError
  BY <1>1, OpenStep DEF P!Next
<1>2. CASE OnRecvEnd \/ OnRecvError \/ OnRecvUnsupported
  BY <1>2, StopStep DEF P!Next
<1>3. CASE OnRecvUpgrade
  BY <1>3, StopStep, UpgradeStep DEF P!Next
<1>4. CASE OnRecvRequest
  BY <1>4, HandleStep DEF P!Next
<1>5. CASE OnSendError
  <2>1. wr = "error" /\ wr' = "idle" /\ UNCHANGED <<stage, stopped, shut, handled, wire>>
    BY <1>5 DEF OnSendError
  <2> QED
    BY <2>1, Unseen
<1>6. CASE OnSendClose
  BY <1>6, CloseStep DEF P!Next
<1>7. CASE OnSend
  BY <1>7, OnSendUnseen
<1>8. CASE OnShutdown \/ Reads \/ UNCHANGED vars
  <2>1. UNCHANGED <<stage, stopped, shut, handled, wire, wr>>
    BY <1>8 DEF OnShutdown, Reads, ReadFails, ReadEnds, vars
  <2> QED
    BY <2>1, Unseen
<1>9. CASE WriteOk
  BY <1>9, AnswerStep DEF P!Next
<1>10. CASE WriteFails
  BY <1>10, LoseStep DEF P!Next
<1> QED
  BY <1>1, <1>2, <1>3, <1>4, <1>5, <1>6, <1>7, <1>8, <1>9, <1>10 DEF Next, Handlers, Writes

LEMMA PipelineInit == Init => P!Init /\ Upgrading /\ Closed
BY DEF Init, P!Init, PublicStage, Sending, Upgrading, Closed

\* The session behaves as a pipeline: in order, each request once, none after
\* the closing one or the upgrade, at most queue_limit waiting.
THEOREM Refinement == ASSUME "upgrade" \notin Hasty PROVE Spec => ImplementsPipeline
<1>1. Init => P!Init /\ Upgrading /\ Closed
  BY PipelineInit
<1>2. IInv /\ Upgrading /\ Closed /\ [Next]_vars => Upgrading' /\ Closed' /\ [P!Next]_P!vars
  BY UpgradingStep, ClosedStep, PipelineStep
<1> QED
  BY <1>1, <1>2, Inductive, PTL DEF Spec, ImplementsPipeline, P!Spec
===============================================================================
