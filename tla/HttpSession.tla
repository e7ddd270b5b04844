----------------------------- MODULE HttpSession -----------------------------
(***************************************************************************)
(* One http or https connection: HttpSessionBase<Derived> with its         *)
(* derived classes HttpSession and HttpsSession, from run() to the end, or *)
(* to the upgrade request that hands the stream to a websocket session.    *)
(*                                                                         *)
(* The handlers run one at a time on the strand of the stream; a read, a   *)
(* write and a shutdown may end between any two of them, and the handler   *)
(* of an ended operation is a later step.  A request is what on_recv looks *)
(* at: a request that keeps the connection alive, one that closes it, or   *)
(* an upgrade.  Every operation is under the timer of the tcp stream, so   *)
(* that it ends, if only in an error.                                      *)
(***************************************************************************)
EXTENDS Integers, Sequences

CONSTANTS
  queue_limit,  \* responses queued before reading stops (8 in the code)
  MaxRequests,  \* bound: requests the peer sends
  Hasty         \* what the peer does without waiting for its answers

ASSUME LimitAssumption == queue_limit \in Nat \ {0} /\ MaxRequests \in Nat
ASSUME HastyAssumption == Hasty \subseteq {"keep", "close", "upgrade", "end_of_stream"}

VARIABLES
  \* the session
  ssl,               \* derived class: HttpsSession or HttpSession
  m_protocol,        \* supported ones of this class: "http", "ws"
  m_response_queue,
  stage,             \* "new", "handshake", "http", "websocket" or "refused"
  \* the stream and the operations it was given
  tcp,               \* "open" or "dead"
  rd,                \* async_read: "idle", "busy" or what it ended with
  wr,                \* async_write: "idle", "busy", "late" (started after the
                     \* sending side was shut down), "ok" or "error"
  sd,                \* the async_shutdown operations outstanding
  shut,              \* the sending side was shut down
  \* history, for the properties
  handled,           \* for each request handled: does it keep the connection
  wire,              \* the requests whose response was written
  stopped,           \* on_recv returned before the end: reading is over
  misuse             \* operations the stream was given and could not take

session == <<ssl, m_protocol, m_response_queue, stage>>
stream  == <<tcp, rd, wr, sd, shut>>
history == <<handled, wire, stopped, misuse>>
vars    == <<session, stream, history>>

Requests == {"keep", "close", "upgrade"}
Response == [id : Nat \ {0}, keep_alive : BOOLEAN]

-----------------------------------------------------------------------------
(***************************************************************************)
(* Pieces the handlers share.                                              *)
(***************************************************************************)

\* recv() is called if the condition holds, and then a read is started.
Recv(condition) == rd' = IF condition THEN "busy" ELSE "idle"

\* send(): the front of the queue is written, if there is one.
Send(queue) ==
  wr' = IF queue = <<>> THEN "idle" ELSE IF shut THEN "late" ELSE "busy"

\* An async_write that has not ended.
Writing == wr \in {"busy", "late"}

\* on_recv queued a response: is it the only one, to be sent at once?  Is
\* there room to read on?
FirstBeforePush(queue) == Len(queue) = 0
FirstAlways(queue) == queue # <<>>
First(queue) == Len(queue) = 1
ReadsOnAtLimit(queue) == Len(queue) <= queue_limit
ReadsOn(queue) == Len(queue) < queue_limit

\* on_send: does reading resume?  What is left in the queue?
ResumesAfterPop(queue) == Len(Tail(queue)) = queue_limit
Resumes(queue) == Len(queue) = queue_limit
PopForgotten(queue) == queue
Popped(queue) == Tail(queue)

\* eof(): the plain session shuts the sending side down at once, the ssl one
\* starts async_shutdown.
Eof == /\ shut' = TRUE
       /\ sd' = IF ssl THEN sd + 1 ELSE sd

\* Operations started that the stream cannot take: a second read or write, or
\* any on a stream that was released.
Misuse(reads, writes, shuts) ==
  misuse' = misuse \cup
    (IF reads /\ (rd = "busy" \/ stage = "websocket") THEN {"read"} ELSE {}) \cup
    (IF writes /\ (Writing \/ stage = "websocket") THEN {"write"} ELSE {}) \cup
    (IF shuts /\ stage = "websocket" THEN {"shutdown"} ELSE {})

-----------------------------------------------------------------------------
(***************************************************************************)
(* Handlers.                                                               *)
(***************************************************************************)

\* run(): the plain session reads, the ssl one starts its handshake.
Run ==
  /\ stage = "new"
  /\ stage' = IF ssl THEN "handshake" ELSE "http"
  /\ Recv(~ssl)
  /\ UNCHANGED <<ssl, m_protocol, m_response_queue, tcp, wr, sd, shut, history>>

\* The handshake ends and on_handshake runs.
OnHandshake ==
  /\ stage = "handshake"
  /\ stage' = "http"
  /\ Recv(TRUE)
  /\ UNCHANGED <<ssl, m_protocol, m_response_queue, tcp, wr, sd, shut, history>>

OnHandshakeError ==
  /\ stage = "handshake"
  /\ stage' = "refused"
  /\ tcp' = "dead"
  /\ UNCHANGED <<ssl, m_protocol, m_response_queue, rd, wr, sd, shut, history>>

\* on_recv, when the peer sends no more.
OnRecvEnd ==
  /\ rd = "end_of_stream"
  /\ Recv(FALSE)
  /\ Eof
  /\ stopped' = TRUE
  /\ Misuse(FALSE, FALSE, TRUE)
  /\ UNCHANGED <<session, tcp, wr, handled, wire>>

OnRecvErrorRetries ==
  /\ rd = "error"
  /\ Recv(TRUE)
  /\ UNCHANGED <<session, tcp, wr, sd, shut, history>>

OnRecvError ==
  /\ rd = "error"
  /\ Recv(FALSE)
  /\ stopped' = TRUE
  /\ UNCHANGED <<session, tcp, wr, sd, shut, handled, wire, misuse>>

\* on_recv, an upgrade: the stream moves to a websocket session, if the
\* service node supports that protocol.  Moving it during a write is misuse.
OnRecvUpgrade ==
  /\ rd = "upgrade"
  /\ Recv(FALSE)
  /\ stopped' = TRUE
  /\ stage' = IF "ws" \in m_protocol THEN "websocket" ELSE stage
  /\ misuse' = misuse \cup (IF "ws" \in m_protocol /\ (Writing \/ sd > 0)
                            THEN {"release"} ELSE {})
  /\ UNCHANGED <<ssl, m_protocol, m_response_queue, tcp, wr, sd, shut, handled, wire>>

OnRecvUnsupported ==
  /\ rd \in {"keep", "close"}
  /\ "http" \notin m_protocol
  /\ Recv(FALSE)
  /\ stopped' = TRUE
  /\ UNCHANGED <<session, tcp, wr, sd, shut, handled, wire, misuse>>

\* on_recv, a request: handled, its response queued, sent if it is the only
\* one; the next request is read unless the queue is full.
OnRecvRequest ==
  LET keep  == rd = "keep"
      queue == Append(m_response_queue, [id |-> Len(handled) + 1, keep_alive |-> keep])
      first == First(queue)
  IN  /\ rd \in {"keep", "close"}
      /\ "http" \in m_protocol
      /\ handled' = Append(handled, keep)
      /\ m_response_queue' = queue
      /\ IF first THEN Send(queue) ELSE UNCHANGED wr
      /\ Recv(ReadsOn(queue))
      /\ Misuse(FALSE, first, FALSE)
      /\ UNCHANGED <<ssl, m_protocol, stage, tcp, sd, shut, wire, stopped>>

\* on_send with an error: the response stays in the queue, nothing is sent
\* any more.
OnSendError ==
  /\ wr = "error"
  /\ wr' = "idle"
  /\ UNCHANGED <<session, tcp, rd, sd, shut, history>>

OnSendCloseGoesOn ==
  /\ wr = "ok"
  /\ ~Head(m_response_queue).keep_alive
  /\ m_response_queue' = Popped(m_response_queue)
  /\ Send(Popped(m_response_queue))
  /\ UNCHANGED <<ssl, m_protocol, stage, tcp, rd, sd, shut, history>>

\* on_send of a response that closes the connection; it stays in the queue.
OnSendClose ==
  /\ wr = "ok"
  /\ ~Head(m_response_queue).keep_alive
  /\ wr' = "idle"
  /\ Eof
  /\ Misuse(FALSE, FALSE, TRUE)
  /\ UNCHANGED <<session, tcp, rd, handled, wire, stopped>>

\* on_send: reading resumes if the queue was full, the response is popped,
\* the next one is sent.
OnSend ==
  LET queue   == Popped(m_response_queue)
      resumes == Resumes(m_response_queue)
  IN  /\ wr = "ok"
      /\ Head(m_response_queue).keep_alive
      /\ m_response_queue' = queue
      /\ rd' = IF resumes THEN "busy" ELSE rd
      /\ Send(queue)
      /\ Misuse(resumes, queue # <<>>, FALSE)
      /\ UNCHANGED <<ssl, m_protocol, stage, tcp, sd, shut, handled, wire, stopped>>

\* async_shutdown ends, well or in an error; on_shutdown only reports.
OnShutdown ==
  /\ sd > 0
  /\ sd' = sd - 1
  /\ tcp' \in {tcp, "dead"}
  /\ UNCHANGED <<session, rd, wr, shut, history>>

-----------------------------------------------------------------------------
(***************************************************************************)
(* The peer and the stream.                                                *)
(***************************************************************************)

\* What a peer does that is not hasty: it sends no request after one that
\* closes the connection, and upgrades or ends its side only when all its
\* requests were answered.
Patient(r) ==
  /\ r \in Requests => \A i \in 1..Len(handled) : handled[i]
  /\ r \in {"upgrade", "end_of_stream"} => Len(wire) = Len(handled)

\* A request may be in m_recv_buffer when the stream dies.
ReadEnds(r) ==
  /\ rd = "busy"
  /\ tcp = "open" \/ r \in Requests
  /\ r \in Requests => Len(handled) < MaxRequests
  /\ r \in Hasty \/ Patient(r)
  /\ rd' = r
  /\ UNCHANGED <<session, tcp, wr, sd, shut, history>>

\* A read fails: the timer or the peer closed the stream, or the bytes are no
\* request, which leaves the stream as it was.
ReadFails ==
  /\ rd = "busy"
  /\ rd' = "error" /\ tcp' \in {tcp, "dead"}
  /\ UNCHANGED <<session, wr, sd, shut, history>>

\* The whole response is written.  One that was being written when the side
\* was shut down may still get through.
WriteOk ==
  /\ wr = "busy" /\ tcp = "open"
  /\ wr' = "ok"
  /\ wire' = Append(wire, Head(m_response_queue).id)
  /\ UNCHANGED <<session, tcp, rd, sd, shut, handled, stopped, misuse>>

\* A write fails: the timer or the peer closed the stream, or this side was
\* shut down, which leaves the other side open.
WriteFails ==
  /\ Writing
  /\ wr' = "error"
  /\ tcp' \in {"dead"} \cup (IF shut THEN {tcp} ELSE {})
  /\ UNCHANGED <<session, rd, sd, shut, history>>

-----------------------------------------------------------------------------
Init ==
  /\ ssl \in BOOLEAN
  /\ m_protocol \in (SUBSET {"http", "ws"}) \ {{}}
  /\ m_response_queue = <<>>
  /\ stage = "new"
  /\ tcp = "open" /\ rd = "idle" /\ wr = "idle" /\ sd = 0 /\ shut = FALSE
  /\ handled = <<>> /\ wire = <<>> /\ stopped = FALSE /\ misuse = {}

Handlers ==
  \/ Run \/ OnHandshake \/ OnHandshakeError
  \/ OnRecvEnd \/ OnRecvError \/ OnRecvUpgrade \/ OnRecvUnsupported \/ OnRecvRequest
  \/ OnSendError \/ OnSendClose \/ OnSend \/ OnShutdown

Reads  == ReadFails \/ \E r \in Requests \cup {"end_of_stream"} : ReadEnds(r)
Writes == WriteOk \/ WriteFails

\* Using a released stream or a busy one is undefined: nothing is said after it.
Next == misuse = {} /\ (Handlers \/ Reads \/ Writes)

Spec == Init /\ [][Next]_vars

(***************************************************************************)
(* Fairness.  The threads of the manager run every handler that is ready;  *)
(* recv(), run() and eof() arm the timer of the tcp stream, which ends a   *)
(* read, a write, a handshake or a shutdown that hangs.                    *)
(***************************************************************************)
Fairness ==
  /\ WF_vars(misuse = {} /\ Handlers)
  /\ WF_vars(misuse = {} /\ Reads)
  /\ WF_vars(misuse = {} /\ Writes)

FairSpec == Spec /\ Fairness

-----------------------------------------------------------------------------
(***************************************************************************)
(* Properties.                                                             *)
(***************************************************************************)

\* Types; the queue is never longer than the limit on_recv reads up to, and
\* at most two shutdowns are outstanding: the one after a closing response
\* and the one after the end of the peer's stream.
TypeOK ==
  /\ ssl \in BOOLEAN /\ m_protocol \subseteq {"http", "ws"}
  /\ m_response_queue \in Seq(Response) /\ Len(m_response_queue) <= queue_limit
  /\ stage \in {"new", "handshake", "http", "websocket", "refused"}
  /\ tcp \in {"open", "dead"}
  /\ rd \in {"idle", "busy", "error", "end_of_stream"} \cup Requests
  /\ wr \in {"idle", "busy", "late", "ok", "error"}
  /\ sd \in 0..2 /\ shut \in BOOLEAN
  /\ handled \in Seq(BOOLEAN) /\ wire \in Seq(Nat)
  /\ stopped \in BOOLEAN /\ misuse \subseteq {"read", "write", "shutdown", "release"}

\* on_recv and on_send both start reads and both start writes; the stream
\* still has one reader and one writer at any time, it moves to a websocket
\* session only when nothing is outstanding on it, and http does not use it
\* afterwards (of a peer that upgrades when its requests are answered).
NoMisuse == misuse = {}

\* The session is over for writing: the stream failed, or eof() was called.
Over == tcp = "dead" \/ shut

\* The front of the queue was written.
Written == m_response_queue # <<>> /\ Head(m_response_queue).id <= Len(wire)

\* Responses that are queued and not written yet.
Unsent == IF Written THEN Tail(m_response_queue) ELSE m_response_queue

\* Pipelined requests are answered in the order they came, each once: the
\* responses written, then those queued, are the requests handled, whatever
\* failed or closed in between.
AnswersInOrder ==
  /\ \A i \in 1..Len(wire) : wire[i] = i
  /\ Len(wire) + Len(Unsent) = Len(handled)
  /\ \A i \in 1..Len(Unsent) : Unsent[i].id = Len(wire) + i

\* on_recv sends only if the queue was empty, on_send only if more is queued:
\* no response is left queued with no write outstanding, unless the session
\* is over.
WriterAwake == m_response_queue # <<>> => wr # "idle" \/ Over

\* Reading stops for a full queue only, with a write outstanding whose
\* handler resumes it, or for a cause that on_recv saw and gave up for.
ReaderAwake ==
  stage = "http" /\ rd = "idle" /\ ~stopped /\ ~Over =>
    Len(m_response_queue) = queue_limit /\ wr # "idle"

\* readme.md says that the response handle_request filled is sent to the
\* client.  Whenever the session shuts its sending side down, it has sent the
\* responses, or is sending the last, of all requests handled, but for those
\* behind one that closes the connection.
AnsweredBeforeShutdown ==
  shut /\ tcp = "open" =>
    \A n \in 1..Len(handled) :
      (\A i \in 1..n : handled[i]) => n <= Len(wire) + (IF wr = "busy" THEN 1 ELSE 0)

\* A request that was handled is answered, unless the session is over.
Answered ==
  \A n \in 1..MaxRequests : Len(handled) >= n ~> Len(wire) >= n \/ Over

\* A session is let go: in the end no operation that holds it is outstanding,
\* or its stream moved on.
SessionEnds == <>[](stage = "websocket" \/ (rd = "idle" /\ wr = "idle" /\ sd = 0))

(***************************************************************************)
(* The session implements the pipeline the service and the peer are        *)
(* promised.                                                               *)
(***************************************************************************)
\* How far the connection is, for the service.
PublicStage ==
  CASE stage \in {"new", "handshake"} -> "new"
    [] stage = "refused" -> "refused"
    [] stage = "http" /\ ~stopped -> "reading"
    [] stage = "http" /\ stopped -> "stopped"
    [] stage = "websocket" -> "upgraded"

\* Whether answers still go out.
Sending == IF ~shut THEN "open" ELSE IF wr = "busy" THEN "last" ELSE "over"

P == INSTANCE Pipeline WITH stage <- PublicStage, sending <- Sending

\* The queue, its reader and its writer, the shutdowns and the upgrade behave
\* to the service and to the peer as a Pipeline: answers in order, each once,
\* none behind one that closes the connection or after the upgrade, and at
\* most queue_limit requests that wait, whatever fails in between.
ImplementsPipeline == P!Spec
===============================================================================
