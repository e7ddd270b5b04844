------------------------------ MODULE Acceptor ------------------------------
(***************************************************************************)
(* The way of a connection through one service node: the Listener accepts  *)
(* it, a DetectSession finds out whether the peer speaks ssl, an           *)
(* HttpSession or HttpsSession reads its requests, and an upgrade request  *)
(* makes a websocket session.  On this way the mask of protocols of the    *)
(* node is applied in init(), by the detection and by the session.         *)
(*                                                                         *)
(* The listener has a strand and each connection has one: a handler is one *)
(* action, and handlers of different connections interleave.  How a        *)
(* session queues its responses is the subject of HttpSession: here it     *)
(* reads one request after the other.                                      *)
(***************************************************************************)
EXTENDS Naturals, Sequences

CONSTANTS
  Socket,    \* bound: the connections of peers
  nobody,    \* model value: no accept has ended
  failure    \* model value: an accept ended with an error

ASSUME SocketAssumption == nobody \notin Socket /\ failure \notin Socket /\ nobody # failure

VARIABLES
  \* the service node
  protocol,    \* what the program asked for
  certificate, \* init() was given a certificate and its key
  \* the listener
  m_protocol,  \* what is served
  m_good,      \* the acceptor listens
  accepting,   \* the loop of accepts goes on
  accepted,    \* what the accept ended with
  backlog,     \* connections the system holds for the acceptor
  \* the connections
  stage,       \* where a connection is
  session,     \* the kind of its session
  op,          \* its operation: "idle", "busy", or how it ended
  timer,       \* its stream has a deadline
  m_address,   \* the addresses were read from the socket, and not in vain
  \* the peers
  tls,         \* the peer speaks ssl
  reset,       \* the peer reset the connection
  served       \* history: the protocols in which the service was called

node     == <<protocol, certificate, m_protocol, m_good>>
listener == <<accepting, accepted, backlog>>
peers    == <<tls, reset>>
vars     == <<node, listener, stage, session, op, timer, m_address, peers, served>>

Plain    == {"http", "ws"}
Ssl      == {"https", "wss"}
Protocol == Plain \cup Ssl

-----------------------------------------------------------------------------
(***************************************************************************)
(* The listener.                                                           *)
(***************************************************************************)

\* init() takes the ssl protocols away from a node without certificate.
Mask(asked, has_certificate) == asked \cap (IF has_certificate THEN Protocol ELSE Plain)

NodeUnchecked(asked, has_certificate) == TRUE

\* A node of which nothing is left gets no listener.
HasProtocol(asked, has_certificate) == Mask(asked, has_certificate) # {}

\* The addresses come from the socket, which has none of a peer that reset the
\* connection; errors are ignored.
ReadAddresses(s) == m_address' = [m_address EXCEPT ![s] = ~reset[s]]

\* on_accept: a DetectSession takes the socket and reads its addresses; its
\* run() goes to the strand of the socket.  The next accept starts.
OnAccept(s) ==
  /\ accepted = s
  /\ accepted' = nobody
  /\ stage' = [stage EXCEPT ![s] = "run"]
  /\ ReadAddresses(s)
  /\ UNCHANGED <<node, accepting, backlog, session, op, timer, peers, served>>

OnAcceptErrorGivesUp ==
  /\ accepted = failure
  /\ accepted' = nobody
  /\ accepting' = FALSE
  /\ UNCHANGED <<node, backlog, stage, session, op, timer, m_address, peers, served>>

\* on_accept with an error: the next accept starts too.
OnAcceptError ==
  /\ accepted = failure
  /\ accepted' = nobody
  /\ UNCHANGED <<node, accepting, backlog, stage, session, op, timer, m_address, peers, served>>

-----------------------------------------------------------------------------
(***************************************************************************)
(* A connection.                                                           *)
(***************************************************************************)

\* The operation of the next stage starts, under a deadline.
Start(s, next) ==
  /\ stage' = [stage EXCEPT ![s] = next]
  /\ op' = [op EXCEPT ![s] = "busy"]
  /\ timer' = [timer EXCEPT ![s] = TRUE]

\* No operation follows: the session goes, and the socket with it.
Over(s) ==
  /\ stage' = [stage EXCEPT ![s] = "over"]
  /\ op' = [op EXCEPT ![s] = "idle"]
  /\ timer' = [timer EXCEPT ![s] = FALSE]

OnRunTimeless(s) ==
  /\ stage[s] = "run"
  /\ stage' = [stage EXCEPT ![s] = "detect"]
  /\ op' = [op EXCEPT ![s] = "busy"]
  /\ UNCHANGED <<node, listener, session, timer, m_address, peers, served>>

\* on_run: the first bytes are awaited.
OnRun(s) ==
  /\ stage[s] = "run"
  /\ Start(s, "detect")
  /\ UNCHANGED <<node, listener, session, m_address, peers, served>>

\* An operation of the stage that failed ends the connection.  (A read that met
\* the end of the stream is one: then the session shuts its own side down.)
OnError(s) ==
  /\ op[s] = "error"
  /\ Over(s)
  /\ UNCHANGED <<node, listener, session, m_address, peers, served>>

\* on_detect for a peer that does not speak ssl: an HttpSession starts to read,
\* unless the node serves ssl only.
OnDetectPlain(s) ==
  /\ stage[s] = "detect" /\ op[s] = "plain"
  /\ IF Plain \cap m_protocol = {} THEN Over(s) /\ UNCHANGED session
     ELSE Start(s, "recv") /\ session' = [session EXCEPT ![s] = "http"]
  /\ UNCHANGED <<node, listener, m_address, peers, served>>

\* on_detect for a peer that speaks ssl: an HttpsSession starts its handshake.
OnDetectSsl(s) ==
  /\ stage[s] = "detect" /\ op[s] = "ssl"
  /\ IF Ssl \cap m_protocol = {} THEN Over(s) /\ UNCHANGED session
     ELSE Start(s, "handshake") /\ session' = [session EXCEPT ![s] = "https"]
  /\ UNCHANGED <<node, listener, m_address, peers, served>>

OnHandshakeReadsAddresses(s) ==
  /\ stage[s] = "handshake" /\ op[s] = "ok"
  /\ Start(s, "recv") /\ ReadAddresses(s)
  /\ UNCHANGED <<node, listener, session, peers, served>>

\* HttpsSession::on_handshake.
OnHandshake(s) ==
  /\ stage[s] = "handshake" /\ op[s] = "ok"
  /\ Start(s, "recv")
  /\ UNCHANGED <<node, listener, session, m_address, peers, served>>

MaxSupportProtocol(s) == IF session[s] = "https" THEN Ssl ELSE Plain

AllowedByNode(s) == m_protocol

\* The protocols of the session that the node serves.
Allowed(s) == MaxSupportProtocol(s) \cap m_protocol

\* The service is called in a protocol of the set, which depends on the session.
Serve(s, protocols) ==
  served' = [served EXCEPT ![s] = @ \cup (protocols \cap MaxSupportProtocol(s))]

\* on_recv for an upgrade request: the stream goes to a websocket session, which
\* accepts the upgrade under the timeouts of its own.
OnRecvUpgrade(s) ==
  /\ stage[s] = "recv" /\ op[s] = "upgrade"
  /\ IF {"ws", "wss"} \cap Allowed(s) = {} THEN Over(s) ELSE Start(s, "accept")
  /\ UNCHANGED <<node, listener, session, m_address, peers, served>>

\* on_accept of the websocket session: the peer was sent the answer, and the
\* service is shown the connection.
OnWebsocketAccept(s) ==
  /\ stage[s] = "accept" /\ op[s] = "ok"
  /\ stage' = [stage EXCEPT ![s] = "websocket"]
  /\ op' = [op EXCEPT ![s] = "idle"]
  /\ timer' = [timer EXCEPT ![s] = FALSE]
  /\ Serve(s, {"ws", "wss"})
  /\ UNCHANGED <<node, listener, session, m_address, peers>>

\* on_recv for any other request: it is handled, and the next is awaited.
OnRecvRequest(s) ==
  /\ stage[s] = "recv" /\ op[s] = "request"
  /\ IF {"http", "https"} \cap Allowed(s) = {} THEN Over(s) /\ UNCHANGED served
     ELSE Start(s, "recv") /\ Serve(s, {"http", "https"})
  /\ UNCHANGED <<node, listener, session, m_address, peers>>

-----------------------------------------------------------------------------
(***************************************************************************)
(* The system, and the peers.                                              *)
(***************************************************************************)

Connect(s, encrypted) ==
  /\ m_good /\ stage[s] = "away"
  /\ stage' = [stage EXCEPT ![s] = "backlog"]
  /\ backlog' = Append(backlog, s)
  /\ tls' = [tls EXCEPT ![s] = encrypted]
  /\ UNCHANGED <<node, accepting, accepted, session, op, timer, m_address, reset, served>>

\* The peer resets the connection.  What it sent before stays readable, and the
\* connection can still be accepted.
Reset(s) ==
  /\ stage[s] \notin {"away", "over"} /\ ~reset[s]
  /\ reset' = [reset EXCEPT ![s] = TRUE]
  /\ UNCHANGED <<node, listener, stage, session, op, timer, m_address, tls, served>>

AcceptEnds ==
  /\ accepting /\ accepted = nobody /\ backlog # <<>>
  /\ accepted' = Head(backlog)
  /\ backlog' = Tail(backlog)
  /\ UNCHANGED <<node, accepting, stage, session, op, timer, m_address, peers, served>>

AcceptFails ==
  /\ accepting /\ accepted = nobody
  /\ accepted' = failure
  /\ UNCHANGED <<node, accepting, backlog, stage, session, op, timer, m_address, peers, served>>

\* What an operation can end with.  What the peer sent before a reset can still
\* be read; a handshake, of ssl or of a websocket, has to write to the peer.
Results(s) ==
  CASE stage[s] = "detect"                   -> {IF tls[s] THEN "ssl" ELSE "plain"}
    [] stage[s] \in {"handshake", "accept"}  -> {r \in {"ok"} : ~reset[s]}
    [] OTHER                                 -> {"request", "upgrade"}

Ends(s) ==
  /\ op[s] = "busy"
  /\ \E result \in Results(s) : op' = [op EXCEPT ![s] = result]
  /\ UNCHANGED <<node, listener, stage, session, timer, m_address, peers, served>>

\* The peer, or the deadline.
Fails(s) ==
  /\ op[s] = "busy"
  /\ op' = [op EXCEPT ![s] = "error"]
  /\ UNCHANGED <<node, listener, stage, session, timer, m_address, peers, served>>

\* init() made the listener and called run(), which starts the first accept if
\* open, bind and listen did not fail.
Init ==
  /\ protocol \in SUBSET Protocol /\ certificate \in BOOLEAN
  /\ HasProtocol(protocol, certificate)
  /\ m_protocol = Mask(protocol, certificate)
  /\ m_good \in BOOLEAN
  /\ accepting = m_good /\ accepted = nobody /\ backlog = <<>>
  /\ stage = [s \in Socket |-> "away"] /\ session = [s \in Socket |-> "none"]
  /\ op = [s \in Socket |-> "idle"] /\ timer = [s \in Socket |-> FALSE]
  /\ m_address = [s \in Socket |-> FALSE]
  /\ tls = [s \in Socket |-> FALSE] /\ reset = [s \in Socket |-> FALSE]
  /\ served = [s \in Socket |-> {}]

Handlers(s) ==
  OnRun(s) \/ OnDetectPlain(s) \/ OnDetectSsl(s) \/ OnHandshake(s)
    \/ OnRecvUpgrade(s) \/ OnWebsocketAccept(s) \/ OnRecvRequest(s) \/ OnError(s)

ListenerHandlers == OnAcceptError \/ \E s \in Socket : OnAccept(s)

Peers(s) == Reset(s) \/ \E encrypted \in BOOLEAN : Connect(s, encrypted)

Next ==
  \/ ListenerHandlers \/ AcceptEnds \/ AcceptFails
  \/ \E s \in Socket : Handlers(s) \/ Ends(s) \/ Fails(s) \/ Peers(s)

Spec == Init /\ [][Next]_vars

(***************************************************************************)
(* Fairness.  Handlers run.  An accept does not fail for ever while        *)
(* connections wait (out of descriptors, say).  A deadline passes.  Peers  *)
(* need not do anything.                                                   *)
(***************************************************************************)
Fairness ==
  /\ WF_vars(ListenerHandlers)
  /\ SF_vars(AcceptEnds)
  /\ \A s \in Socket : WF_vars(Handlers(s)) /\ WF_vars(timer[s] /\ Fails(s))

FairSpec == Spec /\ Fairness

-----------------------------------------------------------------------------
(***************************************************************************)
(* Properties.                                                             *)
(***************************************************************************)

\* Types; a listener has a protocol to serve.
TypeOK ==
  /\ protocol \subseteq Protocol /\ m_protocol \subseteq Protocol /\ m_protocol # {}
  /\ certificate \in BOOLEAN /\ m_good \in BOOLEAN /\ accepting \in BOOLEAN
  /\ accepted \in Socket \cup {nobody, failure} /\ backlog \in Seq(Socket)
  /\ stage \in [Socket -> {"away", "backlog", "run", "detect", "handshake", "recv",
                           "accept", "websocket", "over"}]
  /\ session \in [Socket -> {"none", "http", "https"}]
  /\ op \in [Socket -> {"idle", "busy", "error", "ssl", "plain", "ok", "request", "upgrade"}]
  /\ timer \in [Socket -> BOOLEAN] /\ m_address \in [Socket -> BOOLEAN]
  /\ tls \in [Socket -> BOOLEAN] /\ reset \in [Socket -> BOOLEAN]
  /\ served \in [Socket -> SUBSET Protocol]

\* The service is called for a connection only in protocols that its node asked
\* for, in ssl ones only with a certificate and for a peer that speaks ssl, and
\* in plain ones only for a peer that does not: the mask of init(), the
\* detection and the gates of both sessions together.
ServedAsConfigured ==
  \A s \in Socket : \A p \in served[s] :
    /\ p \in protocol
    /\ p \in Ssl => certificate
    /\ p \in Ssl <=> tls[s]

\* Only in one case is the service called for a connection without addresses:
\* its peer sent requests and reset it before it was accepted, and these requests
\* are handled, over plain http.  A peer that had to answer after the accept, as
\* https, ws and wss want, has its addresses, though it may reset at any moment.
Addressed ==
  \A s \in Socket : served[s] # {} /\ ~m_address[s] => reset[s] /\ served[s] = {"http"}

\* Every connection is accepted in the end, whatever accepts fail and whatever
\* the connections before it do.
Accepted == \A s \in Socket : m_good /\ stage[s] = "backlog" ~> stage[s] # "backlog"

\* No peer holds its connection by silence: until it is a websocket, and while it
\* is made one, whatever it is awaited for ends.
NoSilentPeer == \A s \in Socket : []<>(op[s] # "busy")
===============================================================================
