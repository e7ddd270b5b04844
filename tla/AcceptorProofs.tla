--------------------------- MODULE AcceptorProofs ---------------------------
(***************************************************************************)
(* Proofs about Acceptor, for any number of connections, any mask of the   *)
(* node, with or without certificate.                                      *)
(***************************************************************************)
EXTENDS Acceptor, SequenceTheorems, TLAPS

USE DEF Plain, Ssl, Protocol, ReadAddresses

-----------------------------------------------------------------------------
(***************************************************************************)
(* The inductive invariant.                                                *)
(***************************************************************************)
Masked == m_protocol = Mask(protocol, certificate)

\* A connection is accepted once: it waits in one place.
Waiting ==
  /\ \A i \in DOMAIN backlog :
       /\ stage[backlog[i]] = "backlog" /\ backlog[i] # accepted
       /\ \A j \in DOMAIN backlog : backlog[i] = backlog[j] => i = j
  /\ accepted \in Socket => stage[accepted] = "backlog"

\* Before the detection a connection has nothing.
Unknown(s) ==
  /\ stage[s] \in {"away", "backlog", "run"} => op[s] = "idle"
  /\ stage[s] \in {"away", "backlog", "run", "detect"} => session[s] = "none" /\ served[s] = {}

\* No address means a reset before the accept: then an operation that has to
\* write to the peer does not end well.
Address(s) ==
  /\ stage[s] \notin {"away", "backlog"} => m_address[s] \/ reset[s]
  /\ op[s] = "ok" => stage[s] \in {"handshake", "accept"} /\ m_address[s]
  /\ session[s] = "https" /\ stage[s] \in {"recv", "accept", "websocket"} => m_address[s]
  /\ stage[s] = "websocket" => m_address[s]
  /\ served[s] \ {"http"} # {} => m_address[s]

\* The session is of the kind of the peer.
Kind(s) ==
  /\ op[s] \in {"ssl", "plain"} => stage[s] = "detect" /\ (op[s] = "ssl" <=> tls[s])
  /\ session[s] # "none" => (session[s] = "https" <=> tls[s])
  /\ stage[s] \in {"handshake", "recv", "accept", "websocket"} => session[s] # "none"

\* A connection is made a websocket only where the node serves such.
Upgraded(s) == stage[s] = "accept" => {"ws", "wss"} \cap Allowed(s) # {}

\* What was served fits the session.
Fits(s) ==
  served[s] # {} => session[s] # "none" /\ served[s] \subseteq m_protocol \cap MaxSupportProtocol(s)

Each(s) == Unknown(s) /\ Address(s) /\ Kind(s) /\ Upgraded(s) /\ Fits(s)

IInv == TypeOK /\ Masked /\ Waiting /\ \A s \in Socket : Each(s)

-----------------------------------------------------------------------------
(***************************************************************************)
(* The invariant, action by action.                                        *)
(***************************************************************************)
LEMMA Initially == Init => IInv
<1> SUFFICES ASSUME Init PROVE IInv
  OBVIOUS
<1>1. backlog \in Seq(Socket) /\ DOMAIN backlog = {}
  BY DEF Init
<1>2. TypeOK
  BY <1>1 DEF Init, TypeOK, HasProtocol, Mask
<1>3. Masked /\ Waiting
  BY <1>1, SocketAssumption DEF Init, Masked, Waiting
<1>4. \A s \in Socket : Each(s)
  BY DEF Init, Each, Unknown, Address, Kind, Upgraded, Fits
<1> QED
  BY <1>2, <1>3, <1>4 DEF IInv

\* A step that only changes one connection after it was accepted keeps the rest.
LEMMA OneConnection ==
  ASSUME IInv, NEW s \in Socket, stage[s] \notin {"away", "backlog"},
         UNCHANGED <<node, listener>>, TypeOK', Each(s)', stage'[s] # "backlog",
         \A x \in Socket : x # s =>
           /\ stage'[x] = stage[x] /\ op'[x] = op[x] /\ session'[x] = session[x]
           /\ m_address'[x] = m_address[x] /\ tls'[x] = tls[x] /\ reset'[x] = reset[x]
           /\ served'[x] = served[x]
  PROVE  IInv'
<1>1. Masked'
  BY DEF IInv, Masked, node
<1>2. \A i \in DOMAIN backlog : backlog[i] \in Socket /\ backlog[i] # s
  BY DEF IInv, TypeOK, Waiting
<1>3. Waiting'
  BY <1>2 DEF IInv, Waiting, listener
<1>4. ASSUME NEW x \in Socket, x # s PROVE Each(x)'
  BY <1>4 DEF IInv, Each, Unknown, Address, Kind, Upgraded, Fits, Allowed, MaxSupportProtocol, node
<1> QED
  BY <1>1, <1>3, <1>4 DEF IInv

\* The two ways on keep the types, and what the other connections have.
LEMMA StartTypes ==
  ASSUME TypeOK, NEW s \in Socket, NEW next \in {"detect", "handshake", "recv", "accept"},
         Start(s, next) \/ Over(s)
  PROVE  /\ stage' \in [Socket -> {"away", "backlog", "run", "detect", "handshake", "recv",
                                   "accept", "websocket", "over"}]
         /\ op' \in [Socket -> {"idle", "busy", "error", "ssl", "plain", "ok", "request",
                                "upgrade"}]
         /\ timer' \in [Socket -> BOOLEAN]
         /\ \A x \in Socket : x # s => stage'[x] = stage[x] /\ op'[x] = op[x]
<1>1. CASE Start(s, next)
  BY <1>1 DEF TypeOK, Start
<1>2. CASE Over(s)
  BY <1>2 DEF TypeOK, Over
<1> QED
  BY <1>1, <1>2

LEMMA ServeTypes ==
  ASSUME TypeOK, NEW s \in Socket, NEW protocols, Serve(s, protocols) \/ UNCHANGED served
  PROVE  served' \in [Socket -> SUBSET Protocol]
         /\ \A x \in Socket : x # s => served'[x] = served[x]
<1>1. MaxSupportProtocol(s) \subseteq Protocol
  BY DEF MaxSupportProtocol
<1>2. CASE Serve(s, protocols)
  BY <1>1, <1>2 DEF TypeOK, Serve
<1> QED
  BY <1>2 DEF TypeOK

LEMMA OnRunStep == ASSUME IInv, NEW s \in Socket, OnRun(s) PROVE IInv'
<1>1. stage[s] \notin {"away", "backlog"} /\ stage'[s] # "backlog"
  BY DEF IInv, TypeOK, Each, Unknown, OnRun, Start
<1>2. TypeOK'
  BY DEF IInv, TypeOK, OnRun, Start, node, listener, peers
<1>3. Each(s)'
  BY DEF IInv, TypeOK, Each, Unknown, Address, Kind, Upgraded, Fits,
         Allowed, MaxSupportProtocol, OnRun, Start, node, peers
<1> QED
  BY <1>1, <1>2, <1>3, OneConnection DEF IInv, TypeOK, OnRun, Start, node, listener, peers

LEMMA OnErrorStep == ASSUME IInv, NEW s \in Socket, OnError(s) PROVE IInv'
<1>1. stage[s] \notin {"away", "backlog"} /\ stage'[s] # "backlog"
  BY DEF IInv, TypeOK, Each, Unknown, OnError, Over
<1>2. TypeOK'
  BY DEF IInv, TypeOK, OnError, Over, node, listener, peers
<1>3. Each(s)'
  BY DEF IInv, TypeOK, Each, Unknown, Address, Kind, Upgraded, Fits,
         Allowed, MaxSupportProtocol, OnError, Over, node, peers
<1> QED
  BY <1>1, <1>2, <1>3, OneConnection DEF IInv, TypeOK, OnError, Over, node, listener, peers

LEMMA OnDetectPlainStep == ASSUME IInv, NEW s \in Socket, OnDetectPlain(s) PROVE IInv'
<1>1. stage[s] \notin {"away", "backlog"} /\ stage'[s] # "backlog"
  BY DEF IInv, TypeOK, Each, Unknown, OnDetectPlain, Start, Over
<1>4. Over(s) \/ Start(s, "recv")
  BY DEF OnDetectPlain
<1>5. session' \in [Socket -> {"none", "http", "https"}]
      /\ \A x \in Socket : x # s => session'[x] = session[x]
  BY DEF OnDetectPlain, IInv, TypeOK
<1>2. TypeOK'
  BY <1>4, <1>5, StartTypes DEF IInv, TypeOK, OnDetectPlain, node, listener, peers
<1>3. Each(s)'
  BY DEF IInv, TypeOK, Each, Unknown, Address, Kind, Upgraded, Fits,
         Allowed, MaxSupportProtocol, OnDetectPlain, Start, Over, node, peers
<1> QED
  BY <1>1, <1>2, <1>3, <1>4, <1>5, StartTypes, OneConnection DEF IInv, OnDetectPlain, node, peers

LEMMA OnDetectSslStep == ASSUME IInv, NEW s \in Socket, OnDetectSsl(s) PROVE IInv'
<1>1. stage[s] \notin {"away", "backlog"} /\ stage'[s] # "backlog"
  BY DEF IInv, TypeOK, Each, Unknown, OnDetectSsl, Start, Over
<1>4. Over(s) \/ Start(s, "handshake")
  BY DEF OnDetectSsl
<1>5. session' \in [Socket -> {"none", "http", "https"}]
      /\ \A x \in Socket : x # s => session'[x] = session[x]
  BY DEF OnDetectSsl, IInv, TypeOK
<1>2. TypeOK'
  BY <1>4, <1>5, StartTypes DEF IInv, TypeOK, OnDetectSsl, node, listener, peers
<1>3. Each(s)'
  BY DEF IInv, TypeOK, Each, Unknown, Address, Kind, Upgraded, Fits,
         Allowed, MaxSupportProtocol, OnDetectSsl, Start, Over, node, peers
<1> QED
  BY <1>1, <1>2, <1>3, <1>4, <1>5, StartTypes, OneConnection DEF IInv, OnDetectSsl, node, peers

LEMMA OnHandshakeStep == ASSUME IInv, NEW s \in Socket, OnHandshake(s) PROVE IInv'
<1>1. stage[s] \notin {"away", "backlog"} /\ stage'[s] # "backlog"
  BY DEF IInv, TypeOK, Each, Unknown, OnHandshake, Start
<1>2. TypeOK'
  BY DEF IInv, TypeOK, OnHandshake, Start, node, listener, peers
<1>3. Each(s)'
  BY DEF IInv, TypeOK, Each, Unknown, Address, Kind, Upgraded, Fits,
         Allowed, MaxSupportProtocol, OnHandshake, Start, node, peers
<1> QED
  BY <1>1, <1>2, <1>3, OneConnection DEF IInv, TypeOK, OnHandshake, Start, node, listener, peers

LEMMA OnRecvUpgradeStep == ASSUME IInv, NEW s \in Socket, OnRecvUpgrade(s) PROVE IInv'
<1>1. stage[s] \notin {"away", "backlog"} /\ stage'[s] # "backlog"
  BY DEF IInv, TypeOK, Each, Unknown, OnRecvUpgrade, Start, Over
<1>4. Over(s) \/ Start(s, "accept")
  BY DEF OnRecvUpgrade
<1>2. TypeOK'
  BY <1>4, StartTypes DEF IInv, TypeOK, OnRecvUpgrade, node, listener, peers
<1>3. Each(s)'
  BY DEF IInv, TypeOK, Each, Unknown, Address, Kind, Upgraded, Fits,
         Allowed, MaxSupportProtocol, OnRecvUpgrade, Start, Over, node, peers
<1> QED
  BY <1>1, <1>2, <1>3, <1>4, StartTypes, OneConnection DEF IInv, OnRecvUpgrade, node, peers

LEMMA OnWebsocketAcceptStep ==
  ASSUME IInv, NEW s \in Socket, OnWebsocketAccept(s) PROVE IInv'
<1>1. stage[s] \notin {"away", "backlog"} /\ stage'[s] # "backlog"
  BY DEF IInv, TypeOK, OnWebsocketAccept
<1>4. /\ stage' = [stage EXCEPT ![s] = "websocket"]
      /\ op' = [op EXCEPT ![s] = "idle"] /\ timer' = [timer EXCEPT ![s] = FALSE]
      /\ UNCHANGED <<node, listener, session, m_address, peers>>
  BY DEF OnWebsocketAccept
<1>5. served' \in [Socket -> SUBSET Protocol]
      /\ \A x \in Socket : x # s => served'[x] = served[x]
  BY ServeTypes DEF OnWebsocketAccept, IInv
<1>2. TypeOK'
  BY <1>4, <1>5 DEF IInv, TypeOK, node, listener, peers
<1>3. Each(s)'
  <2>1. session[s] # "none" /\ m_address[s] /\ {"ws", "wss"} \cap Allowed(s) # {}
    BY DEF IInv, Each, Address, Kind, Upgraded, OnWebsocketAccept
  <2>2. served'[s] = served[s] \cup ({"ws", "wss"} \cap MaxSupportProtocol(s))
    BY DEF IInv, TypeOK, OnWebsocketAccept, Serve
  <2>3. {"ws", "wss"} \cap MaxSupportProtocol(s) \subseteq m_protocol
    BY <2>1 DEF Allowed, MaxSupportProtocol
  <2>4. Fits(s)'
    BY <1>4, <2>1, <2>2, <2>3 DEF IInv, Each, Fits, MaxSupportProtocol, node
  <2> QED
    BY <1>4, <2>1, <2>4 DEF IInv, TypeOK, Each, Unknown, Address, Kind, Upgraded, peers
<1> QED
  BY <1>1, <1>2, <1>3, <1>4, <1>5, OneConnection DEF IInv, TypeOK, node, peers

LEMMA OnRecvRequestStep == ASSUME IInv, NEW s \in Socket, OnRecvRequest(s) PROVE IInv'
<1>1. stage[s] \notin {"away", "backlog"} /\ stage'[s] # "backlog"
  BY DEF IInv, TypeOK, Each, Unknown, OnRecvRequest, Start, Over, Serve
<1>4. Over(s) \/ Start(s, "recv")
  BY DEF OnRecvRequest
<1>5. served' \in [Socket -> SUBSET Protocol]
      /\ \A x \in Socket : x # s => served'[x] = served[x]
  BY ServeTypes DEF OnRecvRequest, IInv
<1>2. TypeOK'
  BY <1>4, <1>5, StartTypes DEF IInv, TypeOK, OnRecvRequest, node, listener, peers
<1>3. Each(s)'
  <2>1. stage[s] = "recv" /\ op[s] = "request" /\ session[s] # "none"
    BY DEF OnRecvRequest, IInv, Each, Kind
  <2>2. stage'[s] \in {"recv", "over"} /\ op'[s] \in {"busy", "idle"}
    BY <1>4 DEF IInv, TypeOK, Start, Over
  <2>3. served'[s] = served[s]
        \/ /\ {"http", "https"} \cap Allowed(s) # {}
           /\ served'[s] = served[s] \cup ({"http", "https"} \cap MaxSupportProtocol(s))
    BY DEF OnRecvRequest, IInv, TypeOK, Serve
  <2>4. UNCHANGED <<node, session, m_address, tls, reset>>
    BY DEF OnRecvRequest, peers
  <2>5. Fits(s)'
    BY <2>1, <2>3, <2>4 DEF IInv, Each, Fits, Allowed, MaxSupportProtocol, node
  <2>6. Address(s)'
    BY <2>1, <2>2, <2>3, <2>4 DEF IInv, TypeOK, Each, Address, MaxSupportProtocol
  <2> QED
    BY <2>1, <2>2, <2>4, <2>5, <2>6 DEF IInv, TypeOK, Each, Unknown, Kind, Upgraded
<1> QED
  BY <1>1, <1>2, <1>3, <1>4, <1>5, StartTypes, OneConnection DEF IInv, OnRecvRequest, node, peers

LEMMA EndsStep == ASSUME IInv, NEW s \in Socket, Ends(s) PROVE IInv'
<1>1. stage[s] \notin {"away", "backlog"} /\ stage'[s] # "backlog"
  BY DEF IInv, TypeOK, Each, Unknown, Ends, Results
<1>2. TypeOK'
  BY DEF IInv, TypeOK, Ends, Results, node, listener, peers
<1>3. Each(s)'
  BY DEF IInv, TypeOK, Each, Unknown, Address, Kind, Upgraded, Fits,
         Allowed, MaxSupportProtocol, Ends, Results, node, peers
<1> QED
  BY <1>1, <1>2, <1>3, OneConnection DEF IInv, TypeOK, Ends, Results, node, listener, peers

LEMMA FailsStep == ASSUME IInv, NEW s \in Socket, Fails(s) PROVE IInv'
<1>1. stage[s] \notin {"away", "backlog"} /\ stage'[s] # "backlog"
  BY DEF IInv, TypeOK, Each, Unknown, Fails
<1>2. TypeOK'
  BY DEF IInv, TypeOK, Fails, node, listener, peers
<1>3. Each(s)'
  BY DEF IInv, TypeOK, Each, Unknown, Address, Kind, Upgraded, Fits,
         Allowed, MaxSupportProtocol, Fails, node, peers
<1> QED
  BY <1>1, <1>2, <1>3, OneConnection DEF IInv, TypeOK, Fails, node, listener, peers

LEMMA ResetStep == ASSUME IInv, NEW s \in Socket, Reset(s) PROVE IInv'
<1>1. TypeOK'
  BY DEF IInv, TypeOK, Reset, node, listener
<1>2. Masked' /\ Waiting'
  BY DEF IInv, Masked, Waiting, Reset, node, listener
<1>3. \A x \in Socket : Each(x)'
  BY DEF IInv, TypeOK, Each, Unknown, Address, Kind, Upgraded, Fits,
         Allowed, MaxSupportProtocol, Reset, node
<1> QED
  BY <1>1, <1>2, <1>3 DEF IInv

LEMMA ConnectStep ==
  ASSUME IInv, NEW s \in Socket, NEW encrypted \in BOOLEAN, Connect(s, encrypted) PROVE IInv'
<1>1. TypeOK'
  BY DEF IInv, TypeOK, Connect, node
<1>2. Masked'
  BY DEF IInv, Masked, Connect, node
<1>3. Waiting'
  <2>1. backlog' = Append(backlog, s) /\ backlog \in Seq(Socket) /\ accepted' = accepted
    BY DEF Connect, IInv, TypeOK
  <2>2. /\ DOMAIN backlog' = DOMAIN backlog \cup {Len(backlog) + 1}
        /\ backlog'[Len(backlog) + 1] = s
        /\ \A i \in DOMAIN backlog : backlog'[i] = backlog[i] /\ backlog[i] \in Socket
    BY <2>1
  <2>3. accepted # s /\ \A i \in DOMAIN backlog : backlog[i] # s
    BY DEF IInv, Waiting, Connect
  <2>4. \A x \in Socket : stage'[x] = IF x = s THEN "backlog" ELSE stage[x]
    BY DEF IInv, TypeOK, Connect
  <2> QED
    BY <2>1, <2>2, <2>3, <2>4 DEF IInv, Waiting
<1>4. ASSUME NEW x \in Socket PROVE Each(x)'
  <2>1. CASE x = s
    BY <2>1 DEF IInv, TypeOK, Each, Unknown, Address, Kind, Upgraded, Fits, Connect
  <2>2. CASE x # s
    <3>1. stage'[x] = stage[x] /\ tls'[x] = tls[x]
      BY <2>2 DEF Connect, IInv, TypeOK
    <3> QED
      BY <3>1 DEF IInv, Each, Unknown, Address, Kind, Upgraded, Fits,
                  Allowed, MaxSupportProtocol, Connect, node
  <2> QED
    BY <2>1, <2>2
<1> QED
  BY <1>1, <1>2, <1>3, <1>4 DEF IInv

LEMMA OnAcceptStep == ASSUME IInv, NEW s \in Socket, OnAccept(s) PROVE IInv'
<1>1. TypeOK'
  BY DEF IInv, TypeOK, OnAccept, node, peers
<1>2. Masked'
  BY DEF IInv, Masked, OnAccept, node
<1>3. stage[s] = "backlog" /\ \A i \in DOMAIN backlog : backlog[i] # s /\ backlog[i] \in Socket
  BY DEF IInv, TypeOK, Waiting, OnAccept
<1>4. Waiting'
  BY <1>3, SocketAssumption DEF IInv, TypeOK, Waiting, OnAccept
<1>5. ASSUME NEW x \in Socket PROVE Each(x)'
  <2>1. UNCHANGED <<node, session, op, tls, reset, served>>
    BY DEF OnAccept, peers
  <2>2. CASE x = s
    <3>1. stage'[x] = "run" /\ m_address'[x] = ~reset[x]
      BY <2>2 DEF OnAccept, IInv, TypeOK
    <3> QED
      BY <1>3, <2>1, <2>2, <3>1 DEF IInv, Each, Unknown, Address, Kind, Upgraded, Fits
  <2>3. CASE x # s
    <3>1. stage'[x] = stage[x] /\ m_address'[x] = m_address[x]
      BY <2>3 DEF OnAccept, IInv, TypeOK
    <3> QED
      BY <2>1, <3>1 DEF IInv, Each, Unknown, Address, Kind, Upgraded, Fits,
                        Allowed, MaxSupportProtocol, node
  <2> QED
    BY <2>2, <2>3
<1> QED
  BY <1>1, <1>2, <1>4, <1>5 DEF IInv

\* The end of an accept leaves what connections have.
LEMMA AcceptStep ==
  ASSUME IInv, AcceptEnds \/ AcceptFails \/ OnAcceptError PROVE IInv'
<1>1. CASE AcceptEnds
  <2>1. backlog \in Seq(Socket) /\ backlog # <<>> /\ backlog' = Tail(backlog)
        /\ accepted' = Head(backlog) /\ UNCHANGED stage
    BY <1>1 DEF AcceptEnds, IInv, TypeOK
  <2>2. /\ Head(backlog) = backlog[1] /\ 1 \in DOMAIN backlog
        /\ backlog' \in Seq(Socket)
        /\ \A i \in DOMAIN backlog' : i + 1 \in DOMAIN backlog /\ backlog'[i] = backlog[i + 1]
                                      /\ i + 1 # 1 /\ i \in Nat
    BY <2>1
  <2>3. accepted' \in Socket /\ stage[accepted'] = "backlog"
    BY <2>1, <2>2 DEF IInv, Waiting
  <2>4. TypeOK'
    BY <1>1, <2>1, <2>2, <2>3 DEF AcceptEnds, IInv, TypeOK, node, peers
  <2>5. Waiting'
    <3>1. ASSUME NEW i \in DOMAIN backlog'
          PROVE  stage[backlog'[i]] = "backlog" /\ backlog'[i] # accepted'
      BY <2>1, <2>2 DEF IInv, Waiting
    <3>2. ASSUME NEW i \in DOMAIN backlog', NEW j \in DOMAIN backlog', backlog'[i] = backlog'[j]
          PROVE  i = j
      <4>1. i + 1 = j + 1
        BY <2>2, <3>2 DEF IInv, Waiting
      <4> QED
        BY <2>2, <4>1
    <3> QED
      BY <2>1, <2>3, <3>1, <3>2 DEF Waiting
  <2>6. Masked' /\ \A x \in Socket : Each(x)'
    BY <1>1 DEF AcceptEnds, IInv, Masked, Each, Unknown, Address, Kind, Upgraded, Fits,
                Allowed, MaxSupportProtocol, node, peers
  <2> QED
    BY <2>4, <2>5, <2>6 DEF IInv
<1>2. CASE AcceptFails \/ OnAcceptError
  <2>1. accepted' \in {nobody, failure}
        /\ UNCHANGED <<node, accepting, backlog, stage, session, op, timer, m_address, peers, served>>
    BY <1>2 DEF AcceptFails, OnAcceptError
  <2>2. TypeOK'
    BY <2>1 DEF IInv, TypeOK, node, peers
  <2>3. Waiting'
    <3>1. accepted' \notin Socket /\ \A i \in DOMAIN backlog : backlog[i] \in Socket
      BY <2>1, SocketAssumption DEF IInv, TypeOK
    <3> QED
      BY <2>1, <3>1 DEF IInv, Waiting
  <2>4. Masked' /\ \A x \in Socket : Each(x)'
    BY <2>1 DEF IInv, Masked, Each, Unknown, Address, Kind, Upgraded, Fits,
                Allowed, MaxSupportProtocol, node, peers
  <2> QED
    BY <2>2, <2>3, <2>4 DEF IInv
<1> QED
  BY <1>1, <1>2

LEMMA Inductive == IInv /\ [Next]_vars => IInv'
<1> SUFFICES ASSUME IInv, [Next]_vars PROVE IInv'
  OBVIOUS
<1>1. CASE ListenerHandlers
  BY <1>1, OnAcceptStep, AcceptStep DEF ListenerHandlers
<1>2. CASE AcceptEnds \/ AcceptFails
  BY <1>2, AcceptStep
<1>3. ASSUME NEW s \in Socket, Handlers(s) PROVE IInv'
  BY <1>3, OnRunStep, OnDetectPlainStep, OnDetectSslStep, OnHandshakeStep, OnRecvUpgradeStep,
     OnWebsocketAcceptStep, OnRecvRequestStep, OnErrorStep DEF Handlers
<1>4. ASSUME NEW s \in Socket, Ends(s) \/ Fails(s) \/ Peers(s) PROVE IInv'
  BY <1>4, EndsStep, FailsStep, ResetStep, ConnectStep DEF Peers
<1>5. CASE UNCHANGED vars
  BY <1>5 DEF vars, node, listener, peers, IInv, TypeOK, Masked, Waiting, Each, Unknown,
              Address, Kind, Upgraded, Fits, Allowed, MaxSupportProtocol
<1> QED
  BY <1>1, <1>2, <1>3, <1>4, <1>5 DEF Next

LEMMA Invariant == Spec => []IInv
BY Initially, Inductive, PTL DEF Spec

-----------------------------------------------------------------------------
(***************************************************************************)
(* The theorems.                                                           *)
(***************************************************************************)

\* The variables keep their types, and a listener has a protocol to serve.
THEOREM TypeCorrect == Spec => []TypeOK
<1>1. IInv => TypeOK
  BY DEF IInv
<1> QED
  BY <1>1, Invariant, PTL

\* However connections interleave, the service is called only in protocols that
\* the node asked for, in ssl ones only with a certificate and for a peer that
\* speaks ssl, in plain ones only for one that does not.
THEOREM OnlyConfigured == Spec => []ServedAsConfigured
<1>1. ASSUME IInv, NEW s \in Socket, NEW p \in served[s]
      PROVE  p \in protocol /\ (p \in Ssl => certificate) /\ (p \in Ssl <=> tls[s])
  <2>1. p \in m_protocol /\ p \in MaxSupportProtocol(s) /\ session[s] # "none"
    BY <1>1 DEF IInv, Each, Fits
  <2>2. p \in protocol /\ (p \in Ssl => certificate)
    BY <1>1, <2>1 DEF IInv, Masked, Mask
  <2>3. p \in Ssl <=> session[s] = "https"
    BY <2>1 DEF MaxSupportProtocol
  <2> QED
    BY <1>1, <2>1, <2>2, <2>3 DEF IInv, Each, Kind
<1>2. IInv => ServedAsConfigured
  BY <1>1 DEF ServedAsConfigured
<1> QED
  BY <1>2, Invariant, PTL

\* Peers may reset their connections at any moment, before the accept too: the
\* service is called without addresses only for requests over plain http of a peer
\* that reset the connection, and never in https, ws or wss.
THEOREM ServedWithAddress == Spec => []Addressed
<1>1. ASSUME IInv, NEW s \in Socket, served[s] # {}, ~m_address[s]
      PROVE  reset[s] /\ served[s] = {"http"}
  <2>1. stage[s] \notin {"away", "backlog"}
    BY <1>1 DEF IInv, Each, Unknown
  <2> QED
    BY <1>1, <2>1 DEF IInv, Each, Address
<1>2. IInv => Addressed
  BY <1>1 DEF Addressed
<1> QED
  BY <1>2, Invariant, PTL
===============================================================================
