----------------------------- MODULE WebManager -----------------------------
(***************************************************************************)
(* WebManager and its WebManagerImpl: init and exit, the signal handler,   *)
(* the threads that run the io_context, and the clients they create, each  *)
(* a WebsocketConnector or WebsocketsConnector and then its session.       *)
(*                                                                         *)
(* One thread of the program calls init, exit and create_*_client.         *)
(* Callbacks may create clients too.  A thread of the manager takes a      *)
(* ready handler and runs it, and the manager can change in between.  Each *)
(* client has one handler at a time (it runs on a strand); its session is  *)
(* reduced to the handler that ends it with on_close.                      *)
(***************************************************************************)
EXTENDS Integers, Sequences

CONSTANTS
  Client,        \* bound: the calls of create_ws_client, create_wss_client
  Secure,        \* those that call create_wss_client
  MaxNodes,      \* bound: service nodes
  ThreadCounts,  \* thread_count of init
  MaxInits,      \* bound: calls of init that find no manager
  Signal, free, returned  \* model values

ASSUME ClientAssumption ==
  /\ Secure \subseteq Client
  /\ {Signal, free, returned} \cap Client = {}
  /\ Signal # free /\ Signal # returned /\ free # returned
ASSUME BoundAssumption == MaxNodes \in Nat /\ ThreadCounts \subseteq Nat /\ MaxInits \in Nat

VARIABLES
  \* the manager
  m_manager_impl,  \* there is one
  m_alive_works,   \* the work guard is held
  m_web_ports,     \* nodes with a listener, by their index
  listening,       \* listeners that accept, by the index of their node
  exiting,         \* exit() joins the threads
  inits,
  \* the io_context
  stopped,
  m_thread_list,   \* what a thread does: free, the task it runs, or returned
  op,              \* the operation of each task: "idle", "busy", "ok" or "error"
  \* the clients
  stage,           \* what a client waits for
  report           \* what the service was told last

manager == <<m_manager_impl, m_alive_works, m_web_ports, listening, exiting, inits>>
context == <<stopped, m_thread_list, op>>
clients == <<stage, report>>
vars    == <<manager, context, clients>>

Task       == Client \cup {Signal}
Connecting == {"resolve", "connect", "ssl handshake", "handshake"}

\* A service node: it can be served plain, or only with ssl; its port cannot be
\* listened on; or it could be served but for its host, which is no address, so
\* that make_address throws.
Node == {"plain", "ssl", "refused", "invalid"}

-----------------------------------------------------------------------------
(***************************************************************************)
(* init.                                                                   *)
(***************************************************************************)
First(S) == CHOOSE i \in S : \A j \in S : i <= j

\* The mask of the node leaves a protocol, and its listener runs.
Serves(node, certificate) == node = "plain" \/ (node = "ssl" /\ certificate = "good")

Failed == [result |-> "false", listening |-> {}, ports |-> {}]

AnyNodePortsFirst(nodes, certificate) ==
  LET last == {i \in DOMAIN nodes : Serves(nodes[i], certificate) \/ nodes[i] = "invalid"}
      i    == First(last)
  IN  IF last = {} THEN Failed
      ELSE IF nodes[i] = "invalid" THEN [result |-> "throws", listening |-> {}, ports |-> 1..i]
      ELSE [result |-> "true", listening |-> {i}, ports |-> 1..i]

\* The loop for service_any_valid: the first node that serves is enough.
AnyNode(nodes, certificate) ==
  LET last == {i \in DOMAIN nodes : Serves(nodes[i], certificate) \/ nodes[i] = "invalid"}
      i    == First(last)
  IN  IF last = {} THEN Failed
      ELSE IF nodes[i] = "invalid" THEN [result |-> "throws", listening |-> {}, ports |-> {}]
      ELSE [result |-> "true", listening |-> {i}, ports |-> {i}]

\* The other loop: every node has to serve; m_web_ports is filled at the end.
EachNode(nodes, certificate) ==
  LET last == {i \in DOMAIN nodes : ~Serves(nodes[i], certificate)}
      i    == First(last)
  IN  IF last = {} THEN [result |-> "true", listening |-> DOMAIN nodes, ports |-> DOMAIN nodes]
      ELSE IF nodes[i] = "invalid"
        THEN [result |-> "throws", listening |-> 1..(i - 1), ports |-> {}]
      ELSE Failed

\* What init() comes to: its result, the listeners that run and m_web_ports.
Outcome(nodes, any, certificate) ==
  IF certificate = "bad" THEN Failed
  ELSE IF nodes = <<>> THEN [result |-> "true", listening |-> {}, ports |-> {}]
  ELSE IF any THEN AnyNode(nodes, certificate) ELSE EachNode(nodes, certificate)

\* At least one thread for each node.
ThreadList(service_count, thread_count) ==
  [t \in 1..(IF thread_count < service_count THEN service_count ELSE thread_count) |-> free]

\* A manager that failed is deleted with its listeners; one whose init() threw
\* stays, with listeners and no threads.
WebManagerInit(nodes, any, certificate, thread_count) ==
  LET outcome == Outcome(nodes, any, certificate)
  IN  /\ ~m_manager_impl /\ inits < MaxInits
      /\ inits' = inits + 1
      /\ m_manager_impl' = (outcome.result # "false")
      /\ IF outcome.result = "false"
         THEN UNCHANGED <<m_alive_works, m_web_ports, listening, op>>
         ELSE /\ m_alive_works' = TRUE
              /\ m_web_ports' = outcome.ports
              /\ listening' = outcome.listening
              /\ op' = [op EXCEPT ![Signal] = "busy"]
      /\ m_thread_list' = IF outcome.result = "true"
                          THEN ThreadList(Len(nodes), thread_count) ELSE <<>>
      /\ stopped' = FALSE
      /\ UNCHANGED <<exiting, clients>>

-----------------------------------------------------------------------------
(***************************************************************************)
(* exit, and the threads.                                                  *)
(***************************************************************************)

ExitWithoutStop ==
  /\ m_manager_impl /\ ~exiting
  /\ exiting' = TRUE
  /\ m_alive_works' = FALSE
  /\ UNCHANGED <<m_manager_impl, m_web_ports, listening, inits, context, clients>>

\* exit(): the work guard goes, the io_context is stopped...
Exit ==
  /\ m_manager_impl /\ ~exiting
  /\ exiting' = TRUE
  /\ m_alive_works' = FALSE
  /\ stopped' = TRUE
  /\ UNCHANGED <<m_manager_impl, m_web_ports, listening, inits, m_thread_list, op, clients>>

ExitKeepsHandlers ==
  /\ exiting
  /\ \A t \in DOMAIN m_thread_list : m_thread_list[t] = returned
  /\ exiting' = FALSE
  /\ m_manager_impl' = FALSE
  /\ m_web_ports' = {}
  /\ listening' = {}
  /\ m_thread_list' = <<>>
  /\ UNCHANGED <<m_alive_works, inits, stopped, op, clients>>

\* ... the threads are joined, and the io_context is destroyed with all it has:
\* the listeners, the operations and the handlers that did not run.
ExitJoined ==
  /\ exiting
  /\ \A t \in DOMAIN m_thread_list : m_thread_list[t] = returned
  /\ exiting' = FALSE
  /\ m_manager_impl' = FALSE
  /\ m_web_ports' = {}
  /\ listening' = {}
  /\ m_thread_list' = <<>>
  /\ op' = [k \in Task |-> "idle"]
  /\ stage' = [c \in Client |-> IF stage[c] = "none" THEN "none" ELSE "over"]
  /\ UNCHANGED <<m_alive_works, inits, stopped, report>>

\* run(): a thread takes a handler that is ready, unless the context stopped.
Take(t, k) ==
  /\ ~stopped
  /\ m_thread_list[t] = free
  /\ op[k] \in {"ok", "error"}
  /\ \A u \in DOMAIN m_thread_list : m_thread_list[u] # k
  /\ m_thread_list' = [m_thread_list EXCEPT ![t] = k]
  /\ UNCHANGED <<manager, stopped, op, clients>>

\* run() returns when the context was stopped or has nothing left to wait for.
Idle == ~m_alive_works /\ listening = {} /\ \A k \in Task : op[k] = "idle"

ThreadReturns(t) ==
  /\ m_thread_list[t] = free
  /\ stopped \/ Idle
  /\ m_thread_list' = [m_thread_list EXCEPT ![t] = returned]
  /\ stopped' = TRUE
  /\ UNCHANGED <<manager, op, clients>>

\* The handler of SIGINT and SIGTERM stops the context, and waits no more.
OnSignal(t) ==
  /\ m_thread_list[t] = Signal
  /\ m_thread_list' = [m_thread_list EXCEPT ![t] = free]
  /\ stopped' = TRUE
  /\ op' = [op EXCEPT ![Signal] = "idle"]
  /\ UNCHANGED <<manager, clients>>

-----------------------------------------------------------------------------
(***************************************************************************)
(* The clients.                                                            *)
(***************************************************************************)

\* Clients a callback may create: none or one.
Fresh == {{}} \cup {{d} : d \in {d \in Client : stage[d] = "none"}}

\* The clients D are created and start to resolve; C are done with.
Start(C, D) ==
  /\ stage' = [c \in Client |-> IF c \in D THEN "resolve"
                                ELSE IF c \in C THEN "over" ELSE stage[c]]
  /\ op' = [k \in Task |-> IF k \in D THEN "busy" ELSE IF k \in C THEN "idle" ELSE op[k]]

\* create_ws_client or create_wss_client, of a program that has a manager.
CreateClient(c) ==
  /\ m_manager_impl /\ ~exiting
  /\ stage[c] = "none"
  /\ Start({}, {c})
  /\ UNCHANGED <<manager, stopped, m_thread_list, report>>

\* The thread t runs the handler of client c for the end of one stage.
Handles(t, c, s, result) ==
  /\ m_thread_list[t] = c
  /\ stage[c] = s /\ op[c] = result
  /\ m_thread_list' = [m_thread_list EXCEPT ![t] = free]
  /\ UNCHANGED <<manager, stopped>>

\* The handler starts the operation of the next stage.
Continue(c, s) ==
  /\ stage' = [stage EXCEPT ![c] = s]
  /\ op' = [op EXCEPT ![c] = "busy"]

OnResolve(t, c) ==
  /\ Handles(t, c, "resolve", "ok")
  /\ Continue(c, "connect")
  /\ UNCHANGED report

OnConnectForgets(t, c) ==
  /\ Handles(t, c, "connect", "ok")
  /\ stage' = [stage EXCEPT ![c] = IF c \in Secure THEN "ssl handshake" ELSE "handshake"]
  /\ op' = [op EXCEPT ![c] = IF c \in Secure THEN "busy" ELSE "idle"]
  /\ UNCHANGED report

OnConnect(t, c) ==
  /\ Handles(t, c, "connect", "ok")
  /\ Continue(c, IF c \in Secure THEN "ssl handshake" ELSE "handshake")
  /\ UNCHANGED report

OnSslHandshake(t, c) ==
  /\ Handles(t, c, "ssl handshake", "ok")
  /\ Continue(c, "handshake")
  /\ UNCHANGED report

\* The session starts: on_connect with the connection.
OnHandshake(t, c) ==
  /\ Handles(t, c, "handshake", "ok")
  /\ Continue(c, "session")
  /\ report' = [report EXCEPT ![c] = "shown"]

ErrorGoesOn(t, c) ==
  \E s \in Connecting :
    /\ Handles(t, c, s, "error")
    /\ Continue(c, "connect")
    /\ report' = [report EXCEPT ![c] = "failed"]

\* error(): on_error, then on_connect with null, in which the service may
\* connect again.  No operation follows.
Error(t, c) ==
  \E s \in Connecting, D \in Fresh :
    /\ Handles(t, c, s, "error")
    /\ Start({c}, D)
    /\ report' = [report EXCEPT ![c] = "failed"]

\* The session ends with on_close, in which the service may connect again.
OnClose(t, c) ==
  \E result \in {"ok", "error"}, D \in Fresh :
    /\ Handles(t, c, "session", result)
    /\ Start({c}, D)
    /\ report' = [report EXCEPT ![c] = "closed"]

-----------------------------------------------------------------------------
(***************************************************************************)
(* The system.                                                             *)
(***************************************************************************)

\* A signal arrives, or the operation of a client ends.
Ends(k) ==
  /\ op[k] = "busy"
  /\ op' = [op EXCEPT ![k] = "ok"] \/ (k # Signal /\ op' = [op EXCEPT ![k] = "error"])
  /\ UNCHANGED <<manager, stopped, m_thread_list, clients>>

Init ==
  /\ m_manager_impl = FALSE /\ m_alive_works = FALSE /\ m_web_ports = {}
  /\ listening = {} /\ exiting = FALSE /\ inits = 0
  /\ stopped = FALSE /\ m_thread_list = <<>> /\ op = [k \in Task |-> "idle"]
  /\ stage = [c \in Client |-> "none"] /\ report = [c \in Client |-> "none"]

\* The calls of the program.
Inits == \E n \in 0..MaxNodes, any \in BOOLEAN, certificate \in {"none", "good", "bad"},
            thread_count \in ThreadCounts :
           \E nodes \in [1..n -> Node] : WebManagerInit(nodes, any, certificate, thread_count)

Calls == Inits \/ Exit \/ \E c \in Client : CreateClient(c)

Handlers(t) ==
  \/ OnSignal(t)
  \/ \E c \in Client :
       OnResolve(t, c) \/ OnConnect(t, c) \/ OnSslHandshake(t, c) \/ OnHandshake(t, c)
         \/ Error(t, c) \/ OnClose(t, c)

Threads ==
  \E t \in DOMAIN m_thread_list :
    ThreadReturns(t) \/ Handlers(t) \/ \E k \in Task : Take(t, k)

Next == Calls \/ ExitJoined \/ Threads \/ \E k \in Task : Ends(k)

Spec == Init /\ [][Next]_vars

(***************************************************************************)
(* Fairness.  A thread runs the handler it took, returns when it can, and  *)
(* takes each handler that waits, since the io_context queues them.  What  *)
(* a connector waits for ends: the resolver gives up, the tcp stream has   *)
(* its timer until the websocket handshake, which has the suggested one.   *)
(* A signal may never come, a session may last, and the program need not   *)
(* call anything; when it called exit, it goes on once it has joined.      *)
(***************************************************************************)
ThreadIds == UNION {1..n : n \in ThreadCounts \cup {MaxNodes}}

Fairness ==
  /\ \A t \in ThreadIds :
       WF_vars(t \in DOMAIN m_thread_list /\ (ThreadReturns(t) \/ Handlers(t)))
  /\ \A k \in Task : WF_vars(\E t \in DOMAIN m_thread_list : Take(t, k))
  /\ \A c \in Client : WF_vars(stage[c] \in Connecting /\ Ends(c))
  /\ WF_vars(ExitJoined)

FairSpec == Spec /\ Fairness

-----------------------------------------------------------------------------
(***************************************************************************)
(* Properties.                                                             *)
(***************************************************************************)

\* Types.
TypeOK ==
  /\ m_manager_impl \in BOOLEAN /\ m_alive_works \in BOOLEAN /\ exiting \in BOOLEAN
  /\ m_web_ports \subseteq listening /\ listening \subseteq 1..MaxNodes
  /\ inits \in 0..MaxInits /\ stopped \in BOOLEAN
  /\ m_thread_list \in Seq(Task \cup {free, returned})
  /\ op \in [Task -> {"idle", "busy", "ok", "error"}]
  /\ stage \in [Client -> {"none", "session", "over"} \cup Connecting]
  /\ report \in [Client -> {"none", "failed", "shown", "closed"}]

\* A thread that runs a task has a handler to run, and no handler of one client
\* or of the signal runs twice at a time; exit() leaves nothing that could run
\* later: no thread, no handler, no operation, no listener, no client in
\* progress - whatever arrived while the threads were joined.
Released ==
  /\ \A t \in DOMAIN m_thread_list : m_thread_list[t] \in Task =>
       op[m_thread_list[t]] \in {"ok", "error"}
  /\ ~m_manager_impl =>
       /\ m_thread_list = <<>> /\ listening = {} /\ \A k \in Task : op[k] = "idle"
       /\ \A c \in Client : stage[c] \in {"none", "over"}

\* exit() returns, though sessions, listeners and the signal handler wait and
\* callbacks create clients meanwhile.
ExitReturns == exiting ~> ~exiting

\* The outcome of every client is reported, with on_connect, as long as the
\* manager has threads and neither exit() nor a signal stops it.
Reported ==
  \A c \in Client :
    stage[c] \in Connecting /\ m_thread_list # <<>> ~> report[c] # "none" \/ stopped

\* readme.md calls on_close the last callback of a connection, that comes when
\* the connection closes.  Once exit() returned, every connection is closed;
\* those the service was shown were reported closed.
ClosedWhenReleased == ~m_manager_impl => \A c \in Client : report[c] # "shown"

(***************************************************************************)
(* The manager implements what the service is promised of its clients.     *)
(***************************************************************************)
Live == {"session"} \cup Connecting

C == INSTANCE Clients WITH
       runs  <- m_manager_impl,
       asked <- {c \in Client : stage[c] \in Live},
       past  <- {c \in Client : stage[c] = "over"}

\* Threads, handlers, exit and signals behave to the service as Clients: one
\* report for each client, by the manager that created it, and none after it.
ImplementsClients == C!Spec
===============================================================================
