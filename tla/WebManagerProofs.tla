-------------------------- MODULE WebManagerProofs --------------------------
(***************************************************************************)
(* Proofs about WebManager, for any number of clients, nodes, threads and  *)
(* generations of the manager: types, what exit() leaves, and that the     *)
(* manager implements Clients.                                             *)
(***************************************************************************)
EXTENDS WebManager, SequenceTheorems, WellFoundedInduction, TLAPS

USE DEF Task, Connecting

-----------------------------------------------------------------------------
(***************************************************************************)
(* The inductive invariant.                                                *)
(***************************************************************************)

\* A thread runs a task whose operation ended, and no task is run twice.
Running ==
  \A t \in DOMAIN m_thread_list : m_thread_list[t] \in Task =>
    /\ op[m_thread_list[t]] \in {"ok", "error"}
    /\ \A u \in DOMAIN m_thread_list : m_thread_list[u] = m_thread_list[t] => u = t

\* exit() joins the threads of a manager, and without one nothing is left.
Joining == exiting => m_manager_impl

Empty ==
  ~m_manager_impl =>
    /\ m_thread_list = <<>> /\ listening = {} /\ \A k \in Task : op[k] = "idle"
    /\ \A c \in Client : stage[c] \in {"none", "over"}

\* What the service was told follows the client, and one that was not created
\* yet has no operation.
Told ==
  \A c \in Client :
    /\ stage[c] = "none" => op[c] = "idle"
    /\ stage[c] \in {"none"} \cup Connecting => report[c] = "none"
    /\ stage[c] = "session" => report[c] = "shown"

IInv == TypeOK /\ Running /\ Joining /\ Empty /\ Told

-----------------------------------------------------------------------------
(***************************************************************************)
(* init.                                                                   *)
(***************************************************************************)

\* The first of a set of indices is one of them.
LEMMA FirstIsMember == ASSUME NEW S, S \subseteq Nat, S # {} PROVE First(S) \in S
<1>1. PICK i \in S : \A j \in S : ~(<<j, i>> \in OpToRel(<, Nat))
  BY WFMin, NatLessThanWellFounded
<1>2. \A j \in S : ~(j < i)
  BY <1>1 DEF OpToRel
<1>3. \A j \in S : i <= j
  BY <1>2
<1> QED
  BY <1>3 DEF First

\* init() reports ports of nodes that listen, and only nodes it was given do.
LEMMA OutcomeTypes ==
  ASSUME NEW n \in Nat, NEW nodes \in [1..n -> Node], NEW any \in BOOLEAN,
         NEW certificate
  PROVE  LET outcome == Outcome(nodes, any, certificate)
         IN  /\ outcome.ports \subseteq outcome.listening
             /\ outcome.listening \subseteq 1..n
<1>1. AnyNode(nodes, certificate).ports \subseteq AnyNode(nodes, certificate).listening
      /\ AnyNode(nodes, certificate).listening \subseteq 1..n
  <2> DEFINE last == {i \in DOMAIN nodes : Serves(nodes[i], certificate) \/ nodes[i] = "invalid"}
  <2>1. last \subseteq Nat /\ last \subseteq 1..n
    OBVIOUS
  <2> HIDE DEF last
  <2>2. last # {} => First(last) \in 1..n
    BY <2>1, FirstIsMember
  <2>3. AnyNode(nodes, certificate) =
          IF last = {} THEN Failed
          ELSE IF nodes[First(last)] = "invalid"
            THEN [result |-> "throws", listening |-> {}, ports |-> {}]
          ELSE [result |-> "true", listening |-> {First(last)}, ports |-> {First(last)}]
    BY DEF AnyNode, last
  <2> QED
    BY <2>2, <2>3 DEF Failed
<1>2. EachNode(nodes, certificate).ports \subseteq EachNode(nodes, certificate).listening
      /\ EachNode(nodes, certificate).listening \subseteq 1..n
  <2> DEFINE last == {i \in DOMAIN nodes : ~Serves(nodes[i], certificate)}
  <2>1. last \subseteq Nat /\ last \subseteq 1..n
    OBVIOUS
  <2> HIDE DEF last
  <2>2. last # {} => First(last) \in 1..n
    BY <2>1, FirstIsMember
  <2>3. EachNode(nodes, certificate) =
          IF last = {}
            THEN [result |-> "true", listening |-> DOMAIN nodes, ports |-> DOMAIN nodes]
          ELSE IF nodes[First(last)] = "invalid"
            THEN [result |-> "throws", listening |-> 1..(First(last) - 1), ports |-> {}]
          ELSE Failed
    BY DEF EachNode, last
  <2> QED
    BY <2>2, <2>3 DEF Failed
<1> QED
  BY <1>1, <1>2 DEF Outcome, Failed

\* init() makes free threads.
LEMMA ThreadListTypes ==
  ASSUME NEW n \in Nat, NEW thread_count \in Nat
  PROVE  /\ ThreadList(n, thread_count) \in Seq({free})
         /\ \A t \in DOMAIN ThreadList(n, thread_count) : ThreadList(n, thread_count)[t] = free
BY DEF ThreadList

-----------------------------------------------------------------------------
(***************************************************************************)
(* The invariant, action by action.                                        *)
(***************************************************************************)
LEMMA NoThreads == <<>> \in Seq(Task \cup {free, returned}) /\ DOMAIN <<>> = {}
OBVIOUS

LEMMA Initially == Init => IInv
<1> SUFFICES ASSUME Init PROVE IInv
  OBVIOUS
<1>1. TypeOK
  <2>1. inits \in 0..MaxInits
    BY BoundAssumption DEF Init
  <2>2. m_thread_list \in Seq(Task \cup {free, returned})
    BY NoThreads DEF Init
  <2> QED
    BY <2>1, <2>2 DEF Init, TypeOK
<1>2. Running
  BY NoThreads DEF Init, Running
<1>3. Joining /\ Empty /\ Told
  BY DEF Init, Joining, Empty, Told
<1> QED
  BY <1>1, <1>2, <1>3 DEF IInv

LEMMA InitStep ==
  ASSUME IInv, NEW n \in 0..MaxNodes, NEW any \in BOOLEAN, NEW certificate,
         NEW thread_count \in ThreadCounts, NEW nodes \in [1..n -> Node],
         WebManagerInit(nodes, any, certificate, thread_count)
  PROVE  IInv'
<1> DEFINE outcome == Outcome(nodes, any, certificate)
<1>1. n \in Nat /\ thread_count \in Nat /\ Len(nodes) = n /\ 1..n \subseteq 1..MaxNodes
  BY BoundAssumption
<1>2. outcome.ports \subseteq outcome.listening /\ outcome.listening \subseteq 1..MaxNodes
  BY <1>1, OutcomeTypes
<1> HIDE DEF outcome
<1>3. /\ ~m_manager_impl /\ inits < MaxInits /\ inits' = inits + 1
      /\ m_manager_impl' = (outcome.result # "false")
      /\ IF outcome.result = "false"
         THEN UNCHANGED <<m_alive_works, m_web_ports, listening, op>>
         ELSE /\ m_alive_works' = TRUE
              /\ m_web_ports' = outcome.ports
              /\ listening' = outcome.listening
              /\ op' = [op EXCEPT ![Signal] = "busy"]
      /\ m_thread_list' = IF outcome.result = "true" THEN ThreadList(n, thread_count) ELSE <<>>
      /\ stopped' = FALSE
      /\ UNCHANGED <<exiting, stage, report>>
  BY <1>1 DEF WebManagerInit, outcome, clients
<1>4. m_thread_list' \in Seq({free}) /\ \A t \in DOMAIN m_thread_list' : m_thread_list'[t] = free
  <2>1. CASE outcome.result = "true"
    BY <1>1, <1>3, <2>1, ThreadListTypes
  <2>2. CASE outcome.result # "true"
    BY <1>3, <2>2
  <2> QED
    BY <2>1, <2>2
<1>5. TypeOK'
  <2>1. m_thread_list' \in Seq(Task \cup {free, returned})
    BY <1>4
  <2>2. op' \in [Task -> {"idle", "busy", "ok", "error"}]
    BY <1>3 DEF IInv, TypeOK
  <2>3. m_web_ports' \subseteq listening' /\ listening' \subseteq 1..MaxNodes
    BY <1>2, <1>3 DEF IInv, TypeOK
  <2>4. inits' \in 0..MaxInits
    <3>1. inits \in 0..MaxInits /\ inits < MaxInits /\ inits' = inits + 1
      BY <1>3 DEF IInv, TypeOK
    <3> QED
      BY <3>1, BoundAssumption
  <2>5. m_manager_impl' \in BOOLEAN /\ m_alive_works' \in BOOLEAN
    BY <1>3 DEF IInv, TypeOK
  <2> QED
    BY <1>3, <2>1, <2>2, <2>3, <2>4, <2>5 DEF IInv, TypeOK
<1>6. Running'
  BY <1>4, ClientAssumption DEF Running
<1>7. Joining'
  BY <1>3 DEF IInv, Joining
<1>8. Empty'
  BY <1>3 DEF IInv, Empty
<1>9. Told'
  BY <1>3, ClientAssumption DEF IInv, TypeOK, Told
<1> QED
  BY <1>5, <1>6, <1>7, <1>8, <1>9 DEF IInv

LEMMA ExitStep == ASSUME IInv, Exit PROVE IInv'
BY DEF Exit, IInv, TypeOK, Running, Joining, Empty, Told, context, clients

LEMMA ExitJoinedStep == ASSUME IInv, ExitJoined PROVE IInv'
<1>1. TypeOK'
  BY NoThreads DEF ExitJoined, IInv, TypeOK
<1>2. Running' /\ Joining'
  BY NoThreads DEF ExitJoined, Running, Joining
<1>4. Empty'
  BY DEF ExitJoined, IInv, TypeOK, Empty
<1>3. Told'
  BY <1>1 DEF ExitJoined, IInv, TypeOK, Told
<1> QED
  BY <1>1, <1>2, <1>3, <1>4 DEF IInv

\* A manager that has threads exists.
LEMMA ThreadsOfManager ==
  ASSUME IInv, NEW t \in DOMAIN m_thread_list PROVE m_manager_impl
BY DEF IInv, Empty

\* A thread turns to something else.
LEMMA ThreadListStep ==
  ASSUME IInv, NEW t \in DOMAIN m_thread_list, NEW x \in Task \cup {free, returned}
  PROVE  LET list == [m_thread_list EXCEPT ![t] = x]
         IN  /\ list \in Seq(Task \cup {free, returned})
             /\ DOMAIN list = DOMAIN m_thread_list
             /\ list[t] = x
             /\ \A u \in DOMAIN m_thread_list : u # t => list[u] = m_thread_list[u]
<1>1. m_thread_list \in Seq(Task \cup {free, returned})
  BY DEF IInv, TypeOK
<1>2. DOMAIN m_thread_list = 1..Len(m_thread_list)
  BY <1>1, LenProperties
<1> QED
  BY <1>1, <1>2, ExceptSeq

\* A thread that ran the task k is free again: the others run other tasks.
LEMMA FreeStep ==
  ASSUME IInv, NEW t \in DOMAIN m_thread_list, m_thread_list[t] \in Task,
         m_thread_list' = [m_thread_list EXCEPT ![t] = free],
         \A u \in DOMAIN m_thread_list :
           m_thread_list[u] \in Task /\ m_thread_list[u] # m_thread_list[t]
             => op'[m_thread_list[u]] = op[m_thread_list[u]]
  PROVE  Running'
<1>1. /\ DOMAIN m_thread_list' = DOMAIN m_thread_list
      /\ m_thread_list'[t] = free
      /\ \A u \in DOMAIN m_thread_list : u # t => m_thread_list'[u] = m_thread_list[u]
  BY ThreadListStep
<1>2. free \notin Task
  BY ClientAssumption
<1> QED
  BY <1>1, <1>2 DEF IInv, Running

LEMMA TakeStep ==
  ASSUME IInv, NEW t \in DOMAIN m_thread_list, NEW k \in Task, Take(t, k) PROVE IInv'
<1>1. TypeOK'
  BY ThreadListStep DEF Take, IInv, TypeOK, manager, clients
<1>2. Running'
  BY ThreadListStep DEF Take, IInv, Running
<1>3. Joining' /\ Empty' /\ Told'
  BY ThreadsOfManager DEF Take, IInv, Joining, Empty, Told, manager, clients
<1> QED
  BY <1>1, <1>2, <1>3 DEF IInv

LEMMA ThreadReturnsStep ==
  ASSUME IInv, NEW t \in DOMAIN m_thread_list, ThreadReturns(t) PROVE IInv'
<1>1. TypeOK'
  BY ThreadListStep DEF ThreadReturns, IInv, TypeOK, manager, clients
<1>2. Running'
  BY ThreadListStep, ClientAssumption DEF ThreadReturns, IInv, Running
<1>3. Joining' /\ Empty' /\ Told'
  BY ThreadsOfManager DEF ThreadReturns, IInv, Joining, Empty, Told, manager, clients
<1> QED
  BY <1>1, <1>2, <1>3 DEF IInv

LEMMA OnSignalStep ==
  ASSUME IInv, NEW t \in DOMAIN m_thread_list, OnSignal(t) PROVE IInv'
<1>1. TypeOK'
  BY ThreadListStep DEF OnSignal, IInv, TypeOK, manager, clients
<1>4. m_thread_list' = [m_thread_list EXCEPT ![t] = free] /\ m_thread_list[t] = Signal
      /\ \A k \in Task : k # Signal => op'[k] = op[k]
  BY DEF OnSignal, IInv, TypeOK
<1>2. Running'
  BY <1>4, FreeStep
<1>3. Joining' /\ Empty' /\ Told'
  BY ThreadsOfManager, ClientAssumption
  DEF OnSignal, IInv, TypeOK, Joining, Empty, Told, manager, clients
<1> QED
  BY <1>1, <1>2, <1>3 DEF IInv

LEMMA EndsStep == ASSUME IInv, NEW k \in Task, Ends(k) PROVE IInv'
<1>1. TypeOK'
  BY DEF Ends, IInv, TypeOK, manager, clients
<1>2. Running'
  BY DEF Ends, IInv, TypeOK, Running
<1>3. Joining' /\ Empty' /\ Told'
  BY DEF Ends, IInv, TypeOK, Joining, Empty, Told, manager, clients
<1> QED
  BY <1>1, <1>2, <1>3 DEF IInv

LEMMA CreateClientStep == ASSUME IInv, NEW c \in Client, CreateClient(c) PROVE IInv'
<1>1. TypeOK'
  BY DEF CreateClient, Start, IInv, TypeOK, manager
<1>2. Running'
  BY DEF CreateClient, Start, IInv, TypeOK, Running, Told
<1>3. Joining' /\ Empty' /\ Told'
  BY DEF CreateClient, Start, IInv, TypeOK, Joining, Empty, Told, manager
<1> QED
  BY <1>1, <1>2, <1>3 DEF IInv

\* The handler of a client starts the next operation.
LEMMA ContinueStep ==
  ASSUME IInv, NEW t \in DOMAIN m_thread_list, NEW c \in Client,
         NEW s, NEW result, Handles(t, c, s, result),
         NEW next \in Connecting \cup {"session"}, Continue(c, next),
         \/ next \in Connecting /\ s \in Connecting /\ UNCHANGED report
         \/ next = "session" /\ report' = [report EXCEPT ![c] = "shown"]
  PROVE  IInv'
<1>1. TypeOK'
  BY ThreadListStep DEF Handles, Continue, IInv, TypeOK, manager
<1>2. Running'
  BY FreeStep DEF Handles, Continue, IInv, TypeOK
<1>3. Joining' /\ Empty'
  BY ThreadsOfManager DEF Handles, IInv, Joining, Empty, manager
<1>4. Told'
  BY DEF Handles, Continue, IInv, TypeOK, Told
<1> QED
  BY <1>1, <1>2, <1>3, <1>4 DEF IInv

\* The handler of a client reports its end, and the service may create another.
LEMMA OverStep ==
  ASSUME IInv, NEW t \in DOMAIN m_thread_list, NEW c \in Client,
         NEW s \in Connecting \cup {"session"}, NEW result, Handles(t, c, s, result),
         NEW D \in Fresh, Start({c}, D),
         NEW r \in {"failed", "closed"}, report' = [report EXCEPT ![c] = r]
  PROVE  IInv'
<1>0. D \subseteq Client /\ (\A d \in D : stage[d] = "none") /\ c \notin D
  BY DEF Fresh, Handles
<1>1. TypeOK'
  BY <1>0, ThreadListStep DEF Handles, Start, IInv, TypeOK, manager
<1>2. ASSUME NEW d \in D, NEW u \in DOMAIN m_thread_list PROVE m_thread_list[u] # d
  <2>1. d \in Task /\ op[d] = "idle"
    BY <1>0 DEF IInv, Told
  <2> QED
    BY <2>1 DEF IInv, Running
<1>5. Running'
  BY <1>0, <1>2, FreeStep DEF Handles, Start, IInv, TypeOK
<1>3. Joining' /\ Empty'
  BY ThreadsOfManager DEF Handles, IInv, Joining, Empty, manager
<1>4. Told'
  BY <1>0 DEF Handles, Start, IInv, TypeOK, Told
<1> QED
  BY <1>1, <1>3, <1>4, <1>5 DEF IInv

LEMMA HandlersStep ==
  ASSUME IInv, NEW t \in DOMAIN m_thread_list, Handlers(t) PROVE IInv'
<1>1. CASE OnSignal(t)
  BY <1>1, OnSignalStep
<1>2. ASSUME NEW c \in Client,
             OnResolve(t, c) \/ OnConnect(t, c) \/ OnSslHandshake(t, c) \/ OnHandshake(t, c)
      PROVE  IInv'
  BY <1>2, ContinueStep DEF OnResolve, OnConnect, OnSslHandshake, OnHandshake
<1>3. ASSUME NEW c \in Client, Error(t, c) \/ OnClose(t, c) PROVE IInv'
  BY <1>3, OverStep DEF Error, OnClose
<1> QED
  BY <1>1, <1>2, <1>3 DEF Handlers

LEMMA Inductive == IInv /\ [Next]_vars => IInv'
<1> SUFFICES ASSUME IInv, [Next]_vars PROVE IInv'
  OBVIOUS
<1>1. CASE Inits
  BY <1>1, InitStep DEF Inits
<1>2. CASE Exit
  BY <1>2, ExitStep
<1>3. CASE \E c \in Client : CreateClient(c)
  BY <1>3, CreateClientStep
<1>4. CASE ExitJoined
  BY <1>4, ExitJoinedStep
<1>5. CASE Threads
  BY <1>5, ThreadReturnsStep, HandlersStep, TakeStep DEF Threads
<1>6. CASE \E k \in Task : Ends(k)
  BY <1>6, EndsStep
<1>7. CASE UNCHANGED vars
  BY <1>7 DEF vars, manager, context, clients, IInv, TypeOK, Running, Joining, Empty, Told
<1> QED
  BY <1>1, <1>2, <1>3, <1>4, <1>5, <1>6, <1>7 DEF Next, Calls

LEMMA Invariant == Spec => []IInv
BY Initially, Inductive, PTL DEF Spec

-----------------------------------------------------------------------------
(***************************************************************************)
(* The theorems.                                                           *)
(***************************************************************************)

\* The variables of the manager keep their types; in particular the ports it
\* gives out are those of nodes that listen.
THEOREM TypeCorrect == Spec => []TypeOK
<1>1. IInv => TypeOK
  BY DEF IInv
<1> QED
  BY <1>1, Invariant, PTL

\* Threads run handlers of operations that ended, and after exit() no thread,
\* handler, operation, listener or client in progress is left.
THEOREM NothingLeft == Spec => []Released
<1>1. IInv => Released
  BY DEF IInv, Running, Empty, Released
<1> QED
  BY <1>1, Invariant, PTL

-----------------------------------------------------------------------------
(***************************************************************************)
(* The manager implements Clients: handlers that report, calls that create *)
(* clients, init and the end of exit are its steps, the rest stutters.     *)
(***************************************************************************)
USE DEF Live

Asked == {c \in Client : stage[c] \in Live}
Past  == {c \in Client : stage[c] = "over"}

\* Threads at work, the end of an operation and the first half of exit() are
\* nothing to the service.
LEMMA Unseen ==
  ASSUME UNCHANGED <<m_manager_impl, stage, report>> PROVE UNCHANGED C!vars
BY DEF C!vars

\* A connector goes from one stage to the next.
LEMMA ContinueImplements ==
  ASSUME IInv, NEW t, NEW c \in Client, NEW s \in Connecting, NEW result,
         Handles(t, c, s, result), NEW next \in Live, Continue(c, next)
  PROVE  Asked' = Asked /\ Past' = Past
BY DEF Handles, Continue, IInv, TypeOK, Asked, Past

\* Clients that are done with and clients that a callback creates.
LEMMA StartImplements ==
  ASSUME IInv, NEW S \in SUBSET Asked, NEW D \in SUBSET Client,
         \A d \in D : stage[d] = "none", Start(S, D)
  PROVE  /\ D \subseteq Client \ (Asked \cup Past)
         /\ Asked' = (Asked \ S) \cup D
         /\ Past' = Past \cup S
BY DEF Start, IInv, TypeOK, Asked, Past

LEMMA HandlersImplement ==
  ASSUME IInv, NEW t \in DOMAIN m_thread_list, Handlers(t) PROVE [C!Next]_(C!vars)
<1>1. CASE OnSignal(t)
  BY <1>1, Unseen DEF OnSignal, manager, clients
<1>2. ASSUME NEW c \in Client, OnResolve(t, c) \/ OnConnect(t, c) \/ OnSslHandshake(t, c)
      PROVE  UNCHANGED C!vars
  <2>1. Asked' = Asked /\ Past' = Past
    BY <1>2, ContinueImplements DEF OnResolve, OnConnect, OnSslHandshake
  <2> QED
    BY <1>2, <2>1
    DEF OnResolve, OnConnect, OnSslHandshake, Handles, manager, C!vars, Asked, Past
<1>3. ASSUME NEW c \in Client, OnHandshake(t, c) PROVE C!Next
  <2>1. Asked' = Asked /\ Past' = Past
    BY <1>3, ContinueImplements DEF OnHandshake
  <2>2. m_manager_impl /\ c \in Asked /\ report[c] = "none"
    BY <1>3, ThreadsOfManager DEF OnHandshake, Handles, IInv, Told, Asked
  <2>3. C!Show(c)
    BY <1>3, <2>1, <2>2 DEF OnHandshake, Handles, manager, C!Show, Asked, Past
  <2> QED
    BY <2>3 DEF C!Next
<1>4. ASSUME NEW c \in Client, Error(t, c) PROVE C!Next
  <2>1. PICK s \in Connecting, D \in Fresh :
          /\ Handles(t, c, s, "error") /\ Start({c}, D)
          /\ report' = [report EXCEPT ![c] = "failed"]
    BY <1>4 DEF Error
  <2>2. m_manager_impl /\ c \in Asked /\ report[c] = "none" /\ D \in SUBSET Client
        /\ \A d \in D : stage[d] = "none"
    BY <2>1, ThreadsOfManager, ZenonT(40) DEF Handles, IInv, Told, Asked, Fresh
  <2>3. /\ D \subseteq Client \ (Asked \cup Past)
        /\ Asked' = (Asked \ {c}) \cup D
        /\ Past' = Past \cup {c}
    BY <2>1, <2>2, StartImplements, ZenonT(40)
  <2>4. UNCHANGED m_manager_impl
    BY <2>1 DEF Handles, manager
  <2>5. C!Fail(c, D)
    BY <2>1, <2>2, <2>3, <2>4 DEF C!Fail, C!Asks, Asked, Past
  <2> QED
    BY <2>2, <2>5 DEF C!Next
<1>5. ASSUME NEW c \in Client, OnClose(t, c) PROVE C!Next
  <2>1. PICK result \in {"ok", "error"}, D \in Fresh :
          /\ Handles(t, c, "session", result) /\ Start({c}, D)
          /\ report' = [report EXCEPT ![c] = "closed"]
    BY <1>5 DEF OnClose
  <2>2. m_manager_impl /\ c \in Asked /\ report[c] = "shown" /\ D \in SUBSET Client
        /\ \A d \in D : stage[d] = "none"
    BY <2>1, ThreadsOfManager, ZenonT(40) DEF Handles, IInv, Told, Asked, Fresh
  <2>3. /\ D \subseteq Client \ (Asked \cup Past)
        /\ Asked' = (Asked \ {c}) \cup D
        /\ Past' = Past \cup {c}
    BY <2>1, <2>2, StartImplements, ZenonT(40)
  <2>4. UNCHANGED m_manager_impl
    BY <2>1 DEF Handles, manager
  <2>5. C!Close(c, D)
    BY <2>1, <2>2, <2>3, <2>4 DEF C!Close, C!Asks, Asked, Past
  <2> QED
    BY <2>2, <2>5 DEF C!Next
<1> QED
  BY <1>1, <1>2, <1>3, <1>4, <1>5 DEF Handlers

LEMMA StepImplements == IInv /\ [Next]_vars => [C!Next]_(C!vars)
<1> SUFFICES ASSUME IInv, [Next]_vars PROVE [C!Next]_(C!vars)
  OBVIOUS
<1>1. CASE Inits
  <2>1. ~m_manager_impl /\ m_manager_impl' \in BOOLEAN /\ UNCHANGED <<stage, report>>
    BY <1>1 DEF Inits, WebManagerInit, clients
  <2>2. CASE m_manager_impl'
    BY <2>1, <2>2 DEF C!Next, C!Start
  <2>3. CASE ~m_manager_impl'
    BY <2>1, <2>3, Unseen DEF IInv, TypeOK
  <2> QED
    BY <2>2, <2>3
<1>2. CASE Exit
  BY <1>2, Unseen DEF Exit, clients
<1>3. ASSUME NEW c \in Client, CreateClient(c) PROVE C!Next
  <2>1. stage[c] = "none" /\ Start({}, {c})
    BY <1>3 DEF CreateClient
  <2>2. C!Ask({c})
    BY <1>3, <2>1, StartImplements, ZenonT(40) DEF CreateClient, manager, C!Ask, C!Asks, Asked, Past
  <2> QED
    BY <2>2 DEF C!Next
<1>4. CASE ExitJoined
  <2>1. m_manager_impl /\ ~m_manager_impl' /\ UNCHANGED report
    BY <1>4 DEF ExitJoined, IInv, Joining
  <2>2. Asked' = {} /\ Past' = Past \cup Asked
    BY <1>4 DEF ExitJoined, IInv, TypeOK, Asked, Past
  <2>3. m_manager_impl' = FALSE
    BY <1>4 DEF ExitJoined
  <2>4. C!Stop
    BY <2>1, <2>2, <2>3 DEF C!Stop, C!Asks, Asked, Past
  <2> QED
    BY <2>4 DEF C!Next
<1>5. CASE Threads
  <2>1. ASSUME NEW t \in DOMAIN m_thread_list,
               ThreadReturns(t) \/ \E k \in Task : Take(t, k)
        PROVE  UNCHANGED C!vars
    BY <2>1, Unseen DEF ThreadReturns, Take, manager, clients
  <2> QED
    BY <1>5, <2>1, HandlersImplement DEF Threads
<1>6. CASE \E k \in Task : Ends(k)
  BY <1>6, Unseen DEF Ends, manager, clients
<1>7. CASE UNCHANGED vars
  BY <1>7, Unseen DEF vars, manager, clients
<1> QED
  BY <1>1, <1>2, <1>3, <1>4, <1>5, <1>6, <1>7 DEF Next, Calls

\* Threads, handlers, exit() and signals keep the promises of Clients: a client
\* is reported once, by the manager that created it, and never after exit().
THEOREM Implements == Spec => ImplementsClients
<1>1. Init => C!Init
  BY DEF Init, C!Init
<1> QED
  BY <1>1, StepImplements, Invariant, PTL DEF Spec, ImplementsClients, C!Spec
===============================================================================
