--------------------------- MODULE ExchangeEndProofs ---------------------------
(***************************************************************************)
(* How a conversation of Exchange ends, for every set of payloads and      *)
(* words, every limit of the ping-pong and every number of messages.       *)
(*                                                                         *)
(* These are the parts of ExchangeEnds that say nothing of fairness.       *)
(* FinishedOnce: one end at most counts the connection as finished, and    *)
(* then every message up to the limit was taken.  NoEndlessWork: there is  *)
(* no step that does not lower the work that is left.  SettlesWell: where  *)
(* no step is left to be taken, the conversation is over.                  *)
(***************************************************************************)
EXTENDS ExchangeProofs

-----------------------------------------------------------------------------
(***************************************************************************)
(* Which end of a ping-pong comes to the limit.                            *)
(***************************************************************************)

\* A reaction ends the connection when, and only when, it counts it.
Finishes(r) == r.finishes = IF r.answer = "abandon" THEN 1 ELSE 0

\* send_message counts what it ends.
LEMMA SendMessageFinishes ==
  ASSUME ServiceOK, NEW n \in 0..MaxMessages
  PROVE  Finishes(SendMessage(n)) /\ Finishes(Dropping(SendMessage(n)))
<1>1. \A r : r = Keeping(n) => Finishes(r) /\ Finishes(Dropping(r))
  BY DEF Finishes, Dropping, Keeping, Reaction
<1>2. \A r : r = Finishing(n) => Finishes(r) /\ Finishes(Dropping(r))
  BY DEF Finishes, Dropping, Finishing, Reaction
<1>3. \A r : r = Filling(n + 1, m_text, n + 1) => Finishes(r) /\ Finishes(Dropping(r))
  BY DEF Finishes, Dropping, Filling, Reaction
<1> QED
  BY <1>1, <1>2, <1>3, SendMessageCases

\* So does recv_message, unless an assert failed.
LEMMA RecvMessageFinishes ==
  ASSUME ServiceOK, program = "test", NEW side \in Sides, NEW queue,
         NEW r \in OnRecv(side, queue), r.fails = FALSE
  PROVE  Finishes(r)
<1> DEFINE n == count[side]
           check == CheckMessage(n, BufferData(queue))
<1>1. n \in 0..MaxMessages
  BY DEF ServiceOK
<1>2. r = RecvMessage(n, queue) /\ Failing(n).fails = TRUE
  BY DEF OnRecv, Failing, Reaction
<1>3. \/ check.fails
      \/ check.count \in 0..MaxMessages
  BY <1>1, CheckMessageCases, Shapes
<1> HIDE DEF check
<1>4. \/ r = Failing(n)
      \/ r = check /\ check.fails
      \/ ~check.fails /\ r = Dropping(SendMessage(check.count))
  BY <1>2 DEF RecvMessage, check
<1> QED
  BY <1>2, <1>3, <1>4, SendMessageFinishes

\* Neither callback that is shown the connection counts it as finished.
LEMMA ShownFinishes ==
  ASSUME ServiceOK, program = "test"
  PROVE  OnConnect.finishes = 0 /\ OnAccept.finishes = 0
<1>1. OnAccept = Keeping(0) /\ Keeping(0).count = 0 /\ Keeping(0).finishes = 0
  BY DEF OnAccept, InsertConnection, Keeping, Reaction
<1>2. OnConnect = SendMessage(0)
  BY <1>1 DEF OnConnect, InsertConnection
<1>3. Filling(0 + 1, m_text, 0 + 1).finishes = 0
  BY DEF Filling, Reaction
<1>4. 0 \in 0..MaxMessages /\ m_max_message_count \in Nat
  BY MessagesAssumption DEF ServiceOK
<1>5. CASE m_max_message_count = 0
  <2>1. SendMessage(0) = Keeping(0)
    BY <1>5 DEF SendMessage
  <2> QED
    BY <1>1, <1>2, <2>1
<1>6. CASE m_max_message_count > 0
  <2>1. ~(0 >= m_max_message_count) /\ m_max_message_count # 0
    BY <1>4, <1>6
  <2> QED
    BY <1>1, <1>2, <1>3, <1>4, <2>1, SendMessageCases
<1> QED
  BY <1>4, <1>5, <1>6

\* An end counts the connection as finished when it took a message and gave
\* none for it, and then that message was the last.
Finished ==
  program = "test" =>
    /\ m_send_finish_count["client"] =
         IF Len(c_taken) > 0 /\ Len(ClientGiven) = Len(c_taken) THEN 1 ELSE 0
    /\ m_send_finish_count["server"] =
         IF Len(s_taken) # Len(ServerGiven) THEN 1 ELSE 0
    /\ m_send_finish_count["client"] = 1 => count["client"] = m_max_message_count
    /\ m_send_finish_count["server"] = 1 => count["server"] = m_max_message_count

FinishInv == IInv /\ Finished

\* Steps that the services do not see.
LEMMA QuietFinished ==
  ASSUME Finished, Quiet, UNCHANGED m_send_finish_count
  PROVE  Finished'
BY DEF Finished, Quiet

\* A callback that counted a message at the client ...
LEMMA ClientFinished ==
  ASSUME FinishInv, ClientTakes, owes["client"] = <<>>
  PROVE  Finished'
<1> SUFFICES ASSUME program' = "test" PROVE Finished'
  BY DEF Finished
<1>1. PICK r \in OnRecv("client", Client!TypedBack(c_recv_queue)) :
        Client!OnRecv(r.drop, r.answer) /\ Callback("client", r)
  BY DEF ClientTakes
<1>2. /\ IInv /\ Base /\ ServiceOK /\ Finished /\ c_rd = "ok" /\ UNCHANGED server
      /\ program = "test" /\ "client" \in Sides
  BY <1>1 DEF FinishInv, IInv, Base, ClientTakes, Callback, Sides
<1>3. /\ Called("client", r) /\ r.drop = 1
      /\ Continues(r, Len(c_taken) + 1 + Len(ClientGiven))
      /\ Len(ClientGiven) = Len(c_taken) + 1
      /\ Len(c_taken) + 1 + Len(ClientGiven) <= m_max_message_count
  BY <1>1, <1>2, TestClientTakes
<1>4. Finishes(r) /\ r.answer \in {"keep", "abandon"}
  BY <1>1, <1>2, <1>3, RecvMessageFinishes, RecvReturns DEF Called, Returned
<1>5. c_filled' = c_filled /\ Len(c_taken') = Len(c_taken) + 1
  BY <1>1, <1>2, <1>3, <1>4, ClientTook
<1>6. ClientCalled(r)
  BY <1>2, <1>3, <1>5, ClientCalledStep
<1>7. /\ m_send_finish_count'["client"] = m_send_finish_count["client"] + r.finishes
      /\ m_send_finish_count'["server"] = m_send_finish_count["server"]
      /\ UNCHANGED m_max_message_count
  BY <1>1, <1>2 DEF Callback, ServiceOK, Sides
<1>8. /\ ClientGiven \in Seq(Message) /\ Len(c_taken) \in Nat /\ Len(ClientGiven) \in Nat
      /\ m_max_message_count \in Nat
  BY <1>2, BaseTypes, Lengths
<1>9. m_send_finish_count["client"] = 0
  BY <1>2, <1>3, <1>8 DEF Finished
<1>10. CASE r.answer = "abandon"
  <2>1. /\ r.fill = <<>> /\ r.count = Len(c_taken) + 1 + Len(ClientGiven) /\ r.finishes = 1
        /\ Len(c_taken) + 1 + Len(ClientGiven) >= m_max_message_count
    BY <1>3, <1>4, <1>10 DEF Continues, Finishes
  <2>2. ClientGiven' = ClientGiven
    BY <1>6, <1>8, <2>1, Grown DEF ClientCalled
  <2>3. m_send_finish_count'["client"] = 1
    BY <1>7, <1>9, <2>1
  <2>4. Len(c_taken') > 0 /\ Len(ClientGiven') = Len(c_taken')
    BY <1>3, <1>5, <1>8, <2>2
  <2>5. count'["client"] = m_max_message_count'
    BY <1>3, <1>6, <1>7, <1>8, <2>1 DEF ClientCalled
  <2> QED
    BY <1>2, <1>6, <1>7, <2>3, <2>4, <2>5 DEF Finished, ClientCalled
<1>11. CASE r.answer = "keep"
  <2>1. r.finishes = 0 /\ \E m \in Message : r.fill = <<m>>
    <3>1. r.finishes = 0
      BY <1>4, <1>11 DEF Finishes
    <3>2. \E m : r.fill = <<m>>
      BY <1>3, <1>11 DEF Continues
    <3>3. Fitting(r)
      BY <1>3 DEF Called
    <3> QED
      BY <3>1, <3>2, <3>3 DEF Fitting
  <2>2. Len(ClientGiven') = Len(ClientGiven) + 1
    BY <1>6, <1>8, <2>1, Grown DEF ClientCalled
  <2>3. Len(ClientGiven') # Len(c_taken') /\ m_send_finish_count'["client"] = 0
    BY <1>3, <1>5, <1>7, <1>8, <1>9, <2>1, <2>2
  <2> QED
    BY <1>2, <1>6, <1>7, <2>3 DEF Finished, ClientCalled
<1> QED
  BY <1>4, <1>10, <1>11

\* ... or at the server.
LEMMA ServerFinished ==
  ASSUME FinishInv, ServerTakes, owes["server"] = <<>>
  PROVE  Finished'
<1> SUFFICES ASSUME program' = "test" PROVE Finished'
  BY DEF Finished
<1>1. PICK r \in OnRecv("server", Server!TypedBack(s_recv_queue)) :
        Server!OnRecv(r.drop, r.answer) /\ Callback("server", r)
  BY DEF ServerTakes
<1>2. /\ IInv /\ Base /\ ServiceOK /\ Finished /\ s_rd = "ok" /\ UNCHANGED client
      /\ program = "test" /\ "server" \in Sides
  BY <1>1 DEF FinishInv, IInv, Base, ServerTakes, Callback, Sides
<1>3. /\ Called("server", r) /\ r.drop = 1
      /\ Continues(r, Len(s_taken) + 1 + Len(ServerGiven))
      /\ Len(ServerGiven) = Len(s_taken)
      /\ Len(s_taken) + 1 + Len(ServerGiven) <= m_max_message_count
  BY <1>1, <1>2, TestServerTakes
<1>4. Finishes(r) /\ r.answer \in {"keep", "abandon"}
  BY <1>1, <1>2, <1>3, RecvMessageFinishes, RecvReturns DEF Called, Returned
<1>5. s_filled' = s_filled /\ Len(s_taken') = Len(s_taken) + 1
  BY <1>1, <1>2, <1>3, <1>4, ServerTook
<1>6. ServerCalled(r)
  BY <1>2, <1>3, <1>5, ServerCalledStep
<1>7. /\ m_send_finish_count'["server"] = m_send_finish_count["server"] + r.finishes
      /\ m_send_finish_count'["client"] = m_send_finish_count["client"]
      /\ UNCHANGED m_max_message_count
  BY <1>1, <1>2 DEF Callback, ServiceOK, Sides
<1>8. /\ ServerGiven \in Seq(Message) /\ Len(s_taken) \in Nat /\ Len(ServerGiven) \in Nat
      /\ m_max_message_count \in Nat
  BY <1>2, BaseTypes, Lengths
<1>9. m_send_finish_count["server"] = 0
  BY <1>2, <1>3, <1>8 DEF Finished
<1>10. CASE r.answer = "abandon"
  <2>1. /\ r.fill = <<>> /\ r.count = Len(s_taken) + 1 + Len(ServerGiven) /\ r.finishes = 1
        /\ Len(s_taken) + 1 + Len(ServerGiven) >= m_max_message_count
    BY <1>3, <1>4, <1>10 DEF Continues, Finishes
  <2>2. ServerGiven' = ServerGiven
    BY <1>6, <1>8, <2>1, Grown DEF ServerCalled
  <2>3. m_send_finish_count'["server"] = 1
    BY <1>7, <1>9, <2>1
  <2>4. Len(ServerGiven') # Len(s_taken')
    BY <1>3, <1>5, <1>8, <2>2
  <2>5. count'["server"] = m_max_message_count'
    BY <1>3, <1>6, <1>7, <1>8, <2>1 DEF ServerCalled
  <2> QED
    BY <1>2, <1>6, <1>7, <2>3, <2>4, <2>5 DEF Finished, ServerCalled
<1>11. CASE r.answer = "keep"
  <2>1. r.finishes = 0 /\ \E m \in Message : r.fill = <<m>>
    <3>1. r.finishes = 0
      BY <1>4, <1>11 DEF Finishes
    <3>2. \E m : r.fill = <<m>>
      BY <1>3, <1>11 DEF Continues
    <3>3. Fitting(r)
      BY <1>3 DEF Called
    <3> QED
      BY <3>1, <3>2, <3>3 DEF Fitting
  <2>2. Len(ServerGiven') = Len(ServerGiven) + 1
    BY <1>6, <1>8, <2>1, Grown DEF ServerCalled
  <2>3. Len(ServerGiven') = Len(s_taken') /\ m_send_finish_count'["server"] = 0
    BY <1>3, <1>5, <1>7, <1>8, <1>9, <2>1, <2>2
  <2> QED
    BY <1>2, <1>6, <1>7, <2>3 DEF Finished, ServerCalled
<1> QED
  BY <1>4, <1>10, <1>11

\* Neither end has counted a connection that is just shown.
LEMMA ShownFinished ==
  ASSUME FinishInv,
         \/ ClientConnects /\ owes["client"] = <<>>
         \/ ServerAccepts /\ owes["server"] = <<>>
  PROVE  Finished'
<1> SUFFICES ASSUME program' = "test" PROVE Finished'
  BY DEF Finished
<1>1. IInv /\ Base /\ ServiceOK /\ Finished
  BY DEF FinishInv, IInv, Base
<1>2. CASE ClientConnects /\ owes["client"] = <<>>
  <2>1. /\ Client!RunIdentity(OnConnect.answer) /\ UNCHANGED server
        /\ Callback("client", OnConnect) /\ OnConnect.answer \in {"keep", "abandon"}
        /\ program = "test"
    BY <1>1, <1>2, ShownReturns DEF ClientConnects, Returned, Callback
  <2>2. c_stage # "up" /\ c_filled' = c_filled /\ c_taken' = c_taken
    BY <1>1, <2>1, ClientShownStep
  <2>3. Called("client", OnConnect)
    BY <1>1, <2>1, Connects
  <2>4. ClientCalled(OnConnect)
    BY <1>1, <1>2, <2>1, <2>2, <2>3, ClientCalledStep
  <2>5. UNCHANGED m_send_finish_count
    BY <1>1, <2>1, ShownFinishes DEF Callback, ServiceOK, Sides
  <2>6. ~(Len(c_taken) > 0)
    BY <1>1, <2>2 DEF IInv, Before
  <2>7. m_send_finish_count["client"] = 0
    BY <1>1, <2>1, <2>6 DEF Finished
  <2>8. UNCHANGED <<s_taken, ServerGiven, m_max_message_count, count["server"]>>
    BY <2>4 DEF ClientCalled, Called
  <2> QED
    BY <1>1, <2>1, <2>2, <2>5, <2>6, <2>7, <2>8 DEF Finished
<1>3. CASE ServerAccepts /\ owes["server"] = <<>>
  <2>1. /\ Server!OnAccept(OnAccept.answer) /\ UNCHANGED client
        /\ Callback("server", OnAccept) /\ OnAccept.answer \in {"keep", "abandon"}
        /\ program = "test"
    BY <1>1, <1>3, ShownReturns DEF ServerAccepts, Returned, Callback
  <2>2. s_stage # "up" /\ s_filled' = s_filled /\ s_taken' = s_taken
    BY <1>1, <2>1, ServerShownStep
  <2>3. Called("server", OnAccept) /\ OnAccept.fill = <<>>
    BY <1>1, <2>1, Accepts
  <2>4. ServerCalled(OnAccept)
    BY <1>1, <1>3, <2>1, <2>2, <2>3, ServerCalledStep
  <2>5. UNCHANGED m_send_finish_count
    BY <1>1, <2>1, ShownFinishes DEF Callback, ServiceOK, Sides
  <2>6. ServerGiven = <<>> /\ s_taken = <<>>
    BY <1>1, <2>2 DEF IInv, Before
  <2>7. ServerGiven' = <<>>
    BY <2>3, <2>4, <2>6, ConcatEmptySeq, EmptySeq DEF ServerCalled
  <2>8. m_send_finish_count["server"] = 0
    BY <1>1, <2>1, <2>6 DEF Finished
  <2>9. UNCHANGED <<c_taken, ClientGiven, m_max_message_count, count["client"]>>
    BY <2>4 DEF ServerCalled, Called
  <2> QED
    BY <1>1, <2>1, <2>2, <2>5, <2>6, <2>7, <2>8, <2>9 DEF Finished
<1> QED
  BY <1>2, <1>3

\* Every step keeps it.
LEMMA NextFinishInv == FinishInv /\ [Next]_vars => FinishInv'
<1> SUFFICES ASSUME FinishInv, [Next]_vars PROVE Finished'
  BY NextIInv DEF FinishInv
<1>1. IInv /\ Base /\ Finished
  BY DEF FinishInv, IInv
<1>2. ASSUME Quiet, UNCHANGED m_send_finish_count PROVE Finished'
  BY <1>1, <1>2, QuietFinished
<1>3. CASE ClientStrand
  <2>1. CASE ClientTakes \/ ClientConnects
    BY <1>3, <2>1, ClientFinished, ShownFinished DEF ClientStrand
  <2>2. CASE ClientHandles /\ UNCHANGED service
    <3>1. ClientStays /\ UNCHANGED server
      BY <1>1, <2>2, ClientHandlesStep DEF ClientHandles
    <3> QED
      BY <1>1, <1>2, <2>2, <3>1, ClientQuiet DEF service
  <2> QED
    BY <1>3, <2>1, <2>2 DEF ClientStrand
<1>4. CASE ServerStrand
  <2>1. CASE ServerTakes \/ ServerAccepts
    BY <1>4, <2>1, ServerFinished, ShownFinished DEF ServerStrand
  <2>2. CASE ServerHandles /\ UNCHANGED service
    <3>1. ServerStays /\ UNCHANGED client
      BY <1>1, <2>2, ServerHandlesStep DEF ServerHandles
    <3> QED
      BY <1>1, <1>2, <2>2, <3>1, ServerQuiet DEF service
  <2> QED
    BY <1>4, <2>1, <2>2 DEF ServerStrand
<1>5. CASE ClientFills \/ ServerFills
  BY <1>1, <1>2, <1>5, ClientPays, ServerPays DEF ClientFills, ServerFills, Paid
<1>6. CASE EchoClientFills
  BY <1>6 DEF EchoClientFills, service, Finished
<1>7. CASE (ClientStream \/ ServerStream) /\ UNCHANGED service
  BY <1>1, <1>2, <1>7, ClientStreamStep, ServerStreamStep, ClientQuiet, ServerQuiet
     DEF service
<1>8. CASE UNCHANGED <<client, server, service>>
  <2>1. ClientStays /\ UNCHANGED server /\ UNCHANGED service
    BY <1>8 DEF ClientStays, client
  <2> QED
    BY <1>1, <1>2, <2>1, ClientQuiet DEF service
<1> QED
  BY <1>3, <1>4, <1>5, <1>6, <1>7, <1>8 DEF Next, Break, vars

\* It holds in the beginning.
LEMMA InitFinishInv == Init => FinishInv
<1> SUFFICES ASSUME Init PROVE FinishInv
  OBVIOUS
<1>1. c_taken = <<>> /\ s_taken = <<>> /\ s_filled = <<>> /\ owes["server"] = <<>>
  BY DEF Init, PairInit, Client!Init, Server!Init, Sides
<1>2. ServerGiven = <<>> /\ ~(Len(c_taken) > 0)
  BY <1>1, ConcatEmptySeq, EmptySeq DEF ServerGiven
<1>3. m_send_finish_count["client"] = 0 /\ m_send_finish_count["server"] = 0
  BY DEF Init, Sides
<1>4. Finished
  BY <1>1, <1>2, <1>3 DEF Finished
<1> QED
  BY <1>4, InitIInv DEF FinishInv

\* In every behaviour.
LEMMA InductiveFinish == Spec => []FinishInv
BY InitFinishInv, NextFinishInv, PTL DEF Spec

\* What an end took is what the callbacks of the other gave.
LEMMA TakenOfGiven ==
  ASSUME IInv
  PROVE  Len(c_taken) <= Len(ServerGiven) /\ Len(s_taken) <= Len(ClientGiven)
<1>1. Base
  BY DEF IInv
<1>2. /\ Len(c_arrived) \in Nat /\ Len(c_wire) \in Nat /\ Len(c_taken) \in Nat
      /\ Len(s_arrived) \in Nat /\ Len(s_wire) \in Nat /\ Len(s_taken) \in Nat
      /\ Len(c_filled) \in Nat /\ Len(ClientGiven) \in Nat
      /\ Len(s_filled) \in Nat /\ Len(ServerGiven) \in Nat
  BY <1>1, BaseTypes, LenProperties
<1>3. /\ Len(c_taken) <= Len(c_arrived) /\ Len(c_arrived) <= Len(s_wire)
      /\ Len(s_wire) <= Len(s_filled) /\ Len(s_filled) <= Len(ServerGiven)
  BY <1>1, BaseTypes DEF Base, Linked, First
<1>4. /\ Len(s_taken) <= Len(s_arrived) /\ Len(s_arrived) <= Len(c_wire)
      /\ Len(c_wire) <= Len(c_filled) /\ Len(c_filled) <= Len(ClientGiven)
  BY <1>1, BaseTypes DEF Base, Linked, First
<1> QED
  BY <1>2, <1>3, <1>4

\* A ping-pong has one message under way at most, in the queues, on the link or
\* about to be filled; one end at most counts the connection as finished, and
\* then all the messages up to the limit were taken.
FinishedOnce ==
  program = "test" =>
    /\ (Len(ClientGiven) - Len(s_taken)) + (Len(ServerGiven) - Len(c_taken)) \in 0..1
    /\ m_send_finish_count["client"] + m_send_finish_count["server"] <= 1
    /\ m_send_finish_count["client"] + m_send_finish_count["server"] = 1 =>
         /\ Len(c_taken) = Len(ServerGiven) /\ Len(s_taken) = Len(ClientGiven)
         /\ Len(c_taken) + Len(s_taken) = m_max_message_count

\* TestService ends a connection once, whatever the limit is and whichever end
\* comes to it.
THEOREM FinishesOnce == Spec => []FinishedOnce
<1>1. ASSUME FinishInv PROVE FinishedOnce
  <2> SUFFICES ASSUME program = "test" PROVE FinishedOnce
    BY DEF FinishedOnce
  <2> DEFINE cg == Len(ClientGiven)
             sg == Len(ServerGiven)
             ct == Len(c_taken)
             st == Len(s_taken)
             cf == m_send_finish_count["client"]
             sf == m_send_finish_count["server"]
  <2>1. IInv /\ Base
    BY <1>1 DEF FinishInv, IInv
  <2>2. /\ cg \in Nat /\ sg \in Nat /\ ct \in Nat /\ st \in Nat
        /\ m_max_message_count \in Nat
    BY <2>1, Lengths
  <2>3. /\ ct <= sg /\ st <= cg /\ cg - ct \in 0..1 /\ st - sg \in 0..1
        /\ count["client"] = ct + cg /\ count["server"] = st + sg
    BY <2>1, CountFacts, TakenOfGiven
  <2>4. /\ cf = IF ct > 0 /\ cg = ct THEN 1 ELSE 0
        /\ sf = IF st # sg THEN 1 ELSE 0
        /\ cf = 1 => ct + cg = m_max_message_count
        /\ sf = 1 => st + sg = m_max_message_count
    BY <1>1, <2>3 DEF FinishInv, Finished
  <2> HIDE DEF cg, sg, ct, st, cf, sf
  <2>5. (cg - st) + (sg - ct) \in 0..1
    BY <2>2, <2>3
  <2>6. cf + sf <= 1 /\ (cf + sf = 1 => ct = sg /\ st = cg /\ ct + st = m_max_message_count)
    BY <2>2, <2>3, <2>4
  <2> QED
    BY <2>5, <2>6 DEF FinishedOnce, cg, sg, ct, st, cf, sf
<1> QED
  BY <1>1, InductiveFinish, PTL

-----------------------------------------------------------------------------
(***************************************************************************)
(* The work that is left: that of both ends, and the link that may break.  *)
(***************************************************************************)
Work == ClientP!Work + ServerP!Work + (IF link = "up" THEN 1 ELSE 0)

\* Neither end gives or gets more than MaxMessages.
EndsBounded == ClientP!Bounded /\ ServerP!Bounded

\* What the work is, is seen in the variables of the end alone.
LEMMA WorkOfEnds ==
  /\ UNCHANGED client => UNCHANGED <<ClientP!Work, ClientP!Bounded>>
  /\ UNCHANGED server => UNCHANGED <<ServerP!Work, ServerP!Bounded>>
<1>1. UNCHANGED client => UNCHANGED <<ClientP!Work, ClientP!Bounded>>
  BY DEF client, ClientP!Work, ClientP!Inputs, ClientP!Nodes, ClientP!Operations,
     ClientP!Bounded
<1>2. UNCHANGED server => UNCHANGED <<ServerP!Work, ServerP!Bounded>>
  BY DEF server, ServerP!Work, ServerP!Inputs, ServerP!Nodes, ServerP!Operations,
     ServerP!Bounded
<1> QED
  BY <1>1, <1>2

\* The facts of WebsocketSessionProofs, for both ends.
LEMMA EndWork ==
  Base /\ EndsBounded => ClientP!Work \in Nat /\ ServerP!Work \in Nat
BY SessionAssumptions, ClientP!WorkIsNat, ServerP!WorkIsNat
   DEF Base, ClientInv, ServerInv, EndsBounded

\* A step of an end lowers its work.
LEMMA EndStep ==
  ASSUME Base, EndsBounded
  PROVE  /\ ClientP!Next => ClientP!Work' < ClientP!Work /\ ClientP!Bounded'
         /\ ServerP!Next => ServerP!Work' < ServerP!Work /\ ServerP!Bounded'
<1>1. ClientP!IInv /\ ClientP!Bounded /\ ServerP!IInv /\ ServerP!Bounded
  BY DEF Base, ClientInv, ServerInv, EndsBounded
<1>2. ClientP!Next => ClientP!Work' < ClientP!Work /\ ClientP!Bounded'
  BY <1>1, SessionAssumptions, ClientP!LessWork, ClientP!BoundedStep
<1>3. ServerP!Next => ServerP!Work' < ServerP!Work /\ ServerP!Bounded'
  BY <1>1, SessionAssumptions, ServerP!LessWork, ServerP!BoundedStep
<1> QED
  BY <1>2, <1>3

WorkInv == IInv /\ EndsBounded /\ LinkOK

\* A step lowers the work of the end that takes it.
LEMMA NextWork ==
  ASSUME WorkInv, Base', Next
  PROVE  Work' < Work /\ EndsBounded'
<1>1. Base /\ ClientP!Bounded /\ ServerP!Bounded
  BY DEF WorkInv, IInv, EndsBounded
<1>2. /\ ClientP!Next => ClientP!Work' < ClientP!Work /\ ClientP!Bounded'
      /\ ServerP!Next => ServerP!Work' < ServerP!Work /\ ServerP!Bounded'
  BY <1>1, EndStep DEF EndsBounded
<1>3. ClientP!Work \in Nat /\ ServerP!Work \in Nat
  BY <1>1, EndWork DEF EndsBounded
<1>4. EndsBounded' => ClientP!Work' \in Nat /\ ServerP!Work' \in Nat
  <2>1. (Base /\ EndsBounded)' => (ClientP!Work \in Nat /\ ServerP!Work \in Nat)'
    BY EndWork, PTL
  <2> QED
    BY <2>1
<1>5. CASE ClientServed /\ UNCHANGED <<server, link>>
  <2>1. /\ ClientP!Work' < ClientP!Work /\ ServerP!Work' = ServerP!Work
        /\ EndsBounded'
    BY <1>1, <1>2, <1>5, ClientServes, WorkOfEnds DEF EndsBounded
  <2> QED
    BY <1>3, <1>4, <1>5, <2>1 DEF Work
<1>6. CASE ServerServed /\ UNCHANGED <<client, link>>
  <2>1. /\ ServerP!Work' < ServerP!Work /\ ClientP!Work' = ClientP!Work
        /\ EndsBounded'
    BY <1>1, <1>2, <1>6, ServerServes, WorkOfEnds DEF EndsBounded
  <2> QED
    BY <1>3, <1>4, <1>6, <2>1 DEF Work
<1>7. CASE Break
  <2>1. ServerP!Work' = ServerP!Work /\ ClientP!Work' = ClientP!Work /\ EndsBounded'
    BY <1>1, <1>7, WorkOfEnds DEF EndsBounded, Break
  <2> QED
    BY <1>3, <1>7, <2>1 DEF Work, Break
<1> QED
  BY <1>1, <1>5, <1>6, <1>7, Steps

\* A conversation goes on for as long as there is something to say: whatever
\* the service and its peer answer and wherever the link breaks, every step of
\* either end lowers a number that is never negative.  Only the messages that
\* may still be given or read feed it, so that neither end and no pair of
\* handlers keeps the other busy for nothing.
THEOREM NoEndlessWork ==
  Spec => /\ [](Work \in Nat)
          /\ [][Work' < Work]_vars
<1>1. WorkInv => Work \in Nat
  BY EndWork DEF WorkInv, IInv, Work
<1>2. Init => WorkInv
  <2> SUFFICES ASSUME Init PROVE EndsBounded /\ LinkOK
    BY InitIInv DEF WorkInv
  <2>1. LinkOK
    BY DEF Init, PairInit, LinkOK
  <2>2. /\ c_filled = <<>> /\ c_arrived = <<>> /\ s_filled = <<>> /\ s_arrived = <<>>
        /\ MaxMessages \in Nat
    BY MessagesAssumption DEF Init, PairInit, Client!Init, Server!Init
  <2> QED
    BY <2>1, <2>2 DEF EndsBounded, ClientP!Bounded, ServerP!Bounded
<1>3. WorkInv /\ [Next]_vars => WorkInv' /\ [Work' < Work]_vars
  <2> SUFFICES ASSUME WorkInv, [Next]_vars
               PROVE  EndsBounded' /\ [Work' < Work]_vars
    BY NextIInv, NextLinkOK DEF WorkInv
  <2>1. Base'
    BY NextIInv DEF WorkInv, IInv
  <2>2. CASE UNCHANGED vars
    BY <2>2, WorkOfEnds DEF vars, WorkInv, EndsBounded
  <2> QED
    BY <2>1, <2>2, NextWork
<1> QED
  BY <1>1, <1>2, <1>3, PTL DEF Spec

-----------------------------------------------------------------------------
(***************************************************************************)
(* How the connection closes while the link is up.                         *)
(***************************************************************************)

\* Both ends are shown the connection or are still about to be.
Stages == link = "up" => c_stage \in {"connect", "up"} /\ s_stage \in {"accept", "up"}

\* An end that asked for the close reads no more.
ClientAsks ==
  /\ c_stage # "up" => ~c_asked /\ c_rd = "idle"
  /\ c_cl # "idle" => c_asked
  /\ c_asked => c_rd = "idle"

ServerAsks ==
  /\ s_stage # "up" => ~s_asked /\ s_rd = "idle"
  /\ s_cl # "idle" => s_asked
  /\ s_asked => s_rd = "idle"

\* A stream dies for no other reason.
Deaths == link = "up" /\ (c_ws = "dead" \/ s_ws = "dead") => c_asked \/ s_asked

\* What an end asks for it for.
Causes ==
  /\ program = "test" =>
       /\ c_asked => m_send_finish_count["client"] >= 1
       /\ s_asked => m_send_finish_count["server"] >= 1
  /\ program = "echo" => ~s_asked

\* A callback that answers false, and no other, asks for the close.
LEMMA ClientAnswers ==
  ASSUME NEW a \in {"keep", "abandon"}
  PROVE  /\ Client!Eof(a) => /\ c_asked' <=> c_asked \/ a = "abandon"
                            /\ c_cl' = IF a = "keep" THEN c_cl ELSE "busy"
         /\ Client!Keeps(a) <=> a = "keep"
<1>1. Client!Closes("keep") = 0 /\ Client!Closes("abandon") = 1
  BY DEF Client!Closes
<1>2. ~(0 > 0) /\ 1 > 0 /\ 1 # 0 /\ "keep" # "abandon" /\ "abandon" # "close"
  OBVIOUS
<1>3. CASE a = "keep"
  BY <1>1, <1>2, <1>3, Zenon DEF Client!Eof, Client!Keeps
<1>4. CASE a = "abandon"
  BY <1>1, <1>2, <1>4, Zenon DEF Client!Eof, Client!Keeps
<1> QED
  BY <1>3, <1>4

\* What an end does keeps ClientAsks; it never takes back that it asked.
LEMMA ClientStep ==
  ASSUME ClientServed, ClientAsks
  PROVE  ClientAsks' /\ (c_asked => c_asked')
<1>1. ASSUME NEW a \in {"keep", "abandon"}, Client!OnAccept(a) \/ Client!RunIdentity(a)
      PROVE  ClientAsks' /\ (c_asked => c_asked')
  <2>1. /\ c_stage # "up" /\ c_stage' = "up" /\ Client!Eof(a)
        /\ ~Client!Keeps(a) => c_rd' = c_rd
    BY <1>1 DEF Client!OnAccept, Client!RunIdentity, Client!Open
  <2>2. c_rd = "idle"
    BY <2>1 DEF ClientAsks
  <2> QED
    BY <2>1, <2>2, ClientAnswers DEF ClientAsks
<1>2. ASSUME NEW a \in {"keep", "abandon"}, NEW d \in 0..1, Client!OnRecv(d, a)
      PROVE  ClientAsks' /\ (c_asked => c_asked')
  <2>1. /\ c_rd = "ok" /\ c_stage' = c_stage /\ Client!Eof(a)
        /\ ~Client!Keeps(a) => c_rd' = "idle"
    BY <1>2 DEF Client!OnRecv
  <2> QED
    BY <2>1, ClientAnswers DEF ClientAsks
<1>3. CASE Client!OnRecvError \/ Client!OnSendError \/ Client!OnCloseDone
  BY <1>3 DEF ClientAsks, Client!OnRecvError, Client!OnSendError, Client!OnCloseDone
<1>4. CASE Client!OnSend(0, "keep")
  <2>1. Client!Eof("keep") /\ UNCHANGED <<c_stage, c_rd>>
    BY <1>4 DEF Client!OnSend
  <2> QED
    BY <2>1, ClientAnswers DEF ClientAsks
<1>5. CASE Client!OnPost \/ Client!OnAcceptError
  <2>1. /\ UNCHANGED <<c_rd, c_cl, c_asked>>
        /\ c_stage' = c_stage \/ (c_stage = "accept" /\ c_stage' = "refused")
    BY <1>5 DEF Client!OnPost, Client!OnAcceptError, Client!history
  <2> QED
    BY <2>1 DEF ClientAsks
<1>6. ASSUME NEW m \in Message, Client!Fill(m) \/ Client!ReadOk(m)
      PROVE  ClientAsks' /\ (c_asked => c_asked')
  BY <1>6 DEF ClientAsks, Client!Fill, Client!ReadOk, Client!stream
<1>7. ASSUME NEW e \in {"closed", "other"}, Client!ReadError(e)
      PROVE  ClientAsks' /\ (c_asked => c_asked')
  BY <1>7 DEF ClientAsks, Client!ReadError, Client!session, Client!history
<1>8. CASE Client!WriteOk \/ Client!WriteError("other") \/ Client!CloseEnds
  BY <1>8 DEF ClientAsks, Client!WriteOk, Client!WriteError, Client!CloseEnds,
     Client!session, Client!history
<1> QED
  BY <1>1, <1>2, <1>3, <1>4, <1>5, <1>6, <1>7, <1>8 DEF ClientServed

\* A callback that answers false, and no other, asks for the close.
LEMMA ServerAnswers ==
  ASSUME NEW a \in {"keep", "abandon"}
  PROVE  /\ Server!Eof(a) => /\ s_asked' <=> s_asked \/ a = "abandon"
                            /\ s_cl' = IF a = "keep" THEN s_cl ELSE "busy"
         /\ Server!Keeps(a) <=> a = "keep"
<1>1. Server!Closes("keep") = 0 /\ Server!Closes("abandon") = 1
  BY DEF Server!Closes
<1>2. ~(0 > 0) /\ 1 > 0 /\ 1 # 0 /\ "keep" # "abandon" /\ "abandon" # "close"
  OBVIOUS
<1>3. CASE a = "keep"
  BY <1>1, <1>2, <1>3, Zenon DEF Server!Eof, Server!Keeps
<1>4. CASE a = "abandon"
  BY <1>1, <1>2, <1>4, Zenon DEF Server!Eof, Server!Keeps
<1> QED
  BY <1>3, <1>4

\* What an end does keeps ServerAsks; it never takes back that it asked.
LEMMA ServerStep ==
  ASSUME ServerServed, ServerAsks
  PROVE  ServerAsks' /\ (s_asked => s_asked')
<1>1. ASSUME NEW a \in {"keep", "abandon"}, Server!OnAccept(a) \/ Server!RunIdentity(a)
      PROVE  ServerAsks' /\ (s_asked => s_asked')
  <2>1. /\ s_stage # "up" /\ s_stage' = "up" /\ Server!Eof(a)
        /\ ~Server!Keeps(a) => s_rd' = s_rd
    BY <1>1 DEF Server!OnAccept, Server!RunIdentity, Server!Open
  <2>2. s_rd = "idle"
    BY <2>1 DEF ServerAsks
  <2> QED
    BY <2>1, <2>2, ServerAnswers DEF ServerAsks
<1>2. ASSUME NEW a \in {"keep", "abandon"}, NEW d \in 0..1, Server!OnRecv(d, a)
      PROVE  ServerAsks' /\ (s_asked => s_asked')
  <2>1. /\ s_rd = "ok" /\ s_stage' = s_stage /\ Server!Eof(a)
        /\ ~Server!Keeps(a) => s_rd' = "idle"
    BY <1>2 DEF Server!OnRecv
  <2> QED
    BY <2>1, ServerAnswers DEF ServerAsks
<1>3. CASE Server!OnRecvError \/ Server!OnSendError \/ Server!OnCloseDone
  BY <1>3 DEF ServerAsks, Server!OnRecvError, Server!OnSendError, Server!OnCloseDone
<1>4. CASE Server!OnSend(0, "keep")
  <2>1. Server!Eof("keep") /\ UNCHANGED <<s_stage, s_rd>>
    BY <1>4 DEF Server!OnSend
  <2> QED
    BY <2>1, ServerAnswers DEF ServerAsks
<1>5. CASE Server!OnPost \/ Server!OnAcceptError
  <2>1. /\ UNCHANGED <<s_rd, s_cl, s_asked>>
        /\ s_stage' = s_stage \/ (s_stage = "accept" /\ s_stage' = "refused")
    BY <1>5 DEF Server!OnPost, Server!OnAcceptError, Server!history
  <2> QED
    BY <2>1 DEF ServerAsks
<1>6. ASSUME NEW m \in Message, Server!Fill(m) \/ Server!ReadOk(m)
      PROVE  ServerAsks' /\ (s_asked => s_asked')
  BY <1>6 DEF ServerAsks, Server!Fill, Server!ReadOk, Server!stream
<1>7. ASSUME NEW e \in {"closed", "other"}, Server!ReadError(e)
      PROVE  ServerAsks' /\ (s_asked => s_asked')
  BY <1>7 DEF ServerAsks, Server!ReadError, Server!session, Server!history
<1>8. CASE Server!WriteOk \/ Server!WriteError("other") \/ Server!CloseEnds
  BY <1>8 DEF ServerAsks, Server!WriteOk, Server!WriteError, Server!CloseEnds,
     Server!session, Server!history
<1> QED
  BY <1>1, <1>2, <1>3, <1>4, <1>5, <1>6, <1>7, <1>8 DEF ServerServed

\* While the link is up, a stream dies only when an end asked for the close or
\* the stream of one of them is dead already.
LEMMA WhyDead ==
  ASSUME Next
  PROVE  \/ link' = "broken"
         \/ /\ c_stage' \in {c_stage, "up"} /\ s_stage' \in {s_stage, "up"}
            /\ link' = link
            /\ \/ UNCHANGED <<c_ws, s_ws>>
               \/ c_asked \/ s_asked \/ c_ws = "dead" \/ s_ws = "dead"
<1> DEFINE Alive == /\ c_stage' \in {c_stage, "up"} /\ s_stage' \in {s_stage, "up"}
                    /\ link' = link /\ UNCHANGED <<c_ws, s_ws>>
           Died  == /\ c_stage' = c_stage /\ s_stage' = s_stage /\ link' = link
                    /\ c_asked \/ s_asked \/ c_ws = "dead" \/ s_ws = "dead" \/ link = "broken"
<1>1. CASE ClientConnects \/ ServerAccepts
  <2>1. Alive
    BY <1>1 DEF ClientConnects, ServerAccepts, client, server, Client!RunIdentity,
       Server!OnAccept, Client!Open, Server!Open
  <2> QED
    BY <2>1
<1>2. CASE ClientTakes \/ ServerTakes
  <2>1. Alive
    BY <1>2 DEF ClientTakes, ServerTakes, client, server, Client!OnRecv, Server!OnRecv
  <2> QED
    BY <2>1
<1>3. CASE ClientHandles
  <2>1. Alive
    BY <1>3 DEF ClientHandles, server, Client!OnRecvError, Client!OnSendError,
       Client!OnSend, Client!OnPost, Client!OnCloseDone
  <2> QED
    BY <2>1
<1>4. CASE ServerHandles
  <2>1. link = "broken" \/ Alive
    BY <1>4 DEF ServerHandles, client, Server!OnRecvError, Server!OnSendError,
       Server!OnSend, Server!OnPost, Server!OnCloseDone
  <2> QED
    BY <1>4, <2>1 DEF ServerHandles
<1>5. CASE ClientFills \/ ServerFills \/ EchoClientFills
  <2>1. Alive
    BY <1>5 DEF ClientFills, ServerFills, EchoClientFills, Paid, client, server,
       Client!Fill, Server!Fill, Client!stream, Server!stream
  <2> QED
    BY <2>1
<1>6. CASE ClientStream
  <2>1. Alive \/ Died
    BY <1>6 DEF ClientStream, ClientReads, ClientReadsClose, ClientWrites,
       ClientCloseEnds, ClientFails, server, Client!ReadOk, Client!ReadError,
       Client!WriteOk, Client!WriteError, Client!CloseEnds, Client!session
  <2> QED
    BY <2>1
<1>7. CASE ServerStream
  <2>1. Alive \/ Died
    BY <1>7 DEF ServerStream, ServerReads, ServerReadsClose, ServerWrites,
       ServerCloseEnds, ServerFails, client, Server!ReadOk, Server!ReadError,
       Server!WriteOk, Server!WriteError, Server!CloseEnds, Server!session
  <2> QED
    BY <2>1
<1> QED
  BY <1>1, <1>2, <1>3, <1>4, <1>5, <1>6, <1>7
     DEF Next, Break, ClientStrand, ServerStrand

\* Steps other than the callbacks of the services.
NoCallback ==
  \/ ClientFills \/ ServerFills \/ EchoClientFills
  \/ /\ \/ ClientHandles \/ ServerHandles
        \/ ClientStream \/ ServerStream \/ Break
     /\ UNCHANGED service

\* They ask for nothing.
LEMMA NobodyAsks ==
  ASSUME NoCallback
  PROVE  /\ c_asked' <=> c_asked
         /\ s_asked' <=> s_asked
         /\ UNCHANGED <<program, m_send_finish_count>>
<1>1. CASE (ClientHandles \/ ServerHandles) /\ UNCHANGED service
  <2>1. Client!Eof("keep") \/ UNCHANGED c_asked
    BY <1>1 DEF ClientHandles, ServerHandles, client, Client!OnRecvError,
       Client!OnSendError, Client!OnSend, Client!OnPost, Client!OnCloseDone
  <2>2. Server!Eof("keep") \/ UNCHANGED s_asked
    BY <1>1 DEF ClientHandles, ServerHandles, server, Server!OnRecvError,
       Server!OnSendError, Server!OnSend, Server!OnPost, Server!OnCloseDone,
       Server!OnAcceptError, Server!history
  <2> QED
    BY <1>1, <2>1, <2>2, ClientAnswers, ServerAnswers DEF service
<1>2. CASE ClientFills \/ ServerFills \/ EchoClientFills
  BY <1>2 DEF ClientFills, ServerFills, EchoClientFills, Paid, client, server, service,
     Client!Fill, Server!Fill
<1>3. CASE ClientStream /\ UNCHANGED service
  BY <1>3 DEF service, ClientStream, ClientReads, ClientReadsClose, ClientWrites,
     ClientCloseEnds, ClientFails, server, Client!ReadOk, Client!ReadError,
     Client!WriteOk, Client!WriteError, Client!CloseEnds, Client!history
<1>4. CASE ServerStream /\ UNCHANGED service
  BY <1>4 DEF service, ServerStream, ServerReads, ServerReadsClose, ServerWrites,
     ServerCloseEnds, ServerFails, client, Server!ReadOk, Server!ReadError,
     Server!WriteOk, Server!WriteError, Server!CloseEnds, Server!history
<1>5. CASE Break /\ UNCHANGED service
  BY <1>5 DEF Break, service, client, server
<1> QED
  BY <1>1, <1>2, <1>3, <1>4, <1>5 DEF NoCallback

\* The echo server answers true to what it sends back.
LEMMA EchoKeeps ==
  ASSUME NEW queue, EchoRecv(queue).fails = FALSE
  PROVE  EchoRecv(queue).answer = "keep"
<1>1. Failing(0).fails = TRUE
  BY DEF Failing, Reaction
<1>2. \A r, text, data : r = Dropping(EchoSend(text, data)) => r.answer = "keep"
  BY DEF EchoSend, Filling, Reaction, Dropping
<1> QED
  BY <1>1, <1>2 DEF EchoRecv

\* Both services answer true to a connection they are shown.
LEMMA ShownKeeps ==
  ASSUME ServiceOK
  PROVE  OnConnect.answer = "keep" /\ OnAccept.answer = "keep"
<1>1. CASE program = "test"
  <2>1. OnAccept = Keeping(0) /\ Keeping(0).count = 0 /\ Keeping(0).answer = "keep"
    BY <1>1 DEF OnAccept, InsertConnection, Keeping, Reaction
  <2>2. OnConnect = SendMessage(0)
    BY <1>1, <2>1 DEF OnConnect, InsertConnection
  <2>3. Finishes(OnConnect) /\ OnConnect.finishes = 0
    BY <1>1, <2>2, SendMessageFinishes, ShownFinishes, MessagesAssumption
  <2>4. OnConnect.answer \in {"keep", "abandon"}
    BY ShownReturns DEF Returned
  <2> QED
    BY <2>1, <2>3, <2>4 DEF Finishes
<1>2. CASE program = "echo"
  BY <1>2 DEF OnConnect, OnAccept, EchoSend, Keeping, Filling, Reaction
<1> QED
  BY <1>1, <1>2 DEF ServiceOK

\* An end asks for the close in the callback that counts the connection as
\* finished; the echo server never does.
LEMMA NextCauses ==
  ASSUME FinishInv, Causes, Next
  PROVE  Causes'
<1>1. /\ IInv /\ Base /\ ServiceOK
      /\ m_send_finish_count["client"] \in Nat /\ m_send_finish_count["server"] \in Nat
      /\ "client" \in Sides /\ "server" \in Sides
  BY DEF FinishInv, IInv, Base, ServiceOK, Sides
<1>2. CASE /\ c_asked' <=> c_asked
           /\ s_asked' <=> s_asked
           /\ UNCHANGED <<program, m_send_finish_count>>
  BY <1>2 DEF Causes
<1>3. CASE ClientConnects
  <2>1. /\ Client!Eof("keep") /\ UNCHANGED s_asked
        /\ Callback("client", OnConnect)
    BY <1>1, <1>3, ShownKeeps DEF ClientConnects, Client!RunIdentity, Client!Open, server
  <2>2. program = "test" => UNCHANGED m_send_finish_count
    BY <1>1, <2>1, ShownFinishes DEF Callback, ServiceOK
  <2> QED
    BY <2>1, <2>2, ClientAnswers DEF Causes, Callback
<1>4. CASE ServerAccepts
  <2>1. /\ Server!Eof("keep") /\ UNCHANGED c_asked
        /\ Callback("server", OnAccept)
    BY <1>1, <1>4, ShownKeeps DEF ServerAccepts, Server!OnAccept, Server!Open, client
  <2>2. program = "test" => UNCHANGED m_send_finish_count
    BY <1>1, <2>1, ShownFinishes DEF Callback, ServiceOK
  <2> QED
    BY <2>1, <2>2, ServerAnswers DEF Causes, Callback
<1>5. CASE ClientTakes /\ owes["client"] = <<>>
  <2>1. PICK r \in OnRecv("client", Client!TypedBack(c_recv_queue)) :
          Client!OnRecv(r.drop, r.answer) /\ Callback("client", r)
    BY <1>5 DEF ClientTakes
  <2>2. /\ r.answer \in {"keep", "abandon"} /\ r.finishes \in 0..1
        /\ Client!Eof(r.answer) /\ UNCHANGED <<s_asked, program>>
        /\ c_rd = "ok"
    BY <1>1, <1>5, <2>1, RecvReturns
       DEF Returned, ClientTakes, Client!OnRecv, server, Callback
  <2>3. /\ m_send_finish_count'["client"] = m_send_finish_count["client"] + r.finishes
        /\ m_send_finish_count'["server"] = m_send_finish_count["server"]
    BY <1>1, <2>1 DEF Callback, ServiceOK, Sides
  <2>4. ASSUME program = "test" PROVE r.answer = "abandon" => r.finishes = 1
    <3>1. Called("client", r)
      BY <1>1, <1>5, <2>1, <2>2, <2>4, TestClientTakes
    <3>2. Finishes(r)
      BY <1>1, <2>1, <2>4, <3>1, RecvMessageFinishes DEF Called
    <3> QED
      BY <3>2 DEF Finishes
  <2>5. c_asked' <=> c_asked \/ r.answer = "abandon"
    BY <2>2, ClientAnswers
  <2> QED
    BY <1>1, <2>2, <2>3, <2>4, <2>5 DEF Causes
<1>6. CASE ServerTakes /\ owes["server"] = <<>>
  <2>1. PICK r \in OnRecv("server", Server!TypedBack(s_recv_queue)) :
          Server!OnRecv(r.drop, r.answer) /\ Callback("server", r)
    BY <1>6 DEF ServerTakes
  <2>2. /\ r.answer \in {"keep", "abandon"} /\ r.finishes \in 0..1
        /\ Server!Eof(r.answer) /\ UNCHANGED <<c_asked, program>>
        /\ s_rd = "ok"
    BY <1>1, <1>6, <2>1, RecvReturns
       DEF Returned, ServerTakes, Server!OnRecv, client, Callback
  <2>3. /\ m_send_finish_count'["server"] = m_send_finish_count["server"] + r.finishes
        /\ m_send_finish_count'["client"] = m_send_finish_count["client"]
    BY <1>1, <2>1 DEF Callback, ServiceOK, Sides
  <2>4. ASSUME program = "test" PROVE r.answer = "abandon" => r.finishes = 1
    <3>1. Called("server", r)
      BY <1>1, <1>6, <2>1, <2>2, <2>4, TestServerTakes
    <3>2. Finishes(r)
      BY <1>1, <2>1, <2>4, <3>1, RecvMessageFinishes DEF Called
    <3> QED
      BY <3>2 DEF Finishes
  <2>5. ASSUME program = "echo" PROVE r.answer = "keep"
    <3>1. Called("server", r)
      BY <1>1, <2>1, <2>2, <2>5, EchoServerTakes
    <3>2. r = EchoRecv(Server!TypedBack(s_recv_queue))
      BY <2>1, <2>5 DEF OnRecv
    <3> QED
      BY <3>1, <3>2, EchoKeeps DEF Called
  <2>6. s_asked' <=> s_asked \/ r.answer = "abandon"
    BY <2>2, ServerAnswers
  <2> QED
    BY <1>1, <2>2, <2>3, <2>4, <2>5, <2>6 DEF Causes
<1>7. \/ ClientConnects
      \/ ServerAccepts
      \/ ClientTakes /\ owes["client"] = <<>>
      \/ ServerTakes /\ owes["server"] = <<>>
      \/ NoCallback
  BY DEF Next, ClientStrand, ServerStrand, NoCallback
<1> QED
  BY <1>2, <1>3, <1>4, <1>5, <1>6, <1>7, NobodyAsks

EndInv == FinishInv /\ Stages /\ ClientAsks /\ ServerAsks /\ Deaths /\ Causes

\* Every step keeps it.
LEMMA NextEndInv == EndInv /\ [Next]_vars => EndInv'
<1> SUFFICES ASSUME EndInv, [Next]_vars
             PROVE  (Stages /\ ClientAsks /\ ServerAsks /\ Deaths /\ Causes)'
  BY NextFinishInv DEF EndInv
<1>1. CASE UNCHANGED vars
  BY <1>1 DEF vars, client, server, service, EndInv, Stages, ClientAsks, ServerAsks,
     Deaths, Causes
<1>2. CASE Next
  <2>1. Base /\ FinishInv /\ Stages /\ ClientAsks /\ ServerAsks /\ Deaths /\ Causes
    BY DEF EndInv, FinishInv, IInv
  <2>2. /\ ClientAsks' /\ (c_asked => c_asked')
        /\ ServerAsks' /\ (s_asked => s_asked')
    <3>1. ClientServed \/ UNCHANGED <<c_stage, c_cl, c_rd, c_asked>>
      BY <1>2, <2>1, Steps DEF client, Break
    <3>2. ServerServed \/ UNCHANGED <<s_stage, s_cl, s_rd, s_asked>>
      BY <1>2, <2>1, Steps DEF server, Break
    <3>3. ClientAsks' /\ (c_asked => c_asked')
      BY <2>1, <3>1, ClientStep DEF ClientAsks
    <3>4. ServerAsks' /\ (s_asked => s_asked')
      BY <2>1, <3>2, ServerStep DEF ServerAsks
    <3> QED
      BY <3>3, <3>4
  <2>3. Causes'
    BY <1>2, <2>1, NextCauses
  <2>4. Stages' /\ Deaths'
    BY <1>2, <2>1, <2>2, WhyDead DEF Stages, Deaths
  <2> QED
    BY <2>2, <2>3, <2>4
<1> QED
  BY <1>1, <1>2

\* In every behaviour.
LEMMA InductiveEnd == Spec => []EndInv
<1>1. Init => FinishInv /\ EndInv
  <2> SUFFICES ASSUME Init, FinishInv
               PROVE  Stages /\ ClientAsks /\ ServerAsks /\ Deaths /\ Causes
    BY InitFinishInv DEF EndInv
  <2>1. /\ c_stage = "connect" /\ s_stage = "accept" /\ ~c_asked /\ ~s_asked
        /\ c_rd = "idle" /\ s_rd = "idle" /\ c_cl = "idle" /\ s_cl = "idle"
        /\ c_ws = "open" /\ s_ws = "open"
    BY DEF Init, PairInit, Client!Init, Server!Init
  <2> QED
    BY <2>1 DEF Stages, ClientAsks, ServerAsks, Deaths, Causes
<1> QED
  BY <1>1, NextEndInv, PTL DEF Spec

-----------------------------------------------------------------------------
(***************************************************************************)
(* Where a conversation stops.                                             *)
(***************************************************************************)

\* What Next waits for at an end, negated: its strand has no handler and no
\* callback to run, and its stream can neither read a message or a close, nor
\* write, nor end a close.
ClientStops ==
  /\ owes["client"] = <<>> /\ c_stage # "connect"
  /\ c_posts = <<>> /\ c_wr = "idle" /\ c_cl # "done"
  /\ c_rd \in {"idle", "busy"}
  /\ c_rd = "busy" => /\ c_ws = "open" /\ Len(c_arrived) >= Len(s_wire)
                      /\ ~(s_asked /\ s_wr # "busy")
  /\ c_cl = "busy" => s_ws # "dead"

ServerStops ==
  /\ owes["server"] = <<>> /\ s_stage # "accept"
  /\ s_posts = <<>> /\ s_wr = "idle" /\ s_cl # "done"
  /\ s_rd \in {"idle", "busy"}
  /\ s_rd = "busy" => /\ s_ws = "open" /\ Len(s_arrived) >= Len(c_wire)
                      /\ ~(c_asked /\ c_wr # "busy")
  /\ s_cl = "busy" => c_ws # "dead"

Settled == link = "up" /\ ClientStops /\ ServerStops

\* In such a state nothing happens unless the link breaks or the client of the
\* echo service sends.
LEMMA SettledStays == ASSUME Settled, Next PROVE Break \/ EchoClientFills
<1>1. ~ClientStrand
  BY DEF Settled, ClientStops, ClientStrand, ClientConnects, ClientTakes, ClientHandles,
     Client!RunIdentity, Client!OnRecvError, Client!OnSendError, Client!OnSend,
     Client!OnPost, Client!OnCloseDone, Client!ReadErrors, Client!WriteErrors
<1>2. ~ServerStrand
  BY DEF Settled, ServerStops, ServerStrand, ServerAccepts, ServerTakes, ServerHandles,
     Server!OnAccept, Server!OnRecvError, Server!OnSendError, Server!OnSend,
     Server!OnPost, Server!OnCloseDone, Server!ReadErrors, Server!WriteErrors
<1>3. ~ClientFills /\ ~ServerFills
  BY DEF Settled, ClientStops, ServerStops, ClientFills, ServerFills
<1>4. ~ClientStream
  BY DEF Settled, ClientStops, ServerStops, ClientStream, ClientReads, ClientReadsClose,
     ClientWrites, ClientCloseEnds, ClientFails, Client!ReadOk, Client!ReadError,
     Client!WriteOk, Client!WriteError, Client!CloseEnds
<1>5. ~ServerStream
  BY DEF Settled, ClientStops, ServerStops, ServerStream, ServerReads, ServerReadsClose,
     ServerWrites, ServerCloseEnds, ServerFails, Server!ReadOk, Server!ReadError,
     Server!WriteOk, Server!WriteError, Server!CloseEnds
<1> QED
  BY <1>1, <1>2, <1>3, <1>4, <1>5 DEF Next

\* When neither end asked for the close both read, and have taken all that the
\* callbacks of the other gave.
LEMMA SettledOpen ==
  ASSUME EndInv, Settled, ~c_asked, ~s_asked
  PROVE  /\ c_stage = "up" /\ s_stage = "up" /\ c_rd = "busy" /\ s_rd = "busy"
         /\ ClientGiven = c_filled /\ ServerGiven = s_filled
         /\ Len(c_taken) = Len(s_filled) /\ Len(s_taken) = Len(c_filled)
<1>1. /\ Base /\ ClientP!IInv /\ ClientP!SendInv /\ ClientP!RecvInv
      /\ ServerP!IInv /\ ServerP!SendInv /\ ServerP!RecvInv
      /\ c_recv_queue_size = 0 /\ s_recv_queue_size = 0
  BY DEF EndInv, FinishInv, IInv, Base, ClientInv, ServerInv, Single
<1>2. /\ c_stage = "up" /\ s_stage = "up"
      /\ c_cl = "idle" /\ s_cl = "idle" /\ c_ws = "open" /\ s_ws = "open"
  BY <1>1 DEF Settled, ClientStops, ServerStops, EndInv, Stages, ClientAsks, ServerAsks,
     Deaths, ClientP!IInv, ClientP!Tokens, ServerP!IInv, ServerP!Tokens
<1>3. c_closes = 0 /\ s_closes = 0
  BY <1>1, <1>2 DEF ClientP!IInv, ClientP!Control, ClientP!ClosedOnce, ServerP!IInv,
     ServerP!Control, ServerP!ClosedOnce
<1>4. c_rd = "busy" /\ s_rd = "busy"
  BY <1>1, <1>2, <1>3 DEF Settled, ClientStops, ServerStops, ClientP!IInv,
     ClientP!Control, ClientP!NotOrphaned, ServerP!IInv, ServerP!Control,
     ServerP!NotOrphaned
<1>5. Len(c_wire) = Len(c_filled) /\ Len(s_wire) = Len(s_filled)
  BY <1>1, <1>2, SessionAssumptions, ClientP!AllSent, ServerP!AllSent
     DEF Settled, ClientStops, ServerStops
<1>6. Len(c_taken) = Len(c_arrived) /\ Len(s_taken) = Len(s_arrived)
  BY <1>1, <1>4, SessionAssumptions, ClientP!AllTaken, ServerP!AllTaken
<1>7. Len(c_arrived) = Len(s_wire) /\ Len(s_arrived) = Len(c_wire)
  <2>1. Len(c_arrived) >= Len(s_wire) /\ Len(s_arrived) >= Len(c_wire)
    BY <1>4 DEF Settled, ClientStops, ServerStops
  <2>2. Len(c_arrived) <= Len(s_wire) /\ Len(s_arrived) <= Len(c_wire)
    BY <1>1 DEF Base, Linked, First
  <2>3. /\ Len(c_arrived) \in Nat /\ Len(s_wire) \in Nat
        /\ Len(s_arrived) \in Nat /\ Len(c_wire) \in Nat
    BY <1>1, BaseTypes, LenProperties
  <2> QED
    BY <2>1, <2>2, <2>3
<1>8. ClientGiven = c_filled /\ ServerGiven = s_filled
  <2>1. c_filled \in Seq(Message) /\ s_filled \in Seq(Message)
    BY <1>1, BaseTypes
  <2> QED
    BY <2>1, Grown DEF ClientGiven, ServerGiven, Settled, ClientStops, ServerStops
<1> QED
  BY <1>2, <1>4, <1>5, <1>6, <1>7, <1>8

\* When one end asked for the close both were told of it.
LEMMA SettledClosed ==
  ASSUME EndInv, Settled, c_asked \/ s_asked, ~(c_asked /\ s_asked)
  PROVE  c_closes = 1 /\ s_closes = 1
<1>1. /\ c_stage = "up" /\ s_stage = "up"
      /\ c_cl # "idle" => c_asked /\ c_cl = "busy" /\ s_ws # "dead"
      /\ s_cl # "idle" => s_asked /\ s_cl = "busy" /\ c_ws # "dead"
      /\ c_asked => c_rd = "idle" /\ s_rd = "idle"
      /\ s_asked => c_rd = "idle" /\ s_rd = "idle"
  BY DEF Settled, ClientStops, ServerStops, EndInv, Stages, ClientAsks, ServerAsks,
     FinishInv, IInv, Base, ClientInv, ServerInv, ClientP!IInv, ClientP!Tokens,
     ServerP!IInv, ServerP!Tokens
<1>2. /\ c_closes \in {0, 1} /\ (c_closes = 1 => c_ws = "dead")
      /\ s_closes \in {0, 1} /\ (s_closes = 1 => s_ws = "dead")
      /\ c_closes = 0 => c_rd # "idle" \/ c_cl # "idle"
      /\ s_closes = 0 => s_rd # "idle" \/ s_cl # "idle"
  BY <1>1 DEF EndInv, FinishInv, IInv, Base, ClientInv, ServerInv, ClientP!IInv,
     ClientP!Control, ClientP!ClosedOnce, ClientP!NotOrphaned, ServerP!IInv,
     ServerP!Control, ServerP!ClosedOnce, ServerP!NotOrphaned
<1> QED
  BY <1>1, <1>2

\* Where a conversation stops while the link is up, nothing is left undone.  A
\* ping-pong with a limit came to it: all its messages were taken, one side
\* counted the connection as finished, and both were told that it is closed.
\* The client of the echo service got its greeting and all its messages back,
\* or asked for the close, and then both ends were told of it.
SettlesWell ==
  Settled =>
    /\ program = "test" /\ m_max_message_count > 0 =>
         /\ m_send_finish_count["client"] + m_send_finish_count["server"] = 1
         /\ Len(c_taken) = Len(s_filled) /\ Len(s_taken) = Len(c_filled)
         /\ Len(c_taken) + Len(s_taken) = m_max_message_count
         /\ c_closes = 1 /\ s_closes = 1
    /\ program = "echo" =>
         IF c_asked THEN c_closes = 1 /\ s_closes = 1
                    ELSE Len(c_taken) = Len(c_filled) + 1

\* Neither the queues, the strands nor the closes of the two ends leave a
\* conversation waiting for something that does not come.
THEOREM SettlesRight == Spec => []SettlesWell
<1>1. ASSUME EndInv, FinishedOnce, Settled PROVE SettlesWell
  <2>1. /\ IInv /\ Base /\ ServiceOK /\ Causes
        /\ m_send_finish_count["client"] \in Nat /\ m_send_finish_count["server"] \in Nat
    BY <1>1 DEF EndInv, FinishInv, IInv, Base, ServiceOK, Sides
  <2>2. CASE program = "test" /\ m_max_message_count > 0
    <3>1. c_asked \/ s_asked
      <4> SUFFICES ASSUME ~c_asked, ~s_asked PROVE FALSE
        OBVIOUS
      <4>1. /\ c_rd = "busy" /\ s_rd = "busy"
            /\ Len(c_taken) = Len(ServerGiven) /\ Len(s_taken) = Len(ClientGiven)
        BY <1>1, SettledOpen
      <4>2. Len(ClientGiven) = Len(c_taken) + 1 /\ Len(ServerGiven) = Len(s_taken)
        BY <2>1, <2>2, <4>1, CountFacts
      <4> QED
        BY <2>1, <4>1, <4>2, Lengths
    <3>2. /\ c_asked => m_send_finish_count["client"] >= 1
          /\ s_asked => m_send_finish_count["server"] >= 1
          /\ m_send_finish_count["client"] + m_send_finish_count["server"] <= 1
      BY <1>1, <2>1, <2>2 DEF Causes, FinishedOnce
    <3>3. /\ m_send_finish_count["client"] + m_send_finish_count["server"] = 1
          /\ ~(c_asked /\ s_asked)
      BY <2>1, <3>1, <3>2
    <3>4. c_closes = 1 /\ s_closes = 1
      BY <1>1, <3>1, <3>3, SettledClosed
    <3>5. ClientGiven = c_filled /\ ServerGiven = s_filled
      <4>1. c_filled \in Seq(Message) /\ s_filled \in Seq(Message)
        BY <2>1, BaseTypes
      <4> QED
        BY <1>1, <4>1, Grown DEF ClientGiven, ServerGiven, Settled, ClientStops, ServerStops
    <3> QED
      BY <1>1, <2>2, <3>3, <3>4, <3>5 DEF FinishedOnce, SettlesWell
  <2>3. CASE program = "echo" /\ c_asked
    BY <1>1, <2>1, <2>3, SettledClosed DEF Causes, SettlesWell
  <2>4. CASE program = "echo" /\ ~c_asked
    <3>1. ~s_asked
      BY <2>1, <2>4 DEF Causes
    <3>2. /\ s_stage = "up" /\ ServerGiven = s_filled
          /\ Len(c_taken) = Len(s_filled) /\ Len(s_taken) = Len(c_filled)
      BY <1>1, <2>4, <3>1, SettledOpen
    <3>3. Len(ServerGiven) = Len(s_taken) + 1
      BY <2>1, <2>4, <3>2 DEF IInv, Echoes
    <3> QED
      BY <2>4, <3>2, <3>3 DEF SettlesWell
  <2> QED
    BY <2>1, <2>2, <2>3, <2>4 DEF SettlesWell, ServiceOK
<1>2. EndInv /\ FinishedOnce => SettlesWell
  BY <1>1 DEF SettlesWell
<1> QED
  BY <1>2, InductiveEnd, FinishesOnce, PTL
=============================================================================
