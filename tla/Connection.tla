------------------------------ MODULE Connection ------------------------------
(***************************************************************************)
(* What BoostWeb::WebsocketConnection (inc/boost_web.h) promises a         *)
(* service: a connection is shown to it or refused; messages are filled    *)
(* from any thread and go on the wire in that order; the messages of the   *)
(* peer are taken in the order they arrived; on_close comes once, and from *)
(* then on nothing moves on the wire.  A service may still fill, and take  *)
(* what had arrived, after on_close: the connection is kept alive by the   *)
(* shared pointer it holds.                                                *)
(***************************************************************************)
EXTENDS Integers, Sequences

CONSTANTS Payload, MaxArrive

VARIABLES
  stage,    \* "new", "refused", "up" or "closed"
  filled,   \* messages given to send_buffer_fill
  wire,     \* messages on the wire to the peer
  arrived,  \* messages from the peer
  taken     \* messages the service dropped

vars == <<stage, filled, wire, arrived, taken>>

Message == [m_text : BOOLEAN, m_buffer : Payload]

Init ==
  /\ stage = "new"
  /\ filled = <<>> /\ wire = <<>> /\ arrived = <<>> /\ taken = <<>>

\* on_accept or on_connect is called with the connection, or never will be.
Show   == stage = "new" /\ stage' = "up" /\ UNCHANGED <<filled, wire, arrived, taken>>
Refuse == stage = "new" /\ stage' = "refused" /\ UNCHANGED <<filled, wire, arrived, taken>>

\* send_buffer_fill
Fill(message) ==
  /\ stage \in {"up", "closed"}
  /\ filled' = Append(filled, message)
  /\ UNCHANGED <<stage, wire, arrived, taken>>

\* The oldest message that is not on the wire goes on the wire.
Transmit ==
  /\ stage = "up"
  /\ Len(wire) < Len(filled)
  /\ wire' = Append(wire, filled[Len(wire) + 1])
  /\ UNCHANGED <<stage, filled, arrived, taken>>

Arrive(message) ==
  /\ stage = "up"
  /\ arrived' = Append(arrived, message)
  /\ UNCHANGED <<stage, filled, wire, taken>>

\* recv_buffer_drop, n times in one callback.
Take(n) ==
  /\ stage \in {"up", "closed"}
  /\ Len(taken) + n <= Len(arrived)
  /\ taken' = SubSeq(arrived, 1, Len(taken) + n)
  /\ UNCHANGED <<stage, filled, wire, arrived>>

\* on_close
Close == stage = "up" /\ stage' = "closed" /\ UNCHANGED <<filled, wire, arrived, taken>>

Next ==
  \/ Show \/ Refuse \/ Close
  \/ \E message \in Message : Fill(message) \/ Arrive(message)
  \/ Transmit
  \/ \E n \in 1..MaxArrive : Take(n)

Spec == Init /\ [][Next]_vars
===============================================================================
