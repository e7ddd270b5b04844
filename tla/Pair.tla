--------------------------------- MODULE Pair ---------------------------------
(***************************************************************************)
(* Both ends of one ws connection: the session a connector made (client)   *)
(* and the session an http session made of the upgrade (server), each a    *)
(* WebsocketSession, joined by a tcp link.                                 *)
(*                                                                         *)
(* What one end puts on the wire the other reads, in that order: an        *)
(* action below is an action of one session, guarded by what the other     *)
(* has done, or the end of the link.  A link that is not broken lets no    *)
(* operation fail; a timeout of either stream is a break of the link.      *)
(***************************************************************************)
EXTENDS Integers, Sequences

CONSTANTS
  Payload,     \* contents a message may have
  Empty,       \* what a flat_buffer holds before a message is read into it
  MaxMessages  \* bound: messages that each end sends

ASSUME PayloadAssumption == Empty \notin Payload
ASSUME MessagesAssumption == MaxMessages \in Nat

VARIABLES
  c_recv_queue, c_recv_queue_size, c_send_queue, c_send_queue_size,
  c_has_close, c_stage, c_posts, c_ws, c_ws_text, c_rd, c_wr, c_cl, c_filled,
  c_wire, c_arrived, c_taken, c_asked, c_closes, c_late, c_clash, c_dangling,
  s_recv_queue, s_recv_queue_size, s_send_queue, s_send_queue_size,
  s_has_close, s_stage, s_posts, s_ws, s_ws_text, s_rd, s_wr, s_cl, s_filled,
  s_wire, s_arrived, s_taken, s_asked, s_closes, s_late, s_clash, s_dangling,
  link  \* "up" or "broken"

client == <<c_recv_queue, c_recv_queue_size, c_send_queue, c_send_queue_size,
            c_has_close, c_stage, c_posts, c_ws, c_ws_text, c_rd, c_wr, c_cl,
            c_filled, c_wire, c_arrived, c_taken, c_asked, c_closes, c_late,
            c_clash, c_dangling>>
server == <<s_recv_queue, s_recv_queue_size, s_send_queue, s_send_queue_size,
            s_has_close, s_stage, s_posts, s_ws, s_ws_text, s_rd, s_wr, s_cl,
            s_filled, s_wire, s_arrived, s_taken, s_asked, s_closes, s_late,
            s_clash, s_dangling>>

Client == INSTANCE WebsocketSession WITH
  Payload <- Payload, Empty <- Empty, Ssl <- FALSE, SizeMod <- MaxMessages + 1,
  MaxFill <- MaxMessages, MaxArrive <- MaxMessages, DropByHasData <- FALSE,
  CloseOnce <- FALSE,
  m_recv_queue <- c_recv_queue, m_recv_queue_size <- c_recv_queue_size,
  m_send_queue <- c_send_queue, m_send_queue_size <- c_send_queue_size,
  m_has_close <- c_has_close, stage <- c_stage, posts <- c_posts, ws <- c_ws,
  ws_text <- c_ws_text, rd <- c_rd, wr <- c_wr, cl <- c_cl, filled <- c_filled,
  wire <- c_wire, arrived <- c_arrived, taken <- c_taken, asked <- c_asked,
  closes <- c_closes, late <- c_late, clash <- c_clash, dangling <- c_dangling

Server == INSTANCE WebsocketSession WITH
  Payload <- Payload, Empty <- Empty, Ssl <- FALSE, SizeMod <- MaxMessages + 1,
  MaxFill <- MaxMessages, MaxArrive <- MaxMessages, DropByHasData <- FALSE,
  CloseOnce <- FALSE,
  m_recv_queue <- s_recv_queue, m_recv_queue_size <- s_recv_queue_size,
  m_send_queue <- s_send_queue, m_send_queue_size <- s_send_queue_size,
  m_has_close <- s_has_close, stage <- s_stage, posts <- s_posts, ws <- s_ws,
  ws_text <- s_ws_text, rd <- s_rd, wr <- s_wr, cl <- s_cl, filled <- s_filled,
  wire <- s_wire, arrived <- s_arrived, taken <- s_taken, asked <- s_asked,
  closes <- s_closes, late <- s_late, clash <- s_clash, dangling <- s_dangling

-----------------------------------------------------------------------------
(***************************************************************************)
(* What the streams of both ends do.                                       *)
(***************************************************************************)

\* async_read ends with the next message of the peer ...
ClientReads ==
  /\ Len(c_arrived) < Len(s_wire)
  /\ Client!ReadOk(s_wire[Len(c_arrived) + 1])
  /\ UNCHANGED <<server, link>>

ServerReads ==
  /\ Len(s_arrived) < Len(c_wire)
  /\ Server!ReadOk(c_wire[Len(s_arrived) + 1])
  /\ UNCHANGED <<client, link>>

\* ... or with the close frame the peer wrote behind its last message.
ClientReadsClose ==
  /\ s_asked /\ s_wr # "busy" /\ Len(c_arrived) = Len(s_wire)
  /\ Client!ReadError("closed")
  /\ UNCHANGED <<server, link>>

ServerReadsClose ==
  /\ c_asked /\ c_wr # "busy" /\ Len(s_arrived) = Len(c_wire)
  /\ Server!ReadError("closed")
  /\ UNCHANGED <<client, link>>

ClientWrites == Client!WriteOk /\ UNCHANGED <<server, link>>
ServerWrites == Server!WriteOk /\ UNCHANGED <<client, link>>

\* A close of one end is over when the other answered it.
ClientCloseEnds ==
  /\ s_ws = "dead" \/ link = "broken"
  /\ Client!CloseEnds
  /\ UNCHANGED <<server, link>>

ServerCloseEnds ==
  /\ c_ws = "dead" \/ link = "broken"
  /\ Server!CloseEnds
  /\ UNCHANGED <<client, link>>

\* Operations fail on a broken link, and those left over on a dead stream.
ClientFails ==
  /\ c_ws = "dead" \/ link = "broken"
  /\ Client!ReadError("other") \/ Client!WriteError("other")
  /\ UNCHANGED <<server, link>>

ServerFails ==
  /\ s_ws = "dead" \/ link = "broken"
  /\ Server!ReadError("other") \/ Server!WriteError("other")
  /\ UNCHANGED <<client, link>>

Break == /\ link = "up"
         /\ link' = "broken"
         /\ UNCHANGED <<client, server>>

ClientStream == ClientReads \/ ClientReadsClose \/ ClientWrites
                \/ ClientCloseEnds \/ ClientFails
ServerStream == ServerReads \/ ServerReadsClose \/ ServerWrites
                \/ ServerCloseEnds \/ ServerFails

-----------------------------------------------------------------------------
(***************************************************************************)
(* The handlers in which no service decides anything here: of the          *)
(* operations that failed or closed, of a post, and of a write, where both *)
(* services answer true.                                                   *)
(***************************************************************************)
ClientHandles ==
  /\ \/ Client!OnRecvError \/ Client!OnSendError
     \/ Client!OnSend(0, "keep") \/ Client!OnPost \/ Client!OnCloseDone
  /\ UNCHANGED <<server, link>>

ServerHandles ==
  /\ \/ Server!OnRecvError \/ Server!OnSendError
     \/ Server!OnSend(0, "keep") \/ Server!OnPost \/ Server!OnCloseDone
     \/ link = "broken" /\ Server!OnAcceptError
  /\ UNCHANGED <<client, link>>

PairInit == /\ Client!Init /\ c_stage = "connect"
            /\ Server!Init /\ s_stage = "accept"
            /\ link = "up"
===============================================================================
