------------------------------- MODULE Pipeline -------------------------------
(***************************************************************************)
(* What an http connection promises the service and the peer: requests     *)
(* that are pipelined are answered in the order they came, each once, and  *)
(* at most queue_limit wait for their answer; the answer to a request that *)
(* closes the connection is the last.  The side of the server is shut down *)
(* for that answer, or because the session reads no more, and then only    *)
(* the answer under way may still get through.  The connection is handed   *)
(* to a websocket session when every request has its answer, and http does *)
(* nothing with it from then on.                                           *)
(***************************************************************************)
EXTENDS Naturals, Sequences

CONSTANT queue_limit

VARIABLES
  stage,    \* "new", "refused", "reading", "stopped" or "upgraded"
  handled,  \* for each request given to handle_request: does it keep the connection
  wire,     \* the requests that were answered
  sending   \* "open"; "last": shut down with an answer under way; "over"

vars == <<stage, handled, wire, sending>>

Init == stage = "new" /\ handled = <<>> /\ wire = <<>> /\ sending = "open"

\* The answer to a request that closes the connection was sent.
Closing == wire # <<>> /\ ~handled[Len(wire)]

Open   == stage = "new" /\ stage' = "reading" /\ UNCHANGED <<handled, wire, sending>>
Refuse == stage = "new" /\ stage' = "refused" /\ UNCHANGED <<handled, wire, sending>>

\* handle_request
Handle(keep) ==
  /\ stage = "reading"
  /\ Len(handled) < Len(wire) + queue_limit
  /\ handled' = Append(handled, keep)
  /\ UNCHANGED <<stage, wire, sending>>

\* The oldest request that waits gets its answer.
Answer ==
  /\ stage \in {"reading", "stopped"} /\ sending # "over"
  /\ Len(wire) < Len(handled) /\ ~Closing
  /\ wire' = Append(wire, Len(wire) + 1)
  /\ sending' = IF sending = "last" THEN "over" ELSE "open"
  /\ UNCHANGED <<stage, handled>>

\* The answer under way does not get through.
Lose == sending = "last" /\ sending' = "over" /\ UNCHANGED <<stage, handled, wire>>

\* The closing answer is followed by the end of this side.
Close == Closing /\ sending' = "over" /\ UNCHANGED <<stage, handled, wire>>

\* No request is read any more; at the end of the peer's stream this side ends.
Stop ==
  /\ stage = "reading" /\ stage' = "stopped"
  /\ sending' \in IF sending = "open" THEN {"open", "last", "over"} ELSE {sending}
  /\ UNCHANGED <<handled, wire>>

Upgrade ==
  /\ stage = "reading" /\ stage' = "upgraded"
  /\ Len(wire) = Len(handled) /\ sending = "open" /\ ~Closing
  /\ UNCHANGED <<handled, wire, sending>>

Next ==
  \/ Open \/ Refuse \/ Stop \/ Upgrade
  \/ \E keep \in BOOLEAN : Handle(keep)
  \/ Answer \/ Lose \/ Close

Spec == Init /\ [][Next]_vars
===============================================================================
