------------------------------- MODULE Clients -------------------------------
(***************************************************************************)
(* What boost_web.h promises about the clients a program creates: each     *)
(* client is reported once, as failed (on_connect with a null connection)  *)
(* or as shown (on_connect with its connection), and one that was shown    *)
(* may be reported closed (on_close) once.  Reports come only while the    *)
(* manager runs, and a client of a manager that exited is forgotten: it is *)
(* never reported again, whatever is started later.                        *)
(***************************************************************************)
CONSTANT Client  \* the calls of create_ws_client and create_wss_client

VARIABLES
  runs,   \* the manager was started
  asked,  \* clients created and not done with
  past,   \* clients done with, or forgotten
  report  \* for each client: "none", "failed", "shown" or "closed"

vars == <<runs, asked, past, report>>

\* The clients C are done with.  A callback may create new ones, D, to connect
\* again.
Asks(C, D) ==
  /\ D \subseteq Client \ (asked \cup past)
  /\ asked' = (asked \ C) \cup D
  /\ past' = past \cup C

Start == ~runs /\ runs' = TRUE /\ UNCHANGED <<asked, past, report>>

Ask(D) == runs /\ Asks({}, D) /\ UNCHANGED <<runs, report>>

Show(c) ==
  /\ runs /\ c \in asked /\ report[c] = "none"
  /\ report' = [report EXCEPT ![c] = "shown"]
  /\ UNCHANGED <<runs, asked, past>>

Fail(c, D) ==
  /\ runs /\ c \in asked /\ report[c] = "none"
  /\ report' = [report EXCEPT ![c] = "failed"]
  /\ Asks({c}, D)
  /\ UNCHANGED runs

Close(c, D) ==
  /\ runs /\ c \in asked /\ report[c] = "shown"
  /\ report' = [report EXCEPT ![c] = "closed"]
  /\ Asks({c}, D)
  /\ UNCHANGED runs

Stop == runs /\ runs' = FALSE /\ Asks(asked, {}) /\ UNCHANGED report

Init == runs = FALSE /\ asked = {} /\ past = {} /\ report = [c \in Client |-> "none"]

Next ==
  \/ Start \/ Stop
  \/ \E D \in SUBSET Client :
       Ask(D) \/ \E c \in Client : Show(c) \/ Fail(c, D) \/ Close(c, D)

Spec == Init /\ [][Next]_vars
===============================================================================
