-------------------------- MODULE MCWebsocketSession --------------------------
(***************************************************************************)
(* Instances of WebsocketSession for TLC.                                  *)
(***************************************************************************)
EXTENDS WebsocketSession, TLC

\* Payloads are interchangeable (used by the safety runs only).
PayloadSymmetry == Permutations(Payload)
===============================================================================
