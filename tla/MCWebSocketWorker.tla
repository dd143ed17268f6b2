-------------------------- MODULE MCWebSocketWorker --------------------------
(* A small instance of WebSocketWorker. *)
EXTENDS WebSocketWorker
=============================================================================
