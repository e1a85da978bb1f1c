-------------------------- MODULE MCWebsocketClient --------------------------
(***************************************************************************)
(* Instances of WebsocketClient: two sessions, a text of two fragments, a  *)
(* server that may keep TCP open after the CLOSE frames.                   *)
(***************************************************************************)
EXTENDS WebsocketClient
=============================================================================
