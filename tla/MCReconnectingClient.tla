------------------------ MODULE MCReconnectingClient ------------------------
(* Two subscriptions are enough for one to be restored, or closed, while   *)
(* the other waits for its turn.                                           *)
EXTENDS ReconnectingClient
=============================================================================
