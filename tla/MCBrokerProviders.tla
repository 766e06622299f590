------------------------- MODULE MCBrokerProviders --------------------------
(* A small instance of BrokerProviders for TLC.                            *)
EXTENDS BrokerProviders, TLC

CONSTANTS p1, p2, r1
=============================================================================
