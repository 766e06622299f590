--------------------------- MODULE MCDomainDemand ---------------------------
(* Small instances of DomainDemand for TLC.                                *)
EXTENDS DomainDemand

CONSTANTS l1, l2, l3, s1, s2, u1, u2, k1, k2
=============================================================================
