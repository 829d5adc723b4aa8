----------------------- MODULE MCResourceUsageLogger -----------------------
(* ResourceUsageLogger sampling two subscriptions.                         *)
EXTENDS ResourceUsageLogger

CONSTANTS s1, s2
=============================================================================
