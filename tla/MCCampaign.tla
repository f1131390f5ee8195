----------------------------- MODULE MCCampaign -----------------------------
(* A campaign for two members, started by hand and by its schedule.            *)
EXTENDS Campaign, TLC

\* The calls of dispatch_send are interchangeable; no property names one.
Interchangeable == Permutations(Dispatchers)
=============================================================================
