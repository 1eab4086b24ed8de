------------------------- MODULE MCAgentWeaveIndex -------------------------
(* One or two source files; poller, and clients that ask for a sync. *)
EXTENDS AgentWeaveIndex

CONSTANTS p1, p2, old, new, blank, poller, client
=============================================================================
