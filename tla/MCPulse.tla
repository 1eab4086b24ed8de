------------------------------ MODULE MCPulse ------------------------------
(* One job, a service or two, and the two policies agentcommit commits. *)
EXTENDS Pulse

CONSTANTS job, service, rapid, policy, allowlist, good, other

Order == <<allowlist, job, policy, service, rapid>>

Apart ==
  {[e \in Entry |-> IF e \in names THEN good ELSE Absent] : names \in {{job, rapid}, {service}}}
=============================================================================
