--------------------------- MODULE MC_AgentSession ---------------------------
(* Small instances of AgentSession: the calls that the agents may make, and    *)
(* one of a client that is no agent.                                           *)
EXTENDS AgentSession

CONSTANTS s1, s2, d, t

MCCalls == (Sessions \X (1..MaxSteps)) \cup {d}
=============================================================================
