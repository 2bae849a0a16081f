----------------------------- MODULE MC_ToolCall -----------------------------
(* Small instances of ToolCall: calls of two clients, and a server that leaves *)
(* and comes back.                                                             *)
EXTENDS ToolCall

CONSTANTS c1, c2, c3, t

MCCallerOf == [c \in Calls |-> IF c = c3 THEN "other" ELSE "agent"]
MCServes == [v \in 0..MaxVersion |-> IF v % 2 = 0 THEN {} ELSE {t}]
MCRpm == [u \in Tools |-> 1]
=============================================================================
