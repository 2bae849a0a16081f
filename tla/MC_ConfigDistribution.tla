----------------------- MODULE MC_ConfigDistribution -----------------------
(* Small instances of ConfigDistribution: the second state of a table that the *)
(* MCP clients do not see cannot be rendered, the third can.                   *)
EXTENDS ConfigDistribution

MCUnrenderable == {<<1, 2>>}
=============================================================================
