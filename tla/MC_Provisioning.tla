--------------------------- MODULE MC_Provisioning ---------------------------
(* Small instances of Provisioning. *)
EXTENDS Provisioning
=============================================================================
