----------------------------- MODULE MCServer -----------------------------
(***************************************************************************)
(* Three connections compete for two slots.                                *)
(***************************************************************************)
EXTENDS Server

MCConn == {"c1", "c2", "c3"}

=============================================================================
