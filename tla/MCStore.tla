------------------------------- MODULE MCStore -------------------------------
(* The store on small histories. *)
EXTENDS Store
=============================================================================
