------------------------------- MODULE Common -------------------------------
(* Values that several modules of the project share. *)

(* a null column or an argument that was not given *)
None == "none"
=============================================================================
