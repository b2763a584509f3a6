----------------------------- MODULE MCErpPages -----------------------------
(* A small instance of ErpPages. *)
EXTENDS ErpPages
=============================================================================
