--------------------------- MODULE MCDefaultEntry ---------------------------
(***************************************************************************)
(* Instances of DefaultEntry for TLC.                                      *)
(***************************************************************************)
EXTENDS DefaultEntry
=============================================================================
