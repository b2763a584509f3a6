---------------------------- MODULE MCCrudPanel ----------------------------
(***************************************************************************)
(* Instances of CrudPanel for TLC: the whole table, or its first document. *)
(***************************************************************************)
EXTENDS CrudPanel

MCQueries == {Items, {1}}
MCTexts == {{1}, Items \ {1}}
MCText == {Items \ {1}}
=============================================================================
