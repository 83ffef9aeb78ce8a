------------------------------ MODULE MCExtend ------------------------------
(***************************************************************************)
(* An instance of Extend for TLC.  Apps and handlers are interchangeable:  *)
(* hooks are ordered by Order and number alone.                            *)
(***************************************************************************)
EXTENDS Extend, TLC

Perms == Permutations(Apps) \union Permutations(Handlers)
=============================================================================
