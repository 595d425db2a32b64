------------------------------ MODULE MC_Config ------------------------------
(***************************************************************************)
(* Small instances of ConfigPush: pushes and handlers are interchangeable. *)
(***************************************************************************)
EXTENDS ConfigPush, TLC

Symmetry == Permutations(Pushes) \cup Permutations(Handlers)
=============================================================================
