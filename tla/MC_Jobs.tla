------------------------------- MODULE MC_Jobs -------------------------------
(***************************************************************************)
(* Small instances of JobLifecycle: runs, calls and plans are              *)
(* interchangeable.                                                        *)
(***************************************************************************)
EXTENDS JobLifecycle, TLC

Symmetry == Permutations(Runs) \cup Permutations(Calls) \cup Permutations(Plans)
              \cup Permutations(Triggers)
=============================================================================
