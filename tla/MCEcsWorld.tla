----------------------------- MODULE MCEcsWorld -----------------------------
(***************************************************************************)
(* Bounded instances of EcsWorld.  Component types and values are          *)
(* interchangeable.                                                        *)
(***************************************************************************)
EXTENDS EcsWorld, TLC

Symmetry == Permutations(Components) \cup Permutations(Values)
=============================================================================
