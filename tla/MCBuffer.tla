------------------------------ MODULE MCBuffer ------------------------------
(* Buffers are interchangeable.                                            *)
EXTENDS Buffer, TLC

Symmetry == Permutations(Names)
=============================================================================
