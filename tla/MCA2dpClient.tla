---------------------------- MODULE MCA2dpClient ----------------------------
(* Instances of A2dpClient for TLC.                                        *)
EXTENDS A2dpClient, TLC

\* Headsets are interchangeable.
Symmetry == Permutations(Sinks)
=============================================================================
