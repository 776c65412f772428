---------------------------- MODULE MCNodeState ----------------------------
(* NodeState for TLC: pods are interchangeable.                            *)
EXTENDS NodeState, TLC

PodSymmetry == Permutations(Pod)
=============================================================================
