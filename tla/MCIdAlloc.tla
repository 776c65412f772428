----------------------------- MODULE MCIdAlloc -----------------------------
(* IdAlloc for TLC: pods are interchangeable.                              *)
EXTENDS IdAlloc, TLC

PodSymmetry == Permutations(Pod)
=============================================================================
