----------------------------- MODULE MCVpeFlow -----------------------------
(***************************************************************************)
(* TLC instances of VpeFlow.                                               *)
(***************************************************************************)
EXTENDS VpeFlow, TLC

Symmetry == Permutations(Pod) \cup Permutations(Seid) \cup Permutations(Teid)
            \cup Permutations(ModReq \ BadReq) \cup Permutations(DelReq \ BadReq)

=============================================================================
