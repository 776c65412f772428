--------------------------- MODULE MCRefinement ----------------------------
(***************************************************************************)
(* TLC instances of the refinement of SessionRegistry by VpeFlow.          *)
(***************************************************************************)
EXTENDS VpeFlowRefinement, TLC

Symmetry == Permutations(Pod) \cup Permutations(Seid)
            \cup Permutations(ModReq \ BadReq)

=============================================================================
