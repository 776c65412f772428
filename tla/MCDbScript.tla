----------------------------- MODULE MCDbScript -----------------------------
(* DbScript for TLC.                                                       *)
EXTENDS DbScript
=============================================================================
