----------------------------- MODULE MCLlmProxy -----------------------------
(* Instances of LlmProxy for TLC.  Connections are interchangeable.        *)

EXTENDS LlmProxy, TLC

ConnSymmetry == Permutations(Conns)
=============================================================================
