------------------------------ MODULE MCPaper -------------------------------
(* Paper on a small instance.                                              *)
EXTENDS Paper, TLC

CONSTANTS a, b, c

MCSymmetry == Permutations({a, b, c})
=============================================================================
