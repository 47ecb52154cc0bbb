--------------------------- MODULE MCSandboxKernel ---------------------------
(* Model-checking instance of SandboxKernel.                                *)
EXTENDS SandboxKernel, TLC

(* No definition tells the branches or the values apart.                    *)
Alike == Permutations(Branch) \cup Permutations(Value)
=============================================================================
