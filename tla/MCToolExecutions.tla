-------------------------- MODULE MCToolExecutions --------------------------
(* Four invocations of one call: all carry its key, one of them with another *)
(* input.                                                                   *)
EXTENDS ToolExecutions, TLC

CONSTANTS c1, c2, c3, c4, k1, x, y

MCKeyOf == [c \in Callers |-> k1]
MCInputOf == [c \in Callers |-> IF c = c4 THEN y ELSE x]
MCSymmetry == Permutations({c1, c2, c3})
=============================================================================
