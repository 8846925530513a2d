------------------------------ MODULE MCXPublish ------------------------------
(***************************************************************************)
(* Instances of XPublish for TLC.                                          *)
(***************************************************************************)
EXTENDS XPublish, TLC

CONSTANTS k1, k2, s1, s2, c1, c2, w1, w2, w3

\* Two keys with the same content from two sessions: the advisory lock decides.
SameContent == {[key |-> k1, session |-> s1, content |-> c1],
                [key |-> k2, session |-> s2, content |-> c1]}
\* One key sent twice, once with another body from another session, and no other key.
OneKey == {[key |-> k1, session |-> s1, content |-> c1],
           [key |-> k1, session |-> s2, content |-> c2]}

WorkerSymmetry == Permutations(Workers)
===============================================================================
