----------------------------- MODULE MCChildRuns -----------------------------
(* Three calls, one more than the limit: a planner and two creators.       *)
EXTENDS ChildRuns, TLC

CONSTANTS c1, c2, c3, p, q

MCAgentOf == c1 :> "planner" @@ c2 :> "creator" @@ c3 :> "creator"
MCSymmetry == Permutations({c2, c3}) \cup Permutations({p, q})
=============================================================================
