--------------------------- MODULE MCCampaignEdits ---------------------------
(* A campaign, an approval that overwrites it and an edit of it, and an    *)
(* approval with two executions that inserts another.                      *)
EXTENDS CampaignEdits, TLC

CONSTANTS a1, n1, n2, d1, overwrite, insert, edit, x, y

MCRequestOf ==
  [e \in Runs |-> IF e = a1 THEN overwrite ELSE IF e = d1 THEN edit ELSE insert]
MCTargetOf == [r \in Requests |-> IF r = insert THEN New ELSE 1]
MCContentOf == [r \in Requests |-> IF r = overwrite THEN y ELSE x]
MCSymmetry == Permutations({n1, n2})
=============================================================================
