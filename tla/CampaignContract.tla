--------------------------- MODULE CampaignContract ---------------------------
(***************************************************************************)
(* What saving a campaign promises, without executions, leases, embeddings *)
(* that are under way and backfill: a campaign is overwritten only by who  *)
(* has seen its present version and while it is not archived, a request is *)
(* decided once, a search text is that of the content or older than the    *)
(* present projection, and everybody is told at one moment what is so.     *)
(*                                                                         *)
(* Source: the outcomes of services/campaign_approval.py and               *)
(* services/campaign_service.py.  CampaignEdits implements this module.    *)
(***************************************************************************)
EXTENDS Naturals

CONSTANTS
  Ids, Initial, Contents, New,
  Requests, TargetOf, ContentOf,   \* what a request overwrites, and by what
  Runs, RequestOf                  \* those who execute it and are told

VARIABLES
  content,     \* of a campaign, "none" before it exists
  version,     \* how often it was written
  archived,
  searched,    \* the content it is found by, "none", or "legacy"
  seen,        \* the version a request has seen, 0 for none
  decision,    \* of a request: "open", "saved" or "refused"
  told         \* what an execution was told

cVars == <<content, version, archived, searched, seen, decision, told>>

Exists(i) == content[i] # "none"

Init ==
  /\ content \in [Ids -> Contents \cup {"none"}]
  /\ \A i \in Ids : Exists(i) <=> i <= Initial
  /\ version = [i \in Ids |-> IF i <= Initial THEN 1 ELSE 0]
  /\ archived = [i \in Ids |-> FALSE]
  /\ searched \in [Ids -> Contents \cup {"none", "legacy"}]
  /\ \A i \in Ids : searched[i] \in {"none", "legacy", content[i]}
  /\ seen = [r \in Requests |-> 0]
  /\ decision = [r \in Requests |-> "open"]
  /\ told = [e \in Runs |-> "none"]

Show(r) ==
  /\ TargetOf[r] # New /\ seen[r] = 0
  /\ seen' = [seen EXCEPT ![r] = version[TargetOf[r]]]
  /\ UNCHANGED <<content, version, archived, searched, decision, told>>

\* One who executes the request, and was told nothing yet, is told an answer.
Tell(r, answers) ==
  \E e \in Runs, a \in answers :
    RequestOf[e] = r /\ told[e] = "none" /\ told' = [told EXCEPT ![e] = a]

\* A new campaign, or one that is as the request has seen it.
MayWrite(r, i) ==
  IF TargetOf[r] = New THEN ~Exists(i)
  ELSE i = TargetOf[r] /\ ~archived[i] /\ version[i] = seen[r]

Save(r, i) ==
  /\ decision[r] = "open" /\ MayWrite(r, i)
  /\ content' = [content EXCEPT ![i] = ContentOf[r]]
  /\ version' = [version EXCEPT ![i] = @ + 1]
  /\ searched' = [searched EXCEPT ![i] = ContentOf[r]]
  /\ decision' = [decision EXCEPT ![r] = "saved"]
  /\ told' = told \/ Tell(r, {"saved", "error"})
  /\ UNCHANGED <<archived, seen>>

Refuse(r) ==
  /\ decision[r] = "open"
  /\ decision' = [decision EXCEPT ![r] = "refused"]
  /\ Tell(r, {"refused", "error"})
  /\ UNCHANGED <<content, version, archived, searched, seen>>

\* An error may mean anything, every other answer what is decided.
Answer(r) ==
  /\ Tell(r, {IF decision[r] = "open" THEN "pending" ELSE decision[r], "error"})
  /\ UNCHANGED <<content, version, archived, searched, seen, decision>>

Archive(i) ==
  /\ Exists(i) /\ ~archived[i]
  /\ archived' = [archived EXCEPT ![i] = TRUE]
  /\ UNCHANGED <<content, version, searched, seen, decision, told>>

\* The search catches up with a campaign.
Index(i) ==
  /\ Exists(i)
  /\ searched' = [searched EXCEPT ![i] = content[i]]
  /\ UNCHANGED <<content, version, archived, seen, decision, told>>

Next ==
  \/ \E r \in Requests : Show(r) \/ Refuse(r) \/ Answer(r) \/ \E i \in Ids : Save(r, i)
  \/ \E i \in Ids : Archive(i) \/ Index(i)

Spec == Init /\ [][Next]_cVars
=============================================================================
