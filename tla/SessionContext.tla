--------------------------- MODULE SessionContext ---------------------------
(***************************************************************************)
(* What the agent is given to read in a turn of a long session: the newest *)
(* valid checkpoint summary, the completed turns after its boundary, and   *)
(* the compaction that writes checkpoints; and the quarantine of an item,  *)
(* which must take it out of every later context, summaries included.      *)
(* The turns themselves behave as SessionTurns.                            *)
(*                                                                         *)
(* Code: services/agent_context.py, repositories/agent.py,                 *)
(* agent_runtime/real_runner.py.                                           *)
(*                                                                         *)
(* A turn stands for its items: they are read, summarised and quarantined  *)
(* together.  Sizes are abstracted: whether a context is over a limit is a *)
(* choice.  What is kept of a summary is the set of turns whose original   *)
(* text went into it.  Every query of a build has its own snapshot.        *)
(***************************************************************************)
EXTENDS SessionTurns, Sequences

CONSTANTS
  MaxCheckpoints,    \* bound: checkpoints ever written
  LateExecutions     \* an execution may run on after its turn was interrupted

ASSUME MaxCheckpointsAssumption == MaxCheckpoints \in Nat
ASSUME LateExecutionsAssumption == LateExecutions \in BOOLEAN

VARIABLES
  quarantined,   \* turns whose item is quarantined: readers get context_override
  checkpoints,   \* agent_context_checkpoints, in the order in which they were created
  \* the execution of each chat turn
  step,          \* of the context build
  base,          \* the checkpoint it starts from, 0 without one
  rows,          \* the completed turns it read
  originals,     \* those whose original text it read
  context,       \* the context the agent has
  guarded,       \* an item was quarantined in this run already
  \* history
  past           \* turns that were completed when the turn opened

buildVars == <<step, base, rows, originals>>
contextVars == <<quarantined, checkpoints, buildVars, context, guarded>>
vars == <<turnVars, contextVars, past>>

Completed == {t \in Turns : status[t] = "completed"}

\* summarised: the sources of the summary; verbatim: turns given as their items;
\* text: the turns whose original text can be read in either.
NoContext == [built |-> FALSE, summarised |-> {}, verbatim |-> {}, text |-> {}]

Init ==
  /\ TurnInit
  /\ quarantined = {} /\ checkpoints = << >>
  /\ step = [t \in Turns |-> "idle"]
  /\ base = [t \in Turns |-> 0]
  /\ rows = [t \in Turns |-> {}]
  /\ originals = [t \in Turns |-> {}]
  /\ context = [t \in Turns |-> NoContext]
  /\ guarded = [t \in Turns |-> FALSE]
  /\ past = [t \in Turns |-> {}]

(***************************************************************************)
(* The turns.  With its turn an execution ends, unless it was interrupted  *)
(* and runs on.                                                            *)
(***************************************************************************)
Over(t) ==
  status'[t] \in Ended /\ ~(LateExecutions /\ status'[t] = "interrupted")

EndExecutions ==
  /\ step' = [t \in Turns |-> IF Over(t) THEN "idle" ELSE step[t]]
  /\ base' = [t \in Turns |-> IF Over(t) THEN 0 ELSE base[t]]
  /\ rows' = [t \in Turns |-> IF Over(t) THEN {} ELSE rows[t]]
  /\ originals' = [t \in Turns |-> IF Over(t) THEN {} ELSE originals[t]]
  /\ context' = [t \in Turns |-> IF Over(t) THEN NoContext ELSE context[t]]
  /\ guarded' = [t \in Turns |-> guarded[t] /\ ~Over(t)]
  /\ UNCHANGED <<quarantined, checkpoints>>

\* What a turn asks or answers makes no difference here, nor how it fails.
TurnStep ==
  /\ \/ \E t \in Turns : OpenApi(t) \/ EndApi(t) \/ OpenChat(t, NoTurn)
     \/ \E t \in Turns, s \in {"completed", "failed"} : EndChat(t, s, FALSE)
     \/ Interrupt /\ status' # status
  /\ past' = [t \in Turns |-> IF kind[t] = "none" /\ kind'[t] # "none" THEN Completed ELSE past[t]]
  /\ EndExecutions

(***************************************************************************)
(* build                                                                   *)
(***************************************************************************)
Valid(c) == checkpoints[c].valid
\* latest_checkpoint: the newest valid one whose boundary is before t.
Usable(t) == {c \in DOMAIN checkpoints : Valid(c) /\ checkpoints[c].through < t}
LatestCheckpoint(t) ==
  IF Usable(t) = {} THEN 0 ELSE CHOOSE c \in Usable(t) : \A d \in Usable(t) : d <= c

Through(c) == IF c = 0 THEN 0 ELSE checkpoints[c].through
Sources(c) == IF c = 0 THEN {} ELSE checkpoints[c].sources
Text(c) == IF c = 0 THEN {} ELSE checkpoints[c].text

\* The turn is read as running, and then its checkpoint.
StartBuild(t) ==
  /\ step[t] = "idle" /\ t \in OpenChats
  /\ step' = [step EXCEPT ![t] = "rows"]
  /\ base' = [base EXCEPT ![t] = LatestCheckpoint(t)]
  /\ UNCHANGED <<turnVars, past, quarantined, checkpoints, rows, originals, context, guarded>>

\* completed_context_items: between the boundary and the current turn.
CompletedBetween(after, t) == {s \in Completed : after < s /\ s < t}

ReadRows(t) ==
  /\ step[t] = "rows"
  /\ rows' = [rows EXCEPT ![t] = CompletedBetween(Through(base[t]), t)]
  /\ originals' = [originals EXCEPT ![t] = rows'[t] \ quarantined]
  /\ step' = [step EXCEPT ![t] = "decide"]
  /\ UNCHANGED <<turnVars, past, quarantined, checkpoints, base, context, guarded>>

Give(t, summarised, verbatim, text) ==
  /\ context' = [context EXCEPT ![t] =
       [built |-> TRUE, summarised |-> summarised, verbatim |-> verbatim, text |-> text]]
  /\ step' = [step EXCEPT ![t] = "idle"]
  /\ base' = [base EXCEPT ![t] = 0]
  /\ rows' = [rows EXCEPT ![t] = {}]
  /\ originals' = [originals EXCEPT ![t] = {}]

\* Small enough, nothing to compact, or the compaction failed.
UseAsRead(t) ==
  /\ step[t] \in {"decide", "save"}
  /\ Give(t, Sources(base[t]), rows[t], Text(base[t]) \cup originals[t])
  /\ UNCHANGED <<turnVars, past, quarantined, checkpoints, guarded>>

\* The newest turn stays as it is.
Compactable(R) == {s \in R : \E l \in R : s < l}
Boundary(R) == CHOOSE s \in R : \A l \in R : l <= s

\* The compactor works on what was read, outside of any transaction.
Compact(t) ==
  /\ step[t] = "decide" /\ Compactable(rows[t]) # {}
  /\ step' = [step EXCEPT ![t] = "save"]
  /\ UNCHANGED <<turnVars, past, quarantined, checkpoints, base, rows, originals, context, guarded>>

NewSources(c, R) == R                                             \* mutant: the old ones are lost
AllSources(c, R) == Sources(c) \cup R

\* One valid checkpoint of a session for each boundary (uq_checkpoints_active_boundary).
BoundaryTaken(b) == \E c \in DOMAIN checkpoints : Valid(c) /\ checkpoints[c].through = b

Summarised(t) == AllSources(base[t], Compactable(rows[t]))
SummaryText(t) == Text(base[t]) \cup (originals[t] \cap Compactable(rows[t]))

CreateCheckpoint(t) ==
  LET b == Boundary(Compactable(rows[t])) IN
  /\ step[t] = "save" /\ Len(checkpoints) < MaxCheckpoints
  /\ Summarised(t) \subseteq {s \in Completed : s <= b}
  /\ ~BoundaryTaken(b)
  /\ checkpoints' = Append(checkpoints,
       [through |-> b, sources |-> Summarised(t), text |-> SummaryText(t), valid |-> TRUE])
  /\ UNCHANGED <<turnVars, past, quarantined, guarded>>

SaveCheckpoint(t) ==
  /\ CreateCheckpoint(t)
  /\ Give(t, Summarised(t), rows[t] \ Compactable(rows[t]), SummaryText(t) \cup originals[t])

\* The commit is not acknowledged: the context is used as it was read.
SaveUnacknowledged(t) ==
  /\ CreateCheckpoint(t)
  /\ Give(t, Sources(base[t]), rows[t], Text(base[t]) \cup originals[t])

\* A quarantine invalidates every summary made from the item.
InvalidateBoundary(s) ==                                          \* mutant
  [c \in DOMAIN checkpoints |->
     [checkpoints[c] EXCEPT !.valid = @ /\ s # checkpoints[c].through]]
Invalidate(s) ==
  [c \in DOMAIN checkpoints |->
     [checkpoints[c] EXCEPT !.valid = @ /\ s \notin checkpoints[c].sources]]
\* The guardrail names one item of the context, a tool result: it is quarantined,
\* and the context is built again.
Quarantine(t, s) ==
  /\ step[t] = "idle" /\ context[t].built /\ ~guarded[t]
  /\ s \in context[t].verbatim \cap context[t].text /\ kind[s] = "chat"
  /\ t \in OpenChats /\ s \notin quarantined
  /\ quarantined' = quarantined \cup {s}
  /\ checkpoints' = Invalidate(s)
  /\ guarded' = [guarded EXCEPT ![t] = TRUE]
  /\ context' = [context EXCEPT ![t] = NoContext]
  /\ UNCHANGED <<turnVars, past, buildVars>>

Next ==
  \/ TurnStep
  \/ \E t \in Turns :
       \/ StartBuild(t) \/ ReadRows(t) \/ UseAsRead(t)
       \/ Compact(t) \/ SaveCheckpoint(t) \/ SaveUnacknowledged(t)
       \/ \E s \in Turns : Quarantine(t, s)

Spec == Init /\ [][Next]_vars

-----------------------------------------------------------------------------
(***************************************************************************)
(* Properties.                                                             *)
(***************************************************************************)
Given(t) == context[t].summarised \cup context[t].verbatim

\* The agent knows the conversation: whatever was summarised, invalidated and
\* summarised again, every chat turn that completed before this one is in its
\* context, and nothing of a turn that did not complete; no turn is there twice,
\* summarised and in its own words, and the newest one is in its own words.
KnowsTheConversation ==
  \A t \in Turns : context[t].built =>
    /\ {s \in Completed : kind[s] = "chat" /\ s < t} \subseteq Given(t)
    /\ Given(t) \subseteq Completed
    /\ context[t].summarised \cap context[t].verbatim = {}
    /\ \A s \in context[t].summarised : \E l \in context[t].verbatim : s < l

\* A quarantined text is in no summary that a later turn may start from, and not
\* in the context of the turn that is running.
QuarantinedStaysOut ==
  /\ \A c \in DOMAIN checkpoints : Valid(c) => checkpoints[c].text \cap quarantined = {}
  /\ \A t \in OpenChats : context[t].text \cap quarantined = {}

\* The same of checkpoints only, stated for executions that run on: writes of an
\* interrupted turn fail (docs/v.0.1/AGENT_DESIGN.md, recovery of interrupted turns), and
\* the quarantine of an item invalidates the checkpoints that contain it.
CheckpointsAreClean ==
  \A c \in DOMAIN checkpoints : Valid(c) => checkpoints[c].text \cap quarantined = {}

\* The result of an API turn is read in the same way as the other completed turns
\* when the next input opens a turn (docs/v.0.1/AGENT_DESIGN.md, API result).
ApiResultsAreRead ==
  \A t \in Turns : context[t].built => {s \in past[t] : kind[s] = "api" /\ s < t} \subseteq Given(t)

=============================================================================
