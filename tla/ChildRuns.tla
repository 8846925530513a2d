------------------------------ MODULE ChildRuns ------------------------------
(***************************************************************************)
(* One turn of a parent agent and the child agents it runs                 *)
(* (agent_runtime/proposal_tools.py under real_runner.py): a call of       *)
(* run_campaign_planner or run_content_creator creates a child session     *)
(* with a turn of its own, runs it to a structured output, and hands that  *)
(* to the parent, which may show a proposal only if a child of this turn   *)
(* made it.  Meanwhile time runs out, somebody recovers turns, the         *)
(* campaign is archived, tasks are cancelled, commits fail or are not      *)
(* acknowledged, and the process dies.                                     *)
(*                                                                         *)
(* A transaction is one step.  The claim of a tool call, its attempts and  *)
(* its result are those of ToolExecutions, with one step for the claim.    *)
(***************************************************************************)
EXTENDS Naturals, FiniteSets

CONSTANTS
  Calls,          \* bound: the calls of run_* tools in the turn
  NoCall,
  AgentOf,        \* the child agent a call runs
  Proposals,      \* what a proposal says, as masked for storage
  MaxSubagents    \* settings.agent_subagent_max_per_turn

Agents == {"planner", "creator"}

ASSUME CallsAssumption ==
  /\ IsFiniteSet(Calls)
  /\ NoCall \notin Calls
  /\ AgentOf \in [Calls -> Agents]
ASSUME ProposalsAssumption ==
  \A p \in Proposals : p \notin {"missing", "none", "failed", "raise", "done"}
ASSUME MaxSubagentsAssumption == MaxSubagents \in Nat

VARIABLES
  parent,         \* status of the parent's turn
  timeUp,         \* its time is over, and in the end it is stale
  archived,       \* campaigns.archived_at is set
  call,           \* tool_executions.status of a call, "none" before it is made
  result,         \* its tool_result
  child,          \* status of the turn of the child it created
  final,          \* child-final
  shown,          \* the proposal of a completed propose_* call
  at, cur,        \* where the parent's process is, and in which call
  hand,           \* what it has in hand there
  want,           \* the proposal it wants to show
  lost,           \* history: children left running by an error of the database or a crash
  unseen          \* history: children created by a transaction that was cut off at its commit

turnVars == <<parent, timeUp, archived>>
rowVars == <<call, result, child, final, shown>>
procVars == <<at, cur, hand, want>>
history == <<lost, unseen>>
vars == <<turnVars, rowVars, procVars, history>>

-----------------------------------------------------------------------------
\* A child's output: a proposal, or what information is missing.
Outputs == Proposals \cup {"missing"}
Asked == [agent : Agents, proposal : Proposals]
Statuses == {"running", "completed", "failed"}
ChildPlaces == {"build", "child", "answered", "failing"}
Places == ChildPlaces \cup
  {"decide", "create", "insert", "save", "source", "campaign", "show", "end", "over"}

Init ==
  /\ parent = "running" /\ timeUp = FALSE /\ archived = FALSE
  /\ call = [c \in Calls |-> "none"]
  /\ result = [c \in Calls |-> "none"]
  /\ child = [c \in Calls |-> "none"]
  /\ final = [c \in Calls |-> "none"]
  /\ shown = {}
  /\ at = "decide" /\ cur = NoCall /\ hand = "none" /\ want = {}
  /\ lost = {} /\ unseen = {}

Running == parent = "running"

\* A bug: calls that failed are not counted.
CountUnfailed == {c \in Calls : call[c] \in {"running", "completed"}}

\* The run_* calls of the turn, the present one included.
Count == {c \in Calls : call[c] # "none"}

\* finish_turn, and recovery too, cancel the open executions of the turn.
Closed == [c \in Calls |-> IF call[c] = "running" THEN "cancelled" ELSE call[c]]

Goto(place, h) == at' = place /\ hand' = h

-----------------------------------------------------------------------------
(* The parent's loop (RealAgentRunner.run).                                *)
\* The model calls a run_* tool; call and execution are stored and claimed.
DecideRun(c) ==
  /\ at = "decide" /\ Running /\ ~timeUp /\ call[c] = "none"
  /\ call' = [call EXCEPT ![c] = "running"]
  /\ cur' = c /\ Goto("create", "none")
  /\ UNCHANGED <<turnVars, result, child, final, shown, want, history>>

DecidePropose(w) ==
  /\ at = "decide" /\ Running /\ ~timeUp
  /\ want' = {w} /\ Goto("source", "none")
  /\ UNCHANGED <<turnVars, rowVars, cur, history>>

\* It replies; or the model or the budget fails, or the turn is found ended.
DecideEnd ==
  /\ at = "decide"
  /\ \/ Running /\ ~timeUp /\ Goto("end", "done")
     \/ Goto("end", "raise")
  /\ UNCHANGED <<turnVars, rowVars, cur, want, history>>

-----------------------------------------------------------------------------
(* A call of a run_* tool.                                                 *)
\* A bug: the parent's turn is not locked and not looked at.
MayCreateLate == Cardinality(Count) <= MaxSubagents

MayCreate == Running /\ Cardinality(Count) <= MaxSubagents

CampaignOpen(agent) == agent = "creator" => ~archived

\* The time is looked at before the transaction begins.
CheckTime ==
  /\ at = "create"
  /\ IF timeUp THEN Goto("save", "failed") ELSE Goto("insert", "none")
  /\ UNCHANGED <<turnVars, rowVars, cur, want, history>>

\* One transaction that holds the parent's turn creates child session and turn.
\* If its commit is not acknowledged, or a cancellation or a time limit cuts it off
\* there, nobody knows of the child: the handler of cancellations begins later.
CreateChild ==
  /\ at = "insert" /\ MayCreate /\ CampaignOpen(AgentOf[cur])
  /\ child' = [child EXCEPT ![cur] = "running"]
  /\ \/ Goto("build", "none") /\ UNCHANGED history
     \/ lost' = lost \cup {cur} /\ Goto("save", "failed") /\ UNCHANGED unseen
     \/ /\ unseen' = unseen \cup {cur} /\ UNCHANGED lost
        /\ Goto("end", "raise") \/ (timeUp /\ Goto("save", "failed"))
  /\ UNCHANGED <<turnVars, call, result, final, shown, cur, want>>

CreateRefused ==
  /\ at = "insert"
  /\ \/ ~(MayCreate /\ CampaignOpen(AgentOf[cur])) /\ Goto("save", "failed")
     \/ Goto("save", "failed")   \* bad request item, campaign not found, error
     \/ Goto("end", "raise")     \* cancelled
  /\ UNCHANGED <<turnVars, rowVars, cur, want, history>>

\* The child's context is built, within the time that is left.
Build ==
  /\ at = "build"
  /\ \/ ~timeUp /\ Goto("child", "none")
     \/ Goto("failing", "failed")
  /\ UNCHANGED <<turnVars, rowVars, cur, want, history>>

\* The child's loop ends with an output that passes its checks.
ChildAnswers(out) ==
  /\ at = "child" /\ child[cur] = "running"
  /\ Goto("answered", out)
  /\ UNCHANGED <<turnVars, rowVars, cur, want, history>>

\* It raises, or its output is refused; the shared budget ends the parent too.
ChildFails ==
  /\ at = "child"
  /\ Goto("failing", "failed") \/ Goto("failing", "raise")
  /\ UNCHANGED <<turnVars, rowVars, cur, want, history>>

\* One transaction stores the output and completes the child's turn.
CompleteChild ==
  /\ at = "answered" /\ child[cur] = "running"
  /\ child' = [child EXCEPT ![cur] = "completed"]
  /\ final' = [final EXCEPT ![cur] = hand]
  /\ \/ Goto("save", hand)
     \/ Goto("save", "failed")       \* not acknowledged
     \/ Goto("failing", "raise")     \* cancelled meanwhile
  /\ UNCHANGED <<turnVars, call, result, shown, cur, want, history>>

CompleteRefused ==
  /\ at = "answered" /\ child[cur] # "running"
  /\ Goto("failing", "failed")
  /\ UNCHANGED <<turnVars, rowVars, cur, want, history>>

\* The transaction fails: no handler ends the child.
CompleteErrs ==
  /\ at = "answered"
  /\ Goto("save", "failed")
  /\ lost' = lost \cup {cur}
  /\ UNCHANGED <<turnVars, rowVars, cur, want, unseen>>

\* A bug: a cancelled call leaves its child as it is.
CutOffAtOnce ==
  /\ at \in {"build", "child", "answered"}
  /\ Goto("end", "raise") \/ (timeUp /\ Goto("save", "failed"))
  /\ UNCHANGED <<turnVars, rowVars, cur, want, history>>

\* The task is cancelled by its tool's or its turn's time limit, or from outside.
CutOff ==
  /\ at \in {"build", "child", "answered"}
  /\ Goto("failing", "raise") \/ (timeUp /\ Goto("failing", "failed"))
  /\ UNCHANGED <<turnVars, rowVars, cur, want, history>>

Failed(s) == IF s = "running" THEN "failed" ELSE s

\* _fail_child, shielded from a cancellation.
FailChild ==
  /\ at = "failing"
  /\ child' = [child EXCEPT ![cur] = Failed(@)]
  /\ IF hand = "raise" THEN Goto("end", "raise") ELSE Goto("save", "failed")
  /\ UNCHANGED <<turnVars, call, result, final, shown, cur, want, history>>

FailChildErrs ==
  /\ at = "failing"
  /\ lost' = lost \cup {cur}
  /\ Goto("save", "failed")
  /\ UNCHANGED <<turnVars, rowVars, cur, want, unseen>>

\* The executor saves the result of the call, unless the turn has ended.
Save ==
  /\ at = "save"
  /\ IF Running
       THEN /\ call' = [call EXCEPT ![cur] = IF hand = "failed" THEN "failed" ELSE "completed"]
            /\ result' = [result EXCEPT ![cur] = hand]
       ELSE UNCHANGED <<call, result>>
  /\ Goto("decide", "none") /\ cur' = NoCall
  /\ UNCHANGED <<turnVars, child, final, shown, want, history>>

-----------------------------------------------------------------------------
(* A call of a propose_* tool.                                             *)
\* A bug: the agent must have run, what it proposed is not compared.
FinalSource(w) == \E c \in Calls : AgentOf[c] = w.agent /\ result[c] \in Outputs

\* A completed call of the turn ran that agent and returned that proposal.
SourceMatches(w) ==
  \E c \in Calls : /\ call[c] = "completed"
                   /\ AgentOf[c] = w.agent
                   /\ result[c] = w.proposal

Source ==
  /\ at = "source"
  /\ IF \A w \in want : SourceMatches(w)
       THEN Goto("campaign", "none") /\ UNCHANGED want
       ELSE Goto("decide", "none") /\ want' = {}
  /\ UNCHANGED <<turnVars, rowVars, cur, history>>

\* The campaign must be open, if the proposal names one, and the text fit.
CheckCampaign ==
  /\ at = "campaign"
  /\ \/ (\A w \in want : CampaignOpen(w.agent)) /\ Goto("show", "none") /\ UNCHANGED want
     \/ Goto("decide", "none") /\ want' = {}
  /\ UNCHANGED <<turnVars, rowVars, cur, history>>

\* Its result is saved, and ends the parent's loop.
Show ==
  /\ at = "show"
  /\ IF Running
       THEN shown' = want /\ Goto("end", "done")
       ELSE Goto("decide", "none") /\ UNCHANGED shown
  /\ want' = {}
  /\ UNCHANGED <<turnVars, call, result, child, final, cur, history>>

\* TurnService._finish.
Finish ==
  /\ at = "end"
  /\ IF Running
       THEN parent' = (IF hand = "done" THEN "completed" ELSE "failed") /\ call' = Closed
       ELSE UNCHANGED <<parent, call>>
  /\ Goto("over", "none") /\ cur' = NoCall
  /\ UNCHANGED <<timeUp, archived, result, child, final, shown, want, history>>

-----------------------------------------------------------------------------
(* Everybody else.                                                         *)
TimeUp ==
  /\ ~timeUp /\ timeUp' = TRUE
  /\ UNCHANGED <<parent, archived, rowVars, procVars, history>>

Archive ==
  /\ ~archived /\ archived' = TRUE
  /\ UNCHANGED <<parent, timeUp, rowVars, procVars, history>>

\* A visit of the parent's session recovers its stale turn; children have
\* sessions of their own.
Interrupt ==
  /\ timeUp /\ Running
  /\ parent' = "failed" /\ call' = Closed
  /\ UNCHANGED <<timeUp, archived, result, child, final, shown, procVars, history>>

\* TurnRecoveryService.recover_all takes the stale turns of all sessions.
RecoverAll ==
  /\ timeUp
  /\ parent' = Failed(parent)
  /\ call' = (IF Running THEN Closed ELSE call)
  /\ child' = [c \in Calls |-> Failed(child[c])]
  /\ UNCHANGED <<timeUp, archived, result, final, shown, procVars, history>>

\* The process dies; or, outside of a child's run, a cancellation ends it before
\* anything has ended the parent's turn.
Crash ==
  /\ at # "over"
  /\ lost' = IF at \in ChildPlaces THEN lost \cup {cur} ELSE lost
  /\ Goto("over", "none") /\ cur' = NoCall /\ want' = {}
  /\ UNCHANGED <<turnVars, rowVars, unseen>>

RunTool ==
  \/ CheckTime \/ CreateChild \/ CreateRefused \/ Build
  \/ (\E out \in Outputs : ChildAnswers(out)) \/ ChildFails
  \/ CompleteChild \/ CompleteRefused \/ CompleteErrs
  \/ CutOff \/ FailChild \/ FailChildErrs \/ Save

Parent ==
  \/ \E c \in Calls : DecideRun(c)
  \/ \E w \in Asked : DecidePropose(w)
  \/ DecideEnd \/ Source \/ CheckCampaign \/ Show \/ Finish

Next == Parent \/ RunTool \/ TimeUp \/ Archive \/ Interrupt \/ RecoverAll \/ Crash

Spec == Init /\ [][Next]_vars

-----------------------------------------------------------------------------
(***************************************************************************)
(* Properties.                                                             *)
(***************************************************************************)
\* Every variable has its type (AgentTurn, ToolExecution, AgentItem).
TypeOK ==
  /\ parent \in Statuses
  /\ timeUp \in BOOLEAN /\ archived \in BOOLEAN
  /\ call \in [Calls -> Statuses \cup {"none", "cancelled"}]
  /\ result \in [Calls -> Outputs \cup {"none", "failed"}]
  /\ child \in [Calls -> Statuses \cup {"none"}]
  /\ final \in [Calls -> Outputs \cup {"none"}]
  /\ shown \in SUBSET Asked /\ want \in SUBSET Asked
  /\ at \in Places
  /\ cur \in Calls \cup {NoCall}
  /\ hand \in Outputs \cup {"none", "failed", "raise", "done"}
  /\ lost \in SUBSET Calls /\ unseen \in SUBSET Calls

\* What is shown to the user as a proposal is word for word the stored output
\* of a completed child of this turn, of the agent that makes such proposals,
\* and the call that returned it is completed; only a completed child has one.
ProposalIsAudited ==
  /\ \A w \in shown : \E c \in Calls :
       /\ AgentOf[c] = w.agent
       /\ call[c] = "completed" /\ child[c] = "completed"
       /\ final[c] = w.proposal
  /\ \A c \in Calls :
       /\ call[c] = "completed" => child[c] = "completed" /\ result[c] = final[c]
       /\ final[c] # "none" <=> child[c] = "completed"

\* However calls fail, are cut off or lose their child, a turn never creates
\* more children than agent_subagent_max_per_turn.
WithinLimit == Cardinality({c \in Calls : child[c] # "none"}) <= MaxSubagents

AtWork(c) == cur = c /\ at \in ChildPlaces

\* A child's turn is left running by no refusal and no failure of the child, and by no
\* time limit and no cancellation once the transaction that created it has returned:
\* someone works on it, unless the database failed, the process died, or that
\* transaction was cut off at its commit (proposal_tools.py:174, outside of the handler
\* at :273). Such a child was never run: nobody works on it, and it has no output.
NoOrphan ==
  /\ \A c \in Calls : child[c] = "running" => AtWork(c) \/ c \in lost \cup unseen
  /\ \A c \in unseen : ~AtWork(c) /\ final[c] = "none" /\ result[c] \notin Outputs

\* A parent that works on after its turn was taken from it creates no child,
\* stores no result and shows no proposal, and the turn keeps its end.
LateParentDoesNothing ==
  [][ ~Running => /\ UNCHANGED <<parent, call, result, shown>>
                  /\ \A c \in Calls : child[c] = "none" => child'[c] = "none" ]_vars

=============================================================================
