----------------------------- MODULE AgentTurns -----------------------------
(***************************************************************************)
(* The turns of one parent session, from the message that opens one to the *)
(* view that ends it: requests on several instances, the session row lock, *)
(* the recovery of interrupted turns, the ask_user tool that ends a turn   *)
(* with questions, and executions that die, fail or run on after their     *)
(* turn was taken from them.                                               *)
(*                                                                         *)
(* Code: services/turn_service.py, services/session_service.py,            *)
(* api/sse.py, repositories/agent.py.                                      *)
(*                                                                         *)
(* A transaction is one step, except the one that opens a turn: its        *)
(* statements are separate steps under the lock of the session row         *)
(* (`holder`), and what its first statement wrote (`recovering`) is        *)
(* invisible to others, who wait for those rows, until it commits.         *)
(***************************************************************************)
EXTENDS Naturals, FiniteSets

CONSTANTS
  Requests,     \* executions of POST /turns, used again after they end
  NoRequest,
  MaxTurns      \* bound: turns of the session

ASSUME NoRequestAssumption == NoRequest \notin Requests
ASSUME MaxTurnsAssumption == MaxTurns \in Nat

VARIABLES
  \* agent_turns, by turn_number
  kind,         \* a chat turn, an API turn (api_idempotency_requests refers to it), none yet
  status,       \* "interrupted" is failed with TURN_INTERRUPTED
  stale,        \* an open turn whose started_at is older than stale_turn_seconds
  answers,      \* user-message: the turn whose questions it answers
  reply,        \* assistant-message is stored
  ask,          \* tool_executions.status of its call of ask_user
  \* the session row and the transaction that holds it
  holder, recovering,
  \* requests
  pc, turn, answering, result,
  \* history
  told          \* the final status the client of the turn was given

turnVars == <<kind, status, stale, answers, reply, ask>>
lockVars == <<holder, recovering>>
requestVars == <<pc, turn, answering, result>>
vars == <<turnVars, lockVars, requestVars, told>>

Turns == 1 .. MaxTurns
NoTurn == 0
Ended == {"completed", "failed", "blocked", "interrupted"}
OpenExecution == {"pending", "running"}

Init ==
  /\ kind = [t \in Turns |-> "none"]
  /\ status = [t \in Turns |-> "none"]
  /\ stale = [t \in Turns |-> FALSE]
  /\ answers = [t \in Turns |-> NoTurn]
  /\ reply = [t \in Turns |-> FALSE]
  /\ ask = [t \in Turns |-> "none"]
  /\ holder = NoRequest
  /\ recovering = {}
  /\ pc = [r \in Requests |-> "idle"]
  /\ turn = [r \in Requests |-> NoTurn]
  /\ answering = [r \in Requests |-> NoTurn]
  /\ result = [r \in Requests |-> "none"]
  /\ told = [t \in Turns |-> "nothing"]

(***************************************************************************)
(* Reads.                                                                  *)
(***************************************************************************)
\* The turns that recovery may take: chat turns left open for too long.
StaleAny == {t \in Turns : status[t] = "running" /\ stale[t]}   \* mutant: API turns too
NeverStale == {}                                                \* mutant
StaleChats ==
  {t \in Turns : kind[t] = "chat" /\ status[t] = "running" /\ stale[t]}

\* As the opening transaction reads it: what it has recovered itself is over.
ActiveChats ==
  {t \in Turns : kind[t] = "chat" /\ status[t] = "running"} \ recovering

Asked(q) == status[q] = "completed" /\ ask[q] = "completed"
Answered(q) ==
  \E t \in Turns : t > q /\ status[t] = "completed" /\ answers[t] = q

\* create_turn takes the next number of the session.
NextTurn == Cardinality({t \in Turns : kind[t] # "none"}) + 1

\* Nobody holds the row of t in a transaction.
Free(t) == t \notin recovering
Running(t) == status[t] = "running" /\ Free(t)

(***************************************************************************)
(* begin: one transaction under the lock of the session row.               *)
(***************************************************************************)
Goto(r, p) == pc' = [pc EXCEPT ![r] = p]

Leave(r) ==
  /\ Goto(r, "idle")
  /\ turn' = [turn EXCEPT ![r] = NoTurn]
  /\ answering' = [answering EXCEPT ![r] = NoTurn]
  /\ result' = [result EXCEPT ![r] = "none"]

Unlock == holder' = NoRequest /\ recovering' = {}

LockSession(r) ==
  /\ pc[r] = "idle" /\ holder = NoRequest /\ NextTurn \in Turns
  /\ \E q \in Turns \cup {NoTurn} : answering' = [answering EXCEPT ![r] = q]
  /\ holder' = r
  /\ recovering' = StaleChats
  /\ Goto(r, "active")
  /\ UNCHANGED <<turnVars, turn, result, told>>

\* An error rolls the transaction back, and the recovery with it.
TurnInProgress(r) ==
  /\ pc[r] = "active" /\ ActiveChats # {}
  /\ Unlock /\ Leave(r)
  /\ UNCHANGED <<turnVars, told>>

NoTurnInProgress(r) ==
  /\ pc[r] = "active" /\ ActiveChats = {}
  /\ Goto(r, IF answering[r] = NoTurn THEN "create" ELSE "answer")
  /\ UNCHANGED <<turnVars, lockVars, turn, answering, result, told>>

AcceptAnswer(r) ==
  /\ pc[r] = "answer"
  /\ Asked(answering[r]) /\ ~Answered(answering[r])
  /\ Goto(r, "create")
  /\ UNCHANGED <<turnVars, lockVars, turn, answering, result, told>>

\* No such question, answered already, or the answers do not fit the questions.
RefuseAnswer(r) ==
  /\ pc[r] = "answer"
  /\ Unlock /\ Leave(r)
  /\ UNCHANGED <<turnVars, told>>

NotCancelled(T) == ask                                 \* mutant
\* A turn that ends cancels its open tool execution.
Cancelled(T) ==
  [t \in Turns |-> IF t \in T /\ ask[t] \in OpenExecution THEN "cancelled" ELSE ask[t]]

EndAll(T, s) ==
  /\ status' = [t \in Turns |-> IF t \in T THEN s ELSE status[t]]
  /\ ask' = Cancelled(T)
  /\ stale' = [t \in Turns |-> stale[t] /\ t \notin T]

\* The commit of begin: the recovery, the turn and its user-message.
Open(r) ==
  /\ pc[r] = "create"
  /\ kind' = [kind EXCEPT ![NextTurn] = "chat"]
  /\ status' = [t \in Turns |->
       IF t = NextTurn THEN "running"
       ELSE IF t \in recovering THEN "interrupted" ELSE status[t]]
  /\ ask' = Cancelled(recovering)
  /\ stale' = [t \in Turns |-> stale[t] /\ t \notin recovering]
  /\ answers' = [answers EXCEPT ![NextTurn] = answering[r]]
  /\ Unlock
  /\ UNCHANGED <<reply, told>>

OpenTurn(r) ==
  /\ Open(r)
  /\ Goto(r, "run")
  /\ turn' = [turn EXCEPT ![r] = NextTurn]
  /\ answering' = [answering EXCEPT ![r] = NoTurn]
  /\ UNCHANGED result

\* The commit is not acknowledged: the request fails, its turn stays open.
OpenUnacknowledged(r) == Open(r) /\ Leave(r)

(***************************************************************************)
(* execute: the loop of the agent.  Every write is conditional on the      *)
(* turn's being open; an execution whose turn was taken writes nothing.    *)
(***************************************************************************)
SetAsk(r, s) ==
  /\ ask' = [ask EXCEPT ![turn[r]] = s]
  /\ UNCHANGED <<kind, status, stale, answers, reply, lockVars, turn, answering, told>>

PrepareAsk(r) ==
  /\ pc[r] = "run" /\ Running(turn[r]) /\ ask[turn[r]] = "none"
  /\ SetAsk(r, "pending")
  /\ UNCHANGED <<pc, result>>

ClaimAsk(r) ==
  /\ pc[r] = "run" /\ Running(turn[r]) /\ ask[turn[r]] = "pending"
  /\ SetAsk(r, "running")
  /\ UNCHANGED <<pc, result>>

SaveAskUnfenced(r) ==                                  \* mutant: the turn is not locked
  /\ pc[r] = "run" /\ Free(turn[r]) /\ ask[turn[r]] \in {"running", "cancelled"}
  /\ SetAsk(r, "completed")
  /\ Goto(r, "finish")
  /\ result' = [result EXCEPT ![r] = "ask"]
\* The result is stored with the end of the execution; a successful one ends the loop.
SaveAsk(r) ==
  /\ pc[r] = "run" /\ Running(turn[r]) /\ ask[turn[r]] = "running"
  /\ SetAsk(r, "completed")
  /\ Goto(r, "finish")
  /\ result' = [result EXCEPT ![r] = "ask"]

AskFails(r) ==
  /\ pc[r] = "run" /\ Running(turn[r]) /\ ask[turn[r]] = "running"
  /\ SetAsk(r, "failed")
  /\ UNCHANGED <<pc, result>>

Decide(r, res) ==
  /\ pc[r] = "run"
  /\ Goto(r, "finish")
  /\ result' = [result EXCEPT ![r] = res]
  /\ UNCHANGED <<turnVars, lockVars, turn, answering, told>>

\* A reply comes from a call of the model that was recorded in an open turn.
Reply(r) ==
  /\ pc[r] = "run" /\ Running(turn[r]) /\ ask[turn[r]] \in {"none", "failed"}
  /\ Decide(r, "reply")
Fail(r) == \E res \in {"failed", "blocked"} : Decide(r, res)

(***************************************************************************)
(* _finish: the answer and the end of the turn in one transaction.         *)
(***************************************************************************)
FinalStatus(res) == IF res \in {"reply", "ask"} THEN "completed" ELSE res

FinishTurn(r) ==
  /\ pc[r] \in {"finish", "failing"} /\ Running(turn[r])
  /\ reply' = [reply EXCEPT ![turn[r]] = result[r] = "reply"]
  /\ EndAll({turn[r]}, FinalStatus(result[r]))
  /\ Goto(r, "view")
  /\ UNCHANGED <<kind, answers, lockVars, turn, answering, result, told>>

TurnTaken(r) ==
  /\ pc[r] \in {"finish", "failing"} /\ status[turn[r]] # "running"
  /\ Goto(r, "view")
  /\ UNCHANGED <<turnVars, lockVars, turn, answering, result, told>>

\* The deadline passes or execute raises, in the middle of the loop, before or
\* after the commit of _finish: the stream fails what is still open.
FailRunning(r) ==
  /\ pc[r] \in {"run", "finish", "view"}
  /\ Goto(r, "failing")
  /\ result' = [result EXCEPT ![r] = "failed"]
  /\ UNCHANGED <<turnVars, lockVars, turn, answering, told>>

ViewOfResult(r) ==                                     \* mutant: not read again
  /\ pc[r] = "view"
  /\ told' = [told EXCEPT ![turn[r]] = FinalStatus(result[r])]
  /\ Leave(r)
  /\ UNCHANGED <<turnVars, lockVars>>
\* The view is read from the database and sent.
View(r) ==
  /\ pc[r] = "view"
  /\ told' = [told EXCEPT ![turn[r]] = status[turn[r]]]
  /\ Leave(r)
  /\ UNCHANGED <<turnVars, lockVars>>

\* The instance dies, or the request fails where nothing catches it.
Crash(r) ==
  /\ pc[r] # "idle"
  /\ Leave(r)
  /\ IF holder = r THEN Unlock ELSE UNCHANGED lockVars
  /\ UNCHANGED <<turnVars, told>>

(***************************************************************************)
(* The rest of the session.                                                *)
(***************************************************************************)
\* stale_turn_seconds pass.
Expire(t) ==
  /\ status[t] = "running" /\ ~stale[t]
  /\ stale' = [stale EXCEPT ![t] = TRUE]
  /\ UNCHANGED <<kind, status, answers, reply, ask, lockVars, requestVars, told>>

\* GET of the history or of a turn; its update waits for rows being recovered.
Visit ==
  /\ StaleChats # {} /\ recovering = {}
  /\ EndAll(StaleChats, "interrupted")
  /\ UNCHANGED <<kind, answers, reply, lockVars, requestVars, told>>

OpenApi ==
  /\ holder = NoRequest /\ NextTurn \in Turns
  /\ kind' = [kind EXCEPT ![NextTurn] = "api"]
  /\ status' = [status EXCEPT ![NextTurn] = "running"]
  /\ UNCHANGED <<stale, answers, reply, ask, lockVars, requestVars, told>>

EndApi(t) ==
  /\ kind[t] = "api" /\ status[t] = "running"
  /\ EndAll({t}, "completed")
  /\ UNCHANGED <<kind, answers, reply, lockVars, requestVars, told>>

Begin(r) ==
  \/ LockSession(r) \/ TurnInProgress(r) \/ NoTurnInProgress(r)
  \/ AcceptAnswer(r) \/ RefuseAnswer(r)
  \/ OpenTurn(r) \/ OpenUnacknowledged(r)

Execute(r) ==
  \/ PrepareAsk(r) \/ ClaimAsk(r) \/ SaveAsk(r) \/ AskFails(r)
  \/ Reply(r) \/ Fail(r)
  \/ FinishTurn(r) \/ TurnTaken(r) \/ FailRunning(r) \/ View(r)

Next ==
  \/ \E r \in Requests : Begin(r) \/ Execute(r) \/ Crash(r)
  \/ \E t \in Turns : Expire(t) \/ EndApi(t)
  \/ Visit \/ OpenApi

Spec == Init /\ [][Next]_vars

\* A transaction that holds the session row ends, requests go on, and time passes.
Progress ==
  /\ \A r \in Requests : WF_vars(Begin(r) /\ holder = r) /\ WF_vars(Execute(r))
  /\ \A t \in Turns : WF_vars(Expire(t))

\* Somebody looks at the session again and again; the update is served in turn.
VisitedSpec == Spec /\ Progress /\ SF_vars(Visit)

-----------------------------------------------------------------------------
(***************************************************************************)
(* Properties.                                                             *)
(***************************************************************************)
\* A turn ends whole: a chat turn completes with exactly one of a reply and
\* questions, an answer of the assistant is never seen in a turn that is open or
\* ended otherwise, and no ended turn leaves a tool execution open.
EndsWhole ==
  \A t \in Turns :
    /\ reply[t] => status[t] = "completed"
    /\ kind[t] = "chat" /\ status[t] = "completed" => (reply[t] # (ask[t] = "completed"))
    /\ status[t] \in Ended => ask[t] \notin OpenExecution

\* What the client was told is an end, and it is what the session keeps.
ToldIsStored ==
  \A t \in Turns : told[t] # "nothing" => told[t] \in Ended /\ told[t] = status[t]

\* Nothing is added to a turn that has ended, and its end is not revised: an
\* execution whose turn was taken writes nothing.
NothingAfterTheEnd ==
  [][\A t \in Turns : status[t] \in Ended =>
       /\ status'[t] = status[t] /\ reply'[t] = reply[t]
       /\ ask'[t] = ask[t] /\ answers'[t] = answers[t]]_vars

\* The session as its readers see it behaves as SessionTurns promises.
asked == [t \in Turns |-> Asked(t)]
Promise == INSTANCE SessionTurns
KeepsPromise == Promise!TurnSpec

\* Every chat turn ends, the one whose execution died too: recovery takes it.
EventuallyEnds ==
  \A t \in Turns : kind[t] = "chat" /\ status[t] = "running" ~> status[t] \in Ended
=============================================================================
