--------------------------- MODULE ToolExecutions ---------------------------
(***************************************************************************)
(* The tool calls of one turn (agent_runtime/executor.py and               *)
(* ToolExecutionRepository).  Invocations of ToolExecutor.invoke, possibly *)
(* several for one stable key, get or create the tool call and its         *)
(* execution, claim it, have it authorised and inspected, attempt it with  *)
(* a limit of retries, and save one result; meanwhile the turn's time runs *)
(* out, somebody ends the turn, an invocation is cut off or its process    *)
(* dies, and acknowledgements of commits are lost.                         *)
(***************************************************************************)
EXTENDS Naturals, FiniteSets

CONSTANTS
  Callers,      \* invocations of ToolExecutor.invoke
  Keys,         \* stable keys of the turn's tool calls
  KeyOf,        \* the stable key an invocation carries
  InputOf,      \* its tool name, arguments and provenance, as persisted
  Inputs,
  NoInput,
  MaxAttempts   \* settings.tool_max_attempts

ASSUME CallsAssumption ==
  /\ KeyOf \in [Callers -> Keys]
  /\ InputOf \in [Callers -> Inputs]
  /\ NoInput \notin Inputs
  /\ MaxAttempts \in Nat \ {0}

VARIABLES
  running,      \* the turn's status is running
  timeUp,       \* no time of the turn remains
  input,        \* the tool_call item of a key
  execution,    \* the status of its execution, "none" without one
  attempts,     \* attempt_count
  result,       \* the tool_result item, "none" without one
  context,      \* its context_status, and who quarantined it
  at,           \* where an invocation is
  hand,         \* the outcome it has in hand
  tries,        \* its loop counter
  claimed,      \* it has claimed the execution
  effects,      \* how often its handler carried the call out
  answer        \* what invoke returned

turnVars == <<running, timeUp>>
rowVars == <<input, execution, attempts, result, context>>
callVars == <<at, hand, tries, claimed, effects, answer>>
vars == <<turnVars, rowVars, callVars>>

-----------------------------------------------------------------------------
Open == {"pending", "running"}
Final == {"completed", "failed", "blocked", "cancelled"}

\* A bug: an attempt that was cut off is saved as one that was never made.
FailuresCancelled == {"failed", "blocked", "cancelled"}

Failures == {"failed", "blocked"}
Places == {"start", "prepare", "claim", "lookup", "authorize", "attempt",
           "execute", "inspect", "save", "done"}
Contexts == {"active", "blocked", "later"}
Answers == {"none", "data", "notice", "failure", "turn ended", "in progress",
            "conflict", "raised"}

Init ==
  /\ running = TRUE
  /\ timeUp = FALSE
  /\ input = [k \in Keys |-> NoInput]
  /\ execution = [k \in Keys |-> "none"]
  /\ attempts = [k \in Keys |-> 0]
  /\ result = [k \in Keys |-> "none"]
  /\ context = [k \in Keys |-> "active"]
  /\ at = [c \in Callers |-> "start"]
  /\ hand = [c \in Callers |-> "none"]
  /\ tries = [c \in Callers |-> 0]
  /\ claimed = [c \in Callers |-> FALSE]
  /\ effects = [c \in Callers |-> 0]
  /\ answer = [c \in Callers |-> "none"]

\* A bug: a replay does not compare name, arguments and provenance.
SameKey(c) == input[KeyOf[c]] # NoInput

\* The stored call of the key is this very call (_require_matching_call).
SameCall(c) == input[KeyOf[c]] = InputOf[c]

\* What a stored result says to the agent: a quarantined one its override,
\* which has the form of a result only if the executor wrote it.
Told(r, q) ==
  CASE q = "later" -> "raised"
    [] q = "blocked" -> "notice"
    [] q = "active" -> IF r = "completed" THEN "data" ELSE "failure"

Goto(c, place) == at' = [at EXCEPT ![c] = place]

Return(c, a) ==
  /\ Goto(c, "done")
  /\ answer' = [answer EXCEPT ![c] = a]

ReturnStored(c) == Return(c, Told(result[KeyOf[c]], context[KeyOf[c]]))

-----------------------------------------------------------------------------
(* An invocation.                                                          *)
\* The turn is running: go on to prepare the call.
Start(c) ==
  /\ at[c] = "start" /\ running
  /\ Goto(c, "prepare")
  /\ UNCHANGED <<turnVars, rowVars, hand, tries, claimed, effects, answer>>

\* The turn has ended: only a stored result is returned.
StartEnded(c) ==
  LET k == KeyOf[c] IN
  /\ at[c] = "start" /\ ~running
  /\ \/ input[k] # NoInput /\ ~SameCall(c) /\ Return(c, "conflict")
     \/ input[k] # NoInput /\ SameCall(c) /\ result[k] # "none" /\ ReturnStored(c)
     \/ (input[k] = NoInput \/ (SameCall(c) /\ result[k] = "none"))
        /\ Return(c, "turn ended")
  /\ UNCHANGED <<turnVars, rowVars, hand, tries, claimed, effects>>

\* One transaction that holds the turn's row gets or creates call and execution.
PrepareNew(c) ==
  LET k == KeyOf[c] IN
  /\ at[c] = "prepare" /\ running /\ input[k] = NoInput
  /\ input' = [input EXCEPT ![k] = InputOf[c]]
  /\ execution' = [execution EXCEPT ![k] = "pending"]
  /\ Goto(c, "claim")
  /\ UNCHANGED <<turnVars, attempts, result, context, hand, tries, claimed,
                 effects, answer>>

PrepareKnown(c) ==
  LET k == KeyOf[c] IN
  /\ at[c] = "prepare"
  /\ \/ ~running /\ Return(c, "turn ended")
     \/ running /\ input[k] # NoInput /\ ~SameCall(c) /\ Return(c, "conflict")
     \/ running /\ SameCall(c) /\ result[k] # "none" /\ ReturnStored(c)
     \/ running /\ SameCall(c) /\ result[k] = "none"
        /\ Goto(c, "claim") /\ UNCHANGED answer
  /\ UNCHANGED <<turnVars, rowVars, hand, tries, claimed, effects>>

\* A bug: an execution that runs already may be claimed.
ClaimableRunning(k) == execution[k] \in Open /\ running

Claimable(k) == execution[k] = "pending" /\ running

Claim(c) ==
  LET k == KeyOf[c] IN
  /\ at[c] = "claim"
  /\ IF Claimable(k)
       THEN /\ execution' = [execution EXCEPT ![k] = "running"]
            /\ claimed' = [claimed EXCEPT ![c] = TRUE]
            /\ Goto(c, "authorize")
       ELSE Goto(c, "lookup") /\ UNCHANGED <<execution, claimed>>
  /\ UNCHANGED <<turnVars, input, attempts, result, context, hand, tries,
                 effects, answer>>

\* A bug: without a result the turn is taken to have ended.
LookupEnded(c) ==
  /\ at[c] = "lookup"
  /\ IF result[KeyOf[c]] # "none" THEN ReturnStored(c) ELSE Return(c, "turn ended")
  /\ UNCHANGED <<turnVars, rowVars, hand, tries, claimed, effects>>

\* Another invocation has the execution: its result if there is one already.
Lookup(c) ==
  /\ at[c] = "lookup"
  /\ IF result[KeyOf[c]] # "none" THEN ReturnStored(c) ELSE Return(c, "in progress")
  /\ UNCHANGED <<turnVars, rowVars, hand, tries, claimed, effects>>

InHand(c, r, place) ==
  /\ hand' = [hand EXCEPT ![c] = r]
  /\ Goto(c, place)

\* Provenance, allow-list, input, authorisation, preflight and firewall.
Authorize(c) ==
  /\ at[c] = "authorize"
  /\ \/ Goto(c, "attempt") /\ UNCHANGED hand
     \/ \E r \in Failures : InHand(c, r, "save")
  /\ UNCHANGED <<turnVars, rowVars, tries, claimed, effects, answer>>

\* Counted before it begins, while execution and turn are running.
Attempt(c) ==
  LET k == KeyOf[c] IN
  /\ at[c] = "attempt"
  /\ IF ~timeUp /\ execution[k] = "running" /\ running
       THEN /\ attempts' = [attempts EXCEPT ![k] = @ + 1]
            /\ tries' = [tries EXCEPT ![c] = @ + 1]
            /\ Goto(c, "execute") /\ UNCHANGED hand
       ELSE InHand(c, "cancelled", "save") /\ UNCHANGED <<attempts, tries>>
  /\ UNCHANGED <<turnVars, input, execution, result, context, claimed,
                 effects, answer>>

Succeed(c) ==
  /\ at[c] = "execute"
  /\ effects' = [effects EXCEPT ![c] = @ + 1]
  /\ InHand(c, "completed", "inspect")
  /\ UNCHANGED <<turnVars, rowVars, tries, claimed, answer>>

\* A TransientToolError: nothing has happened, and it may be tried again.
Transient(c) ==
  /\ at[c] = "execute"
  /\ \/ tries[c] < MaxAttempts /\ ~timeUp /\ Goto(c, "attempt") /\ UNCHANGED hand
     \/ InHand(c, "failed", "save")  \* the last attempt, or the wait outlasts the turn
  /\ UNCHANGED <<turnVars, rowVars, tries, claimed, effects, answer>>

\* A timeout, a domain error, an invalid output: it may have happened or not.
GiveUp(c) ==
  /\ at[c] = "execute"
  /\ \E n \in 0..1 : effects' = [effects EXCEPT ![c] = @ + n]
  /\ \E r \in Failures : InHand(c, r, "save")
  /\ UNCHANGED <<turnVars, rowVars, tries, claimed, answer>>

\* The rows save writes; blocked by the guardrail the result is quarantined.
Store(k, r, q) ==
  /\ result' = [result EXCEPT ![k] = r]
  /\ context' = [context EXCEPT ![k] = q]
  /\ execution' = [execution EXCEPT ![k] = r]

\* A bug: finish looks neither at the turn nor at the execution.
SavableLate(k) == result[k] = "none"

Savable(k) == running /\ result[k] = "none" /\ execution[k] \in Open

\* The guardrail has seen the result, or there was nothing to see, and it is saved.
Save(c) ==
  LET k == KeyOf[c] IN
  /\ at[c] \in {"inspect", "save"} /\ Savable(k)
  /\ \E q \in (IF at[c] = "inspect" THEN {"active", "blocked"} ELSE {"active"}) :
       /\ Store(k, hand[c], q)
       /\ \/ Return(c, Told(hand[c], q))
          \/ Return(c, "raised")  \* the commit is not acknowledged
  /\ UNCHANGED <<turnVars, input, attempts, hand, tries, claimed, effects>>

SaveRefused(c) ==
  /\ at[c] \in {"inspect", "save"} /\ ~Savable(KeyOf[c])
  /\ IF running /\ result[KeyOf[c]] # "none" THEN ReturnStored(c) ELSE Return(c, "turn ended")
  /\ UNCHANGED <<turnVars, rowVars, hand, tries, claimed, effects>>

\* The budget is used up, the invocation is cancelled, or its process dies.
Raise(c) ==
  /\ at[c] # "done"
  /\ \E n \in 0..1 : /\ n = 1 => at[c] = "execute"
                     /\ effects' = [effects EXCEPT ![c] = @ + n]
  /\ Return(c, "raised")
  /\ UNCHANGED <<turnVars, rowVars, hand, tries, claimed>>

-----------------------------------------------------------------------------
(* The turn.                                                               *)
TimeUp ==
  /\ ~timeUp /\ timeUp' = TRUE
  /\ UNCHANGED <<running, rowVars, callVars>>

\* A bug: the end of the turn cancels every execution.
CancelledAll(e) == IF e = "none" THEN e ELSE "cancelled"

Cancelled(e) == IF e \in Open THEN "cancelled" ELSE e

\* The turn is finished or recovered, and its open executions are cancelled.
EndTurn ==
  /\ running /\ running' = FALSE
  /\ execution' = [k \in Keys |-> Cancelled(execution[k])]
  /\ UNCHANGED <<timeUp, input, attempts, result, context, callVars>>

\* A later turn of the session quarantines a result it was given.
QuarantineLater(k) ==
  /\ ~running /\ result[k] # "none" /\ context[k] = "active"
  /\ context' = [context EXCEPT ![k] = "later"]
  /\ UNCHANGED <<turnVars, input, execution, attempts, result, callVars>>

Invoke(c) ==
  \/ Start(c) \/ StartEnded(c) \/ PrepareNew(c) \/ PrepareKnown(c)
  \/ Claim(c) \/ Lookup(c) \/ Authorize(c) \/ Attempt(c)
  \/ Succeed(c) \/ Transient(c) \/ GiveUp(c)
  \/ Save(c) \/ SaveRefused(c) \/ Raise(c)

Next == (\E c \in Callers : Invoke(c)) \/ TimeUp \/ EndTurn
        \/ \E k \in Keys : QuarantineLater(k)

Spec == Init /\ [][Next]_vars

-----------------------------------------------------------------------------
(***************************************************************************)
(* Properties.                                                             *)
(***************************************************************************)
\* Every variable has its type (executor.py and agent_tool_executions).
TypeOK ==
  /\ running \in BOOLEAN /\ timeUp \in BOOLEAN
  /\ input \in [Keys -> Inputs \cup {NoInput}]
  /\ execution \in [Keys -> {"none"} \cup Open \cup Final]
  /\ attempts \in [Keys -> Nat]
  /\ result \in [Keys -> {"none"} \cup Final]
  /\ context \in [Keys -> Contexts]
  /\ at \in [Callers -> Places]
  /\ hand \in [Callers -> {"none"} \cup Final]
  /\ tries \in [Callers -> Nat]
  /\ claimed \in [Callers -> BOOLEAN]
  /\ effects \in [Callers -> Nat]
  /\ answer \in [Callers -> Answers]

\* A tool call is carried out at most once, by one invocation, however many
\* carry its key and whatever fails: retries follow failures without effect only.
CarriedOutOnce ==
  /\ \A c \in Callers : effects[c] <= 1
  /\ \A c, d \in Callers :
       KeyOf[c] = KeyOf[d] /\ effects[c] > 0 /\ effects[d] > 0 => c = d

\* An answer is the stored result of the very call that was invoked, be it
\* fresh, replayed or looked up; no other input under its key is told of it.
AnswersAreStored ==
  \A c \in Callers :
    /\ answer[c] \in {"data", "notice", "failure"} =>
         /\ input[KeyOf[c]] = InputOf[c]
         /\ result[KeyOf[c]] # "none"
    /\ answer[c] = "data" => result[KeyOf[c]] = "completed"
    /\ answer[c] = "notice" => context[KeyOf[c]] = "blocked"
    /\ answer[c] = "failure" => result[KeyOf[c]] # "completed"

\* Result and execution agree: a completed, failed or blocked execution has its
\* result, a result its execution's status, and an ended turn nothing open.
ResultsMatchExecutions ==
  \A k \in Keys :
    /\ execution[k] \in {"completed", "failed", "blocked"} => result[k] = execution[k]
    /\ result[k] # "none" => execution[k] = result[k]
    /\ ~running => execution[k] \notin Open

\* No late invocation changes anything of an ended turn or of a stored result,
\* a quarantine is for good, and data of a quarantined result is given to nobody.
EndedIsFinal ==
  [][ /\ ~running => UNCHANGED <<running, input, execution, attempts, result>>
      /\ \A k \in Keys :
           /\ result[k] # "none" => UNCHANGED <<result[k], attempts[k]>>
           /\ context[k] # "active" => context'[k] = context[k]
      /\ \A c \in Callers :
           context[KeyOf[c]] # "active" /\ answer'[c] = "data" => answer[c] = "data" ]_vars

-----------------------------------------------------------------------------
(***************************************************************************)
(* Refinement: claims, attempts and saves implement the contract.          *)
(***************************************************************************)
Outcome(k) ==
  IF result[k] = "cancelled" THEN "not done"
  ELSE IF result[k] # "none" THEN result[k]
  ELSE IF execution[k] \in Open THEN "open" ELSE execution[k]

\* Every time a call was carried out, and by which invocation.
Carried(k) == UNION {{c} \X (1 .. effects[c]) : c \in {d \in Callers : KeyOf[d] = k}}

outcomes == [k \in Keys |-> Outcome(k)]
carriedOut == [k \in Keys |-> Cardinality(Carried(k))]

Contract == INSTANCE ToolContract WITH
  open <- running, accepted <- input, outcome <- outcomes, carried <- carriedOut,
  hidden <- context, told <- answer

\* Every step of an invocation is a step of the contract or changes nothing it sees:
\* whatever overlaps, is retried or cut off (executor.py:160-246), each answer is
\* what is so at one moment, and a result says whether the call was carried out.
ImplementsToolContract == Contract!Spec

\* A completed call was carried out, and one whose result says that the turn ended
\* was not and never will be: such a result is given only before an attempt, and
\* attempts follow failures without effect (executor.py:322-352).
ResultsTellEffects ==
  \A k \in Keys :
    /\ result[k] = "completed" => Cardinality(Carried(k)) = 1
    /\ result[k] = "cancelled" => Cardinality(Carried(k)) = 0
=============================================================================
