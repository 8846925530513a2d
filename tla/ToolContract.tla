---------------------------- MODULE ToolContract ----------------------------
(***************************************************************************)
(* What ToolExecutor promises of the tool calls of a turn, without claims, *)
(* attempts, retries and processes: a call is accepted once, carried out   *)
(* at most once and not after its result, its result says whether it was,  *)
(* and everybody who invokes it is told at one moment what is so then.     *)
(*                                                                         *)
(* Source: ToolExecutor.invoke (agent_runtime/executor.py) and the rows of *)
(* ToolExecutionRepository.  ToolExecutions implements this module.        *)
(***************************************************************************)
EXTENDS Naturals

CONSTANTS Callers, Keys, KeyOf, InputOf, NoInput

VARIABLES
  open,        \* the turn runs
  accepted,    \* the input a key was first invoked with
  outcome,     \* of a call: a result, "open" without one, "cancelled" with the turn
  carried,     \* how often it was carried out
  hidden,      \* whether its result is quarantined, and by whom
  told         \* what an invocation was told

cVars == <<open, accepted, outcome, carried, hidden, told>>

Results == {"completed", "failed", "blocked", "not done"}

Init ==
  /\ open = TRUE
  /\ accepted = [k \in Keys |-> NoInput]
  /\ outcome = [k \in Keys |-> "none"]
  /\ carried = [k \in Keys |-> 0]
  /\ hidden = [k \in Keys |-> "active"]
  /\ told = [c \in Callers |-> "none"]

Tell(c, a) == told[c] = "none" /\ told' = [told EXCEPT ![c] = a]

\* What the result of a call says to those who may see it.
Saying(r, h) ==
  IF h = "blocked" THEN "notice" ELSE IF r = "completed" THEN "data" ELSE "failure"

Accept(c) ==
  /\ open /\ accepted[KeyOf[c]] = NoInput
  /\ accepted' = [accepted EXCEPT ![KeyOf[c]] = InputOf[c]]
  /\ outcome' = [outcome EXCEPT ![KeyOf[c]] = "open"]
  /\ UNCHANGED <<open, carried, hidden, told>>

\* It may be under way still when the turn ends, but not when there is a result.
CarryOut(k) ==
  /\ outcome[k] \in {"open", "cancelled"} /\ carried[k] = 0
  /\ carried' = [carried EXCEPT ![k] = 1]
  /\ \/ told' = told
     \/ \E c \in Callers : KeyOf[c] = k /\ Tell(c, "raised")
  /\ UNCHANGED <<open, accepted, outcome, hidden>>

\* A completed call was carried out, one that is not done was not; of one that
\* failed or was blocked nobody knows.  Who settles it is told, or cut off.
Settle(c, r, h) ==
  LET k == KeyOf[c] IN
  /\ open /\ outcome[k] = "open" /\ accepted[k] = InputOf[c]
  /\ r = "completed" => carried[k] = 1
  /\ r = "not done" => carried[k] = 0
  /\ h = "blocked" => r = "completed"
  /\ outcome' = [outcome EXCEPT ![k] = r]
  /\ hidden' = [hidden EXCEPT ![k] = h]
  /\ Tell(c, Saying(r, h)) \/ Tell(c, "raised")
  /\ UNCHANGED <<open, accepted, carried>>

\* Everybody else is told what is there, which changes nothing.
Answer(c) ==
  LET k == KeyOf[c] IN
  /\ \/ /\ accepted[k] = InputOf[c] /\ outcome[k] \in Results /\ hidden[k] # "later"
        /\ Tell(c, Saying(outcome[k], hidden[k]))
     \/ accepted[k] = InputOf[c] /\ outcome[k] \in {"open", "cancelled"} /\ Tell(c, "in progress")
     \/ accepted[k] \notin {NoInput, InputOf[c]} /\ Tell(c, "conflict")
     \/ ~open /\ Tell(c, "turn ended")
     \/ Tell(c, "raised")
  /\ UNCHANGED <<open, accepted, outcome, carried, hidden>>

End ==
  /\ open /\ open' = FALSE
  /\ outcome' = [k \in Keys |-> IF outcome[k] = "open" THEN "cancelled" ELSE outcome[k]]
  /\ UNCHANGED <<accepted, carried, hidden, told>>

\* A later turn takes a result out of the context for good.
Hide(k) ==
  /\ ~open /\ outcome[k] \in Results /\ hidden[k] = "active"
  /\ hidden' = [hidden EXCEPT ![k] = "later"]
  /\ UNCHANGED <<open, accepted, outcome, carried, told>>

Next ==
  \/ \E c \in Callers :
       \/ Accept(c) \/ Answer(c)
       \/ \E r \in Results, h \in {"active", "blocked"} : Settle(c, r, h)
  \/ \E k \in Keys : CarryOut(k) \/ Hide(k)
  \/ End

Spec == Init /\ [][Next]_cVars
=============================================================================
