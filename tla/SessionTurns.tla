---------------------------- MODULE SessionTurns ----------------------------
(***************************************************************************)
(* What the turns of one parent session promise, without the requests that *)
(* run them: turns are numbered in the order in which they are opened, at  *)
(* most one chat turn is open, a turn ends once, and a question is         *)
(* answered by at most one turn that completes.  API turns (approvals and  *)
(* their recovery) are numbered with the others and open and end beside    *)
(* them.  AgentTurns implements this module.                               *)
(***************************************************************************)
EXTENDS Naturals, FiniteSets

CONSTANT MaxTurns           \* bound: turns of the session
ASSUME MaxTurnsAssumption == MaxTurns \in Nat

VARIABLES
  kind,        \* kind[t]: a chat turn, an API turn, or none yet
  status,      \* agent_turns.status; "interrupted" is failed with TURN_INTERRUPTED
  answers,     \* the turn whose questions the input of t answers
  asked        \* t completed with questions for the user

turnVars == <<kind, status, answers, asked>>

Turns == 1 .. MaxTurns
NoTurn == 0
Ended == {"completed", "failed", "blocked", "interrupted"}

TurnInit ==
  /\ kind = [t \in Turns |-> "none"]
  /\ status = [t \in Turns |-> "none"]
  /\ answers = [t \in Turns |-> NoTurn]
  /\ asked = [t \in Turns |-> FALSE]

OpenChats == {t \in Turns : kind[t] = "chat" /\ status[t] = "running"}
Answered(q) == \E t \in Turns : answers[t] = q /\ status[t] = "completed"
MayAnswer(q) == q # NoTurn => asked[q] /\ ~Answered(q)

\* t is the next number of the session.
IsNext(t) == kind[t] = "none" /\ \A s \in 1 .. t - 1 : kind[s] # "none"

Interrupted(R) == [t \in Turns |-> IF t \in R THEN "interrupted" ELSE status[t]]

\* The chat turns that were left open are interrupted with the opening of t.
OpenChat(t, q) ==
  /\ IsNext(t) /\ MayAnswer(q)
  /\ kind' = [kind EXCEPT ![t] = "chat"]
  /\ status' = [Interrupted(OpenChats) EXCEPT ![t] = "running"]
  /\ answers' = [answers EXCEPT ![t] = q]
  /\ UNCHANGED asked

OpenApi(t) ==
  /\ IsNext(t)
  /\ kind' = [kind EXCEPT ![t] = "api"]
  /\ status' = [status EXCEPT ![t] = "running"]
  /\ UNCHANGED <<answers, asked>>

\* t ends by itself, completed with questions if q holds.
EndChat(t, s, q) ==
  /\ t \in OpenChats /\ (q => s = "completed")
  /\ status' = [status EXCEPT ![t] = s]
  /\ asked' = [asked EXCEPT ![t] = q]
  /\ UNCHANGED <<kind, answers>>

EndApi(t) ==
  /\ kind[t] = "api" /\ status[t] = "running"
  /\ status' = [status EXCEPT ![t] = "completed"]
  /\ UNCHANGED <<kind, answers, asked>>

Interrupt ==
  /\ \E R \in SUBSET OpenChats : status' = Interrupted(R)
  /\ UNCHANGED <<kind, answers, asked>>

TurnNext ==
  \/ \E t \in Turns : OpenApi(t) \/ EndApi(t)
  \/ \E t \in Turns, s \in Ended \ {"interrupted"}, q \in BOOLEAN : EndChat(t, s, q)
  \/ \E t \in Turns, q \in Turns \cup {NoTurn} : OpenChat(t, q)
  \/ Interrupt

TurnSpec == TurnInit /\ [][TurnNext]_turnVars
=============================================================================
