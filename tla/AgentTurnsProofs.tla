-------------------------- MODULE AgentTurnsProofs --------------------------
(***************************************************************************)
(* Proofs about AgentTurns for any requests and any number of turns: turns *)
(* end whole and once, the client is told what is stored, and what readers *)
(* see of the session is what SessionTurns promises.                       *)
(***************************************************************************)
EXTENDS AgentTurns, FiniteSetTheorems, TLAPS

Beginning == {"active", "answer", "create"}
Working == {"run", "finish", "failing", "view"}
Steps == {"idle"} \cup Beginning \cup Working
Executions == OpenExecution \cup {"none", "completed", "failed", "cancelled"}

TurnTypes ==
  /\ kind \in [Turns -> {"none", "chat", "api"}]
  /\ status \in [Turns -> {"none", "running"} \cup Ended]
  /\ stale \in [Turns -> BOOLEAN]
  /\ answers \in [Turns -> Turns \cup {NoTurn}]
  /\ reply \in [Turns -> BOOLEAN]
  /\ ask \in [Turns -> Executions]

LockTypes == holder \in Requests \cup {NoRequest} /\ recovering \in SUBSET Turns

RequestTypes ==
  /\ pc \in [Requests -> Steps]
  /\ turn \in [Requests -> Turns \cup {NoTurn}]
  /\ answering \in [Requests -> Turns \cup {NoTurn}]
  /\ result \in [Requests -> {"none", "reply", "ask", "failed", "blocked"}]

Types ==
  /\ TurnTypes /\ LockTypes /\ RequestTypes
  /\ told \in [Turns -> {"nothing", "none", "running"} \cup Ended]

\* A turn that ends, ends whole, and what was told of it is its end.
RowInv(t) ==
  /\ kind[t] = "none" <=> status[t] = "none"
  /\ kind[t] # "chat" => ask[t] = "none" /\ ~reply[t] /\ answers[t] = NoTurn
  /\ reply[t] => status[t] = "completed"
  /\ kind[t] = "chat" /\ status[t] = "completed" => (reply[t] # (ask[t] = "completed"))
  /\ status[t] \in Ended => ask[t] \notin OpenExecution
  /\ told[t] # "nothing" => told[t] \in Ended /\ told[t] = status[t]
  /\ answers[t] # NoTurn => answers[t] < t

\* The turns of the session are those up to a number.
NumberInv == \E n \in 0 .. MaxTurns : \A t \in Turns : kind[t] # "none" <=> t <= n

\* The session row is held by the request that opens a turn; what it recovers are
\* open chat turns, all of them once it has seen that no other is active; and the
\* question it answers stays open until it commits.
LockInv ==
  /\ \A r \in Requests : pc[r] \in Beginning <=> holder = r
  /\ recovering # {} => holder # NoRequest
  /\ \A t \in recovering : kind[t] = "chat" /\ status[t] = "running"

OpeningInv(r) ==
  /\ pc[r] \in {"answer", "create"} => ActiveChats = {}
  /\ pc[r] = "create" /\ answering[r] # NoTurn => Asked(answering[r]) /\ ~Answered(answering[r])
  /\ pc[r] \in Beginning => NextTurn \in Turns

\* An execution has a turn of its own, and while the turn is open its result is
\* what the turn shows.
WorkInv(r) ==
  /\ pc[r] \in Working => turn[r] \in Turns /\ kind[turn[r]] = "chat"
  /\ pc[r] = "view" => status[turn[r]] \in Ended
  /\ pc[r] = "failing" => result[r] = "failed"
  /\ pc[r] = "finish" => result[r] # "none"
  /\ pc[r] = "finish" /\ status[turn[r]] = "running" =>
       /\ result[r] = "reply" => ask[turn[r]] \in {"none", "failed"}
       /\ result[r] = "ask" => ask[turn[r]] = "completed"

OwnTurn ==
  \A r, s \in Requests : pc[r] \in Working /\ pc[s] \in Working /\ turn[r] = turn[s] => r = s

IInv ==
  /\ Types /\ NumberInv /\ LockInv /\ OwnTurn
  /\ \A t \in Turns : RowInv(t)
  /\ \A r \in Requests : OpeningInv(r) /\ WorkInv(r)

LEMMA Initially == Init => IInv
<1>. SUFFICES ASSUME Init PROVE IInv
  OBVIOUS
<1>1. Types
  BY DEF Init, Types, TurnTypes, LockTypes, RequestTypes, Ended, Executions, OpenExecution, Steps, Turns, NoTurn
<1>2. NumberInv
  <2>1. 0 \in 0 .. MaxTurns /\ \A t \in Turns : kind[t] # "none" <=> t <= 0
    BY MaxTurnsAssumption DEF Init, Turns
  <2> QED
    BY <2>1 DEF NumberInv
<1>3. LockInv /\ OwnTurn
  BY NoRequestAssumption DEF Init, LockInv, OwnTurn, Beginning, Working
<1>4. \A t \in Turns : RowInv(t)
  BY DEF Init, RowInv, Ended, OpenExecution, NoTurn
<1>5. \A r \in Requests : OpeningInv(r) /\ WorkInv(r)
  BY DEF Init, OpeningInv, WorkInv, Beginning, Working
<1> QED
  BY <1>1, <1>2, <1>3, <1>4, <1>5 DEF IInv

\* The next number follows the turns that are there.
LEMMA Numbers ==
  ASSUME NumberInv
  PROVE  \E n \in 0 .. MaxTurns : /\ \A t \in Turns : kind[t] # "none" <=> t <= n
                                  /\ NextTurn = n + 1
<1>1. PICK n \in 0 .. MaxTurns : \A t \in Turns : kind[t] # "none" <=> t <= n
  BY DEF NumberInv
<1>2. {t \in Turns : kind[t] # "none"} = 1 .. n
  BY <1>1, MaxTurnsAssumption DEF Turns
<1>3. Cardinality(1 .. n) = n
  BY <1>1, MaxTurnsAssumption, FS_Interval
<1> QED
  BY <1>1, <1>2, <1>3 DEF NextTurn

-----------------------------------------------------------------------------
(***************************************************************************)
(* What a step does to a turn, and to the requests that do not move.       *)
(***************************************************************************)
Same(t) ==
  /\ kind'[t] = kind[t] /\ status'[t] = status[t] /\ answers'[t] = answers[t]
  /\ reply'[t] = reply[t] /\ ask'[t] = ask[t]

Asks(t) ==
  /\ kind[t] = "chat" /\ status[t] = "running"
  /\ kind'[t] = kind[t] /\ status'[t] = status[t] /\ answers'[t] = answers[t]
  /\ reply'[t] = reply[t]

CancelledAsk(t) == IF ask[t] \in OpenExecution THEN "cancelled" ELSE ask[t]

Ends(t) ==
  /\ status[t] = "running" /\ status'[t] \in Ended
  /\ kind'[t] = kind[t] /\ answers'[t] = answers[t] /\ ask'[t] = CancelledAsk(t)
  /\ reply'[t] => kind[t] = "chat" /\ status'[t] = "completed"
  /\ kind[t] = "chat" /\ status'[t] = "completed" => (reply'[t] # (ask[t] = "completed"))

Begins(t) ==
  /\ kind[t] = "none" /\ kind'[t] \in {"chat", "api"} /\ status'[t] = "running"
  /\ reply'[t] = reply[t] /\ ask'[t] = ask[t]
  /\ answers'[t] # NoTurn => kind'[t] = "chat" /\ answers'[t] < t

Changes(t) == Same(t) \/ Asks(t) \/ Ends(t) \/ Begins(t)
Tells(t) == told'[t] = told[t] \/ (Same(t) /\ told'[t] = status[t] /\ status[t] \in Ended)

Unmoved(r) ==
  /\ pc'[r] = pc[r] /\ turn'[r] = turn[r] /\ answering'[r] = answering[r]
  /\ result'[r] = result[r]

LEMMA RowKeeps ==
  ASSUME Types, Types', NEW t \in Turns, RowInv(t), Changes(t), Tells(t)
  PROVE  RowInv(t)'
<1>. USE DEF RowInv, Ended, OpenExecution, NoTurn, TurnTypes
<1>1. told[t] # "nothing" => status[t] \in Ended
  OBVIOUS
<1>2. CASE Same(t)
  BY <1>2 DEF Same, Tells
<1>3. CASE Asks(t) /\ told'[t] = told[t]
  BY <1>3 DEF Asks
<1>4. CASE Ends(t) /\ told'[t] = told[t]
  <2>1. ask'[t] = CancelledAsk(t) /\ ask'[t] \notin OpenExecution
    BY <1>4 DEF Ends, CancelledAsk
  <2>2. kind[t] = "chat" /\ status'[t] = "completed" => (reply'[t] # (ask'[t] = "completed"))
    BY <1>4, <2>1 DEF Ends, CancelledAsk
  <2>3. kind[t] # "chat" => ask'[t] = "none" /\ ~reply'[t] /\ answers'[t] = NoTurn
    BY <1>4, <2>1 DEF Ends, CancelledAsk
  <2> QED
    BY <1>4, <2>1, <2>2, <2>3 DEF Ends
<1>5. CASE Begins(t) /\ told'[t] = told[t]
  BY <1>5 DEF Begins
<1> QED
  BY <1>2, <1>3, <1>4, <1>5 DEF Changes, Tells

\* An execution that does not move, and whose turn only ends, if anything.
LEMMA WorkKeeps ==
  ASSUME NEW r \in Requests, WorkInv(r), Unmoved(r),
         pc[r] \in Working => Same(turn[r]) \/ Ends(turn[r])
  PROVE  WorkInv(r)'
<1>1. CASE pc[r] \in Working /\ Same(turn[r])
  BY <1>1 DEF WorkInv, Unmoved, Same
<1>2. CASE pc[r] \in Working /\ Ends(turn[r])
  BY <1>2 DEF WorkInv, Unmoved, Ends, Ended
<1>3. CASE pc[r] \notin Working
  BY <1>3 DEF WorkInv, Unmoved, Working
<1> QED
  BY <1>1, <1>2, <1>3

\* A request that opens a turn finds what it has read, whatever the others do.
LEMMA OpeningKeeps ==
  ASSUME IInv, NEW r \in Requests, Unmoved(r), holder = r, recovering' = recovering,
         kind' = kind, \A t \in Turns : Changes(t), LockInv'
  PROVE  OpeningInv(r)'
<1>1. OpeningInv(r) /\ answering[r] \in Turns \cup {NoTurn}
  BY DEF IInv, Types, RequestTypes
<1>2. ASSUME NEW t \in Turns, kind[t] = "chat", status'[t] = "running"
      PROVE  status[t] = "running"
  BY <1>2 DEF Changes, Same, Asks, Ends, Begins, Ended
<1>3. ActiveChats = {} => ActiveChats' = {}
  BY <1>2 DEF ActiveChats
<1>4. ASSUME NEW t \in Turns, status[t] = "completed"
      PROVE  status'[t] = status[t] /\ ask'[t] = ask[t]
  <2>1. kind[t] # "none"
    BY <1>4 DEF IInv, RowInv
  <2> QED
    BY <1>4, <2>1 DEF Changes, Same, Asks, Ends, Begins
<1>5. ASSUME NEW q \in Turns, ActiveChats = {}, q # NoTurn,
             NEW t \in Turns, status'[t] = "completed", answers'[t] = q
      PROVE  status[t] = "completed" /\ answers[t] = q
  <2>1. CASE Ends(t)
    <3>1. answers[t] = q /\ kind[t] = "chat"
      BY <1>5, <2>1 DEF Ends, IInv, RowInv
    <3>2. t \in recovering
      BY <1>5, <2>1, <3>1 DEF ActiveChats, Ends
    <3> QED
      BY <1>5, <3>2 DEF LockInv
  <2>2. CASE ~Ends(t)
    BY <1>5, <2>2 DEF Changes, Same, Asks, Begins
  <2> QED
    BY <2>1, <2>2
<1>6. NextTurn' = NextTurn
  BY DEF NextTurn
<1>7. CASE pc[r] = "create" /\ answering[r] # NoTurn
  <2>1. ActiveChats = {} /\ Asked(answering[r]) /\ ~Answered(answering[r]) /\ answering[r] \in Turns
    BY <1>1, <1>7 DEF OpeningInv
  <2>2. Asked(answering[r])'
    BY <1>4, <2>1 DEF Asked, Unmoved
  <2>3. ~Answered(answering[r])'
    BY <1>5, <1>7, <2>1 DEF Answered, Unmoved
  <2> QED
    BY <1>1, <1>3, <1>6, <2>2, <2>3 DEF OpeningInv, Unmoved
<1>8. CASE ~(pc[r] = "create" /\ answering[r] # NoTurn)
  BY <1>1, <1>3, <1>6, <1>8 DEF OpeningInv, Unmoved
<1> QED
  BY <1>7, <1>8

\* A step of w that opens no turn.
LEMMA StepKeepsAll ==
  ASSUME IInv, NEW w \in Requests \cup {NoRequest}, Types', LockInv', kind' = kind,
         \A t \in Turns : Changes(t) /\ Tells(t),
         \A t \in Turns : Same(t) \/ Ends(t) \/ (w \in Requests /\ pc[w] \in Working /\ turn[w] = t),
         \A r \in Requests \ {w} : Unmoved(r),
         holder # w => recovering' = recovering,
         w \in Requests => /\ OpeningInv(w)' /\ WorkInv(w)'
                           /\ pc'[w] \in Working => pc[w] \in Working /\ turn'[w] = turn[w]
  PROVE  IInv'
<1>1. NumberInv'
  BY DEF IInv, NumberInv
<1>2. OwnTurn'
  BY DEF IInv, OwnTurn, Unmoved
<1>3. \A t \in Turns : RowInv(t)'
  BY RowKeeps DEF IInv
<1>4. ASSUME NEW r \in Requests \ {w} PROVE OpeningInv(r)' /\ WorkInv(r)'
  <2>1. pc[r] \in Working => turn[r] \in Turns /\ (w \in Requests /\ pc[w] \in Working => turn[w] # turn[r])
    BY DEF IInv, OwnTurn, WorkInv
  <2>2. pc[r] \in Working => Same(turn[r]) \/ Ends(turn[r])
    BY <2>1
  <2>3. WorkInv(r)'
    BY <2>2, WorkKeeps DEF IInv
  <2>4. CASE holder = r
    BY <2>3, <2>4, OpeningKeeps
  <2>5. CASE holder # r
    <3>1. pc[r] \notin Beginning
      BY <2>5 DEF IInv, LockInv
    <3> QED
      BY <3>1, <2>3 DEF OpeningInv, Unmoved, Beginning
  <2> QED
    BY <2>3, <2>4, <2>5
<1> QED
  BY <1>1, <1>2, <1>3, <1>4 DEF IInv

-----------------------------------------------------------------------------
(***************************************************************************)
(* Steps that open no turn.                                                *)
(***************************************************************************)
LEMMA LeaveMoves ==
  ASSUME RequestTypes, NEW w \in Requests, Leave(w)
  PROVE  RequestTypes' /\ pc'[w] = "idle" /\ \A r \in Requests \ {w} : Unmoved(r)
BY DEF RequestTypes, Leave, Goto, Unmoved, Steps

LEMMA NothingChanges ==
  ASSUME Types, UNCHANGED turnVars
  PROVE  TurnTypes' /\ kind' = kind /\ \A t \in Turns : Same(t)
BY DEF Types, TurnTypes, turnVars, Same

LEMMA LeaveKeeps ==
  ASSUME IInv, NEW w \in Requests, Leave(w), UNCHANGED turnVars,
         \A t \in Turns : told'[t] = told[t] \/ (told'[t] = status[t] /\ status[t] \in Ended),
         told' \in [Turns -> {"nothing", "none", "running"} \cup Ended],
         IF holder = w THEN Unlock ELSE UNCHANGED lockVars
  PROVE  IInv'
<1>1. RequestTypes' /\ pc'[w] = "idle" /\ \A r \in Requests \ {w} : Unmoved(r)
  BY LeaveMoves DEF IInv, Types
<1>2. TurnTypes' /\ kind' = kind /\ status' = status /\ \A t \in Turns : Same(t) /\ Tells(t)
  BY NothingChanges DEF IInv, Tells, turnVars
<1>3. LockTypes' /\ (holder # w => recovering' = recovering)
  BY DEF Unlock, lockVars, IInv, Types, LockTypes
<1>4. LockInv'
  <2>1. CASE holder = w
    BY <1>1, <2>1, NoRequestAssumption DEF Unlock, IInv, LockInv, Unmoved, Beginning
  <2>2. CASE holder # w
    BY <1>1, <1>2, <2>2 DEF lockVars, IInv, LockInv, Unmoved, Beginning
  <2> QED
    BY <2>1, <2>2
<1>5. OpeningInv(w)' /\ WorkInv(w)' /\ pc'[w] \notin Working
  BY <1>1 DEF OpeningInv, WorkInv, Beginning, Working
<1>6. Types'
  BY <1>1, <1>2, <1>3 DEF Types
<1> QED
  BY <1>1, <1>2, <1>3, <1>4, <1>5, <1>6, StepKeepsAll DEF Changes

LEMMA LeavingKeeps ==
  ASSUME IInv, NEW w \in Requests,
         TurnInProgress(w) \/ RefuseAnswer(w) \/ View(w) \/ Crash(w)
  PROVE  IInv'
<1>1. \A t \in Turns : told[t] \in {"nothing", "none", "running"} \cup Ended
  BY DEF IInv, Types
<1>2. CASE TurnInProgress(w) \/ RefuseAnswer(w)
  <2>1. holder = w
    BY <1>2 DEF TurnInProgress, RefuseAnswer, IInv, LockInv, Beginning
  <2> QED
    BY <1>2, <2>1, LeaveKeeps DEF TurnInProgress, RefuseAnswer, IInv, Types
<1>3. CASE Crash(w)
  BY <1>3, LeaveKeeps DEF Crash, IInv, Types
<1>4. CASE View(w)
  <2>1. holder # w
    BY <1>4 DEF View, IInv, LockInv, Beginning
  <2>2. turn[w] \in Turns /\ status[turn[w]] \in Ended
    BY <1>4 DEF View, IInv, WorkInv, Working
  <2>3. /\ told' = [told EXCEPT ![turn[w]] = status[turn[w]]]
        /\ told \in [Turns -> {"nothing", "none", "running"} \cup Ended]
    BY <1>4 DEF View, IInv, Types
  <2>4. /\ told' \in [Turns -> {"nothing", "none", "running"} \cup Ended]
        /\ \A t \in Turns : told'[t] = told[t] \/ (told'[t] = status[t] /\ status[t] \in Ended)
    BY <2>2, <2>3
  <2> QED
    BY <1>4, <2>1, <2>4, LeaveKeeps DEF View
<1> QED
  BY <1>2, <1>3, <1>4

\* A step of the transaction that opens a turn, before it commits.
LEMMA BeginStepKeeps ==
  ASSUME IInv, NEW w \in Requests, NEW s \in Beginning, pc' = [pc EXCEPT ![w] = s],
         UNCHANGED <<turnVars, turn, result, told>>,
         answering' \in [Requests -> Turns \cup {NoTurn}],
         \A r \in Requests \ {w} : answering'[r] = answering[r],
         holder \in {w, NoRequest}, holder' = w,
         recovering' \in SUBSET Turns,
         \A t \in recovering' : kind[t] = "chat" /\ status[t] = "running",
         OpeningInv(w)'
  PROVE  IInv'
<1>1. TurnTypes' /\ kind' = kind /\ status' = status /\ \A t \in Turns : Same(t) /\ Tells(t)
  BY NothingChanges DEF IInv, Tells, turnVars
<1>2. /\ pc'[w] = s /\ s \in Steps
      /\ \A r \in Requests \ {w} : Unmoved(r)
  BY DEF Steps, Unmoved, IInv, Types, RequestTypes
<1>3. RequestTypes' /\ LockTypes'
  BY <1>2 DEF IInv, Types, RequestTypes, LockTypes
<1>4. LockInv'
  BY <1>1, <1>2, NoRequestAssumption DEF IInv, LockInv, Unmoved
<1>5. WorkInv(w)' /\ pc'[w] \notin Working
  BY <1>2 DEF WorkInv, Beginning, Working
<1>6. Types'
  BY <1>1, <1>3 DEF IInv, Types
<1>7. \A r \in Requests \ {w} : holder # r
  BY NoRequestAssumption
<1>9. NumberInv' /\ OwnTurn'
  BY <1>1, <1>2, <1>5 DEF IInv, NumberInv, OwnTurn, Unmoved
<1>10. \A t \in Turns : RowInv(t)'
  BY <1>1, <1>6, RowKeeps DEF IInv, Changes
<1>11. ASSUME NEW r \in Requests \ {w} PROVE OpeningInv(r)' /\ WorkInv(r)'
  <2>1. pc[r] \notin Beginning
    BY <1>7 DEF IInv, LockInv
  <2>2. OpeningInv(r)'
    BY <1>2, <2>1 DEF OpeningInv, Unmoved, Beginning
  <2>3. pc[r] \in Working => turn[r] \in Turns
    BY DEF IInv, WorkInv
  <2> QED
    BY <1>1, <1>2, <2>2, <2>3, WorkKeeps DEF IInv
<1> QED
  BY <1>5, <1>6, <1>4, <1>9, <1>10, <1>11 DEF IInv

LEMMA BeginningKeeps ==
  ASSUME IInv, NEW w \in Requests, LockSession(w) \/ NoTurnInProgress(w) \/ AcceptAnswer(w)
  PROVE  IInv'
<1>1. CASE LockSession(w)
  <2>1. /\ holder = NoRequest /\ NextTurn \in Turns /\ holder' = w
        /\ recovering' = StaleChats /\ pc' = [pc EXCEPT ![w] = "active"]
        /\ UNCHANGED <<turnVars, turn, result, told>>
    BY <1>1 DEF LockSession, Goto
  <2>2. PICK q \in Turns \cup {NoTurn} : answering' = [answering EXCEPT ![w] = q]
    BY <1>1 DEF LockSession
  <2>3. /\ answering' \in [Requests -> Turns \cup {NoTurn}]
        /\ \A r \in Requests \ {w} : answering'[r] = answering[r]
    BY <2>2 DEF IInv, Types, RequestTypes
  <2>4. /\ recovering' \in SUBSET Turns
        /\ \A t \in recovering' : kind[t] = "chat" /\ status[t] = "running"
    BY <2>1 DEF StaleChats
  <2>5. OpeningInv(w)'
    BY <2>1 DEF OpeningInv, IInv, Types, RequestTypes, NextTurn, turnVars
  <2> QED
    BY <2>1, <2>3, <2>4, <2>5, BeginStepKeeps DEF Beginning
<1>2. CASE NoTurnInProgress(w) \/ AcceptAnswer(w)
  <2>1. /\ holder = w /\ OpeningInv(w)
        /\ UNCHANGED <<turnVars, lockVars, turn, answering, result, told>>
    BY <1>2 DEF NoTurnInProgress, AcceptAnswer, IInv, LockInv, Beginning
  <2>2. PICK s \in {"answer", "create"} :
          /\ pc' = [pc EXCEPT ![w] = s]
          /\ ActiveChats = {}
          /\ s = "create" /\ answering[w] # NoTurn => Asked(answering[w]) /\ ~Answered(answering[w])
    <3>1. CASE NoTurnInProgress(w)
      BY <3>1 DEF NoTurnInProgress, Goto
    <3>2. CASE AcceptAnswer(w)
      BY <2>1, <3>2 DEF AcceptAnswer, Goto, OpeningInv
    <3> QED
      BY <1>2, <3>1, <3>2
  <2>3. /\ recovering' = recovering /\ recovering \in SUBSET Turns
        /\ \A t \in recovering : kind[t] = "chat" /\ status[t] = "running"
        /\ holder' = w /\ answering' = answering
        /\ answering \in [Requests -> Turns \cup {NoTurn}]
    BY <2>1 DEF lockVars, IInv, LockInv, Types, LockTypes, RequestTypes
  <2>4. pc[w] \in Beginning
    BY <2>1 DEF IInv, LockInv
  <2>5. pc'[w] = s
    BY <2>2 DEF IInv, Types, RequestTypes
  <2>6. /\ ActiveChats' = ActiveChats /\ NextTurn' = NextTurn
        /\ Asked(answering[w])' = Asked(answering[w])
        /\ Answered(answering[w])' = Answered(answering[w])
    BY <2>1, <2>3 DEF ActiveChats, NextTurn, Asked, Answered, turnVars
  <2>7. OpeningInv(w)'
    BY <2>1, <2>2, <2>3, <2>4, <2>5, <2>6 DEF OpeningInv
  <2> QED
    BY <2>1, <2>2, <2>3, <2>7, BeginStepKeeps DEF Beginning
<1> QED
  BY <1>1, <1>2

\* A step of an execution on its own turn.
LEMMA WorkStepKeeps ==
  ASSUME IInv, NEW w \in Requests, pc[w] \in Working, NEW s \in Working,
         pc' = [pc EXCEPT ![w] = s],
         NEW x \in {"none", "reply", "ask", "failed", "blocked"}, result' = [result EXCEPT ![w] = x],
         UNCHANGED <<lockVars, turn, answering, told, kind>>, TurnTypes',
         \A t \in Turns \ {turn[w]} : Same(t),
         Changes(turn[w]), Tells(turn[w]),
         turn[w] \in recovering => ~Ends(turn[w]),
         s = "view" => status'[turn[w]] \in Ended,
         s = "failing" => x = "failed",
         s = "finish" => x # "none",
         s = "finish" /\ status'[turn[w]] = "running" =>
           /\ x = "reply" => ask'[turn[w]] \in {"none", "failed"}
           /\ x = "ask" => ask'[turn[w]] = "completed"
  PROVE  IInv'
<1>1. /\ pc'[w] = s /\ s \in Steps /\ result'[w] = x /\ turn'[w] = turn[w]
      /\ \A r \in Requests \ {w} : Unmoved(r)
  BY DEF Steps, Unmoved, IInv, Types, RequestTypes
<1>2. RequestTypes' /\ LockTypes'
  BY <1>1 DEF IInv, Types, RequestTypes, LockTypes, lockVars
<1>3. Types'
  BY <1>2 DEF IInv, Types
<1>4. turn[w] \in Turns /\ kind[turn[w]] = "chat" /\ holder # w /\ pc[w] \notin Beginning
      /\ s \notin Beginning
  BY DEF IInv, WorkInv, LockInv, Beginning, Working
<1>5. ASSUME NEW t \in recovering PROVE kind'[t] = "chat" /\ status'[t] = "running"
  <2>1. kind[t] = "chat" /\ status[t] = "running" /\ t \in Turns
    BY DEF IInv, LockInv, Types, LockTypes
  <2> QED
    BY <2>1 DEF Changes, Same, Asks, Begins
<1>6. LockInv'
  BY <1>1, <1>4, <1>5 DEF IInv, LockInv, Unmoved, lockVars
<1>7. OpeningInv(w)'
  BY <1>1, <1>4 DEF OpeningInv, Beginning
<1>8. WorkInv(w)'
  BY <1>1, <1>4 DEF WorkInv, Working
<1>9. \A t \in Turns : Changes(t) /\ Tells(t)
  BY DEF Changes, Tells
<1>10. recovering' = recovering /\ kind' = kind
  BY DEF lockVars
<1> QED
  BY <1>1, <1>3, <1>6, <1>7, <1>8, <1>9, <1>10, StepKeepsAll

LEMMA AskStepKeeps ==
  ASSUME IInv, NEW w \in Requests, PrepareAsk(w) \/ ClaimAsk(w) \/ SaveAsk(w) \/ AskFails(w)
  PROVE  IInv'
<1>0. PICK t \in Turns : t = turn[w]
  BY DEF PrepareAsk, ClaimAsk, SaveAsk, AskFails, IInv, WorkInv, Working
<1>1. /\ pc[w] = "run" /\ kind[t] = "chat" /\ status[t] = "running" /\ t \notin recovering
      /\ UNCHANGED <<kind, status, stale, answers, reply, lockVars, turn, answering, told>>
  BY <1>0 DEF PrepareAsk, ClaimAsk, SaveAsk, AskFails, SetAsk, Running, Free, IInv, WorkInv, Working
<1>2. PICK a \in Executions : ask' = [ask EXCEPT ![t] = a]
  BY <1>0 DEF PrepareAsk, ClaimAsk, SaveAsk, AskFails, SetAsk, Executions, OpenExecution
<1>3. TurnTypes' /\ (\A u \in Turns \ {t} : Same(u)) /\ Asks(t) /\ Tells(t) /\ ~Ends(t)
      /\ status'[t] = "running" /\ ask'[t] = a
  BY <1>1, <1>2 DEF IInv, Types, TurnTypes, Same, Asks, Tells, Ends, Ended
<1>4. CASE pc' = pc /\ result' = result
  <2>1. /\ pc' = [pc EXCEPT ![w] = "run"] /\ result' = [result EXCEPT ![w] = result[w]]
        /\ result[w] \in {"none", "reply", "ask", "failed", "blocked"}
    BY <1>1, <1>4 DEF IInv, Types, RequestTypes
  <2> QED
    BY <1>0, <1>1, <1>3, <2>1, WorkStepKeeps DEF Working, Changes
<1>5. CASE SaveAsk(w)
  <2>1. pc' = [pc EXCEPT ![w] = "finish"] /\ result' = [result EXCEPT ![w] = "ask"]
        /\ ask' = [ask EXCEPT ![t] = "completed"]
    BY <1>0, <1>5 DEF SaveAsk, SetAsk, Goto
  <2>2. ask'[t] = "completed"
    BY <2>1 DEF IInv, Types, TurnTypes
  <2> QED
    BY <1>0, <1>1, <1>3, <2>1, <2>2, WorkStepKeeps DEF Working, Changes
<1> QED
  BY <1>4, <1>5 DEF PrepareAsk, ClaimAsk, AskFails

LEMMA DecideKeeps ==
  ASSUME IInv, NEW w \in Requests,
         Reply(w) \/ Fail(w) \/ TurnTaken(w) \/ FailRunning(w)
  PROVE  IInv'
<1>0. PICK t \in Turns : t = turn[w]
  BY DEF Reply, Fail, Decide, TurnTaken, FailRunning, IInv, WorkInv, Working
<1>1. /\ pc[w] \in Working
      /\ UNCHANGED <<turnVars, lockVars, turn, answering, told>>
  BY DEF Reply, Fail, Decide, TurnTaken, FailRunning, Working
<1>2. /\ TurnTypes' /\ kind' = kind /\ status' = status /\ ask' = ask
      /\ \A u \in Turns : Same(u) /\ Tells(u)
  BY <1>1, NothingChanges DEF IInv, Tells, turnVars
<1>3. ~Ends(t)
  BY <1>2 DEF Ends, Ended
<1>4. CASE Reply(w)
  <2>1. /\ pc' = [pc EXCEPT ![w] = "finish"] /\ result' = [result EXCEPT ![w] = "reply"]
        /\ ask[t] \in {"none", "failed"}
    BY <1>0, <1>4 DEF Reply, Decide, Goto
  <2> QED
    BY <1>0, <1>1, <1>2, <1>3, <2>1, WorkStepKeeps DEF Working, Changes
<1>5. CASE Fail(w)
  <2>1. PICK x \in {"failed", "blocked"} :
          pc' = [pc EXCEPT ![w] = "finish"] /\ result' = [result EXCEPT ![w] = x]
    BY <1>5 DEF Fail, Decide, Goto
  <2> QED
    BY <1>0, <1>1, <1>2, <1>3, <2>1, WorkStepKeeps DEF Working, Changes
<1>6. CASE FailRunning(w)
  <2>1. pc' = [pc EXCEPT ![w] = "failing"] /\ result' = [result EXCEPT ![w] = "failed"]
    BY <1>6 DEF FailRunning, Goto
  <2> QED
    BY <1>0, <1>1, <1>2, <1>3, <2>1, WorkStepKeeps DEF Working, Changes
<1>7. CASE TurnTaken(w)
  <2>1. pc' = [pc EXCEPT ![w] = "view"] /\ result' = [result EXCEPT ![w] = result[w]]
        /\ result[w] \in {"none", "reply", "ask", "failed", "blocked"}
    BY <1>7 DEF TurnTaken, Goto, IInv, Types, RequestTypes
  <2>2. kind[t] = "chat" /\ status[t] # "running"
    BY <1>0, <1>1, <1>7 DEF TurnTaken, IInv, WorkInv
  <2>3. status[t] \in Ended
    BY <2>2 DEF IInv, Types, TurnTypes, RowInv
  <2> QED
    BY <1>0, <1>1, <1>2, <1>3, <2>1, <2>3, WorkStepKeeps DEF Working, Changes
<1> QED
  BY <1>4, <1>5, <1>6, <1>7

\* What the end of the turns of T does to them and to the others.
LEMMA Ending ==
  ASSUME Types, NEW T \in SUBSET Turns, NEW s \in Ended, EndAll(T, s)
  PROVE  /\ status' \in [Turns -> {"none", "running"} \cup Ended]
         /\ stale' \in [Turns -> BOOLEAN] /\ ask' \in [Turns -> Executions]
         /\ \A t \in T : status'[t] = s /\ ask'[t] = CancelledAsk(t)
         /\ \A t \in Turns \ T : status'[t] = status[t] /\ ask'[t] = ask[t]
<1>1. stale' \in [Turns -> BOOLEAN]
  BY Zenon DEF EndAll
<1>2. /\ status' = [t \in Turns |-> IF t \in T THEN s ELSE status[t]]
      /\ ask' = [t \in Turns |-> IF t \in T /\ ask[t] \in OpenExecution THEN "cancelled" ELSE ask[t]]
  BY DEF EndAll, Cancelled
<1>3. status' \in [Turns -> {"none", "running"} \cup Ended] /\ ask' \in [Turns -> Executions]
  BY <1>2 DEF Types, TurnTypes, Executions
<1> QED
  BY <1>1, <1>2, <1>3 DEF CancelledAsk

\* What the end of its turn makes of what w has.
LEMMA Finishing ==
  ASSUME IInv, NEW w \in Requests, FinishTurn(w), NEW t \in Turns, t = turn[w]
  PROVE  /\ kind[t] = "chat" /\ status[t] = "running" /\ t \notin recovering
         /\ Ends(t) /\ status'[t] = FinalStatus(result[w])
         /\ status'[t] \in Ended \ {"interrupted"}
         /\ TurnTypes' /\ \A u \in Turns \ {t} : Same(u)
<1>1. /\ kind[t] = "chat" /\ status[t] = "running" /\ t \notin recovering
      /\ pc[w] \in {"finish", "failing"} /\ EndAll({t}, FinalStatus(result[w]))
      /\ UNCHANGED <<kind, answers>>
      /\ reply' = [reply EXCEPT ![t] = result[w] = "reply"]
  BY DEF FinishTurn, Running, Free, IInv, WorkInv, Working
<1>2. /\ result[w] \in {"reply", "ask", "failed", "blocked"}
      /\ result[w] = "reply" => ask[t] # "completed"
      /\ result[w] = "ask" => ask[t] = "completed"
  BY <1>1 DEF IInv, WorkInv, Types, RequestTypes
<1>3. /\ FinalStatus(result[w]) \in Ended \ {"interrupted"}
      /\ FinalStatus(result[w]) = "completed" <=> result[w] \in {"reply", "ask"}
  BY <1>2 DEF FinalStatus, Ended
<1>4. /\ status' \in [Turns -> {"none", "running"} \cup Ended]
      /\ stale' \in [Turns -> BOOLEAN] /\ ask' \in [Turns -> Executions]
      /\ status'[t] = FinalStatus(result[w]) /\ ask'[t] = CancelledAsk(t)
      /\ \A u \in Turns \ {t} : status'[u] = status[u] /\ ask'[u] = ask[u]
  BY <1>1, <1>3, Ending DEF IInv
<1>5. reply' \in [Turns -> BOOLEAN] /\ reply'[t] = (result[w] = "reply")
      /\ \A u \in Turns \ {t} : reply'[u] = reply[u]
  BY <1>1, Zenon DEF IInv, Types, TurnTypes
<1>6. TurnTypes'
  BY <1>1, <1>4, <1>5 DEF IInv, Types, TurnTypes
<1>7. Ends(t)
  BY <1>1, <1>2, <1>3, <1>4, <1>5 DEF Ends
<1>8. \A u \in Turns \ {t} : Same(u)
  BY <1>1, <1>4, <1>5 DEF Same
<1> QED
  BY <1>1, <1>3, <1>4, <1>6, <1>7, <1>8

LEMMA FinishKeeps == ASSUME IInv, NEW w \in Requests, FinishTurn(w) PROVE IInv'
<1>0. PICK t \in Turns : t = turn[w]
  BY DEF FinishTurn, IInv, WorkInv, Working
<1>1. /\ t \notin recovering /\ Ends(t) /\ status'[t] \in Ended
      /\ TurnTypes' /\ \A u \in Turns \ {t} : Same(u)
  BY <1>0, Finishing
<1>2. /\ pc[w] \in Working /\ pc' = [pc EXCEPT ![w] = "view"]
      /\ result' = [result EXCEPT ![w] = result[w]]
      /\ result[w] \in {"none", "reply", "ask", "failed", "blocked"}
      /\ UNCHANGED <<lockVars, turn, answering, told, kind>>
  BY DEF FinishTurn, Goto, Working, IInv, Types, RequestTypes
<1>3. Tells(t)
  BY <1>2 DEF Tells
<1> QED
  BY <1>0, <1>1, <1>2, <1>3, WorkStepKeeps DEF Working, Changes

\* Steps of the session around its requests.
LEMMA AroundKeeps ==
  ASSUME IInv, UNCHANGED <<kind, answers, reply, lockVars, requestVars, told>>, TurnTypes',
         \A t \in Turns : Same(t) \/ Ends(t),
         \A t \in recovering : Same(t)
  PROVE  IInv'
<1>1. UNCHANGED <<pc, turn, answering, result, holder, recovering>>
  BY DEF requestVars, lockVars
<1>2. Types'
  BY <1>1 DEF IInv, Types, LockTypes, RequestTypes
<1>3. LockInv'
  BY <1>1 DEF IInv, LockInv, Same
<1>4. \A t \in Turns : Changes(t) /\ Tells(t)
  BY DEF Changes, Tells
<1>5. \A r \in Requests : Unmoved(r)
  BY <1>1 DEF Unmoved
<1> QED
  BY <1>1, <1>2, <1>3, <1>4, <1>5, NoRequestAssumption, StepKeepsAll

LEMMA VisitKeeps == ASSUME IInv, Visit PROVE IInv'
<1>1. /\ recovering = {} /\ EndAll(StaleChats, "interrupted")
      /\ UNCHANGED <<kind, answers, reply, lockVars, requestVars, told>>
  BY DEF Visit
<1>2. /\ status' \in [Turns -> {"none", "running"} \cup Ended]
      /\ stale' \in [Turns -> BOOLEAN] /\ ask' \in [Turns -> Executions]
      /\ \A t \in StaleChats : status'[t] = "interrupted" /\ ask'[t] = CancelledAsk(t)
      /\ \A t \in Turns \ StaleChats : status'[t] = status[t] /\ ask'[t] = ask[t]
  BY <1>1, Ending DEF IInv, StaleChats, Ended
<1>3. TurnTypes'
  BY <1>1, <1>2 DEF IInv, Types, TurnTypes
<1>4. ASSUME NEW t \in StaleChats PROVE Ends(t)
  <2>1. status[t] = "running" /\ ~reply[t] /\ t \in Turns
    BY DEF StaleChats, IInv, RowInv
  <2> QED
    BY <1>1, <1>2, <2>1 DEF Ends, Ended
<1>5. \A t \in Turns \ StaleChats : Same(t)
  BY <1>1, <1>2 DEF Same
<1> QED
  BY <1>1, <1>3, <1>4, <1>5, AroundKeeps

LEMMA EndApiKeeps == ASSUME IInv, NEW t \in Turns, EndApi(t) PROVE IInv'
<1>1. /\ kind[t] = "api" /\ status[t] = "running" /\ EndAll({t}, "completed")
      /\ UNCHANGED <<kind, answers, reply, lockVars, requestVars, told>>
  BY DEF EndApi
<1>2. /\ status' \in [Turns -> {"none", "running"} \cup Ended]
      /\ stale' \in [Turns -> BOOLEAN] /\ ask' \in [Turns -> Executions]
      /\ status'[t] = "completed" /\ ask'[t] = CancelledAsk(t)
      /\ \A u \in Turns \ {t} : status'[u] = status[u] /\ ask'[u] = ask[u]
  BY <1>1, Ending DEF IInv, Ended
<1>3. TurnTypes'
  BY <1>1, <1>2 DEF IInv, Types, TurnTypes
<1>4. Ends(t) /\ t \notin recovering
  <2>1. ~reply[t] /\ t \notin recovering
    BY <1>1 DEF IInv, RowInv, LockInv
  <2> QED
    BY <1>1, <1>2, <2>1 DEF Ends, Ended
<1>5. \A u \in Turns \ {t} : Same(u)
  BY <1>1, <1>2 DEF Same
<1>6. recovering \subseteq Turns
  BY DEF IInv, Types, LockTypes
<1> QED
  BY <1>1, <1>3, <1>4, <1>5, <1>6, AroundKeeps

LEMMA ExpireKeeps == ASSUME IInv, NEW t \in Turns, Expire(t) PROVE IInv'
<1>1. UNCHANGED <<kind, status, answers, reply, ask, lockVars, requestVars, told>>
  BY DEF Expire
<1>2. stale' \in [Turns -> BOOLEAN]
  BY Zenon DEF Expire, IInv, Types, TurnTypes
<1>3. TurnTypes' /\ \A u \in Turns : Same(u)
  BY <1>1, <1>2 DEF IInv, Types, TurnTypes, Same
<1>4. recovering \subseteq Turns
  BY DEF IInv, Types, LockTypes
<1> QED
  BY <1>1, <1>3, <1>4, AroundKeeps

-----------------------------------------------------------------------------
(***************************************************************************)
(* Steps that open a turn.                                                 *)
(***************************************************************************)
\* The next number is free, and with it the turns are again those up to a number.
LEMMA NextIsFree ==
  ASSUME IInv, NEW t \in Turns, t = NextTurn
  PROVE  /\ kind[t] = "none" /\ status[t] = "none" /\ t \notin recovering
         /\ \A u \in Turns : u < t => kind[u] # "none"
         /\ \A u \in Turns : kind[u] # "none" => u < t
         /\ (\A u \in Turns : kind'[u] = "none" <=> (kind[u] = "none" /\ u # t)) => NumberInv'
<1>1. PICK n \in 0 .. MaxTurns : /\ \A u \in Turns : kind[u] # "none" <=> u <= n
                                 /\ NextTurn = n + 1
  BY Numbers DEF IInv
<1>2. t = n + 1 /\ n + 1 \in 0 .. MaxTurns /\ Turns \subseteq Nat
  BY <1>1, MaxTurnsAssumption DEF Turns
<1>3. kind[t] = "none"
  BY <1>1, <1>2
<1>4. status[t] = "none" /\ t \notin recovering
  BY <1>3 DEF IInv, RowInv, LockInv
<1>5. (\A u \in Turns : kind'[u] = "none" <=> (kind[u] = "none" /\ u # t)) => NumberInv'
  <2>. SUFFICES ASSUME \A u \in Turns : kind'[u] = "none" <=> (kind[u] = "none" /\ u # t)
                PROVE  NumberInv'
    OBVIOUS
  <2>1. \A u \in Turns : kind'[u] # "none" <=> u <= n + 1
    BY <1>1, <1>2
  <2> QED
    BY <1>2, <2>1 DEF NumberInv
<1>6. /\ \A u \in Turns : u < t => kind[u] # "none"
      /\ \A u \in Turns : kind[u] # "none" => u < t
  BY <1>1, <1>2
<1> QED
  BY <1>3, <1>4, <1>5, <1>6

\* The rows of a commit that opens a turn.
LEMMA Opening ==
  ASSUME IInv, NEW w \in Requests, Open(w)
  PROVE  /\ NextTurn \in Turns /\ holder = w /\ ActiveChats = {}
         /\ answering[w] \in Turns \cup {NoTurn}
         /\ answering[w] # NoTurn => Asked(answering[w]) /\ ~Answered(answering[w])
                                     /\ answering[w] < NextTurn
         /\ kind'[NextTurn] = "chat" /\ answers'[NextTurn] = answering[w] /\ Begins(NextTurn)
         /\ NextTurn \notin recovering
         /\ \A u \in recovering : Ends(u) /\ status'[u] = "interrupted"
         /\ \A u \in Turns \ recovering : u # NextTurn => Same(u)
         /\ TurnTypes' /\ NumberInv'
<1>1. /\ holder = w /\ NextTurn \in Turns /\ ActiveChats = {}
      /\ answering[w] \in Turns \cup {NoTurn}
      /\ answering[w] # NoTurn => Asked(answering[w]) /\ ~Answered(answering[w])
  BY DEF Open, IInv, LockInv, OpeningInv, Beginning, Types, RequestTypes
<1>. DEFINE t == NextTurn
<1>2. t \in Turns
  BY <1>1
<1>3. /\ kind' = [kind EXCEPT ![t] = "chat"]
      /\ status' = [u \in Turns |-> IF u = t THEN "running"
                                    ELSE IF u \in recovering THEN "interrupted" ELSE status[u]]
      /\ ask' = [u \in Turns |-> IF u \in recovering /\ ask[u] \in OpenExecution
                                 THEN "cancelled" ELSE ask[u]]
      /\ stale' = [u \in Turns |-> stale[u] /\ u \notin recovering]
      /\ answers' = [answers EXCEPT ![t] = answering[w]]
      /\ reply' = reply
  BY DEF Open, Cancelled
<1>. HIDE DEF t
<1>4. /\ kind[t] = "none" /\ status[t] = "none" /\ t \notin recovering
      /\ \A u \in Turns : kind[u] # "none" => u < t
      /\ (\A u \in Turns : kind'[u] = "none" <=> (kind[u] = "none" /\ u # t)) => NumberInv'
  BY <1>2, NextIsFree DEF t
<1>5. /\ kind'[t] = "chat" /\ answers'[t] = answering[w]
      /\ \A u \in Turns \ {t} : kind'[u] = kind[u] /\ answers'[u] = answers[u]
  BY <1>2, <1>3 DEF IInv, Types, TurnTypes
<1>6. NumberInv'
  BY <1>4, <1>5
<1>7. answering[w] # NoTurn => answering[w] < t
  <2>1. answering[w] # NoTurn => kind[answering[w]] # "none" /\ answering[w] \in Turns
    BY <1>1 DEF Asked, IInv, RowInv
  <2> QED
    BY <2>1, <1>4
<1>8. /\ status'[t] = "running" /\ ask'[t] = ask[t]
      /\ \A u \in recovering : status'[u] = "interrupted" /\ ask'[u] = CancelledAsk(u)
      /\ \A u \in Turns \ recovering : u # t => status'[u] = status[u] /\ ask'[u] = ask[u]
      /\ recovering \subseteq Turns
  BY <1>2, <1>3, <1>4 DEF CancelledAsk, IInv, Types, LockTypes
<1>9. Begins(t)
  BY <1>1, <1>3, <1>4, <1>5, <1>7, <1>8 DEF Begins
<1>10. ASSUME NEW u \in recovering PROVE Ends(u)
  <2>1. status[u] = "running" /\ ~reply[u] /\ u # t /\ u \in Turns
    BY <1>4, <1>8 DEF IInv, RowInv, LockInv
  <2> QED
    BY <1>3, <1>5, <1>8, <2>1 DEF Ends, Ended
<1>11. \A u \in Turns \ recovering : u # t => Same(u)
  BY <1>3, <1>5, <1>8 DEF Same
<1>12. TurnTypes'
  <2>1. stale' \in [Turns -> BOOLEAN]
    BY <1>3, Zenon
  <2>2. /\ status' \in [Turns -> {"none", "running"} \cup Ended] /\ ask' \in [Turns -> Executions]
        /\ kind' \in [Turns -> {"none", "chat", "api"}]
        /\ answers' \in [Turns -> Turns \cup {NoTurn}]
    BY <1>1, <1>2, <1>3 DEF IInv, Types, TurnTypes, Executions, Ended
  <2> QED
    BY <1>3, <2>1, <2>2 DEF IInv, Types, TurnTypes
<1> QED
  BY <1>1, <1>4, <1>5, <1>6, <1>7, <1>8, <1>9, <1>10, <1>11, <1>12 DEF t

LEMMA OpenKeeps ==
  ASSUME IInv, NEW w \in Requests, OpenTurn(w) \/ OpenUnacknowledged(w) PROVE IInv'
<1>0. PICK t \in Turns : t = NextTurn
  BY Opening DEF OpenTurn, OpenUnacknowledged
<1>1. /\ holder = w /\ kind'[t] = "chat" /\ Begins(t) /\ t \notin recovering
      /\ (\A u \in recovering : Ends(u)) /\ (\A u \in Turns \ recovering : u # t => Same(u))
      /\ TurnTypes' /\ NumberInv'
  BY <1>0, Opening DEF OpenTurn, OpenUnacknowledged
<1>2. holder' = NoRequest /\ recovering' = {} /\ told' = told
  BY DEF OpenTurn, OpenUnacknowledged, Open, Unlock
<1>3. /\ RequestTypes' /\ \A r \in Requests \ {w} : Unmoved(r)
      /\ pc'[w] = "idle" \/ (pc'[w] = "run" /\ turn'[w] = t)
  <2>1. CASE OpenTurn(w)
    BY <1>0, <2>1 DEF OpenTurn, Goto, IInv, Types, RequestTypes, Unmoved, Steps, Working
  <2>2. CASE OpenUnacknowledged(w)
    BY <2>2, LeaveMoves DEF OpenUnacknowledged, IInv, Types
  <2> QED
    BY <2>1, <2>2
<1>4. \A u \in Turns : Changes(u) /\ Tells(u)
  BY <1>1, <1>2 DEF Changes, Tells
<1>5. Types'
  BY <1>1, <1>2, <1>3 DEF IInv, Types, LockTypes
<1>6. LockInv'
  BY <1>1, <1>2, <1>3, NoRequestAssumption DEF IInv, LockInv, Unmoved, Beginning
<1>7. \A u \in Turns : RowInv(u)'
  BY <1>4, <1>5, RowKeeps DEF IInv
<1>8. ASSUME NEW r \in Requests \ {w}
      PROVE  /\ OpeningInv(r)' /\ WorkInv(r)'
             /\ pc'[r] \in Working => turn'[r] # t
  <2>1. pc[r] \notin Beginning
    BY <1>1 DEF IInv, LockInv
  <2>2. OpeningInv(r)'
    BY <1>3, <2>1 DEF OpeningInv, Unmoved, Beginning
  <2>3. pc[r] \in Working => turn[r] \in Turns /\ turn[r] # t
    BY <1>1 DEF IInv, WorkInv, Begins
  <2>4. WorkInv(r)'
    BY <1>1, <1>3, <2>3, WorkKeeps DEF IInv
  <2> QED
    BY <1>3, <2>2, <2>3, <2>4 DEF Unmoved
<1>9. OpeningInv(w)' /\ WorkInv(w)'
  BY <1>1, <1>3 DEF OpeningInv, WorkInv, Beginning, Working
<1>10. OwnTurn'
  BY <1>3, <1>8 DEF IInv, OwnTurn, Unmoved, Working
<1> QED
  BY <1>1, <1>5, <1>6, <1>7, <1>8, <1>9, <1>10 DEF IInv

\* A turn of an approval: nobody holds the session row.
LEMMA ApiOpening ==
  ASSUME IInv, OpenApi
  PROVE  /\ NextTurn \in Turns /\ Begins(NextTurn) /\ kind'[NextTurn] = "api"
         /\ \A u \in Turns : u # NextTurn => Same(u)
         /\ TurnTypes' /\ NumberInv'
<1>. DEFINE t == NextTurn
<1>1. /\ t \in Turns
      /\ kind' = [kind EXCEPT ![t] = "api"] /\ status' = [status EXCEPT ![t] = "running"]
      /\ UNCHANGED <<stale, answers, reply, ask>>
  BY DEF OpenApi
<1>. HIDE DEF t
<1>2. /\ kind[t] = "none"
      /\ (\A u \in Turns : kind'[u] = "none" <=> (kind[u] = "none" /\ u # t)) => NumberInv'
  BY <1>1, NextIsFree DEF t
<1>3. /\ kind'[t] = "api" /\ status'[t] = "running"
      /\ \A u \in Turns \ {t} : kind'[u] = kind[u] /\ status'[u] = status[u]
      /\ TurnTypes'
  BY <1>1 DEF IInv, Types, TurnTypes
<1>4. answers[t] = NoTurn
  BY <1>1, <1>2 DEF IInv, RowInv
<1>5. Begins(t) /\ \A u \in Turns : u # t => Same(u)
  BY <1>1, <1>2, <1>3, <1>4 DEF Begins, Same
<1>6. NumberInv'
  BY <1>2, <1>3
<1> QED
  BY <1>1, <1>3, <1>5, <1>6 DEF t

LEMMA OpenApiKeeps == ASSUME IInv, OpenApi PROVE IInv'
<1>0. PICK t \in Turns : t = NextTurn
  BY DEF OpenApi
<1>1. /\ Begins(t) /\ (\A u \in Turns : u # t => Same(u)) /\ TurnTypes' /\ NumberInv'
  BY <1>0, ApiOpening
<1>2. /\ holder = NoRequest
      /\ UNCHANGED <<holder, recovering, pc, turn, answering, result, told>>
  BY DEF OpenApi, lockVars, requestVars
<1>3. \A u \in Turns : Changes(u) /\ Tells(u)
  BY <1>1, <1>2 DEF Changes, Tells
<1>4. Types'
  BY <1>1, <1>2 DEF IInv, Types, LockTypes, RequestTypes
<1>5. LockInv' /\ OwnTurn'
  BY <1>2 DEF IInv, LockInv, OwnTurn
<1>6. \A u \in Turns : RowInv(u)'
  BY <1>3, <1>4, RowKeeps DEF IInv
<1>7. ASSUME NEW r \in Requests PROVE OpeningInv(r)' /\ WorkInv(r)'
  <2>1. pc[r] \notin Beginning
    BY <1>2, NoRequestAssumption DEF IInv, LockInv
  <2>2. OpeningInv(r)'
    BY <1>2, <2>1 DEF OpeningInv, Beginning
  <2>3. pc[r] \in Working => turn[r] \in Turns /\ turn[r] # t
    BY <1>1 DEF IInv, WorkInv, Begins
  <2>4. Unmoved(r)
    BY <1>2 DEF Unmoved
  <2> QED
    BY <1>1, <2>2, <2>3, <2>4, WorkKeeps DEF IInv
<1> QED
  BY <1>1, <1>4, <1>5, <1>6, <1>7 DEF IInv

LEMMA StepKeeps == IInv /\ [Next]_vars => IInv'
<1>. SUFFICES ASSUME IInv, [Next]_vars PROVE IInv'
  OBVIOUS
<1>1. CASE UNCHANGED vars
  <2>1. UNCHANGED <<kind, answers, reply, lockVars, requestVars, told>> /\ UNCHANGED turnVars
    BY <1>1 DEF vars, turnVars
  <2>2. TurnTypes' /\ \A u \in Turns : Same(u)
    BY <2>1, NothingChanges DEF IInv
  <2>3. recovering \subseteq Turns
    BY DEF IInv, Types, LockTypes
  <2> QED
    BY <2>1, <2>2, <2>3, AroundKeeps
<1>2. ASSUME NEW w \in Requests, Begin(w) PROVE IInv'
  BY <1>2, BeginningKeeps, LeavingKeeps, OpenKeeps DEF Begin
<1>3. ASSUME NEW w \in Requests, Execute(w) PROVE IInv'
  BY <1>3, AskStepKeeps, DecideKeeps, FinishKeeps, LeavingKeeps DEF Execute
<1>4. ASSUME NEW w \in Requests, Crash(w) PROVE IInv'
  BY <1>4, LeavingKeeps
<1>5. ASSUME NEW t \in Turns, Expire(t) \/ EndApi(t) PROVE IInv'
  BY <1>5, ExpireKeeps, EndApiKeeps
<1> QED
  BY <1>1, <1>2, <1>3, <1>4, <1>5, VisitKeeps, OpenApiKeeps DEF Next

\* The invariant holds of every state a session reaches.
LEMMA Always == Spec => []IInv
BY Initially, StepKeeps, PTL DEF Spec

-----------------------------------------------------------------------------
(***************************************************************************)
(* Properties.                                                             *)
(***************************************************************************)
\* A turn ends whole: with one of a reply and questions, and no tool execution open.
THEOREM TurnsEndWhole == Spec => []EndsWhole
<1>1. ASSUME IInv, NEW t \in Turns
      PROVE  /\ reply[t] => status[t] = "completed"
             /\ kind[t] = "chat" /\ status[t] = "completed" => (reply[t] # (ask[t] = "completed"))
             /\ status[t] \in Ended => ask[t] \notin OpenExecution
  BY <1>1 DEF IInv, RowInv
<1>2. IInv => EndsWhole
  BY <1>1 DEF EndsWhole
<1> QED
  BY <1>2, Always, PTL

\* The client is told an end of its turn, and the one that the session keeps.
THEOREM Told == Spec => []ToldIsStored
<1>1. IInv => ToldIsStored
  BY DEF IInv, RowInv, ToldIsStored
<1> QED
  BY <1>1, Always, PTL

\* What each step does to the turns.
LEMMA TurnsChange == ASSUME IInv, [Next]_vars, NEW t \in Turns PROVE Changes(t)
<1>1. CASE UNCHANGED turnVars
  BY <1>1, NothingChanges DEF IInv, Changes
<1>2. CASE UNCHANGED <<kind, status, answers, reply, ask>>
  BY <1>2 DEF Changes, Same
<1>3. ASSUME NEW w \in Requests, PrepareAsk(w) \/ ClaimAsk(w) \/ SaveAsk(w) \/ AskFails(w)
      PROVE  Changes(t)
  <2>1. PICK a : ask' = [ask EXCEPT ![turn[w]] = a]
    BY <1>3 DEF PrepareAsk, ClaimAsk, SaveAsk, AskFails, SetAsk
  <2>2. UNCHANGED <<kind, status, answers, reply>>
    BY <1>3 DEF PrepareAsk, ClaimAsk, SaveAsk, AskFails, SetAsk
  <2>3. kind[turn[w]] = "chat" /\ status[turn[w]] = "running"
    BY <1>3 DEF PrepareAsk, ClaimAsk, SaveAsk, AskFails, Running, IInv, WorkInv, Working
  <2>4. t # turn[w] => ask'[t] = ask[t]
    BY <2>1 DEF IInv, Types, TurnTypes
  <2> QED
    BY <2>2, <2>3, <2>4 DEF Changes, Same, Asks
<1>4. ASSUME NEW w \in Requests, FinishTurn(w) PROVE Changes(t)
  <2>1. turn[w] \in Turns
    BY <1>4 DEF FinishTurn, IInv, WorkInv, Working
  <2> QED
    BY <1>4, <2>1, Finishing DEF Changes
<1>5. ASSUME NEW w \in Requests, OpenTurn(w) \/ OpenUnacknowledged(w) PROVE Changes(t)
  BY <1>5, Opening DEF OpenTurn, OpenUnacknowledged, Changes
<1>6. CASE OpenApi
  BY <1>6, ApiOpening DEF Changes
<1>7. ASSUME NEW T \in SUBSET Turns, NEW s \in Ended, EndAll(T, s), UNCHANGED <<kind, answers, reply>>,
             \A u \in T : status[u] = "running" /\ (kind[u] = "chat" => s = "interrupted")
      PROVE  Changes(t)
  <2>1. /\ t \in T => status'[t] = s /\ ask'[t] = CancelledAsk(t)
        /\ t \notin T => status'[t] = status[t] /\ ask'[t] = ask[t]
    BY <1>7, Ending DEF IInv
  <2>2. t \in T => ~reply[t]
    BY <1>7 DEF IInv, RowInv
  <2> QED
    BY <1>7, <2>1, <2>2 DEF Changes, Same, Ends
<1>8. CASE Visit
  <2>1. EndAll(StaleChats, "interrupted") /\ StaleChats \in SUBSET Turns
        /\ UNCHANGED <<kind, answers, reply>> /\ \A u \in StaleChats : status[u] = "running"
    BY <1>8 DEF Visit, StaleChats
  <2> QED
    BY <2>1, <1>7 DEF Ended
<1>9. ASSUME NEW u \in Turns, EndApi(u) PROVE Changes(t)
  BY <1>7, <1>9 DEF EndApi, Ended
<1>10. ASSUME NEW u \in Turns, Expire(u) PROVE Changes(t)
  BY <1>2, <1>10 DEF Expire
<1>11. ASSUME NEW w \in Requests,
              LockSession(w) \/ TurnInProgress(w) \/ NoTurnInProgress(w) \/ AcceptAnswer(w)
                \/ RefuseAnswer(w) \/ Reply(w) \/ Fail(w) \/ TurnTaken(w) \/ FailRunning(w)
                \/ View(w) \/ Crash(w)
       PROVE  Changes(t)
  BY <1>1, <1>11 DEF LockSession, TurnInProgress, NoTurnInProgress, AcceptAnswer, RefuseAnswer,
     Reply, Fail, Decide, TurnTaken, FailRunning, View, Crash
<1>12. CASE UNCHANGED vars
  BY <1>1, <1>12 DEF vars
<1> QED
  BY <1>3, <1>4, <1>5, <1>6, <1>8, <1>9, <1>10, <1>11, <1>12 DEF Next, Begin, Execute

\* Nothing is added to a turn that has ended, and its end is not revised.
THEOREM EndIsFinal == Spec => NothingAfterTheEnd
<1>1. ASSUME IInv, [Next]_vars, NEW t \in Turns, status[t] \in Ended
      PROVE  /\ status'[t] = status[t] /\ reply'[t] = reply[t]
             /\ ask'[t] = ask[t] /\ answers'[t] = answers[t]
  <2>1. Changes(t) /\ kind[t] # "none" /\ status[t] # "running"
    BY <1>1, TurnsChange DEF IInv, RowInv, Ended
  <2> QED
    BY <2>1 DEF Changes, Same, Asks, Ends, Begins
<1>2. IInv /\ [Next]_vars =>
        \A t \in Turns : status[t] \in Ended =>
          /\ status'[t] = status[t] /\ reply'[t] = reply[t]
          /\ ask'[t] = ask[t] /\ answers'[t] = answers[t]
  BY <1>1
<1> QED
  BY <1>2, Always, PTL DEF Spec, NothingAfterTheEnd

-----------------------------------------------------------------------------
(***************************************************************************)
(* AgentTurns implements SessionTurns.                                     *)
(***************************************************************************)
LEMMA AskedSame ==
  ASSUME \A u \in Turns : Asked(u)' <=> Asked(u)
  PROVE  asked' = asked
<1>1. \A u \in Turns : Asked(u)' = Asked(u)
  BY DEF Asked
<1> QED
  BY <1>1, Zenon DEF asked

LEMMA Stutters ==
  ASSUME IInv, UNCHANGED <<kind, status, answers>>,
         \A t \in Turns : status[t] # "running" => ask'[t] = ask[t]
  PROVE  UNCHANGED Promise!turnVars
<1>1. \A t \in Turns : Asked(t)' <=> Asked(t)
  BY DEF Asked
<1>2. asked' = asked
  BY <1>1, AskedSame
<1> QED
  BY <1>2 DEF Promise!turnVars

LEMMA FinishMaps == ASSUME IInv, NEW w \in Requests, FinishTurn(w) PROVE Promise!TurnNext
<1>0. PICK t \in Turns : t = turn[w]
  BY DEF FinishTurn, IInv, WorkInv, Working
<1>1. /\ kind[t] = "chat" /\ status[t] = "running"
      /\ Ends(t) /\ status'[t] \in Ended \ {"interrupted"} /\ TurnTypes'
      /\ \A u \in Turns \ {t} : Same(u)
  BY <1>0, Finishing
<1>2. kind' = kind /\ answers' = answers
  BY DEF FinishTurn
<1>. DEFINE q == Asked(t)'
<1>3. q \in BOOLEAN /\ (q => status'[t] = "completed")
  BY DEF Asked
<1>4. status' = [status EXCEPT ![t] = status'[t]]
  BY <1>1 DEF Same, IInv, Types, TurnTypes
<1>5. asked' = [asked EXCEPT ![t] = q]
  <2>1. \A u \in Turns \ {t} : Asked(u)' <=> Asked(u)
    BY <1>1 DEF Same, Asked
  <2>2. \A u \in Turns \ {t} : Asked(u)' = Asked(u)
    BY <2>1 DEF Asked
  <2>3. asked' = [u \in Turns |-> Asked(u)'] /\ asked = [u \in Turns |-> Asked(u)]
    BY DEF asked
  <2>. HIDE DEF q
  <2>4. asked' = [u \in Turns |-> IF u = t THEN q ELSE asked[u]]
    BY <2>2, <2>3, Zenon DEF q
  <2> QED
    BY <2>3, <2>4, Zenon
<1>6. t \in Promise!OpenChats
  BY <1>1 DEF Promise!OpenChats, Promise!Turns, Turns
<1>. HIDE DEF q
<1>7. Promise!EndChat(t, status'[t], q)
  BY <1>2, <1>3, <1>4, <1>5, <1>6 DEF Promise!EndChat
<1> QED
  BY <1>1, <1>3, <1>7 DEF Promise!TurnNext, Promise!Turns, Promise!Ended, Turns, Ended

LEMMA VisitMaps == ASSUME IInv, Visit PROVE Promise!TurnNext
<1>1. EndAll(StaleChats, "interrupted") /\ UNCHANGED <<kind, answers>>
  BY DEF Visit
<1>2. StaleChats \subseteq Promise!OpenChats
  BY DEF StaleChats, Promise!OpenChats, Promise!Turns, Turns
<1>3. status' = Promise!Interrupted(StaleChats)
  BY <1>1 DEF EndAll, Promise!Interrupted, Promise!Turns, Turns
<1>4. asked' = asked
  <2>1. \A t \in Turns : Asked(t)' <=> Asked(t)
    BY <1>1, Ending DEF IInv, Asked, StaleChats, Ended
  <2> QED
    BY <2>1, AskedSame
<1> QED
  BY <1>1, <1>2, <1>3, <1>4 DEF Promise!TurnNext, Promise!Interrupt

LEMMA EndApiMaps == ASSUME IInv, NEW t \in Turns, EndApi(t) PROVE Promise!TurnNext
<1>1. /\ kind[t] = "api" /\ status[t] = "running" /\ EndAll({t}, "completed")
      /\ UNCHANGED <<kind, answers>>
  BY DEF EndApi
<1>2. status' = [status EXCEPT ![t] = "completed"]
  BY <1>1 DEF EndAll, IInv, Types, TurnTypes
<1>3. asked' = asked
  <2>1. ask[t] = "none"
    BY <1>1 DEF IInv, RowInv
  <2>2. ask'[t] = "none" /\ \A u \in Turns \ {t} : status'[u] = status[u] /\ ask'[u] = ask[u]
    BY <1>1, <2>1, Ending DEF IInv, Ended, CancelledAsk, OpenExecution
  <2>3. \A u \in Turns : Asked(u)' <=> Asked(u)
    BY <2>1, <2>2 DEF Asked
  <2> QED
    BY <2>3, AskedSame
<1>4. Promise!EndApi(t)
  BY <1>1, <1>2, <1>3 DEF Promise!EndApi
<1> QED
  BY <1>4 DEF Promise!TurnNext, Promise!Turns, Turns

LEMMA OpenMaps == ASSUME IInv, NEW w \in Requests, Open(w) PROVE Promise!TurnNext
<1>. DEFINE t == NextTurn
            q == answering[w]
<1>1. /\ t \in Turns /\ ActiveChats = {} /\ q \in Turns \cup {NoTurn}
      /\ q # NoTurn => Asked(q) /\ ~Answered(q)
      /\ Begins(t) /\ t \notin recovering
      /\ (\A u \in recovering : Ends(u)) /\ \A u \in Turns \ recovering : u # t => Same(u)
  BY Opening
<1>2. /\ kind' = [kind EXCEPT ![t] = "chat"] /\ answers' = [answers EXCEPT ![t] = q]
      /\ status' = [u \in Turns |-> IF u = t THEN "running"
                                    ELSE IF u \in recovering THEN "interrupted" ELSE status[u]]
  BY DEF Open
<1>. HIDE DEF t, q
<1>3. kind[t] = "none" /\ status[t] = "none" /\ \A u \in Turns : u < t => kind[u] # "none"
  BY <1>1, NextIsFree DEF t
<1>4. Promise!IsNext(t)
  <2>1. \A s \in 1 .. t - 1 : s \in Turns /\ s < t
    BY <1>1, MaxTurnsAssumption DEF Turns
  <2> QED
    BY <1>3, <2>1 DEF Promise!IsNext
<1>5. Promise!MayAnswer(q)
  <2>1. q # NoTurn => asked[q]
    BY <1>1 DEF asked
  <2>2. \A u \in Turns : answers[u] = q /\ q # NoTurn => u > q
    BY <1>1, MaxTurnsAssumption DEF IInv, RowInv, Turns
  <2>3. q # NoTurn => ~Promise!Answered(q)
    BY <1>1, <2>2 DEF Promise!Answered, Answered, Promise!Turns, Turns
  <2> QED
    BY <2>1, <2>3 DEF Promise!MayAnswer, Promise!NoTurn, NoTurn
<1>6. recovering = Promise!OpenChats
  BY <1>1 DEF ActiveChats, Promise!OpenChats, Promise!Turns, Turns, IInv, LockInv, Types, LockTypes
<1>7. status' = [Promise!Interrupted(Promise!OpenChats) EXCEPT ![t] = "running"]
  BY <1>1, <1>2, <1>6 DEF Promise!Interrupted, Promise!Turns, Turns
<1>8. asked' = asked
  <2>1. ASSUME NEW u \in Turns PROVE Asked(u)' <=> Asked(u)
    <3>1. CASE u \in recovering
      <4>1. status[u] = "running" /\ status'[u] = "interrupted"
        BY <1>1, <1>2, <3>1 DEF Ends
      <4> QED
        BY <4>1 DEF Asked
    <3>2. CASE u = t
      BY <1>1, <1>3, <3>2 DEF Asked, Begins
    <3>3. CASE u \notin recovering /\ u # t
      BY <1>1, <3>3 DEF Asked, Same
    <3> QED
      BY <3>1, <3>2, <3>3
  <2> QED
    BY <2>1, AskedSame
<1>9. Promise!OpenChat(t, q)
  BY <1>2, <1>4, <1>5, <1>7, <1>8 DEF Promise!OpenChat
<1> QED
  BY <1>1, <1>9 DEF Promise!TurnNext, Promise!Turns, Turns, Promise!NoTurn, NoTurn

LEMMA OpenApiMaps == ASSUME IInv, OpenApi PROVE Promise!TurnNext
<1>0. PICK t \in Turns : t = NextTurn
  BY DEF OpenApi
<1>1. /\ kind' = [kind EXCEPT ![t] = "api"] /\ status' = [status EXCEPT ![t] = "running"]
      /\ UNCHANGED <<answers, ask>>
  BY <1>0 DEF OpenApi
<1>2. kind[t] = "none" /\ status[t] = "none" /\ \A u \in Turns : u < t => kind[u] # "none"
  BY <1>0, NextIsFree
<1>3. Promise!IsNext(t)
  <2>1. \A s \in 1 .. t - 1 : s \in Turns /\ s < t
    BY MaxTurnsAssumption DEF Turns
  <2> QED
    BY <1>2, <2>1 DEF Promise!IsNext
<1>4. asked' = asked
  <2>1. \A u \in Turns : Asked(u)' <=> Asked(u)
    BY <1>1, <1>2 DEF Asked, IInv, Types, TurnTypes
  <2> QED
    BY <2>1, AskedSame
<1>5. Promise!OpenApi(t)
  BY <1>1, <1>3, <1>4 DEF Promise!OpenApi
<1> QED
  BY <1>5 DEF Promise!TurnNext, Promise!Turns, Turns

LEMMA StepMaps ==
  ASSUME IInv, [Next]_vars
  PROVE  Promise!TurnNext \/ UNCHANGED Promise!turnVars
<1>1. CASE UNCHANGED turnVars
  BY <1>1, Stutters DEF turnVars
<1>2. ASSUME NEW w \in Requests, PrepareAsk(w) \/ ClaimAsk(w) \/ SaveAsk(w) \/ AskFails(w)
      PROVE  UNCHANGED Promise!turnVars
  <2>1. PICK a : ask' = [ask EXCEPT ![turn[w]] = a]
    BY <1>2 DEF PrepareAsk, ClaimAsk, SaveAsk, AskFails, SetAsk
  <2>2. UNCHANGED <<kind, status, answers>> /\ status[turn[w]] = "running"
    BY <1>2 DEF PrepareAsk, ClaimAsk, SaveAsk, AskFails, SetAsk, Running
  <2>3. \A t \in Turns : t # turn[w] => ask'[t] = ask[t]
    BY <2>1 DEF IInv, Types, TurnTypes
  <2> QED
    BY <2>2, <2>3, Stutters
<1>3. ASSUME NEW u \in Turns, Expire(u) PROVE UNCHANGED Promise!turnVars
  BY <1>3, Stutters DEF Expire
<1>4. ASSUME NEW w \in Requests,
             LockSession(w) \/ TurnInProgress(w) \/ NoTurnInProgress(w) \/ AcceptAnswer(w)
               \/ RefuseAnswer(w) \/ Reply(w) \/ Fail(w) \/ TurnTaken(w) \/ FailRunning(w)
               \/ View(w) \/ Crash(w)
      PROVE  UNCHANGED Promise!turnVars
  <2>1. UNCHANGED turnVars
    BY <1>4 DEF LockSession, TurnInProgress, NoTurnInProgress, AcceptAnswer, RefuseAnswer,
       Reply, Fail, Decide, TurnTaken, FailRunning, View, Crash
  <2> QED
    BY <2>1, Stutters DEF turnVars
<1>5. CASE UNCHANGED vars
  BY <1>1, <1>5 DEF vars
<1>6. ASSUME NEW w \in Requests, OpenTurn(w) \/ OpenUnacknowledged(w) PROVE Promise!TurnNext
  BY <1>6, OpenMaps DEF OpenTurn, OpenUnacknowledged
<1> QED
  BY <1>2, <1>3, <1>4, <1>5, <1>6, FinishMaps, VisitMaps, EndApiMaps, OpenApiMaps
     DEF Next, Begin, Execute

\* The session as its readers see it behaves as SessionTurns promises.
THEOREM PromiseKept == Spec => KeepsPromise
<1>1. Init => Promise!TurnInit
  BY DEF Init, Promise!TurnInit, Promise!Turns, Promise!NoTurn, Turns, NoTurn, asked, Asked
<1>2. IInv /\ [Next]_vars => [Promise!TurnNext]_(Promise!turnVars)
  BY StepMaps
<1> QED
  BY <1>1, <1>2, Always, PTL DEF Spec, KeepsPromise, Promise!TurnSpec
=============================================================================
