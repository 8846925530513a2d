------------------------ MODULE ToolExecutionsProofs ------------------------
(***************************************************************************)
(* Proofs about ToolExecutions for any invocations, keys and number of     *)
(* attempts: a tool call is carried out once, answers are what is stored,  *)
(* results and executions agree and say whether the call was carried out,  *)
(* an ended turn stays as it is, and the executor implements ToolContract. *)
(***************************************************************************)
EXTENDS ToolExecutions, FiniteSetTheorems, TLAPS

\* Where an invocation is only after it has claimed the execution, and where
\* its handler has not yet done anything.
Working == {"authorize", "attempt", "execute", "inspect", "save"}
Before == {"start", "prepare", "claim", "lookup", "authorize", "attempt", "execute"}

\* Only who has claimed the execution works on it; it has left pending for good.
Claims(c) ==
  /\ at[c] \in Working => claimed[c]
  /\ claimed[c] => execution[KeyOf[c]] \notin {"none", "pending"}

\* Only who has claimed it has carried the call out, and once.
Effects(c) ==
  /\ effects[c] <= 1
  /\ effects[c] > 0 => claimed[c]
  /\ at[c] \in Before => effects[c] = 0

\* Past its preparation an invocation is of the stored call, and it has a
\* final outcome in hand when it comes to save.
InWork(c) ==
  /\ at[c] \in Working \cup {"claim", "lookup"} => input[KeyOf[c]] = InputOf[c]
  /\ at[c] = "inspect" => hand[c] = "completed"
  /\ at[c] = "save" => hand[c] \in {"failed", "blocked", "cancelled"}

\* What it has answered is stored.
Answered(c) ==
  /\ answer[c] \in {"data", "notice", "failure"} =>
       /\ input[KeyOf[c]] = InputOf[c]
       /\ result[KeyOf[c]] # "none"
  /\ answer[c] = "data" => result[KeyOf[c]] = "completed"
  /\ answer[c] = "notice" => context[KeyOf[c]] = "blocked"
  /\ answer[c] = "failure" => result[KeyOf[c]] # "completed"

CallerInv(c) == Claims(c) /\ Effects(c) /\ InWork(c) /\ Answered(c)

\* A call has an execution, a result before anybody quarantines it, and the
\* status of its execution agrees with both.
KeyInv(k) ==
  /\ input[k] = NoInput <=> execution[k] = "none"
  /\ result[k] = "none" => context[k] = "active"
  /\ context[k] = "blocked" => result[k] = "completed"
  /\ execution[k] \in {"completed", "failed", "blocked"} => result[k] = execution[k]
  /\ result[k] # "none" => execution[k] = result[k]
  /\ ~running => execution[k] \notin Open

\* An execution is claimed by one invocation.
OneClaim ==
  \A c, d \in Callers : claimed[c] /\ claimed[d] /\ KeyOf[c] = KeyOf[d] => c = d

IInv ==
  /\ TypeOK
  /\ \A c \in Callers : CallerInv(c)
  /\ \A k \in Keys : KeyInv(k)
  /\ OneClaim

LEMMA Initially == Init => IInv
<1>. SUFFICES ASSUME Init PROVE IInv
  OBVIOUS
<1>1. TypeOK
  BY DEF Init, TypeOK, Open, Final, Places, Answers, Contexts
<1>2. \A c \in Callers : Claims(c) /\ Effects(c)
  BY DEF Init, Claims, Effects, Working
<1>3. \A c \in Callers : InWork(c) /\ Answered(c)
  BY DEF Init, InWork, Answered, Working
<1>4. \A k \in Keys : KeyInv(k)
  BY DEF Init, KeyInv
<1>5. OneClaim
  BY DEF Init, OneClaim
<1> QED
  BY <1>1, <1>2, <1>3, <1>4, <1>5 DEF IInv, CallerInv

-----------------------------------------------------------------------------
\* A step of one invocation that leaves the rows alone keeps the invariant if
\* it keeps what the invariant says of this invocation.
LEMMA OwnStep ==
  ASSUME IInv, NEW c \in Callers,
         UNCHANGED <<turnVars, rowVars, claimed>>,
         at' \in [Callers -> Places], hand' \in [Callers -> {"none"} \cup Final],
         tries' \in [Callers -> Nat], effects' \in [Callers -> Nat],
         answer' \in [Callers -> Answers],
         \A d \in Callers \ {c} :
           UNCHANGED <<at[d], hand[d], effects[d], answer[d]>>,
         CallerInv(c)'
  PROVE  IInv'
<1>1. TypeOK'
  BY DEF IInv, TypeOK, turnVars, rowVars
<1>2. \A d \in Callers : CallerInv(d)'
  BY DEF IInv, CallerInv, Claims, Effects, InWork, Answered, turnVars, rowVars
<1>3. \A k \in Keys : KeyInv(k)'
  BY DEF IInv, KeyInv, turnVars, rowVars
<1>4. OneClaim'
  BY DEF IInv, OneClaim
<1> QED
  BY <1>1, <1>2, <1>3, <1>4 DEF IInv

LEMMA StartKeeps == ASSUME IInv, NEW c \in Callers, Start(c) PROVE IInv'
<1>1. CallerInv(c)'
  BY CallsAssumption DEF IInv, TypeOK, CallerInv, KeyInv, Claims, Effects, InWork, Answered, Start, Goto,
     turnVars, rowVars, Working, Before, Final, Places
<1> QED
  BY <1>1, OwnStep DEF IInv, TypeOK, Start, Goto, turnVars, rowVars, Final, Places, Answers

\* The invocation returns an answer that is stored.
LEMMA ReturnKeeps ==
  ASSUME IInv, NEW c \in Callers, NEW a \in Answers, Return(c, a),
         UNCHANGED <<turnVars, rowVars, hand, tries, claimed>>,
         effects' \in [Callers -> Nat],
         \A d \in Callers \ {c} : UNCHANGED effects[d],
         effects'[c] <= 1, effects'[c] > 0 => claimed[c],
         a \in {"data", "notice", "failure"} =>
           input[KeyOf[c]] = InputOf[c] /\ result[KeyOf[c]] # "none",
         a = "data" => result[KeyOf[c]] = "completed",
         a = "notice" => context[KeyOf[c]] = "blocked",
         a = "failure" => result[KeyOf[c]] # "completed"
  PROVE  IInv'
<1>1. /\ at'[c] = "done" /\ answer'[c] = a
      /\ at' \in [Callers -> Places] /\ answer' \in [Callers -> Answers]
      /\ \A d \in Callers \ {c} : UNCHANGED <<at[d], answer[d]>>
  BY DEF IInv, TypeOK, Return, Goto, Places
<1>2. CallerInv(c)'
  BY <1>1 DEF IInv, CallerInv, Claims, Effects, InWork, Answered, rowVars, Working, Before
<1>3. UNCHANGED <<turnVars, rowVars, claimed>> /\ hand' \in [Callers -> {"none"} \cup Final]
      /\ tries' \in [Callers -> Nat] /\ \A d \in Callers \ {c} : UNCHANGED hand[d]
  BY DEF IInv, TypeOK
<1> QED
  BY <1>1, <1>2, <1>3, OwnStep

LEMMA ReturnPlain ==
  ASSUME IInv, NEW c \in Callers, NEW a \in {"turn ended", "in progress", "conflict", "raised"},
         Return(c, a), UNCHANGED <<turnVars, rowVars, hand, tries, claimed, effects>>
  PROVE  IInv'
<1>1. /\ effects' \in [Callers -> Nat] /\ \A d \in Callers \ {c} : UNCHANGED effects[d]
      /\ effects'[c] <= 1 /\ (effects'[c] > 0 => claimed[c])
  BY DEF IInv, TypeOK, CallerInv, Effects
<1>2. a \in Answers
  BY DEF Answers
<1> QED
  BY <1>1, <1>2, ReturnKeeps

LEMMA ReturnStoredKeeps ==
  ASSUME IInv, NEW c \in Callers, ReturnStored(c),
         input[KeyOf[c]] = InputOf[c], result[KeyOf[c]] # "none",
         UNCHANGED <<turnVars, rowVars, hand, tries, claimed, effects>>
  PROVE  IInv'
<1> DEFINE a == Told(result[KeyOf[c]], context[KeyOf[c]])
<1>0. KeyOf[c] \in Keys
  BY CallsAssumption
<1>1. /\ effects' \in [Callers -> Nat] /\ \A d \in Callers \ {c} : UNCHANGED effects[d]
      /\ effects'[c] <= 1 /\ (effects'[c] > 0 => claimed[c])
  BY DEF IInv, TypeOK, CallerInv, Effects
<1>2. context[KeyOf[c]] \in {"active", "blocked", "later"}
  BY <1>0 DEF IInv, TypeOK, Contexts
<1>3. /\ a \in {"data", "notice", "failure", "raised"}
      /\ a = "data" => result[KeyOf[c]] = "completed"
      /\ a = "notice" => context[KeyOf[c]] = "blocked"
      /\ a = "failure" => result[KeyOf[c]] # "completed"
  BY <1>2 DEF Told
<1>4. a \in Answers
  BY <1>3 DEF Answers
<1>5. Return(c, a)
  BY DEF ReturnStored
<1> HIDE DEF a
<1> QED
  BY <1>1, <1>3, <1>4, <1>5, ReturnKeeps

LEMMA StartEndedKeeps == ASSUME IInv, NEW c \in Callers, StartEnded(c) PROVE IInv'
<1> UNCHANGED <<turnVars, rowVars, hand, tries, claimed, effects>>
  BY DEF StartEnded
<1>1. CASE Return(c, "conflict")
  BY <1>1, ReturnPlain
<1>2. CASE Return(c, "turn ended")
  BY <1>2, ReturnPlain
<1>3. CASE SameCall(c) /\ result[KeyOf[c]] # "none" /\ ReturnStored(c)
  BY <1>3, ReturnStoredKeeps DEF SameCall
<1> QED
  BY <1>1, <1>2, <1>3 DEF StartEnded

LEMMA PrepareKnownKeeps == ASSUME IInv, NEW c \in Callers, PrepareKnown(c) PROVE IInv'
<1> UNCHANGED <<turnVars, rowVars, hand, tries, claimed, effects>>
  BY DEF PrepareKnown
<1>1. CASE Return(c, "conflict")
  BY <1>1, ReturnPlain
<1>2. CASE Return(c, "turn ended")
  BY <1>2, ReturnPlain
<1>3. CASE SameCall(c) /\ result[KeyOf[c]] # "none" /\ ReturnStored(c)
  BY <1>3, ReturnStoredKeeps DEF SameCall
<1>4. CASE SameCall(c) /\ Goto(c, "claim") /\ UNCHANGED answer
  <2>1. CallerInv(c)'
    BY <1>4 DEF IInv, TypeOK, CallerInv, Claims, Effects, InWork, Answered, PrepareKnown,
       SameCall, Goto, rowVars, Working, Before
  <2> QED
    BY <1>4, <2>1, OwnStep DEF IInv, TypeOK, Goto, Places
<1> QED
  BY <1>1, <1>2, <1>3, <1>4 DEF PrepareKnown

LEMMA LookupKeeps == ASSUME IInv, NEW c \in Callers, Lookup(c) PROVE IInv'
<1>1. /\ UNCHANGED <<turnVars, rowVars, hand, tries, claimed, effects>>
      /\ input[KeyOf[c]] = InputOf[c]
  BY DEF Lookup, IInv, CallerInv, InWork
<1>2. CASE result[KeyOf[c]] # "none"
  BY <1>1, <1>2, ReturnStoredKeeps DEF Lookup
<1>3. CASE ~(result[KeyOf[c]] # "none")
  BY <1>1, <1>3, ReturnPlain DEF Lookup
<1> QED
  BY <1>2, <1>3

LEMMA SaveRefusedKeeps == ASSUME IInv, NEW c \in Callers, SaveRefused(c) PROVE IInv'
<1>1. /\ UNCHANGED <<turnVars, rowVars, hand, tries, claimed, effects>>
      /\ input[KeyOf[c]] = InputOf[c]
  BY DEF SaveRefused, IInv, CallerInv, InWork, Working
<1>2. CASE running /\ result[KeyOf[c]] # "none"
  BY <1>1, <1>2, ReturnStoredKeeps DEF SaveRefused
<1>3. CASE ~(running /\ result[KeyOf[c]] # "none")
  BY <1>1, <1>3, ReturnPlain DEF SaveRefused
<1> QED
  BY <1>2, <1>3

-----------------------------------------------------------------------------
\* The invocation comes to save with an outcome in hand.
LEMMA InHandKeeps ==
  ASSUME IInv, NEW c \in Callers, NEW r \in Final \ {"completed"}, InHand(c, r, "save"),
         claimed[c], input[KeyOf[c]] = InputOf[c],
         UNCHANGED <<turnVars, rowVars, claimed, answer>>,
         tries' \in [Callers -> Nat], effects' \in [Callers -> Nat],
         \A d \in Callers \ {c} : UNCHANGED effects[d],
         effects'[c] <= 1
  PROVE  IInv'
<1>1. /\ at'[c] = "save" /\ hand'[c] = r
      /\ at' \in [Callers -> Places] /\ hand' \in [Callers -> {"none"} \cup Final]
      /\ \A d \in Callers \ {c} : UNCHANGED <<at[d], hand[d], answer[d]>>
      /\ answer' \in [Callers -> Answers]
  BY DEF IInv, TypeOK, InHand, Goto, Places
<1>2. CallerInv(c)'
  BY <1>1 DEF IInv, CallerInv, Claims, Effects, InWork, Answered, rowVars, Working, Before, Final
<1> QED
  BY <1>1, <1>2, OwnStep

\* The invocation moves on to another attempt.
LEMMA AttemptNext ==
  ASSUME IInv, NEW c \in Callers, at[c] \in {"authorize", "execute"}, Goto(c, "attempt"),
         UNCHANGED <<turnVars, rowVars, hand, tries, claimed, effects, answer>>
  PROVE  IInv'
<1>1. /\ at'[c] = "attempt" /\ at' \in [Callers -> Places]
      /\ \A d \in Callers \ {c} : UNCHANGED <<at[d], hand[d], effects[d], answer[d]>>
  BY DEF IInv, TypeOK, Goto, Places
<1>2. CallerInv(c)'
  BY <1>1 DEF IInv, CallerInv, Claims, Effects, InWork, Answered, rowVars, Working, Before
<1>3. /\ hand' \in [Callers -> {"none"} \cup Final] /\ tries' \in [Callers -> Nat]
      /\ effects' \in [Callers -> Nat] /\ answer' \in [Callers -> Answers]
  BY DEF IInv, TypeOK
<1> QED
  BY <1>1, <1>2, <1>3, OwnStep

\* What the invariant says of an invocation at work.
LEMMA AtWork ==
  ASSUME IInv, NEW c \in Callers
  PROVE  /\ at[c] \in Working => claimed[c] /\ input[KeyOf[c]] = InputOf[c]
         /\ at[c] \in Before => effects[c] = 0
         /\ KeyOf[c] \in Keys
         /\ effects \in [Callers -> Nat] /\ tries \in [Callers -> Nat]
BY CallsAssumption DEF IInv, TypeOK, CallerInv, Claims, Effects, InWork

LEMMA AuthorizeKeeps == ASSUME IInv, NEW c \in Callers, Authorize(c) PROVE IInv'
<1>1. /\ UNCHANGED <<turnVars, rowVars, tries, claimed, effects, answer>>
      /\ at[c] = "authorize"
  BY DEF Authorize
<1>2. CASE Goto(c, "attempt") /\ UNCHANGED hand
  BY <1>1, <1>2, AttemptNext
<1>3. CASE \E r \in Failures : InHand(c, r, "save")
  <2>1. PICK r \in Final \ {"completed"} : InHand(c, r, "save")
    BY <1>3 DEF Failures, Final
  <2> QED
    BY <1>1, <2>1, AtWork, InHandKeeps DEF Working, Before
<1> QED
  BY <1>2, <1>3 DEF Authorize

LEMMA TransientKeeps == ASSUME IInv, NEW c \in Callers, Transient(c) PROVE IInv'
<1>1. /\ UNCHANGED <<turnVars, rowVars, tries, claimed, effects, answer>>
      /\ at[c] = "execute"
  BY DEF Transient
<1>2. CASE Goto(c, "attempt") /\ UNCHANGED hand
  BY <1>1, <1>2, AttemptNext
<1>3. CASE InHand(c, "failed", "save")
  BY <1>1, <1>3, AtWork, InHandKeeps DEF Working, Before, Final
<1> QED
  BY <1>2, <1>3 DEF Transient

LEMMA GiveUpKeeps == ASSUME IInv, NEW c \in Callers, GiveUp(c) PROVE IInv'
<1>1. /\ UNCHANGED <<turnVars, rowVars, tries, claimed, answer>>
      /\ at[c] = "execute"
  BY DEF GiveUp
<1>2. PICK r \in Final \ {"completed"} : InHand(c, r, "save")
  BY DEF GiveUp, Failures, Final
<1>3. PICK n \in 0..1 : effects' = [effects EXCEPT ![c] = @ + n]
  BY DEF GiveUp
<1>4. /\ effects' \in [Callers -> Nat] /\ effects'[c] <= 1
      /\ \A d \in Callers \ {c} : UNCHANGED effects[d]
  BY <1>1, <1>3, AtWork DEF Before
<1> QED
  BY <1>1, <1>2, <1>4, AtWork, InHandKeeps DEF Working

LEMMA SucceedKeeps == ASSUME IInv, NEW c \in Callers, Succeed(c) PROVE IInv'
<1>1. /\ UNCHANGED <<turnVars, rowVars, tries, claimed, answer>>
      /\ at[c] = "execute" /\ InHand(c, "completed", "inspect")
      /\ effects' = [effects EXCEPT ![c] = @ + 1]
  BY DEF Succeed
<1>2. /\ at'[c] = "inspect" /\ hand'[c] = "completed" /\ effects'[c] = 1
      /\ at' \in [Callers -> Places] /\ hand' \in [Callers -> {"none"} \cup Final]
      /\ effects' \in [Callers -> Nat]
      /\ \A d \in Callers \ {c} : UNCHANGED <<at[d], hand[d], effects[d], answer[d]>>
  BY <1>1, AtWork DEF IInv, TypeOK, InHand, Goto, Places, Final, Before
<1>3. CallerInv(c)'
  BY <1>1, <1>2 DEF IInv, CallerInv, Claims, Effects, InWork, Answered, rowVars, Working, Before
<1>4. tries' \in [Callers -> Nat] /\ answer' \in [Callers -> Answers]
  BY <1>1 DEF IInv, TypeOK
<1> QED
  BY <1>1, <1>2, <1>3, <1>4, OwnStep

LEMMA RaiseKeeps == ASSUME IInv, NEW c \in Callers, Raise(c) PROVE IInv'
<1>1. /\ UNCHANGED <<turnVars, rowVars, hand, tries, claimed>>
      /\ Return(c, "raised")
  BY DEF Raise
<1>2. PICK n \in 0..1 : /\ n = 1 => at[c] = "execute"
                        /\ effects' = [effects EXCEPT ![c] = @ + n]
  BY DEF Raise
<1>3. /\ effects[c] \in Nat /\ effects[c] <= 1 /\ (effects[c] > 0 => claimed[c])
      /\ at[c] = "execute" => effects[c] = 0 /\ claimed[c]
  BY DEF IInv, TypeOK, CallerInv, Effects, Claims, Working, Before
<1>4. /\ effects' \in [Callers -> Nat] /\ effects'[c] = effects[c] + n
      /\ \A d \in Callers \ {c} : UNCHANGED effects[d]
  BY <1>2, AtWork
<1>5. effects'[c] <= 1 /\ (effects'[c] > 0 => claimed[c])
  BY <1>2, <1>3, <1>4
<1>6. "raised" \in Answers
  BY DEF Answers
<1> QED
  BY <1>1, <1>4, <1>5, <1>6, ReturnKeeps

-----------------------------------------------------------------------------
\* Steps that change the rows of a key.
LEMMA PrepareNewKeeps == ASSUME IInv, NEW c \in Callers, PrepareNew(c) PROVE IInv'
<1> DEFINE k == KeyOf[c]
<1>0. /\ k \in Keys /\ InputOf[c] \in Inputs /\ InputOf[c] # NoInput
      /\ execution[k] = "none" /\ result[k] = "none" /\ context[k] = "active"
  BY CallsAssumption DEF IInv, TypeOK, KeyInv, PrepareNew, Final
<1>1. /\ at' = [at EXCEPT ![c] = "claim"]
      /\ input' = [input EXCEPT ![k] = InputOf[c]]
      /\ execution' = [execution EXCEPT ![k] = "pending"]
      /\ UNCHANGED <<turnVars, attempts, result, context, hand, tries, claimed, effects, answer>>
  BY DEF PrepareNew, Goto
<1> HIDE DEF k
<1>2. TypeOK'
  BY <1>0, <1>1 DEF IInv, TypeOK, Open, Places, turnVars
<1>3. ASSUME NEW d \in Callers PROVE CallerInv(d)'
  <2>1. KeyOf[d] \in Keys /\ InputOf[d] # NoInput
    BY CallsAssumption
  <2>2. CASE KeyOf[d] # k
    <3>1. d # c /\ at'[d] = at[d] /\ input'[KeyOf[d]] = input[KeyOf[d]]
          /\ execution'[KeyOf[d]] = execution[KeyOf[d]]
      BY <2>1, <2>2, <1>0, <1>1 DEF k, IInv, TypeOK
    <3> QED
      BY <3>1, <1>1 DEF IInv, CallerInv, Claims, Effects, InWork, Answered
  <2>3. CASE KeyOf[d] = k
    <3>1. /\ ~claimed[d] /\ at[d] \notin Working \cup {"claim", "lookup"} /\ effects[d] = 0
          /\ answer[d] \notin {"data", "notice", "failure"}
      BY <2>1, <2>3, <1>0, PrepareNew(c) DEF k, PrepareNew, IInv, TypeOK, CallerInv, Claims, Effects,
         InWork, Answered
    <3>2. at'[d] = at[d] \/ (d = c /\ at'[d] = "claim")
      BY <1>1 DEF IInv, TypeOK
    <3>3. input'[k] = InputOf[c]
      BY <1>0, <1>1 DEF IInv, TypeOK
    <3> QED
      BY <3>1, <3>2, <3>3, <2>3, <1>1 DEF CallerInv, Claims, Effects, InWork, Answered, Working
  <2> QED
    BY <2>2, <2>3
<1>4. ASSUME NEW l \in Keys PROVE KeyInv(l)'
  BY <1>0, <1>1 DEF IInv, TypeOK, KeyInv, turnVars, Open, PrepareNew, k
<1>5. OneClaim'
  BY <1>1 DEF IInv, OneClaim
<1> QED
  BY <1>2, <1>3, <1>4, <1>5 DEF IInv

LEMMA ClaimKeeps == ASSUME IInv, NEW c \in Callers, Claim(c) PROVE IInv'
<1> DEFINE k == KeyOf[c]
<1>0. /\ k \in Keys /\ at[c] = "claim" /\ input[k] = InputOf[c] /\ effects[c] = 0
  BY CallsAssumption DEF IInv, CallerInv, InWork, Effects, Claim, Before
<1>1. CASE Claimable(k)
  <2>1. /\ execution[k] = "pending" /\ running
        /\ execution' = [execution EXCEPT ![k] = "running"]
        /\ claimed' = [claimed EXCEPT ![c] = TRUE]
        /\ at' = [at EXCEPT ![c] = "authorize"]
        /\ UNCHANGED <<turnVars, input, attempts, result, context, hand, tries, effects, answer>>
    BY <1>1 DEF Claim, Claimable, Goto
  <2> HIDE DEF k
  <2>2. TypeOK'
    BY <1>0, <2>1 DEF IInv, TypeOK, Open, Places, turnVars
  <2>3. /\ execution'[k] = "running" /\ claimed'[c] /\ at'[c] = "authorize"
        /\ \A d \in Callers \ {c} : at'[d] = at[d] /\ claimed'[d] = claimed[d]
        /\ \A l \in Keys \ {k} : execution'[l] = execution[l]
    BY <1>0, <2>1 DEF IInv, TypeOK
  <2>4. \A d \in Callers : KeyOf[d] = k => ~claimed[d]
    BY <2>1 DEF IInv, CallerInv, Claims
  <2>5. CallerInv(c)'
    BY <1>0, <2>1, <2>3 DEF k, IInv, CallerInv, Claims, Effects, InWork, Answered, Working, Before
  <2>6. ASSUME NEW d \in Callers \ {c} PROVE CallerInv(d)'
    <3>1. KeyOf[d] \in Keys
      BY CallsAssumption
    <3> QED
      BY <3>1, <2>1, <2>3, <2>4 DEF IInv, CallerInv, Claims, Effects, InWork, Answered
  <2>7. ASSUME NEW l \in Keys PROVE KeyInv(l)'
    <3>1. result[k] = "none" /\ input[k] # NoInput
      BY <1>0, <2>1 DEF IInv, TypeOK, KeyInv, Final
    <3>2. CASE l = k
      BY <3>1, <3>2, <2>1, <2>3 DEF IInv, KeyInv, turnVars
    <3>3. CASE l # k
      BY <3>3, <2>1, <2>3 DEF IInv, KeyInv, turnVars
    <3> QED
      BY <3>2, <3>3
  <2>8. OneClaim'
    BY <2>3, <2>4 DEF IInv, OneClaim, k
  <2> QED
    BY <2>2, <2>5, <2>6, <2>7, <2>8 DEF IInv
<1>2. CASE ~Claimable(k)
  <2>1. /\ UNCHANGED <<turnVars, rowVars, hand, tries, claimed, effects, answer>>
        /\ at' = [at EXCEPT ![c] = "lookup"]
    BY <1>2 DEF Claim, Goto, rowVars
  <2>2. /\ at'[c] = "lookup" /\ at' \in [Callers -> Places]
        /\ \A d \in Callers \ {c} : UNCHANGED <<at[d], hand[d], effects[d], answer[d]>>
    BY <2>1 DEF IInv, TypeOK, Places
  <2>3. CallerInv(c)'
    BY <1>0, <2>1, <2>2 DEF IInv, CallerInv, Claims, Effects, InWork, Answered, rowVars, Working, Before
  <2>4. /\ hand' \in [Callers -> {"none"} \cup Final] /\ tries' \in [Callers -> Nat]
        /\ effects' \in [Callers -> Nat] /\ answer' \in [Callers -> Answers]
    BY <2>1 DEF IInv, TypeOK
  <2> QED
    BY <2>1, <2>2, <2>3, <2>4, OwnStep
<1> QED
  BY <1>1, <1>2

\* Counting an attempt changes nothing the invariant speaks of but types.
LEMMA AttemptKeeps == ASSUME IInv, NEW c \in Callers, Attempt(c) PROVE IInv'
<1> DEFINE k == KeyOf[c]
<1>0. /\ k \in Keys /\ at[c] = "attempt" /\ claimed[c] /\ input[k] = InputOf[c] /\ effects[c] = 0
  BY AtWork DEF Attempt, Working, Before
<1>1. CASE ~timeUp /\ execution[k] = "running" /\ running
  <2>1. /\ attempts' = [attempts EXCEPT ![k] = @ + 1]
        /\ tries' = [tries EXCEPT ![c] = @ + 1]
        /\ at' = [at EXCEPT ![c] = "execute"]
        /\ UNCHANGED <<turnVars, input, execution, result, context, hand, claimed, effects, answer>>
    BY <1>1 DEF Attempt, Goto
  <2> HIDE DEF k
  <2>2. /\ attempts' \in [Keys -> Nat] /\ tries' \in [Callers -> Nat]
        /\ at' \in [Callers -> Places] /\ at'[c] = "execute"
        /\ \A d \in Callers \ {c} : at'[d] = at[d]
    BY <1>0, <2>1 DEF IInv, TypeOK, Places
  <2>3. TypeOK'
    BY <2>1, <2>2 DEF IInv, TypeOK, turnVars
  <2>4. ASSUME NEW d \in Callers PROVE CallerInv(d)'
    BY <1>0, <2>1, <2>2 DEF k, IInv, CallerInv, Claims, Effects, InWork, Answered, Working, Before
  <2>5. ASSUME NEW l \in Keys PROVE KeyInv(l)'
    BY <2>1 DEF IInv, KeyInv, turnVars
  <2>6. OneClaim'
    BY <2>1 DEF IInv, OneClaim
  <2> QED
    BY <2>3, <2>4, <2>5, <2>6 DEF IInv
<1>2. CASE ~(~timeUp /\ execution[k] = "running" /\ running)
  <2>1. /\ InHand(c, "cancelled", "save")
        /\ UNCHANGED <<turnVars, rowVars, tries, claimed, effects, answer>>
    BY <1>2 DEF Attempt, rowVars
  <2> QED
    BY <1>0, <2>1, AtWork, InHandKeeps DEF Final
<1> QED
  BY <1>1, <1>2

LEMMA SaveKeeps == ASSUME IInv, NEW c \in Callers, Save(c) PROVE IInv'
<1> DEFINE k == KeyOf[c]
<1>0. /\ k \in Keys /\ claimed[c] /\ input[k] = InputOf[c]
      /\ running /\ result[k] = "none" /\ execution[k] \in Open /\ context[k] = "active"
      /\ at[c] \in {"inspect", "save"} /\ hand[c] \in Final
      /\ at[c] = "inspect" => hand[c] = "completed"
  BY AtWork DEF IInv, CallerInv, InWork, KeyInv, Save, Savable, Working, Final
<1>1. PICK q \in {"active", "blocked"} :
        /\ q = "blocked" => at[c] = "inspect"
        /\ Store(k, hand[c], q)
        /\ Return(c, Told(hand[c], q)) \/ Return(c, "raised")
  BY DEF Save
<1>2. PICK a \in {Told(hand[c], q), "raised"} : Return(c, a)
  BY <1>1
<1>3. /\ a \in Answers
      /\ a = "data" => hand[c] = "completed"
      /\ a = "notice" => q = "blocked"
      /\ a = "failure" => hand[c] # "completed"
      /\ q = "blocked" => hand[c] = "completed"
  BY <1>0, <1>1, <1>2 DEF Told, Answers
<1>4. /\ result' = [result EXCEPT ![k] = hand[c]]
      /\ context' = [context EXCEPT ![k] = q]
      /\ execution' = [execution EXCEPT ![k] = hand[c]]
      /\ at' = [at EXCEPT ![c] = "done"]
      /\ answer' = [answer EXCEPT ![c] = a]
      /\ UNCHANGED <<turnVars, input, attempts, hand, tries, claimed, effects>>
  BY <1>1, <1>2 DEF Store, Return, Goto, Save
<1> HIDE DEF k
<1>5. /\ result'[k] = hand[c] /\ context'[k] = q /\ execution'[k] = hand[c]
      /\ at'[c] = "done" /\ answer'[c] = a
      /\ \A d \in Callers \ {c} : at'[d] = at[d] /\ answer'[d] = answer[d]
      /\ \A l \in Keys \ {k} : /\ result'[l] = result[l] /\ context'[l] = context[l]
                               /\ execution'[l] = execution[l]
  BY <1>0, <1>4 DEF IInv, TypeOK
<1>6. TypeOK'
  BY <1>0, <1>3, <1>4 DEF IInv, TypeOK, turnVars, Contexts, Places
<1>7. CallerInv(c)'
  BY <1>0, <1>3, <1>4, <1>5 DEF k, IInv, CallerInv, Claims, Effects, InWork, Answered, Working, Before, Final
<1>8. ASSUME NEW d \in Callers \ {c} PROVE CallerInv(d)'
  <2>1. CASE KeyOf[d] # k
    <3>1. KeyOf[d] \in Keys \ {k}
      BY <2>1, CallsAssumption
    <3> QED
      BY <3>1, <1>4, <1>5 DEF IInv, CallerInv, Claims, Effects, InWork, Answered
  <2>2. CASE KeyOf[d] = k
    <3>1. ~claimed[d] /\ answer[d] \notin {"data", "notice", "failure"}
      BY <1>0, <2>2 DEF k, IInv, OneClaim, CallerInv, Answered
    <3> QED
      BY <3>1, <2>2, <1>4, <1>5 DEF IInv, CallerInv, Claims, Effects, InWork, Answered
  <2> QED
    BY <2>1, <2>2
<1>9. ASSUME NEW l \in Keys PROVE KeyInv(l)'
  <2>1. CASE l = k
    BY <2>1, <1>0, <1>3, <1>4, <1>5 DEF IInv, KeyInv, turnVars, Open, Final
  <2>2. CASE l # k
    BY <2>2, <1>4, <1>5 DEF IInv, KeyInv, turnVars
  <2> QED
    BY <2>1, <2>2
<1>10. OneClaim'
  BY <1>4 DEF IInv, OneClaim
<1> QED
  BY <1>6, <1>7, <1>8, <1>9, <1>10 DEF IInv

-----------------------------------------------------------------------------
\* Steps of the turn.
LEMMA TimeUpKeeps == ASSUME IInv, TimeUp PROVE IInv'
<1>1. UNCHANGED <<running, rowVars, callVars>> /\ timeUp' \in BOOLEAN
  BY DEF TimeUp
<1>2. TypeOK'
  BY <1>1 DEF IInv, TypeOK, rowVars, callVars
<1>3. ASSUME NEW c \in Callers PROVE CallerInv(c)'
  BY <1>1 DEF IInv, CallerInv, Claims, Effects, InWork, Answered, rowVars, callVars
<1>4. ASSUME NEW k \in Keys PROVE KeyInv(k)'
  BY <1>1 DEF IInv, KeyInv, rowVars
<1>5. OneClaim'
  BY <1>1 DEF IInv, OneClaim, callVars
<1> QED
  BY <1>2, <1>3, <1>4, <1>5 DEF IInv

LEMMA EndTurnKeeps == ASSUME IInv, EndTurn PROVE IInv'
<1>1. /\ running /\ ~running'
      /\ execution' = [k \in Keys |-> Cancelled(execution[k])]
      /\ UNCHANGED <<timeUp, input, attempts, result, context, callVars>>
  BY DEF EndTurn
<1>2. ASSUME NEW k \in Keys
      PROVE  /\ execution'[k] = IF execution[k] \in Open THEN "cancelled" ELSE execution[k]
             /\ execution'[k] \in {"none"} \cup Open \cup Final
  BY <1>1 DEF Cancelled, IInv, TypeOK, Final
<1>3. TypeOK'
  <2>1. execution' \in [Keys -> {"none"} \cup Open \cup Final]
    BY <1>1, <1>2
  <2>2. running' \in BOOLEAN
    BY DEF EndTurn
  <2> QED
    BY <1>1, <2>1, <2>2 DEF IInv, TypeOK, callVars
<1>4. ASSUME NEW c \in Callers PROVE CallerInv(c)'
  <2>1. /\ execution'[KeyOf[c]] =
              IF execution[KeyOf[c]] \in Open THEN "cancelled" ELSE execution[KeyOf[c]]
    BY <1>2, CallsAssumption
  <2> QED
    BY <1>1, <2>1 DEF IInv, CallerInv, Claims, Effects, InWork, Answered, callVars
<1>5. ASSUME NEW k \in Keys PROVE KeyInv(k)'
  <2>1. CASE execution[k] \in Open
    <3>1. result[k] = "none" /\ input[k] # NoInput /\ execution'[k] = "cancelled"
      BY <2>1, <1>2 DEF IInv, TypeOK, KeyInv, Open, Final
    <3> QED
      BY <3>1, <1>1 DEF IInv, KeyInv, Open
  <2>2. CASE execution[k] \notin Open
    BY <2>2, <1>1, <1>2 DEF IInv, KeyInv
  <2> QED
    BY <2>1, <2>2
<1>6. OneClaim'
  BY <1>1 DEF IInv, OneClaim, callVars
<1> QED
  BY <1>3, <1>4, <1>5, <1>6 DEF IInv

LEMMA QuarantineKeeps == ASSUME IInv, NEW k \in Keys, QuarantineLater(k) PROVE IInv'
<1>1. /\ result[k] # "none" /\ context[k] = "active"
      /\ context' = [context EXCEPT ![k] = "later"]
      /\ UNCHANGED <<turnVars, input, execution, attempts, result, callVars>>
  BY DEF QuarantineLater
<1>2. TypeOK'
  BY <1>1 DEF IInv, TypeOK, Contexts, turnVars, callVars
<1>3. /\ context'[k] = "later"
      /\ \A l \in Keys \ {k} : context'[l] = context[l]
  BY <1>1 DEF IInv, TypeOK
<1>4. ASSUME NEW c \in Callers PROVE CallerInv(c)'
  <2>1. KeyOf[c] \in Keys /\ (context[KeyOf[c]] = "blocked" => context'[KeyOf[c]] = "blocked")
    BY <1>1, <1>3, CallsAssumption
  <2> QED
    BY <2>1, <1>1 DEF IInv, CallerInv, Claims, Effects, InWork, Answered, callVars
<1>5. ASSUME NEW l \in Keys PROVE KeyInv(l)'
  <2>1. CASE l = k
    BY <2>1, <1>1, <1>3 DEF IInv, KeyInv, turnVars
  <2>2. CASE l # k
    BY <2>2, <1>1, <1>3 DEF IInv, KeyInv, turnVars
  <2> QED
    BY <2>1, <2>2
<1>6. OneClaim'
  BY <1>1 DEF IInv, OneClaim, callVars
<1> QED
  BY <1>2, <1>4, <1>5, <1>6 DEF IInv

LEMMA StutterKeeps == ASSUME IInv, UNCHANGED vars PROVE IInv'
<1>1. UNCHANGED <<running, timeUp>> /\ UNCHANGED rowVars /\ UNCHANGED callVars
  BY DEF vars, turnVars
<1>2. TypeOK'
  BY <1>1 DEF IInv, TypeOK, rowVars, callVars
<1>3. ASSUME NEW c \in Callers PROVE CallerInv(c)'
  BY <1>1 DEF IInv, CallerInv, Claims, Effects, InWork, Answered, rowVars, callVars
<1>4. ASSUME NEW k \in Keys PROVE KeyInv(k)'
  BY <1>1 DEF IInv, KeyInv, rowVars
<1>5. OneClaim'
  BY <1>1 DEF IInv, OneClaim, callVars
<1> QED
  BY <1>2, <1>3, <1>4, <1>5 DEF IInv

LEMMA Inductive == IInv /\ [Next]_vars => IInv'
<1>1. ASSUME IInv, NEW c \in Callers, Invoke(c) PROVE IInv'
  BY <1>1, StartKeeps, StartEndedKeeps, PrepareNewKeeps, PrepareKnownKeeps, ClaimKeeps,
     LookupKeeps, AuthorizeKeeps, AttemptKeeps, SucceedKeeps, TransientKeeps, GiveUpKeeps,
     SaveKeeps, SaveRefusedKeeps, RaiseKeeps DEF Invoke
<1> QED
  BY <1>1, TimeUpKeeps, EndTurnKeeps, QuarantineKeeps, StutterKeeps DEF Next

\* The strengthened invariant holds in every reachable state.
LEMMA Always == Spec => []IInv
<1> QED
  BY Initially, Inductive, PTL DEF Spec

-----------------------------------------------------------------------------
\* Every variable of the executor has its type, however many invocations run.
THEOREM ToolTypes == Spec => []TypeOK
<1>1. IInv => TypeOK
  BY DEF IInv
<1> QED
  BY <1>1, Always, PTL

\* Any number of invocations of a tool call carry it out at most once.
THEOREM CallCarriedOutOnce == Spec => []CarriedOutOnce
<1>1. IInv => CarriedOutOnce
  BY DEF IInv, OneClaim, CallerInv, Effects, CarriedOutOnce
<1> QED
  BY <1>1, Always, PTL

\* What an invocation is told is the stored result of its own call.
THEOREM AnswersTrue == Spec => []AnswersAreStored
<1>1. IInv => AnswersAreStored
  BY DEF IInv, CallerInv, Answered, AnswersAreStored
<1> QED
  BY <1>1, Always, PTL

\* Executions and results agree, and an ended turn has no open execution.
THEOREM ResultsTrue == Spec => []ResultsMatchExecutions
<1>1. IInv => ResultsMatchExecutions
  BY DEF IInv, KeyInv, ResultsMatchExecutions
<1> QED
  BY <1>1, Always, PTL

\* What a step does to an ended turn, to a stored result and to a quarantine.
Settles ==
  /\ ~running => UNCHANGED <<running, input, execution, attempts, result>>
  /\ \A k \in Keys :
       /\ result[k] # "none" => UNCHANGED <<result[k], attempts[k]>>
       /\ context[k] # "active" => context'[k] = context[k]
  /\ \A c \in Callers :
       context[KeyOf[c]] # "active" /\ answer'[c] = "data" => answer[c] = "data"

\* An invocation that leaves the rows alone and tells nothing, or what is stored.
LEMMA SilentSettles ==
  ASSUME UNCHANGED <<running, rowVars>>,
         \A c \in Callers : answer'[c] = "data" => answer[c] = "data" \/ context[KeyOf[c]] = "active"
  PROVE  Settles
BY DEF Settles, rowVars

LEMMA ReturnSettles ==
  ASSUME IInv, NEW c \in Callers, NEW a, Return(c, a), UNCHANGED <<running, rowVars>>,
         a = "data" => context[KeyOf[c]] = "active"
  PROVE  Settles
<1>1. \A d \in Callers : answer'[d] = IF d = c THEN a ELSE answer[d]
  BY DEF Return, IInv, TypeOK
<1> QED
  BY <1>1, SilentSettles

LEMMA ReturnStoredSettles ==
  ASSUME IInv, NEW c \in Callers, ReturnStored(c), UNCHANGED <<running, rowVars>>
  PROVE  Settles
<1>1. Told(result[KeyOf[c]], context[KeyOf[c]]) = "data" => context[KeyOf[c]] = "active"
  <2>1. context[KeyOf[c]] \in Contexts
    BY CallsAssumption DEF IInv, TypeOK
  <2> QED
    BY <2>1 DEF Told, Contexts
<1> QED
  BY <1>1, ReturnSettles DEF ReturnStored

LEMMA InvokeSettles == ASSUME IInv, NEW c \in Callers, Invoke(c) PROVE Settles
<1>0. KeyOf[c] \in Keys
  BY CallsAssumption
<1>1. CASE \/ Start(c) \/ Authorize(c) \/ Succeed(c) \/ Transient(c) \/ GiveUp(c)
  <2>1. UNCHANGED <<running, rowVars, answer>>
    BY <1>1 DEF Start, Authorize, Succeed, Transient, GiveUp, turnVars
  <2> QED
    BY <2>1, SilentSettles
<1>2. CASE StartEnded(c)
  <2>1. UNCHANGED <<running, rowVars>>
    BY <1>2 DEF StartEnded, turnVars
  <2>2. ReturnStored(c) \/ Return(c, "conflict") \/ Return(c, "turn ended")
    BY <1>2 DEF StartEnded
  <2> QED
    BY <2>1, <2>2, ReturnSettles, ReturnStoredSettles
<1>3. CASE PrepareKnown(c)
  <2>1. UNCHANGED <<running, rowVars>>
    BY <1>3 DEF PrepareKnown, turnVars
  <2>2. ReturnStored(c) \/ Return(c, "conflict") \/ Return(c, "turn ended") \/ UNCHANGED answer
    BY <1>3 DEF PrepareKnown
  <2> QED
    BY <2>1, <2>2, ReturnSettles, ReturnStoredSettles, SilentSettles
<1>4. CASE Lookup(c)
  <2>1. UNCHANGED <<running, rowVars>>
    BY <1>4 DEF Lookup, turnVars
  <2>2. ReturnStored(c) \/ Return(c, "in progress")
    BY <1>4 DEF Lookup
  <2> QED
    BY <2>1, <2>2, ReturnSettles, ReturnStoredSettles
<1>5. CASE SaveRefused(c)
  <2>1. UNCHANGED <<running, rowVars>>
    BY <1>5 DEF SaveRefused, turnVars
  <2>2. ReturnStored(c) \/ Return(c, "turn ended")
    BY <1>5 DEF SaveRefused
  <2> QED
    BY <2>1, <2>2, ReturnSettles, ReturnStoredSettles
<1>6. CASE Raise(c)
  BY <1>6, ReturnSettles DEF Raise, turnVars
<1>7. CASE PrepareNew(c)
  BY <1>7 DEF PrepareNew, Settles
<1>8. CASE Claim(c)
  BY <1>8 DEF Claim, Claimable, Settles, turnVars
<1>9. CASE Attempt(c)
  <2>1. CASE ~timeUp /\ execution[KeyOf[c]] = "running" /\ running
    <3>1. result[KeyOf[c]] = "none"
      BY <1>0, <2>1 DEF IInv, TypeOK, KeyInv, Final
    <3>2. /\ attempts' = [attempts EXCEPT ![KeyOf[c]] = @ + 1]
          /\ UNCHANGED <<turnVars, input, execution, result, context, answer>>
      BY <1>9, <2>1 DEF Attempt
    <3>3. \A k \in Keys : result[k] # "none" => attempts'[k] = attempts[k]
      BY <3>1, <3>2 DEF IInv, TypeOK
    <3> QED
      BY <3>2, <3>3, <2>1 DEF Settles
  <2>2. CASE ~(~timeUp /\ execution[KeyOf[c]] = "running" /\ running)
    <3>1. UNCHANGED <<running, rowVars, answer>>
      BY <1>9, <2>2 DEF Attempt, turnVars, rowVars
    <3> QED
      BY <3>1, SilentSettles
  <2> QED
    BY <2>1, <2>2
<1>10. CASE Save(c)
  <2>1. /\ running /\ result[KeyOf[c]] = "none" /\ UNCHANGED attempts
    BY <1>10 DEF Save, Savable
  <2>2. PICK q, a : /\ result' = [result EXCEPT ![KeyOf[c]] = hand[c]]
                    /\ context' = [context EXCEPT ![KeyOf[c]] = q]
                    /\ answer' = [answer EXCEPT ![c] = a]
    BY <1>10 DEF Save, Store, Return
  <2>3. context[KeyOf[c]] = "active"
    BY <1>0, <2>1 DEF IInv, KeyInv
  <2>4. \A k \in Keys : /\ result[k] # "none" => result'[k] = result[k]
                        /\ context[k] # "active" => context'[k] = context[k]
    BY <2>1, <2>2, <2>3 DEF IInv, TypeOK
  <2>5. \A d \in Callers : d # c => answer'[d] = answer[d]
    BY <2>2 DEF IInv, TypeOK
  <2> QED
    BY <2>1, <2>3, <2>4, <2>5 DEF Settles
<1> QED
  BY <1>1, <1>2, <1>3, <1>4, <1>5, <1>6, <1>7, <1>8, <1>9, <1>10 DEF Invoke

\* An ended turn and a stored result stay as they are, whoever comes late, and
\* nobody is given the data of a quarantined result.
THEOREM EndedStays == Spec => EndedIsFinal
<1>1. IInv /\ [Next]_vars => [Settles]_vars
  <2> SUFFICES ASSUME IInv, Next PROVE Settles
    OBVIOUS
  <2>1. CASE TimeUp
    BY <2>1, SilentSettles DEF TimeUp, callVars
  <2>2. CASE EndTurn
    BY <2>2 DEF EndTurn, Settles, callVars
  <2>3. ASSUME NEW k \in Keys, QuarantineLater(k) PROVE Settles
    <3>1. \A l \in Keys : context[l] # "active" => context'[l] = context[l]
      BY <2>3 DEF QuarantineLater, IInv, TypeOK
    <3> QED
      BY <2>3, <3>1 DEF QuarantineLater, Settles, turnVars, callVars
  <2> QED
    BY <2>1, <2>2, <2>3, InvokeSettles DEF Next
<1>2. [][Settles]_vars => EndedIsFinal
  BY PTL DEF EndedIsFinal, Settles
<1> QED
  BY <1>1, <1>2, Always, PTL DEF Spec

-----------------------------------------------------------------------------
(***************************************************************************)
(* What results say about effects, and the refinement of the contract.     *)
(* Until an invocation returns, it has told nobody anything, and if it has *)
(* claimed the execution, no result is stored: only it can store one.      *)
(***************************************************************************)
Certain(c) ==
  /\ at[c] # "done" => answer[c] = "none"
  /\ claimed[c] /\ result[KeyOf[c]] # "none" => at[c] = "done"
  /\ at[c] = "inspect" => effects[c] = 1
  /\ at[c] = "save" /\ hand[c] = "cancelled" => effects[c] = 0
  /\ result[KeyOf[c]] = "cancelled" => effects[c] = 0

\* While the turn runs, only a saved result cancels an execution; and a
\* completed call was carried out by somebody.
Honest(k) ==
  /\ running /\ execution[k] = "cancelled" => result[k] = "cancelled"
  /\ result[k] = "completed" => \E c \in Callers : KeyOf[c] = k /\ effects[c] = 1

CInv == (\A c \in Callers : Certain(c)) /\ (\A k \in Keys : Honest(k))

\* An invocation that does not save keeps it, if it answers only when it
\* returns and carries the call out only while it executes it.
LEMMA OwnHonest ==
  ASSUME IInv, CInv, NEW c \in Callers, at[c] # "done",
         UNCHANGED <<running, result>>,
         \A l \in Keys : execution'[l] = "cancelled" => execution[l] = "cancelled",
         \A d \in Callers \ {c} :
           UNCHANGED <<at[d], hand[d], claimed[d], effects[d], answer[d]>>,
         claimed'[c] => claimed[c] \/ result[KeyOf[c]] = "none",
         effects'[c] = effects[c] \/ at[c] = "execute",
         at'[c] # "done" => answer'[c] = answer[c],
         at'[c] = "inspect" => effects'[c] = 1,
         at'[c] = "save" /\ hand'[c] = "cancelled" => effects'[c] = 0
  PROVE  CInv'
<1>1. at[c] = "execute" => claimed[c] /\ effects[c] = 0
  BY AtWork DEF Working, Before
<1>2. Certain(c)'
  BY <1>1 DEF CInv, Certain
<1>3. ASSUME NEW d \in Callers \ {c} PROVE Certain(d)'
  BY DEF CInv, Certain
<1>4. ASSUME NEW k \in Keys PROVE Honest(k)'
  <2>1. ASSUME NEW d \in Callers, effects[d] = 1 PROVE effects'[d] = 1
    BY <2>1, <1>1
  <2> QED
    BY <2>1 DEF CInv, Honest
<1> QED
  BY <1>2, <1>3, <1>4 DEF CInv

\* What the parts of the actions write.
LEMMA Writes ==
  ASSUME IInv, NEW c \in Callers
  PROVE  /\ \A p : Goto(c, p) => at'[c] = p /\ \A d \in Callers \ {c} : at'[d] = at[d]
         /\ \A a : Return(c, a) => /\ at'[c] = "done" /\ answer'[c] = a
                                   /\ \A d \in Callers \ {c} : UNCHANGED <<at[d], answer[d]>>
         /\ \A r, p : InHand(c, r, p) => /\ at'[c] = p /\ hand'[c] = r
                                         /\ \A d \in Callers \ {c} : UNCHANGED <<at[d], hand[d]>>
         /\ \A n \in Nat : effects' = [effects EXCEPT ![c] = @ + n] =>
              /\ effects'[c] = effects[c] + n
              /\ \A d \in Callers \ {c} : effects'[d] = effects[d]
BY DEF IInv, TypeOK, Goto, Return, InHand

\* An invocation that returns and leaves the rows alone.
LEMMA ReturnHonest ==
  ASSUME IInv, CInv, NEW c \in Callers, at[c] # "done", NEW a, Return(c, a),
         UNCHANGED <<turnVars, rowVars, hand, claimed, effects>>
  PROVE  CInv'
BY Writes, OwnHonest DEF turnVars, rowVars

\* Returns that change no row.
Returns(c) ==
  StartEnded(c) \/ (PrepareKnown(c) /\ at'[c] = "done") \/ Lookup(c) \/ SaveRefused(c)

LEMMA ReturnsOnly ==
  ASSUME IInv, NEW c \in Callers, Returns(c)
  PROVE  /\ at[c] # "done" /\ UNCHANGED <<turnVars, rowVars, hand, tries, claimed, effects>>
         /\ \E a : Return(c, a)
<1>1. /\ at[c] # "done" /\ UNCHANGED <<turnVars, rowVars, hand, tries, claimed, effects>>
  BY DEF Returns, StartEnded, PrepareKnown, Lookup, SaveRefused
<1>2. ReturnStored(c) => \E a : Return(c, a)
  BY DEF ReturnStored
<1>3. ~(Goto(c, "claim") /\ at'[c] = "done")
  BY Writes
<1>4. \E a : Return(c, a)
  BY <1>2, <1>3 DEF Returns, StartEnded, PrepareKnown, Lookup, SaveRefused
<1> QED
  BY <1>1, <1>4

\* Steps of an invocation that leave everything but its own place alone.
LEMMA OwnStepsHonest ==
  ASSUME IInv, CInv, NEW c \in Callers,
         \/ Start(c) \/ Returns(c) \/ PrepareKnown(c) \/ Authorize(c) \/ Attempt(c)
         \/ Succeed(c) \/ Transient(c) \/ GiveUp(c) \/ Raise(c)
  PROVE  CInv'
<1>1. CASE Start(c)
  BY <1>1, Writes, OwnHonest DEF Start, turnVars, rowVars
<1>2. CASE Returns(c)
  BY <1>2, ReturnsOnly, ReturnHonest
<1>3. CASE PrepareKnown(c)
  <2>1. CASE Goto(c, "claim") /\ UNCHANGED answer
    <3>1. at[c] = "prepare" /\ UNCHANGED <<turnVars, rowVars, hand, claimed, effects>>
      BY <1>3 DEF PrepareKnown
    <3> QED
      BY <2>1, <3>1, Writes, OwnHonest DEF turnVars, rowVars
  <2>2. CASE at'[c] = "done"
    BY <1>3, <2>2, ReturnsOnly, ReturnHonest DEF Returns
  <2>3. \A a : Return(c, a) => at'[c] = "done"
    BY Writes
  <2> QED
    BY <1>3, <2>1, <2>2, <2>3 DEF PrepareKnown, ReturnStored
<1>4. CASE Authorize(c)
  <2>1. /\ at[c] = "authorize" /\ UNCHANGED <<turnVars, rowVars, claimed, effects, answer>>
        /\ \/ Goto(c, "attempt") /\ UNCHANGED hand
           \/ \E r \in Failures : InHand(c, r, "save")
    BY <1>4 DEF Authorize
  <2> QED
    BY <2>1, Writes, OwnHonest DEF turnVars, rowVars, Failures
<1>5. CASE Attempt(c)
  <2>1. /\ at[c] = "attempt" /\ UNCHANGED <<running, execution, result, claimed, effects, answer>>
        /\ \/ Goto(c, "execute") /\ UNCHANGED hand
           \/ InHand(c, "cancelled", "save")
    BY <1>5 DEF Attempt, turnVars
  <2>2. effects[c] = 0
    BY <2>1, AtWork DEF Before
  <2> QED
    BY <2>1, <2>2, Writes, OwnHonest
<1>6. CASE Succeed(c)
  <2>1. effects[c] = 0
    BY <1>6, AtWork DEF Succeed, Before
  <2>2. /\ at[c] = "execute" /\ UNCHANGED <<turnVars, rowVars, claimed, answer>>
        /\ InHand(c, "completed", "inspect")
        /\ effects' = [effects EXCEPT ![c] = @ + 1]
    BY <1>6 DEF Succeed
  <2>3. effects'[c] = 1 /\ \A d \in Callers \ {c} : effects'[d] = effects[d]
    BY <2>1, <2>2 DEF IInv, TypeOK
  <2> QED
    BY <2>2, <2>3, Writes, OwnHonest DEF turnVars, rowVars
<1>7. CASE Transient(c)
  <2>1. /\ at[c] = "execute" /\ UNCHANGED <<turnVars, rowVars, claimed, effects, answer>>
        /\ \/ Goto(c, "attempt") /\ UNCHANGED hand
           \/ InHand(c, "failed", "save")
    BY <1>7 DEF Transient
  <2> QED
    BY <2>1, Writes, OwnHonest DEF turnVars, rowVars
<1>8. CASE GiveUp(c)
  <2>1. /\ at[c] = "execute" /\ UNCHANGED <<turnVars, rowVars, claimed, answer>>
        /\ \E r \in Failures : InHand(c, r, "save")
    BY <1>8 DEF GiveUp
  <2>2. PICK n \in 0..1 : effects' = [effects EXCEPT ![c] = @ + n]
    BY <1>8 DEF GiveUp
  <2>3. \A d \in Callers \ {c} : effects'[d] = effects[d]
    BY <2>2, Writes
  <2> QED
    BY <2>1, <2>3, Writes, OwnHonest DEF turnVars, rowVars, Failures
<1>9. CASE Raise(c)
  <2>1. /\ at[c] # "done" /\ UNCHANGED <<turnVars, rowVars, hand, claimed>>
        /\ Return(c, "raised")
    BY <1>9 DEF Raise
  <2>2. PICK n \in 0..1 : /\ n = 1 => at[c] = "execute"
                          /\ effects' = [effects EXCEPT ![c] = @ + n]
    BY <1>9 DEF Raise
  <2>3. effects[c] \in Nat
    BY AtWork
  <2>4. /\ effects'[c] = effects[c] \/ at[c] = "execute"
        /\ \A d \in Callers \ {c} : effects'[d] = effects[d]
    BY <2>2, <2>3, Writes
  <2> QED
    BY <2>1, <2>4, Writes, OwnHonest DEF turnVars, rowVars
<1> QED
  BY <1>1, <1>2, <1>3, <1>4, <1>5, <1>6, <1>7, <1>8, <1>9

\* The steps that write rows of a call.
LEMMA RowStepsHonest ==
  ASSUME IInv, CInv, NEW c \in Callers, PrepareNew(c) \/ Claim(c)
  PROVE  CInv'
<1>0. KeyOf[c] \in Keys /\ execution \in [Keys -> {"none"} \cup Open \cup Final]
  BY CallsAssumption DEF IInv, TypeOK
<1>1. CASE PrepareNew(c)
  <2>1. /\ at[c] = "prepare" /\ Goto(c, "claim")
        /\ UNCHANGED <<running, result, hand, claimed, effects, answer>>
        /\ execution' = [execution EXCEPT ![KeyOf[c]] = "pending"]
    BY <1>1 DEF PrepareNew, turnVars
  <2>2. \A l \in Keys : execution'[l] = "cancelled" => execution[l] = "cancelled"
    BY <1>0, <2>1
  <2> QED
    BY <2>1, <2>2, Writes, OwnHonest
<1>2. CASE Claim(c)
  <2>1. /\ at[c] = "claim" /\ UNCHANGED <<running, result, hand, effects, answer>>
    BY <1>2 DEF Claim, turnVars
  <2>2. CASE Claimable(KeyOf[c])
    <3>1. /\ execution' = [execution EXCEPT ![KeyOf[c]] = "running"]
          /\ claimed' = [claimed EXCEPT ![c] = TRUE]
          /\ Goto(c, "authorize") /\ execution[KeyOf[c]] = "pending"
      BY <1>2, <2>2 DEF Claim, Claimable
    <3>2. \A l \in Keys : execution'[l] = "cancelled" => execution[l] = "cancelled"
      BY <1>0, <3>1
    <3>3. result[KeyOf[c]] = "none"
      BY <1>0, <3>1 DEF IInv, TypeOK, KeyInv, Final
    <3>4. \A d \in Callers \ {c} : claimed'[d] = claimed[d]
      BY <3>1 DEF IInv, TypeOK
    <3>5. at'[c] = "authorize" /\ \A d \in Callers \ {c} : at'[d] = at[d]
      BY <3>1, Writes
    <3> QED
      BY <2>1, <3>2, <3>3, <3>4, <3>5, OwnHonest
  <2>3. CASE ~Claimable(KeyOf[c])
    <3>1. Goto(c, "lookup") /\ UNCHANGED <<execution, claimed>>
      BY <1>2, <2>3 DEF Claim
    <3> QED
      BY <2>1, <3>1, Writes, OwnHonest
  <2> QED
    BY <2>2, <2>3
<1> QED
  BY <1>1, <1>2

\* The others with the key of one that has claimed it have done nothing.
LEMMA Alone ==
  ASSUME IInv, NEW c \in Callers, claimed[c], NEW d \in Callers \ {c}, KeyOf[d] = KeyOf[c]
  PROVE  ~claimed[d] /\ effects[d] = 0
BY DEF IInv, TypeOK, OneClaim, CallerInv, Effects

LEMMA SaveHonest ==
  ASSUME IInv, CInv, NEW c \in Callers, Save(c)
  PROVE  CInv'
<1> DEFINE k == KeyOf[c]
<1>0. /\ k \in Keys /\ claimed[c] /\ running
      /\ at[c] \in {"inspect", "save"}
      /\ result \in [Keys -> {"none"} \cup Final]
      /\ execution \in [Keys -> {"none"} \cup Open \cup Final]
  BY AtWork DEF Save, Savable, Working, IInv, TypeOK
<1>1. /\ UNCHANGED <<running, hand, claimed, effects>>
      /\ result' = [result EXCEPT ![k] = hand[c]]
      /\ execution' = [execution EXCEPT ![k] = hand[c]]
      /\ \E a : Return(c, a)
  BY DEF Save, Store, turnVars
<1>2. /\ hand[c] = "completed" => effects[c] = 1
      /\ hand[c] = "cancelled" => effects[c] = 0
  BY <1>0 DEF CInv, Certain, IInv, CallerInv, InWork
<1> HIDE DEF k
<1>3. /\ at'[c] = "done" /\ \A d \in Callers \ {c} : UNCHANGED <<at[d], answer[d]>>
      /\ result'[k] = hand[c] /\ execution'[k] = hand[c]
      /\ \A l \in Keys \ {k} : result'[l] = result[l] /\ execution'[l] = execution[l]
  BY <1>0, <1>1, Writes
<1>4. ASSUME NEW d \in Callers PROVE Certain(d)'
  <2>1. KeyOf[d] \in Keys
    BY CallsAssumption
  <2>2. CASE d = c
    BY <2>2, <1>1, <1>2, <1>3 DEF CInv, Certain, k
  <2>3. CASE d # c /\ KeyOf[d] = k
    <3>1. ~claimed[d] /\ effects[d] = 0
      BY <1>0, <2>3, Alone DEF k
    <3> QED
      BY <2>3, <3>1, <1>1, <1>3 DEF CInv, Certain
  <2>4. CASE d # c /\ KeyOf[d] # k
    BY <2>1, <2>4, <1>1, <1>3 DEF CInv, Certain
  <2> QED
    BY <2>2, <2>3, <2>4
<1>5. ASSUME NEW l \in Keys PROVE Honest(l)'
  BY <1>1, <1>2, <1>3 DEF CInv, Honest, k
<1> QED
  BY <1>4, <1>5 DEF CInv

LEMMA HonestInductive == IInv /\ CInv /\ [Next]_vars => CInv'
<1> SUFFICES ASSUME IInv, CInv, [Next]_vars PROVE CInv'
  OBVIOUS
<1>1. ASSUME NEW c \in Callers, Invoke(c) PROVE CInv'
  BY <1>1, OwnStepsHonest, RowStepsHonest, SaveHonest DEF Invoke, Returns
<1>2. CASE TimeUp \/ (\E k \in Keys : QuarantineLater(k)) \/ UNCHANGED vars
  <2>1. UNCHANGED <<running, execution, result, callVars>>
    BY <1>2 DEF TimeUp, QuarantineLater, vars, turnVars, rowVars
  <2> QED
    BY <2>1 DEF CInv, Certain, Honest, callVars
<1>3. CASE EndTurn
  <2>1. ~running' /\ UNCHANGED <<result, callVars>>
    BY <1>3 DEF EndTurn
  <2> QED
    BY <2>1 DEF CInv, Certain, Honest, callVars
<1> QED
  BY <1>1, <1>2, <1>3 DEF Next

LEMMA AlwaysHonest == Spec => [](IInv /\ CInv)
<1>1. Init => CInv
  BY CallsAssumption DEF Init, CInv, Certain, Honest
<1> QED
  BY <1>1, HonestInductive, Always, PTL DEF Spec

\* How often a call was carried out, for any count of the effects.
CarriedBy(f, k) == UNION {{c} \X (1 .. f[c]) : c \in {d \in Callers : KeyOf[d] = k}}

LEMMA CountNone ==
  ASSUME NEW f, NEW k, \A d \in Callers : KeyOf[d] = k => f[d] = 0
  PROVE  Cardinality(CarriedBy(f, k)) = 0
<1>1. 1 .. 0 = {}
  OBVIOUS
<1>2. CarriedBy(f, k) = {}
  <2> SUFFICES ASSUME NEW c \in Callers, KeyOf[c] = k PROVE {c} \X (1 .. f[c]) = {}
    BY DEF CarriedBy
  <2>1. 1 .. f[c] = {}
    BY <1>1
  <2> QED
    BY <2>1
<1> QED
  BY <1>2, FS_EmptySet

LEMMA CountOne ==
  ASSUME NEW f, NEW k, NEW c \in Callers, KeyOf[c] = k, f[c] = 1,
         \A d \in Callers \ {c} : KeyOf[d] = k => f[d] = 0
  PROVE  Cardinality(CarriedBy(f, k)) = 1
<1>1. 1 .. 0 = {} /\ 1 .. 1 = {1}
  OBVIOUS
<1>2. ASSUME NEW d \in Callers, KeyOf[d] = k
      PROVE  {d} \X (1 .. f[d]) = IF d = c THEN {<<c, 1>>} ELSE {}
  <2>1. CASE d = c
    <3>1. 1 .. f[d] = {1}
      BY <1>1, <2>1
    <3>2. {c} \X {1} = {<<c, 1>>}
      OBVIOUS
    <3> QED
      BY <2>1, <3>1, <3>2
  <2>2. CASE d # c
    <3>1. 1 .. f[d] = {}
      BY <1>1, <1>2, <2>2
    <3> QED
      BY <2>2, <3>1
  <2> QED
    BY <2>1, <2>2
<1>3. CarriedBy(f, k) = {<<c, 1>>}
  BY <1>2 DEF CarriedBy
<1> QED
  BY <1>3, FS_Singleton

\* Who has claimed an execution is the only one to carry the call out.
LEMMA CarriedByClaimer ==
  ASSUME IInv, NEW c \in Callers, claimed[c]
  PROVE  /\ effects[c] = 0 => Cardinality(Carried(KeyOf[c])) = 0
         /\ effects[c] = 1 => Cardinality(Carried(KeyOf[c])) = 1
<1>1. \A d \in Callers \ {c} : KeyOf[d] = KeyOf[c] => effects[d] = 0
  BY Alone
<1>2. Carried(KeyOf[c]) = CarriedBy(effects, KeyOf[c])
  BY DEF Carried, CarriedBy
<1>3. CASE effects[c] = 0
  <2>1. \A d \in Callers : KeyOf[d] = KeyOf[c] => effects[d] = 0
    BY <1>1, <1>3
  <2> QED
    BY <1>2, <1>3, <2>1, CountNone
<1>4. CASE effects[c] = 1
  BY <1>1, <1>2, <1>4, CountOne
<1> QED
  BY <1>3, <1>4

\* A result tells truly whether its call was carried out.
THEOREM EffectsTold == Spec => []ResultsTellEffects
<1>1. IInv /\ CInv => ResultsTellEffects
  <2> SUFFICES ASSUME IInv, CInv, NEW k \in Keys
               PROVE  /\ result[k] = "completed" => Cardinality(Carried(k)) = 1
                      /\ result[k] = "cancelled" => Cardinality(Carried(k)) = 0
    BY DEF ResultsTellEffects
  <2>1. ASSUME result[k] = "completed" PROVE Cardinality(Carried(k)) = 1
    <3>1. PICK c \in Callers : KeyOf[c] = k /\ effects[c] = 1
      BY <2>1 DEF CInv, Honest
    <3>2. claimed[c]
      BY <3>1 DEF IInv, CallerInv, Effects
    <3> QED
      BY <3>1, <3>2, CarriedByClaimer
  <2>2. ASSUME result[k] = "cancelled" PROVE Cardinality(Carried(k)) = 0
    <3>1. \A d \in Callers : KeyOf[d] = k => effects[d] = 0
      BY <2>2 DEF CInv, Certain
    <3> QED
      BY <3>1, CountNone DEF Carried, CarriedBy
  <2> QED
    BY <2>1, <2>2
<1> QED
  BY <1>1, AlwaysHonest, PTL

-----------------------------------------------------------------------------
(***************************************************************************)
(* The refinement.  What the contract sees:                                *)
(***************************************************************************)
Seen == <<running, input, outcomes, carriedOut, context, answer>>

LEMMA CountsKept == ASSUME UNCHANGED effects PROVE UNCHANGED carriedOut
<1>1. \A k \in Keys : Carried(k)' = Carried(k)
  BY DEF Carried
<1> QED
  BY <1>1 DEF carriedOut

\* Outcomes stay if results do and no execution is opened or closed.
LEMMA OutcomesKept ==
  ASSUME UNCHANGED result,
         \A k \in Keys : execution'[k] = execution[k] \/ {execution[k], execution'[k]} \subseteq Open
  PROVE  UNCHANGED outcomes
<1>1. \A k \in Keys : Outcome(k)' = Outcome(k)
  BY DEF Outcome
<1> QED
  BY <1>1 DEF outcomes

LEMMA RowsKept ==
  ASSUME UNCHANGED rowVars
  PROVE  UNCHANGED <<input, result, outcomes, context>>
BY OutcomesKept DEF rowVars

\* Who has come to work on a call without a result finds it open, or
\* cancelled with its turn.
LEMMA AtWorkOpen ==
  ASSUME IInv, CInv, NEW c \in Callers, at[c] # "done",
         claimed[c] \/ (input[KeyOf[c]] # NoInput /\ result[KeyOf[c]] = "none")
  PROVE  /\ result[KeyOf[c]] = "none"
         /\ outcomes[KeyOf[c]] \in {"open", "cancelled"}
         /\ running => execution[KeyOf[c]] \in Open /\ outcomes[KeyOf[c]] = "open"
<1> DEFINE k == KeyOf[c]
<1>1. k \in Keys
  BY CallsAssumption
<1>2. result[k] = "none"
  BY DEF CInv, Certain
<1>3. execution[k] \in Open \cup {"cancelled"}
  <2>1. execution[k] # "none"
    BY <1>1 DEF IInv, KeyInv, CallerInv, Claims
  <2> QED
    BY <1>1, <1>2, <2>1 DEF IInv, KeyInv, TypeOK, Final
<1>4. running => execution[k] \in Open
  BY <1>1, <1>2, <1>3 DEF CInv, Honest
<1>5. outcomes[k] = Outcome(k)
  BY <1>1 DEF outcomes
<1> QED
  BY <1>2, <1>3, <1>4, <1>5 DEF Outcome, Open

\* What is told of a stored result is what the contract says of it.
LEMMA ToldSays ==
  ASSUME IInv, NEW k \in Keys, result[k] # "none"
  PROVE  /\ outcomes[k] \in Contract!Results
         /\ Told(result[k], context[k]) =
              IF context[k] = "later" THEN "raised" ELSE Contract!Saying(outcomes[k], context[k])
<1>1. /\ result[k] \in Final /\ context[k] \in Contexts
      /\ outcomes[k] = IF result[k] = "cancelled" THEN "not done" ELSE result[k]
  BY DEF IInv, TypeOK, outcomes, Outcome
<1>2. outcomes[k] \in Contract!Results
  BY <1>1 DEF Final, Contract!Results
<1>3. CASE context[k] = "later"
  BY <1>2, <1>3 DEF Told
<1>4. CASE context[k] = "blocked"
  BY <1>2, <1>4 DEF Told, Contract!Saying
<1>5. CASE context[k] = "active"
  <2>1. Told(result[k], context[k]) = IF result[k] = "completed" THEN "data" ELSE "failure"
    BY <1>5 DEF Told
  <2>2. (outcomes[k] = "completed") <=> (result[k] = "completed")
    BY <1>1
  <2> QED
    BY <1>2, <1>5, <2>1, <2>2 DEF Contract!Saying
<1> QED
  BY <1>1, <1>2, <1>3, <1>4, <1>5 DEF Contexts

\* An invocation that returns and leaves the rest alone answers.
LEMMA AnswerMaps ==
  ASSUME IInv, CInv, NEW c \in Callers, at[c] # "done",
         UNCHANGED <<turnVars, rowVars, effects>>,
         NEW a, Return(c, a),
         LET k == KeyOf[c] IN
           \/ /\ input[k] = InputOf[c] /\ outcomes[k] \in Contract!Results
              /\ context[k] # "later" /\ a = Contract!Saying(outcomes[k], context[k])
           \/ /\ input[k] = InputOf[c] /\ outcomes[k] \in {"open", "cancelled"}
              /\ a = "in progress"
           \/ input[k] \notin {NoInput, InputOf[c]} /\ a = "conflict"
           \/ ~running /\ a = "turn ended"
           \/ a = "raised"
  PROVE  Contract!Answer(c)
<1>1. UNCHANGED <<running, input, outcomes, carriedOut, context>>
  BY RowsKept, CountsKept DEF turnVars
<1>2. Contract!Tell(c, a)
  BY DEF Contract!Tell, Return, CInv, Certain
<1> QED
  BY <1>1, <1>2 DEF Contract!Answer

LEMMA StoredMaps ==
  ASSUME IInv, CInv, NEW c \in Callers, at[c] # "done",
         UNCHANGED <<turnVars, rowVars, effects>>, ReturnStored(c),
         SameCall(c), result[KeyOf[c]] # "none"
  PROVE  Contract!Answer(c)
<1>0. KeyOf[c] \in Keys
  BY CallsAssumption
<1> QED
  BY <1>0, ToldSays, AnswerMaps DEF ReturnStored, SameCall

LEMMA ReturnsMap ==
  ASSUME IInv, CInv, NEW c \in Callers, Returns(c)
  PROVE  Contract!Answer(c)
<1>0. /\ at[c] # "done" /\ UNCHANGED <<turnVars, rowVars, effects>>
      /\ at[c] \in Working \cup {"claim", "lookup"} => input[KeyOf[c]] = InputOf[c]
      /\ InputOf[c] # NoInput
  BY ReturnsOnly, CallsAssumption DEF IInv, CallerInv, InWork
<1>1. CASE StartEnded(c)
  <2>1. \/ Return(c, "conflict") /\ input[KeyOf[c]] \notin {NoInput, InputOf[c]}
        \/ Return(c, "turn ended") /\ ~running
        \/ ReturnStored(c) /\ SameCall(c) /\ result[KeyOf[c]] # "none"
    BY <1>1 DEF StartEnded, SameCall
  <2> QED
    BY <1>0, <2>1, StoredMaps, AnswerMaps
<1>2. CASE PrepareKnown(c) /\ at'[c] = "done"
  <2>1. \/ Return(c, "conflict") /\ input[KeyOf[c]] \notin {NoInput, InputOf[c]}
        \/ Return(c, "turn ended") /\ ~running
        \/ ReturnStored(c) /\ SameCall(c) /\ result[KeyOf[c]] # "none"
    <3>1. ~Goto(c, "claim")
      BY <1>2, Writes
    <3> QED
      BY <1>2, <3>1 DEF PrepareKnown, SameCall
  <2> QED
    BY <1>0, <2>1, StoredMaps, AnswerMaps
<1>3. CASE Lookup(c)
  <2>1. CASE result[KeyOf[c]] # "none"
    BY <1>0, <1>3, <2>1, StoredMaps DEF Lookup, SameCall
  <2>2. CASE result[KeyOf[c]] = "none"
    <3>1. at[c] = "lookup" /\ Return(c, "in progress")
      BY <1>3, <2>2 DEF Lookup
    <3>2. input[KeyOf[c]] = InputOf[c]
      BY <1>0, <3>1
    <3>3. outcomes[KeyOf[c]] \in {"open", "cancelled"}
      BY <1>0, <2>2, <3>2, AtWorkOpen
    <3> QED
      BY <1>0, <3>1, <3>2, <3>3, AnswerMaps
  <2> QED
    BY <2>1, <2>2
<1>4. CASE SaveRefused(c)
  <2>1. claimed[c] /\ ~Savable(KeyOf[c])
    BY <1>4, AtWork DEF SaveRefused, Working
  <2>2. result[KeyOf[c]] = "none" /\ ~running
    BY <1>0, <2>1, AtWorkOpen DEF Savable
  <2>3. Return(c, "turn ended")
    BY <1>4, <2>2 DEF SaveRefused
  <2> QED
    BY <1>0, <2>2, <2>3, AnswerMaps
<1> QED
  BY <1>1, <1>2, <1>3, <1>4 DEF Returns

\* The call is carried out: what an invocation does while it executes it.
LEMMA CarryOutMaps ==
  ASSUME IInv, IInv', CInv, NEW c \in Callers, at[c] = "execute",
         UNCHANGED <<turnVars, rowVars, claimed>>, effects'[c] = 1,
         \A d \in Callers \ {c} : effects'[d] = effects[d],
         answer' = answer \/ Return(c, "raised")
  PROVE  Contract!CarryOut(KeyOf[c])
<1> DEFINE k == KeyOf[c]
<1>1. k \in Keys /\ claimed[c] /\ effects[c] = 0
  BY AtWork DEF Working, Before
<1>2. outcomes[k] \in {"open", "cancelled"}
  BY <1>1, AtWorkOpen
<1>3. carriedOut[k] = 0 /\ Cardinality(Carried(k)') = 1
  <2>1. Cardinality(Carried(k)) = 0
    BY <1>1, CarriedByClaimer
  <2>2. \A d \in Callers \ {c} : KeyOf[d] = k => effects'[d] = 0
    BY <1>1, Alone
  <2>3. Carried(k)' = CarriedBy(effects', k)
    BY DEF Carried, CarriedBy
  <2>4. Cardinality(CarriedBy(effects', k)) = 1
    BY <2>2, CountOne
  <2> QED
    BY <1>1, <2>1, <2>3, <2>4 DEF carriedOut
<1>4. \A l \in Keys \ {k} : Carried(l)' = Carried(l)
  <2> SUFFICES ASSUME NEW l \in Keys \ {k} PROVE Carried(l)' = Carried(l)
    OBVIOUS
  <2>1. \A d \in {e \in Callers : KeyOf[e] = l} : effects'[d] = effects[d]
    OBVIOUS
  <2> QED
    BY <2>1 DEF Carried
<1>5. carriedOut' = [carriedOut EXCEPT ![k] = 1]
  BY <1>1, <1>3, <1>4 DEF carriedOut
<1>6. UNCHANGED <<running, input, outcomes, context>>
  BY RowsKept DEF turnVars
<1>7. answer' = answer \/ Contract!Tell(c, "raised")
  BY DEF Contract!Tell, Return, CInv, Certain
<1> QED
  BY <1>2, <1>3, <1>5, <1>6, <1>7 DEF Contract!CarryOut

\* The step changes nothing that the contract sees.
LEMMA SilentMaps ==
  ASSUME UNCHANGED <<running, input, result, context, effects, answer>>,
         \A k \in Keys : execution'[k] = execution[k] \/ {execution[k], execution'[k]} \subseteq Open
  PROVE  UNCHANGED Seen
BY OutcomesKept, CountsKept DEF Seen

LEMMA AcceptMaps ==
  ASSUME IInv, NEW c \in Callers, PrepareNew(c)
  PROVE  Contract!Accept(c)
<1> DEFINE k == KeyOf[c]
<1>1. /\ k \in Keys /\ input[k] = NoInput /\ running
      /\ input' = [input EXCEPT ![k] = InputOf[c]]
      /\ execution' = [execution EXCEPT ![k] = "pending"]
      /\ UNCHANGED <<running, result, context, effects, answer>>
  BY CallsAssumption DEF PrepareNew, turnVars
<1>2. result[k] = "none" /\ execution'[k] = "pending"
      /\ \A l \in Keys \ {k} : execution'[l] = execution[l]
  BY <1>1 DEF IInv, TypeOK, KeyInv, Final
<1> HIDE DEF k
<1>3. Outcome(k)' = "open" /\ \A l \in Keys \ {k} : Outcome(l)' = Outcome(l)
  BY <1>1, <1>2 DEF Outcome, Open
<1>4. outcomes' = [outcomes EXCEPT ![k] = "open"]
  BY <1>1, <1>3 DEF outcomes
<1> QED
  BY <1>1, <1>4, CountsKept DEF Contract!Accept, k

LEMMA SettleMaps ==
  ASSUME IInv, CInv, NEW c \in Callers, Save(c)
  PROVE  \E r \in Contract!Results, h \in {"active", "blocked"} : Contract!Settle(c, r, h)
<1> DEFINE k == KeyOf[c]
           r == IF hand[c] = "cancelled" THEN "not done" ELSE hand[c]
<1>0. /\ k \in Keys /\ claimed[c] /\ input[k] = InputOf[c]
      /\ running /\ at[c] \in {"inspect", "save"}
      /\ at[c] = "inspect" => hand[c] = "completed" /\ effects[c] = 1
      /\ at[c] = "save" => hand[c] \in {"failed", "blocked", "cancelled"}
      /\ hand[c] = "cancelled" => effects[c] = 0
  BY AtWork DEF Save, Savable, Working, IInv, CallerInv, InWork, CInv, Certain
<1>1. PICK q \in {"active", "blocked"} :
        /\ q = "blocked" => at[c] = "inspect"
        /\ Store(k, hand[c], q)
        /\ Return(c, Told(hand[c], q)) \/ Return(c, "raised")
  BY DEF Save
<1>2. /\ hand[c] \in Final /\ r \in Contract!Results
      /\ r = "completed" => effects[c] = 1
      /\ r = "not done" => effects[c] = 0
      /\ q = "blocked" => r = "completed"
  BY <1>0, <1>1 DEF Final, Contract!Results
<1>3. /\ r = "completed" => carriedOut[k] = 1
      /\ r = "not done" => carriedOut[k] = 0
  BY <1>0, <1>2, CarriedByClaimer DEF carriedOut
<1>4. outcomes[k] = "open"
  BY <1>0, AtWorkOpen
<1>5. /\ UNCHANGED <<running, input, effects>>
      /\ result' = [result EXCEPT ![k] = hand[c]]
      /\ execution' = [execution EXCEPT ![k] = hand[c]]
      /\ context' = [context EXCEPT ![k] = q]
  BY <1>1 DEF Save, Store, turnVars
<1>6. outcomes' = [outcomes EXCEPT ![k] = r]
  <2> HIDE DEF k
  <2>1. /\ result'[k] = hand[c]
        /\ \A l \in Keys \ {k} : result'[l] = result[l] /\ execution'[l] = execution[l]
    BY <1>0, <1>5 DEF IInv, TypeOK
  <2>2. Outcome(k)' = r /\ \A l \in Keys \ {k} : Outcome(l)' = Outcome(l)
    BY <1>2, <2>1 DEF Outcome, Final
  <2> QED
    BY <1>0, <2>2 DEF outcomes
<1>7. Told(hand[c], q) = Contract!Saying(r, q)
  <2>1. CASE q = "blocked"
    BY <2>1 DEF Told, Contract!Saying
  <2>2. CASE q = "active"
    <3>1. Told(hand[c], q) = IF hand[c] = "completed" THEN "data" ELSE "failure"
      BY <2>2 DEF Told
    <3> QED
      BY <2>2, <3>1 DEF Contract!Saying
  <2> QED
    BY <1>1, <2>1, <2>2
<1>8. Contract!Tell(c, Contract!Saying(r, q)) \/ Contract!Tell(c, "raised")
  BY <1>0, <1>1, <1>7 DEF Contract!Tell, Return, CInv, Certain
<1>9. UNCHANGED carriedOut
  BY <1>5, CountsKept
<1>10. Contract!Settle(c, r, q)
  <2> HIDE DEF r
  <2> QED
    BY <1>0, <1>2, <1>3, <1>4, <1>5, <1>6, <1>8, <1>9 DEF Contract!Settle
<1> QED
  BY <1>2, <1>10

LEMMA InvokeMaps ==
  ASSUME IInv, IInv', CInv, NEW c \in Callers, Invoke(c)
  PROVE  Contract!Next \/ UNCHANGED Seen
<1>0. KeyOf[c] \in Keys /\ effects \in [Callers -> Nat]
  BY AtWork
<1>1. CASE \/ Start(c) \/ Authorize(c) \/ Attempt(c) \/ Transient(c)
           \/ (PrepareKnown(c) /\ at'[c] # "done")
  <2>1. (PrepareKnown(c) /\ at'[c] # "done") => UNCHANGED <<turnVars, rowVars, effects, answer>>
    BY Writes DEF PrepareKnown, ReturnStored
  <2>2. UNCHANGED <<running, input, execution, result, context, effects, answer>>
    BY <1>1, <2>1 DEF Start, Authorize, Attempt, Transient, turnVars, rowVars
  <2> QED
    BY <2>2, SilentMaps
<1>2. CASE Claim(c)
  <2>1. UNCHANGED <<running, input, result, context, effects, answer>>
    BY <1>2 DEF Claim, turnVars
  <2>2. \A k \in Keys : execution'[k] = execution[k] \/ {execution[k], execution'[k]} \subseteq Open
    BY <1>0, <1>2 DEF Claim, Claimable, IInv, TypeOK, Open
  <2> QED
    BY <2>1, <2>2, SilentMaps
<1>3. CASE PrepareNew(c)
  BY <1>3, AcceptMaps DEF Contract!Next
<1>4. CASE Returns(c)
  BY <1>4, ReturnsMap DEF Contract!Next
<1>5. CASE Succeed(c) \/ GiveUp(c)
  <2>1. /\ at[c] = "execute" /\ UNCHANGED <<turnVars, rowVars, claimed, answer>>
        /\ \E n \in 0..1 : effects' = [effects EXCEPT ![c] = @ + n]
    BY <1>5 DEF Succeed, GiveUp
  <2>2. PICK n \in 0..1 : effects' = [effects EXCEPT ![c] = @ + n]
    BY <2>1
  <2>3. effects[c] = 0
    BY <2>1, AtWork DEF Before
  <2>4. effects'[c] = n /\ \A d \in Callers \ {c} : effects'[d] = effects[d]
    BY <1>0, <2>2, <2>3
  <2>5. CASE n = 0
    <3>1. UNCHANGED effects
      BY <1>0, <2>2, <2>3, <2>5
    <3> QED
      BY <2>1, <3>1, SilentMaps DEF turnVars, rowVars
  <2>6. CASE n = 1
    BY <1>0, <2>1, <2>4, <2>6, CarryOutMaps DEF Contract!Next
  <2> QED
    BY <2>5, <2>6
<1>6. CASE Raise(c)
  <2>1. /\ at[c] # "done" /\ UNCHANGED <<turnVars, rowVars, claimed>> /\ Return(c, "raised")
    BY <1>6 DEF Raise
  <2>2. PICK n \in 0..1 : /\ n = 1 => at[c] = "execute"
                          /\ effects' = [effects EXCEPT ![c] = @ + n]
    BY <1>6 DEF Raise
  <2>3. CASE n = 0
    <3>1. UNCHANGED effects
      BY <1>0, <2>2, <2>3
    <3> QED
      BY <2>1, <3>1, AnswerMaps DEF Contract!Next
  <2>4. CASE n = 1
    <3>1. at[c] = "execute" /\ effects[c] = 0
      BY <2>2, <2>4, AtWork DEF Before
    <3>2. effects'[c] = 1 /\ \A d \in Callers \ {c} : effects'[d] = effects[d]
      BY <1>0, <2>2, <2>4, <3>1
    <3> QED
      BY <1>0, <2>1, <3>1, <3>2, CarryOutMaps DEF Contract!Next
  <2> QED
    BY <2>3, <2>4
<1>7. CASE Save(c)
  BY <1>7, SettleMaps DEF Contract!Next
<1> QED
  BY <1>1, <1>2, <1>3, <1>4, <1>5, <1>6, <1>7 DEF Invoke, Returns

LEMMA EndMaps == ASSUME IInv, EndTurn PROVE Contract!End
<1>1. /\ running /\ running' = FALSE
      /\ execution' = [k \in Keys |-> Cancelled(execution[k])]
      /\ UNCHANGED <<input, result, context, effects, answer>>
  BY DEF EndTurn, callVars
<1>2. ASSUME NEW k \in Keys
      PROVE  Outcome(k)' = IF Outcome(k) = "open" THEN "cancelled" ELSE Outcome(k)
  <2>1. execution'[k] = IF execution[k] \in Open THEN "cancelled" ELSE execution[k]
    BY <1>1 DEF Cancelled
  <2>2. result[k] \in {"none"} \cup Final /\ execution[k] \in {"none"} \cup Open \cup Final
    BY DEF IInv, TypeOK
  <2> QED
    BY <1>1, <2>1, <2>2 DEF Outcome, Open, Final
<1>3. outcomes' = [k \in Keys |-> IF outcomes[k] = "open" THEN "cancelled" ELSE outcomes[k]]
  BY <1>2 DEF outcomes
<1> QED
  BY <1>1, <1>3, CountsKept DEF Contract!End

LEMMA HideMaps ==
  ASSUME IInv, NEW k \in Keys, QuarantineLater(k)
  PROVE  Contract!Hide(k)
<1>1. /\ ~running /\ result[k] # "none" /\ context[k] = "active"
      /\ context' = [context EXCEPT ![k] = "later"]
      /\ UNCHANGED <<running, input, execution, result, effects, answer>>
  BY DEF QuarantineLater, turnVars, callVars
<1>2. outcomes[k] \in Contract!Results
  BY <1>1, ToldSays
<1>3. UNCHANGED <<outcomes, carriedOut>>
  BY <1>1, OutcomesKept, CountsKept
<1> QED
  BY <1>1, <1>2, <1>3 DEF Contract!Hide

LEMMA StepMaps ==
  ASSUME IInv, IInv', CInv, [Next]_vars
  PROVE  [Contract!Next]_Seen
<1>1. ASSUME NEW c \in Callers, Invoke(c) PROVE Contract!Next \/ UNCHANGED Seen
  BY <1>1, InvokeMaps
<1>2. CASE TimeUp \/ UNCHANGED vars
  <2>1. UNCHANGED <<running, input, execution, result, context, effects, answer>>
    BY <1>2 DEF TimeUp, vars, turnVars, rowVars, callVars
  <2> QED
    BY <2>1, SilentMaps
<1>3. CASE EndTurn
  BY <1>3, EndMaps DEF Contract!Next
<1>4. ASSUME NEW k \in Keys, QuarantineLater(k) PROVE Contract!Next
  BY <1>4, HideMaps DEF Contract!Next
<1> QED
  BY <1>1, <1>2, <1>3, <1>4 DEF Next

\* The executor implements the contract of the turn's tool calls.
THEOREM ToolRefinement == Spec => ImplementsToolContract
<1>1. Init => Contract!Init
  <2> SUFFICES ASSUME Init PROVE Contract!Init
    OBVIOUS
  <2>1. \A k \in Keys : Outcome(k) = "none" /\ Cardinality(Carried(k)) = 0
    <3>1. \A c \in Callers : effects[c] = 0
      BY DEF Init
    <3>2. \A k \in Keys : Cardinality(Carried(k)) = 0
      BY <3>1, CountNone DEF Carried, CarriedBy
    <3> QED
      BY <3>2 DEF Init, Outcome, Open
  <2> QED
    BY <2>1 DEF Init, Contract!Init, outcomes, carriedOut
<1>2. IInv /\ IInv' /\ CInv /\ [Next]_vars => [Contract!Next]_(Contract!cVars)
  BY StepMaps DEF Seen, Contract!cVars
<1> QED
  BY <1>1, <1>2, AlwaysHonest, PTL DEF Spec, ImplementsToolContract, Contract!Spec

=============================================================================
