--------------------------- MODULE XPublishProofs ---------------------------
(***************************************************************************)
(* Proofs about XPublish for every set of keys, sessions, contents, calls  *)
(* and executions, and any number of crashes and database errors.  First,  *)
(* every step keeps the parts of the inductive invariant; then this is     *)
(* carried to the behaviours, and the properties are derived from it.      *)
(***************************************************************************)
EXTENDS XPublish, TLAPS

\* What the shared pieces of the actions do to the types of the execution's variables.
LEMMA LeaveType ==
  ASSUME TypeOK, NEW w \in Workers, Leave(w)
  PROVE  /\ pc' \in [Workers -> Steps]
         /\ call' \in [Workers -> Calls \cup {NoCall}]
         /\ dup' \in [Workers -> BOOLEAN]
         /\ sawLive' \in [Workers -> BOOLEAN]
         /\ reply' \in [Workers -> {"none", "published", "rejected"}]
         /\ attempt' \in [Workers -> Nat]
  BY DEF TypeOK, Leave, Steps

LEMMA GotoType ==
  ASSUME TypeOK, NEW w \in Workers, Key(w) \in Keys,
         leaseLive' \in [Keys -> BOOLEAN],
         NEW p \in Steps, NEW r \in {"none", "published", "rejected"}, NEW a \in Nat,
         Goto(w, p, r, a)
  PROVE  /\ pc' \in [Workers -> Steps]
         /\ call' \in [Workers -> Calls \cup {NoCall}]
         /\ dup' \in [Workers -> BOOLEAN]
         /\ sawLive' \in [Workers -> BOOLEAN]
         /\ reply' \in [Workers -> {"none", "published", "rejected"}]
         /\ attempt' \in [Workers -> Nat]
  BY DEF TypeOK, Goto

LEMMA RetrySaveType ==
  ASSUME TypeOK, NEW w \in Workers, Key(w) \in Keys, UNCHANGED leaseLive, RetrySave(w)
  PROVE  /\ pc' \in [Workers -> Steps]
         /\ call' \in [Workers -> Calls \cup {NoCall}]
         /\ dup' \in [Workers -> BOOLEAN]
         /\ sawLive' \in [Workers -> BOOLEAN]
         /\ reply' \in [Workers -> {"none", "published", "rejected"}]
         /\ attempt' \in [Workers -> Nat]
<1>0. /\ leaseLive' \in [Keys -> BOOLEAN] /\ attempt[w] + 1 \in Nat /\ 1 \in Nat
      /\ reply[w] \in {"none", "published", "rejected"}
      /\ {"savePost", "saveFailed"} \subseteq Steps
  BY DEF TypeOK, Steps, Executing
<1>1. CASE attempt[w] < DbSaveMaxAttempts
  <2>. Goto(w, "savePost", reply[w], attempt[w] + 1)
    BY <1>1 DEF RetrySave
  <2>. QED  BY <1>0, GotoType
<1>2. CASE ~(attempt[w] < DbSaveMaxAttempts)
  <2>. Goto(w, "saveFailed", reply[w], 1)
    BY <1>2 DEF RetrySave
  <2>. QED  BY <1>0, GotoType
<1>. QED  BY <1>1, <1>2

LEMMA KeyType ==
  ASSUME TypeOK, CallInv, NEW w \in Workers, pc[w] # "idle"
  PROVE  call[w] \in Calls /\ Key(w) \in Keys
  BY CallsAssumption DEF CallInv, Key

\* Every step keeps the types.
LEMMA TypeStep ==
  ASSUME TypeOK, CallInv, [Next]_vars
  PROVE  TypeOK'
<1> USE CallsAssumption, ArchivableAssumption DEF TypeOK, CallInv, Key, rowVars, xVars,
        workerVars, Goto, Leave, Steps, Executing, Commands, Statuses, Unresolved, Final,
        Answers
<1>1. ASSUME NEW w \in Workers, NEW c \in Calls, StartClaim(w, c)
      PROVE  TypeOK'
  BY <1>1
  DEF StartClaim, UnresolvedDuplicate
<1>2. ASSUME NEW w \in Workers, Reserve(w)
      PROVE  TypeOK'
  BY <1>2
  DEF Reserve, Unclaimed, Claiming, InsertRow
<1>3. ASSUME NEW w \in Workers, ReserveDuplicate(w)
      PROVE  TypeOK'
  BY <1>3
  DEF ReserveDuplicate, Unclaimed, Claiming, InsertRow, Answer
<1>4. ASSUME NEW w \in Workers, RefuseClaim(w)
      PROVE  TypeOK'
  BY <1>4
  DEF RefuseClaim, Unclaimed, SameRequest, Claiming
<1>5. ASSUME NEW w \in Workers, ReplayStored(w)
      PROVE  TypeOK'
  BY <1>5
  DEF ReplayStored, SameRequest, Claiming, Answer
<1>6. ASSUME NEW w \in Workers, RecoverUnknown(w)
      PROVE  TypeOK'
  BY <1>6
  DEF RecoverUnknown, ExpiredClaim, SameRequest, Claiming, EffectUncertain, Settle, Answer
<1>7. ASSUME NEW w \in Workers, Reacquire(w)
      PROVE  TypeOK'
  BY <1>7
  DEF Reacquire, ExpiredClaim, SameRequest, Claiming, EffectUncertain, TakeOver
<1>8. ASSUME NEW w \in Workers, Validate(w)
      PROVE  TypeOK'
  BY <1>8
  DEF Validate
<1>9. ASSUME NEW w \in Workers, MarkStarted(w)
      PROVE  TypeOK'
  BY <1>9
  DEF MarkStarted, Held, OwnsToken
<1>10. ASSUME NEW w \in Workers, ReceiveReply(w)
      PROVE  TypeOK'
  BY <1>10
  DEF ReceiveReply
<1>11. ASSUME NEW w \in Workers, SavePostOk(w)
      PROVE  TypeOK'
  BY <1>11
  DEF SavePostOk, SavePost, Held, OwnsToken, Settle, Answer
<1>12. ASSUME NEW w \in Workers, GiveUpLease(w)
      PROVE  TypeOK'
  BY <1>12
  DEF GiveUpLease, Held, OwnsToken, Answer
<1>13. ASSUME NEW w \in Workers, SettleError(w)
      PROVE  TypeOK'
  BY <1>13
  DEF SettleError, Held, OwnsToken, Settle, Outcome, Answer
<1>14. ASSUME NEW w \in Workers, LoseLease(w)
      PROVE  TypeOK'
  BY <1>14
  DEF LoseLease, NotHeld, OwnsToken
<1>15. ASSUME NEW w \in Workers, Replay(w)
      PROVE  TypeOK'
  <2>1. Key(w) \in Keys /\ status[Key(w)] \in Statuses \ {"none"}
    BY <1>15 DEF Replay
  <2>2. answers' \in [Keys -> SUBSET Answers]
    <3>1. CASE status[Key(w)] = "processing"
      BY <1>15, <3>1 DEF Replay
    <3>2. CASE status[Key(w)] # "processing"
      BY <1>15, <2>1, <3>2 DEF Replay, Answer
    <3>. QED  BY <3>1, <3>2
  <2>. QED  BY <1>15, <2>2 DEF Replay
<1>16. ASSUME NEW w \in Workers, SaveResult(w)
      PROVE  TypeOK'
  BY <1>16
  DEF SaveResult, StoreResult, Held, OwnsToken
<1>17. ASSUME NEW w \in Workers, Resume(w)
      PROVE  TypeOK'
  BY <1>17
  DEF Resume, ResumeAt
<1>18. ASSUME NEW w \in Workers, NEW k \in Keys, OpenPosted(w, k)
      PROVE  TypeOK'
  BY <1>18
  DEF OpenPosted, OpenCommand
<1>19. ASSUME NEW w \in Workers, NEW k \in Keys, OpenNotPosted(w, k)
      PROVE  TypeOK'
  BY <1>19
  DEF OpenNotPosted, OpenCommand, CallsDecided
<1>20. ASSUME NEW w \in Workers, NEW k \in Keys, OpenResume(w, k)
      PROVE  TypeOK'
  BY <1>20
  DEF OpenResume, OpenCommand, Resumable
<1>21. ASSUME NEW w \in Workers, ResolvePosted(w)
      PROVE  TypeOK'
  BY <1>21
  DEF ResolvePosted, StillUnknown
<1>22. ASSUME NEW w \in Workers, ResolveNotPosted(w)
      PROVE  TypeOK'
  BY <1>22
  DEF ResolveNotPosted, StillUnknown
<1>23. ASSUME NEW w \in Workers, ResumePersistence(w)
      PROVE  TypeOK'
  BY <1>23
  DEF ResumePersistence, Resumable, TakeOver
<1>24. ASSUME NEW w \in Workers, CommandRefused(w)
      PROVE  TypeOK'
  BY <1>24
  DEF CommandRefused
<1>25. ASSUME NEW w \in Workers, XPublishes(w)
      PROVE  TypeOK'
  BY <1>25
  DEF XPublishes
<1>26. ASSUME NEW w \in Workers, XRejects(w)
      PROVE  TypeOK'
  BY <1>26
  DEF XRejects
<1>27. ASSUME NEW k \in Keys, XDecidesLate(k)
      PROVE  TypeOK'
  BY <1>27
  DEF XDecidesLate
<1>28. ASSUME NEW k \in Keys, LeaseExpires(k)
      PROVE  TypeOK'
  BY <1>28
  DEF LeaseExpires, Expire
<1>29. ASSUME NEW s \in Archivable, ArchiveSession(s)
      PROVE  TypeOK'
  BY <1>29
  DEF ArchiveSession
<1>30. ASSUME NEW w \in Workers, Crash(w)
      PROVE  TypeOK'
  BY <1>30
  DEF Crash, Abandon
<1>31. ASSUME NEW w \in Workers, ReceiveNothing(w)
      PROVE  TypeOK'
  BY <1>31
  DEF ReceiveNothing, Abandon
<1>32. ASSUME NEW w \in Workers, ResumeFails(w)
      PROVE  TypeOK'
  BY <1>32
  DEF ResumeFails, ResumeAt
<1>33. ASSUME NEW w \in Workers, SaveResultUnacknowledged(w)
      PROVE  TypeOK'
  BY <1>33
  DEF SaveResultUnacknowledged, StoreResult, Held, OwnsToken
<1>34. ASSUME NEW w \in Workers, SaveResultRefused(w)
      PROVE  TypeOK'
  BY <1>34
  DEF SaveResultRefused
<1>35. ASSUME NEW w \in Workers, SavePostUnacknowledged(w)
      PROVE  TypeOK'
  <2>1. Key(w) \in Keys
    BY <1>35 DEF SavePostUnacknowledged, SavePost
  <2>2. UNCHANGED leaseLive /\ RetrySave(w)
    BY <1>35 DEF SavePostUnacknowledged, SavePost, Settle
  <2>. HIDE DEF Key, Goto
  <2>. QED  BY <1>35, <2>1, <2>2, RetrySaveType DEF SavePostUnacknowledged, SavePost, Settle
<1>36. ASSUME NEW w \in Workers, SavePostError(w)
      PROVE  TypeOK'
  <2>1. Key(w) \in Keys
    BY <1>36 DEF SavePostError
  <2>2. UNCHANGED leaseLive /\ RetrySave(w)
    BY <1>36 DEF SavePostError
  <2>. HIDE DEF Key, Goto
  <2>. QED  BY <1>36, <2>1, <2>2, RetrySaveType DEF SavePostError
<1>37. ASSUME NEW w \in Workers, GiveUpLeaseError(w)
      PROVE  TypeOK'
  <2>1. leaseLive' \in [Keys -> BOOLEAN]
    BY <1>37 DEF GiveUpLeaseError, Held
  <2>. QED  BY <1>37, <2>1 DEF GiveUpLeaseError
<1>38. ASSUME NEW w \in Workers, SettleErrorFails(w)
      PROVE  TypeOK'
  BY <1>38
  DEF SettleErrorFails, Held, OwnsToken, Settle, Outcome
<1>39. ASSUME NEW k \in Keys, LeaseExpiresEarly(k)
      PROVE  TypeOK'
  BY <1>39
  DEF LeaseExpiresEarly, Expire
<1>40. CASE UNCHANGED vars
  BY <1>40
  DEF vars, rowVars, xVars, workerVars
<1>. QED
  BY <1>1, <1>2, <1>3, <1>4, <1>5, <1>6, <1>7, <1>8, <1>9, <1>10, <1>11, <1>12, <1>13, <1>14,
     <1>15, <1>16, <1>17, <1>18, <1>19, <1>20, <1>21, <1>22, <1>23, <1>24, <1>25, <1>26, <1>27,
     <1>28, <1>29, <1>30, <1>31, <1>32, <1>33, <1>34, <1>35, <1>36, <1>37, <1>38, <1>39, <1>40
  DEF Next, Regular, Claim, Execute, Command, XService, Fault

\* A step keeps CallInv: calls are well formed and an execution's row exists.
LEMMA CallStep ==
  ASSUME TypeOK, CallInv, [Next]_vars
  PROVE  CallInv'
<1> USE CallsAssumption DEF TypeOK, CallInv, Key, rowVars, xVars,
        workerVars, Goto, Leave, Steps, Executing, Commands, Statuses, Unresolved, Final
<1>1. ASSUME NEW w \in Workers, NEW c \in Calls, StartClaim(w, c)
      PROVE  CallInv'
  BY <1>1
  DEF StartClaim
<1>2. ASSUME NEW w \in Workers, Reserve(w)
      PROVE  CallInv'
  BY <1>2
  DEF Reserve, Unclaimed, Claiming, InsertRow
<1>3. ASSUME NEW w \in Workers, ReserveDuplicate(w)
      PROVE  CallInv'
  BY <1>3
  DEF ReserveDuplicate, Unclaimed, Claiming, InsertRow, Answer
<1>4. ASSUME NEW w \in Workers, RefuseClaim(w)
      PROVE  CallInv'
  BY <1>4
  DEF RefuseClaim, Unclaimed, SameRequest, Claiming
<1>5. ASSUME NEW w \in Workers, ReplayStored(w)
      PROVE  CallInv'
  BY <1>5
  DEF ReplayStored, SameRequest, Claiming, Answer
<1>6. ASSUME NEW w \in Workers, RecoverUnknown(w)
      PROVE  CallInv'
  BY <1>6
  DEF RecoverUnknown, ExpiredClaim, SameRequest, Claiming, EffectUncertain, Settle, Answer
<1>7. ASSUME NEW w \in Workers, Reacquire(w)
      PROVE  CallInv'
  BY <1>7
  DEF Reacquire, ExpiredClaim, SameRequest, Claiming, EffectUncertain, TakeOver
<1>8. ASSUME NEW w \in Workers, Validate(w)
      PROVE  CallInv'
  BY <1>8
  DEF Validate
<1>9. ASSUME NEW w \in Workers, MarkStarted(w)
      PROVE  CallInv'
  BY <1>9
  DEF MarkStarted, Held, OwnsToken
<1>10. ASSUME NEW w \in Workers, ReceiveReply(w)
      PROVE  CallInv'
  BY <1>10
  DEF ReceiveReply
<1>11. ASSUME NEW w \in Workers, SavePostOk(w)
      PROVE  CallInv'
  BY <1>11
  DEF SavePostOk, SavePost, Held, OwnsToken, Settle, Answer
<1>12. ASSUME NEW w \in Workers, GiveUpLease(w)
      PROVE  CallInv'
  BY <1>12
  DEF GiveUpLease, Held, OwnsToken, Answer
<1>13. ASSUME NEW w \in Workers, SettleError(w)
      PROVE  CallInv'
  BY <1>13
  DEF SettleError, Held, OwnsToken, Settle, Outcome, Answer
<1>14. ASSUME NEW w \in Workers, LoseLease(w)
      PROVE  CallInv'
  BY <1>14
  DEF LoseLease, NotHeld, OwnsToken
<1>15. ASSUME NEW w \in Workers, Replay(w)
      PROVE  CallInv'
  BY <1>15
  DEF Replay, Answer
<1>16. ASSUME NEW w \in Workers, SaveResult(w)
      PROVE  CallInv'
  BY <1>16
  DEF SaveResult, StoreResult, Held, OwnsToken
<1>17. ASSUME NEW w \in Workers, Resume(w)
      PROVE  CallInv'
  BY <1>17
  DEF Resume, ResumeAt
<1>18. ASSUME NEW w \in Workers, NEW k \in Keys, OpenPosted(w, k)
      PROVE  CallInv'
  BY <1>18
  DEF OpenPosted, OpenCommand
<1>19. ASSUME NEW w \in Workers, NEW k \in Keys, OpenNotPosted(w, k)
      PROVE  CallInv'
  BY <1>19
  DEF OpenNotPosted, OpenCommand, CallsDecided
<1>20. ASSUME NEW w \in Workers, NEW k \in Keys, OpenResume(w, k)
      PROVE  CallInv'
  BY <1>20
  DEF OpenResume, OpenCommand, Resumable
<1>21. ASSUME NEW w \in Workers, ResolvePosted(w)
      PROVE  CallInv'
  BY <1>21
  DEF ResolvePosted, StillUnknown
<1>22. ASSUME NEW w \in Workers, ResolveNotPosted(w)
      PROVE  CallInv'
  BY <1>22
  DEF ResolveNotPosted, StillUnknown
<1>23. ASSUME NEW w \in Workers, ResumePersistence(w)
      PROVE  CallInv'
  BY <1>23
  DEF ResumePersistence, Resumable, TakeOver
<1>24. ASSUME NEW w \in Workers, CommandRefused(w)
      PROVE  CallInv'
  BY <1>24
  DEF CommandRefused
<1>25. ASSUME NEW w \in Workers, XPublishes(w)
      PROVE  CallInv'
  BY <1>25
  DEF XPublishes
<1>26. ASSUME NEW w \in Workers, XRejects(w)
      PROVE  CallInv'
  BY <1>26
  DEF XRejects
<1>27. ASSUME NEW k \in Keys, XDecidesLate(k)
      PROVE  CallInv'
  BY <1>27
  DEF XDecidesLate
<1>28. ASSUME NEW k \in Keys, LeaseExpires(k)
      PROVE  CallInv'
  BY <1>28
  DEF LeaseExpires, Expire
<1>29. ASSUME NEW s \in Archivable, ArchiveSession(s)
      PROVE  CallInv'
  BY <1>29
  DEF ArchiveSession
<1>30. ASSUME NEW w \in Workers, Crash(w)
      PROVE  CallInv'
  BY <1>30
  DEF Crash, Abandon
<1>31. ASSUME NEW w \in Workers, ReceiveNothing(w)
      PROVE  CallInv'
  BY <1>31
  DEF ReceiveNothing, Abandon
<1>32. ASSUME NEW w \in Workers, ResumeFails(w)
      PROVE  CallInv'
  BY <1>32
  DEF ResumeFails, ResumeAt
<1>33. ASSUME NEW w \in Workers, SaveResultUnacknowledged(w)
      PROVE  CallInv'
  BY <1>33
  DEF SaveResultUnacknowledged, StoreResult, Held, OwnsToken
<1>34. ASSUME NEW w \in Workers, SaveResultRefused(w)
      PROVE  CallInv'
  BY <1>34
  DEF SaveResultRefused
<1>35. ASSUME NEW w \in Workers, SavePostUnacknowledged(w)
      PROVE  CallInv'
  BY <1>35
  DEF SavePostUnacknowledged, SavePost, Held, OwnsToken, Settle, RetrySave
<1>36. ASSUME NEW w \in Workers, SavePostError(w)
      PROVE  CallInv'
  BY <1>36
  DEF SavePostError, RetrySave
<1>37. ASSUME NEW w \in Workers, GiveUpLeaseError(w)
      PROVE  CallInv'
  BY <1>37
  DEF GiveUpLeaseError, Held, OwnsToken
<1>38. ASSUME NEW w \in Workers, SettleErrorFails(w)
      PROVE  CallInv'
  BY <1>38
  DEF SettleErrorFails, Held, OwnsToken, Settle, Outcome
<1>39. ASSUME NEW k \in Keys, LeaseExpiresEarly(k)
      PROVE  CallInv'
  BY <1>39
  DEF LeaseExpiresEarly, Expire
<1>40. CASE UNCHANGED vars
  BY <1>40
  DEF vars, rowVars, xVars, workerVars
<1>. QED
  BY <1>1, <1>2, <1>3, <1>4, <1>5, <1>6, <1>7, <1>8, <1>9, <1>10, <1>11, <1>12, <1>13, <1>14,
     <1>15, <1>16, <1>17, <1>18, <1>19, <1>20, <1>21, <1>22, <1>23, <1>24, <1>25, <1>26, <1>27,
     <1>28, <1>29, <1>30, <1>31, <1>32, <1>33, <1>34, <1>35, <1>36, <1>37, <1>38, <1>39, <1>40
  DEF Next, Regular, Claim, Execute, Command, XService, Fault

LEMMA AbandonEffect ==
  ASSUME TypeOK, EffectInv, NEW w \in Workers, pc[w] # "idle", Abandon(w)
  PROVE  \A k \in Keys :
           \/ late'[k] = late[k] /\ ~(k = Key(w) /\ pc[w] = "calling" /\ reply[w] = "none")
           \/ /\ k = Key(w) /\ pc[w] = "calling" /\ reply[w] = "none"
              /\ late'[k] = 1 /\ late[k] = 0 /\ tweets[k] = 0
              /\ started[k] /\ status[k] \in Unresolved
<1>1. Key(w) \in Keys
  BY CallsAssumption DEF EffectInv, CallInv, Key
<1>2. CASE pc[w] = "calling" /\ reply[w] = "none"
  <2>1. late[Key(w)] = 0 /\ tweets[Key(w)] = 0 /\ started[Key(w)] /\ status[Key(w)] \in Unresolved
    BY <1>2 DEF EffectInv, StarterInv, Starter
  <2>2. late' = [late EXCEPT ![Key(w)] = late[Key(w)] + 1]
    BY <1>2 DEF Abandon
  <2>. QED  BY <1>1, <1>2, <2>1, <2>2 DEF TypeOK
<1>3. CASE ~(pc[w] = "calling" /\ reply[w] = "none")
  BY <1>3 DEF Abandon
<1>. QED  BY <1>2, <1>3

LEMMA RetrySaveFrame ==
  ASSUME TypeOK, NEW w \in Workers, RetrySave(w)
  PROVE  /\ pc' = [pc EXCEPT ![w] = pc'[w]] /\ pc'[w] \in {"savePost", "saveFailed"}
         /\ UNCHANGED <<call, reply>>
  BY DEF RetrySave, Goto, TypeOK

LEMMA RowStep ==
  ASSUME TypeOK, EffectInv, [Next]_vars, CallInv'
  PROVE  RowInv'
<1> USE CallsAssumption DEF EffectInv, TypeOK, CallInv, RowInv, Key, rowVars, xVars, workerVars,
        Goto, Leave, Executing, Commands, Statuses, Unresolved, Final, OwnsToken
<1>1. ASSUME NEW w \in Workers, NEW c \in Calls, StartClaim(w, c)
      PROVE  RowInv'
  BY <1>1
  DEF StartClaim, StarterInv, CommandInv, Starter, BeforeStart, Undecided
<1>2. ASSUME NEW w \in Workers, Reserve(w)
      PROVE  RowInv'
  BY <1>2
  DEF Reserve, Unclaimed, Claiming, InsertRow, StarterInv, CommandInv, Starter, BeforeStart, Undecided
<1>3. ASSUME NEW w \in Workers, ReserveDuplicate(w)
      PROVE  RowInv'
  BY <1>3
  DEF ReserveDuplicate, Unclaimed, Claiming, InsertRow, Answer, StarterInv, CommandInv, Starter,
      BeforeStart, Undecided
<1>4. ASSUME NEW w \in Workers, RefuseClaim(w)
      PROVE  RowInv'
  BY <1>4
  DEF RefuseClaim, Unclaimed, SameRequest, Claiming, StarterInv, CommandInv, Starter, BeforeStart, Undecided
<1>5. ASSUME NEW w \in Workers, ReplayStored(w)
      PROVE  RowInv'
  BY <1>5
  DEF ReplayStored, SameRequest, Claiming, Answer, StarterInv, CommandInv, Starter, BeforeStart, Undecided
<1>6. ASSUME NEW w \in Workers, RecoverUnknown(w)
      PROVE  RowInv'
  BY <1>6
  DEF RecoverUnknown, ExpiredClaim, SameRequest, Claiming, EffectUncertain, Settle, Answer,
      StarterInv, CommandInv, Starter, BeforeStart, Undecided
<1>7. ASSUME NEW w \in Workers, Reacquire(w)
      PROVE  RowInv'
  BY <1>7
  DEF Reacquire, ExpiredClaim, SameRequest, Claiming, EffectUncertain, TakeOver, StarterInv,
      CommandInv, Starter, BeforeStart, Undecided
<1>8. ASSUME NEW w \in Workers, Validate(w)
      PROVE  RowInv'
  BY <1>8
  DEF Validate, StarterInv, CommandInv, Starter, BeforeStart, Undecided
<1>9. ASSUME NEW w \in Workers, MarkStarted(w)
      PROVE  RowInv'
  BY <1>9
  DEF MarkStarted, Held, OwnsToken, StarterInv, CommandInv, Starter, BeforeStart, Undecided
<1>10. ASSUME NEW w \in Workers, ReceiveReply(w)
      PROVE  RowInv'
  BY <1>10
  DEF ReceiveReply, StarterInv, CommandInv, Starter, BeforeStart, Undecided
<1>11. ASSUME NEW w \in Workers, SavePostOk(w)
      PROVE  RowInv'
  BY <1>11
  DEF SavePostOk, SavePost, Held, OwnsToken, Settle, Answer, StarterInv, CommandInv, Starter,
      BeforeStart, Undecided
<1>12. ASSUME NEW w \in Workers, GiveUpLease(w)
      PROVE  RowInv'
  BY <1>12
  DEF GiveUpLease, Held, OwnsToken, Answer, StarterInv, CommandInv, Starter, BeforeStart, Undecided
<1>13. ASSUME NEW w \in Workers, SettleError(w)
      PROVE  RowInv'
  BY <1>13
  DEF SettleError, Held, OwnsToken, Settle, Outcome, Answer, StarterInv, CommandInv, Starter,
      BeforeStart, Undecided
<1>14. ASSUME NEW w \in Workers, LoseLease(w)
      PROVE  RowInv'
  BY <1>14
  DEF LoseLease, NotHeld, OwnsToken, StarterInv, CommandInv, Starter, BeforeStart, Undecided
<1>15. ASSUME NEW w \in Workers, Replay(w)
      PROVE  RowInv'
  BY <1>15
  DEF Replay, Answer, StarterInv, CommandInv, Starter, BeforeStart, Undecided
<1>16. ASSUME NEW w \in Workers, SaveResult(w)
      PROVE  RowInv'
  BY <1>16
  DEF SaveResult, StoreResult, Held, OwnsToken, StarterInv, CommandInv, Starter, BeforeStart, Undecided
<1>17. ASSUME NEW w \in Workers, Resume(w)
      PROVE  RowInv'
  BY <1>17
  DEF Resume, ResumeAt, StarterInv, CommandInv, Starter, BeforeStart, Undecided
<1>18. ASSUME NEW w \in Workers, NEW k \in Keys, OpenPosted(w, k)
      PROVE  RowInv'
  BY <1>18
  DEF OpenPosted, OpenCommand, StarterInv, CommandInv, Starter, BeforeStart, Undecided
<1>19. ASSUME NEW w \in Workers, NEW k \in Keys, OpenNotPosted(w, k)
      PROVE  RowInv'
  BY <1>19
  DEF OpenNotPosted, OpenCommand, CallsDecided, StarterInv, CommandInv, Starter, BeforeStart, Undecided
<1>20. ASSUME NEW w \in Workers, NEW k \in Keys, OpenResume(w, k)
      PROVE  RowInv'
  BY <1>20
  DEF OpenResume, OpenCommand, Resumable, StarterInv, CommandInv, Starter, BeforeStart, Undecided
<1>21. ASSUME NEW w \in Workers, ResolvePosted(w)
      PROVE  RowInv'
  BY <1>21
  DEF ResolvePosted, StillUnknown, StarterInv, CommandInv, Starter, BeforeStart, Undecided
<1>22. ASSUME NEW w \in Workers, ResolveNotPosted(w)
      PROVE  RowInv'
  BY <1>22
  DEF ResolveNotPosted, StillUnknown, StarterInv, CommandInv, Starter, BeforeStart, Undecided
<1>23. ASSUME NEW w \in Workers, ResumePersistence(w)
      PROVE  RowInv'
  BY <1>23
  DEF ResumePersistence, Resumable, TakeOver, StarterInv, CommandInv, Starter, BeforeStart, Undecided
<1>24. ASSUME NEW w \in Workers, CommandRefused(w)
      PROVE  RowInv'
  BY <1>24
  DEF CommandRefused, StarterInv, CommandInv, Starter, BeforeStart, Undecided
<1>25. ASSUME NEW w \in Workers, XPublishes(w)
      PROVE  RowInv'
  <2>1. /\ started[Key(w)] /\ tweets[Key(w)] = 0 /\ late[Key(w)] = 0
        /\ status[Key(w)] \in Unresolved
    BY <1>25 DEF XPublishes, StarterInv, Starter
  <2>2. Key(w) \in Keys
    BY <1>25 DEF XPublishes
  <2>3. \A k \in Keys : tweets'[k] = IF k = Key(w) THEN 1 ELSE tweets[k]
    BY <1>25, <2>1 DEF XPublishes
  <2>4. UNCHANGED <<status, started, result, late, posts>>
    BY <1>25 DEF XPublishes
  <2>5. /\ RowInv /\ started \in [Keys -> BOOLEAN] /\ tweets \in [Keys -> Nat] /\ late \in [Keys -> Nat]
    BY DEF EffectInv, TypeOK
  <2>. HIDE DEF EffectInv, TypeOK, CallInv, Key
  <2>. QED  BY <2>1, <2>2, <2>3, <2>4, <2>5
<1>26. ASSUME NEW w \in Workers, XRejects(w)
      PROVE  RowInv'
  BY <1>26
  DEF XRejects, StarterInv, CommandInv, Starter, BeforeStart, Undecided
<1>27. ASSUME NEW k \in Keys, XDecidesLate(k)
      PROVE  RowInv'
  BY <1>27
  DEF XDecidesLate, StarterInv, CommandInv, Starter, BeforeStart, Undecided
<1>28. ASSUME NEW k \in Keys, LeaseExpires(k)
      PROVE  RowInv'
  BY <1>28
  DEF LeaseExpires, Expire, StarterInv, CommandInv, Starter, BeforeStart, Undecided
<1>29. ASSUME NEW s \in Archivable, ArchiveSession(s)
      PROVE  RowInv'
  BY <1>29
  DEF ArchiveSession, StarterInv, CommandInv, Starter, BeforeStart, Undecided
<1>30. ASSUME NEW w \in Workers, Crash(w)
      PROVE  RowInv'
  <2>1. \A k \in Keys :
          \/ late'[k] = late[k]
          \/ /\ late'[k] = 1 /\ late[k] = 0 /\ tweets[k] = 0
             /\ started[k] /\ status[k] \in Unresolved
    BY <1>30, AbandonEffect DEF Crash
  <2>. QED  BY <1>30, <2>1 DEF Crash
<1>31. ASSUME NEW w \in Workers, ReceiveNothing(w)
      PROVE  RowInv'
  <2>1. \A k \in Keys :
          \/ late'[k] = late[k]
          \/ /\ late'[k] = 1 /\ late[k] = 0 /\ tweets[k] = 0
             /\ started[k] /\ status[k] \in Unresolved
    BY <1>31, AbandonEffect DEF ReceiveNothing
  <2>. QED  BY <1>31, <2>1 DEF ReceiveNothing
<1>32. ASSUME NEW w \in Workers, ResumeFails(w)
      PROVE  RowInv'
  BY <1>32
  DEF ResumeFails, ResumeAt, StarterInv, CommandInv, Starter, BeforeStart, Undecided
<1>33. ASSUME NEW w \in Workers, SaveResultUnacknowledged(w)
      PROVE  RowInv'
  BY <1>33
  DEF SaveResultUnacknowledged, StoreResult, Held, OwnsToken, StarterInv, CommandInv, Starter,
      BeforeStart, Undecided
<1>34. ASSUME NEW w \in Workers, SaveResultRefused(w)
      PROVE  RowInv'
  BY <1>34
  DEF SaveResultRefused, StarterInv, CommandInv, Starter, BeforeStart, Undecided
<1>35. ASSUME NEW w \in Workers, SavePostUnacknowledged(w)
      PROVE  RowInv'
  BY <1>35
  DEF SavePostUnacknowledged, SavePost, Held, OwnsToken, Settle, RetrySave, StarterInv,
      CommandInv, Starter, BeforeStart, Undecided
<1>36. ASSUME NEW w \in Workers, SavePostError(w)
      PROVE  RowInv'
  BY <1>36
  DEF SavePostError, RetrySave, StarterInv, CommandInv, Starter, BeforeStart, Undecided
<1>37. ASSUME NEW w \in Workers, GiveUpLeaseError(w)
      PROVE  RowInv'
  BY <1>37
  DEF GiveUpLeaseError, Held, OwnsToken, StarterInv, CommandInv, Starter, BeforeStart, Undecided
<1>38. ASSUME NEW w \in Workers, SettleErrorFails(w)
      PROVE  RowInv'
  <2>1. CASE UNCHANGED rowVars
    BY <1>38, <2>1 DEF SettleErrorFails
  <2>2. CASE Held(w) /\ Settle(Key(w), Outcome(w))
    <3>1. CASE pc[w] = "fail" /\ reply[w] = "rejected"
      BY <1>38, <2>2, <3>1 DEF SettleErrorFails, Held, Settle, Outcome, StarterInv, Starter
    <3>2. CASE pc[w] = "unknown"
      BY <1>38, <2>2, <3>2 DEF SettleErrorFails, Held, Settle, Outcome
    <3>. QED  BY <1>38, <3>1, <3>2 DEF SettleErrorFails
  <2>. QED  BY <1>38, <2>1, <2>2 DEF SettleErrorFails
<1>39. ASSUME NEW k \in Keys, LeaseExpiresEarly(k)
      PROVE  RowInv'
  BY <1>39
  DEF LeaseExpiresEarly, Expire, StarterInv, CommandInv, Starter, BeforeStart, Undecided
<1>40. CASE UNCHANGED vars
  BY <1>40
  DEF vars, rowVars, xVars, workerVars, StarterInv, CommandInv, Starter, BeforeStart, Undecided
<1>. QED
  BY <1>1, <1>2, <1>3, <1>4, <1>5, <1>6, <1>7, <1>8, <1>9, <1>10, <1>11, <1>12, <1>13, <1>14,
     <1>15, <1>16, <1>17, <1>18, <1>19, <1>20, <1>21, <1>22, <1>23, <1>24, <1>25, <1>26, <1>27,
     <1>28, <1>29, <1>30, <1>31, <1>32, <1>33, <1>34, <1>35, <1>36, <1>37, <1>38, <1>39, <1>40
  DEF Next, Regular, Claim, Execute, Command, XService, Fault

LEMMA CommandStep ==
  ASSUME TypeOK, EffectInv, [Next]_vars, CallInv'
  PROVE  CommandInv'
<1> USE CallsAssumption DEF EffectInv, TypeOK, CallInv, RowInv, Key, rowVars, xVars, workerVars,
        Goto, Leave, Executing, Commands, Statuses, Unresolved, Final, OwnsToken
<1>1. ASSUME NEW w \in Workers, NEW c \in Calls, StartClaim(w, c)
      PROVE  CommandInv'
  BY <1>1
  DEF StartClaim, StarterInv, CommandInv, Starter, BeforeStart, Undecided
<1>2. ASSUME NEW w \in Workers, Reserve(w)
      PROVE  CommandInv'
  <2>1. \A v \in Workers :
          pc'[v] \in {"opPosted", "opNotPosted"}
            => v # w /\ pc'[v] = pc[v] /\ call'[v] = call[v] /\ Key(v) # Key(w)
    BY <1>2 DEF Reserve, Unclaimed, Claiming
  <2>. QED
    BY <1>2, <2>1
    DEF Reserve, Unclaimed, Claiming, InsertRow, StarterInv, CommandInv, Starter, BeforeStart,
        Undecided
<1>3. ASSUME NEW w \in Workers, ReserveDuplicate(w)
      PROVE  CommandInv'
  BY <1>3
  DEF ReserveDuplicate, Unclaimed, Claiming, InsertRow, Answer, StarterInv, CommandInv, Starter,
      BeforeStart, Undecided
<1>4. ASSUME NEW w \in Workers, RefuseClaim(w)
      PROVE  CommandInv'
  BY <1>4
  DEF RefuseClaim, Unclaimed, SameRequest, Claiming, StarterInv, CommandInv, Starter, BeforeStart, Undecided
<1>5. ASSUME NEW w \in Workers, ReplayStored(w)
      PROVE  CommandInv'
  BY <1>5
  DEF ReplayStored, SameRequest, Claiming, Answer, StarterInv, CommandInv, Starter, BeforeStart, Undecided
<1>6. ASSUME NEW w \in Workers, RecoverUnknown(w)
      PROVE  CommandInv'
  BY <1>6
  DEF RecoverUnknown, ExpiredClaim, SameRequest, Claiming, EffectUncertain, Settle, Answer,
      StarterInv, CommandInv, Starter, BeforeStart, Undecided
<1>7. ASSUME NEW w \in Workers, Reacquire(w)
      PROVE  CommandInv'
  BY <1>7
  DEF Reacquire, ExpiredClaim, SameRequest, Claiming, EffectUncertain, TakeOver, StarterInv,
      CommandInv, Starter, BeforeStart, Undecided
<1>8. ASSUME NEW w \in Workers, Validate(w)
      PROVE  CommandInv'
  BY <1>8
  DEF Validate, StarterInv, CommandInv, Starter, BeforeStart, Undecided
<1>9. ASSUME NEW w \in Workers, MarkStarted(w)
      PROVE  CommandInv'
  BY <1>9
  DEF MarkStarted, Held, OwnsToken, StarterInv, CommandInv, Starter, BeforeStart, Undecided
<1>10. ASSUME NEW w \in Workers, ReceiveReply(w)
      PROVE  CommandInv'
  BY <1>10
  DEF ReceiveReply, StarterInv, CommandInv, Starter, BeforeStart, Undecided
<1>11. ASSUME NEW w \in Workers, SavePostOk(w)
      PROVE  CommandInv'
  BY <1>11
  DEF SavePostOk, SavePost, Held, OwnsToken, Settle, Answer, StarterInv, CommandInv, Starter,
      BeforeStart, Undecided
<1>12. ASSUME NEW w \in Workers, GiveUpLease(w)
      PROVE  CommandInv'
  BY <1>12
  DEF GiveUpLease, Held, OwnsToken, Answer, StarterInv, CommandInv, Starter, BeforeStart, Undecided
<1>13. ASSUME NEW w \in Workers, SettleError(w)
      PROVE  CommandInv'
  BY <1>13
  DEF SettleError, Held, OwnsToken, Settle, Outcome, Answer, StarterInv, CommandInv, Starter,
      BeforeStart, Undecided
<1>14. ASSUME NEW w \in Workers, LoseLease(w)
      PROVE  CommandInv'
  BY <1>14
  DEF LoseLease, NotHeld, OwnsToken, StarterInv, CommandInv, Starter, BeforeStart, Undecided
<1>15. ASSUME NEW w \in Workers, Replay(w)
      PROVE  CommandInv'
  BY <1>15
  DEF Replay, Answer, StarterInv, CommandInv, Starter, BeforeStart, Undecided
<1>16. ASSUME NEW w \in Workers, SaveResult(w)
      PROVE  CommandInv'
  BY <1>16
  DEF SaveResult, StoreResult, Held, OwnsToken, StarterInv, CommandInv, Starter, BeforeStart, Undecided
<1>17. ASSUME NEW w \in Workers, Resume(w)
      PROVE  CommandInv'
  BY <1>17
  DEF Resume, ResumeAt, StarterInv, CommandInv, Starter, BeforeStart, Undecided
<1>18. ASSUME NEW w \in Workers, NEW k \in Keys, OpenPosted(w, k)
      PROVE  CommandInv'
  BY <1>18
  DEF OpenPosted, OpenCommand, StarterInv, CommandInv, Starter, BeforeStart, Undecided
<1>19. ASSUME NEW w \in Workers, NEW k \in Keys, OpenNotPosted(w, k)
      PROVE  CommandInv'
  BY <1>19
  DEF OpenNotPosted, OpenCommand, CallsDecided, StarterInv, CommandInv, Starter, BeforeStart, Undecided
<1>20. ASSUME NEW w \in Workers, NEW k \in Keys, OpenResume(w, k)
      PROVE  CommandInv'
  BY <1>20
  DEF OpenResume, OpenCommand, Resumable, StarterInv, CommandInv, Starter, BeforeStart, Undecided
<1>21. ASSUME NEW w \in Workers, ResolvePosted(w)
      PROVE  CommandInv'
  BY <1>21
  DEF ResolvePosted, StillUnknown, StarterInv, CommandInv, Starter, BeforeStart, Undecided
<1>22. ASSUME NEW w \in Workers, ResolveNotPosted(w)
      PROVE  CommandInv'
  BY <1>22
  DEF ResolveNotPosted, StillUnknown, StarterInv, CommandInv, Starter, BeforeStart, Undecided
<1>23. ASSUME NEW w \in Workers, ResumePersistence(w)
      PROVE  CommandInv'
  BY <1>23
  DEF ResumePersistence, Resumable, TakeOver, StarterInv, CommandInv, Starter, BeforeStart, Undecided
<1>24. ASSUME NEW w \in Workers, CommandRefused(w)
      PROVE  CommandInv'
  BY <1>24
  DEF CommandRefused, StarterInv, CommandInv, Starter, BeforeStart, Undecided
<1>25. ASSUME NEW w \in Workers, XPublishes(w)
      PROVE  CommandInv'
  BY <1>25
  DEF XPublishes, StarterInv, CommandInv, Starter, BeforeStart, Undecided
<1>26. ASSUME NEW w \in Workers, XRejects(w)
      PROVE  CommandInv'
  BY <1>26
  DEF XRejects, StarterInv, CommandInv, Starter, BeforeStart, Undecided
<1>27. ASSUME NEW k \in Keys, XDecidesLate(k)
      PROVE  CommandInv'
  BY <1>27
  DEF XDecidesLate, StarterInv, CommandInv, Starter, BeforeStart, Undecided
<1>28. ASSUME NEW k \in Keys, LeaseExpires(k)
      PROVE  CommandInv'
  BY <1>28
  DEF LeaseExpires, Expire, StarterInv, CommandInv, Starter, BeforeStart, Undecided
<1>29. ASSUME NEW s \in Archivable, ArchiveSession(s)
      PROVE  CommandInv'
  BY <1>29
  DEF ArchiveSession, StarterInv, CommandInv, Starter, BeforeStart, Undecided
<1>30. ASSUME NEW w \in Workers, Crash(w)
      PROVE  CommandInv'
  BY <1>30
  DEF Crash, Abandon, StarterInv, CommandInv, Starter, BeforeStart, Undecided
<1>31. ASSUME NEW w \in Workers, ReceiveNothing(w)
      PROVE  CommandInv'
  BY <1>31
  DEF ReceiveNothing, Abandon, StarterInv, CommandInv, Starter, BeforeStart, Undecided
<1>32. ASSUME NEW w \in Workers, ResumeFails(w)
      PROVE  CommandInv'
  BY <1>32
  DEF ResumeFails, ResumeAt, StarterInv, CommandInv, Starter, BeforeStart, Undecided
<1>33. ASSUME NEW w \in Workers, SaveResultUnacknowledged(w)
      PROVE  CommandInv'
  BY <1>33
  DEF SaveResultUnacknowledged, StoreResult, Held, OwnsToken, StarterInv, CommandInv, Starter,
      BeforeStart, Undecided
<1>34. ASSUME NEW w \in Workers, SaveResultRefused(w)
      PROVE  CommandInv'
  BY <1>34
  DEF SaveResultRefused, StarterInv, CommandInv, Starter, BeforeStart, Undecided
<1>35. ASSUME NEW w \in Workers, SavePostUnacknowledged(w)
      PROVE  CommandInv'
  <2>1. pc' = [pc EXCEPT ![w] = pc'[w]] /\ pc'[w] \in {"savePost", "saveFailed"} /\ UNCHANGED <<call, reply>>
    BY <1>35, RetrySaveFrame DEF SavePostUnacknowledged
  <2>. QED
    BY <1>35, <2>1
    DEF SavePostUnacknowledged, SavePost, Held, Settle, StarterInv, CommandInv, Starter,
        BeforeStart, Undecided
<1>36. ASSUME NEW w \in Workers, SavePostError(w)
      PROVE  CommandInv'
  BY <1>36
  DEF SavePostError, RetrySave, StarterInv, CommandInv, Starter, BeforeStart, Undecided
<1>37. ASSUME NEW w \in Workers, GiveUpLeaseError(w)
      PROVE  CommandInv'
  BY <1>37
  DEF GiveUpLeaseError, Held, OwnsToken, StarterInv, CommandInv, Starter, BeforeStart, Undecided
<1>38. ASSUME NEW w \in Workers, SettleErrorFails(w)
      PROVE  CommandInv'
  BY <1>38
  DEF SettleErrorFails, Held, OwnsToken, Settle, Outcome, StarterInv, CommandInv, Starter,
      BeforeStart, Undecided
<1>39. ASSUME NEW k \in Keys, LeaseExpiresEarly(k)
      PROVE  CommandInv'
  BY <1>39
  DEF LeaseExpiresEarly, Expire, StarterInv, CommandInv, Starter, BeforeStart, Undecided
<1>40. CASE UNCHANGED vars
  BY <1>40
  DEF vars, rowVars, xVars, workerVars, StarterInv, CommandInv, Starter, BeforeStart, Undecided
<1>. QED
  BY <1>1, <1>2, <1>3, <1>4, <1>5, <1>6, <1>7, <1>8, <1>9, <1>10, <1>11, <1>12, <1>13, <1>14,
     <1>15, <1>16, <1>17, <1>18, <1>19, <1>20, <1>21, <1>22, <1>23, <1>24, <1>25, <1>26, <1>27,
     <1>28, <1>29, <1>30, <1>31, <1>32, <1>33, <1>34, <1>35, <1>36, <1>37, <1>38, <1>39, <1>40
  DEF Next, Regular, Claim, Execute, Command, XService, Fault

LEMMA StarterStep ==
  ASSUME TypeOK, EffectInv, [Next]_vars, CallInv'
  PROVE  StarterInv'
<1> USE CallsAssumption DEF EffectInv, TypeOK, CallInv, RowInv, Key, rowVars, xVars, workerVars,
        Goto, Leave, Executing, Commands, Statuses, Unresolved, Final, OwnsToken
<1>1. ASSUME NEW w \in Workers, NEW c \in Calls, StartClaim(w, c)
      PROVE  StarterInv'
  BY <1>1
  DEF StartClaim, StarterInv, CommandInv, Starter, BeforeStart, Undecided
<1>2. ASSUME NEW w \in Workers, Reserve(w)
      PROVE  StarterInv'
  BY <1>2
  DEF Reserve, Unclaimed, Claiming, InsertRow, StarterInv, CommandInv, Starter, BeforeStart, Undecided
<1>3. ASSUME NEW w \in Workers, ReserveDuplicate(w)
      PROVE  StarterInv'
  BY <1>3
  DEF ReserveDuplicate, Unclaimed, Claiming, InsertRow, Answer, StarterInv, CommandInv, Starter,
      BeforeStart, Undecided
<1>4. ASSUME NEW w \in Workers, RefuseClaim(w)
      PROVE  StarterInv'
  BY <1>4
  DEF RefuseClaim, Unclaimed, SameRequest, Claiming, StarterInv, CommandInv, Starter, BeforeStart, Undecided
<1>5. ASSUME NEW w \in Workers, ReplayStored(w)
      PROVE  StarterInv'
  BY <1>5
  DEF ReplayStored, SameRequest, Claiming, Answer, StarterInv, CommandInv, Starter, BeforeStart, Undecided
<1>6. ASSUME NEW w \in Workers, RecoverUnknown(w)
      PROVE  StarterInv'
  BY <1>6
  DEF RecoverUnknown, ExpiredClaim, SameRequest, Claiming, EffectUncertain, Settle, Answer,
      StarterInv, CommandInv, Starter, BeforeStart, Undecided
<1>7. ASSUME NEW w \in Workers, Reacquire(w)
      PROVE  StarterInv'
  BY <1>7
  DEF Reacquire, ExpiredClaim, SameRequest, Claiming, EffectUncertain, TakeOver, StarterInv,
      CommandInv, Starter, BeforeStart, Undecided
<1>8. ASSUME NEW w \in Workers, Validate(w)
      PROVE  StarterInv'
  BY <1>8
  DEF Validate, StarterInv, CommandInv, Starter, BeforeStart, Undecided
<1>9. ASSUME NEW w \in Workers, MarkStarted(w)
      PROVE  StarterInv'
  BY <1>9
  DEF MarkStarted, Held, OwnsToken, StarterInv, CommandInv, Starter, BeforeStart, Undecided
<1>10. ASSUME NEW w \in Workers, ReceiveReply(w)
      PROVE  StarterInv'
  BY <1>10
  DEF ReceiveReply, StarterInv, CommandInv, Starter, BeforeStart, Undecided
<1>11. ASSUME NEW w \in Workers, SavePostOk(w)
      PROVE  StarterInv'
  BY <1>11
  DEF SavePostOk, SavePost, Held, OwnsToken, Settle, Answer, StarterInv, CommandInv, Starter,
      BeforeStart, Undecided
<1>12. ASSUME NEW w \in Workers, GiveUpLease(w)
      PROVE  StarterInv'
  BY <1>12
  DEF GiveUpLease, Held, OwnsToken, Answer, StarterInv, CommandInv, Starter, BeforeStart, Undecided
<1>13. ASSUME NEW w \in Workers, SettleError(w)
      PROVE  StarterInv'
  BY <1>13
  DEF SettleError, Held, OwnsToken, Settle, Outcome, Answer, StarterInv, CommandInv, Starter,
      BeforeStart, Undecided
<1>14. ASSUME NEW w \in Workers, LoseLease(w)
      PROVE  StarterInv'
  BY <1>14
  DEF LoseLease, NotHeld, OwnsToken, StarterInv, CommandInv, Starter, BeforeStart, Undecided
<1>15. ASSUME NEW w \in Workers, Replay(w)
      PROVE  StarterInv'
  BY <1>15
  DEF Replay, Answer, StarterInv, CommandInv, Starter, BeforeStart, Undecided
<1>16. ASSUME NEW w \in Workers, SaveResult(w)
      PROVE  StarterInv'
  BY <1>16
  DEF SaveResult, StoreResult, Held, OwnsToken, StarterInv, CommandInv, Starter, BeforeStart, Undecided
<1>17. ASSUME NEW w \in Workers, Resume(w)
      PROVE  StarterInv'
  BY <1>17
  DEF Resume, ResumeAt, StarterInv, CommandInv, Starter, BeforeStart, Undecided
<1>18. ASSUME NEW w \in Workers, NEW k \in Keys, OpenPosted(w, k)
      PROVE  StarterInv'
  BY <1>18
  DEF OpenPosted, OpenCommand, StarterInv, CommandInv, Starter, BeforeStart, Undecided
<1>19. ASSUME NEW w \in Workers, NEW k \in Keys, OpenNotPosted(w, k)
      PROVE  StarterInv'
  BY <1>19
  DEF OpenNotPosted, OpenCommand, CallsDecided, StarterInv, CommandInv, Starter, BeforeStart, Undecided
<1>20. ASSUME NEW w \in Workers, NEW k \in Keys, OpenResume(w, k)
      PROVE  StarterInv'
  BY <1>20
  DEF OpenResume, OpenCommand, Resumable, StarterInv, CommandInv, Starter, BeforeStart, Undecided
<1>21. ASSUME NEW w \in Workers, ResolvePosted(w)
      PROVE  StarterInv'
  BY <1>21
  DEF ResolvePosted, StillUnknown, StarterInv, CommandInv, Starter, BeforeStart, Undecided
<1>22. ASSUME NEW w \in Workers, ResolveNotPosted(w)
      PROVE  StarterInv'
  BY <1>22
  DEF ResolveNotPosted, StillUnknown, StarterInv, CommandInv, Starter, BeforeStart, Undecided
<1>23. ASSUME NEW w \in Workers, ResumePersistence(w)
      PROVE  StarterInv'
  BY <1>23
  DEF ResumePersistence, Resumable, TakeOver, StarterInv, CommandInv, Starter, BeforeStart, Undecided
<1>24. ASSUME NEW w \in Workers, CommandRefused(w)
      PROVE  StarterInv'
  BY <1>24
  DEF CommandRefused, StarterInv, CommandInv, Starter, BeforeStart, Undecided
<1>25. ASSUME NEW w \in Workers, XPublishes(w)
      PROVE  StarterInv'
  <2>1. /\ Key(w) \in Keys /\ Starter(w) /\ started[Key(w)]
        /\ tweets[Key(w)] = 0 /\ late[Key(w)] = 0
    BY <1>25 DEF XPublishes, StarterInv, Starter
  <2>2. \A v \in Workers : pc[v] \in Executing /\ v # w /\ reply[v] # "none" => Key(v) # Key(w)
    BY <2>1 DEF StarterInv, Starter
  <2>3. \A v \in Workers : pc[v] = "calling" /\ v # w => Key(v) # Key(w)
    BY <2>1 DEF StarterInv, Starter
  <2>. QED  BY <1>25, <2>1, <2>2, <2>3 DEF XPublishes, StarterInv, Starter, BeforeStart
<1>26. ASSUME NEW w \in Workers, XRejects(w)
      PROVE  StarterInv'
  BY <1>26
  DEF XRejects, StarterInv, CommandInv, Starter, BeforeStart, Undecided
<1>27. ASSUME NEW k \in Keys, XDecidesLate(k)
      PROVE  StarterInv'
  <2>1. late[k] = 1 /\ tweets[k] = 0
    BY <1>27 DEF XDecidesLate
  <2>2. \A v \in Workers :
          pc[v] \in Executing /\ Key(v) = k => reply[v] = "none" /\ pc[v] # "calling"
    BY <2>1 DEF StarterInv
  <2>. QED  BY <1>27, <2>1, <2>2 DEF XDecidesLate, StarterInv, Starter, BeforeStart
<1>28. ASSUME NEW k \in Keys, LeaseExpires(k)
      PROVE  StarterInv'
  BY <1>28
  DEF LeaseExpires, Expire, StarterInv, CommandInv, Starter, BeforeStart, Undecided
<1>29. ASSUME NEW s \in Archivable, ArchiveSession(s)
      PROVE  StarterInv'
  BY <1>29
  DEF ArchiveSession, StarterInv, CommandInv, Starter, BeforeStart, Undecided
<1>30. ASSUME NEW w \in Workers, Crash(w)
      PROVE  StarterInv'
  <2>1. \A k \in Keys :
           \/ late'[k] = late[k] /\ ~(k = Key(w) /\ pc[w] = "calling" /\ reply[w] = "none")
           \/ /\ k = Key(w) /\ pc[w] = "calling" /\ reply[w] = "none"
              /\ late'[k] = 1 /\ late[k] = 0 /\ tweets[k] = 0
    BY <1>30, AbandonEffect DEF Crash
  <2>2. \A v \in Workers : v # w /\ Starter(v) /\ pc[w] = "calling" => Key(v) # Key(w)
    BY DEF StarterInv, Starter
  <2>3. pc' = [pc EXCEPT ![w] = "idle"] /\ \A v \in Workers \ {w} : call'[v] = call[v] /\ reply'[v] = reply[v]
    BY <1>30 DEF Crash
  <2>. QED  BY <1>30, <2>1, <2>2, <2>3 DEF Crash, StarterInv, Starter, BeforeStart
<1>31. ASSUME NEW w \in Workers, ReceiveNothing(w)
      PROVE  StarterInv'
  <2>1. \A k \in Keys :
           \/ late'[k] = late[k] /\ ~(k = Key(w) /\ pc[w] = "calling" /\ reply[w] = "none")
           \/ /\ k = Key(w) /\ pc[w] = "calling" /\ reply[w] = "none"
              /\ late'[k] = 1 /\ late[k] = 0 /\ tweets[k] = 0
    BY <1>31, AbandonEffect DEF ReceiveNothing
  <2>. QED  BY <1>31, <2>1 DEF ReceiveNothing, StarterInv, CommandInv, Starter, BeforeStart, Undecided
<1>32. ASSUME NEW w \in Workers, ResumeFails(w)
      PROVE  StarterInv'
  BY <1>32
  DEF ResumeFails, ResumeAt, StarterInv, CommandInv, Starter, BeforeStart, Undecided
<1>33. ASSUME NEW w \in Workers, SaveResultUnacknowledged(w)
      PROVE  StarterInv'
  BY <1>33
  DEF SaveResultUnacknowledged, StoreResult, Held, OwnsToken, StarterInv, CommandInv, Starter,
      BeforeStart, Undecided
<1>34. ASSUME NEW w \in Workers, SaveResultRefused(w)
      PROVE  StarterInv'
  BY <1>34
  DEF SaveResultRefused, StarterInv, CommandInv, Starter, BeforeStart, Undecided
<1>35. ASSUME NEW w \in Workers, SavePostUnacknowledged(w)
      PROVE  StarterInv'
  <2>1. pc' = [pc EXCEPT ![w] = pc'[w]] /\ pc'[w] \in {"savePost", "saveFailed"} /\ UNCHANGED <<call, reply>>
    BY <1>35, RetrySaveFrame DEF SavePostUnacknowledged
  <2>2. pc[w] = "savePost"
    BY <1>35 DEF SavePostUnacknowledged, SavePost
  <2>. QED
    BY <1>35, <2>1, <2>2
    DEF SavePostUnacknowledged, SavePost, Held, Settle, StarterInv, CommandInv, Starter,
        BeforeStart, Undecided
<1>36. ASSUME NEW w \in Workers, SavePostError(w)
      PROVE  StarterInv'
  <2>1. pc' = [pc EXCEPT ![w] = pc'[w]] /\ pc'[w] \in {"savePost", "saveFailed"} /\ UNCHANGED <<call, reply>>
    BY <1>36, RetrySaveFrame DEF SavePostError
  <2>2. pc[w] = "savePost"
    BY <1>36 DEF SavePostError, SavePost
  <2>. QED
    BY <1>36, <2>1, <2>2
    DEF SavePostError, SavePost, Held, Settle, StarterInv, CommandInv, Starter, BeforeStart,
        Undecided
<1>37. ASSUME NEW w \in Workers, GiveUpLeaseError(w)
      PROVE  StarterInv'
  BY <1>37
  DEF GiveUpLeaseError, Held, OwnsToken, StarterInv, CommandInv, Starter, BeforeStart, Undecided
<1>38. ASSUME NEW w \in Workers, SettleErrorFails(w)
      PROVE  StarterInv'
  BY <1>38
  DEF SettleErrorFails, Held, OwnsToken, Settle, Outcome, StarterInv, CommandInv, Starter,
      BeforeStart, Undecided
<1>39. ASSUME NEW k \in Keys, LeaseExpiresEarly(k)
      PROVE  StarterInv'
  BY <1>39
  DEF LeaseExpiresEarly, Expire, StarterInv, CommandInv, Starter, BeforeStart, Undecided
<1>40. CASE UNCHANGED vars
  BY <1>40
  DEF vars, rowVars, xVars, workerVars, StarterInv, CommandInv, Starter, BeforeStart, Undecided
<1>. QED
  BY <1>1, <1>2, <1>3, <1>4, <1>5, <1>6, <1>7, <1>8, <1>9, <1>10, <1>11, <1>12, <1>13, <1>14,
     <1>15, <1>16, <1>17, <1>18, <1>19, <1>20, <1>21, <1>22, <1>23, <1>24, <1>25, <1>26, <1>27,
     <1>28, <1>29, <1>30, <1>31, <1>32, <1>33, <1>34, <1>35, <1>36, <1>37, <1>38, <1>39, <1>40
  DEF Next, Regular, Claim, Execute, Command, XService, Fault

-----------------------------------------------------------------------------
(***************************************************************************)
(* One open request per content.                                           *)
(***************************************************************************)
\* A step that opens no request, changes the body of none, and starts no claim.
Quiet ==
  /\ \A k \in Keys :
       status'[k] \in Unresolved => status[k] \in Unresolved /\ request'[k] = request[k]
  /\ \A w \in Workers :
       pc'[w] = "claiming" => pc[w] = "claiming" /\ call'[w] = call[w] /\ dup'[w] = dup[w]

LEMMA QuietContent ==
  ASSUME ContentInv, Quiet
  PROVE  ContentInv'
<1> USE DEF ContentInv, Quiet
<1>1. \A v, w \in Workers :
        pc'[v] = "claiming" /\ pc'[w] = "claiming" /\ v # w
          => call'[v].content # call'[w].content
  OBVIOUS
<1>2. ASSUME NEW w \in Workers, pc'[w] = "claiming", ~dup'[w]
      PROVE  ~UnresolvedDuplicate(call[w])'
  BY <1>2 DEF UnresolvedDuplicate
<1>3. OneUnresolvedPerContent'
  BY DEF OneUnresolvedPerContent
<1>. QED  BY <1>1, <1>2, <1>3 DEF UnresolvedDuplicate

LEMMA ClaimContent ==
  ASSUME TypeOK, CallInv, ContentInv, NEW w \in Workers, NEW c \in Calls, StartClaim(w, c)
  PROVE  ContentInv'
<1> USE CallsAssumption DEF StartClaim, ContentInv, rowVars
<1>1. /\ pc' = [pc EXCEPT ![w] = "claiming"] /\ call' = [call EXCEPT ![w] = c]
      /\ dup' = [dup EXCEPT ![w] = UnresolvedDuplicate(c)]
      /\ pc \in [Workers -> Steps] /\ DOMAIN call = Workers /\ DOMAIN dup = Workers
      /\ UNCHANGED <<status, request>>
  BY DEF TypeOK
<1>2. \A v \in Workers : pc[v] = "claiming" => call[v].content # c.content
  BY CallsAssumption DEF AdvisoryFree
<1>. QED  BY <1>1, <1>2 DEF UnresolvedDuplicate, OneUnresolvedPerContent

LEMMA ReserveContent ==
  ASSUME TypeOK, CallInv, ContentInv, NEW w \in Workers, Reserve(w)
  PROVE  ContentInv'
<1> USE DEF ContentInv
<1>1. pc[w] = "claiming" /\ ~dup[w] /\ call[w] \in Calls /\ Key(w) \in Keys
  BY CallsAssumption DEF Reserve, Unclaimed, Claiming, CallInv, Key
<1>2. /\ \A v \in Workers : pc'[v] = "claiming" => v # w /\ pc[v] = "claiming"
      /\ UNCHANGED <<call, dup>>
  BY DEF Reserve, Goto, TypeOK
<1>3. \A k \in Keys :
        /\ status'[k] = IF k = Key(w) THEN "processing" ELSE status[k]
        /\ request'[k] = IF k = Key(w) THEN call[w] ELSE request[k]
  BY <1>1 DEF Reserve, InsertRow, TypeOK
<1>4. \A k \in Keys \ {Key(w)} : status[k] \in Unresolved
                                  => request[k].content # call[w].content
  BY <1>1 DEF UnresolvedDuplicate, Key
<1>5. OneUnresolvedPerContent'
  BY <1>3, <1>4 DEF OneUnresolvedPerContent
<1>6. ASSUME NEW v \in Workers, pc'[v] = "claiming", ~dup'[v]
      PROVE  ~UnresolvedDuplicate(call[v])'
  BY <1>1, <1>2, <1>3, <1>6 DEF UnresolvedDuplicate
<1>. QED  BY <1>2, <1>5, <1>6 DEF UnresolvedDuplicate

\* The claims of the other executions are left alone.
OtherClaims ==
  \A v \in Workers :
    pc'[v] = "claiming" => pc[v] = "claiming" /\ call'[v] = call[v] /\ dup'[v] = dup[v]

LEMMA LeaveClaims ==
  ASSUME TypeOK, NEW w \in Workers, Leave(w)
  PROVE  OtherClaims
  BY DEF TypeOK, Leave, OtherClaims

LEMMA GotoClaims ==
  ASSUME TypeOK, NEW w \in Workers, NEW p, NEW r, NEW a, p # "claiming", Goto(w, p, r, a)
  PROVE  OtherClaims
  BY DEF TypeOK, Goto, OtherClaims

LEMMA SettleQuiet ==
  ASSUME TypeOK, NEW k \in Keys, status[k] = "processing", NEW s, Settle(k, s), OtherClaims
  PROVE  Quiet
  BY DEF TypeOK, Settle, OtherClaims, Quiet, Unresolved

LEMMA QuietClaim ==
  ASSUME TypeOK, CallInv, NEW w \in Workers, Claim(w), ~Reserve(w)
  PROVE  Quiet
<1>1. Claiming(w) /\ Key(w) \in Keys
  BY CallsAssumption DEF Claim, Reserve, ReserveDuplicate, RefuseClaim, ReplayStored, RecoverUnknown,
         Reacquire, ExpiredClaim, SameRequest, Unclaimed, Claiming, CallInv, Key
<1>2. ASSUME ReserveDuplicate(w)  PROVE Quiet
  <2>1. OtherClaims
    BY <1>2, LeaveClaims DEF ReserveDuplicate
  <2>2. /\ status' = [status EXCEPT ![Key(w)] = "failed"]
        /\ request' = [request EXCEPT ![Key(w)] = call[w]]
    BY <1>2 DEF ReserveDuplicate, InsertRow
  <2>. QED  BY <1>1, <2>1, <2>2 DEF OtherClaims, Quiet, Unresolved, TypeOK
<1>3. ASSUME RefuseClaim(w) \/ ReplayStored(w)  PROVE Quiet
  <2>1. OtherClaims
    BY <1>3, LeaveClaims DEF RefuseClaim, ReplayStored
  <2>. QED  BY <1>3, <2>1 DEF RefuseClaim, ReplayStored, OtherClaims, Quiet, rowVars
<1>4. ASSUME RecoverUnknown(w)  PROVE Quiet
  BY <1>1, <1>4, LeaveClaims, SettleQuiet DEF RecoverUnknown, ExpiredClaim
<1>5. ASSUME Reacquire(w)  PROVE Quiet
  <2>1. OtherClaims
    BY <1>5, GotoClaims DEF Reacquire
  <2>. QED  BY <1>5, <2>1 DEF Reacquire, TakeOver, OtherClaims, Quiet
<1>. QED  BY <1>2, <1>3, <1>4, <1>5 DEF Claim

LEMMA QuietExecute ==
  ASSUME TypeOK, CallInv, NEW w \in Workers, Execute(w)
  PROVE  Quiet
<1> USE DEF rowVars
<1>1. ASSUME Validate(w) \/ MarkStarted(w) \/ ReceiveReply(w) \/ SaveResult(w) \/ Resume(w)
      PROVE  Quiet
  <2>1. OtherClaims
    BY <1>1, GotoClaims DEF Validate, MarkStarted, ReceiveReply, SaveResult, Resume, ResumeAt
  <2>. QED
    BY <1>1, <2>1 DEF Validate, MarkStarted, ReceiveReply, SaveResult, StoreResult, Resume, ResumeAt,
                      OtherClaims, Quiet
<1>2. ASSUME SavePostOk(w)  PROVE Quiet
  <2>1. Key(w) \in Keys
    BY <1>2, KeyType DEF SavePostOk, SavePost
  <2>. QED
    BY <1>2, <2>1, LeaveClaims, SettleQuiet DEF SavePostOk, SavePost, Held, OwnsToken
<1>3. ASSUME GiveUpLease(w) \/ LoseLease(w) \/ Replay(w)  PROVE Quiet
  <2>1. OtherClaims
    BY <1>3, LeaveClaims, GotoClaims DEF GiveUpLease, LoseLease, Replay
  <2>. QED  BY <1>3, <2>1 DEF GiveUpLease, LoseLease, Replay, OtherClaims, Quiet
<1>4. ASSUME SettleError(w)  PROVE Quiet
  <2>1. Key(w) \in Keys
    BY <1>4, KeyType DEF SettleError
  <2>. QED
    BY <1>4, <2>1, LeaveClaims, SettleQuiet DEF SettleError, Held, OwnsToken
<1>. QED  BY <1>1, <1>2, <1>3, <1>4 DEF Execute

LEMMA QuietCommand ==
  ASSUME TypeOK, CallInv, NEW w \in Workers, Command(w)
  PROVE  Quiet
<1> USE DEF Quiet, TypeOK, rowVars, Leave, Unresolved, Commands
<1>1. (\E k \in Keys : OpenPosted(w, k) \/ OpenNotPosted(w, k) \/ OpenResume(w, k)) => Quiet
  BY DEF OpenPosted, OpenNotPosted, OpenResume, OpenCommand
<1>2. ResolvePosted(w) \/ ResolveNotPosted(w) => Quiet
  BY DEF ResolvePosted, ResolveNotPosted
<1>3. ResumePersistence(w) \/ CommandRefused(w) => Quiet
  BY DEF ResumePersistence, TakeOver, CommandRefused, Goto
<1>. QED  BY <1>1, <1>2, <1>3 DEF Command

LEMMA QuietFault ==
  ASSUME TypeOK, CallInv, Fault
  PROVE  Quiet
<1> USE DEF Quiet, TypeOK, rowVars, Unresolved
<1>1. ASSUME NEW w \in Workers, Crash(w)  PROVE  Quiet
  BY <1>1 DEF Crash, Leave
<1>2. ASSUME NEW w \in Workers,
             ReceiveNothing(w) \/ ResumeFails(w) \/ SaveResultUnacknowledged(w) \/ SaveResultRefused(w)
      PROVE  Quiet
  BY <1>2 DEF ReceiveNothing, ResumeFails, ResumeAt, SaveResultUnacknowledged, StoreResult,
              SaveResultRefused, Goto
<1>3. ASSUME NEW w \in Workers, SavePostUnacknowledged(w) \/ SavePostError(w)  PROVE  Quiet
  <2>1. RetrySave(w)
    BY <1>3 DEF SavePostUnacknowledged, SavePostError
  <2>2. /\ \A v \in Workers : pc'[v] = "claiming" => pc[v] = "claiming"
        /\ UNCHANGED <<call, dup>>
    BY <2>1 DEF RetrySave, Goto
  <2>3. UNCHANGED request /\ (status' = status \/ status' = [status EXCEPT ![Key(w)] = "succeeded"])
    BY <1>3 DEF SavePostUnacknowledged, SavePostError, SavePost, Settle
  <2>. QED  BY <2>2, <2>3
<1>4. ASSUME NEW w \in Workers, GiveUpLeaseError(w)  PROVE  Quiet
  BY <1>4 DEF GiveUpLeaseError, Goto
<1>5. ASSUME NEW w \in Workers, SettleErrorFails(w)  PROVE  Quiet
  BY <1>5 DEF SettleErrorFails, Held, OwnsToken, Settle, Goto
<1>6. ASSUME NEW k \in Keys, LeaseExpiresEarly(k)  PROVE  Quiet
  BY <1>6 DEF LeaseExpiresEarly, Expire, workerVars
<1>. QED  BY <1>1, <1>2, <1>3, <1>4, <1>5, <1>6 DEF Fault

LEMMA ContentStep ==
  ASSUME TypeOK, CallInv, ContentInv, [Next]_vars
  PROVE  ContentInv'
<1>1. ASSUME NEW w \in Workers, NEW c \in Calls, StartClaim(w, c)  PROVE  ContentInv'
  BY <1>1, ClaimContent
<1>2. ASSUME NEW w \in Workers, Claim(w)  PROVE  ContentInv'
  BY <1>2, ReserveContent, QuietClaim, QuietContent
<1>3. ASSUME NEW w \in Workers, Execute(w) \/ Command(w)  PROVE  ContentInv'
  BY <1>3, QuietExecute, QuietCommand, QuietContent
<1>4. CASE XService
  <2>. Quiet
    BY <1>4 DEF XService, XPublishes, XRejects, XDecidesLate, Quiet, rowVars, workerVars
  <2>. QED  BY QuietContent
<1>5. ASSUME NEW k \in Keys, LeaseExpires(k)  PROVE  ContentInv'
  <2>. Quiet
    BY <1>5 DEF LeaseExpires, Expire, Quiet, workerVars
  <2>. QED  BY QuietContent
<1>6. ASSUME NEW s \in Archivable, ArchiveSession(s)  PROVE  ContentInv'
  <2>. Quiet
    BY <1>6 DEF ArchiveSession, Quiet, rowVars, workerVars
  <2>. QED  BY QuietContent
<1>7. CASE Fault
  BY <1>7, QuietFault, QuietContent
<1>8. CASE UNCHANGED vars
  <2>. Quiet
    BY <1>8 DEF vars, Quiet, rowVars, workerVars
  <2>. QED  BY QuietContent
<1>. QED  BY <1>1, <1>2, <1>3, <1>4, <1>5, <1>6, <1>7, <1>8 DEF Next, Regular

-----------------------------------------------------------------------------
(***************************************************************************)
(* The inductive invariant and the safety properties.                      *)
(***************************************************************************)
IInv == TypeOK /\ EffectInv /\ ContentInv

LEMMA InitIInv ==
  ASSUME Init
  PROVE  IInv
<1>1. TypeOK
  BY DEF Init, TypeOK, Statuses, Steps
<1>2. CallInv /\ RowInv
  BY DEF Init, CallInv, RowInv, Unresolved, Executing, Commands
<1>3. StarterInv /\ CommandInv
  BY DEF Init, StarterInv, CommandInv, Starter, BeforeStart, Executing
<1>4. ContentInv
  BY DEF Init, ContentInv, OneUnresolvedPerContent, Unresolved
<1>. QED  BY <1>1, <1>2, <1>3, <1>4 DEF IInv, EffectInv

LEMMA NextIInv ==
  ASSUME IInv, [Next]_vars
  PROVE  IInv'
<1>1. TypeOK' /\ CallInv'
  BY TypeStep, CallStep DEF IInv, EffectInv
<1>2. RowInv' /\ StarterInv' /\ CommandInv'
  BY <1>1, RowStep, StarterStep, CommandStep DEF IInv
<1>3. ContentInv'
  BY ContentStep DEF IInv, EffectInv
<1>. QED  BY <1>1, <1>2, <1>3 DEF IInv, EffectInv

\* Every reachable state is one the invariant allows.
THEOREM Invariance == Spec => []IInv
<1>1. Init => IInv
  BY InitIInv
<1>2. IInv /\ [Next]_vars => IInv'
  BY NextIInv
<1>. QED  BY <1>1, <1>2, PTL DEF Spec

\* The row, the executions and the X service always have their types.
THEOREM TypeCorrect == Spec => []TypeOK
<1>1. IInv => TypeOK
  BY DEF IInv
<1>. QED  BY <1>1, Invariance, PTL

\* No idempotency key is ever published twice, and after a publication no call to X is
\* still open, however executions crash, lose their lease and are replaced.
THEOREM PublishedOnce == Spec => []AtMostOneTweet
<1>1. IInv => AtMostOneTweet
  BY DEF IInv, TypeOK, EffectInv, RowInv, StarterInv, AtMostOneTweet, Undecided
<1>. QED  BY <1>1, Invariance, PTL

\* succeeded and failed are what happened on X, and the Post exists exactly for succeeded.
THEOREM StatusTruthful == Spec => []StatusMatchesEffect
<1>1. IInv => StatusMatchesEffect
  BY DEF IInv, EffectInv, RowInv, StatusMatchesEffect
<1>. QED  BY <1>1, Invariance, PTL

\* A stored external_result is always the proof of a publication.
THEOREM ResultTruthful == Spec => []ResultMeansPublished
<1>1. IInv => ResultMeansPublished
  BY DEF IInv, EffectInv, RowInv, ResultMeansPublished
<1>. QED  BY <1>1, Invariance, PTL

\* A call that X may still carry out keeps its request unresolved.
THEOREM UndecidedBlocks == Spec => []UndecidedIsUnresolved
<1>1. IInv => UndecidedIsUnresolved
  BY DEF IInv, EffectInv, RowInv, StarterInv, UndecidedIsUnresolved, Undecided
<1>. QED  BY <1>1, Invariance, PTL

\* At most one request with a given content is unresolved at any time.
THEOREM OneOpenRequest == Spec => []OneUnresolvedPerContent
<1>1. IInv => OneUnresolvedPerContent
  BY DEF IInv, ContentInv
<1>. QED  BY <1>1, Invariance, PTL

-----------------------------------------------------------------------------
(***************************************************************************)
(* Every step is a step of the contract, or one it does not see.           *)
(***************************************************************************)
Seen == <<status, request, tweets, posts>>

LEMMA ClaimMaps ==
  ASSUME IInv, NEW w \in Workers, Claim(w)
  PROVE  Contract!Next \/ UNCHANGED Seen
<1>1. TypeOK /\ CallInv /\ ContentInv
  BY DEF IInv, EffectInv
<1>2. /\ pc[w] = "claiming" /\ call[w] \in Calls /\ Key(w) = call[w].key /\ Key(w) \in Keys
  BY <1>1, CallsAssumption DEF Claim, Reserve, ReserveDuplicate, RefuseClaim, ReplayStored,
     RecoverUnknown, Reacquire, ExpiredClaim, SameRequest, Unclaimed, Claiming, CallInv, Key
<1>3. ASSUME Reserve(w)  PROVE Contract!Next
  <2>1. status[Key(w)] = "none" /\ ~UnresolvedDuplicate(call[w])
    BY <1>1, <1>2, <1>3 DEF Reserve, Unclaimed, ContentInv
  <2>2. \A k \in Keys : Contract!Open(k) => request[k].content # call[w].content
    BY <1>2, <2>1 DEF Contract!Open, UnresolvedDuplicate, Unresolved
  <2>3. /\ request' = [request EXCEPT ![Key(w)] = call[w]]
        /\ status' = [status EXCEPT ![Key(w)] = "processing"]
        /\ UNCHANGED <<tweets, posts>>
    BY <1>3 DEF Reserve, InsertRow, xVars
  <2>. QED  BY <1>2, <2>1, <2>2, <2>3 DEF Contract!Next, Contract!Accept
<1>4. ASSUME ReserveDuplicate(w)  PROVE Contract!Next
  <2>1. /\ status[Key(w)] = "none"
        /\ request' = [request EXCEPT ![Key(w)] = call[w]]
        /\ status' = [status EXCEPT ![Key(w)] = "failed"]
        /\ UNCHANGED <<tweets, posts>>
    BY <1>4 DEF ReserveDuplicate, Unclaimed, InsertRow, xVars
  <2>. QED  BY <1>2, <2>1 DEF Contract!Next, Contract!Accept
<1>5. ASSUME RefuseClaim(w) \/ ReplayStored(w) \/ Reacquire(w)  PROVE UNCHANGED Seen
  BY <1>5 DEF RefuseClaim, ReplayStored, Reacquire, TakeOver, Seen, rowVars, xVars
<1>6. ASSUME RecoverUnknown(w)  PROVE Contract!Next
  <2>1. /\ status[Key(w)] = "processing"
        /\ status' = [status EXCEPT ![Key(w)] = "outcome_unknown"]
        /\ UNCHANGED <<request, tweets, posts>>
    BY <1>6 DEF RecoverUnknown, ExpiredClaim, Settle, xVars
  <2>. QED  BY <1>2, <2>1 DEF Contract!Next, Contract!Doubt
<1>. QED  BY <1>3, <1>4, <1>5, <1>6 DEF Claim

\* Saving the Post succeeds only with a published tweet.
LEMMA SavePostMaps ==
  ASSUME IInv, NEW w \in Workers, SavePost(w)
  PROVE  Contract!Next
<1>1. Key(w) \in Keys /\ tweets[Key(w)] = 1
  BY KeyType DEF IInv, EffectInv, RowInv, StarterInv, SavePost
<1>2. /\ status[Key(w)] = "processing" /\ posts[Key(w)] = 0
      /\ status' = [status EXCEPT ![Key(w)] = "succeeded"]
      /\ posts' = [posts EXCEPT ![Key(w)] = 1]
      /\ UNCHANGED <<request, tweets>>
  BY DEF SavePost, Held, OwnsToken, Settle, xVars
<1>. QED  BY <1>1, <1>2 DEF Contract!Next, Contract!Succeed, Contract!Open

\* Failing is only for a request that X did not publish.
LEMMA SettleErrorMaps ==
  ASSUME IInv, NEW w \in Workers, pc[w] \in {"fail", "unknown"}, Held(w),
         Settle(Key(w), Outcome(w)), UNCHANGED <<tweets, posts>>
  PROVE  Contract!Next
<1>1. Key(w) \in Keys /\ status[Key(w)] = "processing"
  BY KeyType DEF IInv, EffectInv, Held, OwnsToken
<1>2. CASE pc[w] = "fail"
  <2>1. tweets[Key(w)] = 0
    <3>1. reply[w] \in {"none", "rejected"}
      BY <1>2 DEF IInv, TypeOK, EffectInv, StarterInv
    <3>2. CASE reply[w] = "none"
      BY <1>1, <1>2, <3>2 DEF IInv, EffectInv, RowInv, StarterInv, BeforeStart, Held
    <3>3. CASE reply[w] = "rejected"
      BY <1>2, <3>3 DEF IInv, EffectInv, StarterInv, Executing
    <3>. QED  BY <3>1, <3>2, <3>3
  <2>2. status' = [status EXCEPT ![Key(w)] = "failed"] /\ UNCHANGED request
    BY <1>2 DEF Settle, Outcome
  <2>. QED  BY <1>1, <2>1, <2>2 DEF Contract!Next, Contract!Fail, Contract!Open
<1>3. CASE pc[w] = "unknown"
  <2>1. status' = [status EXCEPT ![Key(w)] = "outcome_unknown"] /\ UNCHANGED request
    BY <1>3 DEF Settle, Outcome
  <2>. QED  BY <1>1, <2>1 DEF Contract!Next, Contract!Doubt
<1>. QED  BY <1>2, <1>3

LEMMA ExecuteMaps ==
  ASSUME IInv, NEW w \in Workers, Execute(w)
  PROVE  Contract!Next \/ UNCHANGED Seen
<1>1. ASSUME Validate(w) \/ MarkStarted(w) \/ ReceiveReply(w) \/ SaveResult(w) \/ Resume(w)
      PROVE  UNCHANGED Seen
  BY <1>1 DEF Validate, MarkStarted, ReceiveReply, SaveResult, StoreResult, Resume, ResumeAt,
              Seen, rowVars, xVars
<1>2. ASSUME GiveUpLease(w) \/ LoseLease(w) \/ Replay(w)  PROVE UNCHANGED Seen
  BY <1>2 DEF GiveUpLease, LoseLease, Replay, Seen, rowVars, xVars
<1>3. ASSUME SavePostOk(w)  PROVE Contract!Next
  BY <1>3, SavePostMaps DEF SavePostOk
<1>4. ASSUME SettleError(w)  PROVE Contract!Next
  BY <1>4, SettleErrorMaps DEF SettleError, xVars
<1>. QED  BY <1>1, <1>2, <1>3, <1>4 DEF Execute

LEMMA CommandMaps ==
  ASSUME IInv, NEW w \in Workers, Command(w)
  PROVE  Contract!Next \/ UNCHANGED Seen
<1>1. ASSUME NEW k \in Keys, OpenPosted(w, k) \/ OpenNotPosted(w, k) \/ OpenResume(w, k)
      PROVE  UNCHANGED Seen
  BY <1>1 DEF OpenPosted, OpenNotPosted, OpenResume, OpenCommand, Seen, rowVars, xVars
<1>2. ASSUME ResolvePosted(w)  PROVE Contract!Next
  <2>1. Key(w) \in Keys /\ tweets[Key(w)] = 1
    BY <1>2, KeyType DEF IInv, EffectInv, CommandInv, ResolvePosted
  <2>2. /\ status[Key(w)] = "outcome_unknown" /\ posts[Key(w)] = 0
        /\ status' = [status EXCEPT ![Key(w)] = "succeeded"]
        /\ posts' = [posts EXCEPT ![Key(w)] = 1]
        /\ UNCHANGED <<request, tweets>>
    BY <1>2 DEF ResolvePosted, StillUnknown, xVars
  <2>. QED  BY <2>1, <2>2 DEF Contract!Next, Contract!Succeed, Contract!Open
<1>3. ASSUME ResolveNotPosted(w)  PROVE Contract!Next
  <2>1. /\ status[Key(w)] = "outcome_unknown"
        /\ status' = [status EXCEPT ![Key(w)] = "failed"]
        /\ UNCHANGED <<request, tweets, posts>>
    BY <1>3 DEF ResolveNotPosted, StillUnknown, xVars
  <2>2. Key(w) \in Keys /\ tweets[Key(w)] = 0
    BY <1>3, <2>1, KeyType DEF IInv, EffectInv, CommandInv, ResolveNotPosted
  <2>. QED  BY <2>1, <2>2 DEF Contract!Next, Contract!Fail, Contract!Open
<1>4. ASSUME ResumePersistence(w) \/ CommandRefused(w)  PROVE UNCHANGED Seen
  BY <1>4 DEF ResumePersistence, TakeOver, CommandRefused, Seen, rowVars, xVars
<1>. QED  BY <1>1, <1>2, <1>3, <1>4 DEF Command

LEMMA XServiceMaps ==
  ASSUME IInv, XService
  PROVE  Contract!Next \/ UNCHANGED Seen
<1>1. ASSUME NEW w \in Workers, XPublishes(w)  PROVE Contract!Next
  <2>1. Key(w) \in Keys /\ tweets[Key(w)] = 0 /\ status[Key(w)] \in Unresolved
    BY <1>1, KeyType DEF IInv, EffectInv, StarterInv, XPublishes
  <2>2. /\ tweets' = [tweets EXCEPT ![Key(w)] = 1]
        /\ UNCHANGED <<status, request, posts>>
    BY <1>1, <2>1 DEF XPublishes, rowVars
  <2>. QED  BY <2>1, <2>2 DEF Contract!Next, Contract!Publish, Contract!Open, Unresolved
<1>2. ASSUME NEW w \in Workers, XRejects(w)  PROVE UNCHANGED Seen
  BY <1>2 DEF XRejects, Seen, rowVars, xVars
<1>3. ASSUME NEW k \in Keys, XDecidesLate(k)  PROVE Contract!Next \/ UNCHANGED Seen
  <2>1. tweets[k] = 0 /\ status[k] \in Unresolved
    <3>1. tweets[k] \in Nat /\ late[k] \in Nat /\ late[k] > 0
      BY <1>3 DEF IInv, TypeOK, XDecidesLate
    <3>2. tweets[k] + late[k] <= 1 /\ (late[k] > 0 => status[k] \in Unresolved)
      BY DEF IInv, EffectInv, RowInv
    <3>. QED  BY <3>1, <3>2
  <2>2. PICK n \in {0, 1} : tweets' = [tweets EXCEPT ![k] = n]
    <3>1. PICK m \in {0, 1} : tweets' = [tweets EXCEPT ![k] = tweets[k] + m]
      BY <1>3 DEF XDecidesLate
    <3>2. tweets[k] + m = m
      BY <2>1
    <3>. QED  BY <3>1, <3>2
  <2>3. UNCHANGED <<status, request, posts>>
    BY <1>3 DEF XDecidesLate, rowVars
  <2>4. CASE n = 0
    BY <2>1, <2>2, <2>3, <2>4 DEF Seen, IInv, TypeOK
  <2>5. CASE n = 1
    BY <2>1, <2>2, <2>3, <2>5 DEF Contract!Next, Contract!Publish, Contract!Open, Unresolved
  <2>. QED  BY <2>4, <2>5
<1>. QED  BY <1>1, <1>2, <1>3 DEF XService

LEMMA FaultMaps ==
  ASSUME IInv, Fault
  PROVE  Contract!Next \/ UNCHANGED Seen
<1> USE DEF Seen, rowVars, xVars
<1>1. ASSUME NEW w \in Workers, \/ Crash(w) \/ ReceiveNothing(w) \/ ResumeFails(w)
                               \/ SaveResultUnacknowledged(w) \/ SaveResultRefused(w)
      PROVE  UNCHANGED Seen
  BY <1>1 DEF Crash, ReceiveNothing, ResumeFails, ResumeAt, SaveResultUnacknowledged,
              StoreResult, SaveResultRefused
<1>2. ASSUME NEW w \in Workers, SavePostUnacknowledged(w)  PROVE Contract!Next
  BY <1>2, SavePostMaps DEF SavePostUnacknowledged
<1>3. ASSUME NEW w \in Workers, SavePostError(w) \/ GiveUpLeaseError(w)  PROVE UNCHANGED Seen
  BY <1>3 DEF SavePostError, GiveUpLeaseError
<1>4. ASSUME NEW w \in Workers, SettleErrorFails(w)  PROVE Contract!Next \/ UNCHANGED Seen
  <2>1. pc[w] \in {"fail", "unknown"} /\ UNCHANGED <<tweets, posts>>
    BY <1>4 DEF SettleErrorFails
  <2>2. CASE UNCHANGED rowVars
    BY <2>1, <2>2
  <2>3. CASE Held(w) /\ Settle(Key(w), Outcome(w))
    BY <2>1, <2>3, SettleErrorMaps
  <2>. QED  BY <1>4, <2>2, <2>3 DEF SettleErrorFails
<1>5. ASSUME NEW k \in Keys, LeaseExpiresEarly(k)  PROVE UNCHANGED Seen
  BY <1>5 DEF LeaseExpiresEarly, Expire
<1>. QED  BY <1>1, <1>2, <1>3, <1>4, <1>5 DEF Fault

LEMMA StepMaps ==
  ASSUME IInv, [Next]_vars
  PROVE  [Contract!Next]_Seen
<1> USE DEF Seen, rowVars, xVars
<1>1. ASSUME NEW w \in Workers, NEW c \in Calls, StartClaim(w, c)  PROVE UNCHANGED Seen
  BY <1>1 DEF StartClaim
<1>2. ASSUME NEW k \in Keys, LeaseExpires(k)  PROVE UNCHANGED Seen
  BY <1>2 DEF LeaseExpires, Expire
<1>3. ASSUME NEW s \in Archivable, ArchiveSession(s)  PROVE UNCHANGED Seen
  BY <1>3 DEF ArchiveSession
<1>4. CASE UNCHANGED vars
  BY <1>4 DEF vars
<1>. QED  BY <1>1, <1>2, <1>3, <1>4, ClaimMaps, ExecuteMaps, CommandMaps, XServiceMaps, FaultMaps
          DEF Next, Regular

\* The approval and recovery code implements the contract.
THEOREM Refinement == Spec => Implements
<1>1. Init => Contract!Init
  BY DEF Init, Contract!Init
<1>2. IInv /\ [Next]_vars => [Contract!Next]_(Contract!cVars)
  BY StepMaps DEF Seen, Contract!cVars
<1>. QED  BY <1>1, <1>2, Invariance, PTL DEF Spec, Implements, Contract!Spec

LEMMA SettledStep ==
  ASSUME IInv, [Next]_vars, NEW k \in Keys
  PROVE  /\ status[k] \in Final => status'[k] = status[k]
         /\ status[k] = "outcome_unknown" => status'[k] \in {"outcome_unknown"} \cup Final
         /\ tweets[k] = 1 => tweets'[k] = 1
<1>1. /\ [Contract!Next]_Seen /\ status \in [Keys -> Statuses]
      /\ tweets \in [Keys -> Nat]
  BY StepMaps DEF IInv, TypeOK
<1>. QED
  BY <1>1, CallsAssumption DEF Seen, Final, Contract!Next, Contract!Accept, Contract!Publish,
     Contract!Doubt, Contract!Succeed, Contract!Fail, Contract!Open

\* A settled request never reopens: the contract has no such step.
THEOREM NeverReopens == Spec => SettledStays
<1>1. IInv /\ [Next]_vars =>
        [\A k \in Keys :
           /\ status[k] \in Final => status'[k] = status[k]
           /\ status[k] = "outcome_unknown" => status'[k] \in {"outcome_unknown"} \cup Final]_vars
  BY SettledStep
<1>. QED  BY <1>1, Invariance, PTL DEF Spec, SettledStays

-----------------------------------------------------------------------------
(***************************************************************************)
(* What single steps of the publication may never do: executions that lost *)
(* their request write nothing, the call to X is started once, and a key   *)
(* stays with its first request.                                           *)
(***************************************************************************)
\* The step is taken by v, or by nobody: every other execution stays where it is.
OnlyMoves(v) == \A w \in Workers \ {v} : pc'[w] = pc[w]

\* The row and its Post stay as they are.
RowKept == UNCHANGED <<rowVars, posts>>

LEMMA LeaveMoves ==
  ASSUME TypeOK, NEW v \in Workers, Leave(v)
  PROVE  OnlyMoves(v) /\ pc'[v] = "idle"
  BY DEF TypeOK, Leave, OnlyMoves

LEMMA GotoMoves ==
  ASSUME TypeOK, NEW v \in Workers, NEW p, NEW r, NEW a, Goto(v, p, r, a)
  PROVE  OnlyMoves(v) /\ pc'[v] = p
  BY DEF TypeOK, Goto, OnlyMoves

LEMMA RetryMoves ==
  ASSUME TypeOK, NEW v \in Workers, RetrySave(v)
  PROVE  OnlyMoves(v) /\ pc'[v] \in {"savePost", "saveFailed"}
  BY GotoMoves DEF RetrySave

-----------------------------------------------------------------------------
(***************************************************************************)
(* Who moves, who writes.  An execution that writes holds the row; a claim *)
(* or an operator command writes from outside of the execution.            *)
(***************************************************************************)
\* v takes the step; only MarkStarted brings it to the call to X, and a claim ends as a
\* claim or dies.
Acts(v) ==
  /\ OnlyMoves(v)
  /\ RowKept \/ pc[v] \notin Executing \/ OwnsToken(v)
  /\ \/ MarkStarted(v)
     \/ UNCHANGED started /\ pc'[v] # "calling"
  /\ pc[v] = "claiming" => Claim(v) \/ UNCHANGED <<rowVars, answers>>

LEMMA ClaimActs ==
  ASSUME TypeOK, NEW v \in Workers, Claim(v)
  PROVE  Acts(v) /\ UNCHANGED started /\ pc[v] = "claiming"
<1>1. pc[v] = "claiming" /\ pc[v] \notin Executing
  BY DEF Claim, Reserve, ReserveDuplicate, RefuseClaim, ReplayStored, RecoverUnknown, Reacquire,
         ExpiredClaim, SameRequest, Unclaimed, Claiming, Executing
<1>2. OnlyMoves(v) /\ pc'[v] # "calling"
  <2>1. Reserve(v) \/ Reacquire(v) => OnlyMoves(v) /\ pc'[v] # "calling"
    BY DEF Reserve, Reacquire, Goto, OnlyMoves, TypeOK
  <2>2. ReserveDuplicate(v) \/ RefuseClaim(v) \/ ReplayStored(v) \/ RecoverUnknown(v)
          => OnlyMoves(v) /\ pc'[v] # "calling"
    BY LeaveMoves DEF ReserveDuplicate, RefuseClaim, ReplayStored, RecoverUnknown
  <2>. QED  BY <2>1, <2>2 DEF Claim
<1>3. UNCHANGED started
  BY DEF Claim, Reserve, ReserveDuplicate, RefuseClaim, ReplayStored, RecoverUnknown, Reacquire,
         InsertRow, Settle, TakeOver, rowVars
<1>. QED  BY <1>1, <1>2, <1>3 DEF Acts

LEMMA ExecuteActs ==
  ASSUME TypeOK, NEW v \in Workers, Execute(v)
  PROVE  Acts(v)
<1>0. pc[v] # "claiming"
  BY DEF Execute, Validate, MarkStarted, ReceiveReply, SavePostOk, SavePost, GiveUpLease,
         SettleError, LoseLease, Replay, SaveResult, StoreResult, Resume, ResumeAt
<1>1. ASSUME Validate(v) \/ ReceiveReply(v) \/ LoseLease(v) \/ Resume(v) \/ Replay(v)
      PROVE  Acts(v)
  <2>1. OnlyMoves(v) /\ pc'[v] # "calling"
    BY <1>1, GotoMoves, LeaveMoves
    DEF Validate, ReceiveReply, LoseLease, Resume, ResumeAt, Replay
  <2>2. RowKept
    BY <1>1 DEF Validate, ReceiveReply, LoseLease, Resume, ResumeAt, Replay, RowKept
  <2>. QED  BY <1>0, <2>1, <2>2 DEF Acts, RowKept, rowVars
<1>2. ASSUME MarkStarted(v)  PROVE Acts(v)
  BY <1>0, <1>2, GotoMoves DEF MarkStarted, Held, Acts
<1>3. ASSUME SavePostOk(v) \/ GiveUpLease(v) \/ SettleError(v) \/ SaveResult(v)
      PROVE  Acts(v)
  <2>1. OnlyMoves(v) /\ pc'[v] # "calling"
    BY <1>3, GotoMoves, LeaveMoves DEF SavePostOk, GiveUpLease, SettleError, SaveResult
  <2>2. OwnsToken(v) /\ UNCHANGED started
    BY <1>3 DEF SavePostOk, SavePost, GiveUpLease, SettleError, SaveResult, StoreResult, Settle, Held
  <2>. QED  BY <1>0, <2>1, <2>2 DEF Acts
<1>. QED  BY <1>1, <1>2, <1>3 DEF Execute

LEMMA CommandActs ==
  ASSUME TypeOK, NEW v \in Workers, Command(v)
  PROVE  Acts(v) /\ pc[v] # "claiming"
<1>1. pc[v] \in {"idle"} \cup Commands
  BY DEF Command, OpenPosted, OpenNotPosted, OpenResume, OpenCommand, ResolvePosted,
         ResolveNotPosted, ResumePersistence, CommandRefused, Commands
<1>2. OnlyMoves(v) /\ pc'[v] # "calling"
  <2>1. (\E k \in Keys : OpenPosted(v, k) \/ OpenNotPosted(v, k) \/ OpenResume(v, k))
          => OnlyMoves(v) /\ pc'[v] # "calling"
    BY DEF OpenPosted, OpenNotPosted, OpenResume, OpenCommand, OnlyMoves, TypeOK
  <2>. QED
    BY <2>1, LeaveMoves, GotoMoves
    DEF Command, ResolvePosted, ResolveNotPosted, ResumePersistence, CommandRefused
<1>3. UNCHANGED started
  BY DEF Command, OpenPosted, OpenNotPosted, OpenResume, OpenCommand, ResolvePosted,
         ResolveNotPosted, ResumePersistence, TakeOver, CommandRefused, rowVars
<1>. QED  BY <1>1, <1>2, <1>3 DEF Acts, Commands, Executing

LEMMA FaultActs ==
  ASSUME TypeOK, NEW v \in Workers,
         \/ Crash(v) \/ ReceiveNothing(v) \/ ResumeFails(v)
         \/ SaveResultUnacknowledged(v) \/ SaveResultRefused(v)
         \/ SavePostUnacknowledged(v) \/ SavePostError(v)
         \/ GiveUpLeaseError(v) \/ SettleErrorFails(v)
  PROVE  Acts(v)
<1>1. OnlyMoves(v) /\ pc'[v] # "calling"
  BY LeaveMoves, GotoMoves, RetryMoves
  DEF Crash, ReceiveNothing, ResumeFails, ResumeAt, SaveResultUnacknowledged, SaveResultRefused,
      SavePostUnacknowledged, SavePostError, GiveUpLeaseError, SettleErrorFails
<1>2. ASSUME \/ Crash(v) \/ ReceiveNothing(v) \/ ResumeFails(v) \/ SaveResultRefused(v)
             \/ SavePostError(v)
      PROVE  RowKept
  BY <1>2 DEF Crash, ReceiveNothing, ResumeFails, ResumeAt, SaveResultRefused, SavePostError, RowKept
<1>3. ASSUME SaveResultUnacknowledged(v) \/ SavePostUnacknowledged(v)
      PROVE  OwnsToken(v) /\ UNCHANGED started
  BY <1>3 DEF SaveResultUnacknowledged, StoreResult, SavePostUnacknowledged, SavePost, Settle, Held
<1>4. ASSUME GiveUpLeaseError(v)
      PROVE  (RowKept \/ OwnsToken(v)) /\ UNCHANGED started
  BY <1>4 DEF GiveUpLeaseError, Held, RowKept, rowVars
<1>5. ASSUME SettleErrorFails(v)
      PROVE  (RowKept \/ OwnsToken(v)) /\ UNCHANGED started
  BY <1>5 DEF SettleErrorFails, Held, Settle, RowKept, rowVars
<1>6. pc[v] = "claiming" => UNCHANGED <<rowVars, answers>>
  BY DEF Crash, ReceiveNothing, ResumeFails, ResumeAt, SaveResultUnacknowledged, StoreResult,
         SaveResultRefused, SavePostUnacknowledged, SavePost, SavePostError, GiveUpLeaseError,
         SettleErrorFails
<1>. QED  BY <1>1, <1>2, <1>3, <1>4, <1>5, <1>6 DEF Acts, RowKept, rowVars

\* Every step is one execution's, or moves none.
LEMMA StepActs ==
  ASSUME TypeOK, [Next]_vars
  PROVE  \/ UNCHANGED <<pc, started>>
         \/ \E v \in Workers : Acts(v)
<1>1. ASSUME NEW v \in Workers, NEW c \in Calls, StartClaim(v, c)  PROVE Acts(v)
  BY <1>1 DEF StartClaim, Acts, OnlyMoves, RowKept, TypeOK, rowVars
<1>2. CASE XService
  BY <1>2 DEF XService, XPublishes, XRejects, XDecidesLate, rowVars, workerVars
<1>3. ASSUME NEW k \in Keys, LeaseExpires(k) \/ LeaseExpiresEarly(k)
      PROVE  UNCHANGED <<pc, started>>
  BY <1>3 DEF LeaseExpires, LeaseExpiresEarly, Expire, workerVars
<1>4. ASSUME NEW s \in Archivable, ArchiveSession(s)  PROVE UNCHANGED <<pc, started>>
  BY <1>4 DEF ArchiveSession, rowVars, workerVars
<1>5. CASE UNCHANGED vars
  BY <1>5 DEF vars, rowVars, workerVars
<1>. QED  BY <1>1, <1>2, <1>3, <1>4, <1>5, ClaimActs, ExecuteActs, CommandActs, FaultActs
          DEF Next, Regular, Fault

-----------------------------------------------------------------------------
\* Fencing: an execution whose token has been replaced, or whose request is settled,
\* changes neither the row nor its Post, whatever step it takes and however it fails.
THEOREM Fencing == Spec => FencedOut
<1>1. IInv /\ [Next]_vars =>
        [\A w \in Workers :
           (/\ pc[w] \in Executing /\ pc'[w] # pc[w]
            /\ token[Key(w)] # w \/ status[Key(w)] # "processing")
           => UNCHANGED <<rowVars, posts>>]_vars
  <2>1. SUFFICES ASSUME IInv, [Next]_vars, NEW w \in Workers,
                        pc[w] \in Executing, pc'[w] # pc[w],
                        token[Key(w)] # w \/ status[Key(w)] # "processing"
        PROVE  RowKept
    BY DEF RowKept
  <2>2. PICK v \in Workers : Acts(v)
    BY <2>1, StepActs DEF IInv
  <2>3. v = w
    BY <2>1, <2>2 DEF Acts, OnlyMoves
  <2>. QED  BY <2>1, <2>2, <2>3 DEF Acts, OwnsToken
<1>. QED  BY <1>1, Invariance, PTL DEF Spec, FencedOut

\* The call to X of a request is started once: its start is never forgotten, and no
\* execution begins a call for a request that has been started.
THEOREM StartedOnce == Spec => NoRestart
<1>1. IInv /\ [Next]_vars =>
        [\A k \in Keys : started[k] => started'[k] /\ \A w \in Workers :
           pc'[w] = "calling" /\ pc[w] # "calling" => Key(w) # k]_vars
  <2>1. SUFFICES ASSUME IInv, [Next]_vars, NEW k \in Keys, started[k]
        PROVE  started'[k] /\ \A w \in Workers :
                 pc'[w] = "calling" /\ pc[w] # "calling" => Key(w) # k
    OBVIOUS
  <2>2. CASE UNCHANGED <<pc, started>>
    BY <2>1, <2>2
  <2>3. ASSUME NEW v \in Workers, Acts(v)
        PROVE  started'[k] /\ \A w \in Workers :
                 pc'[w] = "calling" /\ pc[w] # "calling" => Key(w) # k
    <3>1. CASE MarkStarted(v)
      <4>1. ~started[Key(v)]
        BY <2>1, <3>1 DEF IInv, EffectInv, StarterInv, BeforeStart, MarkStarted, Held
      <4>2. started' = [started EXCEPT ![Key(v)] = TRUE]
        BY <3>1 DEF MarkStarted
      <4>. QED  BY <2>1, <2>3, <4>1, <4>2 DEF IInv, TypeOK, Acts, OnlyMoves
    <3>2. CASE UNCHANGED started /\ pc'[v] # "calling"
      BY <2>1, <2>3, <3>2 DEF Acts, OnlyMoves
    <3>. QED  BY <2>3, <3>1, <3>2 DEF Acts
  <2>. QED  BY <2>1, <2>2, <2>3, StepActs DEF IInv
<1>. QED  BY <1>1, Invariance, PTL DEF Spec, NoRestart

\* A key belongs to its first request for good: a claim with another body or another
\* session writes nothing and is told nothing.
THEOREM FirstRequestKeepsKey == Spec => KeyBelongsToFirst
<1>1. IInv /\ [Next]_vars =>
        [\A w \in Workers :
           /\ pc[w] = "claiming" /\ pc'[w] # "claiming"
           /\ status[Key(w)] # "none" /\ request[Key(w)] # call[w]
           => UNCHANGED <<rowVars, answers>>]_vars
  <2>1. SUFFICES ASSUME IInv, [Next]_vars, NEW w \in Workers,
                        pc[w] = "claiming", pc'[w] # "claiming",
                        status[Key(w)] # "none", request[Key(w)] # call[w]
        PROVE  UNCHANGED <<rowVars, answers>>
    OBVIOUS
  <2>2. PICK v \in Workers : Acts(v)
    BY <2>1, StepActs DEF IInv
  <2>3. v = w
    BY <2>1, <2>2 DEF Acts, OnlyMoves
  <2>4. Claim(w) => RefuseClaim(w)
    BY <2>1 DEF Claim, Reserve, ReserveDuplicate, ReplayStored, RecoverUnknown, Reacquire,
                ExpiredClaim, SameRequest, Unclaimed
  <2>5. RefuseClaim(w) => UNCHANGED <<rowVars, answers>>
    BY DEF RefuseClaim
  <2>. QED  BY <2>1, <2>2, <2>3, <2>4, <2>5 DEF Acts
<1>. QED  BY <1>1, Invariance, PTL DEF Spec, KeyBelongsToFirst

-----------------------------------------------------------------------------
(***************************************************************************)
(* The turn of a request.                                                  *)
(***************************************************************************)
\* How a step may change a row: a request arrives, is settled with its turn, or is resolved.
RowChange ==
  \/ UNCHANGED <<status, turn>>
  \/ \E k \in Keys :
       \/ /\ status[k] = "none"
          /\ \/ status' = [status EXCEPT ![k] = "processing"] /\ turn' = [turn EXCEPT ![k] = "running"]
             \/ status' = [status EXCEPT ![k] = "failed"] /\ turn' = [turn EXCEPT ![k] = "completed"]
       \/ /\ status[k] = "processing"
          /\ \E s \in {"outcome_unknown"} \cup Final : Settle(k, s)
       \/ /\ status[k] = "outcome_unknown"
          /\ \E s \in Final : status' = [status EXCEPT ![k] = s]
          /\ UNCHANGED turn

LEMMA ClaimChanges ==
  ASSUME IInv, NEW w \in Workers, Claim(w)
  PROVE  RowChange
<1>1. pc[w] # "idle"
  BY ClaimActs DEF IInv
<1>2. Key(w) \in Keys
  BY <1>1, KeyType DEF IInv, EffectInv
<1>3. Reserve(w) \/ ReserveDuplicate(w) => RowChange
  BY <1>2 DEF Reserve, ReserveDuplicate, InsertRow, Unclaimed, RowChange
<1>4. RefuseClaim(w) \/ ReplayStored(w) \/ Reacquire(w) => RowChange
  BY DEF RefuseClaim, ReplayStored, Reacquire, TakeOver, rowVars, RowChange
<1>5. RecoverUnknown(w) => RowChange
  BY <1>2 DEF RecoverUnknown, ExpiredClaim, RowChange
<1>. QED  BY <1>3, <1>4, <1>5 DEF Claim

\* Settling by an execution that holds the row.
LEMMA SettleChanges ==
  ASSUME IInv, NEW w \in Workers, Held(w), pc[w] # "idle",
         NEW s \in {"outcome_unknown"} \cup Final, Settle(Key(w), s)
  PROVE  RowChange
<1>1. Key(w) \in Keys
  BY KeyType DEF IInv, EffectInv
<1>. QED  BY <1>1 DEF Held, OwnsToken, RowChange

LEMMA ExecuteChanges ==
  ASSUME IInv, NEW w \in Workers, Execute(w)
  PROVE  RowChange
<1>1. ASSUME \/ Validate(w) \/ MarkStarted(w) \/ ReceiveReply(w) \/ SaveResult(w) \/ Resume(w)
             \/ GiveUpLease(w) \/ LoseLease(w) \/ Replay(w)
      PROVE  RowChange
  BY <1>1 DEF Validate, MarkStarted, ReceiveReply, SaveResult, StoreResult, Resume, ResumeAt,
              GiveUpLease, LoseLease, Replay, rowVars, RowChange
<1>2. SavePostOk(w) => RowChange
  BY SettleChanges DEF SavePostOk, SavePost, Final
<1>3. SettleError(w) => RowChange
  BY SettleChanges DEF SettleError, Outcome, Final
<1>. QED  BY <1>1, <1>2, <1>3 DEF Execute

LEMMA CommandChanges ==
  ASSUME IInv, NEW w \in Workers, Command(w)
  PROVE  RowChange
<1>1. (\E k \in Keys : OpenPosted(w, k) \/ OpenNotPosted(w, k) \/ OpenResume(w, k)) => RowChange
  BY DEF OpenPosted, OpenNotPosted, OpenResume, OpenCommand, rowVars, RowChange
<1>2. ResolvePosted(w) \/ ResolveNotPosted(w) => RowChange
  BY KeyType DEF IInv, EffectInv, ResolvePosted, ResolveNotPosted, StillUnknown, Final, RowChange
<1>3. ResumePersistence(w) \/ CommandRefused(w) => RowChange
  BY DEF ResumePersistence, TakeOver, CommandRefused, rowVars, RowChange
<1>. QED  BY <1>1, <1>2, <1>3 DEF Command

LEMMA FaultChanges ==
  ASSUME IInv, Fault
  PROVE  RowChange
<1>1. ASSUME NEW w \in Workers,
             \/ Crash(w) \/ ReceiveNothing(w) \/ ResumeFails(w) \/ SaveResultUnacknowledged(w)
             \/ SaveResultRefused(w) \/ SavePostError(w) \/ GiveUpLeaseError(w)
      PROVE  RowChange
  BY <1>1 DEF Crash, ReceiveNothing, ResumeFails, ResumeAt, SaveResultUnacknowledged, StoreResult,
              SaveResultRefused, SavePostError, GiveUpLeaseError, rowVars, RowChange
<1>2. ASSUME NEW w \in Workers, SavePostUnacknowledged(w)  PROVE RowChange
  BY <1>2, SettleChanges DEF SavePostUnacknowledged, SavePost, Final
<1>3. ASSUME NEW w \in Workers, SettleErrorFails(w)  PROVE RowChange
  <2>1. CASE UNCHANGED rowVars
    BY <2>1 DEF rowVars, RowChange
  <2>2. CASE Held(w) /\ Settle(Key(w), Outcome(w))
    BY <1>3, <2>2, SettleChanges DEF SettleErrorFails, Outcome, Final
  <2>. QED  BY <1>3, <2>1, <2>2 DEF SettleErrorFails
<1>4. ASSUME NEW k \in Keys, LeaseExpiresEarly(k)  PROVE RowChange
  BY <1>4 DEF LeaseExpiresEarly, Expire, RowChange
<1>. QED  BY <1>1, <1>2, <1>3, <1>4 DEF Fault

LEMMA StepChanges ==
  ASSUME IInv, [Next]_vars
  PROVE  RowChange
<1>1. ASSUME NEW w \in Workers, NEW c \in Calls, StartClaim(w, c)  PROVE RowChange
  BY <1>1 DEF StartClaim, rowVars, RowChange
<1>2. CASE XService
  BY <1>2 DEF XService, XPublishes, XRejects, XDecidesLate, rowVars, RowChange
<1>3. ASSUME NEW k \in Keys, LeaseExpires(k)  PROVE RowChange
  BY <1>3 DEF LeaseExpires, Expire, RowChange
<1>4. ASSUME NEW s \in Archivable, ArchiveSession(s)  PROVE RowChange
  BY <1>4 DEF ArchiveSession, rowVars, RowChange
<1>5. CASE UNCHANGED vars
  BY <1>5 DEF vars, rowVars, RowChange
<1>. QED  BY <1>1, <1>2, <1>3, <1>4, <1>5, ClaimChanges, ExecuteChanges, CommandChanges, FaultChanges
          DEF Next, Regular

\* The API turn of a request runs exactly as long as the request is processing, whoever
\* settles it: the execution, a later claim, an operator.
THEOREM TurnTruthful == Spec => []TurnFollowsRequest
<1>1. Init => TurnFollowsRequest
  BY DEF Init, TurnFollowsRequest
<1>2. IInv /\ TurnFollowsRequest /\ [Next]_vars => TurnFollowsRequest'
  <2>1. SUFFICES ASSUME IInv, TurnFollowsRequest, [Next]_vars
        PROVE  TurnFollowsRequest'
    OBVIOUS
  <2>2. RowChange /\ status \in [Keys -> Statuses]
        /\ turn \in [Keys -> {"none", "running", "completed"}]
    BY <2>1, StepChanges DEF IInv, TypeOK
  <2>. QED  BY <2>1, <2>2 DEF RowChange, Settle, TurnFollowsRequest, Final
<1>. QED  BY <1>1, <1>2, Invariance, PTL DEF Spec

-----------------------------------------------------------------------------
(***************************************************************************)
(* What callers are told.                                                  *)
(***************************************************************************)
\* An answer is the status the step leaves behind, or "not saved" for a published request.
Told(k, a) ==
  /\ Answer(k, a)
  /\ \/ a \in {"outcome_unknown"} \cup Final /\ status'[k] = a
     \/ a = "save_failed" /\ tweets[k] = 1

LEMMA ClaimTells ==
  ASSUME IInv, NEW w \in Workers, Claim(w)
  PROVE  UNCHANGED answers \/ Told(Key(w), status'[Key(w)])
<1>1. Key(w) \in Keys /\ status \in [Keys -> Statuses]
  BY ClaimActs, KeyType DEF IInv, EffectInv, TypeOK
<1>2. Reserve(w) \/ RefuseClaim(w) \/ Reacquire(w) => UNCHANGED answers
  BY DEF Reserve, RefuseClaim, Reacquire
<1>3. ReserveDuplicate(w) => Told(Key(w), status'[Key(w)])
  BY <1>1 DEF ReserveDuplicate, InsertRow, Told, Final
<1>4. ReplayStored(w) => Told(Key(w), status'[Key(w)])
  BY <1>1 DEF ReplayStored, SameRequest, rowVars, Told, Statuses, Unresolved
<1>5. RecoverUnknown(w) => Told(Key(w), status'[Key(w)])
  BY <1>1 DEF RecoverUnknown, Settle, Told
<1>. QED  BY <1>2, <1>3, <1>4, <1>5 DEF Claim

LEMMA ExecuteTells ==
  ASSUME IInv, NEW w \in Workers, Execute(w)
  PROVE  UNCHANGED answers \/ \E a : Told(Key(w), a)
<1>1. Validate(w) \/ MarkStarted(w) \/ ReceiveReply(w) \/ SaveResult(w) \/ Resume(w) \/ LoseLease(w)
        => UNCHANGED answers
  BY DEF Validate, MarkStarted, ReceiveReply, SaveResult, StoreResult, Resume, ResumeAt, LoseLease
<1>2. ASSUME pc[w] # "idle"
      PROVE  Key(w) \in Keys /\ status \in [Keys -> Statuses]
  BY <1>2, KeyType DEF IInv, EffectInv, TypeOK
<1>3. SavePostOk(w) => Told(Key(w), "succeeded")
  BY <1>2 DEF SavePostOk, SavePost, Settle, Told, Final
<1>4. SettleError(w) => Told(Key(w), Outcome(w))
  BY <1>2 DEF SettleError, Settle, Outcome, Told, Final
<1>5. GiveUpLease(w) => Told(Key(w), "save_failed")
  <2>1. pc[w] = "saveFailed" => tweets[Key(w)] = 1
    BY <1>2 DEF IInv, EffectInv, StarterInv, RowInv
  <2>. QED  BY <2>1 DEF GiveUpLease, Told
<1>6. Replay(w) => UNCHANGED answers \/ Told(Key(w), status[Key(w)])
  <2>1. pc[w] = "replay" => status[Key(w)] # "none"
    BY DEF IInv, EffectInv, CallInv
  <2>. QED  BY <1>2, <2>1 DEF Replay, rowVars, Told, Statuses, Unresolved
<1>7. ASSUME NEW a, Told(Key(w), a)
      PROVE  \E b : Told(Key(w), b)
  BY <1>7
<1>8. SavePostOk(w) \/ SettleError(w) \/ GiveUpLease(w) => \E a : Told(Key(w), a)
  BY <1>3, <1>4, <1>5, <1>7
<1>9. Replay(w) => UNCHANGED answers \/ \E a : Told(Key(w), a)
  BY <1>6, <1>7
<1>. QED  BY <1>1, <1>8, <1>9 DEF Execute

LEMMA StepTells ==
  ASSUME IInv, [Next]_vars
  PROVE  UNCHANGED answers \/ \E w \in Workers, a \in Answers : Told(Key(w), a)
<1>1. ASSUME NEW w \in Workers, Claim(w) \/ Execute(w)
      PROVE  UNCHANGED answers \/ \E a : Told(Key(w), a)
  BY <1>1, ClaimTells, ExecuteTells
<1>2. ASSUME NEW w \in Workers, NEW a, Told(Key(w), a)
      PROVE  a \in Answers
  BY <1>2 DEF Told, Answers, Final
<1>3. ASSUME NEW w \in Workers, Command(w)  PROVE UNCHANGED answers
  BY <1>3 DEF Command, OpenPosted, OpenNotPosted, OpenResume, OpenCommand, ResolvePosted,
              ResolveNotPosted, ResumePersistence, CommandRefused
<1>4. CASE Fault
  BY <1>4 DEF Fault, Crash, ReceiveNothing, ResumeFails, ResumeAt, SaveResultUnacknowledged,
              StoreResult, SaveResultRefused, SavePostUnacknowledged, SavePostError,
              GiveUpLeaseError, SettleErrorFails, LeaseExpiresEarly, Expire
<1>5. CASE XService
  BY <1>5 DEF XService, XPublishes, XRejects, XDecidesLate
<1>6. ASSUME NEW w \in Workers, NEW c \in Calls, StartClaim(w, c)  PROVE UNCHANGED answers
  BY <1>6 DEF StartClaim
<1>7. ASSUME NEW k \in Keys, LeaseExpires(k)  PROVE UNCHANGED answers
  BY <1>7 DEF LeaseExpires, Expire
<1>8. ASSUME NEW s \in Archivable, ArchiveSession(s)  PROVE UNCHANGED answers
  BY <1>8 DEF ArchiveSession
<1>9. CASE UNCHANGED vars
  BY <1>9 DEF vars
<1>. QED  BY <1>1, <1>2, <1>3, <1>4, <1>5, <1>6, <1>7, <1>8, <1>9 DEF Next, Regular

\* What callers were told stays true: no later execution, claim or operator can turn a
\* success into a failure, or take back what was said to be on X.
THEOREM AnswersStayTrue == Spec => []AnswersHold
<1>1. Init => AnswersHold
  BY DEF Init, AnswersHold
<1>2. IInv /\ AnswersHold /\ [Next]_vars => AnswersHold'
  <2>1. SUFFICES ASSUME IInv, AnswersHold, [Next]_vars
        PROVE  AnswersHold'
    OBVIOUS
  <2>2. CASE UNCHANGED answers
    BY <2>1, <2>2, SettledStep DEF AnswersHold, Final
  <2>3. ASSUME NEW w \in Workers, NEW a \in Answers, Told(Key(w), a)
        PROVE  AnswersHold'
    <3>1. \A k \in Keys : answers'[k] = IF k = Key(w) THEN answers[k] \cup {a} ELSE answers[k]
      BY <2>1, <2>3 DEF Told, Answer, IInv, TypeOK
    <3>2. \A k \in Keys :
            /\ "succeeded" \in answers[k] => status'[k] = "succeeded"
            /\ "failed" \in answers[k] => status'[k] = "failed"
            /\ "save_failed" \in answers[k] => tweets'[k] = 1
            /\ "outcome_unknown" \in answers[k] => status'[k] \in {"outcome_unknown"} \cup Final
      BY <2>1, SettledStep DEF AnswersHold, Final
    <3>3. ASSUME Key(w) \in Keys
          PROVE  \/ a \in {"outcome_unknown"} \cup Final /\ status'[Key(w)] = a
                 \/ a = "save_failed" /\ tweets'[Key(w)] = 1
      BY <2>1, <2>3, <3>3, SettledStep DEF Told
    <3>4. ASSUME NEW k \in Keys
          PROVE  /\ "succeeded" \in answers'[k] => status'[k] = "succeeded"
                 /\ "failed" \in answers'[k] => status'[k] = "failed"
                 /\ "save_failed" \in answers'[k] => tweets'[k] = 1
                 /\ "outcome_unknown" \in answers'[k]
                      => status'[k] \in {"outcome_unknown"} \cup Final
      <4>1. CASE k # Key(w)
        BY <3>1, <3>2, <4>1
      <4>2. CASE k = Key(w)
        <5>1. answers'[k] = answers[k] \cup {a}
          BY <3>1, <4>2
        <5>. QED  BY <3>2, <3>3, <4>2, <5>1 DEF Final
      <4>. QED  BY <4>1, <4>2
    <3>. QED  BY <3>4 DEF AnswersHold
  <2>4. UNCHANGED answers \/ \E w \in Workers, a \in Answers : Told(Key(w), a)
    BY <2>1, StepTells
  <2>. QED  BY <2>2, <2>3, <2>4
<1>. QED  BY <1>1, <1>2, Invariance, PTL DEF Spec
=============================================================================
