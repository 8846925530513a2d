-------------------------- MODULE PostMetricsProofs --------------------------
(***************************************************************************)
(* Proofs about PostMetrics for any posts, executions, numbers and         *)
(* attempts: rows say the truth, providers are not asked too often, what   *)
(* is done stays done, and who lost the row does not write it.             *)
(***************************************************************************)
EXTENDS PostMetrics, TLAPS

RowTypes ==
  /\ status \in [Posts -> {"pending", "completed", "failed"}]
  /\ value \in [Posts -> Reports]
  /\ token \in [Posts -> Workers \cup {NoWorker}]
  /\ lease \in [Posts -> {"none", "live", "over"}]
  /\ due \in [Posts -> BOOLEAN]
  /\ attempts \in [Posts -> Nat]
  /\ waiting \in [Posts -> BOOLEAN]
  /\ memory \in [Posts -> {"none", "generated", "failed"}]
  /\ memAttempts \in [Posts -> Nat]
  /\ memWaiting \in [Posts -> BOOLEAN]
  /\ memories \in [Posts -> SUBSET Reports]
  /\ written \in [Posts -> Nat]
  /\ asked \in [Posts -> [Providers -> Nat]]

WorkTypes ==
  /\ pc \in [Workers -> {"idle"} \cup MetricSteps \cup MemorySteps]
  /\ post \in [Workers -> Posts]
  /\ calls \in [Workers -> [Providers -> CallStates]]
  /\ seen \in [Workers -> Reports]
  /\ sawLive \in [Workers -> BOOLEAN]

\* The marks of a row are true; no memory is there that is not marked; every
\* call to a provider belongs to an attempt.
RowInv(p) ==
  /\ Measured(value[p]) <=> status[p] = "completed"
  /\ written[p] = IF memory[p] = "generated" THEN 1 ELSE 0
  /\ memories[p] \subseteq {value[p]}
  /\ memories[p] # {} => memory[p] = "generated"
  /\ memory[p] # "none" => status[p] = "completed"
  /\ attempts[p] <= MaxAttempts
  /\ \A pr \in Providers : asked[p][pr] <= attempts[p]

\* Who writes a memory has the numbers of a completed row; who has just claimed
\* a row has not used its attempt.
WorkInv(w) ==
  /\ pc[w] \in MemorySteps => status[post[w]] = "completed" /\ seen[w] = value[post[w]]
  /\ pc[w] = "ready" /\ token[post[w]] = w =>
       \A pr \in Providers : asked[post[w]][pr] < attempts[post[w]]

IInv ==
  /\ RowTypes /\ WorkTypes
  /\ \A p \in Posts : RowInv(p)
  /\ \A w \in Workers : WorkInv(w)

LEMMA Typed == TypeOK <=> RowTypes /\ WorkTypes
BY DEF TypeOK, RowTypes, WorkTypes

LEMMA Initially == Init => IInv
<1>. SUFFICES ASSUME Init PROVE IInv
  OBVIOUS
<1>1. NoReport \in Reports /\ NoCalls \in [Providers -> CallStates] /\ ~Measured(NoReport)
  BY DEF NoReport, NoCalls, Reports, CallStates, Measured, Providers
<1>2. RowTypes
  BY <1>1 DEF Init, RowTypes
<1>3. WorkTypes
  BY <1>1 DEF Init, WorkTypes
<1>4. \A p \in Posts : RowInv(p)
  BY <1>1, MaxAssumption DEF Init, RowInv
<1>5. \A w \in Workers : WorkInv(w)
  BY DEF Init, WorkInv, MemorySteps
<1> QED
  BY <1>2, <1>3, <1>4, <1>5 DEF IInv

-----------------------------------------------------------------------------
\* One execution at most moves.
Others(w) ==
  \A v \in Workers \ {w} :
    /\ pc'[v] = pc[v] /\ post'[v] = post[v]
    /\ calls'[v] = calls[v] /\ seen'[v] = seen[v]

LEMMA LeaveMoves ==
  ASSUME WorkTypes, NEW w \in Workers, Leave(w)
  PROVE  WorkTypes' /\ Others(w) /\ pc'[w] = "idle" /\ post' = post
<1>1. NoReport \in Reports /\ NoCalls \in [Providers -> CallStates]
  BY DEF NoReport, NoCalls, Reports, CallStates
<1> QED
  BY <1>1 DEF WorkTypes, Leave, Others

LEMMA GotoMoves ==
  ASSUME WorkTypes, NEW w \in Workers, NEW s \in MetricSteps \cup MemorySteps, Goto(w, s)
  PROVE  /\ pc' \in [Workers -> {"idle"} \cup MetricSteps \cup MemorySteps]
         /\ post' = post /\ seen' = seen /\ sawLive' \in [Workers -> BOOLEAN]
         /\ pc'[w] = s
         /\ \A v \in Workers \ {w} : pc'[v] = pc[v]
<1>1. pc' = [pc EXCEPT ![w] = s] /\ UNCHANGED <<post, seen>>
  BY DEF Goto
<1>2. sawLive' \in [Workers -> BOOLEAN]
  BY Zenon DEF WorkTypes, Goto
<1> QED
  BY <1>1, <1>2 DEF WorkTypes

\* What the others know survives a step of w, which takes no row from them but
\* by replacing their token, and revises no completed row.
LEMMA OthersKeep ==
  ASSUME IInv, NEW w \in Workers \cup {NoWorker}, Others(w),
         \A q \in Posts : status[q] = "completed" => status'[q] = "completed" /\ value'[q] = value[q],
         \A q \in Posts : token'[q] \in {token[q], NoWorker, w},
         \A q \in Posts : token'[q] = w \/ (attempts'[q] = attempts[q] /\ asked'[q] = asked[q]),
         w \in Workers => WorkInv(w)'
  PROVE  \A v \in Workers : WorkInv(v)'
<1>. SUFFICES ASSUME NEW v \in Workers, v # w PROVE WorkInv(v)'
  OBVIOUS
<1>1. /\ pc'[v] = pc[v] /\ post'[v] = post[v] /\ seen'[v] = seen[v] /\ post[v] \in Posts
  BY DEF Others, IInv, WorkTypes
<1>2. WorkInv(v)
  BY DEF IInv
<1>3. token'[post[v]] = v => /\ token[post[v]] = v
                             /\ attempts'[post[v]] = attempts[post[v]]
                             /\ asked'[post[v]] = asked[post[v]]
  BY <1>1, NoWorkerAssumption
<1> QED
  BY <1>1, <1>2, <1>3 DEF WorkInv

\* A step of w that writes no row.
LEMMA MovesKeep ==
  ASSUME IInv, NEW w \in Workers, UNCHANGED <<metricVars, leaseVars, due, memoryVars, asked>>,
         WorkTypes', Others(w), pc'[w] # "ready",
         pc'[w] \in MemorySteps => /\ pc[w] \in MemorySteps
                                   /\ post'[w] = post[w] /\ seen'[w] = seen[w]
  PROVE  IInv'
<1>1. RowTypes' /\ \A p \in Posts : RowInv(p)'
  BY DEF IInv, RowTypes, RowInv, metricVars, leaseVars, memoryVars
<1>2. WorkInv(w)'
  BY DEF IInv, WorkInv, metricVars
<1>3. \A v \in Workers : WorkInv(v)'
  BY <1>2, OthersKeep DEF IInv, metricVars, leaseVars, memoryVars
<1> QED
  BY <1>1, <1>3 DEF IInv

-----------------------------------------------------------------------------
(***************************************************************************)
(* The steps.                                                              *)
(***************************************************************************)
LEMMA QuietKeep ==
  ASSUME IInv, NEW w \in Workers,
         \/ MetricLost(w) \/ MemoryLost(w) \/ Crash(w) \/ EndCollecting(w)
         \/ Embed(w) \/ SaveMemoryFails(w)
         \/ \E pr \in Providers : ValueLost(w, pr) \/ CallFails(w, pr)
  PROVE  IInv'
<1>1. ASSUME Leave(w), UNCHANGED <<metricVars, leaseVars, due, memoryVars, asked>>
      PROVE  IInv'
  <2>1. WorkTypes' /\ Others(w) /\ pc'[w] = "idle"
    BY <1>1, LeaveMoves DEF IInv
  <2> QED
    BY <1>1, <2>1, MovesKeep DEF MemorySteps
<1>2. ASSUME NEW s \in {"fail", "save", "memoryFail"}, Goto(w, s), UNCHANGED calls,
             s # "fail" => pc[w] \in MemorySteps,
             UNCHANGED <<metricVars, leaseVars, due, memoryVars, asked>>
      PROVE  IInv'
  <2>1. s \in MetricSteps \cup MemorySteps
    BY DEF MetricSteps, MemorySteps
  <2>2. /\ pc' \in [Workers -> {"idle"} \cup MetricSteps \cup MemorySteps]
        /\ post' = post /\ seen' = seen /\ sawLive' \in [Workers -> BOOLEAN]
        /\ pc'[w] = s /\ \A v \in Workers \ {w} : pc'[v] = pc[v]
    BY <1>2, <2>1, GotoMoves DEF IInv
  <2>3. WorkTypes' /\ Others(w)
    BY <1>2, <2>2 DEF IInv, WorkTypes, Others
  <2> QED
    BY <1>2, <2>2, <2>3, MovesKeep DEF MemorySteps
<1>3. ASSUME NEW pr \in Providers, ValueLost(w, pr) \/ CallFails(w, pr)
      PROVE  IInv'
  <2>1. PICK s \in {"lost", "retryable", "permanent"} :
          /\ calls' = [calls EXCEPT ![w][pr] = s]
          /\ pc[w] = "collect"
          /\ UNCHANGED <<pc, post, seen, sawLive, metricVars, leaseVars, due, memoryVars, asked>>
    BY <1>3 DEF ValueLost, CallFails, CallEnds, Calling, metricVars
  <2>2. WorkTypes' /\ Others(w)
    BY <2>1 DEF IInv, WorkTypes, Others, CallStates
  <2> QED
    BY <2>1, <2>2, MovesKeep DEF MemorySteps
<1>4. CASE MetricLost(w) \/ MemoryLost(w) \/ Crash(w)
  BY <1>1, <1>4 DEF MetricLost, MemoryLost, Crash
<1>5. CASE EndCollecting(w)
  BY <1>1, <1>2, <1>5 DEF EndCollecting
<1>6. CASE Embed(w) \/ SaveMemoryFails(w)
  BY <1>2, <1>6 DEF Embed, SaveMemoryFails, MemorySteps
<1> QED
  BY <1>3, <1>4, <1>5, <1>6

\* The types of what a claim changes.
LEMMA ClaimTypes ==
  ASSUME IInv, NEW w \in Workers, NEW p \in Posts, NEW s \in {"ready", "embed"}, TakeLease(w, p),
         pc' = [pc EXCEPT ![w] = s], post' = [post EXCEPT ![w] = p],
         seen' = [seen EXCEPT ![w] = value[p]], UNCHANGED calls
  PROVE  /\ WorkTypes' /\ Others(w)
         /\ pc'[w] = s /\ post'[w] = p /\ seen'[w] = value[p]
         /\ token' \in [Posts -> Workers \cup {NoWorker}] /\ token'[p] = w
         /\ lease' \in [Posts -> {"none", "live", "over"}]
         /\ \A q \in Posts \ {p} : token'[q] = token[q]
<1>1. /\ token' = [token EXCEPT ![p] = w]
      /\ lease' \in [Posts -> {"none", "live", "over"}]
  BY DEF TakeLease, IInv, RowTypes
<1>2. sawLive' \in [Workers -> BOOLEAN]
  <2>1. PICK l \in {"live", "over"} : sawLive' = [sawLive EXCEPT ![w] = l = "live"]
    BY DEF TakeLease
  <2> QED
    BY <2>1, Zenon DEF IInv, WorkTypes
<1>3. s \in {"idle"} \cup MetricSteps \cup MemorySteps
  BY DEF MetricSteps, MemorySteps
<1>4. value[p] \in Reports
  BY DEF IInv, RowTypes
<1>5. WorkTypes' /\ Others(w) /\ pc'[w] = s /\ post'[w] = p /\ seen'[w] = value[p]
  BY <1>2, <1>3, <1>4 DEF IInv, WorkTypes, Others
<1> QED
  BY <1>1, <1>5 DEF IInv, RowTypes

LEMMA ClaimKeeps == ASSUME IInv, NEW w \in Workers, NEW p \in Posts, Claim(w, p) PROVE IInv'
<1>1. /\ attempts[p] < MaxAttempts /\ attempts' = [attempts EXCEPT ![p] = @ + 1]
      /\ UNCHANGED <<status, value, waiting, due, memoryVars, calls, asked>>
  BY DEF Claim, Claimable
<1>2. /\ WorkTypes' /\ Others(w)
      /\ pc'[w] = "ready" /\ post'[w] = p
      /\ token' \in [Posts -> Workers \cup {NoWorker}] /\ token'[p] = w
      /\ lease' \in [Posts -> {"none", "live", "over"}]
      /\ \A q \in Posts \ {p} : token'[q] = token[q]
  BY ClaimTypes DEF Claim
<1>3. RowTypes'
  <2>1. attempts' \in [Posts -> Nat]
    BY <1>1 DEF IInv, RowTypes
  <2>2. UNCHANGED <<status, value, waiting, due, memory, memAttempts, memWaiting, memories, written, asked>>
    BY <1>1 DEF memoryVars
  <2> QED
    BY <1>2, <2>1, <2>2 DEF IInv, RowTypes
<1>4. /\ attempts'[p] = attempts[p] + 1 /\ attempts[p] \in Nat
      /\ \A q \in Posts \ {p} : attempts'[q] = attempts[q]
      /\ \A pr \in Providers : asked[p][pr] \in Nat
  BY <1>1 DEF IInv, RowTypes
<1>5. \A q \in Posts : RowInv(q)'
  <2>1. ASSUME NEW q \in Posts \ {p} PROVE RowInv(q)'
    BY <1>1, <1>4 DEF IInv, RowInv, memoryVars
  <2>2. RowInv(p)'
    BY <1>1, <1>4, MaxAssumption DEF IInv, RowInv, memoryVars
  <2> QED
    BY <2>1, <2>2
<1>6. WorkInv(w)'
  BY <1>1, <1>2, <1>4 DEF IInv, RowInv, WorkInv, MemorySteps
<1>7. \A v \in Workers : WorkInv(v)'
  <2>1. \A q \in Posts : token'[q] \in {token[q], NoWorker, w}
    BY <1>2
  <2>2. \A q \in Posts : token'[q] = w \/ (attempts'[q] = attempts[q] /\ asked'[q] = asked[q])
    BY <1>1, <1>2, <1>4
  <2>3. \A q \in Posts : status[q] = "completed" => status'[q] = "completed" /\ value'[q] = value[q]
    BY <1>1
  <2> QED
    BY <1>2, <1>6, <2>1, <2>2, <2>3, OthersKeep
<1> QED
  BY <1>2, <1>3, <1>5, <1>7 DEF IInv

LEMMA ClaimMemoryKeeps ==
  ASSUME IInv, NEW w \in Workers, NEW p \in Posts, ClaimMemory(w, p) PROVE IInv'
<1>1. /\ status[p] = "completed" /\ memAttempts' = [memAttempts EXCEPT ![p] = @ + 1]
      /\ UNCHANGED <<metricVars, due, memory, memWaiting, memories, written, calls, asked>>
  BY DEF ClaimMemory, MemoryClaimable
<1>2. /\ WorkTypes' /\ Others(w)
      /\ pc'[w] = "embed" /\ post'[w] = p /\ seen'[w] = value[p]
      /\ token' \in [Posts -> Workers \cup {NoWorker}] /\ token'[p] = w
      /\ lease' \in [Posts -> {"none", "live", "over"}]
      /\ \A q \in Posts \ {p} : token'[q] = token[q]
  BY ClaimTypes DEF ClaimMemory
<1>3. RowTypes'
  <2>1. memAttempts' \in [Posts -> Nat]
    BY <1>1 DEF IInv, RowTypes
  <2>2. UNCHANGED <<status, value, attempts, waiting, due, memory, memWaiting, memories, written, asked>>
    BY <1>1 DEF metricVars
  <2> QED
    BY <1>2, <2>1, <2>2 DEF IInv, RowTypes
<1>4. \A q \in Posts : RowInv(q)'
  BY <1>1 DEF IInv, RowInv, metricVars
<1>5. WorkInv(w)'
  BY <1>1, <1>2 DEF WorkInv, metricVars
<1>6. \A v \in Workers : WorkInv(v)'
  <2>1. \A q \in Posts : token'[q] \in {token[q], NoWorker, w}
    BY <1>2
  <2>2. \A q \in Posts : attempts'[q] = attempts[q] /\ asked'[q] = asked[q]
    BY <1>1 DEF metricVars
  <2>3. \A q \in Posts : status[q] = "completed" => status'[q] = "completed" /\ value'[q] = value[q]
    BY <1>1 DEF metricVars
  <2> QED
    BY <1>2, <1>5, <2>1, <2>2, <2>3, OthersKeep
<1> QED
  BY <1>2, <1>3, <1>4, <1>6 DEF IInv

\* A step of w, which owns a pending row p, on the row alone: it may store a
\* number, completes the row exactly when both are there, and may give it up.
LEMMA OwnerKeeps ==
  ASSUME IInv, NEW w \in Workers, NEW p \in Posts, p = post[w], status[p] = "pending",
         WorkTypes', Others(w), pc'[w] \notin {"ready"} \cup MemorySteps,
         token' \in [Posts -> Workers \cup {NoWorker}],
         \A q \in Posts : token'[q] \in {token[q], NoWorker},
         lease' \in [Posts -> {"none", "live", "over"}],
         waiting' \in [Posts -> BOOLEAN],
         value' \in [Posts -> Reports], status' \in [Posts -> {"pending", "completed", "failed"}],
         \A q \in Posts \ {p} : value'[q] = value[q] /\ status'[q] = status[q],
         Measured(value'[p]) <=> status'[p] = "completed",
         UNCHANGED <<attempts, due, memoryVars, asked>>
  PROVE  IInv'
<1>1. RowTypes'
  BY DEF IInv, RowTypes, memoryVars
<1>2. RowInv(p)'
  BY DEF IInv, RowInv, memoryVars
<1>3. \A q \in Posts : RowInv(q)'
  BY <1>2 DEF IInv, RowInv, memoryVars
<1>4. WorkInv(w)'
  BY DEF WorkInv
<1>5. \A q \in Posts : /\ token'[q] \in {token[q], NoWorker, w}
                       /\ attempts'[q] = attempts[q] /\ asked'[q] = asked[q]
  OBVIOUS
<1>6. \A q \in Posts : status[q] = "completed" => status'[q] = "completed" /\ value'[q] = value[q]
  OBVIOUS
<1>7. \A v \in Workers : WorkInv(v)'
  BY <1>4, <1>5, <1>6, OthersKeep
<1> QED
  BY <1>1, <1>3, <1>7 DEF IInv

LEMMA Completing ==
  ASSUME RowTypes, NEW w \in Workers, NEW p \in Posts, Complete(p), token[p] = w
  PROVE  /\ status' \in [Posts -> {"pending", "completed", "failed"}]
         /\ status'[p] = "completed" /\ \A q \in Posts \ {p} : status'[q] = status[q]
         /\ waiting' \in [Posts -> BOOLEAN]
         /\ token' \in [Posts -> Workers \cup {NoWorker}]
         /\ \A q \in Posts : token'[q] \in {token[q], NoWorker}
         /\ lease' \in [Posts -> {"none", "live", "over"}]
<1>1. /\ status' = [status EXCEPT ![p] = "completed"]
      /\ waiting' = [waiting EXCEPT ![p] = FALSE]
      /\ token' = [token EXCEPT ![p] = NoWorker]
      /\ lease' = [lease EXCEPT ![p] = "none"]
  BY DEF Complete, GiveUpLease
<1>2. waiting' \in [Posts -> BOOLEAN]
  BY <1>1, Zenon DEF RowTypes
<1> QED
  BY <1>1, <1>2 DEF RowTypes

LEMMA ReadyKeeps == ASSUME IInv, NEW w \in Workers, Ready(w) PROVE IInv'
<1>0. PICK p \in Posts : p = post[w]
  BY DEF IInv, WorkTypes
<1>1. /\ status[p] = "pending" /\ token[p] = w /\ pc[w] = "ready"
      /\ UNCHANGED <<value, attempts, due, memoryVars>>
  BY <1>0 DEF Ready, Found, OwnsMetric, IInv, WorkTypes
<1>2. ~Measured(value[p])
  BY <1>0, <1>1 DEF IInv, RowInv
<1>3. /\ calls' = [calls EXCEPT ![w] = [pr \in Providers |->
                     IF pr \in Missing(w) THEN "calling" ELSE "none"]]
      /\ asked' = [asked EXCEPT ![p] = [pr \in Providers |->
                     IF pr \in Missing(w) THEN @[pr] + 1 ELSE @[pr]]]
      /\ UNCHANGED <<status, waiting, leaseVars>>
      /\ Goto(w, "collect")
  BY <1>0, <1>2 DEF Ready
<1>4. /\ pc' \in [Workers -> {"idle"} \cup MetricSteps \cup MemorySteps]
      /\ post' = post /\ seen' = seen /\ sawLive' \in [Workers -> BOOLEAN]
      /\ pc'[w] = "collect" /\ \A v \in Workers \ {w} : pc'[v] = pc[v]
  BY <1>0, <1>3, GotoMoves DEF IInv, MetricSteps
<1>5. WorkTypes' /\ Others(w)
  <2>1. [pr \in Providers |-> IF pr \in Missing(w) THEN "calling" ELSE "none"]
          \in [Providers -> CallStates]
    BY DEF CallStates
  <2>2. calls' \in [Workers -> [Providers -> CallStates]]
        /\ \A v \in Workers \ {w} : calls'[v] = calls[v]
    BY <1>0, <1>3, <2>1 DEF IInv, WorkTypes
  <2> QED
    BY <1>0, <1>4, <2>2 DEF IInv, WorkTypes, Others
<1>6. /\ \A q \in Posts \ {p} : asked'[q] = asked[q]
      /\ \A pr \in Providers : /\ asked[p][pr] \in Nat
                               /\ asked'[p][pr] \in {asked[p][pr], asked[p][pr] + 1}
      /\ asked' \in [Posts -> [Providers -> Nat]]
  BY <1>0, <1>1, <1>3 DEF IInv, RowTypes
<1>7. \A pr \in Providers : asked[p][pr] < attempts[p]
  BY <1>0, <1>1 DEF IInv, WorkInv
<1>8. UNCHANGED <<status, value, token, lease, due, attempts, waiting, memory, memAttempts,
                  memWaiting, memories, written>>
  BY <1>0, <1>1, <1>3 DEF leaseVars, memoryVars
<1>9. RowTypes'
  BY <1>0, <1>6, <1>8 DEF IInv, RowTypes
<1>10. \A q \in Posts : RowInv(q)'
  <2>1. ASSUME NEW q \in Posts PROVE \A pr \in Providers : asked'[q][pr] <= attempts[q]
    <3>1. attempts[p] \in Nat /\ RowInv(q)
      BY <1>0, <1>1 DEF IInv, RowTypes
    <3> QED
      BY <1>0, <1>6, <1>7, <3>1 DEF RowInv
  <2> QED
    BY <1>0, <1>8, <2>1 DEF IInv, RowInv
<1>11. WorkInv(w)'
  BY <1>0, <1>4 DEF WorkInv, MemorySteps
<1>12. \A v \in Workers : WorkInv(v)'
  <2>1. ASSUME NEW q \in Posts
        PROVE  token'[q] = w \/ (attempts'[q] = attempts[q] /\ asked'[q] = asked[q])
    <3>1. q = p => token'[q] = w
      BY <1>1, <1>8
    <3>2. q # p => attempts'[q] = attempts[q] /\ asked'[q] = asked[q]
      BY <1>6, <1>8
    <3> QED
      BY <3>1, <3>2
  <2>2. \A q \in Posts : /\ token'[q] \in {token[q], NoWorker, w}
                         /\ status'[q] = status[q] /\ value'[q] = value[q]
    BY <1>0, <1>8
  <2> QED
    BY <1>0, <1>5, <1>11, <2>1, <2>2, OthersKeep
<1> QED
  BY <1>0, <1>5, <1>9, <1>10, <1>12 DEF IInv

\* A stored number is the first one, and the row is completed with the last.
LEMMA Storing ==
  ASSUME IInv, NEW w \in Workers, NEW pr \in Providers, NEW v \in Values,
         OwnsMetric(w), StoreValue(w, pr, v)
  PROVE  /\ value' \in [Posts -> Reports]
         /\ status' \in [Posts -> {"pending", "completed", "failed"}]
         /\ \A q \in Posts \ {post[w]} : value'[q] = value[q] /\ status'[q] = status[q]
         /\ Measured(value'[post[w]]) <=> status'[post[w]] = "completed"
         /\ token' \in [Posts -> Workers \cup {NoWorker}]
         /\ \A q \in Posts : token'[q] \in {token[q], NoWorker}
         /\ lease' \in [Posts -> {"none", "live", "over"}]
         /\ waiting' \in [Posts -> BOOLEAN]
         /\ \A q \in Posts, r \in Providers :
              value[q][r] # NoValue => value'[q][r] = value[q][r]
<1>. DEFINE p == post[w]
            kept == IF value[p][pr] = NoValue THEN v ELSE value[p][pr]
<1>1. p \in Posts /\ status[p] = "pending" /\ token[p] = w
  BY DEF OwnsMetric, IInv, WorkTypes
<1>2. value' = [value EXCEPT ![p][pr] = kept]
  BY DEF StoreValue
<1>3. kept \in Values \cup {NoValue}
  BY <1>1 DEF IInv, RowTypes, Reports
<1>4. value' \in [Posts -> Reports] /\ \A q \in Posts \ {p} : value'[q] = value[q]
  BY <1>1, <1>2, <1>3 DEF IInv, RowTypes, Reports
<1>5. \A q \in Posts, r \in Providers : value[q][r] # NoValue => value'[q][r] = value[q][r]
  BY <1>1, <1>2 DEF IInv, RowTypes, Reports
<1>6. IF Measured(value'[p]) THEN Complete(p) ELSE UNCHANGED <<status, waiting, leaseVars>>
  BY DEF StoreValue
<1>. HIDE DEF kept
<1>7. CASE Measured(value'[p])
  BY <1>1, <1>4, <1>5, <1>6, <1>7, Completing DEF IInv
<1>8. CASE ~Measured(value'[p])
  BY <1>1, <1>4, <1>5, <1>6, <1>8 DEF IInv, RowTypes, leaseVars
<1> QED
  BY <1>7, <1>8

LEMMA SaveKeeps ==
  ASSUME IInv, NEW w \in Workers, NEW pr \in Providers,
         SaveValue(w, pr) \/ SaveValueUnacknowledged(w, pr)
  PROVE  IInv'
<1>1. PICK v \in Values : StoreValue(w, pr, v)
  BY DEF SaveValue, SaveValueUnacknowledged
<1>2. PICK s \in {"completed", "partial", "retryable"} : CallEnds(w, pr, s)
  BY DEF SaveValue, SaveValueUnacknowledged
<1>3. pc[w] = "collect" /\ OwnsMetric(w)
  BY DEF SaveValue, SaveValueUnacknowledged, Found, Calling
<1>4. /\ calls' = [calls EXCEPT ![w][pr] = s]
      /\ UNCHANGED <<pc, post, seen, sawLive, due, memoryVars, attempts, asked>>
  BY <1>2 DEF CallEnds
<1>5. WorkTypes' /\ Others(w) /\ pc'[w] \notin {"ready"} \cup MemorySteps
  BY <1>3, <1>4 DEF IInv, WorkTypes, Others, CallStates, MemorySteps
<1>6. post[w] \in Posts /\ status[post[w]] = "pending" /\ token[post[w]] = w
  BY <1>3 DEF OwnsMetric, IInv, WorkTypes
<1> QED
  BY <1>1, <1>3, <1>4, <1>5, <1>6, Storing, OwnerKeeps

LEMMA FailureKeeps == ASSUME IInv, NEW w \in Workers, RecordFailure(w) PROVE IInv'
<1>0. PICK p \in Posts : p = post[w]
  BY DEF IInv, WorkTypes
<1>1. /\ status[p] = "pending" /\ token[p] = w
      /\ UNCHANGED <<value, attempts, due, memoryVars, asked>> /\ Leave(w)
  BY <1>0 DEF RecordFailure, Found, OwnsMetric, IInv, WorkTypes
<1>2. ~Measured(value[p])
  BY <1>0, <1>1 DEF IInv, RowInv
<1>3. PICK s \in {"failed", "pending"} : status' = [status EXCEPT ![p] = s]
  BY <1>0, <1>2 DEF RecordFailure, FailureStatus
<1>4. /\ waiting' = [waiting EXCEPT ![p] = ~Exhausted(w)]
      /\ token' = [token EXCEPT ![p] = NoWorker]
      /\ lease' = [lease EXCEPT ![p] = "none"]
  BY <1>0, <1>2 DEF RecordFailure, GiveUpLease
<1>5. WorkTypes' /\ Others(w) /\ pc'[w] = "idle"
  BY <1>0, <1>1, LeaveMoves DEF IInv
<1>6. waiting' \in [Posts -> BOOLEAN]
  <2>1. Exhausted(w) \in BOOLEAN
    BY DEF Exhausted, Ended
  <2> QED
    BY <1>0, <1>4, <2>1, Zenon DEF IInv, RowTypes
<1>7. lease' \in [Posts -> {"none", "live", "over"}] /\ value' \in [Posts -> Reports]
  BY <1>0, <1>1, <1>4 DEF IInv, RowTypes
<1>8. /\ status' \in [Posts -> {"pending", "completed", "failed"}]
      /\ status'[p] # "completed" /\ \A q \in Posts \ {p} : status'[q] = status[q]
  BY <1>0, <1>1, <1>3 DEF IInv, RowTypes
<1>9. Measured(value'[p]) <=> status'[p] = "completed"
  BY <1>0, <1>1, <1>2, <1>8
<1>10. pc'[w] \notin {"ready"} \cup MemorySteps
  BY <1>0, <1>5 DEF MemorySteps
<1>11. /\ token' \in [Posts -> Workers \cup {NoWorker}]
       /\ \A q \in Posts : token'[q] \in {token[q], NoWorker}
  BY <1>4 DEF IInv, RowTypes
<1>12. \A q \in Posts \ {p} : value'[q] = value[q] /\ status'[q] = status[q]
  BY <1>1, <1>8
<1> QED
  BY <1>0, <1>1, <1>5, <1>6, <1>7, <1>8, <1>9, <1>10, <1>11, <1>12, OwnerKeeps

\* A step on memories: a memory is generated, fails or is deleted.
LEMMA MemoryKeeps ==
  ASSUME IInv, NEW w \in Workers \cup {NoWorker}, WorkTypes', Others(w),
         w \in Workers => WorkInv(w)',
         RowTypes', \A q \in Posts : token'[q] \in {token[q], NoWorker},
         \A q \in Posts :
           \/ memory'[q] = memory[q] /\ written'[q] = written[q] /\ memories'[q] \in {memories[q], {}}
           \/ /\ status[q] = "completed" /\ memory[q] = "none"
              /\ \/ /\ memory'[q] = "generated" /\ written'[q] = written[q] + 1
                    /\ memories'[q] = memories[q] \cup {value[q]}
                 \/ /\ memory'[q] = "failed" /\ written'[q] = written[q]
                    /\ memories'[q] = memories[q],
         UNCHANGED <<metricVars, due, asked>>
  PROVE  IInv'
<1>1. UNCHANGED <<status, value, attempts, asked>>
  BY DEF metricVars
<1>2. ASSUME NEW q \in Posts PROVE RowInv(q)'
  <2>1. RowInv(q)
    BY DEF IInv
  <2>2. CASE /\ memory'[q] = memory[q] /\ written'[q] = written[q]
             /\ memories'[q] \in {memories[q], {}}
    BY <1>1, <2>1, <2>2 DEF RowInv
  <2>3. CASE /\ status[q] = "completed" /\ memory[q] = "none"
             /\ memory'[q] = "generated" /\ written'[q] = written[q] + 1
             /\ memories'[q] = memories[q] \cup {value[q]}
    <3>1. written[q] = 0
      BY <2>1, <2>3 DEF RowInv
    <3>2. memories[q] = {}
      BY <2>1, <2>3 DEF RowInv
    <3> QED
      BY <1>1, <2>1, <2>3, <3>1, <3>2 DEF RowInv
  <2>4. CASE /\ status[q] = "completed" /\ memory[q] = "none"
             /\ memory'[q] = "failed" /\ written'[q] = written[q]
             /\ memories'[q] = memories[q]
    <3>1. memories[q] = {} /\ written[q] = 0
      BY <2>1, <2>4 DEF RowInv
    <3> QED
      BY <1>1, <2>1, <2>4, <3>1 DEF RowInv
  <2> QED
    BY <2>2, <2>3, <2>4
<1>3. \A q \in Posts : /\ token'[q] \in {token[q], NoWorker, w}
                       /\ attempts'[q] = attempts[q] /\ asked'[q] = asked[q]
                       /\ status'[q] = status[q] /\ value'[q] = value[q]
  BY <1>1
<1>4. \A v \in Workers : WorkInv(v)'
  BY <1>3, OthersKeep
<1> QED
  BY <1>2, <1>4 DEF IInv

\* The types of the columns of a memory, with one row changed.
LEMMA MemoryTypes ==
  ASSUME RowTypes, NEW p \in Posts, NEW m \in {"none", "generated", "failed"}, NEW b \in BOOLEAN,
         memory' = [memory EXCEPT ![p] = m], memWaiting' = [memWaiting EXCEPT ![p] = b],
         GiveUpLease(p), memories' \in [Posts -> SUBSET Reports], written' \in [Posts -> Nat],
         UNCHANGED <<metricVars, due, memAttempts, asked>>
  PROVE  RowTypes' /\ \A q \in Posts : token'[q] \in {token[q], NoWorker}
<1>1. memWaiting' \in [Posts -> BOOLEAN]
  BY Zenon DEF RowTypes
<1>2. memory' \in [Posts -> {"none", "generated", "failed"}]
  BY DEF RowTypes
<1>3. /\ token' \in [Posts -> Workers \cup {NoWorker}]
      /\ \A q \in Posts : token'[q] \in {token[q], NoWorker}
      /\ lease' \in [Posts -> {"none", "live", "over"}]
  BY DEF GiveUpLease, RowTypes
<1>4. UNCHANGED <<status, value, attempts, waiting, due, memAttempts, asked>>
  BY DEF metricVars
<1> QED
  BY <1>1, <1>2, <1>3, <1>4 DEF RowTypes

LEMMA StoreKeeps ==
  ASSUME IInv, NEW w \in Workers, SaveMemory(w) \/ SaveMemoryUnacknowledged(w)
  PROVE  IInv'
<1>0. PICK p \in Posts : p = post[w]
  BY DEF IInv, WorkTypes
<1>1. /\ pc[w] = "save"
      /\ status[p] = "completed" /\ memory[p] = "none" /\ seen[w] = value[p]
  BY <1>0 DEF SaveMemory, SaveMemoryUnacknowledged, StoreMemory, Found, OwnsMemory, IInv, WorkTypes,
     WorkInv, MemorySteps
<1>2. /\ memory' = [memory EXCEPT ![p] = "generated"]
      /\ memWaiting' = [memWaiting EXCEPT ![p] = FALSE]
      /\ memories' = [memories EXCEPT ![p] = @ \cup {value[p]}]
      /\ written' = [written EXCEPT ![p] = @ + 1]
      /\ GiveUpLease(p)
      /\ UNCHANGED <<metricVars, due, memAttempts, asked>>
  BY <1>0, <1>1 DEF SaveMemory, SaveMemoryUnacknowledged, StoreMemory
<1>3. memories' \in [Posts -> SUBSET Reports] /\ written' \in [Posts -> Nat]
  <2>1. value[p] \in Reports /\ memories \in [Posts -> SUBSET Reports]
    BY DEF IInv, RowTypes
  <2>2. memories[p] \cup {value[p]} \in SUBSET Reports
    BY <2>1
  <2>3. memories' \in [Posts -> SUBSET Reports]
    BY <1>2, <2>1, <2>2
  <2>4. written' \in [Posts -> Nat]
    BY <1>2 DEF IInv, RowTypes
  <2> QED
    BY <2>3, <2>4
<1>4. RowTypes' /\ \A q \in Posts : token'[q] \in {token[q], NoWorker}
  BY <1>2, <1>3, MemoryTypes DEF IInv
<1>5. WorkTypes' /\ Others(w) /\ WorkInv(w)'
  <2>1. CASE Leave(w)
    <3>1. WorkTypes' /\ Others(w) /\ pc'[w] = "idle"
      BY <2>1, LeaveMoves DEF IInv
    <3> QED
      BY <3>1 DEF WorkInv, MemorySteps
  <2>2. CASE UNCHANGED calls /\ Goto(w, "memoryFail")
    <3>1. /\ pc' \in [Workers -> {"idle"} \cup MetricSteps \cup MemorySteps]
          /\ post' = post /\ seen' = seen /\ sawLive' \in [Workers -> BOOLEAN]
          /\ pc'[w] = "memoryFail" /\ \A v \in Workers \ {w} : pc'[v] = pc[v]
      BY <2>2, GotoMoves DEF IInv, MemorySteps
    <3>2. WorkTypes' /\ Others(w)
      BY <2>2, <3>1 DEF IInv, WorkTypes, Others
    <3> QED
      BY <1>0, <1>1, <1>2, <3>1, <3>2 DEF WorkInv, metricVars
  <2> QED
    BY <2>1, <2>2 DEF SaveMemory, SaveMemoryUnacknowledged
<1>6. ASSUME NEW q \in Posts
      PROVE  \/ memory'[q] = memory[q] /\ written'[q] = written[q] /\ memories'[q] = memories[q]
             \/ /\ status[q] = "completed" /\ memory[q] = "none"
                /\ memory'[q] = "generated" /\ written'[q] = written[q] + 1
                /\ memories'[q] = memories[q] \cup {value[q]}
  <2>1. CASE q = p
    BY <1>1, <1>2, <2>1 DEF IInv, RowTypes
  <2>2. CASE q # p
    BY <1>2, <2>2 DEF IInv, RowTypes
  <2> QED
    BY <2>1, <2>2
<1> QED
  BY <1>2, <1>4, <1>5, <1>6, MemoryKeeps

LEMMA MemoryFailureKeeps ==
  ASSUME IInv, NEW w \in Workers, RecordMemoryFailure(w) PROVE IInv'
<1>0. PICK p \in Posts : p = post[w]
  BY DEF IInv, WorkTypes
<1>1. status[p] = "completed" /\ memory[p] = "none"
  BY <1>0 DEF RecordMemoryFailure, Found, OwnsMemory
<1>2. PICK m \in {"none", "failed"}, b \in BOOLEAN :
        /\ memory' = [memory EXCEPT ![p] = m] /\ memWaiting' = [memWaiting EXCEPT ![p] = b]
  <2>. DEFINE last == memAttempts[p] >= MaxMemoryAttempts
  <2>1. /\ memory' = [memory EXCEPT ![p] = IF last THEN "failed" ELSE memory[p]]
        /\ memWaiting' = [memWaiting EXCEPT ![p] = ~last]
    BY <1>0 DEF RecordMemoryFailure
  <2>2. (IF last THEN "failed" ELSE memory[p]) \in {"none", "failed"} /\ (~last) \in BOOLEAN
    BY <1>1
  <2>. HIDE DEF last
  <2> QED
    BY <2>1, <2>2, Zenon
<1>3. /\ GiveUpLease(p) /\ Leave(w)
      /\ UNCHANGED <<metricVars, due, memAttempts, memories, written, asked>>
  BY <1>0 DEF RecordMemoryFailure
<1>4. memories' \in [Posts -> SUBSET Reports] /\ written' \in [Posts -> Nat]
  BY <1>3 DEF IInv, RowTypes
<1>5. RowTypes' /\ \A q \in Posts : token'[q] \in {token[q], NoWorker}
  BY <1>2, <1>3, <1>4, MemoryTypes DEF IInv
<1>6. WorkTypes' /\ Others(w) /\ WorkInv(w)'
  <2>1. WorkTypes' /\ Others(w) /\ pc'[w] = "idle"
    BY <1>3, LeaveMoves DEF IInv
  <2> QED
    BY <2>1 DEF WorkInv, MemorySteps
<1>7. ASSUME NEW q \in Posts
      PROVE  \/ memory'[q] = memory[q] /\ written'[q] = written[q] /\ memories'[q] = memories[q]
             \/ /\ status[q] = "completed" /\ memory[q] = "none"
                /\ memory'[q] = "failed" /\ written'[q] = written[q] /\ memories'[q] = memories[q]
  BY <1>1, <1>2, <1>3 DEF IInv, RowTypes
<1> QED
  BY <1>3, <1>5, <1>6, <1>7, MemoryKeeps

\* No execution moves; a pending row may fail.
LEMMA StillKeeps ==
  ASSUME IInv, RowTypes',
         UNCHANGED <<value, attempts, memory, memories, written, asked, workerVars>>,
         \A q \in Posts : status'[q] = status[q] \/ (status[q] = "pending" /\ status'[q] = "failed"),
         \A q \in Posts : token'[q] \in {token[q], NoWorker}
  PROVE  IInv'
<1>1. UNCHANGED <<pc, post, calls, seen, sawLive>>
  BY DEF workerVars
<1>2. WorkTypes' /\ Others(NoWorker)
  BY <1>1 DEF IInv, WorkTypes, Others
<1>3. ASSUME NEW q \in Posts PROVE RowInv(q)'
  <2>1. RowInv(q)
    BY DEF IInv
  <2> QED
    BY <2>1 DEF RowInv
<1>4. \A q \in Posts : /\ status[q] = "completed" => status'[q] = "completed" /\ value'[q] = value[q]
                       /\ token'[q] \in {token[q], NoWorker}
                       /\ attempts'[q] = attempts[q] /\ asked'[q] = asked[q]
  OBVIOUS
<1>5. \A v \in Workers : WorkInv(v)'
  BY <1>2, <1>4, NoWorkerAssumption, OthersKeep
<1> QED
  BY <1>2, <1>3, <1>5 DEF IInv

LEMMA SweepKeeps == ASSUME IInv, Terminalize PROVE IInv'
<1>1. PICK S \in SUBSET {p \in Posts : Interrupted(p)} :
        /\ status' = [p \in Posts |-> IF p \in S THEN "failed" ELSE status[p]]
        /\ token' = [p \in Posts |-> IF p \in S THEN NoWorker ELSE token[p]]
        /\ lease' = [p \in Posts |-> IF p \in S THEN "none" ELSE lease[p]]
        /\ waiting' = [p \in Posts |-> p \notin S /\ waiting[p]]
  BY DEF Terminalize
<1>2. UNCHANGED <<value, attempts, due, memory, memAttempts, memWaiting, memories, written, asked,
                  workerVars>>
  BY DEF Terminalize, memoryVars
<1>3. waiting' \in [Posts -> BOOLEAN]
  BY <1>1, Zenon
<1>4. /\ status' \in [Posts -> {"pending", "completed", "failed"}]
      /\ token' \in [Posts -> Workers \cup {NoWorker}]
      /\ lease' \in [Posts -> {"none", "live", "over"}]
      /\ \A q \in Posts : token'[q] \in {token[q], NoWorker}
  BY <1>1 DEF IInv, RowTypes
<1>5. RowTypes'
  <2>1. /\ value' = value /\ attempts' = attempts /\ due' = due /\ memory' = memory
        /\ memAttempts' = memAttempts /\ memWaiting' = memWaiting /\ memories' = memories
        /\ written' = written /\ asked' = asked
    BY <1>2
  <2> QED
    BY <2>1, <1>3, <1>4 DEF IInv, RowTypes
<1>6. \A q \in Posts : status'[q] = status[q] \/ (status[q] = "pending" /\ status'[q] = "failed")
  BY <1>1 DEF Interrupted
<1> QED
  BY <1>2, <1>4, <1>5, <1>6, StillKeeps

LEMMA SweepMemoryKeeps == ASSUME IInv, TerminalizeMemory PROVE IInv'
<1>1. PICK S \in SUBSET {p \in Posts : InterruptedMemory(p)} :
        /\ memory' = [p \in Posts |-> IF p \in S THEN "failed" ELSE memory[p]]
        /\ memWaiting' = [p \in Posts |-> p \notin S /\ memWaiting[p]]
        /\ token' = [p \in Posts |-> IF p \in S THEN NoWorker ELSE token[p]]
        /\ lease' = [p \in Posts |-> IF p \in S THEN "none" ELSE lease[p]]
  BY DEF TerminalizeMemory
<1>2. UNCHANGED <<metricVars, due, memAttempts, memories, written, workerVars, asked>>
  BY DEF TerminalizeMemory
<1>3. memWaiting' \in [Posts -> BOOLEAN]
  BY <1>1, Zenon
<1>4. /\ memory' \in [Posts -> {"none", "generated", "failed"}]
      /\ token' \in [Posts -> Workers \cup {NoWorker}]
      /\ lease' \in [Posts -> {"none", "live", "over"}]
      /\ \A q \in Posts : token'[q] \in {token[q], NoWorker}
  BY <1>1 DEF IInv, RowTypes
<1>5. RowTypes'
  BY <1>2, <1>3, <1>4 DEF IInv, RowTypes, metricVars
<1>6. WorkTypes' /\ Others(NoWorker)
  BY <1>2 DEF IInv, WorkTypes, Others, workerVars
<1>7. ASSUME NEW q \in Posts
      PROVE  \/ memory'[q] = memory[q] /\ written'[q] = written[q] /\ memories'[q] = memories[q]
             \/ /\ status[q] = "completed" /\ memory[q] = "none"
                /\ memory'[q] = "failed" /\ written'[q] = written[q] /\ memories'[q] = memories[q]
  BY <1>1, <1>2 DEF InterruptedMemory
<1> QED
  BY <1>2, <1>4, <1>5, <1>6, <1>7, NoWorkerAssumption, MemoryKeeps

LEMMA DeleteKeeps == ASSUME IInv, NEW p \in Posts, DeleteMemory(p) PROVE IInv'
<1>1. /\ memories' = [memories EXCEPT ![p] = {}]
      /\ UNCHANGED <<status, value, attempts, waiting, token, lease, due, memory, memAttempts,
                     memWaiting, written, workerVars, asked>>
  BY DEF DeleteMemory, metricVars, leaseVars
<1>2. memories' \in [Posts -> SUBSET Reports]
  <2>1. memories \in [Posts -> SUBSET Reports] /\ {} \in SUBSET Reports
    BY DEF IInv, RowTypes
  <2> QED
    BY <1>1, <2>1
<1>3. RowTypes'
  BY <1>1, <1>2 DEF IInv, RowTypes
<1>4. WorkTypes' /\ Others(NoWorker)
  BY <1>1 DEF IInv, WorkTypes, Others, workerVars
<1>5. \A q \in Posts : memories'[q] \in {memories[q], {}}
  BY <1>1 DEF IInv, RowTypes
<1>6. \A q \in Posts : /\ memory'[q] = memory[q] /\ written'[q] = written[q]
                       /\ token'[q] \in {token[q], NoWorker}
  BY <1>1
<1>7. UNCHANGED <<metricVars, due, asked>>
  BY <1>1 DEF metricVars
<1> QED
  BY <1>3, <1>4, <1>5, <1>6, <1>7, NoWorkerAssumption, MemoryKeeps

LEMMA TimeKeeps ==
  ASSUME IInv, NEW p \in Posts, Schedule(p) \/ RetryTime(p) \/ MemoryRetryTime(p) \/ LeaseOver(p)
  PROVE  IInv'
<1>1. /\ UNCHANGED <<status, value, token, attempts, memory, memAttempts, memories, written, asked,
                     workerVars>>
      /\ due' \in {due, [due EXCEPT ![p] = TRUE]}
      /\ waiting' \in {waiting, [waiting EXCEPT ![p] = FALSE]}
      /\ memWaiting' \in {memWaiting, [memWaiting EXCEPT ![p] = FALSE]}
      /\ lease' \in {lease, [lease EXCEPT ![p] = "over"]}
  BY DEF Schedule, RetryTime, MemoryRetryTime, LeaseOver, metricVars, leaseVars, memoryVars
<1>2. due' \in [Posts -> BOOLEAN]
  BY <1>1, Zenon DEF IInv, RowTypes
<1>3. waiting' \in [Posts -> BOOLEAN]
  BY <1>1, Zenon DEF IInv, RowTypes
<1>4. memWaiting' \in [Posts -> BOOLEAN]
  BY <1>1, Zenon DEF IInv, RowTypes
<1>5. lease' \in [Posts -> {"none", "live", "over"}]
  BY <1>1 DEF IInv, RowTypes
<1>6. RowTypes'
  <2>1. /\ status' = status /\ value' = value /\ token' = token /\ attempts' = attempts
        /\ memory' = memory /\ memAttempts' = memAttempts /\ memories' = memories
        /\ written' = written /\ asked' = asked
    BY <1>1
  <2> QED
    BY <2>1, <1>2, <1>3, <1>4, <1>5 DEF IInv, RowTypes
<1> QED
  BY <1>1, <1>6, StillKeeps

LEMMA StepKeeps == IInv /\ [Next]_vars => IInv'
<1>. SUFFICES ASSUME IInv, [Next]_vars PROVE IInv'
  OBVIOUS
<1>1. CASE UNCHANGED vars
  <2>1. UNCHANGED <<status, value, token, lease, due, attempts, waiting, memory, memAttempts,
                    memWaiting, memories, written, asked, workerVars>>
    BY <1>1 DEF vars, metricVars, leaseVars, memoryVars
  <2>2. /\ status' = status /\ value' = value /\ token' = token /\ lease' = lease
        /\ due' = due /\ attempts' = attempts /\ waiting' = waiting
        /\ memory' = memory /\ memAttempts' = memAttempts /\ memWaiting' = memWaiting
        /\ memories' = memories /\ written' = written /\ asked' = asked
    BY <2>1
  <2>3. RowTypes'
    BY <2>2, Zenon DEF IInv, RowTypes
  <2>4. \A q \in Posts : status'[q] = status[q] /\ token'[q] = token[q]
    BY <2>2
  <2> QED
    BY <2>1, <2>3, <2>4, StillKeeps
<1>2. CASE Terminalize \/ TerminalizeMemory
  BY <1>2, SweepKeeps, SweepMemoryKeeps
<1>3. CASE (\E p \in Posts : DeleteMemory(p)) \/ Time
  BY <1>3, DeleteKeeps, TimeKeeps DEF Time
<1>4. ASSUME NEW w \in Workers, \/ \E p \in Posts : Claim(w, p) \/ ClaimMemory(w, p)
                                \/ Collect(w) \/ Remember(w) \/ Crash(w)
      PROVE  IInv'
  <2>1. CASE \E p \in Posts : Claim(w, p) \/ ClaimMemory(w, p)
    BY <2>1, ClaimKeeps, ClaimMemoryKeeps
  <2>2. CASE Collect(w)
    BY <2>2, ReadyKeeps, QuietKeep, FailureKeeps, SaveKeeps DEF Collect
  <2>3. CASE Remember(w)
    BY <2>3, StoreKeeps, MemoryFailureKeeps, QuietKeep DEF Remember
  <2>4. CASE Crash(w)
    BY <2>4, QuietKeep
  <2> QED
    BY <1>4, <2>1, <2>2, <2>3, <2>4
<1> QED
  BY <1>1, <1>2, <1>3, <1>4 DEF Next

\* The invariant holds of every state the crons reach.
LEMMA Always == Spec => []IInv
BY Initially, StepKeeps, PTL DEF Spec

-----------------------------------------------------------------------------
\* The types of the rows and of the executions (metric_collection, evaluation_memory).
THEOREM MetricTypes == Spec => []TypeOK
<1>1. IInv => TypeOK
  BY Typed DEF IInv
<1> QED
  BY <1>1, Always, PTL

\* The marks of a row are true, whatever was lost on the way: see MarksAreTrue.
THEOREM Marks == Spec => []MarksAreTrue
<1>1. IInv => MarksAreTrue
  BY DEF IInv, RowInv, MarksAreTrue
<1> QED
  BY <1>1, Always, PTL

\* No provider is asked more often than the maximum of attempts.
THEOREM AskedBound == Spec => []AskedAtMostMax
<1>1. ASSUME IInv, NEW p \in Posts, NEW pr \in Providers PROVE asked[p][pr] <= MaxAttempts
  <2>1. asked[p][pr] <= attempts[p] /\ attempts[p] <= MaxAttempts
    BY <1>1 DEF IInv, RowInv
  <2>2. asked[p][pr] \in Nat /\ attempts[p] \in Nat
    BY <1>1 DEF IInv, RowTypes
  <2> QED
    BY <2>1, <2>2, MaxAssumption
<1>2. IInv => AskedAtMostMax
  BY <1>1 DEF AskedAtMostMax
<1> QED
  BY <1>2, Always, PTL

-----------------------------------------------------------------------------
\* What a step leaves alone: numbers that are there, rows and memories that are settled.
Kept(p) ==
  /\ \A pr \in Providers : value[p][pr] # NoValue => value'[p][pr] = value[p][pr]
  /\ status[p] # "pending" => status'[p] = status[p]
  /\ memory[p] # "none" => memory'[p] = memory[p]

LEMMA MetricStepKept ==
  ASSUME IInv, NEW w \in Workers, Ready(w) \/ RecordFailure(w), NEW q \in Posts
  PROVE  Kept(q)
<1>0. PICK p \in Posts : p = post[w]
  BY DEF IInv, WorkTypes
<1>1. status[p] = "pending" /\ value' = value /\ memory' = memory
  BY <1>0 DEF Ready, RecordFailure, Found, OwnsMetric, memoryVars
<1>2. status' = status \/ \E s : status' = [status EXCEPT ![p] = s]
  BY <1>0 DEF Ready, RecordFailure, Complete
<1>3. status[q] # "pending" => status'[q] = status[q]
  BY <1>1, <1>2 DEF IInv, RowTypes
<1> QED
  BY <1>1, <1>3 DEF Kept

LEMMA SaveValueKept ==
  ASSUME IInv, NEW w \in Workers, NEW pr \in Providers,
         SaveValue(w, pr) \/ SaveValueUnacknowledged(w, pr), NEW q \in Posts
  PROVE  Kept(q)
<1>1. PICK v \in Values : StoreValue(w, pr, v)
  BY DEF SaveValue, SaveValueUnacknowledged
<1>2. OwnsMetric(w) /\ memory' = memory
  BY DEF SaveValue, SaveValueUnacknowledged, Found, CallEnds, memoryVars
<1>3. /\ \A r \in Posts \ {post[w]} : status'[r] = status[r]
      /\ \A r \in Providers : value[q][r] # NoValue => value'[q][r] = value[q][r]
  BY <1>1, <1>2, Storing
<1>4. status[q] # "pending" => status'[q] = status[q]
  BY <1>2, <1>3 DEF OwnsMetric
<1> QED
  BY <1>2, <1>3, <1>4 DEF Kept

LEMMA MemoryStepKept ==
  ASSUME IInv, NEW w \in Workers,
         SaveMemory(w) \/ SaveMemoryUnacknowledged(w) \/ RecordMemoryFailure(w), NEW q \in Posts
  PROVE  Kept(q)
<1>0. PICK p \in Posts : p = post[w]
  BY DEF IInv, WorkTypes
<1>1. memory[p] = "none" /\ value' = value /\ status' = status
  BY <1>0 DEF SaveMemory, SaveMemoryUnacknowledged, RecordMemoryFailure, StoreMemory, Found,
     OwnsMemory, metricVars
<1>2. \E m : memory' = [memory EXCEPT ![p] = m]
  BY <1>0 DEF SaveMemory, SaveMemoryUnacknowledged, RecordMemoryFailure, StoreMemory
<1>3. memory[q] # "none" => memory'[q] = memory[q]
  BY <1>1, <1>2 DEF IInv, RowTypes
<1> QED
  BY <1>1, <1>3 DEF Kept

LEMMA SweepKept ==
  ASSUME IInv, Terminalize \/ TerminalizeMemory, NEW q \in Posts PROVE Kept(q)
<1>1. CASE Terminalize
  <2>1. PICK S \in SUBSET {p \in Posts : Interrupted(p)} :
          status' = [p \in Posts |-> IF p \in S THEN "failed" ELSE status[p]]
    BY <1>1 DEF Terminalize
  <2>2. value' = value /\ memory' = memory
    BY <1>1 DEF Terminalize, memoryVars
  <2> QED
    BY <2>1, <2>2 DEF Kept, Interrupted
<1>2. CASE TerminalizeMemory
  <2>1. PICK S \in SUBSET {p \in Posts : InterruptedMemory(p)} :
          memory' = [p \in Posts |-> IF p \in S THEN "failed" ELSE memory[p]]
    BY <1>2 DEF TerminalizeMemory
  <2>2. value' = value /\ status' = status
    BY <1>2 DEF TerminalizeMemory, metricVars
  <2> QED
    BY <2>1, <2>2 DEF Kept, InterruptedMemory
<1> QED
  BY <1>1, <1>2

\* Every other step writes none of the three.
LEMMA OtherKept ==
  ASSUME NEW q \in Posts, value' = value, status' = status, memory' = memory
  PROVE  Kept(q)
BY DEF Kept

LEMMA StepKept == ASSUME IInv, [Next]_vars, NEW q \in Posts PROVE Kept(q)
<1>1. CASE UNCHANGED vars
  BY <1>1, OtherKept DEF vars, metricVars, memoryVars
<1>2. CASE Terminalize \/ TerminalizeMemory
  BY <1>2, SweepKept
<1>3. CASE (\E p \in Posts : DeleteMemory(p)) \/ Time
  BY <1>3, OtherKept DEF DeleteMemory, Time, Schedule, RetryTime, MemoryRetryTime, LeaseOver,
     metricVars, memoryVars
<1>4. ASSUME NEW w \in Workers, \E p \in Posts : Claim(w, p) \/ ClaimMemory(w, p)
      PROVE  Kept(q)
  BY <1>4, OtherKept DEF Claim, ClaimMemory, metricVars, memoryVars
<1>5. ASSUME NEW w \in Workers, NEW pr \in Providers, ValueLost(w, pr) \/ CallFails(w, pr)
      PROVE  Kept(q)
  BY <1>5, OtherKept DEF ValueLost, CallFails, CallEnds, memoryVars
<1>6. ASSUME NEW w \in Workers,
             EndCollecting(w) \/ MetricLost(w) \/ MemoryLost(w) \/ Embed(w) \/ SaveMemoryFails(w)
               \/ Crash(w)
      PROVE  Kept(q)
  BY <1>6, OtherKept DEF EndCollecting, MetricLost, MemoryLost, Embed, SaveMemoryFails, Crash,
     metricVars, memoryVars
<1> QED
  BY <1>1, <1>2, <1>3, <1>4, <1>5, <1>6, MetricStepKept, SaveValueKept, MemoryStepKept
     DEF Next, Collect, Remember

\* No number is replaced, no settled row or memory is settled again.
THEOREM Unrevised == Spec => NothingIsRevised
<1>1. IInv /\ [Next]_vars => [\A p \in Posts : Kept(p)]_vars
  BY StepKept
<1>2. (\A p \in Posts : Kept(p)) =>
        \A p \in Posts :
          /\ \A pr \in Providers : value[p][pr] # NoValue => value'[p][pr] = value[p][pr]
          /\ status[p] # "pending" => status'[p] = status[p]
          /\ memory[p] # "none" => memory'[p] = memory[p]
  BY DEF Kept
<1> QED
  BY <1>1, <1>2, Always, PTL DEF Spec, NothingIsRevised

-----------------------------------------------------------------------------
\* An execution that lost its row.
Stale(w) == pc[w] # "idle" /\ token[post[w]] # w
Moves(w) == pc'[w] # pc[w] \/ calls'[w] # calls[w]

LEMMA OnlyWorkerMoves ==
  ASSUME IInv, NEW w \in Workers, NEW v \in Workers, Moves(w), v # w,
         \/ \E p \in Posts : Claim(v, p) \/ ClaimMemory(v, p)
         \/ Collect(v) \/ Remember(v) \/ Crash(v)
  PROVE  FALSE
<1>1. CASE Leave(v)
  BY <1>1 DEF Leave, Moves, IInv, WorkTypes
<1>2. CASE \E s \in {"ready", "embed"} : pc' = [pc EXCEPT ![v] = s] /\ calls' = calls
  BY <1>2 DEF Moves, IInv, WorkTypes
<1>3. CASE \E s : Goto(v, s) /\ calls' = calls
  BY <1>3 DEF Moves, Goto, IInv, WorkTypes
<1>4. CASE \E c : Goto(v, "collect") /\ calls' = [calls EXCEPT ![v] = c]
  BY <1>4 DEF Moves, Goto, IInv, WorkTypes
<1>5. CASE \E pr \in Providers, s \in CallStates : pc' = pc /\ calls' = [calls EXCEPT ![v][pr] = s]
  BY <1>5 DEF Moves, IInv, WorkTypes
<1>6. CASE \E p \in Posts : Claim(v, p) \/ ClaimMemory(v, p)
  BY <1>2, <1>6 DEF Claim, ClaimMemory
<1>7. CASE Ready(v) \/ EndCollecting(v) \/ RecordFailure(v) \/ MetricLost(v) \/ Crash(v)
  BY <1>1, <1>3, <1>4, <1>7 DEF Ready, EndCollecting, RecordFailure, MetricLost, Crash
<1>8. CASE Remember(v)
  BY <1>1, <1>3, <1>8 DEF Remember, Embed, SaveMemory, SaveMemoryUnacknowledged, SaveMemoryFails,
     RecordMemoryFailure, MemoryLost
<1>9. ASSUME NEW pr \in Providers,
             SaveValue(v, pr) \/ SaveValueUnacknowledged(v, pr) \/ ValueLost(v, pr) \/ CallFails(v, pr)
      PROVE  FALSE
  BY <1>5, <1>9 DEF SaveValue, SaveValueUnacknowledged, ValueLost, CallFails, CallEnds, CallStates
<1> QED
  BY <1>6, <1>7, <1>8, <1>9 DEF Collect

LEMMA StaleWrites ==
  ASSUME IInv, NEW w \in Workers, Stale(w),
         \/ \E p \in Posts : Claim(w, p) \/ ClaimMemory(w, p)
         \/ Collect(w) \/ Remember(w) \/ Crash(w)
  PROVE  UNCHANGED <<metricVars, leaseVars, memoryVars>>
<1>1. ~OwnsMetric(w) /\ ~OwnsMemory(w) /\ pc[w] # "idle"
  BY DEF Stale, OwnsMetric, OwnsMemory
<1>2. CASE EndCollecting(w) \/ MetricLost(w) \/ Crash(w) \/ Embed(w) \/ SaveMemoryFails(w)
             \/ MemoryLost(w)
  BY <1>2 DEF EndCollecting, MetricLost, Crash, Embed, SaveMemoryFails, MemoryLost
<1>3. ASSUME NEW pr \in Providers, ValueLost(w, pr) \/ CallFails(w, pr)
      PROVE  UNCHANGED <<metricVars, leaseVars, memoryVars>>
  BY <1>3 DEF ValueLost, CallFails, CallEnds, metricVars
<1>4. ~Ready(w) /\ ~RecordFailure(w) /\ \A pr \in Providers :
        ~SaveValue(w, pr) /\ ~SaveValueUnacknowledged(w, pr)
  BY <1>1 DEF Ready, RecordFailure, SaveValue, SaveValueUnacknowledged, Found
<1>5. ~SaveMemory(w) /\ ~SaveMemoryUnacknowledged(w) /\ ~RecordMemoryFailure(w)
  BY <1>1 DEF SaveMemory, SaveMemoryUnacknowledged, RecordMemoryFailure, StoreMemory, Found
<1>6. \A p \in Posts : ~Claim(w, p) /\ ~ClaimMemory(w, p)
  BY <1>1 DEF Claim, ClaimMemory
<1> QED
  BY <1>2, <1>3, <1>4, <1>5, <1>6 DEF Collect, Remember

LEMMA StaleStep ==
  ASSUME IInv, [Next]_vars, NEW w \in Workers, Stale(w), Moves(w)
  PROVE  UNCHANGED <<metricVars, leaseVars, memoryVars>>
<1>1. CASE \/ UNCHANGED vars \/ Terminalize \/ TerminalizeMemory
           \/ (\E p \in Posts : DeleteMemory(p)) \/ Time
  <2>1. pc' = pc /\ calls' = calls
    BY <1>1 DEF vars, workerVars, Terminalize, TerminalizeMemory, DeleteMemory, Time, Schedule,
       RetryTime, MemoryRetryTime, LeaseOver
  <2> QED
    BY <2>1 DEF Moves
<1>2. CASE \E v \in Workers : \/ \E p \in Posts : Claim(v, p) \/ ClaimMemory(v, p)
                              \/ Collect(v) \/ Remember(v) \/ Crash(v)
  BY <1>2, OnlyWorkerMoves, StaleWrites
<1> QED
  BY <1>1, <1>2 DEF Next

\* An execution that lost its row changes nothing in it.
THEOREM StaleIsHarmless == Spec => StaleChangesNothing
<1>1. IInv /\ [Next]_vars =>
        \A w \in Workers :
          (/\ pc[w] # "idle" /\ token[post[w]] # w
           /\ pc'[w] # pc[w] \/ calls'[w] # calls[w])
          => UNCHANGED <<metricVars, leaseVars, memoryVars>>
  BY StaleStep DEF Stale, Moves
<1> QED
  BY <1>1, Always, PTL DEF Spec, StaleChangesNothing
=============================================================================
