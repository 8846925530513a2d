---------------------------- MODULE PostMetrics ----------------------------
(***************************************************************************)
(* The first week of a post: the cron that asks X and GA4 for its numbers  *)
(* and writes one evaluation memory about them.  Invocations overlap, die, *)
(* and outlive their leases; metrics and memory use the same token and     *)
(* lease columns of the post_metrics row, one after the other.             *)
(*                                                                         *)
(* Code: services/metric_collection.py, repositories/metric_cron.py,       *)
(* services/evaluation_memory.py, repositories/memory_cron.py.             *)
(*                                                                         *)
(* An execution is one claimed row; a batch claims and works on several    *)
(* rows side by side, which here are executions of their own.  A lease is  *)
(* live or over.  `now` is read before the transaction that compares it:   *)
(* sawLive[w] says that the lease was live when w entered its present      *)
(* step, so that a `now` read since then may still pass.                   *)
(***************************************************************************)
EXTENDS Naturals, FiniteSets

CONSTANTS
  Posts,              \* published posts
  Workers,            \* executions of claimed rows
  NoWorker,
  Values,             \* what X and GA4 may report
  NoValue,            \* NULL
  MaxAttempts,        \* cron_metric_max_attempts
  MaxMemoryAttempts   \* cron_memory_max_attempts

ASSUME NoWorkerAssumption == NoWorker \notin Workers
ASSUME NoValueAssumption == NoValue \notin Values
ASSUME MaxAssumption == MaxAttempts \in Nat \ {0} /\ MaxMemoryAttempts \in Nat \ {0}

VARIABLES
  \* post_metrics, by post
  status, value, token, lease,
  due,                \* scheduled_at has come
  attempts, waiting,  \* attempt_count; next_attempt_at is in the future
  memory,             \* memory_generated_at / memory_failed_at
  memAttempts, memWaiting,
  memories,           \* the evaluation memories of the post
  \* executions
  pc, post, calls, seen, sawLive,
  \* history
  asked,              \* calls to each provider
  written             \* memories ever written

metricVars == <<status, value, attempts, waiting>>
leaseVars == <<token, lease>>
memoryVars == <<memory, memAttempts, memWaiting, memories, written>>
workerVars == <<pc, post, calls, seen, sawLive>>
vars == <<metricVars, leaseVars, due, memoryVars, workerVars, asked>>

Providers == {"x", "ga4"}
Reports == [Providers -> Values \cup {NoValue}]
CallStates == {"none", "calling", "partial", "completed", "lost", "retryable", "permanent"}
MetricSteps == {"ready", "collect", "fail"}
MemorySteps == {"embed", "save", "memoryFail"}

NoCalls == [pr \in Providers |-> "none"]
NoReport == [pr \in Providers |-> NoValue]
Measured(v) == \A pr \in Providers : v[pr] # NoValue

Init ==
  /\ status = [p \in Posts |-> "pending"]
  /\ value = [p \in Posts |-> NoReport]
  /\ token = [p \in Posts |-> NoWorker]
  /\ lease = [p \in Posts |-> "none"]
  /\ due = [p \in Posts |-> FALSE]
  /\ attempts = [p \in Posts |-> 0]
  /\ waiting = [p \in Posts |-> FALSE]
  /\ memory = [p \in Posts |-> "none"]
  /\ memAttempts = [p \in Posts |-> 0]
  /\ memWaiting = [p \in Posts |-> FALSE]
  /\ memories = [p \in Posts |-> {}]
  /\ pc = [w \in Workers |-> "idle"]
  /\ post \in [Workers -> Posts]
  /\ calls = [w \in Workers |-> NoCalls]
  /\ seen = [w \in Workers |-> NoReport]
  /\ sawLive = [w \in Workers |-> FALSE]
  /\ asked = [p \in Posts |-> [pr \in Providers |-> 0]]
  /\ written = [p \in Posts |-> 0]

(***************************************************************************)
(* The row lock and its conditions (_held in both repositories).           *)
(***************************************************************************)
OwnsMetricUnfenced(w) == status[post[w]] = "pending"    \* mutant: no token
OwnsMetric(w) == status[post[w]] = "pending" /\ token[post[w]] = w
OwnsMemory(w) ==
  /\ status[post[w]] = "completed" /\ memory[post[w]] = "none"
  /\ token[post[w]] = w

\* The row is found for some `now` the execution may have read, or is not found.
Found(w, owns) == owns /\ sawLive[w]
Lost(w, owns) == ~owns \/ lease[post[w]] # "live"

\* The execution goes on at step p.
Goto(w, p) ==
  /\ pc' = [pc EXCEPT ![w] = p]
  /\ sawLive' = [sawLive EXCEPT ![w] = lease'[post[w]] = "live"]
  /\ UNCHANGED <<post, seen>>

Leave(w) ==
  /\ pc' = [pc EXCEPT ![w] = "idle"]
  /\ calls' = [calls EXCEPT ![w] = NoCalls]
  /\ seen' = [seen EXCEPT ![w] = NoReport]
  /\ sawLive' = [sawLive EXCEPT ![w] = FALSE]
  /\ UNCHANGED post

GiveUpLease(p) ==
  /\ token' = [token EXCEPT ![p] = NoWorker]
  /\ lease' = [lease EXCEPT ![p] = "none"]

\* A fresh token and a lease that starts at the `now` read before the transaction.
TakeLease(w, p) ==
  /\ token' = [token EXCEPT ![p] = w]
  /\ \E l \in {"live", "over"} :
       /\ lease' = [lease EXCEPT ![p] = l]
       /\ sawLive' = [sawLive EXCEPT ![w] = l = "live"]

\* _complete
Complete(p) ==
  /\ status' = [status EXCEPT ![p] = "completed"]
  /\ waiting' = [waiting EXCEPT ![p] = FALSE]
  /\ GiveUpLease(p)

-----------------------------------------------------------------------------
(***************************************************************************)
(* Metrics.                                                                *)
(***************************************************************************)
\* Died in the last attempt.  The statement updates the rows whose lease is over at its
\* `now`, which may be some of those whose lease is over.
InterruptedTooLate(p) ==   \* mutant: > for >=
  status[p] = "pending" /\ attempts[p] > MaxAttempts /\ lease[p] = "over"
InterruptedAnyStatus(p) ==   \* mutant: also rows whose lease is for the memory
  attempts[p] >= MaxAttempts /\ lease[p] = "over"
Interrupted(p) == status[p] = "pending" /\ attempts[p] >= MaxAttempts /\ lease[p] = "over"

Terminalize ==
  \E S \in SUBSET {p \in Posts : Interrupted(p)} :
    /\ S # {}
    /\ status' = [p \in Posts |-> IF p \in S THEN "failed" ELSE status[p]]
    /\ token' = [p \in Posts |-> IF p \in S THEN NoWorker ELSE token[p]]
    /\ lease' = [p \in Posts |-> IF p \in S THEN "none" ELSE lease[p]]
    /\ waiting' = [p \in Posts |-> p \notin S /\ waiting[p]]
    /\ UNCHANGED <<value, attempts, due, memoryVars, workerVars, asked>>

ClaimableTooOften(p) ==   \* mutant: <= for <
  /\ status[p] = "pending" /\ due[p] /\ ~waiting[p]
  /\ lease[p] # "live" /\ attempts[p] <= MaxAttempts
Claimable(p) ==
  /\ status[p] = "pending" /\ due[p] /\ ~waiting[p]
  /\ lease[p] # "live" /\ attempts[p] < MaxAttempts

Claim(w, p) ==
  /\ pc[w] = "idle" /\ Claimable(p)
  /\ TakeLease(w, p)
  /\ attempts' = [attempts EXCEPT ![p] = @ + 1]
  /\ pc' = [pc EXCEPT ![w] = "ready"]
  /\ post' = [post EXCEPT ![w] = p]
  /\ seen' = [seen EXCEPT ![w] = value[p]]
  /\ UNCHANGED <<status, value, waiting, due, memoryVars, calls, asked>>

\* complete_if_ready; then the providers whose values the claim found missing are asked.
Missing(w) == {pr \in Providers : seen[w][pr] = NoValue}

Ready(w) ==
  /\ pc[w] = "ready" /\ Found(w, OwnsMetric(w))
  /\ IF Measured(value[post[w]])
       THEN Complete(post[w]) /\ Leave(w) /\ UNCHANGED asked
       ELSE /\ calls' = [calls EXCEPT ![w] = [pr \in Providers |->
                           IF pr \in Missing(w) THEN "calling" ELSE "none"]]
            /\ asked' = [asked EXCEPT ![post[w]] = [pr \in Providers |->
                           IF pr \in Missing(w) THEN @[pr] + 1 ELSE @[pr]]]
            /\ UNCHANGED <<status, waiting, leaseVars>>
            /\ Goto(w, "collect")
  /\ UNCHANGED <<value, attempts, due, memoryVars>>

Calling(w, pr) == pc[w] = "collect" /\ calls[w][pr] = "calling"
CallEnds(w, pr, s) ==
  /\ calls' = [calls EXCEPT ![w][pr] = s]
  /\ UNCHANGED <<pc, post, seen, sawLive, due, memoryVars, attempts, asked>>

\* save_provider_success: with the second value the row is completed.
StoreValueOnly(w, pr, v) ==   \* mutant: the last value does not complete the row
  /\ value' = [value EXCEPT ![post[w]][pr] = v]
  /\ UNCHANGED <<status, waiting, leaseVars>>
StoreValue(w, pr, v) ==
  LET p == post[w]
      kept == IF value[p][pr] = NoValue THEN v ELSE value[p][pr]
  IN /\ value' = [value EXCEPT ![p][pr] = kept]
     /\ IF Measured(value'[p]) THEN Complete(p) ELSE UNCHANGED <<status, waiting, leaseVars>>

SaveValue(w, pr) ==
  /\ Calling(w, pr) /\ Found(w, OwnsMetric(w))
  /\ \E v \in Values : StoreValue(w, pr, v)
  /\ CallEnds(w, pr, IF status'[post[w]] = "completed" THEN "completed" ELSE "partial")

\* Committed, but the connection failed before the acknowledgement.
SaveValueUnacknowledged(w, pr) ==
  /\ Calling(w, pr) /\ Found(w, OwnsMetric(w))
  /\ \E v \in Values : StoreValue(w, pr, v)
  /\ CallEnds(w, pr, "retryable")

ValueLost(w, pr) ==
  /\ Calling(w, pr) /\ Lost(w, OwnsMetric(w))
  /\ CallEnds(w, pr, "lost")
  /\ UNCHANGED <<status, value, waiting, leaseVars>>

\* A provider error, or a database error while the value is stored.
CallFails(w, pr) ==
  /\ Calling(w, pr)
  /\ \E s \in {"retryable", "permanent"} : CallEnds(w, pr, s)
  /\ UNCHANGED <<status, value, waiting, leaseVars>>

Ended(w, s) == \E pr \in Providers : calls[w][pr] = s

\* A lost lease ends the execution, otherwise a failure is recorded.  Without either, the
\* last value has completed the row (LastValueCompletes): the code's second
\* complete_if_ready is not reached.
EndCollecting(w) ==
  /\ pc[w] = "collect" /\ ~Ended(w, "calling")
  /\ UNCHANGED <<metricVars, leaseVars, due, memoryVars, asked>>
  /\ IF ~Ended(w, "lost") /\ (Ended(w, "retryable") \/ Ended(w, "permanent"))
       THEN UNCHANGED calls /\ Goto(w, "fail")
       ELSE Leave(w)

Exhausted(w) == Ended(w, "permanent") \/ attempts[post[w]] >= MaxAttempts

FailureStatus(w) == IF Exhausted(w) THEN "failed" ELSE "pending"

\* finish_failure
RecordFailure(w) ==
  /\ pc[w] = "fail" /\ Found(w, OwnsMetric(w))
  /\ IF Measured(value[post[w]])
       THEN Complete(post[w])
       ELSE /\ status' = [status EXCEPT ![post[w]] = FailureStatus(w)]
            /\ waiting' = [waiting EXCEPT ![post[w]] = ~Exhausted(w)]
            /\ GiveUpLease(post[w])
  /\ Leave(w)
  /\ UNCHANGED <<value, attempts, due, memoryVars, asked>>

\* LEASE_LOST
MetricLost(w) ==
  /\ pc[w] \in {"ready", "fail"} /\ Lost(w, OwnsMetric(w))
  /\ Leave(w)
  /\ UNCHANGED <<metricVars, leaseVars, due, memoryVars, asked>>

-----------------------------------------------------------------------------
(***************************************************************************)
(* The evaluation memory.                                                  *)
(***************************************************************************)
InterruptedMemoryTooLate(p) ==   \* mutant: > for >=
  /\ status[p] = "completed" /\ memory[p] = "none"
  /\ memAttempts[p] > MaxMemoryAttempts /\ lease[p] = "over"
InterruptedMemory(p) ==
  /\ status[p] = "completed" /\ memory[p] = "none"
  /\ memAttempts[p] >= MaxMemoryAttempts /\ lease[p] = "over"

TerminalizeMemory ==
  \E S \in SUBSET {p \in Posts : InterruptedMemory(p)} :
    /\ S # {}
    /\ memory' = [p \in Posts |-> IF p \in S THEN "failed" ELSE memory[p]]
    /\ memWaiting' = [p \in Posts |-> p \notin S /\ memWaiting[p]]
    /\ token' = [p \in Posts |-> IF p \in S THEN NoWorker ELSE token[p]]
    /\ lease' = [p \in Posts |-> IF p \in S THEN "none" ELSE lease[p]]
    /\ UNCHANGED <<metricVars, due, memAttempts, memories, written, workerVars, asked>>

MemoryClaimable(p) ==
  /\ status[p] = "completed" /\ memory[p] = "none" /\ ~memWaiting[p]
  /\ lease[p] # "live" /\ memAttempts[p] < MaxMemoryAttempts

ClaimMemory(w, p) ==
  /\ pc[w] = "idle" /\ MemoryClaimable(p) /\ Measured(value[p])
  /\ TakeLease(w, p)
  /\ memAttempts' = [memAttempts EXCEPT ![p] = @ + 1]
  /\ pc' = [pc EXCEPT ![w] = "embed"]
  /\ post' = [post EXCEPT ![w] = p]
  /\ seen' = [seen EXCEPT ![w] = value[p]]
  /\ UNCHANGED <<metricVars, due, memory, memWaiting, memories, written, calls, asked>>

Embed(w) ==
  /\ pc[w] = "embed"
  /\ UNCHANGED <<metricVars, leaseVars, due, memoryVars, calls, asked>>
  /\ \E next \in {"save", "memoryFail"} : Goto(w, next)

\* The memory, its relations and the marker, in one transaction.
StoreMemory(w) ==
  /\ pc[w] = "save" /\ Found(w, OwnsMemory(w))
  /\ memory' = [memory EXCEPT ![post[w]] = "generated"]
  /\ memWaiting' = [memWaiting EXCEPT ![post[w]] = FALSE]
  /\ memories' = [memories EXCEPT ![post[w]] = @ \cup {seen[w]}]
  /\ written' = [written EXCEPT ![post[w]] = @ + 1]
  /\ GiveUpLease(post[w])
  /\ UNCHANGED <<metricVars, due, memAttempts, asked>>

SaveMemory(w) == StoreMemory(w) /\ Leave(w)
\* Committed, but the connection failed before the acknowledgement.
SaveMemoryUnacknowledged(w) == StoreMemory(w) /\ UNCHANGED calls /\ Goto(w, "memoryFail")

SaveMemoryFails(w) ==
  /\ pc[w] = "save"
  /\ UNCHANGED <<metricVars, leaseVars, due, memoryVars, calls, asked>>
  /\ Goto(w, "memoryFail")

RecordMemoryFailure(w) ==
  /\ pc[w] = "memoryFail" /\ Found(w, OwnsMemory(w))
  /\ LET last == memAttempts[post[w]] >= MaxMemoryAttempts
     IN /\ memory' = [memory EXCEPT ![post[w]] = IF last THEN "failed" ELSE @]
        /\ memWaiting' = [memWaiting EXCEPT ![post[w]] = ~last]
  /\ GiveUpLease(post[w]) /\ Leave(w)
  /\ UNCHANGED <<metricVars, due, memAttempts, memories, written, asked>>

MemoryLost(w) ==
  /\ pc[w] \in {"save", "memoryFail"} /\ Lost(w, OwnsMemory(w))
  /\ Leave(w)
  /\ UNCHANGED <<metricVars, leaseVars, due, memoryVars, asked>>

\* A user deletes the memory; its marker stays.
DeleteMemory(p) ==
  /\ memories[p] # {}
  /\ memories' = [memories EXCEPT ![p] = {}]
  /\ UNCHANGED <<metricVars, leaseVars, due, memory, memAttempts, memWaiting, written,
                 workerVars, asked>>

-----------------------------------------------------------------------------
(***************************************************************************)
(* Time and failure.                                                       *)
(***************************************************************************)
Schedule(p) ==
  /\ ~due[p] /\ due' = [due EXCEPT ![p] = TRUE]
  /\ UNCHANGED <<metricVars, leaseVars, memoryVars, workerVars, asked>>

RetryTime(p) ==
  /\ waiting[p] /\ waiting' = [waiting EXCEPT ![p] = FALSE]
  /\ UNCHANGED <<status, value, attempts, leaseVars, due, memoryVars, workerVars, asked>>

MemoryRetryTime(p) ==
  /\ memWaiting[p] /\ memWaiting' = [memWaiting EXCEPT ![p] = FALSE]
  /\ UNCHANGED <<metricVars, leaseVars, due, memory, memAttempts, memories, written,
                 workerVars, asked>>

LeaseOver(p) ==
  /\ lease[p] = "live" /\ lease' = [lease EXCEPT ![p] = "over"]
  /\ UNCHANGED <<metricVars, token, due, memoryVars, workerVars, asked>>

\* The invocation dies, is cut off by its deadline, or fails outside every try.
Crash(w) ==
  /\ pc[w] # "idle" /\ Leave(w)
  /\ UNCHANGED <<metricVars, leaseVars, due, memoryVars, asked>>

Collect(w) ==
  \/ Ready(w) \/ EndCollecting(w) \/ RecordFailure(w) \/ MetricLost(w)
  \/ \E pr \in Providers :
       SaveValue(w, pr) \/ SaveValueUnacknowledged(w, pr) \/ ValueLost(w, pr) \/ CallFails(w, pr)

Remember(w) ==
  \/ Embed(w) \/ SaveMemory(w) \/ SaveMemoryUnacknowledged(w) \/ SaveMemoryFails(w)
  \/ RecordMemoryFailure(w) \/ MemoryLost(w)

Time == \E p \in Posts : Schedule(p) \/ RetryTime(p) \/ MemoryRetryTime(p) \/ LeaseOver(p)

Next ==
  \/ Terminalize \/ TerminalizeMemory
  \/ \E w \in Workers :
       \/ \E p \in Posts : Claim(w, p) \/ ClaimMemory(w, p)
       \/ Collect(w) \/ Remember(w) \/ Crash(w)
  \/ \E p \in Posts : DeleteMemory(p)
  \/ Time

Spec == Init /\ [][Next]_vars

(***************************************************************************)
(* Fairness: the cron is invoked every day, an invocation ends (by itself  *)
(* or at its deadline), and time passes.                                   *)
(***************************************************************************)
LiveSpec ==
  /\ Spec
  /\ WF_vars(Terminalize) /\ WF_vars(TerminalizeMemory)
  /\ \A w \in Workers : WF_vars(Collect(w) \/ Remember(w) \/ Crash(w))
  /\ \A p \in Posts :
       /\ SF_vars(\E w \in Workers : Claim(w, p))
       /\ SF_vars(\E w \in Workers : ClaimMemory(w, p))
       /\ WF_vars(RetryTime(p)) /\ WF_vars(MemoryRetryTime(p)) /\ WF_vars(LeaseOver(p))

-----------------------------------------------------------------------------
(***************************************************************************)
(* Properties.                                                             *)
(***************************************************************************)
\* Every variable has its type; attempts stay natural.
TypeOK ==
  /\ status \in [Posts -> {"pending", "completed", "failed"}]
  /\ value \in [Posts -> Reports]
  /\ token \in [Posts -> Workers \cup {NoWorker}]
  /\ lease \in [Posts -> {"none", "live", "over"}]
  /\ due \in [Posts -> BOOLEAN]
  /\ attempts \in [Posts -> Nat]
  /\ waiting \in [Posts -> BOOLEAN]
  /\ memory \in [Posts -> {"none", "generated", "failed"}]
  /\ memAttempts \in [Posts -> Nat]
  /\ memWaiting \in [Posts -> BOOLEAN]
  /\ memories \in [Posts -> SUBSET Reports]
  /\ written \in [Posts -> Nat]
  /\ pc \in [Workers -> {"idle"} \cup MetricSteps \cup MemorySteps]
  /\ post \in [Workers -> Posts]
  /\ calls \in [Workers -> [Providers -> CallStates]]
  /\ seen \in [Workers -> Reports]
  /\ sawLive \in [Workers -> BOOLEAN]
  /\ asked \in [Posts -> [Providers -> Nat]]

\* docs/v.0.1/CRON.md:83: no provider is asked more often than the maximum of attempts,
\* crashes in the last attempt included.
AskedAtMostMax ==
  \A p \in Posts : \A pr \in Providers : asked[p][pr] <= MaxAttempts

\* What a row says of itself is true, whatever was lost on the way: it is completed
\* exactly when both numbers are there, and its memory is marked as generated exactly
\* when one memory was written, with the numbers of the row.
MarksAreTrue ==
  \A p \in Posts :
    /\ Measured(value[p]) <=> status[p] = "completed"
    /\ written[p] = IF memory[p] = "generated" THEN 1 ELSE 0
    /\ memories[p] \subseteq {value[p]}
    /\ memory[p] # "none" => status[p] = "completed"

\* A number that was saved is never replaced, and what is done stays done.
NothingIsRevised ==
  [][\A p \in Posts :
       /\ \A pr \in Providers : value[p][pr] # NoValue => value'[p][pr] = value[p][pr]
       /\ status[p] # "pending" => status'[p] = status[p]
       /\ memory[p] # "none" => memory'[p] = memory[p]]_vars

\* An execution whose token was replaced or taken away changes nothing in the row.
StaleChangesNothing ==
  [][\A w \in Workers :
       (/\ pc[w] # "idle" /\ token[post[w]] # w
        /\ pc'[w] # pc[w] \/ calls'[w] # calls[w])
       => UNCHANGED <<metricVars, leaseVars, memoryVars>>]_vars

\* Every due row ends completed or failed, however often invocations die.
EventuallyMeasured ==
  \A p \in Posts : due[p] /\ status[p] = "pending" ~> status[p] # "pending"

\* Every completed row gets its memory, or its failure is recorded.
EventuallyRemembered ==
  \A p \in Posts : status[p] = "completed" ~> memory[p] # "none"
=============================================================================
