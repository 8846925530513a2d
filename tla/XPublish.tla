------------------------------ MODULE XPublish ------------------------------
(***************************************************************************)
(* Publishing an approved post to X: the idempotency row, the executions   *)
(* (HTTP requests and operator commands) that race for it, the X service,  *)
(* and the Post row that must exist exactly when the request succeeded.    *)
(*                                                                         *)
(* Code: services/approval.py, services/x_post_approval.py,                *)
(* services/x_post_recovery.py, repositories/idempotency.py.               *)
(*                                                                         *)
(* Time.  The code compares lease_expires_at with a `now` it reads before  *)
(* the transaction.  A lease is here only live or expired and may expire   *)
(* at any moment; sawLive[w] remembers that the lease was still live when  *)
(* w finished its previous step, so that a `now` read since then may still *)
(* pass the comparison although the lease has expired meanwhile.           *)
(*                                                                         *)
(* Tokens.  execution_token is a fresh UUID per claim and only ever        *)
(* compared with the token of an execution, so token[k] names the          *)
(* execution that made the last claim.                                     *)
(***************************************************************************)
EXTENDS Naturals, FiniteSets

CONSTANTS
  Keys,              \* Idempotency-Key values of one marketer
  Sessions,          \* the marketer's parent sessions
  Archivable,        \* sessions that may get archived
  Contents,          \* request bodies, up to request_hash
  Calls,             \* the publish requests clients send
  Workers,           \* executions: HTTP handlers and operator commands
  NoWorker, NoCall,
  DbSaveMaxAttempts  \* DB_SAVE_MAX_ATTEMPTS

ASSUME CallsAssumption == Calls \subseteq [key : Keys, session : Sessions, content : Contents]
ASSUME ArchivableAssumption == Archivable \subseteq Sessions
ASSUME NoWorkerAssumption == NoWorker \notin Workers
ASSUME NoCallAssumption == NoCall \notin Calls
ASSUME AttemptsAssumption == DbSaveMaxAttempts \in Nat \ {0}

VARIABLES
  \* api_idempotency_requests, by key
  status, request, token, leaseLive, started, result,
  turn,              \* the API turn of the request
  posts,             \* number of posts rows of the request
  archived,          \* archived sessions
  \* the X service
  tweets,            \* posts X has published for the request
  late,              \* calls X has not decided whose caller no longer waits
  \* executions
  pc, call, dup, sawLive, reply, attempt,
  answers            \* history: the final answers callers were given, by key

rowVars == <<status, request, token, leaseLive, started, result, turn>>
xVars == <<tweets, late>>
workerVars == <<pc, call, dup, sawLive, reply, attempt>>
vars == <<rowVars, posts, archived, xVars, workerVars, answers>>

Unresolved == {"processing", "outcome_unknown"}
Final == {"succeeded", "failed"}
Statuses == {"none"} \cup Unresolved \cup Final
Answers == Final \cup {"outcome_unknown", "save_failed"}

\* Steps of an execution that owns (or once owned) an execution token.
Executing == {"validate", "mark", "calling", "saveResult", "savePost", "saveFailed",
              "fail", "unknown", "resume"}
Commands == {"opPosted", "opNotPosted", "opResume"}
Steps == {"idle", "claiming", "replay"} \cup Executing \cup Commands

Key(w) == call[w].key

(***************************************************************************)
(* Conditions of the repository's conditional updates.                     *)
(***************************************************************************)
\* Mutants: the status or the token is not compared.
OwnsTokenSettled(w) == token[Key(w)] = w
OwnsTokenUnfenced(w) == status[Key(w)] = "processing"
\* processing and the execution's own token: what _held compares besides time.
OwnsToken(w) == status[Key(w)] = "processing" /\ token[Key(w)] = w

\* The update matches for some `now` the execution may have read.
Held(w) == OwnsToken(w) /\ sawLive[w]
\* The update matches no row for some `now` the execution may have read.
NotHeld(w) == ~OwnsToken(w) \/ ~leaseLive[Key(w)]

\* Session row and advisory lock of a claim transaction that is under way.
SessionFree(s) == \A v \in Workers : pc[v] = "claiming" => call[v].session # s
AdvisoryFreeMutant(c) == TRUE   \* mutant: no advisory lock
AdvisoryFree(c) == \A v \in Workers : pc[v] = "claiming" => call[v].content # c

\* Mutant: only requests in progress count.
UnresolvedDuplicateMutant(c) ==
  \E k \in Keys \ {c.key} : status[k] = "processing" /\ request[k].content = c.content
UnresolvedDuplicate(c) ==
  \E k \in Keys \ {c.key} : status[k] \in Unresolved /\ request[k].content = c.content

Init ==
  /\ status = [k \in Keys |-> "none"]
  /\ request = [k \in Keys |-> NoCall]
  /\ token = [k \in Keys |-> NoWorker]
  /\ leaseLive = [k \in Keys |-> FALSE]
  /\ started = [k \in Keys |-> FALSE]
  /\ result = [k \in Keys |-> FALSE]
  /\ turn = [k \in Keys |-> "none"]
  /\ posts = [k \in Keys |-> 0]
  /\ archived = {}
  /\ tweets = [k \in Keys |-> 0]
  /\ late = [k \in Keys |-> 0]
  /\ pc = [w \in Workers |-> "idle"]
  /\ call = [w \in Workers |-> NoCall]
  /\ dup = [w \in Workers |-> FALSE]
  /\ sawLive = [w \in Workers |-> FALSE]
  /\ reply = [w \in Workers |-> "none"]
  /\ attempt = [w \in Workers |-> 0]
  /\ answers = [k \in Keys |-> {}]

(***************************************************************************)
(* How a step leaves the row and the execution.                            *)
(***************************************************************************)
\* The execution goes on at step p; a `now` read later sees the lease as it is now.
Goto(w, p, r, a) ==
  /\ pc' = [pc EXCEPT ![w] = p]
  /\ reply' = [reply EXCEPT ![w] = r]
  /\ attempt' = [attempt EXCEPT ![w] = a]
  /\ sawLive' = [sawLive EXCEPT ![w] = leaseLive'[Key(w)]]
  /\ UNCHANGED <<call, dup>>

\* The HTTP response is sent, or the execution dies: its token is forgotten.
Leave(w) ==
  /\ pc' = [pc EXCEPT ![w] = "idle"]
  /\ call' = [call EXCEPT ![w] = NoCall]
  /\ dup' = [dup EXCEPT ![w] = FALSE]
  /\ sawLive' = [sawLive EXCEPT ![w] = FALSE]
  /\ reply' = [reply EXCEPT ![w] = "none"]
  /\ attempt' = [attempt EXCEPT ![w] = 0]

Answer(k, a) == answers' = [answers EXCEPT ![k] = @ \cup {a}]

\* ApprovalStore.complete: the final response and the end of the turn, in one transaction.
Settle(k, s) ==
  /\ status' = [status EXCEPT ![k] = s]
  /\ turn' = [turn EXCEPT ![k] = "completed"]
  /\ UNCHANGED <<request, token, leaseLive, started, result>>

-----------------------------------------------------------------------------
(***************************************************************************)
(* Claiming the right to execute (ApprovalExecutor._claim).  The first     *)
(* step takes the session row lock and the advisory lock and looks for an  *)
(* unresolved duplicate; the second one commits.                           *)
(***************************************************************************)
StartClaim(w, c) ==
  /\ pc[w] = "idle"
  /\ SessionFree(c.session)
  /\ AdvisoryFree(c.content)
  /\ pc' = [pc EXCEPT ![w] = "claiming"]
  /\ call' = [call EXCEPT ![w] = c]
  /\ dup' = [dup EXCEPT ![w] = UnresolvedDuplicate(c)]
  /\ sawLive' = [sawLive EXCEPT ![w] = leaseLive[c.key]]
  /\ UNCHANGED <<rowVars, posts, archived, xVars, reply, attempt, answers>>

Claiming(w) == pc[w] = "claiming"
Unclaimed(w) == Claiming(w) /\ status[Key(w)] = "none"
\* Mutant: the body and the session of the request are not compared.
SameRequestMutant(w) == Claiming(w) /\ status[Key(w)] # "none"
SameRequest(w) == Claiming(w) /\ status[Key(w)] # "none" /\ request[Key(w)] = call[w]

InsertRow(w, s, t, live) ==
  /\ status' = [status EXCEPT ![Key(w)] = s]
  /\ request' = [request EXCEPT ![Key(w)] = call[w]]
  /\ token' = [token EXCEPT ![Key(w)] = w]
  /\ leaseLive' = [leaseLive EXCEPT ![Key(w)] = live]
  /\ turn' = [turn EXCEPT ![Key(w)] = t]
  /\ UNCHANGED <<started, result>>

\* The lease starts at the `now` read before the locks: it may already be over.
Reserve(w) ==
  /\ Unclaimed(w) /\ call[w].session \notin archived /\ ~dup[w]
  /\ \E live \in BOOLEAN : InsertRow(w, "processing", "running", live)
  /\ Goto(w, "validate", "none", 0)
  /\ UNCHANGED <<posts, archived, xVars, answers>>

\* X_POST_UNRESOLVED: the candidate is inserted and failed in the same transaction.
ReserveDuplicate(w) ==
  /\ Unclaimed(w) /\ call[w].session \notin archived /\ dup[w]
  /\ InsertRow(w, "failed", "completed", TRUE)
  /\ Answer(Key(w), "failed")
  /\ Leave(w)
  /\ UNCHANGED <<posts, archived, xVars>>

\* Archived session, key of another request, or a live lease: nothing is written.
RefuseClaim(w) ==
  /\ \/ Unclaimed(w) /\ call[w].session \in archived
     \/ Claiming(w) /\ status[Key(w)] # "none" /\ request[Key(w)] # call[w]
     \/ /\ SameRequest(w) /\ status[Key(w)] = "processing"
        /\ leaseLive[Key(w)] \/ sawLive[w]
  /\ Leave(w)
  /\ UNCHANGED <<rowVars, posts, archived, xVars, answers>>

ReplayStored(w) ==
  /\ SameRequest(w) /\ status[Key(w)] # "processing"
  /\ Answer(Key(w), status[Key(w)])
  /\ Leave(w)
  /\ UNCHANGED <<rowVars, posts, archived, xVars>>

ExpiredClaim(w) == SameRequest(w) /\ status[Key(w)] = "processing" /\ ~leaseLive[Key(w)]
\* Mutant: an expired request is always run again.
EffectUncertainMutant(k) == FALSE
\* The effect may have happened and its result is not stored.
EffectUncertain(k) == started[k] /\ ~result[k]

\* Mutant: the turn of the recovered request is left running.
RecoverUnknownMutant(w) ==
  /\ ExpiredClaim(w) /\ EffectUncertain(Key(w))
  /\ status' = [status EXCEPT ![Key(w)] = "outcome_unknown"]
  /\ Answer(Key(w), "outcome_unknown")
  /\ Leave(w)
  /\ UNCHANGED <<request, token, leaseLive, started, result, turn, posts, archived, xVars>>

RecoverUnknown(w) ==
  /\ ExpiredClaim(w) /\ EffectUncertain(Key(w))
  /\ Settle(Key(w), "outcome_unknown")
  /\ Answer(Key(w), "outcome_unknown")
  /\ Leave(w)
  /\ UNCHANGED <<posts, archived, xVars>>

\* A fresh token and lease; a lease set from an old `now` may already be over.
TakeOver(w) ==
  /\ token' = [token EXCEPT ![Key(w)] = w]
  /\ \E live \in BOOLEAN : leaseLive' = [leaseLive EXCEPT ![Key(w)] = live]
  /\ UNCHANGED <<status, request, started, result, turn>>

\* Mutant: only a request with a stored result is taken over.
ReacquireMutant(w) ==
  /\ ExpiredClaim(w) /\ result[Key(w)]
  /\ TakeOver(w)
  /\ Goto(w, "resume", "none", 0)
  /\ UNCHANGED <<posts, archived, xVars, answers>>

Reacquire(w) ==
  /\ ExpiredClaim(w) /\ ~EffectUncertain(Key(w))
  /\ TakeOver(w)
  /\ Goto(w, IF result[Key(w)] THEN "resume" ELSE "validate", "none", 0)
  /\ UNCHANGED <<posts, archived, xVars, answers>>

-----------------------------------------------------------------------------
(***************************************************************************)
(* Executing (XPostApprovalService._run, _post_to_x).                      *)
(***************************************************************************)
\* Fields, length, campaign, embedding, campaign again.
Validate(w) ==
  /\ pc[w] = "validate"
  /\ UNCHANGED rowVars
  /\ \E next \in {"mark", "fail"} : Goto(w, next, "none", 0)
  /\ UNCHANGED <<posts, archived, xVars, answers>>

MarkStarted(w) ==
  /\ pc[w] = "mark" /\ Held(w)
  /\ started' = [started EXCEPT ![Key(w)] = TRUE]
  /\ UNCHANGED <<status, request, token, leaseLive, result, turn>>
  /\ Goto(w, "calling", "none", 0)
  /\ UNCHANGED <<posts, archived, xVars, answers>>

\* The X service takes its decision while the execution waits.
XPublishes(w) ==
  /\ pc[w] = "calling" /\ reply[w] = "none"
  /\ tweets' = [tweets EXCEPT ![Key(w)] = @ + 1]
  /\ reply' = [reply EXCEPT ![w] = "published"]
  /\ UNCHANGED <<rowVars, posts, archived, late, pc, call, dup, sawLive, attempt, answers>>

XRejects(w) ==
  /\ pc[w] = "calling" /\ reply[w] = "none"
  /\ reply' = [reply EXCEPT ![w] = "rejected"]
  /\ UNCHANGED <<rowVars, posts, archived, xVars, pc, call, dup, sawLive, attempt, answers>>

\* The X service takes its decision after the caller is gone.
XDecidesLate(k) ==
  /\ late[k] > 0
  /\ late' = [late EXCEPT ![k] = @ - 1]
  /\ \E n \in {0, 1} : tweets' = [tweets EXCEPT ![k] = @ + n]
  /\ UNCHANGED <<rowVars, posts, archived, workerVars, answers>>

\* A call X has not decided yet outlives its caller.
Abandon(w) ==
  late' = IF pc[w] = "calling" /\ reply[w] = "none"
            THEN [late EXCEPT ![Key(w)] = @ + 1] ELSE late

ReceiveReply(w) ==
  /\ pc[w] = "calling" /\ reply[w] # "none"
  /\ UNCHANGED rowVars
  /\ Goto(w, IF reply[w] = "published" THEN "saveResult" ELSE "fail", reply[w], 0)
  /\ UNCHANGED <<posts, archived, xVars, answers>>

\* Timeout, broken connection or an answer that cannot be interpreted.
ReceiveNothing(w) ==
  /\ pc[w] = "calling"
  /\ Abandon(w)
  /\ UNCHANGED rowVars
  /\ Goto(w, "unknown", reply[w], 1)
  /\ UNCHANGED <<posts, archived, tweets, answers>>

StoreResult(w) ==
  /\ pc[w] = "saveResult" /\ Held(w)
  /\ result' = [result EXCEPT ![Key(w)] = TRUE]
  /\ UNCHANGED <<status, request, token, leaseLive, started, turn,
                 posts, archived, xVars, answers>>

SaveResult(w) == StoreResult(w) /\ Goto(w, "savePost", reply[w], 1)
\* Committed, but the connection failed before the acknowledgement.
SaveResultUnacknowledged(w) == StoreResult(w) /\ Goto(w, "unknown", reply[w], 1)

\* Mutant: a result that cannot be stored is reported as a failure.
SaveResultRefusedMutant(w) ==
  /\ pc[w] = "saveResult"
  /\ UNCHANGED rowVars
  /\ Goto(w, "fail", reply[w], 1)
  /\ UNCHANGED <<posts, archived, xVars, answers>>

\* Lease lost or a database error: both count as "not saved".
SaveResultRefused(w) ==
  /\ pc[w] = "saveResult"
  /\ UNCHANGED rowVars
  /\ Goto(w, "unknown", reply[w], 1)
  /\ UNCHANGED <<posts, archived, xVars, answers>>

\* Stored result parsed and embedded; on failure the lease is given up.
ResumeAt(w, next) ==
  /\ pc[w] = "resume"
  /\ UNCHANGED rowVars
  /\ Goto(w, next, "none", 1)
  /\ UNCHANGED <<posts, archived, xVars, answers>>

Resume(w) == ResumeAt(w, "savePost")
ResumeFails(w) == ResumeAt(w, "saveFailed")

\* One transaction: Post, embedding, tracking link, metric, response and turn.
SavePost(w) ==
  /\ pc[w] = "savePost" /\ Held(w)
  /\ posts[Key(w)] = 0
  /\ posts' = [posts EXCEPT ![Key(w)] = @ + 1]
  /\ Settle(Key(w), "succeeded")
  /\ UNCHANGED <<archived, xVars>>

RetrySave(w) ==
  IF attempt[w] < DbSaveMaxAttempts
    THEN Goto(w, "savePost", reply[w], attempt[w] + 1)
    ELSE Goto(w, "saveFailed", reply[w], 1)

SavePostOk(w) == SavePost(w) /\ Answer(Key(w), "succeeded") /\ Leave(w)
\* Committed, but the connection failed before the acknowledgement.
SavePostUnacknowledged(w) == SavePost(w) /\ RetrySave(w) /\ UNCHANGED answers

\* Database error, or the unique constraint on posts.api_idempotency_request_id.
SavePostError(w) ==
  /\ pc[w] = "savePost"
  /\ UNCHANGED rowVars
  /\ RetrySave(w)
  /\ UNCHANGED <<posts, archived, xVars, answers>>

\* X_POST_SAVE_FAILED: the lease ends now, the row stays processing.
GiveUpLease(w) ==
  /\ pc[w] = "saveFailed" /\ Held(w)
  /\ leaseLive' = [leaseLive EXCEPT ![Key(w)] = FALSE]
  /\ UNCHANGED <<status, request, token, started, result, turn>>
  /\ Answer(Key(w), "save_failed")
  /\ Leave(w)
  /\ UNCHANGED <<posts, archived, xVars>>

\* After a call to X, a database error in _save_failed is caught and tried once more.
GiveUpLeaseError(w) ==
  /\ pc[w] = "saveFailed" /\ reply[w] = "published" /\ attempt[w] = 1
  /\ \/ UNCHANGED leaseLive
     \/ Held(w) /\ leaseLive' = [leaseLive EXCEPT ![Key(w)] = FALSE]
  /\ UNCHANGED <<status, request, token, started, result, turn>>
  /\ Goto(w, "saveFailed", reply[w], 2)
  /\ UNCHANGED <<posts, archived, xVars, answers>>

OutcomeMutant(w) == IF pc[w] = "fail" THEN "failed" ELSE "unknown"   \* mutant
Outcome(w) == IF pc[w] = "fail" THEN "failed" ELSE "outcome_unknown"

\* _fail and _outcome_unknown.
SettleError(w) ==
  /\ pc[w] \in {"fail", "unknown"} /\ Held(w)
  /\ Settle(Key(w), Outcome(w))
  /\ Answer(Key(w), Outcome(w))
  /\ Leave(w)
  /\ UNCHANGED <<posts, archived, xVars>>

\* After a call to X, a database error while settling (committed or not) is caught and
\* the request is settled as unknown, once.
SettleErrorFails(w) ==
  /\ \/ pc[w] = "fail" /\ reply[w] = "rejected"
     \/ pc[w] = "unknown" /\ attempt[w] = 1
  /\ \/ UNCHANGED rowVars
     \/ Held(w) /\ Settle(Key(w), Outcome(w))
  /\ Goto(w, "unknown", reply[w], 2)
  /\ UNCHANGED <<posts, archived, xVars, answers>>

\* LeaseLostError.
LoseLease(w) ==
  /\ pc[w] \in {"mark", "fail", "unknown", "saveFailed", "savePost"} /\ NotHeld(w)
  /\ pc[w] = "savePost" => posts[Key(w)] = 0
  /\ UNCHANGED rowVars
  /\ Goto(w, "replay", reply[w], 0)
  /\ UNCHANGED <<posts, archived, xVars, answers>>

\* replay_after_lease_lost: the stored response, or "in progress".
Replay(w) ==
  /\ pc[w] = "replay"
  /\ IF status[Key(w)] = "processing" THEN UNCHANGED answers
                                      ELSE Answer(Key(w), status[Key(w)])
  /\ Leave(w)
  /\ UNCHANGED <<rowVars, posts, archived, xVars>>

-----------------------------------------------------------------------------
(***************************************************************************)
(* Operator commands (XPostRecoveryService).  Each loads the row, works,   *)
(* and checks the row again under the session and row locks.               *)
(***************************************************************************)
OpenCommand(w, k, command) ==
  /\ pc[w] = "idle"
  /\ pc' = [pc EXCEPT ![w] = command]
  /\ call' = [call EXCEPT ![w] = request[k]]
  /\ UNCHANGED <<rowVars, posts, archived, xVars, dup, sawLive, reply, attempt, answers>>

\* X has decided every call of the request, so that "not published" can be observed.
CallsDecided(k) ==
  /\ late[k] = 0
  /\ \A w \in Workers : ~(pc[w] = "calling" /\ Key(w) = k)

\* The operator looks at X first (docs/DEPLOY.md:93).
OpenPosted(w, k) ==
  status[k] = "outcome_unknown" /\ tweets[k] > 0 /\ OpenCommand(w, k, "opPosted")
OpenNotPosted(w, k) ==
  /\ status[k] = "outcome_unknown" /\ tweets[k] = 0 /\ CallsDecided(k)
  /\ OpenCommand(w, k, "opNotPosted")

Resumable(k) == status[k] = "processing" /\ ~leaseLive[k] /\ result[k]
OpenResume(w, k) == Resumable(k) /\ OpenCommand(w, k, "opResume")

StillUnknown(w) == status[Key(w)] = "outcome_unknown"

ResolvePosted(w) ==
  /\ pc[w] = "opPosted" /\ SessionFree(call[w].session) /\ StillUnknown(w)
  /\ posts[Key(w)] = 0
  /\ posts' = [posts EXCEPT ![Key(w)] = @ + 1]
  /\ status' = [status EXCEPT ![Key(w)] = "succeeded"]
  /\ Leave(w)
  /\ UNCHANGED <<request, token, leaseLive, started, result, turn, archived, xVars, answers>>

ResolveNotPosted(w) ==
  /\ pc[w] = "opNotPosted" /\ SessionFree(call[w].session) /\ StillUnknown(w)
  /\ status' = [status EXCEPT ![Key(w)] = "failed"]
  /\ Leave(w)
  /\ UNCHANGED <<request, token, leaseLive, started, result, turn,
                 posts, archived, xVars, answers>>

ResumePersistence(w) ==
  /\ pc[w] = "opResume" /\ SessionFree(call[w].session) /\ Resumable(Key(w))
  /\ TakeOver(w)
  /\ Goto(w, "resume", "none", 0)
  /\ UNCHANGED <<posts, archived, xVars, answers>>

\* "already resolved", "claimed by another worker".
CommandRefused(w) ==
  /\ \/ pc[w] \in {"opPosted", "opNotPosted"} /\ ~StillUnknown(w)
     \/ pc[w] = "opResume" /\ ~Resumable(Key(w))
  /\ Leave(w)
  /\ UNCHANGED <<rowVars, posts, archived, xVars, answers>>

-----------------------------------------------------------------------------
(***************************************************************************)
(* The environment.                                                        *)
(***************************************************************************)
OwnerAtWork(k) == \E w \in Workers : pc[w] \in Executing /\ Key(w) = k /\ token[k] = w

Expire(k) ==
  /\ status[k] = "processing" /\ leaseLive[k]
  /\ leaseLive' = [leaseLive EXCEPT ![k] = FALSE]
  /\ UNCHANGED <<status, request, token, started, result, turn,
                 posts, archived, xVars, workerVars, answers>>

\* The lease of an execution that is gone, and of one that takes longer than the lease.
LeaseExpires(k) == ~OwnerAtWork(k) /\ Expire(k)
LeaseExpiresEarly(k) == OwnerAtWork(k) /\ Expire(k)

\* The process is killed, the client's connection is cut, or an error nobody handles
\* (a database error outside a try) ends the request with a 500.
Crash(w) ==
  /\ pc[w] # "idle"
  /\ Abandon(w)
  /\ Leave(w)
  /\ UNCHANGED <<rowVars, posts, archived, tweets, answers>>

\* archived_at is set outside the application.
ArchiveSession(s) ==
  /\ s \notin archived /\ SessionFree(s)
  /\ archived' = archived \cup {s}
  /\ UNCHANGED <<rowVars, posts, xVars, workerVars, answers>>

-----------------------------------------------------------------------------
Claim(w) ==
  \/ Reserve(w) \/ ReserveDuplicate(w) \/ RefuseClaim(w)
  \/ ReplayStored(w) \/ RecoverUnknown(w) \/ Reacquire(w)

Execute(w) ==
  \/ Validate(w) \/ MarkStarted(w) \/ ReceiveReply(w) \/ SavePostOk(w)
  \/ GiveUpLease(w) \/ SettleError(w) \/ LoseLease(w) \/ Replay(w)
  \/ SaveResult(w) \/ Resume(w)

Command(w) ==
  \/ \E k \in Keys : OpenPosted(w, k) \/ OpenNotPosted(w, k) \/ OpenResume(w, k)
  \/ ResolvePosted(w) \/ ResolveNotPosted(w) \/ ResumePersistence(w) \/ CommandRefused(w)

XService ==
  \/ \E w \in Workers : XPublishes(w) \/ XRejects(w)
  \/ \E k \in Keys : XDecidesLate(k)

Fault ==
  \/ \E w \in Workers :
       \/ Crash(w) \/ ReceiveNothing(w) \/ ResumeFails(w)
       \/ SaveResultUnacknowledged(w) \/ SaveResultRefused(w)
       \/ SavePostUnacknowledged(w) \/ SavePostError(w)
       \/ GiveUpLeaseError(w) \/ SettleErrorFails(w)
  \/ \E k \in Keys : LeaseExpiresEarly(k)

\* What happens while nothing goes wrong.
Regular ==
  \/ \E w \in Workers, c \in Calls : StartClaim(w, c)
  \/ \E w \in Workers : Claim(w) \/ Execute(w) \/ Command(w)
  \/ XService
  \/ \E k \in Keys : LeaseExpires(k)
  \/ \E s \in Archivable : ArchiveSession(s)

Next == Regular \/ Fault

Spec == Init /\ [][Next]_vars

-----------------------------------------------------------------------------
(***************************************************************************)
(* Properties.                                                             *)
(***************************************************************************)
\* Every variable has its type; numbers stay natural.
TypeOK ==
  /\ status \in [Keys -> Statuses]
  /\ request \in [Keys -> Calls \cup {NoCall}]
  /\ token \in [Keys -> Workers \cup {NoWorker}]
  /\ leaseLive \in [Keys -> BOOLEAN]
  /\ started \in [Keys -> BOOLEAN]
  /\ result \in [Keys -> BOOLEAN]
  /\ turn \in [Keys -> {"none", "running", "completed"}]
  /\ posts \in [Keys -> Nat]
  /\ archived \subseteq Sessions
  /\ tweets \in [Keys -> Nat]
  /\ late \in [Keys -> Nat]
  /\ pc \in [Workers -> Steps]
  /\ call \in [Workers -> Calls \cup {NoCall}]
  /\ dup \in [Workers -> BOOLEAN]
  /\ sawLive \in [Workers -> BOOLEAN]
  /\ reply \in [Workers -> {"none", "published", "rejected"}]
  /\ attempt \in [Workers -> Nat]
  /\ answers \in [Keys -> SUBSET Answers]

\* Calls to X of a request that X has not decided yet.
Undecided(k) ==
  late[k] > 0 \/ \E w \in Workers : pc[w] = "calling" /\ Key(w) = k /\ reply[w] = "none"

\* One idempotency key is published at most once, however many executions crash, outlive
\* their lease and are replaced, and nothing can be published once it has been.
AtMostOneTweet ==
  \A k \in Keys : tweets[k] <= 1 /\ (tweets[k] = 1 => ~Undecided(k))

\* The advisory lock and the duplicate check let at most one of the requests with the same
\* content be open at a time, whichever sessions they come from.
OneUnresolvedPerContent ==
  \A j, k \in Keys :
    /\ status[j] \in Unresolved /\ status[k] \in Unresolved
    /\ request[j].content = request[k].content
    => j = k

\* While X may still publish a request it blocks new requests with its content.
UndecidedIsUnresolved ==
  \A k \in Keys : Undecided(k) => status[k] \in Unresolved

\* The final status says what happened on X, and the Post row exists exactly when the
\* request succeeded: neither a lost tweet nor a Post without one.
StatusMatchesEffect ==
  \A k \in Keys :
    /\ status[k] = "succeeded" => tweets[k] = 1
    /\ status[k] = "failed" => tweets[k] = 0
    /\ posts[k] = IF status[k] = "succeeded" THEN 1 ELSE 0

\* A stored external_result is the proof of a publication: saving is only ever resumed for
\* a request that X has published.
ResultMeansPublished ==
  \A k \in Keys : result[k] => started[k] /\ tweets[k] = 1

\* What callers were told stays true: never both a success and a failure for one key, and
\* "published but not saved" only for a request that is on X.
AnswersHold ==
  \A k \in Keys :
    /\ "succeeded" \in answers[k] => status[k] = "succeeded"
    /\ "failed" \in answers[k] => status[k] = "failed"
    /\ "save_failed" \in answers[k] => tweets[k] = 1
    /\ "outcome_unknown" \in answers[k] => status[k] \in {"outcome_unknown"} \cup Final

\* The API turn runs exactly as long as its request is processing, whoever settles it.
TurnFollowsRequest ==
  \A k \in Keys :
    /\ turn[k] = "running" <=> status[k] = "processing"
    /\ turn[k] = "none" <=> status[k] = "none"

\* A settled request never reopens, and an unknown one is only ever resolved.
SettledStays ==
  [][\A k \in Keys :
       /\ status[k] \in Final => status'[k] = status[k]
       /\ status[k] = "outcome_unknown" => status'[k] \in {"outcome_unknown"} \cup Final]_vars

\* Fencing: an execution whose token has been replaced, or whose request is settled,
\* changes neither the row nor its Post.
FencedOut ==
  [][\A w \in Workers :
       (/\ pc[w] \in Executing /\ pc'[w] # pc[w]
        /\ token[Key(w)] # w \/ status[Key(w)] # "processing")
       => UNCHANGED <<rowVars, posts>>]_vars

\* Starting the effect is irrevocable: after it nobody validates or starts the call again.
NoRestart ==
  [][\A k \in Keys : started[k] => started'[k] /\ \A w \in Workers :
       pc'[w] = "calling" /\ pc[w] # "calling" => Key(w) # k]_vars

(***************************************************************************)
(* Liveness.  Executions go on, X answers, a lease nobody works under      *)
(* runs out, and the client sends an unanswered request again.             *)
(***************************************************************************)
LiveSpec ==
  /\ Spec
  /\ \A w \in Workers : WF_vars(Claim(w)) /\ WF_vars(Execute(w))
  /\ \A w \in Workers : WF_vars(XPublishes(w) \/ XRejects(w))
  /\ \A w \in Workers : WF_vars(ResolvePosted(w) \/ ResolveNotPosted(w)
                                  \/ ResumePersistence(w) \/ CommandRefused(w))
  /\ \A k \in Keys : WF_vars(LeaseExpires(k))
  /\ \A c \in Calls : SF_vars(\E w \in Workers : StartClaim(w, c))

\* Before the first claim every key is free; a key then belongs to one request for good: a
\* call with another body or session changes nothing and is told nothing.
KeyBelongsToFirst ==
  [][\A w \in Workers :
       /\ pc[w] = "claiming" /\ pc'[w] # "claiming"
       /\ status[Key(w)] # "none" /\ request[Key(w)] # call[w]
       => UNCHANGED <<rowVars, answers>>]_vars

\* A lease is still live when the claim that takes it commits.
ClaimedInTime ==
  \A w \in Workers : pc'[w] \in {"validate", "resume"} /\ pc[w] # pc'[w]
    => leaseLive'[call'[w].key]

\* When faults stop, every request that is being processed is settled.  (Some faults look
\* like regular steps, as when a claim that would be refused dies; these may go on.)
EventuallySettled ==
  <>[][Regular /\ ClaimedInTime]_vars =>
    \A k \in Keys : status[k] = "processing" ~> status[k] # "processing"

-----------------------------------------------------------------------------
(***************************************************************************)
(* The inductive invariant behind the safety properties.                   *)
(***************************************************************************)
\* Executions that started the call to X, and executions that have not yet.
Starter(w) ==
  \/ pc[w] \in {"calling", "saveResult", "unknown"}
  \/ /\ pc[w] \in {"savePost", "saveFailed", "fail"}
     /\ reply[w] # "none"
BeforeStart(w) ==
  \/ pc[w] \in {"validate", "mark"}
  \/ pc[w] = "fail" /\ reply[w] = "none"

\* Calls are well formed and the row of an execution at work exists.
CallInv ==
  /\ \A k \in Keys : status[k] # "none" => request[k] \in Calls /\ request[k].key = k
  /\ \A w \in Workers :
       /\ pc[w] # "idle" => call[w] \in Calls
       /\ pc[w] \in {"replay"} \cup Executing \cup Commands => status[Key(w)] # "none"

RowInv ==
  \A k \in Keys :
    /\ status[k] = "none" => ~started[k]
    /\ ~started[k] => tweets[k] = 0 /\ late[k] = 0 /\ ~result[k]
    /\ tweets[k] + late[k] <= 1
    /\ result[k] => tweets[k] = 1
    /\ status[k] = "succeeded" => tweets[k] = 1
    /\ status[k] = "failed" => tweets[k] = 0
    /\ late[k] > 0 => status[k] \in Unresolved
    /\ posts[k] = IF status[k] = "succeeded" THEN 1 ELSE 0

\* The execution that started the call is the only one, and knows what X did.
StarterInv ==
  \A w \in Workers :
    /\ Starter(w) => started[Key(w)]
    /\ BeforeStart(w) /\ OwnsToken(w) => ~started[Key(w)]
    /\ pc[w] = "calling" /\ reply[w] = "none"
         => /\ tweets[Key(w)] = 0 /\ late[Key(w)] = 0
            /\ status[Key(w)] \in Unresolved
    /\ pc[w] \in Executing /\ reply[w] = "published" => tweets[Key(w)] = 1
    /\ pc[w] \in Executing /\ reply[w] = "rejected"
         => tweets[Key(w)] = 0 /\ late[Key(w)] = 0
    /\ pc[w] \in {"validate", "mark", "resume"} => reply[w] = "none"
    /\ pc[w] = "saveResult" => reply[w] = "published"
    /\ pc[w] = "fail" => reply[w] # "published"
    /\ pc[w] \in {"resume", "savePost", "saveFailed"} => result[Key(w)]
    /\ \A v \in Workers : Starter(v) /\ Starter(w) /\ Key(v) = Key(w) => v = w

\* The evidence of an operator stays valid until the command commits.
CommandInv ==
  \A w \in Workers :
    /\ pc[w] \in {"opPosted", "opNotPosted"}
         => status[Key(w)] \in {"outcome_unknown"} \cup Final
    /\ pc[w] = "opPosted" => tweets[Key(w)] = 1
    /\ pc[w] = "opNotPosted" /\ status[Key(w)] = "outcome_unknown"
         => tweets[Key(w)] = 0 /\ ~Undecided(Key(w))

EffectInv == CallInv /\ RowInv /\ StarterInv /\ CommandInv

\* Claims with the same content exclude each other, and what a claim saw still holds.
ContentInv ==
  /\ \A v, w \in Workers :
       pc[v] = "claiming" /\ pc[w] = "claiming" /\ v # w
         => call[v].content # call[w].content
  /\ \A w \in Workers : pc[w] = "claiming" /\ ~dup[w] => ~UnresolvedDuplicate(call[w])
  /\ OneUnresolvedPerContent

-----------------------------------------------------------------------------
(***************************************************************************)
(* Refinement: executions, leases and tokens implement the contract.       *)
(***************************************************************************)
Contract == INSTANCE PublishContract
  WITH outcome <- status, accepted <- request, published <- tweets, stored <- posts

\* Every step of the approval and recovery code is a step of the contract or changes
\* nothing the contract sees.
Implements == Contract!Spec
=============================================================================
