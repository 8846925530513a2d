# Hiromeru verification

TLA+ models of Hiromeru, the AI assistant for marketing on X: TLC configurations that
check them on small instances, and proofs for the TLA+ proof system (TLAPS). Every
definition is translated from the code of `src/`; `PROJECT.json` maps each one to the lines
it stands for, each property to a mutant of the code that breaks it, and each hazard to the
properties that would notice it.

- [1. The system](#1-the-system): components, state, operations, interactions, hazards
- [2. Plan](#2-plan): modules in order, what is done and what is left
- [3. The modules](#3-the-modules): how state and actions correspond to the code
- [4. The runs](#4-the-runs): what each one shows, bounds, fairness
- [5. The proofs](#5-the-proofs): theorems, assumptions, the inductive invariant
- [6. Where code and documents disagree](#6-where-code-and-documents-disagree)
- [7. Not modelled](#7-not-modelled)

## 1. The system

A FastAPI backend on Vercel functions (300 s at most, any number of instances), PostgreSQL
at READ COMMITTED as the only shared state, a Next.js frontend, and the services of X, GA4,
an LLM and an embedding model. No process keeps anything in memory between requests: every
guarantee is made of row locks, conditional updates, unique constraints and advisory locks,
and a process may die between any two transactions. That is what makes the code hard to
test and worth modelling.

### Components

| Component | State | Operations | What makes it correct |
|---|---|---|---|
| **X post approval and recovery** (`services/approval.py`, `x_post_approval.py`, `x_post_recovery.py`, `repositories/idempotency.py`) | `api_idempotency_requests` (status, request hash, execution token, lease, `external_effect_started_at`, `external_result`), its API turn, `posts` | claim, replay, validate, mark the start, call X, store the result, save the Post, give up the lease, settle as failed or unknown; operator: resolve as posted / not posted, resume the save | a request is published at most once; its outcome and the Post agree with X; callers are never told two things; one open request per content |
| **Metric and memory cron** (`services/metric_collection.py`, `evaluation_memory.py`, `repositories/metric_cron.py`, `memory_cron.py`) | `post_metrics` (values, status, attempts, token and lease, memory marker), `memories` | terminalize, claim, ask X and GA4, save a value, complete, record a failure; claim, embed and save a memory | both values once, never revised; one memory per post; bounded attempts; every row ends |
| **Turns of a session** (`services/turn_service.py`, `turn_recovery.py`, `api/sse.py`, `repositories/agent.py`) | `agent_sessions` (the row that is locked), `agent_turns`, items, `tool_executions` | begin, run, ask, finish, fail, view; recovery of turns left open | one open chat turn; nothing added to an ended turn; a question answered once; the client is told what is stored; every turn ends |
| **Context and compaction** (`services/agent_context.py`) | `agent_context_checkpoints`, `context_override` of items | build, compact, create a checkpoint, quarantine an item and invalidate | the conversation is complete and nothing is twice in it; a quarantined text is nowhere |
| **Tool executor** (`agent_runtime/executor.py`, `tools.py`, `guardrail.py`, `firewall.py`) | `tool_executions` (status, attempt count, result) | prepare, claim, retry, finish, replay a stored result | a tool with a side effect is not run again after it may have worked |
| **Subagents** (`agent_runtime/proposal_tools.py`, `budget.py`) | child sessions and turns, the budget of the turn | create and run a child | at most `agent_subagent_max_per_turn` children; a child is ended when the call that works on it is given up, by whatever failure; only a completed child's proposal is shown |
| **Campaign approval, edit, backfill** (`services/campaign_approval.py`, `campaign_service.py`, `campaign_embedding_backfill.py`, `repositories/campaigns.py`) | `campaigns`, their embedding and its hash | approve, edit, backfill; compare-and-set updates | no lost update; an embedding belongs to the text it is stored with |
| **Snapshots of lists** (`services/snapshot_paging.py`, `repositories/snapshots.py`) | `snapshots` and their items, 30 minutes | first page, next page by signed cursor, clean up | pages of one list neither overlap nor lose rows |
| **Login sessions** (`services/auth_service.py`, `core/security.py`, `api/deps.py`) | a signed cookie that every response renews: idle 8 h, absolute 7 days; no row | log in, renew, log out, check | an expired session opens nothing; a logout is not undone |
| **Chat controller** (`frontend/features/chat/controller.ts`, `state.ts`, `api.ts`) | messages, the running turn, the poller | send, stream events, poll, reload | the view converges to the stored history |

### Interactions

- An approval opens an API turn in its session, under the same lock of the session row as
  a chat turn, and gives it the next number. The advisory lock on the content keeps two
  *sessions* of a marketer from publishing the same text.
- A published post creates its `post_metrics` row in the transaction that stores the Post.
  The cron asks for the numbers a week later and writes the memory; metrics and memory use
  the same token and lease columns one after the other.
- A chat turn reads its context (checkpoint and completed turns, approvals included), runs
  tools through the executor, and ends in `_finish`, which stores the reply and the end of
  the turn in one transaction. `repositories/agent.py` makes every write of a turn
  conditional on the turn's being open.
- Whoever opens a turn, reads the history or a turn recovers the session's turns that have
  been open for longer than `stale_turn_seconds` (330 s, above the limit of a function).

### Hard behaviours

The list with lines is `hazards` in `PROJECT.json`. The main ones:

- a call to X that has an effect and no answer; a process that dies between the effect and
  its record; a commit that is not acknowledged;
- an execution that outlives its lease and writes next to its successor; `now` is read
  *before* the transaction that compares it with the lease;
- two requests with one key, two keys with one content, an operator's command against a
  client's retry;
- a last attempt that dies, and is then counted by nobody;
- an execution that runs on after its turn was interrupted and another one opened;
- an item that is quarantined while a compaction that has read it is under way;
- turns that complete out of the order of their numbers;
- a tool whose effect happened before its attempt was cut off; invocations of one call that
  overtake each other while the turn is ended by somebody else;
- a child that runs when its parent is cancelled, dies or has its turn taken away;
- an embedding made from a text that has changed since; an approval whose lease a retry takes
  between the embedding and the write;
- a snapshot that is cleaned up between the two queries of a page; a live list whose rows
  move while it is read;
- a cookie that is renewed by a response that arrives after the logout (not modelled).

## 2. Plan

Most important first: what cannot be undone (a publication), then what runs unattended (the
cron), then what all conversations rest on (turns, context), then the rest.

| # | Module | What | State |
|---|---|---|---|
| 1 | `XPublish` implements `PublishContract` | approval and recovery of X posts | modelled, checked; safety, step properties and refinement proved |
| 2 | `PostMetrics` | cron | modelled, checked; safety and step properties proved |
| 3 | `AgentTurns` implements `SessionTurns` | turns | modelled, checked; safety and refinement proved |
| 4 | `SessionContext` extends `SessionTurns` | context, compaction, quarantine | modelled, checked; safety proved |
| 5 | `ToolExecutions` implements `ToolContract` | executor: claim, attempts, retries, replay of a stored result, end of the turn | modelled, checked; safety, step properties and refinement proved |
| 6 | `ChildRuns` | subagents of a turn, their limit, the audit of proposals | modelled, checked, proved |
| 7 | `CampaignEdits` implements `CampaignContract` | compare-and-set updates of approvals and edits against each other and the embedding backfill | modelled, checked; safety and refinement proved |
| 8 | `ListSnapshots` | frozen and live lists, cursors, clean-up | modelled, checked, proved |
| – | chat controller | a reducer in the browser over what the server tells; the server's side is `told` in `AgentTurns` | not modelled |
| – | login sessions | a signed cookie without a row: what is at stake is the order in which a browser receives two responses, outside the backend | not modelled |

Each module has one safety run with the smallest set of actors that can interfere in the way
its hazards say, liveness where something must eventually happen without a client asking for
it, and a run for each real disagreement between code and documents. Every safety and step
property that a run checks is also a theorem; what is left to TLC is liveness.

All modules avoid RECURSIVE operators, state their bounds and constants as named assumptions
and have one action per operation.

## 3. The modules

### XPublish

One row of `api_idempotency_requests` for each key (`status`, `request`, `token`,
`leaseLive`, `started` = `external_effect_started_at`, `result` = `external_result`, `turn`),
the number of its `posts` rows, what X has done (`tweets`, and `late`: calls whose caller no
longer waits), and executions: HTTP requests and operator commands, each at a step `pc`.

| Code | Actions |
|---|---|
| `ApprovalExecutor._claim`, first part: session lock, advisory lock, duplicates | `StartClaim` |
| `_claim`, rest: reserve, refuse, replay, recover, reacquire | `Reserve`, `ReserveDuplicate`, `RefuseClaim`, `ReplayStored`, `RecoverUnknown`, `Reacquire` |
| `_run`, `_post_to_x` | `Validate`, `MarkStarted`, `ReceiveReply`, `ReceiveNothing`, `SaveResult*` |
| `_save_post`, `_save_failed` | `SavePost*`, `RetrySave`, `GiveUpLease*` |
| `_fail`, `_outcome_unknown` and the handlers around them | `SettleError`, `SettleErrorFails` |
| `LeaseLostError`, `replay_after_lease_lost` | `LoseLease`, `Replay` |
| `XPostRecoveryService` | `OpenPosted`, `OpenNotPosted`, `OpenResume`, `Resolve*`, `ResumePersistence`, `CommandRefused` |
| X, the clock, the platform | `XPublishes`, `XRejects`, `XDecidesLate`, `LeaseExpires*`, `Crash`, `ArchiveSession` |

Time is reduced to one bit per lease. The code compares the lease with a `now` that is older
than the comparison; `sawLive[w]` remembers whether the lease was live at the end of w's
previous step, and the conditional updates may match (`Held`) or miss (`NotHeld`) for any
`now` read since. Tokens are fresh UUIDs and are named by the execution that drew them. The
`...Unacknowledged` actions are commits whose acknowledgement is lost.

Operators are assumed to do what `docs/DEPLOY.md` tells them: look at X first, and say "not
published" only when X has decided (`CallsDecided`).

`PublishContract` is what a client may rely on: a request is accepted once, published at
most once, and ends in an outcome that agrees with X and with the stored Post. It has no
executions, leases or tokens.

### PostMetrics

One `post_metrics` row for each post and executions that each work on one claimed row (a
batch is several of them). `Terminalize` and `TerminalizeMemory` are the sweeps that end
what died in its last attempt; `Claim`, `Ready`, `SaveValue`, `EndCollecting`,
`RecordFailure` are `MetricCollectionService`, with the two providers asked at the same
time (`calls`); `ClaimMemory`, `Embed`, `SaveMemory`, `RecordMemoryFailure` are
`EvaluationMemoryService`. Leases and `now` are treated as in `XPublish`. A value is NULL or
a member of a small set; what a memory says is the pair of values it was written from.

### AgentTurns and SessionTurns

`AgentTurns` models requests (`POST /turns`) at their steps. A transaction is one step,
with one exception: `begin` is several statements, and other requests may run between them;
`holder` is the lock of the session row, and `recovering` are the rows its first statement
has updated and not committed. Updates of those rows wait (`Free`). What others read is the
committed state. Of the tools only `ask_user` is there, because it ends the turn and its
questions carry over to the next one; there is one call of it in a turn (`ask`). `told` is
what the stream said last.

| Code | Actions |
|---|---|
| `TurnService.begin` | `LockSession`, `TurnInProgress`, `NoTurnInProgress`, `AcceptAnswer`, `RefuseAnswer`, `OpenTurn`, `OpenUnacknowledged` |
| `TurnService.execute`, the executions of `ask_user` | `PrepareAsk`, `ClaimAsk`, `SaveAsk`, `AskFails`, `Reply`, `Fail` |
| `_finish`, `fail_running`, the view | `FinishTurn`, `TurnTaken`, `FailRunning`, `View` |
| recovery when the session is read | `Visit` |
| API turns of approvals | `OpenApi`, `EndApi` |
| death of an instance, time | `Crash`, `Expire` |

`SessionTurns` is the promise: turns open in the order of their numbers, at most one chat
turn is open, a turn ends once, a question is answered by at most one completed turn.
`KeepsPromise` is the refinement; its mapping is the identity except for `asked`, which is a
completed `ask_user` in a completed turn.

### SessionContext

Built *on* `SessionTurns`: the turns are the promise that `AgentTurns` keeps, so the context
is checked against everything turns may do and not against one implementation. A turn
stands for its items. A checkpoint is its boundary, its sources and the set of turns whose
original text went into the summary; a context is what the agent can read, summarised and
verbatim. Each query of a build is a step of its own; the compactor works between two
transactions. Whether something is too large is a choice, which covers every budget of
tokens.

### ToolExecutions

The tool calls of one turn, by stable key, and the invocations of `ToolExecutor.invoke` that
carry them: several may carry one key (a retry of the model, a second pass of the agent
after a quarantine), with the same input or another one. What the handler does to the world
is `effects`, a count for each invocation that nothing in the code reads.

| Code | Actions |
|---|---|
| `invoke`, the turn's status | `Start`, `StartEnded` |
| `_prepare`, `ToolExecutionRepository.get_or_create` | `PrepareNew`, `PrepareKnown` (same input: go on or replay; another input: conflict) |
| `claim`, and the lookup of the one that lost it | `Claim`, `Lookup` |
| provenance, allow-list, schema, preflight, firewall | `Authorize` |
| `begin_attempt`, the handler, the retry loop | `Attempt`, `Succeed`, `Transient`, `GiveUp` |
| guardrail, `finish` | `Save`, `SaveRefused` |
| budget, cancellation, death of the process | `Raise` |
| the turn | `TimeUp`, `EndTurn` |
| quarantine by a later turn | `QuarantineLater` |

`Attempt` is counted before it begins, while turn and execution are open. Only
`TransientToolError` says that nothing happened; a timeout, a domain error and an invalid
output (`GiveUp`) leave open whether it did, and are not tried again. The rules of the
firewall and the guardrail are outcomes.

`ToolContract` is what the executor promises: a call is accepted with its first input,
carried out at most once and never after its result, settled by a result that says whether
it was carried out, and everybody who invokes it is told, in one step, what is so then. It
has no claims, attempts, retries or processes. A call's `outcome` is its result, or else
open or cancelled as its execution is; a result `cancelled` is "not done".

### ChildRuns

One turn of a parent agent, the child sessions its `run_campaign_planner` and
`run_content_creator` calls create, and the `propose_*` calls that show a child's proposal to
the user. The claim of a tool call, its attempts and its result are those of
`ToolExecutions`, here one step; the results of `run_*` tools are never quarantined. A
proposal stands for its masked form, which is what is stored and compared.

| Code | Actions |
|---|---|
| the parent agent's choice | `DecideRun`, `DecidePropose`, `DecideEnd` |
| `_run_child`: remaining time, limit, campaign, child session and turn in one transaction | `CheckTime`, `CreateChild`, `CreateRefused` |
| the child's run | `Build`, `ChildAnswers`, `ChildFails` |
| its end | `CompleteChild`, `CompleteRefused`, `CompleteErrs` |
| timeout and cancellation; the shielded end of the child | `CutOffAtOnce`, `CutOff`, `FailChild`, `FailChildErrs` |
| the result of the call | `Save` |
| `propose_*`: the child that made it, the campaign, the result | `Source`, `CheckCampaign`, `Show` |
| end of the parent's turn | `Finish`, `TimeUp` |
| others | `Archive`, `Interrupt` (recovery at a read), `RecoverAll`, `Crash` |

`RecoverAll` is called by nothing outside of the tests (section 6); it is here because it is
the only thing that ends the turn of a child whose process died. Nor does the end of the
parent's turn end a child: `Interrupt` leaves it to the parent's process, if that still
works on it.

Two histories say why a child may be left running. `lost`: the database failed, at the
commit that creates the child or at one that ends it, or the process died. `unseen`: a
cancellation or a time limit cut the creating transaction off at its commit; `_create_child`
is awaited before `_run_child`, whose handler ends the child of a cancelled call. `NoOrphan`
says that there is no third reason, and that nobody works on an unseen child or hears of it.

### CampaignEdits

Campaign rows (`content`, `updated` = `updated_at`, `archived`, `embedding`), requests with
their idempotency record, executions that serve them, and one backfill. `updated_at` is the
number of updates: the clock is taken to advance between two of them. A content stands for
its search text and an embedding for the content whose digest is stored with it; `legacy` is
the embedding of an older projection, which only the backfill replaces.

| Code | Actions |
|---|---|
| the form or the proposal shows the campaign | `Load` |
| `ApprovalExecutor.prepare` | `Claim`, `Replay`, `Expire` |
| an edit, which has no idempotency record | `BeginEdit` |
| `_validate`, `_find_reusable_embedding`, `create_embedding` | `ReadCampaign`, `ReadHash`, `EmbeddingFails` |
| the transaction that saves and finalizes | `Save`, `SaveFails` |
| `LeaseLostError`, `replay_after_lease_lost`, `_fail` | `LeaseLost`, `ReplayLost`, `Fail` |
| death of an instance | `Die` |
| archive | `Archive` |
| `campaign_embedding_backfill.py` | `StartBackfill`, `ListBatch`, `SkipCurrent`, `Embed`, `SaveIfCurrent`, `StopBackfill` |

An operator runs one backfill at a time and starts it again at an id it has passed. The
lease flag `expired` is reset when a request is settled, where the code no longer reads it.
Validation of the fields is left out: it changes nothing and refuses like `ReadCampaign`.

`CampaignContract` has no executions, leases, digests or backfill: a request that has seen a
version saves it in one step, if that version is still there and the campaign is not
archived; it is decided once, as saved or refused; the search text of a campaign is that of
its content unless it is older than the present projection; and every answer is what is
decided at that moment, or an error. The decision on an approval is read off its record and
its write, that on an edit off its write and its answer.

### ListSnapshots

A row is its id and the key it is sorted by (key 0: there is no such row). Frozen lists
(posts, metrics) write all rows of the moment at the first page; live lists (sessions,
campaigns, memories) query what comes after the last row shown.

| Code | Actions |
|---|---|
| first page of a frozen list, its clean-up of expired snapshots, the commit | `FreezeList`, `CommitList`, `CommitConflicts` |
| a following page: the snapshot, then its items, each query with its own view | `AskNext`, `ReadItems` |
| pages of a live list | `OpenLive`, `NextLive` |
| errors and lost answers | `Fail` |
| rows, time | `Change`, `Tick` |

The first page runs at REPEATABLE READ: two clean-ups that delete the same snapshot conflict,
and the later one answers 500 (`CommitConflicts`). What a request asks for (order, page size)
is chosen at its commit, since nothing before depends on it. The signature of a cursor is
part of its identity: a reader sends cursors that were issued, also those of other readers
and lists. Key 1 is a row without a measured value, which sorts last in both orders. The
readers of one behaviour read the same kind of list and each has one live list at a time.

A live list is exact only for rows that do not change while it is read. A session may be
missed or shown twice: `touch` stamps `updated_at` with a `now` that is read before it waits
for the row lock, so a key may also move backwards.

## 4. The runs

| Run | Module | Instance | Shows |
|---|---|---|---|
| `safety` | MCXPublish | 2 keys with one content, 2 sessions, 2 executions; 1.1 M states | the safety of approval and recovery, and that `XPublish` implements `PublishContract` |
| `live` | MCXPublish | 1 key, 2 bodies and sessions, archiving, 2 executions; 55 k states | a key stays with its first request; a request is settled when faults stop |
| `metrics` | MCPostMetrics | 1 post, 2 executions, 2 values, 2 attempts; 80 k states | the safety of the cron, and that every row and every memory ends |
| `turns` | MCAgentTurns | 2 requests, 3 turns; 0.8 M states | the safety of turns, and `SessionTurns` |
| `turns_live` | MCAgentTurns | 2 requests, 2 turns; 24 k states | every chat turn ends in a session that is visited |
| `context` | MCSessionContext | 5 turns, 2 checkpoints; 0.6 M states | completeness and quarantine of contexts |
| `context_api`, `context_late` | MCSessionContext | 5 turns / 4 turns, 1 checkpoint | disagreements, section 6 |
| `tools` | MCToolExecutions | 4 invocations of one key, three with the same input; 2 attempts; 59 k states | a call is carried out once and its result says whether it was, answers are stored results, ends are final, and `ToolExecutions` implements `ToolContract` |
| `children` | MCChildRuns | 3 calls (a planner, two creators), limit 2, 2 proposals; 30 k states | shown proposals are audited, the limit holds, no child is left running but for a failing database, a crash, or a creation cut off at its commit, a late parent does nothing |
| `campaigns` | MCCampaignEdits | 1 campaign and room for two others; an approval that overwrites it, an edit of it, an approval with 2 executions that inserts; 2 contents, batches of 2; 2.4 M states | embeddings follow contents, no lost update, answers are true, the backfill leaves nothing |
| `lists` | MCListSnapshots | 2 readers, 3 rows (two with one key), 2 orders, pages of 1 and 2, 3 snapshots, 1 change, 1 tick; 2.1 M states | frozen walks are the list of one moment; live walks are exact for rows that stay, and in order |

The type invariant of `XPublish` is checked by `safety`; the others are theorems or parts of
the inductive invariants of section 5 (`ToolTypes`, `ChildTypes` and `MetricTypes` state those
of `ToolExecutions`, `ChildRuns` and `PostMetrics`). `KnowsTheConversation` includes that
nothing is in a context twice. That `CampaignEdits` implements `CampaignContract` is proved and
is in no run: following the contract's choices along the 2.4 M states of `campaigns` takes
TLC longer than all other runs together.

### Why the bounds are enough

- *Executions.* Every conflict in the code is between an execution and whoever replaced it.
  In `XPublish`, `PostMetrics` and `AgentTurns` executions are used again after they end, so
  two of them act out any number of consecutive requests, and one that is left behind meets
  a successor of its successor. The theorems of section 5 remove the bound for safety.
- *Keys.* Keys meet only in the duplicate check, which compares pairs.
- *Attempts.* `DbSaveMaxAttempts`, `MaxAttempts` and `MaxMemoryAttempts` are 2: a first
  attempt, a last one and the boundary between them. The code's values are 3.
- *Posts.* Rows of different posts share nothing; the sweeps update sets of rows, and the
  condition of each row is its own. One post is enough.
- *Turns.* Three turns are a question, an answer that fails or is taken, and a second
  answer. Contexts need two summarised turns, the newest one, the current one and an API
  turn, hence 5 turns, and two checkpoints so that one is built on the other.
- *Invocations.* One has claimed the call, one finds it claimed, one replays it and one
  conflicts with it. Keys share nothing but the turn, whose end is one step for all of them.
- *Children.* Three calls with a limit of 2 reach the limit, with one that failed among them.
- *Campaigns.* Two writers of one row are a lost update, two executions of one request a
  lost lease; the inserted campaign may come before or after the backfill's position, and
  there would be room for inserting it a second time.
- *Lists.* Two rows with one key need the id to be ordered; three rows are a first, a middle
  and a last page of one row; two readers with `CleanupLimit` 1 meet in the clean-up.

Deadlock is checked for `XPublish`, where a key can always be asked for again. The other
instances really stop: when every row is done, when the session has its last turn
(`MaxTurns`), when every invocation, call or execution has ended, and when the readers
have used up their snapshots and the clock.

Symmetry is used between executions of the same kind, requests, proposals and readers, in
`safety`, `turns`, `tools`, `children`, `campaigns` and `lists`, none of which checks
liveness. Nothing compares or orders them.

### Fairness

- `XPublish!LiveSpec`: an execution goes on, X answers, a command ends, a lease nobody works
  under runs out (weak), and the client sends its request again (strong, since the session
  row may be locked by another request again and again). The property has the premise
  `<>[][Regular /\ ClaimedInTime]_vars`: it says nothing while instances keep dying, database
  errors and lost answers go on, or claims keep taking longer than the lease they ask for;
  any finite number of these is allowed. The premise names the steps that may go on and not
  the faults that stop, because some faults look like regular steps (a claim that is refused
  and one that dies leave the same state): excluding those would exclude refusals too.
- `PostMetrics!LiveSpec`: the cron is invoked every day (weak for the sweeps, strong for
  claims because another execution may hold the lease in between), an invocation ends by
  itself or at the limit of the platform, and time passes. Crashes are not excluded: the
  limit of attempts ends a row whose executions always die.
- `AgentTurns!VisitedSpec`: a transaction that holds the lock of the session row ends, an
  execution that is alive goes on, time passes, and somebody looks at the session again and
  again; the update of the recovery queues on the rows it waits for (strong). An execution
  may die at any step and need not be served at all.

The other modules state no fairness: an invocation, a child, an approval or a page may be
abandoned at any step by a client or a dying process, nothing asks for it again by itself,
and what must not be left behind then is stated as safety (`ResultsMatchExecutions`,
`NoOrphan`, `AppliedAsTold`).

## 5. The proofs

All eight detailed modules have theorems, for all values of their constants. Each proof has the same shape: an inductive invariant `IInv` with named parts, `Initially`, one
lemma for each action or group of actions, and theorems that read the properties off it.

### XPublish

`XPublishProofs` shows that every step keeps the parts of the inductive invariant about
types, rows and executions, adds the exclusion by content, carries the invariant to the
behaviours, derives the state properties, proves the refinement, and derives what a single
step may never do, and what turns and callers see. The theorems hold for any sets of keys, sessions, contents, calls and executions and any number of
attempts, from the named assumptions of `XPublish` only: calls are records over those sets,
archivable sessions are sessions, `NoWorker` and `NoCall` are none of the values they stand
beside, and the number of attempts is positive. Sets may be infinite.

| Theorem | Property |
|---|---|
| `TypeCorrect` | `TypeOK` |
| `PublishedOnce` | `AtMostOneTweet` |
| `StatusTruthful` | `StatusMatchesEffect` |
| `ResultTruthful` | `ResultMeansPublished` |
| `UndecidedBlocks` | `UndecidedIsUnresolved` |
| `OneOpenRequest` | `OneUnresolvedPerContent` |
| `Refinement` | `Implements`: `Spec => Contract!Spec` |
| `NeverReopens` | `SettledStays` |
| `Fencing` | `FencedOut` |
| `StartedOnce` | `NoRestart` |
| `FirstRequestKeepsKey` | `KeyBelongsToFirst` |
| `TurnTruthful` | `TurnFollowsRequest` |
| `AnswersStayTrue` | `AnswersHold` |

`ResultMeansPublished`, `UndecidedIsUnresolved`, `SettledStays` and `NoRestart` follow from
what the runs check and have no run of their own.

**The inductive invariant.** "Published at most once" is not inductive: nothing in it keeps
two executions from calling X. What does is spread over row, token and step, and `IInv`
collects it as `TypeOK /\ EffectInv /\ ContentInv`:

- `RowInv` relates the columns of a row to X: without `started` nothing has happened on X;
  `tweets + late <= 1`; a stored result is a publication; the final status agrees with X;
- `StarterInv` is the reason: the execution that started the call is the only one that is
  past the start, an execution that still owns its token and is before it finds `started`
  false, and what an execution remembers of X's answer is true. A successor starts only
  when the effect is not uncertain, so that it either finds `started` false or resumes the
  save of a result;
- `CommandInv` keeps the operator's evidence true until his command commits: after
  `outcome_unknown` nobody can call X any more;
- `CallInv` ties executions to rows that exist;
- `ContentInv` is the exclusion by content: claims with one content exclude each other
  (advisory lock), so what a claim has seen of duplicates still holds when it commits.

`TypeStep`, `CallStep`, `RowStep`, `CommandStep` and `StarterStep` each show that one part
is kept, with one proof step per action; `LeaveType`, `GotoType` and `RetrySaveType` say
what the shared endings of the actions do. `ContentStep` first separates the two actions
that matter for a content (a claim that starts, a claim that reserves) from the `Quiet` ones,
which open no request and start no claim. The refinement has a lemma per group of actions
(`ClaimMaps`, `ExecuteMaps`, ...): the claim maps to `Accept` or `Doubt`, `SavePost` and
`ResolvePosted` to `Succeed`, settling an error to `Fail` or `Doubt`, X's decisions to
`Publish`, everything else to a stutter. It needs `IInv` because the contract's guards
(`published[k] = 0` for `Fail`, `Open(k)` for `Publish`) are facts of the invariant.

The step properties rest on `StepActs`: a step moves at most one
execution, and an execution at work that writes the row holds its token. `NoRestart` adds
from `StarterInv` that an execution about to start the call finds `started` false.
`TurnFollowsRequest` and `AnswersHold` are inductive relative to `IInv`: `RowChange` lists
how a row and its turn can change together, `Told` what an answer may say, and `SettledStep`
(from the refinement) that a later step cannot take it back.

### PostMetrics

`PostMetricsProofs`, from the assumptions of `PostMetrics` (values and executions are none of
the values they stand beside, maxima are positive numbers).

| Theorem | Property |
|---|---|
| `MetricTypes` | `TypeOK` |
| `Marks` | `MarksAreTrue` |
| `AskedBound` | `AskedAtMostMax` |
| `Unrevised` | `NothingIsRevised` |
| `StaleIsHarmless` | `StaleChangesNothing` |

`MarksAreTrue` is not inductive: an execution that writes a memory with the numbers it saw
must have seen those of the row. `IInv` is the types, `RowInv(p)` (the marks of a row are
true; attempts are at most the maximum; no provider was asked more often than attempts were
counted) and `WorkInv(w)`: an execution that writes a memory has the numbers of its row, which is
completed, and one that has just claimed its row has not used its attempt. `OwnerKeeps`,
`MemoryKeeps`, `StillKeeps` and `OthersKeep` say what a step leaves to those who do not take
it.

### AgentTurns

`AgentTurnsProofs`, for any requests and any number of turns.

| Theorem | Property |
|---|---|
| `TurnsEndWhole` | `EndsWhole` |
| `Told` | `ToldIsStored` |
| `EndIsFinal` | `NothingAfterTheEnd` |
| `PromiseKept` | `KeepsPromise`: `Spec => Promise!TurnSpec` |

`IInv` adds to the types: `NumberInv` (the turns are those up to a number), `LockInv` (who
begins a turn holds the session row; what is being recovered is open, all of it once the
check for an active turn is passed), `OwnTurn` (executions have turns of their own),
`RowInv(t)`, `OpeningInv(r)` and `WorkInv(r)` (what an execution has in hand agrees with its
turn while that is open). Each step is described for each turn as one of `Same`, `Asks`,
`Ends` and `Begins`, from which the step property and the refinement follow. For the
refinement the turns that `OpenChat` interrupts are those in `recovering` at the commit, and
`LockInv` is why these are all open chat turns.

### SessionContext

`SessionContextProofs`, for any number of turns and checkpoints.

| Theorem | Property |
|---|---|
| `WholeConversation` | `KnowsTheConversation`, late executions included |
| `QuarantineHolds` | `QuarantinedStaysOut`, if executions end with their turn (`~LateExecutions`) |

`TurnInv` is the reason for the first: a chat turn has ended when the next one opens, so the
completed chat turns below an open one are fixed (`Settled`), and what a build has read of
them stays complete while it compacts outside of transactions. `CheckpointInv(c)` says that
a checkpoint has all completed chat turns up to its boundary and that one came after it;
`BuildInv(t)` that a build has read the turns from its checkpoint on; `AsRead` puts the two
together. `Created` shows it of a new checkpoint, whose boundary exists by `Greatest` (a
finite set of numbers has a greatest, from the library's well-foundedness of the naturals).
`CleanInv` is about the quarantine: only the turn that is open builds, so a text is never
quarantined behind the back of a build. Its premise is the difference that `context_late`
shows to be real.

### ToolExecutions

`ToolExecutionsProofs`, for any invocations, keys, inputs and number of attempts.

| Theorem | Property |
|---|---|
| `ToolTypes` | `TypeOK` |
| `CallCarriedOutOnce` | `CarriedOutOnce` |
| `AnswersTrue` | `AnswersAreStored` |
| `ResultsTrue` | `ResultsMatchExecutions` |
| `EndedStays` | `EndedIsFinal` |
| `EffectsTold` | `ResultsTellEffects` |
| `ToolRefinement` | `ImplementsToolContract`: `Spec => Contract!Spec` |

`CarriedOutOnce` needs that only the invocation that claimed an execution has effects
(`CallerInv(c)`: its claim, its effects, where it is at work, what it answered), that a claim
leaves the execution no longer pending (`KeyInv(k)`), and that claims are exclusive
(`OneClaim`).

That a result tells whether the call was carried out needs a second invariant, `CInv`,
inductive relative to the first: an invocation that has claimed the execution and works on
it finds no result (`Certain(c)`: only it can store one), it has carried the call out when
it comes to inspect a result and not when it comes to save "cancelled", and it has told
nobody anything before it returns; while the turn runs, only a saved result cancels an
execution (`Honest(k)`). `CarriedByClaimer` turns this into the count that the contract
sees. `CInv` is also what the refinement rests on: `AtWorkOpen` says that whoever works
on a call finds it open, or cancelled with its turn, hence `Succeed`, `GiveUp` and `Raise` map to
`CarryOut` or `Answer` (`CarryOutMaps`, `AnswerMaps`), `PrepareNew` to `Accept`, `Save` to
`Settle`, a refused save to the answer that the turn has ended, every replay and lookup to
`Answer` (`ToldSays`), and all else to a stutter.

### ChildRuns

`ChildRunsProofs`, for any finite set of calls, any proposals and any limit.

| Theorem | Property |
|---|---|
| `ChildTypes` | `TypeOK` |
| `ProposalsAudited` | `ProposalIsAudited` |
| `ChildrenWithinLimit` | `WithinLimit` |
| `ChildrenEnd` | `NoOrphan` |
| `LateParent` | `LateParentDoesNothing` |

The invariant says what each place of the parent's process implies (`PlaceInv`), what it may
want to show (`WantInv`), how a call and its child agree (`CallInv`), and that what is shown
was audited (`ShownInv`); the limit counts calls, of which children are a subset. `NoOrphan` is
taken apart into `Owned` (a running child is worked on, lost or unseen) and `UnseenInv`, which
adds that an unseen child exists: a call creates a child only if it has none, so no call can
come to work on one that is unseen.

### CampaignEdits

`CampaignEditsProofs`, for any campaigns, executions, contents and batch sizes and a finite
set of requests.

| Theorem | Property |
|---|---|
| `EmbeddingsFollow` | `EmbeddingFollowsContent` |
| `NothingLost` | `NoLostUpdate` |
| `ToldAsApplied` | `AppliedAsTold` |
| `NothingLeftBehind` | `ScannedIsCurrent` |
| `CampaignRefinement` | `ImplementsCampaignContract`: `Spec => Contract!Spec` |

The delicate case is an execution that keeps the embedding because its digest is the one of
its own content: `KeepInv(e)` says that content and embedding are still those unless the
campaign has moved on, in which case the compare-and-set refuses; a backfill in between may
replace the embedding, but only by that of the present content. `CountInv` (the version
counts the requests that were written) and `FormInv(r)` (a form that was written is older
than the row) exclude lost updates; `RecordInv(r)` and `ToldInv(e)` tie answers to records;
`FillInv` says that the batch is what comes next and that what was current when it was read
still is. `WriteFacts` collects what any write does, first or second execution, with or
without a new embedding.

For the refinement, `Undecided` gives the decision on a request from what its execution may
assume: an edit that is under way is undecided, an approval is what its record says. `SaveMaps`
shows that the write of any execution is the contract's compare-and-set, with the search text
changed in the same step even where the code keeps the embedding; `FailMaps` and
`RefusalMaps` are the two ways to refuse; `AnswerMaps` that replays, lost leases and deaths
answer what is decided or an error; `BackfillMaps` that the backfill indexes the present
content or changes nothing.

### ListSnapshots

`ListSnapshotsProofs`, for any readers, any finite set of rows, any orders and page sizes, and
any lifetime, clean-up limit and bounds.

| Theorem | Property |
|---|---|
| `FrozenWalks` | `FrozenWalkIsWhole` |
| `LiveWalks` | `LiveWalkIsSteady` |
| `LiveOrder` | `LiveWalkDescends` |

A list is sorted by rank: an item's place is the number of items before it, which needs no
induction. `TotalOrder` shows that each of the four orders is a strict total order of the items,
`Ranks` that ranks are a bijection to `1..n` (finite sets and their cardinalities, from
the library), `SortedList` that the list has every item once and in order, and `Page`, `Prefix`
and `NextPage` what a part of it is. `FrozenInv(r)` says that what was shown is the beginning of
the list of the first page's moment, and that the cursor points right behind it into a snapshot
that is the reader's own and whole, or is gone: clean-up may delete it between any two
queries, and an answer without items is then refused (`ReadStep`). `LiveInv(r)` says that the
rows shown descend, are those that the walk is past, and that a row that has not changed
was shown if and only if the walk is past it; `LivePage` is why a further page keeps this
whatever was inserted, deleted or moved meanwhile.

### Only model-checked

All liveness: properties under fairness and ENABLED are outside of the prover's reach and
stay with TLC. Induction over data and RECURSIVE operators are too; no module needs them.

## 6. Where code and documents disagree

Two have a run that ends in a violation; `findings` in `PROJECT.json` quotes both sides.

- `context_api`: AGENT_DESIGN says the result of an API turn is read by the next turns; an
  API turn that completes after its number was summarised over is read by none.
- `context_late`: AGENT_DESIGN says late writes of an interrupted turn fail and that a
  quarantine invalidates the checkpoints with the item; a late execution may store a
  checkpoint from text that was quarantined after it was read. `context` and
  `QuarantineHolds` show that this is the only way: without late executions
  `QuarantinedStaysOut` holds.

Four more are seen by reading and need no search of states:

- API_DESIGN (`docs/v.0.1/API_DESIGN.md:96`) says an archived session only replays completed
  requests; `services/approval.py:342` executes a retry of a request whose lease is over
  there too. Nothing in the code archives a session yet.
- API_DESIGN (`:119`) says the final transaction commits only while the lease runs; the code
  compares the lease with a `now` from before the transaction
  (`services/x_post_approval.py:362`). `FencedOut` shows what still protects the row: the
  lock and the token.
- AGENT_DESIGN (`docs/v.0.1/AGENT_DESIGN.md:825`) names a daily cron that recovers turns of
  sessions nobody opens; `recover_all` (`services/turn_recovery.py:20`) exists and nothing
  calls it outside of the tests. `turns_live` therefore assumes that somebody looks at the
  session.
- A test (`tests/integration/test_proposal_tools.py:496`) says that the child's turn is failed
  when the parent's time is over and its call is cancelled. That is so once the child runs,
  which is what the test arranges; a call cut off while `_create_child`
  (`agent_runtime/proposal_tools.py:174`) commits leaves the child's turn running. `NoOrphan`
  excepts these children by name (`unseen`).

## 7. Not modelled

- *Login sessions*: a signed cookie and a generation number. No state of the server changes
  but the password and the login counter; that a late response restores a deleted cookie is
  the order in which a browser receives responses.
- *Chat controller and user interface*: the reducer over stream events, polling and reloads
  lives in the browser, as does rendering. `AgentTurns` covers what the server tells it.
- *Clients of X, GA4, embeddings, search and pages*: formats, limits and the mapping of
  errors. What a call may do to its caller (effect or not, answer, no answer) is an outcome
  in the caller's module.
- *Reads, views, serializers*: details, searches and formats read one state and change none.
  Lists that are read in several requests are `ListSnapshots`; the recovery that a read
  triggers is `Visit` in `AgentTurns`.
- *Migrations, scripts, demo data*: the tables are the initial states of the modules, and
  the constraints that matter (unique keys of posts, memories and checkpoints) are in the
  guards of the actions. `backfill_campaign_embeddings` is the backfill of `CampaignEdits` and
  `reconcile_x_posts` the operator of `XPublish`. `create_marketer` and the demo data write
  rows once, before the system runs.
- Inside the modules: the validation of a post (`Validate` ends either way) and of a
  campaign's fields, the campaign of a post, the texts of memories, summaries and answers,
  sizes and token counts, what a tool computes, the rules of the firewall and the guardrail,
  logging.
