---------------------------- MODULE CampaignEdits ----------------------------
(***************************************************************************)
(* Campaigns, the embeddings they are searched by, and those who write     *)
(* them: approved proposals (campaign_approval.py, under the idempotency   *)
(* record of approval.py), edits from the form (campaign_service.py) and   *)
(* the backfill of embeddings (campaign_embedding_backfill.py).  They read *)
(* in one transaction, wait for the embedding, and write in another; an    *)
(* execution may die, lose its lease to a retry, or miss the               *)
(* acknowledgement of its commit.                                          *)
(*                                                                         *)
(* updated_at is the number of updates: the clock is taken to advance      *)
(* between two of them.  A content stands for its search text, and an      *)
(* embedding for the content whose digest is stored with it.               *)
(***************************************************************************)
EXTENDS Naturals, Sequences, FiniteSets

CONSTANTS
  Runs,           \* executions of upsert and edit, each for one request
  NoRun,
  Requests,
  RequestOf,      \* the request an execution serves
  Approved,       \* the requests that are approvals, with an Idempotency-Key
  TargetOf,       \* the campaign a request overwrites, New to insert one
  ContentOf,      \* what it writes
  Contents,
  Initial,        \* campaigns there are at first
  MaxCampaigns,   \* bound: campaigns
  BatchSize       \* the backfill's --batch-size

New == 0
Ids == 1 .. MaxCampaigns

ASSUME RequestsAssumption ==
  /\ IsFiniteSet(Requests)
  /\ RequestOf \in [Runs -> Requests]
  /\ NoRun \notin Runs
  /\ Approved \subseteq Requests
  /\ TargetOf \in [Requests -> 1 .. Initial \cup {New}]
  /\ \A r \in Requests \ Approved :
       TargetOf[r] # New /\ \A e, f \in Runs : RequestOf[e] = r /\ RequestOf[f] = r => e = f
  /\ ContentOf \in [Requests -> Contents]
  /\ \A t \in Contents : t \notin {"none", "legacy"}
ASSUME SizesAssumption ==
  /\ Initial \in Nat /\ MaxCampaigns \in Nat /\ Initial <= MaxCampaigns
  /\ BatchSize \in Nat \ {0}

VARIABLES
  content,        \* of a campaign, "none" before it exists
  updated,        \* its updated_at
  archived,       \* its archived_at is set
  embedding,      \* what its embedding was made from, "legacy" by an old projection
  form,           \* expected_updated_at of a request, 0 before the form is loaded
  status,         \* of its idempotency record, "none" without one
  holder,         \* execution_token: the execution that has the lease
  expired,        \* the lease of a request that is processing has run out
  at,             \* where an execution is; at "keep" it saves without an embedding
  told,           \* its answer
  applied,        \* history: how often a request was written
  backfill,       \* where the backfill is
  batch, last     \* its candidates, as read; its last_id

rowVars == <<content, updated, archived, embedding>>
requestVars == <<form, status, holder, expired, applied>>
runVars == <<at, told>>
fillVars == <<backfill, batch, last>>
vars == <<rowVars, requestVars, runVars, fillVars>>

-----------------------------------------------------------------------------
Candidate == [id : Ids, content : Contents, embedding : Contents \cup {"none", "legacy"}]

Init ==
  /\ \E c \in [Ids -> Contents \cup {"none"}] :
       /\ \A i \in Ids : c[i] # "none" <=> i <= Initial
       /\ content = c
       /\ embedding \in [Ids -> Contents \cup {"none", "legacy"}]
       /\ \A i \in Ids : embedding[i] \in {"none", c[i]} \cup (IF i <= Initial THEN {"legacy"} ELSE {})
  /\ updated = [i \in Ids |-> IF i <= Initial THEN 1 ELSE 0]
  /\ archived = [i \in Ids |-> FALSE]
  /\ form = [r \in Requests |-> 0]
  /\ status = [r \in Requests |-> "none"]
  /\ holder = [r \in Requests |-> NoRun]
  /\ expired = [r \in Requests |-> FALSE]
  /\ applied = [r \in Requests |-> 0]
  /\ at = [e \in Runs |-> "start"]
  /\ told = [e \in Runs |-> "none"]
  /\ backfill = "idle" /\ batch = <<>> /\ last = 0

Exists(i) == content[i] # "none"
NextId == Cardinality({i \in Ids : Exists(i)}) + 1
Settled(r) == status[r] \in {"succeeded", "failed"}

Goto(e, place) == at' = [at EXCEPT ![e] = place]

Answer(e, a) ==
  /\ Goto(e, "done")
  /\ told' = [told EXCEPT ![e] = a]

\* What the stored response of a settled request says.
Stored(r) == IF status[r] = "succeeded" THEN "saved" ELSE "refused"

\* The request fails: an approval stores that, an edit only answers.
Refuse(e) ==
  IF RequestOf[e] \in Approved
    THEN Goto(e, "fail") /\ UNCHANGED told
    ELSE Answer(e, "refused")

-----------------------------------------------------------------------------
(* The request and its execution right.                                    *)
\* The proposal or the form shows the campaign as it is now.
Load(r) ==
  /\ form[r] = 0 /\ TargetOf[r] # New
  /\ form' = [form EXCEPT ![r] = updated[TargetOf[r]]]
  /\ UNCHANGED <<rowVars, status, holder, expired, applied, runVars, fillVars>>

Saving == {"keep", "save"}
Ready(e) == at[e] = "start" /\ (TargetOf[RequestOf[e]] = New \/ form[RequestOf[e]] # 0)

\* An edit needs no execution right.
BeginEdit(e) ==
  /\ Ready(e) /\ RequestOf[e] \notin Approved
  /\ Goto(e, "read")
  /\ UNCHANGED <<rowVars, requestVars, told, fillVars>>

\* ApprovalExecutor.prepare: a new record, or an expired one taken over.
Claim(e) ==
  LET r == RequestOf[e] IN
  /\ Ready(e) /\ r \in Approved
  /\ status[r] = "none" \/ (status[r] = "processing" /\ expired[r])
  /\ status' = [status EXCEPT ![r] = "processing"]
  /\ holder' = [holder EXCEPT ![r] = e]
  /\ expired' = [expired EXCEPT ![r] = FALSE]
  /\ Goto(e, "read")
  /\ UNCHANGED <<rowVars, form, applied, told, fillVars>>

\* A settled request is answered again; one at work is in progress.
Replay(e) ==
  LET r == RequestOf[e] IN
  /\ Ready(e)
  /\ \/ Settled(r) /\ Answer(e, Stored(r))
     \/ status[r] = "processing" /\ ~expired[r] /\ Answer(e, "pending")
  /\ UNCHANGED <<rowVars, requestVars, fillVars>>

\* The lease has run out while an execution works, or hangs, or is dead.
Expire(r) ==
  /\ status[r] = "processing" /\ ~expired[r]
  /\ expired' = [expired EXCEPT ![r] = TRUE]
  /\ UNCHANGED <<rowVars, form, status, holder, applied, runVars, fillVars>>

-----------------------------------------------------------------------------
(* Validation, and the embedding.                                          *)
ReadCampaign(e) ==
  LET i == TargetOf[RequestOf[e]] IN
  /\ at[e] = "read"
  /\ \/ i = New /\ Goto(e, "save") /\ UNCHANGED told
     \/ /\ i # New /\ ~archived[i] /\ updated[i] = form[RequestOf[e]]
        /\ Goto(e, "hash") /\ UNCHANGED told
     \/ /\ i # New /\ (archived[i] \/ updated[i] # form[RequestOf[e]])
        /\ Refuse(e)
  /\ UNCHANGED <<rowVars, requestVars, fillVars>>

SameDigest(i, t) == embedding[i] = t

\* A second query reads the hash; without the same digest an embedding is made.
ReadHash(e) ==
  /\ at[e] = "hash"
  /\ IF SameDigest(TargetOf[RequestOf[e]], ContentOf[RequestOf[e]])
       THEN Goto(e, "keep") ELSE Goto(e, "save")
  /\ UNCHANGED <<rowVars, requestVars, told, fillVars>>

EmbeddingFails(e) ==
  /\ at[e] = "save"
  /\ Refuse(e)
  /\ UNCHANGED <<rowVars, requestVars, fillVars>>

-----------------------------------------------------------------------------
(* The transaction that saves.                                             *)
\* A bug: what was loaded is not compared with what is there.
UnchangedSinceNever(r) == TargetOf[r] # New => ~archived[TargetOf[r]]

\* There is nothing to overwrite, or update_if_unchanged finds the row.
UnchangedSince(r) ==
  LET i == TargetOf[r] IN i # New => ~archived[i] /\ updated[i] = form[r]

\* A bug: neither the token nor the status is looked at.
MayFinalizeAny(e) == TRUE

\* finalize finds the row; `now` may be older than the end of the lease.
MayFinalize(e) ==
  LET r == RequestOf[e] IN status[r] = "processing" /\ holder[r] = e

Place(r) == IF TargetOf[r] = New THEN NextId ELSE TargetOf[r]

Write(e) ==
  LET r == RequestOf[e]  i == Place(r) IN
  /\ content' = [content EXCEPT ![i] = ContentOf[r]]
  /\ updated' = [updated EXCEPT ![i] = @ + 1]
  /\ embedding' = IF at[e] = "keep" THEN embedding ELSE [embedding EXCEPT ![i] = ContentOf[r]]
  /\ applied' = [applied EXCEPT ![r] = @ + 1]

Savable(e) ==
  LET r == RequestOf[e] IN
  /\ UnchangedSince(r)
  /\ r \in Approved => MayFinalize(e)

\* An approval whose commit is not acknowledged goes on to store a failure,
\* an edit answers that it failed.
Save(e) ==
  LET r == RequestOf[e] IN
  /\ at[e] \in Saving /\ Savable(e) /\ Place(r) \in Ids
  /\ Write(e)
  /\ status' = IF r \in Approved THEN [status EXCEPT ![r] = "succeeded"] ELSE status
  /\ expired' = [expired EXCEPT ![r] = FALSE]
  /\ \/ Answer(e, "saved")
     \/ r \in Approved /\ Goto(e, "fail") /\ UNCHANGED told
     \/ r \notin Approved /\ Answer(e, "error")
  /\ UNCHANGED <<archived, form, holder, fillVars>>

\* The campaign has changed, or the database fails before the commit.
SaveFails(e) ==
  LET r == RequestOf[e] IN
  /\ at[e] \in Saving
  /\ \/ ~UnchangedSince(r) /\ Refuse(e)
     \/ r \in Approved /\ Goto(e, "fail") /\ UNCHANGED told
     \/ r \notin Approved /\ Answer(e, "error")
  /\ UNCHANGED <<rowVars, requestVars, fillVars>>

\* The lease is lost: to another execution, to its end, to an own commit.
LeaseLost(e) ==
  LET r == RequestOf[e] IN
  /\ at[e] \in Saving \cup {"fail"} /\ r \in Approved
  /\ ~MayFinalize(e) \/ expired[r]
  /\ Goto(e, "lost")
  /\ UNCHANGED <<rowVars, requestVars, told, fillVars>>

\* replay_after_lease_lost.
ReplayLost(e) ==
  LET r == RequestOf[e] IN
  /\ at[e] = "lost"
  /\ Answer(e, IF Settled(r) THEN Stored(r) ELSE "pending")
  /\ UNCHANGED <<rowVars, requestVars, fillVars>>

\* _fail: one transaction settles the request as failed.
Fail(e) ==
  LET r == RequestOf[e] IN
  /\ at[e] = "fail" /\ MayFinalize(e)
  /\ status' = [status EXCEPT ![r] = "failed"]
  /\ expired' = [expired EXCEPT ![r] = FALSE]
  /\ Answer(e, "refused") \/ Answer(e, "error")
  /\ UNCHANGED <<rowVars, form, holder, applied, fillVars>>

\* The execution dies, or an exception leaves it.
Die(e) ==
  /\ at[e] # "done"
  /\ Answer(e, "error")
  /\ UNCHANGED <<rowVars, requestVars, fillVars>>

Archive(i) ==
  /\ Exists(i) /\ ~archived[i]
  /\ archived' = [archived EXCEPT ![i] = TRUE]
  /\ UNCHANGED <<content, updated, embedding, requestVars, runVars, fillVars>>

-----------------------------------------------------------------------------
(* The backfill.                                                           *)
\* It starts again where an earlier run has ended, or before.
StartBackfill ==
  /\ backfill = "idle"
  /\ last' \in 0 .. last
  /\ backfill' = "list" /\ batch' = <<>>
  /\ UNCHANGED <<rowVars, requestVars, runVars>>

Row(i) == [id |-> i, content |-> content[i], embedding |-> embedding[i]]

\* One query reads the next campaigns in the order of their ids.
ListBatch ==
  LET rest == NextId - 1 - last
      size == IF rest < BatchSize THEN rest ELSE BatchSize
  IN
  /\ backfill = "list" /\ last < NextId - 1
  /\ batch' = [n \in 1 .. size |-> Row(last + n)]
  /\ backfill' = "look"
  /\ UNCHANGED <<rowVars, requestVars, runVars, last>>

\* The campaign at the head of the batch is done with.
Advance ==
  /\ last' = Head(batch).id
  /\ batch' = Tail(batch)
  /\ backfill' = IF Tail(batch) = <<>> THEN "list" ELSE "look"

SkipCurrent ==
  /\ backfill = "look" /\ Head(batch).embedding = Head(batch).content
  /\ Advance
  /\ UNCHANGED <<rowVars, requestVars, runVars>>

Embed ==
  /\ backfill = "look" /\ Head(batch).embedding # Head(batch).content
  /\ backfill' = "save"
  /\ UNCHANGED <<rowVars, requestVars, runVars, batch, last>>

\* A bug: the campaign is not read again before its embedding is written.
StillCurrentAny(c) == TRUE

StillCurrent(c) == content[c.id] = c.content

\* One transaction that holds the row compares and writes.
SaveIfCurrent ==
  /\ backfill = "save" /\ StillCurrent(Head(batch))
  /\ embedding' = [embedding EXCEPT ![Head(batch).id] = Head(batch).content]
  /\ Advance
  /\ UNCHANGED <<content, updated, archived, requestVars, runVars>>

\* A bug: last_id is that of the campaign that failed.
StopAfter ==
  /\ backfill # "idle" /\ backfill' = "idle" /\ batch' = <<>>
  /\ last' = IF batch = <<>> THEN last ELSE Head(batch).id
  /\ UNCHANGED <<rowVars, requestVars, runVars>>

\* A conflict, a failing embedding or commit, or --max-items stop it here.
StopBackfill ==
  /\ backfill # "idle" /\ backfill' = "idle" /\ batch' = <<>>
  /\ UNCHANGED <<rowVars, requestVars, runVars, last>>

Execute(e) ==
  \/ BeginEdit(e) \/ Claim(e) \/ Replay(e) \/ ReadCampaign(e) \/ ReadHash(e)
  \/ EmbeddingFails(e) \/ Save(e) \/ SaveFails(e) \/ LeaseLost(e)
  \/ ReplayLost(e) \/ Fail(e) \/ Die(e)

Backfill ==
  StartBackfill \/ ListBatch \/ SkipCurrent \/ Embed \/ SaveIfCurrent \/ StopBackfill

Next ==
  \/ \E e \in Runs : Execute(e)
  \/ \E r \in Requests : Load(r) \/ Expire(r)
  \/ \E i \in Ids : Archive(i)
  \/ Backfill

Spec == Init /\ [][Next]_vars

-----------------------------------------------------------------------------
(***************************************************************************)
(* Properties.                                                             *)
(***************************************************************************)
\* However edits, approvals and the backfill overlap, an embedding made by the
\* present projection is that of the campaign's present content.
EmbeddingFollowsContent ==
  \A i \in Ids : Exists(i) => embedding[i] \in {"none", "legacy", content[i]}

\* No update is lost: two requests that saw the same version are not both
\* written, and every write, by whomever, has moved its campaign on.
NoLostUpdate ==
  /\ \A r, s \in Requests :
       r # s /\ TargetOf[r] = TargetOf[s] /\ TargetOf[r] # New /\ applied[r] > 0
         /\ applied[s] > 0 => form[r] # form[s]
  /\ \A i \in 1 .. Initial :
       updated[i] = 1 + Cardinality({r \in Requests : TargetOf[r] = i /\ applied[r] > 0})

\* An approval is written once if it is settled as succeeded and never
\* otherwise, an edit at most once; and what an execution answers is so,
\* except that the edit whose commit is not acknowledged says it failed.
AppliedAsTold ==
  /\ \A r \in Approved : applied[r] = IF status[r] = "succeeded" THEN 1 ELSE 0
  /\ \A e \in Runs :
       /\ told[e] = "saved" => applied[RequestOf[e]] = 1
       /\ told[e] = "refused" => applied[RequestOf[e]] = 0

\* Up to its last_id the backfill has left no campaign without an embedding of
\* its present content, whatever was written meanwhile.
ScannedIsCurrent ==
  \A i \in Ids : i <= last /\ Exists(i) => embedding[i] = content[i]

-----------------------------------------------------------------------------
(***************************************************************************)
(* Refinement: leases, versions and embeddings implement the contract.     *)
(***************************************************************************)
\* An edit has no record: it is refused when its answer says so.
Decision(r) ==
  IF applied[r] > 0 THEN "saved"
  ELSE IF \/ status[r] = "failed"
          \/ r \notin Approved /\ \E e \in Runs : RequestOf[e] = r /\ told[e] = "refused"
       THEN "refused" ELSE "open"

decisions == [r \in Requests |-> Decision(r)]

Contract == INSTANCE CampaignContract WITH
  version <- updated, searched <- embedding, seen <- form, decision <- decisions

\* Every step of an execution or of the backfill is a step of the contract or changes
\* nothing it sees: the reads, the embedding and the write of a request are one
\* atomic compare-and-set, an embedding that is kept or filled in later included
\* (campaign_approval.py, campaign_service.py:224), and every answer is what is so
\* at one moment.
ImplementsCampaignContract == Contract!Spec
=============================================================================
