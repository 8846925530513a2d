------------------------- MODULE CampaignEditsProofs -------------------------
(***************************************************************************)
(* Proofs about CampaignEdits for any campaigns, requests, executions and  *)
(* batch sizes: embeddings follow their contents, no update is lost,       *)
(* answers are true, the backfill leaves nothing behind it, and all of it  *)
(* implements CampaignContract.                                            *)
(***************************************************************************)
EXTENDS CampaignEdits, FiniteSetTheorems, TLAPS

Embeddings == Contents \cup {"none", "legacy"}
Working == {"read", "hash", "keep", "save", "fail", "lost"}

RowTypes ==
  /\ content \in [Ids -> Contents \cup {"none"}]
  /\ updated \in [Ids -> Nat]
  /\ embedding \in [Ids -> Embeddings]

RequestTypes ==
  /\ form \in [Requests -> Nat]
  /\ status \in [Requests -> {"none", "processing", "succeeded", "failed"}]
  /\ holder \in [Requests -> Runs \cup {NoRun}]
  /\ applied \in [Requests -> Nat]

RunTypes ==
  /\ at \in [Runs -> {"start", "done"} \cup Working]
  /\ told \in [Runs -> {"none", "saved", "refused", "pending", "error"}]

FillTypes ==
  /\ backfill \in {"idle", "list", "look", "save"}
  /\ batch \in Seq(Candidate)
  /\ last \in Nat

Types == RowTypes /\ RequestTypes /\ RunTypes /\ FillTypes

\* The campaigns there are have the ids up to a number.
NumberInv == \E n \in Initial .. MaxCampaigns : \A i \in Ids : Exists(i) <=> i <= n

\* The version of a campaign counts the requests that were written to it.
CountInv ==
  \A i \in 1 .. Initial :
    updated[i] = 1 + Cardinality({r \in Requests : TargetOf[r] = i /\ applied[r] > 0})

\* A form shows a version there was, and once it is written an older one; only
\* an approval has a record, and what it was written it says.
FormInv(r) ==
  LET i == TargetOf[r] IN
  i # New => /\ form[r] <= updated[i]
             /\ applied[r] > 0 => 0 < form[r] /\ form[r] < updated[i]

RecordInv(r) ==
  IF r \in Approved THEN applied[r] = IF status[r] = "succeeded" THEN 1 ELSE 0
                    ELSE status[r] = "none"

OneOfAVersion ==
  \A r, s \in Requests :
    r # s /\ TargetOf[r] = TargetOf[s] /\ TargetOf[r] # New /\ applied[r] > 0
      /\ applied[s] > 0 => form[r] # form[s]

\* What an execution has told, and what an edit has not yet written.
ToldInv(e) ==
  LET r == RequestOf[e] IN
  /\ told[e] # "none" => at[e] = "done"
  /\ r \in Approved => /\ told[e] = "saved" => status[r] = "succeeded"
                       /\ told[e] = "refused" => status[r] = "failed"
  /\ r \notin Approved =>
       /\ at[e] \notin {"fail", "lost"}
       /\ at[e] # "done" => applied[r] = 0
       /\ told[e] = "saved" => applied[r] = 1
       /\ told[e] = "refused" => applied[r] = 0

\* An execution that overwrites a campaign had a form of it; if it keeps the
\* embedding it has found the one of its own content, which is still there
\* unless the campaign has moved on.
KeepInv(e) ==
  LET r == RequestOf[e]  i == TargetOf[r] IN
  /\ at[e] \in {"read", "hash", "keep"} /\ i # New => form[r] # 0
  /\ at[e] \in {"hash", "keep"} => i # New
  /\ at[e] = "keep" /\ updated[i] = form[r] =>
       content[i] = ContentOf[r] /\ embedding[i] = ContentOf[r]

\* The batch is what comes next; what was current when it was read still is.
FillInv ==
  /\ backfill \in {"look", "save"} => batch # <<>>
  /\ \A n \in 1 .. Len(batch) :
       /\ batch[n].id = last + n
       /\ batch[n].embedding = batch[n].content =>
            embedding[last + n] = content[last + n]

IInv ==
  /\ Types /\ NumberInv /\ CountInv /\ OneOfAVersion
  /\ \A r \in Requests : FormInv(r) /\ RecordInv(r)
  /\ \A e \in Runs : ToldInv(e) /\ KeepInv(e)
  /\ FillInv /\ EmbeddingFollowsContent /\ ScannedIsCurrent

-----------------------------------------------------------------------------
(* The constants.                                                          *)
LEMMA Targets ==
  ASSUME NEW r \in Requests
  PROVE  /\ TargetOf[r] \in Nat
         /\ TargetOf[r] # New => TargetOf[r] \in 1 .. Initial /\ TargetOf[r] \in Ids
         /\ ContentOf[r] \in Contents
         /\ ContentOf[r] # "none" /\ ContentOf[r] # "legacy"
BY RequestsAssumption, SizesAssumption DEF New, Ids

LEMMA Numbered ==
  ASSUME NEW n \in Initial .. MaxCampaigns, \A i \in Ids : Exists(i) <=> i <= n
  PROVE  NextId = n + 1
<1>1. n \in Nat /\ n <= MaxCampaigns /\ MaxCampaigns \in Nat
  BY SizesAssumption
<1>2. {i \in Ids : Exists(i)} = 1 .. n
  BY <1>1 DEF Ids
<1>3. Cardinality(1 .. n) = n
  BY <1>1, FS_Interval
<1>. QED
  BY <1>2, <1>3 DEF NextId

LEMMA Initially == Init => IInv
<1>. SUFFICES ASSUME Init PROVE IInv
  OBVIOUS
<1>1. Types
  BY RequestsAssumption, SizesAssumption
  DEF Init, Types, RowTypes, RequestTypes, RunTypes, FillTypes, Embeddings, Ids
<1>2. NumberInv
  BY SizesAssumption DEF Init, NumberInv, Exists, Ids
<1>3. CountInv
  <2>. SUFFICES ASSUME NEW i \in 1 .. Initial
                PROVE  updated[i] = 1 + Cardinality({r \in Requests : TargetOf[r] = i /\ applied[r] > 0})
    BY DEF CountInv
  <2>1. {r \in Requests : TargetOf[r] = i /\ applied[r] > 0} = {}
    BY DEF Init
  <2>2. updated[i] = 1
    BY SizesAssumption DEF Init, Ids
  <2>3. Cardinality({r \in Requests : TargetOf[r] = i /\ applied[r] > 0}) = 0
    BY <2>1, FS_EmptySet
  <2>. QED
    BY <2>2, <2>3
<1>4. OneOfAVersion
  BY DEF Init, OneOfAVersion
<1>5. \A r \in Requests : FormInv(r) /\ RecordInv(r)
  BY Targets DEF Init, FormInv, RecordInv
<1>6. \A e \in Runs : ToldInv(e) /\ KeepInv(e)
  BY RequestsAssumption DEF Init, ToldInv, KeepInv
<1>7. FillInv
  BY DEF Init, FillInv
<1>8. EmbeddingFollowsContent
  BY DEF Init, EmbeddingFollowsContent, Exists
<1>9. ScannedIsCurrent
  BY DEF Init, ScannedIsCurrent, Exists, Ids
<1>. QED
  BY <1>1, <1>2, <1>3, <1>4, <1>5, <1>6, <1>7, <1>8, <1>9 DEF IInv

-----------------------------------------------------------------------------
(* Types.                                                                  *)
LEMMA SaveTypes ==
  ASSUME Types, NEW e \in Runs, Save(e)
  PROVE  Types'
<1>. DEFINE r == RequestOf[e]
            i == Place(r)
<1>1. r \in Requests /\ i \in Ids
  BY RequestsAssumption DEF Save
<1>2. ContentOf[r] \in Contents
  BY <1>1, Targets
<1>3. RowTypes'
  <2>1. content' = [content EXCEPT ![i] = ContentOf[r]] /\ updated' = [updated EXCEPT ![i] = @ + 1]
    BY DEF Save, Write
  <2>2. embedding' = embedding \/ embedding' = [embedding EXCEPT ![i] = ContentOf[r]]
    BY DEF Save, Write
  <2>3. embedding' \in [Ids -> Embeddings]
    BY <1>1, <1>2, <2>2 DEF Types, RowTypes, Embeddings
  <2>4. content' \in [Ids -> Contents \cup {"none"}]
    BY <1>1, <1>2, <2>1 DEF Types, RowTypes
  <2>5. updated' \in [Ids -> Nat]
    BY <1>1, <2>1 DEF Types, RowTypes
  <2>. QED
    BY <2>3, <2>4, <2>5 DEF RowTypes
<1>4. RequestTypes'
  <2>1. applied' = [applied EXCEPT ![r] = @ + 1] /\ UNCHANGED <<form, holder>>
    BY DEF Save, Write
  <2>2. status' = status \/ status' = [status EXCEPT ![r] = "succeeded"]
    BY DEF Save
  <2>. QED
    BY <1>1, <2>1, <2>2 DEF Types, RequestTypes
<1>5. RunTypes'
  <2>1. \/ at' = [at EXCEPT ![e] = "fail"] /\ told' = told
        \/ at' = [at EXCEPT ![e] = "done"] /\ told' = [told EXCEPT ![e] = "saved"]
        \/ at' = [at EXCEPT ![e] = "done"] /\ told' = [told EXCEPT ![e] = "error"]
    BY DEF Save, Answer, Goto
  <2>. QED
    BY <2>1 DEF Types, RunTypes, Working
<1>6. FillTypes'
  BY DEF Save, Types, FillTypes, fillVars
<1>. QED
  BY <1>3, <1>4, <1>5, <1>6 DEF Types

\* What an execution does besides saving moves itself and its record.
Moves(e) ==
  \/ BeginEdit(e) \/ Claim(e) \/ Replay(e) \/ ReadCampaign(e) \/ ReadHash(e)
  \/ EmbeddingFails(e) \/ SaveFails(e) \/ LeaseLost(e)
  \/ ReplayLost(e) \/ Fail(e) \/ Die(e)

LEMMA MoveTypes ==
  ASSUME Types, NEW e \in Runs, Moves(e)
  PROVE  /\ Types'
         /\ UNCHANGED <<content, updated, embedding, form, applied, fillVars>>
<1>. DEFINE r == RequestOf[e]
<1>1. r \in Requests
  BY RequestsAssumption
<1>2. UNCHANGED <<content, updated, embedding, form, applied, fillVars>>
  BY DEF Moves, BeginEdit, Claim, Replay, ReadCampaign, ReadHash, EmbeddingFails, SaveFails,
         LeaseLost, ReplayLost, Fail, Die, rowVars, requestVars
<1>3. RequestTypes'
  <2>1. \/ UNCHANGED <<status, holder>>
        \/ status' = [status EXCEPT ![r] = "processing"] /\ holder' = [holder EXCEPT ![r] = e]
        \/ status' = [status EXCEPT ![r] = "failed"] /\ UNCHANGED holder
    BY DEF Moves, BeginEdit, Claim, Replay, ReadCampaign, ReadHash, EmbeddingFails, SaveFails,
           LeaseLost, ReplayLost, Fail, Die, requestVars
  <2>. QED
    BY <1>1, <1>2, <2>1 DEF Types, RequestTypes
<1>4. RunTypes'
  <2>1. \/ /\ \E place \in Working : at' = [at EXCEPT ![e] = place]
           /\ UNCHANGED told
        \/ /\ at' = [at EXCEPT ![e] = "done"]
           /\ \E a \in {"saved", "refused", "pending", "error"} : told' = [told EXCEPT ![e] = a]
    BY DEF Moves, BeginEdit, Claim, Replay, ReadCampaign, ReadHash, EmbeddingFails, SaveFails,
           LeaseLost, ReplayLost, Fail, Die, Refuse, Answer, Goto, Stored, Working
  <2>. QED
    BY <2>1 DEF Types, RunTypes, Working
<1>5. RowTypes' /\ FillTypes'
  BY <1>2 DEF Types, RowTypes, FillTypes, fillVars
<1>. QED
  BY <1>2, <1>3, <1>4, <1>5 DEF Types

LEMMA LoadTypes ==
  ASSUME Types, NEW r \in Requests, Load(r)
  PROVE  /\ Types'
         /\ form[r] = 0 /\ TargetOf[r] # New
         /\ form' = [form EXCEPT ![r] = updated[TargetOf[r]]]
         /\ UNCHANGED <<content, updated, embedding, status, applied, runVars, fillVars>>
<1>1. /\ form[r] = 0 /\ TargetOf[r] # New
      /\ form' = [form EXCEPT ![r] = updated[TargetOf[r]]]
      /\ UNCHANGED <<content, updated, embedding, status, holder, applied, runVars, fillVars>>
  BY DEF Load, rowVars
<1>2. updated[TargetOf[r]] \in Nat
  BY <1>1, Targets DEF Types, RowTypes
<1>. QED
  BY <1>1, <1>2 DEF Types, RowTypes, RequestTypes, RunTypes, FillTypes, runVars, fillVars

\* Leases run out and campaigns are archived.
LEMMA QuietTypes ==
  ASSUME Types, (\E r \in Requests : Expire(r)) \/ (\E i \in Ids : Archive(i))
  PROVE  /\ Types'
         /\ UNCHANGED <<content, updated, embedding, form, status, applied, runVars, fillVars>>
BY DEF Expire, Archive, rowVars, requestVars, Types, RowTypes, RequestTypes, RunTypes, FillTypes,
       runVars, fillVars

LEMMA BackfillTypes ==
  ASSUME Types, NumberInv, FillInv, Backfill
  PROVE  /\ Types'
         /\ UNCHANGED <<content, updated, form, status, applied, runVars>>
<1>. USE DEF Types, FillTypes
<1>0. UNCHANGED <<content, updated, form, status, holder, applied, runVars>>
  BY DEF Backfill, StartBackfill, ListBatch, SkipCurrent, Embed, SaveIfCurrent, StopBackfill,
         rowVars, requestVars
<1>1. RequestTypes' /\ RunTypes'
  BY <1>0 DEF RequestTypes, RunTypes, runVars
<1>2. CASE StartBackfill
  BY <1>0, <1>1, <1>2 DEF StartBackfill, rowVars, RowTypes
<1>3. CASE ListBatch
  <2>. PICK n \in Initial .. MaxCampaigns : \A i \in Ids : Exists(i) <=> i <= n
    BY DEF NumberInv
  <2>1. n \in Nat /\ n <= MaxCampaigns /\ MaxCampaigns \in Nat
    BY SizesAssumption
  <2>2. NextId = n + 1
    BY Numbered
  <2>. DEFINE rest == NextId - 1 - last
              size == IF rest < BatchSize THEN rest ELSE BatchSize
  <2>3. size \in Nat /\ last + size <= n
    BY <1>3, <2>1, <2>2, SizesAssumption DEF ListBatch
  <2>4. \A m \in 1 .. size : Row(last + m) \in Candidate
    <3>. SUFFICES ASSUME NEW m \in 1 .. size PROVE Row(last + m) \in Candidate
      OBVIOUS
    <3>1. last + m \in Ids /\ last + m <= n
      BY <2>1, <2>3 DEF Ids
    <3>2. content[last + m] \in Contents
      BY <3>1 DEF RowTypes, Exists
    <3>3. embedding[last + m] \in Contents \cup {"none", "legacy"}
      BY <3>1 DEF RowTypes, Embeddings
    <3>. QED
      BY <3>1, <3>2, <3>3 DEF Row, Candidate
  <2>5. batch' = [m \in 1 .. size |-> Row(last + m)]
    BY <1>3 DEF ListBatch
  <2>6. batch' \in Seq(Candidate)
    BY <2>3, <2>4, <2>5
  <2>. QED
    BY <1>0, <1>1, <1>3, <2>6 DEF ListBatch, rowVars, RowTypes
<1>4. ASSUME backfill \in {"look", "save"}
      PROVE  /\ batch # <<>>
             /\ Head(batch) \in Candidate
             /\ Tail(batch) \in Seq(Candidate)
  BY <1>4 DEF FillInv
<1>5. CASE SkipCurrent
  <2>1. Head(batch) \in Candidate /\ Tail(batch) \in Seq(Candidate)
    BY <1>4, <1>5 DEF SkipCurrent
  <2>2. FillTypes'
    BY <1>5, <2>1 DEF SkipCurrent, Advance, Candidate, Ids
  <2>. QED
    BY <1>0, <1>1, <1>5, <2>2 DEF SkipCurrent, rowVars, RowTypes
<1>6. CASE Embed
  BY <1>0, <1>1, <1>6 DEF Embed, rowVars, RowTypes
<1>7. CASE SaveIfCurrent
  <2>1. Head(batch) \in Candidate /\ Tail(batch) \in Seq(Candidate)
    BY <1>4, <1>7 DEF SaveIfCurrent
  <2>2. embedding' = [embedding EXCEPT ![Head(batch).id] = Head(batch).content]
    BY <1>7 DEF SaveIfCurrent
  <2>3. embedding' \in [Ids -> Embeddings]
    BY <2>1, <2>2 DEF Candidate, RowTypes, Embeddings
  <2>4. FillTypes'
    BY <1>7, <2>1 DEF SaveIfCurrent, Advance, Candidate, Ids
  <2>. QED
    BY <1>0, <1>1, <2>3, <2>4 DEF RowTypes
<1>8. CASE StopBackfill
  BY <1>0, <1>1, <1>8 DEF StopBackfill, rowVars, RowTypes
<1>. QED
  BY <1>0, <1>2, <1>3, <1>5, <1>6, <1>7, <1>8 DEF Backfill

-----------------------------------------------------------------------------
(* A write.                                                                *)
\* What a write does: to the campaign at its place, for the first time.
Writes(e) ==
  LET r == RequestOf[e]  i == Place(r) IN
  /\ content' = [content EXCEPT ![i] = ContentOf[r]]
  /\ updated' = [updated EXCEPT ![i] = @ + 1]
  /\ embedding' = [embedding EXCEPT ![i] = ContentOf[r]]
  /\ applied' = [applied EXCEPT ![r] = 1]
  /\ UNCHANGED <<form, fillVars>>

LEMMA WriteFacts ==
  ASSUME IInv, NEW e \in Runs, Save(e),
         NEW r, r = RequestOf[e], NEW i, i = Place(r)
  PROVE  /\ r \in Requests /\ i \in Ids
         /\ Writes(e)
         /\ applied[r] = 0
         /\ TargetOf[r] # New => i = TargetOf[r] /\ i \in 1 .. Initial /\ updated[i] = form[r]
         /\ TargetOf[r] = New => i > Initial /\ ~Exists(i) /\ NextId = i
         /\ IF r \in Approved
              THEN status[r] = "processing" /\ status' = [status EXCEPT ![r] = "succeeded"]
              ELSE status' = status
<1>1. r \in Requests /\ i \in Ids
  BY RequestsAssumption DEF Save
<1>2. TargetOf[r] # New => i = TargetOf[r] /\ i \in 1 .. Initial /\ updated[i] = form[r]
  BY <1>1, Targets DEF Save, Savable, UnchangedSince, Place
<1>3. TargetOf[r] = New => i > Initial /\ ~Exists(i) /\ NextId = i
  <2>. SUFFICES ASSUME TargetOf[r] = New PROVE i > Initial /\ ~Exists(i) /\ NextId = i
    OBVIOUS
  <2>. PICK n \in Initial .. MaxCampaigns : \A j \in Ids : Exists(j) <=> j <= n
    BY DEF IInv, NumberInv
  <2>1. NextId = n + 1
    BY Numbered
  <2>2. i = n + 1
    BY <2>1 DEF Place
  <2>. QED
    BY <1>1, <2>1, <2>2, SizesAssumption DEF Ids
<1>4. IF r \in Approved
        THEN status[r] = "processing" /\ status' = [status EXCEPT ![r] = "succeeded"]
        ELSE status' = status
  BY DEF Save, Savable, MayFinalize
<1>5. applied[r] = 0
  <2>1. CASE r \in Approved
    BY <1>1, <1>4, <2>1 DEF IInv, RecordInv
  <2>2. CASE r \notin Approved
    <3>1. ToldInv(e)
      BY DEF IInv
    <3>2. at[e] # "done"
      BY DEF Save, Saving
    <3>. QED
      BY <2>2, <3>1, <3>2 DEF ToldInv
  <2>. QED
    BY <2>1, <2>2
<1>6. embedding' = [embedding EXCEPT ![i] = ContentOf[r]]
  <2>1. CASE at[e] = "keep"
    <3>1. KeepInv(e)
      BY DEF IInv
    <3>2. TargetOf[r] # New
      BY <2>1, <3>1 DEF KeepInv
    <3>3. embedding[i] = ContentOf[r]
      BY <1>2, <2>1, <3>1, <3>2 DEF KeepInv
    <3>4. embedding' = embedding
      BY <2>1 DEF Save, Write
    <3>. QED
      BY <1>1, <3>3, <3>4 DEF IInv, Types, RowTypes
  <2>2. CASE at[e] # "keep"
    BY <2>2 DEF Save, Write
  <2>. QED
    BY <2>1, <2>2
<1>7. applied' = [applied EXCEPT ![r] = 1]
  BY <1>5, <1>1 DEF Save, Write, IInv, Types, RequestTypes
<1>8. Writes(e)
  BY <1>6, <1>7 DEF Writes, Save, Write
<1>. QED
  BY <1>1, <1>2, <1>3, <1>4, <1>5, <1>8

LEMMA SaveNumber ==
  ASSUME IInv, NEW e \in Runs, Save(e)
  PROVE  NumberInv'
<1>. DEFINE r == RequestOf[e]
            i == Place(r)
<1>0. r \in Requests /\ i \in Ids /\ Writes(e)
  BY WriteFacts
<1>1. ContentOf[r] # "none"
  BY <1>0, Targets
<1>2. \A j \in Ids : Exists(j)' <=> Exists(j) \/ j = i
  BY <1>0, <1>1 DEF Writes, Exists, IInv, Types, RowTypes
<1>3. CASE TargetOf[r] # New
  <2>. PICK n \in Initial .. MaxCampaigns : \A j \in Ids : Exists(j) <=> j <= n
    BY DEF IInv, NumberInv
  <2>1. i \in 1 .. Initial
    BY <1>3, WriteFacts
  <2>2. i <= n
    BY <2>1, SizesAssumption
  <2>. QED
    BY <1>2, <2>2 DEF NumberInv
<1>4. CASE TargetOf[r] = New
  <2>. PICK n \in Initial .. MaxCampaigns : \A j \in Ids : Exists(j) <=> j <= n
    BY DEF IInv, NumberInv
  <2>1. NextId = n + 1 /\ NextId = i
    BY <1>4, Numbered, WriteFacts
  <2>2. i \in Initial .. MaxCampaigns /\ i = n + 1
    BY <1>0, <2>1, SizesAssumption DEF Ids
  <2>3. \A j \in Ids : Exists(j)' <=> j <= i
    BY <1>2, <2>2, SizesAssumption DEF Ids
  <2>. QED
    BY <2>2, <2>3 DEF NumberInv
<1>. QED
  BY <1>3, <1>4

LEMMA SaveCount ==
  ASSUME IInv, NEW e \in Runs, Save(e)
  PROVE  CountInv'
<1>. DEFINE r == RequestOf[e]
            i == Place(r)
            Written(j) == {s \in Requests : TargetOf[s] = j /\ applied[s] > 0}
<1>0. r \in Requests /\ i \in Ids /\ Writes(e) /\ applied[r] = 0
  BY WriteFacts
<1>1. \A s \in Requests : applied'[s] > 0 <=> applied[s] > 0 \/ s = r
  BY <1>0 DEF Writes, IInv, Types, RequestTypes
<1>. SUFFICES ASSUME NEW j \in 1 .. Initial
              PROVE  updated'[j] = 1 + Cardinality({s \in Requests : TargetOf[s] = j /\ applied'[s] > 0})
  BY DEF CountInv
<1>2. j \in Ids /\ j # New
  BY SizesAssumption DEF Ids, New
<1>3. IsFiniteSet(Written(j))
  BY RequestsAssumption, FS_Subset
<1>4. updated[j] = 1 + Cardinality(Written(j))
  BY DEF IInv, CountInv
<1>5. CASE TargetOf[r] = j
  <2>1. i = j
    BY <1>2, <1>5, WriteFacts
  <2>2. updated'[j] = updated[j] + 1
    BY <1>0, <1>2, <2>1 DEF Writes, IInv, Types, RowTypes
  <2>3. {s \in Requests : TargetOf[s] = j /\ applied'[s] > 0} = Written(j) \cup {r}
    BY <1>0, <1>1, <1>5
  <2>4. r \notin Written(j)
    BY <1>0
  <2>5. Cardinality(Written(j) \cup {r}) = Cardinality(Written(j)) + 1
    BY <1>3, <2>4, FS_AddElement
  <2>6. Cardinality(Written(j)) \in Nat
    BY <1>3, FS_CardinalityType
  <2>7. Cardinality({s \in Requests : TargetOf[s] = j /\ applied'[s] > 0}) = Cardinality(Written(j)) + 1
    BY <2>3, <2>5
  <2>. HIDE DEF Written
  <2>. QED
    BY <1>4, <2>2, <2>6, <2>7
<1>6. CASE TargetOf[r] # j
  <2>1. i # j
    BY <1>2, <1>6, WriteFacts, SizesAssumption
  <2>2. updated'[j] = updated[j]
    BY <1>0, <1>2, <2>1 DEF Writes, IInv, Types, RowTypes
  <2>3. {s \in Requests : TargetOf[s] = j /\ applied'[s] > 0} = Written(j)
    BY <1>1, <1>6
  <2>. QED
    BY <1>4, <2>2, <2>3
<1>. QED
  BY <1>5, <1>6

LEMMA SaveRequests ==
  ASSUME IInv, NEW e \in Runs, Save(e)
  PROVE  /\ OneOfAVersion'
         /\ \A r \in Requests : FormInv(r)' /\ RecordInv(r)'
<1>. DEFINE r == RequestOf[e]
            i == Place(r)
<1>0. r \in Requests /\ i \in Ids /\ Writes(e) /\ applied[r] = 0
  BY WriteFacts
<1>1. TargetOf[r] # New => i = TargetOf[r] /\ i \in 1 .. Initial /\ updated[i] = form[r]
  BY WriteFacts
<1>2. TargetOf[r] = New => i > Initial
  BY WriteFacts
<1>3. \A s \in Requests : applied'[s] > 0 <=> applied[s] > 0 \/ s = r
  BY <1>0 DEF Writes, IInv, Types, RequestTypes
<1>4. form' = form
  BY <1>0 DEF Writes
<1>5. \A j \in Ids : updated'[j] = IF j = i THEN updated[j] + 1 ELSE updated[j]
  BY <1>0 DEF Writes, IInv, Types, RowTypes
<1>6. OneOfAVersion'
  <2>. SUFFICES ASSUME NEW s \in Requests, s # r, TargetOf[s] = TargetOf[r], TargetOf[r] # New,
                       applied[s] > 0
                PROVE  form[s] # form[r]
    BY <1>3, <1>4 DEF OneOfAVersion, IInv
  <2>1. form[s] < updated[TargetOf[s]] /\ form[s] \in Nat
    BY DEF IInv, FormInv, Types, RequestTypes
  <2>2. updated[TargetOf[s]] = form[r]
    BY <1>1
  <2>. QED
    BY <2>1, <2>2
<1>7. ASSUME NEW s \in Requests PROVE FormInv(s)'
  <2>. DEFINE j == TargetOf[s]
  <2>. SUFFICES ASSUME j # New
                PROVE  /\ form[s] <= updated'[j]
                       /\ applied'[s] > 0 => 0 < form[s] /\ form[s] < updated'[j]
    BY <1>4 DEF FormInv
  <2>0. j \in Ids /\ j \in 1 .. Initial
    BY Targets
  <2>1. form[s] \in Nat /\ updated[j] \in Nat /\ form[s] <= updated[j]
    BY <2>0 DEF IInv, Types, RowTypes, RequestTypes, FormInv
  <2>2. applied[s] > 0 => 0 < form[s] /\ form[s] < updated[j]
    BY DEF IInv, FormInv
  <2>3. CASE s = r
    <3>1. i = j /\ updated[j] = form[s] /\ updated'[j] = updated[j] + 1
      BY <1>1, <1>5, <2>0, <2>3
    <3>2. updated[j] = 1 + Cardinality({t \in Requests : TargetOf[t] = j /\ applied[t] > 0})
      BY <2>0 DEF IInv, CountInv
    <3>3. Cardinality({t \in Requests : TargetOf[t] = j /\ applied[t] > 0}) \in Nat
      BY RequestsAssumption, FS_Subset, FS_CardinalityType
    <3>4. updated[j] > 0
      BY <3>2, <3>3
    <3>. QED
      BY <2>1, <3>1, <3>4
  <2>4. CASE s # r
    <3>1. applied'[s] > 0 <=> applied[s] > 0
      BY <1>3, <2>4
    <3>2. updated'[j] = updated[j] \/ updated'[j] = updated[j] + 1
      BY <1>5, <2>0
    <3>. QED
      BY <2>1, <2>2, <3>1, <3>2
  <2>. QED
    BY <2>3, <2>4
<1>8. ASSUME NEW s \in Requests PROVE RecordInv(s)'
  <2>1. RecordInv(s)
    BY DEF IInv
  <2>2. applied' = [applied EXCEPT ![r] = 1]
    BY <1>0 DEF Writes
  <2>3. IF r \in Approved
          THEN status[r] = "processing" /\ status' = [status EXCEPT ![r] = "succeeded"]
          ELSE status' = status
    BY WriteFacts
  <2>. QED
    BY <1>0, <2>1, <2>2, <2>3 DEF RecordInv, IInv, Types, RequestTypes
<1>. QED
  BY <1>6, <1>7, <1>8

LEMMA SaveRuns ==
  ASSUME IInv, NEW e \in Runs, Save(e), NEW f \in Runs
  PROVE  ToldInv(f)' /\ KeepInv(f)'
<1>. DEFINE r == RequestOf[e]
            i == Place(r)
            s == RequestOf[f]
            j == TargetOf[s]
<1>0. r \in Requests /\ i \in Ids /\ Writes(e) /\ applied[r] = 0 /\ s \in Requests
  BY WriteFacts, RequestsAssumption
<1>1. ToldInv(f) /\ KeepInv(f) /\ ToldInv(e)
  BY DEF IInv
<1>2. IF r \in Approved
        THEN status[r] = "processing" /\ status' = [status EXCEPT ![r] = "succeeded"]
        ELSE status' = status
  BY WriteFacts
<1>3. applied' = [applied EXCEPT ![r] = 1]
  BY <1>0 DEF Writes
<1>4. \/ at' = [at EXCEPT ![e] = "done"] /\ told' = [told EXCEPT ![e] = "saved"]
      \/ r \in Approved /\ at' = [at EXCEPT ![e] = "fail"] /\ told' = told
      \/ r \notin Approved /\ at' = [at EXCEPT ![e] = "done"] /\ told' = [told EXCEPT ![e] = "error"]
  BY DEF Save, Answer, Goto
<1>5. at[e] # "done" /\ told[e] = "none"
  BY <1>1 DEF Save, Saving, ToldInv
<1>6. ToldInv(f)'
  <2>1. CASE f = e
    <3>1. \/ at'[e] = "done" /\ told'[e] = "saved"
          \/ r \in Approved /\ at'[e] = "fail" /\ told'[e] = "none"
          \/ r \notin Approved /\ at'[e] = "done" /\ told'[e] = "error"
      BY <1>4, <1>5 DEF IInv, Types, RunTypes
    <3>2. applied'[r] = 1 /\ (r \in Approved => status'[r] = "succeeded")
      BY <1>0, <1>2, <1>3 DEF IInv, Types, RequestTypes
    <3>. QED
      BY <2>1, <3>1, <3>2 DEF ToldInv
  <2>2. CASE f # e
    <3>1. at'[f] = at[f] /\ told'[f] = told[f]
      BY <1>4, <2>2 DEF IInv, Types, RunTypes
    <3>2. CASE s # r
      BY <1>0, <1>1, <1>2, <1>3, <3>1, <3>2 DEF ToldInv, IInv, Types, RequestTypes
    <3>3. CASE s = r
      <4>1. r \in Approved
        BY <1>0, <2>2, <3>3, RequestsAssumption
      <4>2. status[r] = "processing" /\ status'[r] = "succeeded"
        BY <1>0, <1>2, <4>1 DEF IInv, Types, RequestTypes
      <4>. QED
        BY <1>1, <3>1, <3>3, <4>1, <4>2 DEF ToldInv
    <3>. QED
      BY <3>2, <3>3
  <2>. QED
    BY <2>1, <2>2
<1>7. KeepInv(f)'
  <2>1. at'[f] \in {"read", "hash", "keep"} => at'[f] = at[f]
    BY <1>4 DEF IInv, Types, RunTypes
  <2>2. j # New => j \in Ids /\ j \in 1 .. Initial
    BY <1>0, Targets
  <2>3. TargetOf[r] = New => i > Initial
    BY WriteFacts
  <2>4. ASSUME at[f] = "keep", updated'[j] = form[s]
        PROVE  content'[j] = ContentOf[s] /\ embedding'[j] = ContentOf[s]
    <3>1. j \in Ids
      BY <1>1, <2>2, <2>4 DEF KeepInv
    <3>2. form[s] <= updated[j] /\ form[s] \in Nat /\ updated[j] \in Nat
      BY <1>0, <1>1, <2>4, <3>1 DEF KeepInv, IInv, FormInv, Types, RowTypes, RequestTypes
    <3>3. j # i
      BY <1>0, <2>4, <3>1, <3>2 DEF Writes, IInv, Types, RowTypes
    <3>4. updated'[j] = updated[j] /\ content'[j] = content[j] /\ embedding'[j] = embedding[j]
      BY <1>0, <3>1, <3>3 DEF Writes, IInv, Types, RowTypes
    <3>. QED
      BY <1>1, <2>4, <3>4 DEF KeepInv
  <2>5. form' = form
    BY <1>0 DEF Writes
  <2>. QED
    BY <1>1, <2>1, <2>4, <2>5 DEF KeepInv
<1>. QED
  BY <1>6, <1>7

LEMMA SaveEmbeddings ==
  ASSUME IInv, NEW e \in Runs, Save(e)
  PROVE  FillInv' /\ EmbeddingFollowsContent' /\ ScannedIsCurrent'
<1>. DEFINE r == RequestOf[e]
            i == Place(r)
<1>0. r \in Requests /\ i \in Ids /\ Writes(e)
  BY WriteFacts
<1>1. \A j \in Ids : /\ content'[j] = IF j = i THEN ContentOf[r] ELSE content[j]
                     /\ embedding'[j] = IF j = i THEN ContentOf[r] ELSE embedding[j]
  BY <1>0 DEF Writes, IInv, Types, RowTypes
<1>2. UNCHANGED <<backfill, batch, last>>
  BY <1>0 DEF Writes, fillVars
<1>3. FillInv'
  <2>. SUFFICES ASSUME NEW n \in 1 .. Len(batch), batch[n].embedding = batch[n].content
                PROVE  embedding'[last + n] = content'[last + n]
    BY <1>2 DEF FillInv, IInv
  <2>1. batch[n] \in Candidate
    BY DEF IInv, Types, FillTypes
  <2>2. last + n \in Ids
    BY <2>1 DEF IInv, FillInv, Candidate
  <2>3. embedding[last + n] = content[last + n]
    BY DEF IInv, FillInv
  <2>. QED
    BY <1>1, <2>2, <2>3
<1>4. EmbeddingFollowsContent'
  BY <1>1 DEF EmbeddingFollowsContent, Exists, IInv
<1>5. ScannedIsCurrent'
  BY <1>1, <1>2 DEF ScannedIsCurrent, Exists, IInv
<1>. QED
  BY <1>3, <1>4, <1>5

-----------------------------------------------------------------------------
(* The other steps of an execution.                                        *)
\* How a step leaves the records: one that is open is claimed or fails.
LEMMA MoveRecords ==
  ASSUME IInv, NEW e \in Runs, Moves(e), NEW r \in Requests
  PROVE  /\ RecordInv(r)'
         /\ status[r] \in {"succeeded", "failed"} => status'[r] = status[r]
<1>. DEFINE s == RequestOf[e]
<1>0. s \in Requests /\ applied' = applied
  BY RequestsAssumption, MoveTypes DEF IInv
<1>1. RecordInv(r) /\ RecordInv(s)
  BY <1>0 DEF IInv
<1>2. \/ status' = status
      \/ /\ s \in Approved /\ status[s] \in {"none", "processing"}
         /\ status' = [status EXCEPT ![s] = "processing"]
      \/ /\ status[s] = "processing"
         /\ status' = [status EXCEPT ![s] = "failed"]
  BY DEF Moves, BeginEdit, Claim, Replay, ReadCampaign, ReadHash, EmbeddingFails, SaveFails,
         LeaseLost, ReplayLost, Fail, Die, requestVars, MayFinalize
<1>3. status[s] = "processing" => s \in Approved
  BY <1>1 DEF RecordInv
<1>. QED
  BY <1>0, <1>1, <1>2, <1>3 DEF RecordInv, IInv, Types, RequestTypes

\* What an execution may say of its request, given the record.
Says(e, a) ==
  LET r == RequestOf[e] IN
  /\ r \in Approved => /\ a = "saved" => status'[r] = "succeeded"
                       /\ a = "refused" => status'[r] = "failed"
  /\ r \notin Approved => /\ a # "saved"
                          /\ a = "refused" => at[e] # "done"

LEMMA MoveSays ==
  ASSUME IInv, NEW e \in Runs, Moves(e)
  PROVE  /\ at[e] # "done"
         /\ \/ /\ \E place \in Working :
                    /\ at' = [at EXCEPT ![e] = place]
                    /\ place \in {"fail", "lost"} => RequestOf[e] \in Approved
               /\ UNCHANGED told
            \/ /\ at' = [at EXCEPT ![e] = "done"]
               /\ \E a \in {"saved", "refused", "pending", "error"} :
                    told' = [told EXCEPT ![e] = a] /\ Says(e, a)
<1>. DEFINE r == RequestOf[e]
<1>0. r \in Requests /\ RecordInv(r) /\ ToldInv(e)
  BY RequestsAssumption DEF IInv
<1>1. at[e] # "done"
  BY DEF Moves, BeginEdit, Claim, Replay, ReadCampaign, ReadHash, EmbeddingFails, SaveFails,
         LeaseLost, ReplayLost, Fail, Die, Ready, Saving
<1>2. status[r] # "none" => r \in Approved
  BY <1>0 DEF RecordInv
<1>3. CASE BeginEdit(e) \/ ReadHash(e)
  BY <1>1, <1>3 DEF BeginEdit, ReadHash, Goto, Working
<1>4. CASE Claim(e)
  BY <1>1, <1>4 DEF Claim, Goto, Working
<1>5. ASSUME UNCHANGED status, Settled(r), Answer(e, Stored(r))
      PROVE  /\ at' = [at EXCEPT ![e] = "done"]
             /\ \E a \in {"saved", "refused", "pending", "error"} :
                  told' = [told EXCEPT ![e] = a] /\ Says(e, a)
  BY <1>1, <1>2, <1>5 DEF Answer, Goto, Stored, Settled, Says
<1>6. CASE Replay(e)
  <2>1. CASE Settled(r) /\ Answer(e, Stored(r))
    BY <1>1, <1>5, <1>6, <2>1 DEF Replay, requestVars
  <2>2. CASE Answer(e, "pending")
    BY <1>1, <2>2 DEF Answer, Goto, Says
  <2>. QED
    BY <1>6, <2>1, <2>2 DEF Replay
<1>7. ASSUME Refuse(e)
      PROVE  \/ r \in Approved /\ at' = [at EXCEPT ![e] = "fail"] /\ UNCHANGED told
             \/ /\ at' = [at EXCEPT ![e] = "done"]
                /\ told' = [told EXCEPT ![e] = "refused"] /\ Says(e, "refused")
  BY <1>1, <1>7 DEF Refuse, Answer, Goto, Says
<1>8. CASE ReadCampaign(e)
  BY <1>1, <1>7, <1>8 DEF ReadCampaign, Goto, Working
<1>9. CASE EmbeddingFails(e)
  BY <1>1, <1>7, <1>9 DEF EmbeddingFails, Working
<1>10. CASE SaveFails(e)
  BY <1>1, <1>7, <1>10 DEF SaveFails, Working, Answer, Goto, Says
<1>11. CASE LeaseLost(e)
  BY <1>1, <1>11 DEF LeaseLost, Goto, Working
<1>12. CASE ReplayLost(e)
  <2>1. CASE Settled(r)
    BY <1>1, <1>5, <1>12, <2>1 DEF ReplayLost, requestVars
  <2>2. CASE ~Settled(r)
    BY <1>1, <1>12, <2>2 DEF ReplayLost, Answer, Goto, Says
  <2>. QED
    BY <2>1, <2>2
<1>13. CASE Fail(e)
  <2>1. r \in Approved
    BY <1>2, <1>13 DEF Fail, MayFinalize
  <2>2. status'[r] = "failed"
    BY <1>0, <1>13 DEF Fail, IInv, Types, RequestTypes
  <2>. QED
    BY <1>1, <1>13, <2>1, <2>2 DEF Fail, Answer, Goto, Says
<1>14. CASE Die(e)
  BY <1>1, <1>14 DEF Die, Answer, Goto, Says
<1>. QED
  BY <1>3, <1>4, <1>6, <1>8, <1>9, <1>10, <1>11, <1>12, <1>13, <1>14 DEF Moves

LEMMA MoveTold ==
  ASSUME IInv, NEW e \in Runs, Moves(e), NEW f \in Runs
  PROVE  ToldInv(f)'
<1>. DEFINE r == RequestOf[f]
<1>0. r \in Requests /\ applied' = applied
  BY RequestsAssumption, MoveTypes DEF IInv
<1>1. ToldInv(f)
  BY DEF IInv
<1>2. r \in Approved /\ status[r] \in {"succeeded", "failed"} => status'[r] = status[r]
  BY <1>0, MoveRecords
<1>3. CASE f # e
  <2>1. at'[f] = at[f] /\ told'[f] = told[f]
    BY <1>3, MoveSays DEF IInv, Types, RunTypes
  <2>. QED
    BY <1>0, <1>1, <1>2, <2>1 DEF ToldInv
<1>4. CASE f = e
  <2>1. at[e] # "done" /\ told[e] = "none"
    BY <1>1, <1>4, MoveSays DEF ToldInv
  <2>2. CASE /\ \E place \in Working :
                  /\ at' = [at EXCEPT ![e] = place]
                  /\ place \in {"fail", "lost"} => RequestOf[e] \in Approved
             /\ UNCHANGED told
    <3>1. at'[e] \in Working /\ (at'[e] \in {"fail", "lost"} => r \in Approved) /\ told'[e] = "none"
      BY <1>4, <2>1, <2>2 DEF IInv, Types, RunTypes
    <3>. QED
      BY <1>0, <1>1, <1>4, <2>1, <3>1 DEF ToldInv, Working
  <2>3. CASE /\ at' = [at EXCEPT ![e] = "done"]
             /\ \E a \in {"saved", "refused", "pending", "error"} :
                  told' = [told EXCEPT ![e] = a] /\ Says(e, a)
    <3>1. at'[e] = "done" /\ Says(e, told'[e])
      BY <2>3 DEF IInv, Types, RunTypes
    <3>. QED
      BY <1>0, <1>1, <1>4, <2>1, <3>1 DEF ToldInv, Says
  <2>. QED
    BY <2>2, <2>3, MoveSays
<1>. QED
  BY <1>3, <1>4

LEMMA MoveKeep ==
  ASSUME IInv, NEW e \in Runs, Moves(e), NEW f \in Runs
  PROVE  KeepInv(f)'
<1>. DEFINE r == RequestOf[f]
            i == TargetOf[r]
<1>0. r \in Requests /\ UNCHANGED <<content, updated, embedding, form>>
  BY RequestsAssumption, MoveTypes DEF IInv
<1>1. KeepInv(f)
  BY DEF IInv
<1>2. \/ at'[f] \notin {"read", "hash", "keep"}
      \/ at'[f] = at[f]
      \/ f = e /\ at'[f] = "read" /\ (i = New \/ form[r] # 0)
      \/ f = e /\ at'[f] = "hash" /\ at[f] = "read" /\ i # New
      \/ f = e /\ at'[f] = "keep" /\ at[f] = "hash" /\ embedding[i] = ContentOf[r]
  BY DEF Moves, BeginEdit, Claim, Replay, ReadCampaign, ReadHash, EmbeddingFails, SaveFails,
         LeaseLost, ReplayLost, Fail, Die, Ready, Refuse, Answer, Goto, SameDigest, IInv, Types, RunTypes
<1>3. ASSUME i # New, embedding[i] = ContentOf[r]
      PROVE  content[i] = ContentOf[r]
  <2>1. i \in Ids /\ i \in 1 .. Initial
    BY <1>0, <1>3, Targets
  <2>2. Exists(i)
    BY <2>1, SizesAssumption DEF IInv, NumberInv
  <2>3. embedding[i] \in {"none", "legacy", content[i]}
    BY <2>1, <2>2 DEF IInv, EmbeddingFollowsContent
  <2>. QED
    BY <1>0, <1>3, <2>3, Targets
<1>. QED
  BY <1>0, <1>1, <1>2, <1>3 DEF KeepInv

LEMMA MoveStep ==
  ASSUME IInv, NEW e \in Runs, Moves(e)
  PROVE  IInv'
<1>0. UNCHANGED <<content, updated, embedding, form, applied, fillVars>> /\ Types'
  BY MoveTypes DEF IInv
<1>1. NumberInv' /\ EmbeddingFollowsContent' /\ ScannedIsCurrent' /\ FillInv'
  BY <1>0 DEF IInv, NumberInv, EmbeddingFollowsContent, ScannedIsCurrent, FillInv, Exists, fillVars
<1>2. CountInv' /\ OneOfAVersion'
  BY <1>0 DEF IInv, CountInv, OneOfAVersion
<1>3. \A r \in Requests : FormInv(r)'
  BY <1>0 DEF IInv, FormInv
<1>. QED
  BY <1>0, <1>1, <1>2, <1>3, MoveRecords, MoveTold, MoveKeep DEF IInv

-----------------------------------------------------------------------------
(* Forms, leases, archives and the backfill.                               *)
LEMMA LoadStep ==
  ASSUME IInv, NEW r \in Requests, Load(r)
  PROVE  IInv'
<1>. DEFINE i == TargetOf[r]
<1>0. /\ Types'
      /\ form[r] = 0 /\ i # New
      /\ form' = [form EXCEPT ![r] = updated[i]]
      /\ UNCHANGED <<content, updated, embedding, status, applied, runVars, fillVars>>
  BY LoadTypes DEF IInv
<1>1. i \in Ids /\ updated[i] \in Nat
  BY <1>0, Targets DEF IInv, Types, RowTypes
<1>2. ~(applied[r] > 0)
  BY <1>0 DEF IInv, FormInv
<1>3. \A s \in Requests : form'[s] = IF s = r THEN updated[i] ELSE form[s]
  BY <1>0 DEF IInv, Types, RequestTypes
<1>4. NumberInv' /\ EmbeddingFollowsContent' /\ ScannedIsCurrent' /\ FillInv'
  BY <1>0 DEF IInv, NumberInv, EmbeddingFollowsContent, ScannedIsCurrent, FillInv, Exists, fillVars
<1>5. CountInv'
  BY <1>0 DEF IInv, CountInv
<1>6. OneOfAVersion'
  BY <1>0, <1>2, <1>3 DEF IInv, OneOfAVersion
<1>7. ASSUME NEW s \in Requests PROVE FormInv(s)' /\ RecordInv(s)'
  <2>1. FormInv(s) /\ RecordInv(s)
    BY DEF IInv
  <2>2. FormInv(s)'
    BY <1>0, <1>1, <1>2, <1>3, <2>1 DEF FormInv
  <2>3. RecordInv(s)'
    BY <1>0, <2>1 DEF RecordInv
  <2>. QED
    BY <2>2, <2>3
<1>8. ASSUME NEW e \in Runs PROVE ToldInv(e)' /\ KeepInv(e)'
  <2>0. ToldInv(e) /\ KeepInv(e) /\ RequestOf[e] \in Requests
    BY RequestsAssumption DEF IInv
  <2>1. ToldInv(e)'
    BY <1>0, <2>0 DEF ToldInv, runVars
  <2>2. CASE RequestOf[e] # r
    <3>1. form'[RequestOf[e]] = form[RequestOf[e]]
      BY <1>3, <2>0, <2>2
    <3>. QED
      BY <1>0, <2>0, <2>1, <3>1 DEF KeepInv, runVars
  <2>3. CASE RequestOf[e] = r
    <3>1. at[e] \notin {"read", "hash", "keep"}
      BY <1>0, <2>0, <2>3 DEF KeepInv
    <3>. QED
      BY <1>0, <2>1, <3>1 DEF KeepInv, runVars
  <2>. QED
    BY <2>1, <2>2, <2>3
<1>. QED
  BY <1>0, <1>4, <1>5, <1>6, <1>7, <1>8 DEF IInv

LEMMA QuietStep ==
  ASSUME IInv, (\E r \in Requests : Expire(r)) \/ (\E i \in Ids : Archive(i))
  PROVE  IInv'
<1>0. /\ Types'
      /\ UNCHANGED <<content, updated, embedding, form, status, applied, runVars, fillVars>>
  BY QuietTypes DEF IInv
<1>1. NumberInv' /\ EmbeddingFollowsContent' /\ ScannedIsCurrent' /\ FillInv'
  BY <1>0 DEF IInv, NumberInv, EmbeddingFollowsContent, ScannedIsCurrent, FillInv, Exists, fillVars
<1>2. CountInv' /\ OneOfAVersion'
  BY <1>0 DEF IInv, CountInv, OneOfAVersion
<1>3. \A r \in Requests : FormInv(r)' /\ RecordInv(r)'
  BY <1>0 DEF IInv, FormInv, RecordInv
<1>4. \A e \in Runs : ToldInv(e)' /\ KeepInv(e)'
  BY <1>0 DEF IInv, ToldInv, KeepInv, runVars
<1>. QED
  BY <1>0, <1>1, <1>2, <1>3, <1>4 DEF IInv

\* A step of the backfill gives no campaign another embedding than its own.
LEMMA FillEmbeddings ==
  ASSUME IInv, Backfill
  PROVE  \A i \in Ids : embedding'[i] = embedding[i] \/ embedding'[i] = content[i]
<1>1. CASE SaveIfCurrent
  BY <1>1 DEF SaveIfCurrent, StillCurrent, IInv, Types, RowTypes
<1>2. CASE ~SaveIfCurrent
  BY <1>2 DEF Backfill, StartBackfill, ListBatch, SkipCurrent, Embed, StopBackfill, rowVars
<1>. QED
  BY <1>1, <1>2

\* The campaign at the head of the batch comes next, and is then current.
LEMMA FillHead ==
  ASSUME IInv, SkipCurrent \/ SaveIfCurrent
  PROVE  /\ batch \in Seq(Candidate) /\ batch # <<>>
         /\ Head(batch).id = last + 1 /\ last + 1 \in Ids
         /\ embedding'[last + 1] = content[last + 1]
<1>1. batch \in Seq(Candidate) /\ batch # <<>>
  BY DEF SkipCurrent, SaveIfCurrent, IInv, FillInv, Types, FillTypes
<1>2. 1 \in 1 .. Len(batch) /\ Head(batch) = batch[1] /\ batch[1] \in Candidate
  BY <1>1
<1>3. Head(batch).id = last + 1 /\ last + 1 \in Ids
  BY <1>2 DEF IInv, FillInv, Candidate
<1>4. CASE SkipCurrent
  <2>1. batch[1].embedding = batch[1].content
    BY <1>2, <1>4 DEF SkipCurrent
  <2>2. embedding[last + 1] = content[last + 1]
    BY <1>2, <2>1 DEF IInv, FillInv
  <2>. QED
    BY <1>1, <1>3, <1>4, <2>2 DEF SkipCurrent, rowVars
<1>5. CASE SaveIfCurrent
  BY <1>1, <1>3, <1>5 DEF SaveIfCurrent, StillCurrent, IInv, Types, RowTypes
<1>. QED
  BY <1>4, <1>5

LEMMA FillStep ==
  ASSUME IInv, Backfill
  PROVE  FillInv' /\ EmbeddingFollowsContent' /\ ScannedIsCurrent'
<1>0. Types' /\ UNCHANGED <<content, updated, form, status, applied, runVars>>
  BY BackfillTypes DEF IInv
<1>1. \A i \in Ids : embedding'[i] = embedding[i] \/ embedding'[i] = content[i]
  BY FillEmbeddings
<1>2. EmbeddingFollowsContent'
  BY <1>0, <1>1 DEF IInv, EmbeddingFollowsContent, Exists
<1>3. CASE StartBackfill
  <2>1. last' \in 0 .. last /\ embedding' = embedding /\ batch' = <<>> /\ backfill' = "list"
    BY <1>3 DEF StartBackfill, rowVars
  <2>2. last \in Nat
    BY DEF IInv, Types, FillTypes
  <2>3. ScannedIsCurrent'
    BY <1>0, <2>1, <2>2 DEF IInv, ScannedIsCurrent, Exists, Ids
  <2>4. FillInv'
    BY <2>1 DEF FillInv
  <2>. QED
    BY <1>2, <2>3, <2>4
<1>4. CASE ListBatch
  <2>. PICK n \in Initial .. MaxCampaigns : \A i \in Ids : Exists(i) <=> i <= n
    BY DEF IInv, NumberInv
  <2>. DEFINE rest == NextId - 1 - last
              size == IF rest < BatchSize THEN rest ELSE BatchSize
  <2>1. n \in Nat /\ NextId = n + 1 /\ last \in Nat
    BY Numbered, SizesAssumption DEF IInv, Types, FillTypes
  <2>2. size \in Nat \ {0} /\ last + size <= n
    BY <1>4, <2>1, SizesAssumption DEF ListBatch
  <2>3. batch' = [m \in 1 .. size |-> Row(last + m)] /\ UNCHANGED <<embedding, last>>
    BY <1>4 DEF ListBatch, rowVars
  <2>. HIDE DEF size
  <2>4. Len(batch') = size /\ \A m \in 1 .. size : batch'[m] = Row(last + m)
    BY <2>2, <2>3
  <2>5. batch' # <<>>
    BY <2>2, <2>4
  <2>6. FillInv'
    BY <1>0, <2>3, <2>4, <2>5 DEF FillInv, Row
  <2>7. ScannedIsCurrent'
    BY <1>0, <2>3 DEF IInv, ScannedIsCurrent, Exists
  <2>. QED
    BY <1>2, <2>6, <2>7
<1>5. CASE SkipCurrent \/ SaveIfCurrent
  <2>1. /\ batch \in Seq(Candidate) /\ batch # <<>>
        /\ Head(batch).id = last + 1 /\ last + 1 \in Ids
        /\ embedding'[last + 1] = content[last + 1]
    BY <1>5, FillHead
  <2>2. /\ last' = last + 1 /\ batch' = Tail(batch)
        /\ backfill' = IF Tail(batch) = <<>> THEN "list" ELSE "look"
    BY <1>5, <2>1 DEF SkipCurrent, SaveIfCurrent, Advance
  <2>3. last \in Nat
    BY DEF IInv, Types, FillTypes
  <2>4. ASSUME NEW i \in Ids, i <= last', Exists(i)
        PROVE  embedding'[i] = content[i]
    BY <1>1, <2>1, <2>2, <2>3, <2>4 DEF IInv, ScannedIsCurrent, Ids
  <2>5. ScannedIsCurrent'
    BY <1>0, <2>4 DEF ScannedIsCurrent, Exists
  <2>6. ASSUME NEW n \in 1 .. Len(batch')
        PROVE  /\ batch'[n].id = last' + n
               /\ batch'[n].embedding = batch'[n].content =>
                    embedding'[last' + n] = content'[last' + n]
    <3>1. n + 1 \in 1 .. Len(batch) /\ batch'[n] = batch[n + 1]
      BY <2>1, <2>2
    <3>2. batch[n + 1] \in Candidate
      BY <2>1, <3>1
    <3>3. batch[n + 1].id = last + (n + 1) /\ last + (n + 1) \in Ids
      BY <3>1, <3>2 DEF IInv, FillInv, Candidate
    <3>4. batch[n + 1].embedding = batch[n + 1].content =>
            embedding[last + (n + 1)] = content[last + (n + 1)]
      BY <3>1 DEF IInv, FillInv
    <3>5. last' + n = last + (n + 1)
      BY <2>2, <2>3
    <3>. QED
      BY <1>0, <1>1, <3>1, <3>3, <3>4, <3>5
  <2>7. FillInv'
    BY <2>2, <2>6 DEF FillInv
  <2>. QED
    BY <1>2, <2>5, <2>7
<1>6. CASE Embed \/ StopBackfill
  <2>1. UNCHANGED <<embedding, last>> /\ batch' \in {batch, <<>>}
    BY <1>6 DEF Embed, StopBackfill, rowVars
  <2>2. ScannedIsCurrent'
    BY <1>0, <2>1 DEF IInv, ScannedIsCurrent, Exists
  <2>3. FillInv'
    BY <1>0, <1>6, <2>1 DEF IInv, FillInv, Embed, StopBackfill
  <2>. QED
    BY <1>2, <2>2, <2>3
<1>. QED
  BY <1>3, <1>4, <1>5, <1>6 DEF Backfill

LEMMA BackfillStep ==
  ASSUME IInv, Backfill
  PROVE  IInv'
<1>0. Types' /\ UNCHANGED <<content, updated, form, status, applied, runVars>>
  BY BackfillTypes DEF IInv
<1>1. FillInv' /\ EmbeddingFollowsContent' /\ ScannedIsCurrent'
  BY FillStep
<1>2. NumberInv' /\ CountInv' /\ OneOfAVersion'
  BY <1>0 DEF IInv, NumberInv, CountInv, OneOfAVersion, Exists
<1>3. \A r \in Requests : FormInv(r)' /\ RecordInv(r)'
  BY <1>0 DEF IInv, FormInv, RecordInv
<1>4. ASSUME NEW e \in Runs PROVE ToldInv(e)' /\ KeepInv(e)'
  <2>. DEFINE r == RequestOf[e]
              i == TargetOf[r]
  <2>0. ToldInv(e) /\ KeepInv(e) /\ r \in Requests
    BY RequestsAssumption DEF IInv
  <2>1. ToldInv(e)'
    BY <1>0, <2>0 DEF ToldInv, runVars
  <2>2. i # New => embedding'[i] = embedding[i] \/ embedding'[i] = content[i]
    BY <2>0, FillEmbeddings, Targets
  <2>3. KeepInv(e)'
    BY <1>0, <2>0, <2>2 DEF KeepInv, runVars
  <2>. QED
    BY <2>1, <2>3
<1>. QED
  BY <1>0, <1>1, <1>2, <1>3, <1>4 DEF IInv

LEMMA SaveStep ==
  ASSUME IInv, NEW e \in Runs, Save(e)
  PROVE  IInv'
<1>1. Types'
  BY SaveTypes DEF IInv
<1>. QED
  BY <1>1, SaveNumber, SaveCount, SaveRequests, SaveRuns, SaveEmbeddings DEF IInv

LEMMA Step ==
  ASSUME IInv, [Next]_vars
  PROVE  IInv'
<1>1. ASSUME NEW e \in Runs, Execute(e) PROVE IInv'
  BY <1>1, SaveStep, MoveStep DEF Execute, Moves
<1>2. ASSUME NEW r \in Requests, Load(r) \/ Expire(r) PROVE IInv'
  BY <1>2, LoadStep, QuietStep
<1>3. ASSUME NEW i \in Ids, Archive(i) PROVE IInv'
  BY <1>3, QuietStep
<1>4. CASE Backfill
  BY <1>4, BackfillStep
<1>5. CASE UNCHANGED vars
  <2>. USE <1>5 DEF vars, rowVars, requestVars, runVars, fillVars
  <2>1. Types' /\ NumberInv' /\ CountInv' /\ OneOfAVersion'
    BY DEF IInv, Types, RowTypes, RequestTypes, RunTypes, FillTypes, NumberInv, CountInv,
           OneOfAVersion, Exists
  <2>2. \A r \in Requests : FormInv(r)' /\ RecordInv(r)'
    BY DEF IInv, FormInv, RecordInv
  <2>3. \A e \in Runs : ToldInv(e)' /\ KeepInv(e)'
    BY DEF IInv, ToldInv, KeepInv
  <2>4. FillInv' /\ EmbeddingFollowsContent' /\ ScannedIsCurrent'
    BY DEF IInv, FillInv, EmbeddingFollowsContent, ScannedIsCurrent, Exists
  <2>. QED
    BY <2>1, <2>2, <2>3, <2>4 DEF IInv
<1>. QED
  BY <1>1, <1>2, <1>3, <1>4, <1>5 DEF Next

LEMMA Always == Spec => []IInv
BY Initially, Step, PTL DEF Spec

-----------------------------------------------------------------------------
(***************************************************************************)
(* The theorems.                                                           *)
(***************************************************************************)
\* For any executions and batch sizes, a campaign is found by the embedding of its
\* present content, by none, or by one of an old projection
\* (campaign_service.py:224, campaign_embedding_backfill.py).
THEOREM EmbeddingsFollow == Spec => []EmbeddingFollowsContent
<1>1. IInv => EmbeddingFollowsContent
  BY DEF IInv
<1>. QED
  BY <1>1, Always, PTL

\* For any number of requests, what is loaded and compared at the write excludes a
\* lost update, and a version counts the writes (CampaignRepository.update_if_unchanged).
THEOREM NothingLost == Spec => []NoLostUpdate
<1>1. IInv => NoLostUpdate
  BY DEF IInv, NoLostUpdate, OneOfAVersion, CountInv
<1>. QED
  BY <1>1, Always, PTL

\* For any number of executions that take each other's lease, an approval is written
\* once or not at all, as its record and every answer say (campaign_approval.py).
THEOREM ToldAsApplied == Spec => []AppliedAsTold
<1>1. ASSUME IInv PROVE AppliedAsTold
  <2>1. \A r \in Approved : applied[r] = IF status[r] = "succeeded" THEN 1 ELSE 0
    BY <1>1, RequestsAssumption DEF IInv, RecordInv
  <2>2. \A e \in Runs : RequestOf[e] \in Requests /\ ToldInv(e)
    BY <1>1, RequestsAssumption DEF IInv
  <2>. QED
    BY <2>1, <2>2 DEF AppliedAsTold, ToldInv
<1>. QED
  BY <1>1, Always, PTL

\* For any batch size, what the backfill has passed is current and stays it
\* (campaign_embedding_backfill.py).
THEOREM NothingLeftBehind == Spec => []ScannedIsCurrent
<1>1. IInv => ScannedIsCurrent
  BY DEF IInv
<1>. QED
  BY <1>1, Always, PTL

-----------------------------------------------------------------------------
(***************************************************************************)
(* The refinement.  What the contract sees:                                *)
(***************************************************************************)
Seen == <<content, updated, archived, embedding, form, decisions, told>>

\* Decisions are those of the writes, the records and the answers of edits.
LEMMA DecisionsKept ==
  ASSUME UNCHANGED <<applied, told>>,
         \A r \in Requests : status'[r] = "failed" <=> status[r] = "failed"
  PROVE  UNCHANGED decisions
<1>1. \A r \in Requests : Decision(r)' = Decision(r)
  BY DEF Decision
<1>. QED
  BY <1>1 DEF decisions

\* What is told but a refusal decides nothing.
LEMMA AnswerDecides ==
  ASSUME IInv, NEW e \in Runs, NEW a, told' = [told EXCEPT ![e] = a],
         a = "refused" => RequestOf[e] \in Approved, told[e] = "none",
         UNCHANGED <<applied, status>>
  PROVE  UNCHANGED decisions
<1>1. \A f \in Runs : told'[f] = IF f = e THEN a ELSE told[f]
  BY DEF IInv, Types, RunTypes
<1>2. \A r \in Requests : Decision(r)' = Decision(r)
  BY <1>1 DEF Decision
<1>. QED
  BY <1>2 DEF decisions

\* The decision on the request of an execution that is under way.
LEMMA Undecided ==
  ASSUME IInv, NEW e \in Runs, at[e] # "done", NEW r, r = RequestOf[e]
  PROVE  /\ r \in Requests /\ told[e] = "none"
         /\ decisions[r] = IF r \in Approved
                             THEN IF Settled(r) THEN Stored(r) ELSE "open"
                             ELSE "open"
<1>1. r \in Requests /\ ToldInv(e) /\ RecordInv(r)
  BY RequestsAssumption DEF IInv
<1>2. decisions[r] = Decision(r)
  BY <1>1 DEF decisions
<1>3. told[e] = "none"
  BY <1>1 DEF ToldInv
<1>4. CASE r \in Approved
  <2>1. applied[r] = IF status[r] = "succeeded" THEN 1 ELSE 0
    BY <1>1, <1>4 DEF RecordInv
  <2>. QED
    BY <1>1, <1>2, <1>3, <1>4, <2>1 DEF Decision, Settled, Stored
<1>5. CASE r \notin Approved
  <2>1. applied[r] = 0 /\ status[r] = "none"
    BY <1>1, <1>5 DEF ToldInv, RecordInv
  <2>2. \A f \in Runs : RequestOf[f] = r => f = e
    BY <1>1, <1>5, RequestsAssumption
  <2>. QED
    BY <1>1, <1>2, <1>3, <1>5, <2>1, <2>2 DEF Decision
<1>. QED
  BY <1>4, <1>5

\* An execution answers what is decided, or an error.
LEMMA AnswerMaps ==
  ASSUME IInv, NEW e \in Runs, at[e] # "done", NEW a, Answer(e, a),
         UNCHANGED <<rowVars, requestVars>>,
         LET r == RequestOf[e] IN
           \/ a = "error"
           \/ r \in Approved /\ a = IF Settled(r) THEN Stored(r) ELSE "pending"
  PROVE  Contract!Answer(RequestOf[e])
<1>. DEFINE r == RequestOf[e]
<1>1. /\ r \in Requests /\ told[e] = "none"
      /\ decisions[r] = IF r \in Approved THEN IF Settled(r) THEN Stored(r) ELSE "open" ELSE "open"
  BY Undecided
<1>2. told' = [told EXCEPT ![e] = a]
  BY DEF Answer
<1>3. UNCHANGED decisions
  BY <1>1, <1>2, AnswerDecides DEF Stored, requestVars
<1>4. Stored(r) # "open"
  BY DEF Stored
<1>5. a \in {IF decisions[r] = "open" THEN "pending" ELSE decisions[r], "error"}
  BY <1>1, <1>4
<1>6. Contract!Tell(r, {IF decisions[r] = "open" THEN "pending" ELSE decisions[r], "error"})
  BY <1>1, <1>2, <1>5 DEF Contract!Tell
<1>. QED
  BY <1>3, <1>6 DEF Contract!Answer, rowVars, requestVars

\* An edit is refused by its answer.
LEMMA RefusalMaps ==
  ASSUME IInv, NEW e \in Runs, at[e] # "done", Refuse(e), UNCHANGED <<rowVars, requestVars>>
  PROVE  Contract!Refuse(RequestOf[e]) \/ UNCHANGED Seen
<1>. DEFINE r == RequestOf[e]
<1>1. CASE r \in Approved
  <2>1. UNCHANGED <<applied, status, told>>
    BY <1>1 DEF Refuse, requestVars
  <2>. QED
    BY <2>1, DecisionsKept DEF Seen, rowVars, requestVars
<1>2. CASE r \notin Approved
  <2>1. /\ r \in Requests /\ told[e] = "none" /\ decisions[r] = "open"
    BY <1>2, Undecided
  <2>2. told' = [told EXCEPT ![e] = "refused"]
    BY <1>2 DEF Refuse, Answer
  <2>3. \A f \in Runs : told'[f] = IF f = e THEN "refused" ELSE told[f]
    BY <2>2 DEF IInv, Types, RunTypes
  <2>4. applied[r] = 0
    BY <1>2 DEF IInv, ToldInv
  <2>5. Decision(r)' = "refused" /\ \A s \in Requests \ {r} : Decision(s)' = Decision(s)
    BY <1>2, <2>3, <2>4 DEF Decision, requestVars
  <2>6. decisions' = [decisions EXCEPT ![r] = "refused"]
    BY <2>1, <2>5 DEF decisions
  <2>7. Contract!Tell(r, {"refused", "error"})
    BY <2>1, <2>2 DEF Contract!Tell
  <2>. QED
    BY <2>1, <2>6, <2>7 DEF Contract!Refuse, rowVars, requestVars
<1>. QED
  BY <1>1, <1>2

LEMMA SaveMaps ==
  ASSUME IInv, NEW e \in Runs, Save(e)
  PROVE  RequestOf[e] \in Requests /\ \E i \in Ids : Contract!Save(RequestOf[e], i)
<1>. DEFINE r == RequestOf[e]
            i == Place(r)
<1>1. /\ r \in Requests /\ i \in Ids /\ Writes(e) /\ applied[r] = 0
      /\ TargetOf[r] # New => i = TargetOf[r] /\ updated[i] = form[r]
      /\ TargetOf[r] = New => ~Exists(i)
      /\ IF r \in Approved
           THEN status[r] = "processing" /\ status' = [status EXCEPT ![r] = "succeeded"]
           ELSE status' = status
  BY WriteFacts
<1>2. at[e] # "done" /\ (TargetOf[r] # New => ~archived[i]) /\ UNCHANGED <<archived, form>>
  BY <1>1 DEF Save, Saving, Savable, UnchangedSince
<1>3. told[e] = "none" /\ decisions[r] = "open"
  BY <1>1, <1>2, Undecided DEF Settled
<1>4. \/ told' = told
      \/ told' = [told EXCEPT ![e] = "saved"]
      \/ told' = [told EXCEPT ![e] = "error"]
  BY DEF Save, Answer
<1>5. told' = told \/ Contract!Tell(r, {"saved", "error"})
  BY <1>3, <1>4 DEF Contract!Tell
<1>6. decisions' = [decisions EXCEPT ![r] = "saved"]
  <2>1. applied' = [applied EXCEPT ![r] = 1]
    BY <1>1 DEF Writes
  <2>2. \A s \in Requests : applied'[s] = IF s = r THEN 1 ELSE applied[s]
    BY <1>1, <2>1 DEF IInv, Types, RequestTypes
  <2>3. \A s \in Requests \ {r} : status'[s] = status[s]
    BY <1>1 DEF IInv, Types, RequestTypes
  <2>4. \A f \in Runs : told'[f] = "refused" <=> told[f] = "refused"
    BY <1>3, <1>4 DEF IInv, Types, RunTypes
  <2>5. Decision(r)' = "saved" /\ \A s \in Requests \ {r} : Decision(s)' = Decision(s)
    BY <1>1, <2>2, <2>3, <2>4 DEF Decision
  <2>. QED
    BY <1>1, <2>5 DEF decisions
<1>7. Contract!MayWrite(r, i)
  BY <1>1, <1>2 DEF Contract!MayWrite, Contract!Exists, Exists
<1>8. Contract!Save(r, i)
  BY <1>1, <1>2, <1>3, <1>5, <1>6, <1>7 DEF Contract!Save, Writes
<1>. QED
  BY <1>1, <1>8

LEMMA FailMaps ==
  ASSUME IInv, NEW e \in Runs, Fail(e)
  PROVE  Contract!Refuse(RequestOf[e])
<1>. DEFINE r == RequestOf[e]
<1>1. /\ at[e] = "fail" /\ status[r] = "processing"
      /\ status' = [status EXCEPT ![r] = "failed"]
      /\ UNCHANGED <<rowVars, form, applied>>
      /\ \E a \in {"refused", "error"} : told' = [told EXCEPT ![e] = a]
  BY DEF Fail, MayFinalize, Answer
<1>2. r \in Requests /\ RecordInv(r)
  BY RequestsAssumption DEF IInv
<1>3. r \in Approved /\ applied[r] = 0
  BY <1>1, <1>2 DEF RecordInv
<1>4. told[e] = "none" /\ decisions[r] = "open"
  BY <1>1, <1>3, Undecided DEF Settled
<1>5. decisions' = [decisions EXCEPT ![r] = "refused"]
  <2>1. status'[r] = "failed" /\ \A s \in Requests \ {r} : status'[s] = status[s]
    BY <1>1, <1>2 DEF IInv, Types, RequestTypes
  <2>2. \A f \in Runs : RequestOf[f] \notin Approved => told'[f] = told[f]
    BY <1>1, <1>3 DEF IInv, Types, RunTypes
  <2>3. Decision(r)' = "refused" /\ \A s \in Requests \ {r} : Decision(s)' = Decision(s)
    BY <1>1, <1>3, <2>1, <2>2 DEF Decision
  <2>. QED
    BY <1>2, <2>3 DEF decisions
<1>6. Contract!Tell(r, {"refused", "error"})
  BY <1>1, <1>4 DEF Contract!Tell
<1>. QED
  BY <1>1, <1>4, <1>5, <1>6 DEF Contract!Refuse, rowVars

LEMMA MoveMaps ==
  ASSUME IInv, NEW e \in Runs, Moves(e)
  PROVE  Contract!Refuse(RequestOf[e]) \/ Contract!Answer(RequestOf[e]) \/ UNCHANGED Seen
<1>. DEFINE r == RequestOf[e]
<1>0. at[e] # "done" /\ r \in Requests /\ RecordInv(r) /\ ToldInv(e)
  BY MoveSays, RequestsAssumption DEF IInv
<1>1. CASE BeginEdit(e) \/ ReadHash(e) \/ LeaseLost(e)
  <2>1. UNCHANGED <<rowVars, requestVars, told>>
    BY <1>1 DEF BeginEdit, ReadHash, LeaseLost
  <2>. QED
    BY <2>1, DecisionsKept DEF Seen, rowVars, requestVars
<1>2. CASE Claim(e)
  <2>1. /\ UNCHANGED <<rowVars, form, applied, told>>
        /\ status' = [status EXCEPT ![r] = "processing"]
        /\ status[r] \in {"none", "processing"}
    BY <1>2 DEF Claim
  <2>2. \A s \in Requests : status'[s] = "failed" <=> status[s] = "failed"
    BY <1>0, <2>1 DEF IInv, Types, RequestTypes
  <2>. QED
    BY <2>1, <2>2, DecisionsKept DEF Seen, rowVars
<1>3. CASE Replay(e)
  <2>1. /\ UNCHANGED <<rowVars, requestVars>> /\ r \in Approved
        /\ \/ Settled(r) /\ Answer(e, Stored(r))
           \/ ~Settled(r) /\ Answer(e, "pending")
    BY <1>0, <1>3 DEF Replay, Settled, RecordInv
  <2>. QED
    BY <1>0, <2>1, AnswerMaps
<1>4. CASE ReadCampaign(e)
  <2>1. /\ UNCHANGED <<rowVars, requestVars>>
        /\ UNCHANGED told \/ Refuse(e)
    BY <1>4 DEF ReadCampaign
  <2>2. CASE UNCHANGED told
    BY <2>1, <2>2, DecisionsKept DEF Seen, rowVars, requestVars
  <2>. QED
    BY <1>0, <2>1, <2>2, RefusalMaps
<1>5. CASE EmbeddingFails(e)
  BY <1>0, <1>5, RefusalMaps DEF EmbeddingFails
<1>6. CASE SaveFails(e)
  <2>1. /\ UNCHANGED <<rowVars, requestVars>>
        /\ UNCHANGED told \/ Refuse(e) \/ Answer(e, "error")
    BY <1>6 DEF SaveFails
  <2>2. CASE UNCHANGED told
    BY <2>1, <2>2, DecisionsKept DEF Seen, rowVars, requestVars
  <2>. QED
    BY <1>0, <2>1, <2>2, RefusalMaps, AnswerMaps
<1>7. CASE ReplayLost(e)
  <2>1. r \in Approved
    BY <1>0, <1>7 DEF ToldInv, ReplayLost
  <2>. QED
    BY <1>0, <1>7, <2>1, AnswerMaps DEF ReplayLost
<1>8. CASE Fail(e)
  BY <1>8, FailMaps
<1>9. CASE Die(e)
  BY <1>0, <1>9, AnswerMaps DEF Die
<1>. QED
  BY <1>1, <1>2, <1>3, <1>4, <1>5, <1>6, <1>7, <1>8, <1>9 DEF Moves

LEMMA OthersMap ==
  ASSUME IInv
  PROVE  /\ \A r \in Requests : Load(r) => Contract!Show(r)
         /\ \A r \in Requests : Expire(r) => UNCHANGED Seen
         /\ \A i \in Ids : Archive(i) => Contract!Archive(i)
<1>1. ASSUME NEW r \in Requests, Load(r) PROVE Contract!Show(r)
  <2>1. UNCHANGED decisions
    BY <1>1, DecisionsKept DEF Load, runVars
  <2>. QED
    BY <1>1, <2>1 DEF Load, Contract!Show, rowVars, runVars
<1>2. ASSUME NEW r \in Requests, Expire(r) PROVE UNCHANGED Seen
  <2>1. UNCHANGED decisions
    BY <1>2, DecisionsKept DEF Expire, runVars
  <2>. QED
    BY <1>2, <2>1 DEF Expire, Seen, rowVars, runVars
<1>3. ASSUME NEW i \in Ids, Archive(i) PROVE Contract!Archive(i)
  <2>1. UNCHANGED decisions
    BY <1>3, DecisionsKept DEF Archive, requestVars, runVars
  <2>. QED
    BY <1>3, <2>1 DEF Archive, Contract!Archive, Exists, Contract!Exists, requestVars, runVars
<1>. QED
  BY <1>1, <1>2, <1>3

LEMMA BackfillMaps ==
  ASSUME IInv, Backfill
  PROVE  (\E i \in Ids : Contract!Index(i)) \/ UNCHANGED Seen
<1>0. UNCHANGED <<content, updated, archived, form, applied, status, told>>
  BY DEF Backfill, StartBackfill, ListBatch, SkipCurrent, Embed, SaveIfCurrent, StopBackfill,
         rowVars, requestVars, runVars
<1>1. UNCHANGED decisions
  BY <1>0, DecisionsKept
<1>2. CASE SaveIfCurrent
  <2>1. /\ batch \in Seq(Candidate) /\ batch # <<>>
        /\ Head(batch).id = last + 1 /\ last + 1 \in Ids
    BY <1>2, FillHead
  <2>2. Head(batch) \in Candidate
    BY <2>1
  <2>3. /\ content[last + 1] = Head(batch).content
        /\ embedding' = [embedding EXCEPT ![last + 1] = content[last + 1]]
    BY <1>2, <2>1 DEF SaveIfCurrent, StillCurrent
  <2>4. Contract!Exists(last + 1)
    BY <2>2, <2>3, RequestsAssumption DEF Candidate, Contract!Exists
  <2>. QED
    BY <1>0, <1>1, <2>1, <2>3, <2>4 DEF Contract!Index
<1>3. CASE ~SaveIfCurrent
  <2>1. UNCHANGED embedding
    BY <1>3 DEF Backfill, StartBackfill, ListBatch, SkipCurrent, Embed, StopBackfill, rowVars
  <2>. QED
    BY <1>0, <1>1, <2>1 DEF Seen
<1>. QED
  BY <1>2, <1>3

LEMMA StepMaps ==
  ASSUME IInv, [Next]_vars
  PROVE  [Contract!Next]_Seen
<1>1. ASSUME NEW e \in Runs, Execute(e) PROVE Contract!Next \/ UNCHANGED Seen
  <2>1. RequestOf[e] \in Requests
    BY RequestsAssumption
  <2>2. CASE Save(e)
    BY <2>2, SaveMaps DEF Contract!Next
  <2>3. CASE Moves(e)
    BY <2>1, <2>3, MoveMaps DEF Contract!Next
  <2>. QED
    BY <1>1, <2>2, <2>3 DEF Execute, Moves
<1>2. ASSUME NEW r \in Requests, Load(r) \/ Expire(r) PROVE Contract!Next \/ UNCHANGED Seen
  BY <1>2, OthersMap DEF Contract!Next
<1>3. ASSUME NEW i \in Ids, Archive(i) PROVE Contract!Next
  BY <1>3, OthersMap DEF Contract!Next
<1>4. CASE Backfill
  BY <1>4, BackfillMaps DEF Contract!Next
<1>5. CASE UNCHANGED vars
  <2>1. UNCHANGED decisions
    BY <1>5, DecisionsKept DEF vars, requestVars, runVars
  <2>. QED
    BY <1>5, <2>1 DEF Seen, vars, rowVars, requestVars, runVars
<1>. QED
  BY <1>1, <1>2, <1>3, <1>4, <1>5 DEF Next

\* For any campaigns, requests and executions, approvals, edits and the backfill
\* implement the contract (campaign_approval.py, campaign_service.py:224,
\* campaign_embedding_backfill.py).
THEOREM CampaignRefinement == Spec => ImplementsCampaignContract
<1>1. Init => Contract!Init
  <2>. SUFFICES ASSUME Init PROVE Contract!Init
    OBVIOUS
  <2>1. decisions = [r \in Requests |-> "open"]
    BY DEF Init, decisions, Decision
  <2>2. /\ content \in [Ids -> Contents \cup {"none"}]
        /\ \A i \in Ids : Contract!Exists(i) <=> i <= Initial
        /\ embedding \in [Ids -> Contents \cup {"none", "legacy"}]
        /\ \A i \in Ids : embedding[i] \in {"none", "legacy", content[i]}
    BY DEF Init, Contract!Exists
  <2>. QED
    BY <2>1, <2>2 DEF Init, Contract!Init
<1>2. IInv /\ [Next]_vars => [Contract!Next]_(Contract!cVars)
  BY StepMaps DEF Seen, Contract!cVars
<1>. QED
  BY <1>1, <1>2, Always, PTL DEF Spec, ImplementsCampaignContract, Contract!Spec

=============================================================================
