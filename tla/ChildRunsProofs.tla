--------------------------- MODULE ChildRunsProofs ---------------------------
(***************************************************************************)
(* Proofs about ChildRuns for any number of calls, any agents, proposals   *)
(* and limit: proposals are what children said, no turn has too many       *)
(* children, none is left behind without an error of the database, a crash *)
(* or a creation that was cut off, and a late parent does nothing.         *)
(***************************************************************************)
EXTENDS ChildRuns, FiniteSetTheorems, TLAPS

\* The places of a call, from its claim to its result.
InCall == {"create", "insert", "save"} \cup ChildPlaces

\* What the process knows of the call it is in: the call is not completed, has
\* no child before it creates one, and brings home what its child stored.
PlaceInv ==
  /\ at \in InCall => cur \in Calls /\ call[cur] \in {"running", "cancelled"}
  /\ at \in {"create", "insert"} => child[cur] = "none"
  /\ at = "answered" => hand \in Outputs
  /\ at = "save" => \/ hand = "failed"
                    \/ hand \in Outputs /\ child[cur] = "completed" /\ final[cur] = hand

\* A proposal that has passed the audit stays audited until it is shown.
WantInv == at \in {"campaign", "show"} => \A w \in want : SourceMatches(w)

\* Only a call has a child, only a completed child an output, and a completed
\* call, and no other, returned it.
CallInv ==
  \A c \in Calls :
    /\ call[c] = "none" => child[c] = "none"
    /\ call[c] = "completed" => child[c] = "completed" /\ result[c] = final[c]
    /\ result[c] \in Outputs => call[c] = "completed"
    /\ final[c] # "none" <=> child[c] = "completed"

ShownInv == \A w \in shown : SourceMatches(w)

\* The parts of NoOrphan; a child that was created unseen is one.
Owned == \A c \in Calls : child[c] = "running" => AtWork(c) \/ c \in lost \cup unseen

UnseenInv ==
  \A c \in unseen :
    child[c] # "none" /\ ~AtWork(c) /\ final[c] = "none" /\ result[c] \notin Outputs

IInv ==
  /\ TypeOK /\ PlaceInv /\ WantInv /\ CallInv /\ ShownInv
  /\ Owned /\ UnseenInv /\ WithinLimit

LEMMA Initially == Init => IInv
<1>. SUFFICES ASSUME Init PROVE IInv
  OBVIOUS
<1>1. TypeOK
  BY DEF Init, TypeOK, Statuses, Places, ChildPlaces
<1>2. PlaceInv /\ WantInv /\ ShownInv
  BY DEF Init, PlaceInv, WantInv, ShownInv, InCall, ChildPlaces
<1>3. CallInv /\ Owned /\ UnseenInv
  BY ProposalsAssumption DEF Init, CallInv, Owned, UnseenInv, Outputs
<1>4. {c \in Calls : child[c] # "none"} = {}
  BY DEF Init
<1>5. WithinLimit
  BY <1>4, FS_EmptySet, MaxSubagentsAssumption DEF WithinLimit
<1> QED
  BY <1>1, <1>2, <1>3, <1>5 DEF IInv

\* A step that creates no child stays within the limit.
LEMMA SameChildren ==
  ASSUME WithinLimit, \A c \in Calls : child'[c] = "none" <=> child[c] = "none"
  PROVE  WithinLimit'
<1>1. {c \in Calls : child'[c] # "none"} = {c \in Calls : child[c] # "none"}
  OBVIOUS
<1> QED
  BY <1>1 DEF WithinLimit

\* A step keeps what is so of the children that were created unseen if it
\* gives them no output and nobody who works on them.
LEMMA StillUnseen ==
  ASSUME IInv, unseen' = unseen,
         \A c \in unseen : /\ final'[c] = final[c]
                           /\ result'[c] = result[c] \/ result'[c] \notin Outputs
                           /\ child'[c] = "none" => child[c] = "none"
                           /\ cur' = c /\ at' \in ChildPlaces => AtWork(c)
  PROVE  UnseenInv'
BY DEF IInv, UnseenInv, AtWork

\* A step of the process that writes no row and loses no child keeps the
\* invariant if it keeps what the process knows.
LEMMA Moves ==
  ASSUME IInv, UNCHANGED <<turnVars, rowVars>>,
         at' \in Places, cur' \in Calls \cup {NoCall}, want' \in SUBSET Asked,
         hand' \in Outputs \cup {"none", "failed", "raise", "done"},
         lost \subseteq lost', lost' \subseteq Calls,
         PlaceInv', WantInv',
         at \in ChildPlaces => (at' \in ChildPlaces /\ cur' = cur) \/ cur \in lost',
         unseen' = unseen,
         at' \in ChildPlaces => at \in ChildPlaces /\ cur' = cur
  PROVE  IInv'
<1>1. TypeOK'
  BY DEF IInv, TypeOK, turnVars, rowVars
<1>2. CallInv' /\ ShownInv'
  BY DEF IInv, CallInv, ShownInv, SourceMatches, rowVars
<1>3. Owned'
  BY DEF IInv, Owned, AtWork, rowVars
<1>4. WithinLimit'
  BY SameChildren DEF IInv, rowVars
<1>5. UnseenInv'
  BY StillUnseen DEF AtWork, rowVars
<1> QED
  BY <1>1, <1>2, <1>3, <1>4, <1>5 DEF IInv

-----------------------------------------------------------------------------
\* What the process knows when it is in no call and has audited nothing.
LEMMA Free ==
  ASSUME at' \notin InCall \cup {"campaign", "show"}
  PROVE  PlaceInv' /\ WantInv'
BY DEF PlaceInv, WantInv, InCall, ChildPlaces

LEMMA DecideRunKeeps == ASSUME IInv, NEW c \in Calls, DecideRun(c) PROVE IInv'
<1>1. /\ at = "decide" /\ call[c] = "none" /\ child[c] = "none"
      /\ call' = [call EXCEPT ![c] = "running"]
      /\ cur' = c /\ at' = "create" /\ hand' = "none"
      /\ UNCHANGED <<turnVars, result, child, final, shown, want, lost, unseen>>
  BY DEF DecideRun, Goto, IInv, CallInv, history
<1>2. TypeOK'
  BY <1>1 DEF IInv, TypeOK, turnVars, Statuses, Places
<1>3. \A d \in Calls : call'[d] = "completed" <=> call[d] = "completed"
  BY <1>1 DEF IInv, TypeOK
<1>4. PlaceInv' /\ WantInv'
  BY <1>1 DEF IInv, TypeOK, PlaceInv, WantInv
<1>5. CallInv'
  <2>1. \A d \in Calls : call'[d] = "none" => call[d] = "none"
    BY <1>1 DEF IInv, TypeOK
  <2> QED
    BY <1>1, <1>3, <2>1 DEF IInv, CallInv
<1>6. ShownInv'
  BY <1>1, <1>3 DEF IInv, ShownInv, SourceMatches
<1>7. Owned' /\ WithinLimit'
  BY <1>1, SameChildren DEF IInv, Owned, AtWork, ChildPlaces
<1>8. UnseenInv'
  BY <1>1, StillUnseen DEF ChildPlaces
<1> QED
  BY <1>2, <1>4, <1>5, <1>6, <1>7, <1>8 DEF IInv

\* The other steps of the parent's loop that write no row.
LEMMA LoopKeeps ==
  ASSUME IInv,
         \/ \E w \in Asked : DecidePropose(w)
         \/ DecideEnd \/ Source \/ CheckCampaign
  PROVE  IInv'
<1>1. /\ UNCHANGED <<turnVars, rowVars, cur, lost, unseen>>
      /\ at \notin ChildPlaces /\ at' \in {"decide", "source", "campaign", "show", "end"}
      /\ want' \in SUBSET Asked /\ hand' \in {"none", "done", "raise"}
  BY DEF IInv, TypeOK, DecidePropose, DecideEnd, Source, CheckCampaign, Goto, ChildPlaces, history
<1>2. at' \in {"campaign", "show"} => \A w \in want' : SourceMatches(w)
  BY DEF IInv, WantInv, DecidePropose, DecideEnd, Source, CheckCampaign, Goto
<1>3. WantInv'
  BY <1>1, <1>2 DEF WantInv, SourceMatches, rowVars
<1>4. PlaceInv'
  BY <1>1 DEF PlaceInv, InCall, ChildPlaces
<1>5. /\ at' \in Places /\ cur' \in Calls \cup {NoCall}
      /\ hand' \in Outputs \cup {"none", "failed", "raise", "done"}
      /\ lost \subseteq lost' /\ lost' \subseteq Calls
  BY <1>1 DEF IInv, TypeOK, Places
<1>6. at' \notin ChildPlaces
  BY <1>1 DEF ChildPlaces
<1> QED
  BY <1>1, <1>3, <1>4, <1>5, <1>6, Moves

\* Show and Finish: the end of the loop.
LEMMA ShowKeeps == ASSUME IInv, Show PROVE IInv'
<1>1. /\ at = "show" /\ at' \in {"end", "decide"} /\ hand' \in {"none", "done"}
      /\ want' = {} /\ shown' \in {want, shown}
      /\ UNCHANGED <<turnVars, call, result, child, final, cur, lost, unseen>>
  BY DEF Show, Goto, history
<1>2. TypeOK'
  BY <1>1 DEF IInv, TypeOK, turnVars, Places
<1>3. PlaceInv' /\ WantInv'
  BY <1>1, Free DEF InCall, ChildPlaces
<1>4. CallInv'
  BY <1>1 DEF IInv, CallInv
<1>5. ShownInv'
  BY <1>1 DEF IInv, WantInv, ShownInv, SourceMatches
<1>6. Owned' /\ WithinLimit'
  BY <1>1, SameChildren DEF IInv, Owned, AtWork, ChildPlaces
<1>7. UnseenInv'
  BY <1>1, StillUnseen DEF ChildPlaces
<1> QED
  BY <1>2, <1>3, <1>4, <1>5, <1>6, <1>7 DEF IInv

\* The end of the parent's turn, its calls cancelled, by whomever.
LEMMA EndsKeep ==
  ASSUME IInv, parent' \in Statuses, timeUp' = timeUp, archived' = archived,
         call' \in {call, Closed}, UNCHANGED <<result, final, shown>>,
         UNCHANGED history,
         child' \in [Calls -> Statuses \cup {"none"}],
         \A c \in Calls : \/ child'[c] = child[c]
                          \/ child[c] = "running" /\ child'[c] = "failed",
         \/ UNCHANGED procVars
         \/ at \notin ChildPlaces /\ at' = "over" /\ hand' = "none" /\ cur' = NoCall /\ want' = want
  PROVE  IInv'
<1>1. /\ call' \in [Calls -> Statuses \cup {"none", "cancelled"}]
      /\ \A c \in Calls : \/ call'[c] = call[c]
                          \/ call[c] = "running" /\ call'[c] = "cancelled"
  BY DEF IInv, TypeOK, Closed
<1>2. TypeOK'
  BY <1>1 DEF IInv, TypeOK, procVars, Places, history
<1>3. \A w : SourceMatches(w) => SourceMatches(w)'
  BY <1>1 DEF SourceMatches
<1>4. PlaceInv' /\ WantInv'
  <2>1. CASE UNCHANGED procVars
    <3>1. WantInv'
      BY <1>3, <2>1 DEF IInv, WantInv, procVars
    <3>2. PlaceInv'
      BY <1>1, <2>1 DEF IInv, PlaceInv, InCall, procVars
    <3> QED
      BY <3>1, <3>2
  <2>2. CASE at' = "over"
    BY <2>2, Free DEF InCall, ChildPlaces
  <2> QED
    BY <2>1, <2>2
<1>5. CallInv'
  BY <1>1 DEF IInv, CallInv
<1>6. ShownInv'
  BY <1>3 DEF IInv, ShownInv
<1>7. Owned'
  BY DEF IInv, Owned, AtWork, procVars, history
<1>8. WithinLimit'
  BY SameChildren DEF IInv
<1>9. UnseenInv'
  BY StillUnseen DEF IInv, TypeOK, AtWork, ChildPlaces, procVars, history
<1> QED
  BY <1>2, <1>4, <1>5, <1>6, <1>7, <1>8, <1>9 DEF IInv

-----------------------------------------------------------------------------
\* The steps of a call that write no row.
LEMMA CallMovesKeep ==
  ASSUME IInv,
         \/ CheckTime \/ CreateRefused \/ Build
         \/ \E out \in Outputs : ChildAnswers(out)
         \/ ChildFails \/ CompleteRefused \/ CompleteErrs \/ CutOff \/ FailChildErrs
  PROVE  IInv'
<1>1. /\ UNCHANGED <<turnVars, rowVars, cur, want>>
      /\ at \in InCall \ {"save"}
      /\ at' \in InCall \cup {"end"} /\ at' # "create"
      /\ hand' \in Outputs \cup {"none", "failed", "raise"}
  BY DEF CheckTime, CreateRefused, Build, ChildAnswers, ChildFails, CompleteRefused, CompleteErrs,
     CutOff, FailChildErrs, Goto, InCall, ChildPlaces
<1>2. /\ at' = "insert" => at = "create"
      /\ at' = "answered" => hand' \in Outputs
      /\ at' = "save" => hand' = "failed"
  BY DEF CheckTime, CreateRefused, Build, ChildAnswers, ChildFails, CompleteRefused, CompleteErrs,
     CutOff, FailChildErrs, Goto, ChildPlaces
<1>3. cur \in Calls
  BY <1>1 DEF IInv, PlaceInv
<1>4. /\ lost' \in {lost, lost \cup {cur}}
      /\ at \in ChildPlaces => at' \in ChildPlaces \/ cur \in lost'
      /\ unseen' = unseen /\ (at' \in ChildPlaces => at \in ChildPlaces)
  BY DEF CheckTime, CreateRefused, Build, ChildAnswers, ChildFails, CompleteRefused, CompleteErrs,
     CutOff, FailChildErrs, Goto, ChildPlaces, history
<1>5. PlaceInv'
  BY <1>1, <1>2, <1>3 DEF IInv, PlaceInv, rowVars
<1>6. WantInv'
  BY <1>1 DEF WantInv, InCall, ChildPlaces
<1>7. /\ lost \subseteq lost' /\ lost' \subseteq Calls
      /\ at \in ChildPlaces => (at' \in ChildPlaces /\ cur' = cur) \/ cur \in lost'
  BY <1>1, <1>3, <1>4 DEF IInv, TypeOK
<1>8. /\ at' \in Places /\ cur' \in Calls \cup {NoCall} /\ want' \in SUBSET Asked
      /\ hand' \in Outputs \cup {"none", "failed", "raise", "done"}
  BY <1>1 DEF IInv, TypeOK, Places, InCall
<1> QED
  BY <1>1, <1>4, <1>5, <1>6, <1>7, <1>8, Moves

\* One more child is within the limit: every child is of a call, and the calls
\* were counted.
LEMMA OneMoreChild ==
  ASSUME IInv, CreateChild
  PROVE  WithinLimit'
<1>. DEFINE D == {c \in Calls : child'[c] # "none"}
<1>1. cur \in Calls /\ call[cur] # "none"
  BY DEF IInv, PlaceInv, InCall, CreateChild
<1>2. \A c \in Calls : child'[c] # "none" => child[c] # "none" \/ c = cur
  BY <1>1 DEF IInv, TypeOK, CreateChild
<1>3. D \subseteq Count
  BY <1>1, <1>2 DEF IInv, CallInv, Count
<1>4. IsFiniteSet(Count)
  BY CallsAssumption, FS_Subset DEF Count
<1>5. Cardinality(D) <= Cardinality(Count)
  BY <1>3, <1>4, FS_Subset
<1>6. Cardinality(Count) <= MaxSubagents
  BY DEF CreateChild, MayCreate
<1>7. IsFiniteSet(D)
  BY <1>3, <1>4, FS_Subset
<1>8. Cardinality(D) \in Nat /\ Cardinality(Count) \in Nat
  BY <1>4, <1>7, FS_CardinalityType
<1>9. WithinLimit' <=> Cardinality(D) <= MaxSubagents
  BY DEF WithinLimit
<1>. HIDE DEF D
<1> QED
  BY <1>5, <1>6, <1>8, <1>9, MaxSubagentsAssumption

LEMMA CreateKeeps == ASSUME IInv, CreateChild PROVE IInv'
<1>1. /\ at = "insert" /\ cur \in Calls
      /\ call[cur] \in {"running", "cancelled"} /\ child[cur] = "none"
  BY DEF IInv, PlaceInv, InCall, CreateChild
<1>2. /\ child' = [child EXCEPT ![cur] = "running"]
      /\ \/ at' = "build" /\ hand' = "none" /\ UNCHANGED <<lost, unseen>>
         \/ /\ (at' = "save" /\ hand' = "failed") \/ (at' = "end" /\ hand' = "raise")
            /\ \/ lost' = lost \cup {cur} /\ unseen' = unseen
               \/ lost' = lost /\ unseen' = unseen \cup {cur}
      /\ UNCHANGED <<turnVars, call, result, final, shown, cur, want>>
  BY DEF CreateChild, Goto, history
<1>3. TypeOK'
  BY <1>1, <1>2 DEF IInv, TypeOK, turnVars, Statuses, Places, ChildPlaces
<1>4. PlaceInv' /\ WantInv'
  BY <1>1, <1>2 DEF IInv, PlaceInv, WantInv, InCall, ChildPlaces
<1>5. CallInv'
  BY <1>1, <1>2 DEF IInv, TypeOK, CallInv
<1>6. ShownInv'
  BY <1>2 DEF IInv, ShownInv, SourceMatches
<1>7. Owned'
  BY <1>1, <1>2 DEF IInv, TypeOK, Owned, AtWork, ChildPlaces
<1>8. UnseenInv'
  <2>1. cur \notin unseen
    BY <1>1 DEF IInv, UnseenInv
  <2>2. final[cur] = "none" /\ result[cur] \notin Outputs
    BY <1>1 DEF IInv, CallInv, PlaceInv
  <2>3. child'[cur] = "running" /\ \A c \in Calls : c # cur => child'[c] = child[c]
    BY <1>1, <1>2 DEF IInv, TypeOK
  <2> QED
    BY <1>1, <1>2, <2>1, <2>2, <2>3 DEF IInv, TypeOK, UnseenInv, AtWork, ChildPlaces
<1> QED
  BY <1>3, <1>4, <1>5, <1>6, <1>7, <1>8, OneMoreChild DEF IInv

LEMMA CompleteKeeps == ASSUME IInv, CompleteChild PROVE IInv'
<1>1. /\ at = "answered" /\ cur \in Calls /\ hand \in Outputs
      /\ call[cur] \in {"running", "cancelled"} /\ child[cur] = "running"
  BY DEF IInv, PlaceInv, InCall, ChildPlaces, CompleteChild
<1>2. /\ child' = [child EXCEPT ![cur] = "completed"]
      /\ final' = [final EXCEPT ![cur] = hand]
      /\ \/ at' = "save" /\ hand' \in {hand, "failed"}
         \/ at' = "failing" /\ hand' = "raise"
      /\ UNCHANGED <<turnVars, call, result, shown, cur, want, lost, unseen>>
  BY DEF CompleteChild, Goto, history
<1>3. TypeOK'
  BY <1>1, <1>2 DEF IInv, TypeOK, turnVars, Statuses, Places, ChildPlaces
<1>4. child'[cur] = "completed" /\ final'[cur] = hand
  BY <1>1, <1>2 DEF IInv, TypeOK
<1>5. PlaceInv' /\ WantInv'
  BY <1>1, <1>2, <1>4 DEF PlaceInv, WantInv
<1>6. CallInv'
  <2>1. hand # "none"
    BY <1>1, ProposalsAssumption DEF Outputs
  <2>2. \A c \in Calls : c # cur => child'[c] = child[c] /\ final'[c] = final[c]
    BY <1>2 DEF IInv, TypeOK
  <2> QED
    BY <1>1, <1>2, <1>4, <2>1, <2>2 DEF IInv, CallInv
<1>7. ShownInv'
  BY <1>2 DEF IInv, ShownInv, SourceMatches
<1>8. Owned' /\ WithinLimit'
  <2>1. \A c \in Calls : child'[c] = "none" <=> child[c] = "none"
    BY <1>1, <1>2 DEF IInv, TypeOK
  <2>2. Owned'
    BY <1>1, <1>2 DEF IInv, TypeOK, Owned, AtWork
  <2> QED
    BY <2>1, <2>2, SameChildren DEF IInv
<1>9. UnseenInv'
  <2>1. cur \notin unseen
    BY <1>1 DEF IInv, UnseenInv, AtWork, ChildPlaces
  <2>2. \A c \in unseen : final'[c] = final[c] /\ child'[c] = child[c]
    BY <1>2, <2>1 DEF IInv, TypeOK
  <2> QED
    BY <1>1, <1>2, <2>2, StillUnseen DEF AtWork, ChildPlaces
<1> QED
  BY <1>3, <1>5, <1>6, <1>7, <1>8, <1>9 DEF IInv

LEMMA FailKeeps == ASSUME IInv, FailChild PROVE IInv'
<1>1. at = "failing" /\ cur \in Calls /\ call[cur] \in {"running", "cancelled"}
  BY DEF IInv, PlaceInv, InCall, ChildPlaces, FailChild
<1>2. /\ child' = [child EXCEPT ![cur] = Failed(@)]
      /\ \/ at' = "end" /\ hand' = "raise"
         \/ at' = "save" /\ hand' = "failed"
      /\ UNCHANGED <<turnVars, call, result, final, shown, cur, want, lost, unseen>>
  BY DEF FailChild, Goto, history
<1>3. \A c \in Calls : \/ child'[c] = child[c]
                       \/ child[c] = "running" /\ child'[c] = "failed"
  BY <1>2 DEF IInv, TypeOK, Failed
<1>4. child' \in [Calls -> Statuses \cup {"none"}] /\ child'[cur] # "running"
  BY <1>1, <1>2 DEF IInv, TypeOK, Failed, Statuses
<1>5. TypeOK'
  BY <1>1, <1>2, <1>4 DEF IInv, TypeOK, turnVars, Places
<1>6. PlaceInv' /\ WantInv'
  BY <1>1, <1>2 DEF PlaceInv, WantInv
<1>7. CallInv'
  BY <1>2, <1>3 DEF IInv, CallInv
<1>8. ShownInv'
  BY <1>2 DEF IInv, ShownInv, SourceMatches
<1>9. Owned' /\ WithinLimit'
  BY <1>2, <1>3, <1>4, SameChildren DEF IInv, Owned, AtWork
<1>10. UnseenInv'
  <2>1. at' \notin ChildPlaces
    BY <1>2 DEF ChildPlaces
  <2>2. \A c \in unseen : child'[c] = "none" => child[c] = "none"
    BY <1>3 DEF IInv, TypeOK
  <2> QED
    BY <1>2, <2>1, <2>2, StillUnseen
<1> QED
  BY <1>5, <1>6, <1>7, <1>8, <1>9, <1>10 DEF IInv

LEMMA SaveKeeps == ASSUME IInv, Save PROVE IInv'
<1>1. /\ at = "save" /\ cur \in Calls
      /\ \/ hand = "failed"
         \/ hand \in Outputs /\ child[cur] = "completed" /\ final[cur] = hand
      /\ call[cur] \in {"running", "cancelled"}
  BY DEF IInv, PlaceInv, InCall, Save
<1>2. /\ at' = "decide" /\ hand' = "none" /\ cur' = NoCall
      /\ UNCHANGED <<turnVars, child, final, shown, want, lost, unseen>>
  BY DEF Save, Goto, history
<1>3. PICK s \in {"failed", "completed"} :
        /\ s = "completed" <=> hand # "failed"
        /\ \/ /\ call' = [call EXCEPT ![cur] = s]
              /\ result' = [result EXCEPT ![cur] = hand]
           \/ UNCHANGED <<call, result>>
  BY DEF Save
<1>4. TypeOK'
  BY <1>1, <1>2, <1>3 DEF IInv, TypeOK, turnVars, Statuses, Places
<1>5. PlaceInv' /\ WantInv'
  BY <1>2, Free DEF InCall, ChildPlaces
<1>6. \A c \in Calls : c # cur => call'[c] = call[c] /\ result'[c] = result[c]
  BY <1>3 DEF IInv, TypeOK
<1>7. /\ call'[cur] = "completed" => child[cur] = "completed" /\ result'[cur] = final[cur]
      /\ result'[cur] \in Outputs => call'[cur] = "completed"
  <2>1. "failed" \notin Outputs
    BY ProposalsAssumption DEF Outputs
  <2> QED
    BY <1>1, <1>3, <2>1 DEF IInv, TypeOK, CallInv
<1>8. CallInv'
  BY <1>1, <1>2, <1>3, <1>6, <1>7 DEF IInv, TypeOK, CallInv
<1>9. \A w : SourceMatches(w) => SourceMatches(w)'
  BY <1>1, <1>6 DEF SourceMatches
<1>10. ShownInv'
  BY <1>2, <1>9 DEF IInv, ShownInv
<1>11. Owned' /\ WithinLimit'
  BY <1>1, <1>2, SameChildren DEF IInv, Owned, AtWork, ChildPlaces
<1>12. UnseenInv'
  <2>1. \A c \in unseen : result'[c] = result[c] \/ result'[c] \notin Outputs
    <3>1. CASE cur \in unseen
      <4>1. hand = "failed" /\ "failed" \notin Outputs
        BY <1>1, <3>1, ProposalsAssumption DEF IInv, UnseenInv, CallInv, Outputs
      <4> QED
        BY <1>1, <1>3, <1>6, <4>1 DEF IInv, TypeOK
    <3>2. CASE cur \notin unseen
      BY <1>6, <3>2 DEF IInv, TypeOK
    <3> QED
      BY <3>1, <3>2
  <2> QED
    BY <1>2, <2>1, StillUnseen DEF ChildPlaces
<1> QED
  BY <1>4, <1>5, <1>8, <1>10, <1>11, <1>12 DEF IInv

LEMMA CrashKeeps == ASSUME IInv, Crash PROVE IInv'
<1>1. /\ UNCHANGED <<turnVars, rowVars>>
      /\ lost' \in {lost, lost \cup {cur}} /\ (at \in ChildPlaces => cur \in lost')
      /\ at' = "over" /\ hand' = "none" /\ cur' = NoCall /\ want' = {}
      /\ unseen' = unseen
  BY DEF Crash, Goto
<1>2. lost' \subseteq Calls
  BY DEF Crash, IInv, TypeOK, PlaceInv, InCall
<1>3. PlaceInv' /\ WantInv'
  BY <1>1, Free DEF InCall, ChildPlaces
<1> QED
  BY <1>1, <1>2, <1>3, Moves DEF Places, ChildPlaces

-----------------------------------------------------------------------------
LEMMA StepKeeps == IInv /\ [Next]_vars => IInv'
<1> SUFFICES ASSUME IInv, [Next]_vars PROVE IInv'
  OBVIOUS
<1>1. CASE Parent
  <2>1. ASSUME NEW c \in Calls, DecideRun(c) PROVE IInv'
    BY <2>1, DecideRunKeeps
  <2>2. CASE Finish
    <3>1. /\ at \notin ChildPlaces
          /\ parent' \in {parent, "completed", "failed"} /\ call' \in {call, Closed}
          /\ at' = "over" /\ hand' = "none" /\ cur' = NoCall
          /\ UNCHANGED <<timeUp, archived, result, child, final, shown, want, history>>
      BY <2>2 DEF Finish, Goto, ChildPlaces
    <3>2. /\ parent' \in Statuses
          /\ child' \in [Calls -> Statuses \cup {"none"}]
          /\ \A c \in Calls : child'[c] = child[c]
      BY <3>1 DEF IInv, TypeOK, Statuses
    <3> QED
      BY <3>1, <3>2, EndsKeep
  <2> QED
    BY <1>1, <2>1, <2>2, LoopKeeps, ShowKeeps DEF Parent
<1>2. CASE RunTool
  BY <1>2, CallMovesKeep, CreateKeeps, CompleteKeeps, FailKeeps, SaveKeeps DEF RunTool
<1>3. CASE TimeUp \/ Archive
  <2>1. /\ UNCHANGED <<parent, rowVars, procVars, lost, unseen>>
        /\ timeUp' \in BOOLEAN /\ archived' \in BOOLEAN
    BY <1>3 DEF TimeUp, Archive, IInv, TypeOK, history
  <2>2. TypeOK'
    BY <2>1 DEF IInv, TypeOK, rowVars, procVars
  <2>3. PlaceInv' /\ WantInv' /\ CallInv' /\ ShownInv'
    BY <2>1 DEF IInv, PlaceInv, WantInv, CallInv, ShownInv, SourceMatches, rowVars, procVars
  <2>4. Owned' /\ UnseenInv' /\ WithinLimit'
    BY <2>1 DEF IInv, Owned, UnseenInv, AtWork, WithinLimit, rowVars, procVars
  <2> QED
    BY <2>2, <2>3, <2>4 DEF IInv
<1>4. CASE Interrupt
  <2>1. /\ parent' \in Statuses
        /\ child' \in [Calls -> Statuses \cup {"none"}]
        /\ \A c \in Calls : child'[c] = child[c]
    BY <1>4 DEF Interrupt, IInv, TypeOK, Statuses
  <2> QED
    BY <1>4, <2>1, EndsKeep DEF Interrupt
<1>5. CASE RecoverAll
  <2>1. parent' \in Statuses /\ call' \in {call, Closed}
    BY <1>5 DEF RecoverAll, IInv, TypeOK, Statuses, Failed
  <2>2. /\ child' \in [Calls -> Statuses \cup {"none"}]
        /\ \A c \in Calls : \/ child'[c] = child[c]
                            \/ child[c] = "running" /\ child'[c] = "failed"
    BY <1>5 DEF RecoverAll, IInv, TypeOK, Statuses, Failed
  <2> QED
    BY <1>5, <2>1, <2>2, EndsKeep DEF RecoverAll
<1>6. CASE Crash
  BY <1>6, CrashKeeps
<1>7. CASE UNCHANGED vars
  <2>1. UNCHANGED <<turnVars, rowVars, procVars, lost, unseen>>
    BY <1>7 DEF vars, history
  <2>2. TypeOK' /\ PlaceInv' /\ WantInv'
    BY <2>1 DEF IInv, TypeOK, PlaceInv, WantInv, SourceMatches, turnVars, rowVars, procVars
  <2>3. CallInv' /\ ShownInv' /\ Owned' /\ UnseenInv' /\ WithinLimit'
    BY <2>1 DEF IInv, CallInv, ShownInv, SourceMatches, Owned, UnseenInv, AtWork, WithinLimit,
       rowVars, procVars
  <2> QED
    BY <2>2, <2>3 DEF IInv
<1> QED
  BY <1>1, <1>2, <1>3, <1>4, <1>5, <1>6, <1>7 DEF Next

LEMMA Always == Spec => []IInv
BY Initially, StepKeeps, PTL DEF Spec

-----------------------------------------------------------------------------
\* Every variable of ChildRuns keeps its type in every reachable state.
THEOREM ChildTypes == Spec => []TypeOK
<1>1. IInv => TypeOK
  BY DEF IInv
<1> QED
  BY <1>1, Always, PTL

\* Whatever is shown as a proposal is the stored output of a completed child of
\* this turn (propose_* against the results of run_*).
THEOREM ProposalsAudited == Spec => []ProposalIsAudited
<1>1. IInv => ProposalIsAudited
  BY DEF IInv, CallInv, ShownInv, SourceMatches, ProposalIsAudited
<1> QED
  BY <1>1, Always, PTL

\* However its calls end, a turn creates no more children than the limit
\* (_create_child).
THEOREM ChildrenWithinLimit == Spec => []WithinLimit
<1>1. IInv => WithinLimit
  BY DEF IInv
<1> QED
  BY <1>1, Always, PTL

\* A child that runs has somebody who works on it, unless the database failed, the
\* process died, or the transaction that created it was cut off at its commit, in
\* which case it is never run (_create_child, _run_child, _fail_child).
THEOREM ChildrenEnd == Spec => []NoOrphan
<1>1. IInv => NoOrphan
  BY DEF IInv, Owned, UnseenInv, NoOrphan
<1> QED
  BY <1>1, Always, PTL

-----------------------------------------------------------------------------
\* The step of LateParentDoesNothing.
Late == ~Running => /\ UNCHANGED <<parent, call, result, shown>>
                    /\ \A c \in Calls : child[c] = "none" => child'[c] = "none"

\* A parent whose turn was taken from it creates no child, stores no result and
\* shows nothing (every write looks at the turn under its lock).
THEOREM LateParent == Spec => LateParentDoesNothing
<1>1. IInv /\ [Next]_vars => [Late]_vars
  <2> SUFFICES ASSUME IInv, Next, ~Running PROVE Late
    BY DEF Late
  <2>1. UNCHANGED <<parent, call, result, shown>>
    <3>1. CASE RecoverAll
      BY <3>1 DEF RecoverAll, Failed, Running
    <3>2. CASE Parent
      BY <3>2 DEF Parent, DecideRun, DecidePropose, DecideEnd, Source, CheckCampaign, Show, Finish,
         rowVars, turnVars
    <3>3. CASE RunTool
      BY <3>3 DEF RunTool, CheckTime, CreateChild, CreateRefused, Build, ChildAnswers, ChildFails,
         CompleteChild, CompleteRefused, CompleteErrs, CutOff, FailChild, FailChildErrs, Save,
         rowVars, turnVars
    <3> QED
      BY <3>1, <3>2, <3>3 DEF Next, TimeUp, Archive, Interrupt, Crash, rowVars, turnVars
  <2>2. \A c \in Calls : child[c] = "none" => child'[c] = "none"
    <3>1. CASE CreateChild
      BY <3>1 DEF CreateChild, MayCreate
    <3>2. CASE CompleteChild
      BY <3>2 DEF CompleteChild, IInv, TypeOK
    <3>3. CASE FailChild
      BY <3>3 DEF FailChild, Failed, IInv, TypeOK
    <3>4. CASE RecoverAll
      BY <3>4 DEF RecoverAll, Failed
    <3>5. CASE UNCHANGED child
      BY <3>5
    <3>6. Parent => UNCHANGED child
      BY DEF Parent, DecideRun, DecidePropose, DecideEnd, Source, CheckCampaign, Show, Finish,
         rowVars
    <3>7. RunTool => CreateChild \/ CompleteChild \/ FailChild \/ UNCHANGED child
      BY DEF RunTool, CheckTime, CreateRefused, Build, ChildAnswers, ChildFails, CompleteRefused,
         CompleteErrs, CutOff, FailChildErrs, Save, rowVars
    <3> QED
      BY <3>1, <3>2, <3>3, <3>4, <3>5, <3>6, <3>7
         DEF Next, TimeUp, Archive, Interrupt, Crash, rowVars
  <2> QED
    BY <2>1, <2>2 DEF Late
<1>2. [][Late]_vars => LateParentDoesNothing
  BY PTL DEF LateParentDoesNothing, Late
<1> QED
  BY <1>1, <1>2, Always, PTL DEF Spec

=============================================================================
