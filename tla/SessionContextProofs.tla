------------------------ MODULE SessionContextProofs ------------------------
(***************************************************************************)
(* Proofs about SessionContext for any number of turns and checkpoints:    *)
(* the agent knows the whole conversation, however often it was summarised *)
(* and invalidated, and, unless executions run on after their turn was     *)
(* interrupted, a quarantined text stays out of summaries and contexts.    *)
(***************************************************************************)
EXTENDS SessionContext, FiniteSetTheorems, TLAPS

Checkpoint == [through : Turns, sources : SUBSET Turns, text : SUBSET Turns, valid : BOOLEAN]
Context == [built : BOOLEAN, summarised : SUBSET Turns, verbatim : SUBSET Turns, text : SUBSET Turns]

TurnTypes ==
  /\ kind \in [Turns -> {"none", "chat", "api"}]
  /\ status \in [Turns -> {"none", "running"} \cup Ended]

ContextTypes ==
  /\ quarantined \subseteq Turns
  /\ checkpoints \in Seq(Checkpoint)
  /\ step \in [Turns -> {"idle", "rows", "decide", "save"}]
  /\ base \in [Turns -> Nat]
  /\ rows \in [Turns -> SUBSET Turns]
  /\ originals \in [Turns -> SUBSET Turns]
  /\ context \in [Turns -> Context]

Chat(t) == kind[t] = "chat"

\* Turns are opened in their order, and a chat turn has ended when the next opens.
TurnInv ==
  /\ \A t \in Turns : kind[t] = "none" <=> status[t] = "none"
  /\ \A s, t \in Turns : s < t /\ kind[t] # "none" => kind[s] # "none"
  /\ \A s, t \in Turns : s < t /\ Chat(s) /\ Chat(t) => status[s] \in Ended

\* A checkpoint has the chat turns up to its boundary that completed, nothing that
\* did not, and was made in a chat turn that had a later one to give as it is.
CheckpointInv(c) ==
  LET b == checkpoints[c].through IN
  /\ checkpoints[c].sources \subseteq {s \in Completed : s <= b}
  /\ {s \in Completed : Chat(s) /\ s <= b} \subseteq checkpoints[c].sources
  /\ checkpoints[c].text \subseteq checkpoints[c].sources
  /\ \E t \in Turns : Chat(t) /\ \E l \in Completed : b < l /\ l < t

Read == {"decide", "save"}

\* A build is that of a chat turn; with its checkpoint it has a turn after the
\* boundary, and what it has read are the completed turns from there.
BuildInv(t) ==
  /\ step[t] # "idle" => Chat(t)
  /\ step[t] = "idle" => base[t] = 0
  /\ step[t] \notin Read => rows[t] = {} /\ originals[t] = {}
  /\ base[t] # 0 => /\ base[t] \in DOMAIN checkpoints
                    /\ \E l \in Completed : Through(base[t]) < l /\ l < t
  /\ step[t] \in Read =>
       /\ rows[t] \subseteq CompletedBetween(Through(base[t]), t)
       /\ {s \in CompletedBetween(Through(base[t]), t) : Chat(s)} \subseteq rows[t]
       /\ originals[t] \subseteq rows[t]
       /\ base[t] # 0 => rows[t] # {}
  /\ step[t] = "save" => Compactable(rows[t]) # {}

Knows(t) ==
  /\ {s \in Completed : Chat(s) /\ s < t} \subseteq Given(t)
  /\ Given(t) \subseteq Completed
  /\ context[t].summarised \cap context[t].verbatim = {}
  /\ \A s \in context[t].summarised : \E l \in context[t].verbatim : s < l

ContextInv(t) ==
  IF context[t].built THEN Chat(t) /\ Knows(t) ELSE context[t].text = {}

Clean(T) == T \cap quarantined = {}

\* Only the turn that is open builds, and what it works with is not quarantined.
CleanInv ==
  /\ \A c \in DOMAIN checkpoints : Valid(c) => Clean(checkpoints[c].text)
  /\ \A t \in Turns :
       /\ step[t] # "idle" => t \in OpenChats
       /\ base[t] # 0 => Clean(Text(base[t]))
       /\ Clean(originals[t])
       /\ t \in OpenChats => Clean(context[t].text)

IInv ==
  /\ TurnTypes /\ ContextTypes /\ TurnInv
  /\ \A c \in DOMAIN checkpoints : CheckpointInv(c)
  /\ \A t \in Turns : BuildInv(t) /\ ContextInv(t)
  /\ ~LateExecutions => CleanInv

LEMMA Greatest ==
  ASSUME NEW n \in Nat, NEW S, S \subseteq 1 .. n, S # {}
  PROVE  \E m \in S : \A s \in S : s <= m
<1>. DEFINE Gap == {n - s : s \in S}
<1>0. \A s \in S : s \in 1 .. n /\ n - s \in Nat
  OBVIOUS
<1>1. Gap \subseteq Nat /\ Gap # {}
  <2>1. \A g \in Gap : \E s \in S : g = n - s
    OBVIOUS
  <2>2. \A s \in S : n - s \in Gap
    OBVIOUS
  <2>. HIDE DEF Gap
  <2>. QED
    BY <1>0, <2>1, <2>2
<1>. HIDE DEF Gap
<1>2. \E x \in Gap : \A y \in Gap : ~(<<y, x>> \in OpToRel(<, Nat))
  BY <1>1, NatLessThanWellFounded, WFMin
<1>3. PICK x \in Gap : \A y \in Gap : ~(<<y, x>> \in OpToRel(<, Nat))
  BY <1>2
<1>4. \A y \in Gap : ~(y < x)
  BY <1>1, <1>3 DEF OpToRel
<1>5. PICK m \in S : x = n - m
  BY <1>3 DEF Gap
<1>6. \A s \in S : n - s \in Gap
  BY DEF Gap
<1>. QED
  BY <1>0, <1>4, <1>5, <1>6

LEMMA CheckpointTypes ==
  ASSUME ContextTypes
  PROVE  /\ Len(checkpoints) \in Nat /\ DOMAIN checkpoints = 1 .. Len(checkpoints)
         /\ \A c \in DOMAIN checkpoints :
              /\ checkpoints[c] \in Checkpoint
              /\ checkpoints[c].through \in Turns
              /\ checkpoints[c].sources \subseteq Turns
              /\ checkpoints[c].text \subseteq Turns
<1>1. checkpoints \in Seq(Checkpoint)
  BY DEF ContextTypes
<1>2. Len(checkpoints) \in Nat /\ DOMAIN checkpoints = 1 .. Len(checkpoints)
  BY <1>1
<1>3. \A c \in 1 .. Len(checkpoints) : checkpoints[c] \in Checkpoint
  BY <1>1
<1>. QED
  BY <1>2, <1>3 DEF Checkpoint

LEMMA Initially == Init => IInv
<1>. SUFFICES ASSUME Init PROVE IInv
  OBVIOUS
<1>1. TurnTypes /\ TurnInv
  BY DEF Init, TurnInit, TurnTypes, TurnInv, Chat
<1>2. ContextTypes
  BY DEF Init, ContextTypes, NoContext, Context
<1>3. DOMAIN checkpoints = {}
  BY DEF Init
<1>4. \A t \in Turns : BuildInv(t) /\ ContextInv(t)
  BY DEF Init, BuildInv, ContextInv, NoContext, Read
<1>5. CleanInv
  BY <1>3 DEF Init, CleanInv, Clean, NoContext
<1>. QED
  BY <1>1, <1>2, <1>3, <1>4, <1>5 DEF IInv

-----------------------------------------------------------------------------
(* Turns.                                                                  *)
\* What a step may do to the turns: an ended chat turn stays, and so does what
\* completed; only the next turn opens.
TurnsMove ==
  /\ TurnTypes' /\ TurnInv'
  /\ \A t \in Turns : kind[t] # "none" => kind'[t] = kind[t]
  /\ \A t \in Turns : Chat(t) /\ status[t] \in Ended => status'[t] = status[t]
  /\ \A t \in Turns : status[t] = "completed" => status'[t] = "completed"
  /\ \A t \in Turns : Chat(t) /\ status[t] = "running" => status'[t] \in {"running"} \cup Ended

LEMMA OpenMoves ==
  ASSUME TurnTypes, TurnInv, NEW t \in Turns, IsNext(t), NEW k \in {"chat", "api"},
         kind' = [kind EXCEPT ![t] = k],
         \/ k = "chat" /\ status' = [Interrupted(OpenChats) EXCEPT ![t] = "running"]
         \/ k = "api" /\ status' = [status EXCEPT ![t] = "running"]
  PROVE  TurnsMove
<1>1. kind[t] = "none" /\ status[t] = "none"
  BY DEF IsNext, TurnInv
<1>2. \A s \in Turns : kind'[s] = IF s = t THEN k ELSE kind[s]
  BY DEF TurnTypes
<1>3. \A s \in Turns :
        status'[s] = IF s = t THEN "running"
                     ELSE IF k = "chat" /\ s \in OpenChats THEN "interrupted" ELSE status[s]
  BY DEF TurnTypes, Interrupted
<1>4. TurnTypes'
  BY DEF TurnTypes, Interrupted, Ended
<1>5. \A s \in Turns : kind'[s] = "none" <=> status'[s] = "none"
  BY <1>2, <1>3 DEF TurnInv, OpenChats
<1>6. \A s \in Turns : s < t => kind[s] # "none"
  BY DEF IsNext, Turns
<1>7. \A u \in Turns : t < u => kind[u] = "none"
  BY <1>1 DEF TurnInv
<1>8. \A s, u \in Turns : s < u /\ kind'[u] # "none" => kind'[s] # "none"
  BY <1>2, <1>6 DEF TurnInv
<1>9. ASSUME NEW s \in Turns, NEW u \in Turns, s < u, kind'[s] = "chat", kind'[u] = "chat"
      PROVE  status'[s] \in Ended
  <2>1. s # t
    BY <1>2, <1>7, <1>9 DEF Turns
  <2>2. kind[s] = "chat"
    BY <1>2, <1>9, <2>1
  <2>3. CASE u = t
    BY <1>2, <1>3, <1>9, <2>1, <2>2, <2>3 DEF TurnTypes, TurnInv, OpenChats, Ended
  <2>4. CASE u # t
    <3>1. status[s] \in Ended
      BY <1>2, <1>9, <2>2, <2>4 DEF TurnInv, Chat
    <3>. QED
      BY <1>3, <2>1, <3>1 DEF OpenChats, Ended
  <2>. QED
    BY <2>3, <2>4
<1>10. TurnInv'
  BY <1>5, <1>8, <1>9 DEF TurnInv, Chat
<1>11. \A s \in Turns : kind[s] # "none" => kind'[s] = kind[s]
  BY <1>1, <1>2
<1>12. \A s \in Turns : Chat(s) /\ status[s] \in Ended => status'[s] = status[s]
  BY <1>1, <1>3 DEF OpenChats, Ended, Chat
<1>13. \A s \in Turns : status[s] = "completed" => status'[s] = "completed"
  BY <1>1, <1>3 DEF OpenChats
<1>14. \A s \in Turns : Chat(s) /\ status[s] = "running" => status'[s] \in {"running"} \cup Ended
  BY <1>3 DEF Ended
<1>. QED
  BY <1>4, <1>10, <1>11, <1>12, <1>13, <1>14 DEF TurnsMove

LEMMA EndMoves ==
  ASSUME TurnTypes, TurnInv, kind' = kind, TurnTypes',
         \A t \in Turns : status'[t] # status[t] => status[t] = "running" /\ status'[t] \in Ended
  PROVE  TurnsMove
<1>1. "running" \notin Ended /\ "none" \notin Ended /\ "completed" \in Ended
  BY DEF Ended
<1>2. TurnInv'
  BY <1>1 DEF TurnInv, Chat
<1>. QED
  BY <1>1, <1>2 DEF TurnsMove

LEMMA TurnStepMoves ==
  ASSUME TurnTypes, TurnInv, TurnStep
  PROVE  TurnsMove
<1>1. ASSUME NEW t \in Turns, OpenApi(t) PROVE TurnsMove
  BY <1>1, OpenMoves DEF OpenApi
<1>2. ASSUME NEW t \in Turns, OpenChat(t, NoTurn) PROVE TurnsMove
  BY <1>2, OpenMoves DEF OpenChat
<1>3. ASSUME NEW t \in Turns, EndApi(t) PROVE TurnsMove
  BY <1>3, EndMoves DEF EndApi, TurnTypes, Ended
<1>4. ASSUME NEW t \in Turns, NEW s \in {"completed", "failed"}, EndChat(t, s, FALSE)
      PROVE  TurnsMove
  BY <1>4, EndMoves DEF EndChat, OpenChats, TurnTypes, Ended
<1>5. CASE Interrupt
  <2>. PICK R \in SUBSET OpenChats : status' = Interrupted(R)
    BY <1>5 DEF Interrupt
  <2>1. \A t \in Turns : status'[t] = IF t \in R THEN "interrupted" ELSE status[t]
    BY DEF Interrupted
  <2>2. TurnTypes' /\ kind' = kind
    BY <1>5 DEF Interrupt, Interrupted, TurnTypes, Ended
  <2>. QED
    BY <2>1, <2>2, EndMoves DEF OpenChats, Ended
<1>. QED
  BY <1>1, <1>2, <1>3, <1>4, <1>5 DEF TurnStep

\* Before a chat turn no other completes after it was opened.
LEMMA Settled ==
  ASSUME TurnTypes, TurnInv, TurnsMove, NEW s \in Turns, NEW t \in Turns, Chat(t), s < t,
         kind'[s] = "chat"
  PROVE  Chat(s) /\ status'[s] = status[s]
<1>1. kind[s] # "none"
  BY DEF TurnInv, Chat
<1>2. Chat(s)
  BY <1>1 DEF TurnsMove, Chat
<1>. QED
  BY <1>2 DEF TurnsMove, TurnInv

LEMMA TurnCheckpoints ==
  ASSUME TurnTypes, ContextTypes, TurnInv, TurnsMove, UNCHANGED checkpoints,
         NEW c \in DOMAIN checkpoints, CheckpointInv(c)
  PROVE  CheckpointInv(c)'
<1>. DEFINE b == checkpoints[c].through
<1>0. checkpoints[c] \in Checkpoint /\ b \in Turns
  BY CheckpointTypes
<1>. PICK t \in Turns : Chat(t) /\ \E l \in Completed : b < l /\ l < t
  BY DEF CheckpointInv
<1>1. Completed \subseteq Completed'
  BY DEF TurnsMove, Completed
<1>2. Chat(t)'
  BY DEF TurnsMove, Chat
<1>3. ASSUME NEW s \in Turns, s \in Completed', Chat(s)', s <= b
      PROVE  s \in Completed /\ Chat(s)
  <2>1. s < t
    BY <1>0, <1>3 DEF Turns, Completed
  <2>. QED
    BY <1>3, <2>1, Settled DEF Chat, Completed
<1>. QED
  BY <1>1, <1>2, <1>3 DEF CheckpointInv, Completed

LEMMA TurnBuilds ==
  ASSUME TurnTypes, ContextTypes, TurnInv, TurnsMove, TurnStep,
         NEW t \in Turns, BuildInv(t), ContextInv(t)
  PROVE  BuildInv(t)' /\ ContextInv(t)'
<1>1. CASE Over(t)
  <2>1. /\ step'[t] = "idle" /\ base'[t] = 0 /\ rows'[t] = {} /\ originals'[t] = {}
        /\ context'[t] = NoContext
    BY <1>1 DEF TurnStep, EndExecutions
  <2>. QED
    BY <2>1 DEF BuildInv, ContextInv, NoContext, Read
<1>2. CASE ~Over(t)
  <2>0. /\ step'[t] = step[t] /\ base'[t] = base[t] /\ rows'[t] = rows[t]
        /\ originals'[t] = originals[t] /\ context'[t] = context[t]
        /\ checkpoints' = checkpoints
    BY <1>2 DEF TurnStep, EndExecutions
  <2>1. Completed \subseteq Completed'
    BY DEF TurnsMove, Completed
  <2>2. Chat(t) => Chat(t)'
    BY DEF TurnsMove, Chat
  <2>3. \A s \in Turns : s \in Completed' /\ Chat(s)' /\ s < t /\ Chat(t) => s \in Completed /\ Chat(s)
    BY Settled DEF Chat, Completed
  <2>4. BuildInv(t)'
    <3>. DEFINE a == Through(base[t])
    <3>0. Through(base[t])' = a
      BY <2>0 DEF Through
    <3>1. base[t] # 0 => \E l \in Completed' : a < l /\ l < t
      BY <2>1 DEF BuildInv
    <3>. HIDE DEF a
    <3>2. CompletedBetween(Through(base[t]), t)' = {s \in Completed' : a < s /\ s < t}
      BY <3>0 DEF CompletedBetween
    <3>3. step[t] \in Read =>
            /\ rows[t] \subseteq {s \in Completed' : a < s /\ s < t}
            /\ {s \in {u \in Completed' : a < u /\ u < t} : Chat(s)'} \subseteq rows[t]
      BY <2>1, <2>3 DEF BuildInv, CompletedBetween, a, Read, Completed
    <3>. QED
      BY <2>0, <2>2, <3>0, <3>1, <3>2, <3>3 DEF BuildInv, Compactable
  <2>5. ContextInv(t)'
    <3>1. CASE context[t].built
      <4>1. Chat(t) /\ Knows(t)
        BY <3>1 DEF ContextInv
      <4>2. {s \in Completed' : Chat(s)' /\ s < t} \subseteq Given(t)
        BY <2>3, <4>1 DEF Knows, Completed
      <4>3. Given(t)' = Given(t)
        BY <2>0 DEF Given
      <4>4. Knows(t)'
        BY <2>0, <2>1, <4>1, <4>2, <4>3 DEF Knows
      <4>. QED
        BY <2>0, <2>2, <3>1, <4>1, <4>4 DEF ContextInv
    <3>2. CASE ~context[t].built
      BY <2>0, <3>2 DEF ContextInv
    <3>. QED
      BY <3>1, <3>2
  <2>. QED
    BY <2>4, <2>5
<1>. QED
  BY <1>1, <1>2

LEMMA TurnTypesKept ==
  ASSUME ContextTypes, TurnStep
  PROVE  ContextTypes'
<1>1. NoContext \in Context
  BY DEF NoContext, Context
<1>. QED
  BY <1>1 DEF ContextTypes, TurnStep, EndExecutions

LEMMA TurnClean ==
  ASSUME TurnTypes, ContextTypes, TurnInv, TurnsMove, TurnStep, ~LateExecutions, CleanInv,
         \A t \in Turns : BuildInv(t) /\ ContextInv(t)
  PROVE  CleanInv'
<1>0. UNCHANGED <<checkpoints, quarantined>>
  BY DEF TurnStep, EndExecutions
<1>1. \A c \in DOMAIN checkpoints' : Valid(c)' => Clean(checkpoints[c].text)'
  BY <1>0 DEF CleanInv, Valid, Clean
<1>. SUFFICES ASSUME NEW t \in Turns
              PROVE  /\ step'[t] # "idle" => t \in OpenChats'
                     /\ base'[t] # 0 => Clean(Text(base[t]))'
                     /\ Clean(originals[t])'
                     /\ t \in OpenChats' => Clean(context[t].text)'
  BY <1>0, <1>1 DEF CleanInv
<1>2. CASE Over(t)
  <2>1. /\ step'[t] = "idle" /\ base'[t] = 0 /\ originals'[t] = {}
        /\ context'[t] = NoContext
    BY <1>2 DEF TurnStep, EndExecutions
  <2>. QED
    BY <2>1 DEF Clean, NoContext
<1>3. CASE ~Over(t)
  <2>0. /\ step'[t] = step[t] /\ base'[t] = base[t]
        /\ originals'[t] = originals[t] /\ context'[t] = context[t]
    BY <1>3 DEF TurnStep, EndExecutions
  <2>1. status'[t] \notin Ended
    BY <1>3 DEF Over
  <2>2. t \in OpenChats => t \in OpenChats'
    BY <2>1 DEF OpenChats, TurnsMove, Chat
  <2>3. base'[t] # 0 => Clean(Text(base[t]))'
    BY <1>0, <2>0 DEF CleanInv, Clean, Text
  <2>4. t \in OpenChats' => Clean(context[t].text)
    <3>1. CASE t \in OpenChats
      BY <3>1 DEF CleanInv
    <3>2. CASE t \notin OpenChats /\ Chat(t)
      <4>1. status[t] \in Ended
        BY <3>2 DEF OpenChats, Chat, TurnInv, TurnTypes
      <4>. QED
        BY <2>1, <3>2, <4>1 DEF TurnsMove
    <3>3. CASE ~Chat(t)
      BY <3>3 DEF ContextInv, Clean
    <3>. QED
      BY <3>1, <3>2, <3>3
  <2>. QED
    BY <1>0, <2>0, <2>2, <2>3, <2>4 DEF CleanInv, Clean
<1>. QED
  BY <1>2, <1>3

LEMMA TurnKeeps ==
  ASSUME IInv, TurnStep
  PROVE  IInv'
<1>0. TurnsMove /\ checkpoints' = checkpoints
  BY TurnStepMoves DEF IInv, TurnStep, EndExecutions
<1>1. TurnTypes' /\ TurnInv' /\ ContextTypes'
  BY <1>0, TurnTypesKept DEF IInv, TurnsMove
<1>2. \A c \in DOMAIN checkpoints' : CheckpointInv(c)'
  BY <1>0, TurnCheckpoints DEF IInv
<1>3. \A t \in Turns : BuildInv(t)' /\ ContextInv(t)'
  BY <1>0, TurnBuilds DEF IInv
<1>4. ~LateExecutions => CleanInv'
  BY <1>0, TurnClean DEF IInv
<1>. QED
  BY <1>1, <1>2, <1>3, <1>4 DEF IInv

-----------------------------------------------------------------------------
(* Steps of one execution, which leave the turns.                          *)
\* Checkpoints stay but for being valid.
Extends ==
  \A c \in DOMAIN checkpoints :
    /\ c \in DOMAIN checkpoints'
    /\ checkpoints'[c].through = checkpoints[c].through
    /\ checkpoints'[c].sources = checkpoints[c].sources
    /\ checkpoints'[c].text = checkpoints[c].text

LEMMA SameExtends ==
  ASSUME UNCHANGED checkpoints
  PROVE  Extends
BY DEF Extends

LEMMA OldCheckpoints ==
  ASSUME UNCHANGED turnVars, Extends, NEW c \in DOMAIN checkpoints, CheckpointInv(c)
  PROVE  CheckpointInv(c)'
BY DEF Extends, CheckpointInv, turnVars, Completed, Chat

LEMMA SameTurn ==
  ASSUME UNCHANGED turnVars, Extends, NEW u \in Turns, BuildInv(u), ContextInv(u),
         step'[u] = step[u], base'[u] = base[u], rows'[u] = rows[u],
         originals'[u] = originals[u]
  PROVE  /\ BuildInv(u)'
         /\ context'[u] = context[u] => ContextInv(u)'
<1>1. Completed' = Completed /\ Chat(u)' = Chat(u) /\ kind' = kind
  BY DEF turnVars, Completed, Chat
<1>2. base[u] # 0 => base[u] \in DOMAIN checkpoints
  BY DEF BuildInv
<1>3. Through(base[u])' = Through(base[u])
  BY <1>2 DEF Extends, Through
<1>4. CompletedBetween(Through(base[u]), u)' = CompletedBetween(Through(base[u]), u)
  BY <1>1, <1>3 DEF CompletedBetween
<1>5. BuildInv(u)'
  BY <1>1, <1>2, <1>3, <1>4 DEF BuildInv, Compactable, Chat, Extends
<1>6. ASSUME context'[u] = context[u] PROVE ContextInv(u)'
  BY <1>1, <1>6 DEF ContextInv, Knows, Given, Chat
<1>. QED
  BY <1>5, <1>6

-----------------------------------------------------------------------------
(* The build.                                                              *)
LEMMA Latest ==
  ASSUME ContextTypes, NEW t \in Turns, LatestCheckpoint(t) # 0
  PROVE  LatestCheckpoint(t) \in Usable(t)
<1>1. Usable(t) # {}
  BY DEF LatestCheckpoint
<1>2. Usable(t) \subseteq 1 .. Len(checkpoints) /\ Len(checkpoints) \in Nat
  BY CheckpointTypes DEF Usable
<1>3. \E c \in Usable(t) : \A d \in Usable(t) : d <= c
  BY <1>1, <1>2, Greatest
<1>. QED
  BY <1>1, <1>3 DEF LatestCheckpoint

LEMMA Boundaries ==
  ASSUME NEW R, R \subseteq Turns, Compactable(R) # {}
  PROVE  /\ Boundary(Compactable(R)) \in Compactable(R)
         /\ \A l \in Compactable(R) : l <= Boundary(Compactable(R))
         /\ \E m \in R \ Compactable(R) : \A s \in R : s <= m
<1>1. R \subseteq 1 .. MaxTurns /\ MaxTurns \in Nat /\ R # {}
  BY MaxTurnsAssumption DEF Turns, Compactable
<1>2. PICK m \in R : \A s \in R : s <= m
  BY <1>1, Greatest
<1>3. m \notin Compactable(R)
  BY <1>1, <1>2 DEF Compactable
<1>4. Compactable(R) \subseteq 1 .. MaxTurns
  BY <1>1 DEF Compactable
<1>5. \E b \in Compactable(R) : \A l \in Compactable(R) : l <= b
  BY <1>1, <1>4, Greatest
<1>. QED
  BY <1>2, <1>3, <1>5 DEF Boundary

\* The turn that is open is the last of the chat turns.
LEMMA LastChat ==
  ASSUME TurnTypes, TurnInv, NEW t \in OpenChats, NEW u \in Turns, Chat(u)
  PROVE  u <= t
BY DEF TurnInv, OpenChats, Chat, Ended, Turns

LEMMA StartKeeps ==
  ASSUME IInv, NEW t \in Turns, StartBuild(t)
  PROVE  IInv'
<1>. DEFINE c == LatestCheckpoint(t)
<1>0. /\ UNCHANGED <<turnVars, quarantined, checkpoints, rows, originals, context>>
      /\ step[t] = "idle" /\ t \in OpenChats
      /\ step' = [step EXCEPT ![t] = "rows"] /\ base' = [base EXCEPT ![t] = c]
  BY DEF StartBuild
<1>1. c # 0 => c \in DOMAIN checkpoints /\ Valid(c) /\ Through(c) < t
  BY Latest DEF IInv, Usable, Through
<1>2. c \in Nat
  BY <1>1, CheckpointTypes DEF IInv
<1>3. ContextTypes'
  BY <1>0, <1>2 DEF IInv, ContextTypes
<1>4. TurnTypes' /\ TurnInv'
  BY <1>0 DEF IInv, TurnTypes, TurnInv, Chat, turnVars
<1>5. Extends
  BY <1>0, SameExtends
<1>6. \A d \in DOMAIN checkpoints' : CheckpointInv(d)'
  BY <1>0, <1>5, OldCheckpoints DEF IInv
<1>7. ASSUME NEW u \in Turns, u # t PROVE BuildInv(u)' /\ ContextInv(u)'
  <2>1. step'[u] = step[u] /\ base'[u] = base[u]
    BY <1>0, <1>7 DEF IInv, ContextTypes
  <2>. QED
    BY <1>0, <1>5, <2>1, SameTurn DEF IInv
<1>8. BuildInv(t)' /\ ContextInv(t)'
  <2>0. step'[t] = "rows" /\ base'[t] = c /\ Chat(t)' /\ rows[t] = {} /\ originals[t] = {}
    BY <1>0 DEF IInv, ContextTypes, OpenChats, Chat, turnVars, BuildInv, Read
  <2>1. ASSUME c # 0 PROVE \E l \in Completed : Through(c) < l /\ l < t
    <3>1. CheckpointInv(c) /\ Through(c) = checkpoints[c].through
      BY <1>1, <2>1 DEF IInv, Through
    <3>. PICK u \in Turns : Chat(u) /\ \E l \in Completed : checkpoints[c].through < l /\ l < u
      BY <3>1 DEF CheckpointInv
    <3>2. u <= t
      BY <1>0, LastChat DEF IInv
    <3>3. PICK l \in Completed : Through(c) < l /\ l < u
      BY <3>1
    <3>4. l < t
      BY <3>2, <3>3 DEF Completed, Turns
    <3>. QED
      BY <3>3, <3>4
  <2>2. Through(base[t])' = Through(c) /\ Completed' = Completed
    BY <1>0, <2>0 DEF Through, Completed, turnVars
  <2>3. BuildInv(t)'
    BY <1>0, <1>1, <2>0, <2>1, <2>2 DEF BuildInv, Read
  <2>4. ContextInv(t)'
    BY <1>0 DEF IInv, ContextInv, Knows, Given, Chat, Completed, turnVars
  <2>. QED
    BY <2>3, <2>4
<1>9. ASSUME ~LateExecutions PROVE CleanInv'
  <2>1. CleanInv
    BY <1>9 DEF IInv
  <2>2. c # 0 => Clean(Text(c))
    BY <1>1, <2>1 DEF CleanInv, Text
  <2>3. \A u \in Turns : base'[u] = (IF u = t THEN c ELSE base[u])
                         /\ step'[u] = (IF u = t THEN "rows" ELSE step[u])
    BY <1>0 DEF IInv, ContextTypes
  <2>. QED
    BY <1>0, <2>1, <2>2, <2>3 DEF CleanInv, Clean, Text, Valid, OpenChats, turnVars
<1>. QED
  BY <1>3, <1>4, <1>6, <1>7, <1>8, <1>9 DEF IInv

LEMMA ReadKeeps ==
  ASSUME IInv, NEW t \in Turns, ReadRows(t)
  PROVE  IInv'
<1>. DEFINE a == Through(base[t])
            R == CompletedBetween(a, t)
<1>0. /\ UNCHANGED <<turnVars, quarantined, checkpoints, base, context>>
      /\ step[t] = "rows" /\ step' = [step EXCEPT ![t] = "decide"]
      /\ rows' = [rows EXCEPT ![t] = R]
  BY DEF ReadRows
<1>1. R \subseteq Turns
  BY DEF CompletedBetween, Completed
<1>2. rows'[t] = R
  BY <1>0 DEF IInv, ContextTypes
<1>3. originals' = [originals EXCEPT ![t] = R \ quarantined]
  BY <1>2 DEF ReadRows
<1>. HIDE DEF R
<1>4. ContextTypes'
  BY <1>0, <1>1, <1>3 DEF IInv, ContextTypes
<1>5. TurnTypes' /\ TurnInv'
  BY <1>0 DEF IInv, TurnTypes, TurnInv, Chat, turnVars
<1>6. Extends
  BY <1>0, SameExtends
<1>7. \A d \in DOMAIN checkpoints' : CheckpointInv(d)'
  BY <1>0, <1>6, OldCheckpoints DEF IInv
<1>8. ASSUME NEW u \in Turns, u # t PROVE BuildInv(u)' /\ ContextInv(u)'
  <2>1. step'[u] = step[u] /\ base'[u] = base[u] /\ rows'[u] = rows[u] /\ originals'[u] = originals[u]
    BY <1>0, <1>3, <1>8 DEF IInv, ContextTypes
  <2>. QED
    BY <1>0, <1>6, <2>1, SameTurn DEF IInv
<1>9. BuildInv(t)' /\ ContextInv(t)'
  <2>0. /\ step'[t] = "decide" /\ base'[t] = base[t] /\ Chat(t)' /\ rows'[t] = R
        /\ originals'[t] = R \ quarantined
    BY <1>0, <1>2, <1>3 DEF IInv, ContextTypes, Chat, turnVars, BuildInv
  <2>1. Through(base[t])' = a /\ Completed' = Completed
    BY <1>0 DEF Through, Completed, turnVars
  <2>2. CompletedBetween(Through(base[t]), t)' = R
    BY <2>1 DEF CompletedBetween, R
  <2>3. base[t] # 0 => /\ base[t] \in DOMAIN checkpoints
                       /\ \E l \in Completed : a < l /\ l < t
    BY DEF IInv, BuildInv
  <2>4. base[t] # 0 => R # {}
    BY <2>3 DEF R, CompletedBetween
  <2>5. BuildInv(t)'
    BY <1>0, <2>0, <2>1, <2>2, <2>3, <2>4 DEF BuildInv, Read
  <2>6. ContextInv(t)'
    BY <1>0 DEF IInv, ContextInv, Knows, Given, Chat, Completed, turnVars
  <2>. QED
    BY <2>5, <2>6
<1>10. ASSUME ~LateExecutions PROVE CleanInv'
  <2>1. CleanInv
    BY <1>10 DEF IInv
  <2>2. \A u \in Turns : /\ step'[u] = (IF u = t THEN "decide" ELSE step[u])
                         /\ originals'[u] = (IF u = t THEN R \ quarantined ELSE originals[u])
    BY <1>0, <1>3 DEF IInv, ContextTypes
  <2>. QED
    BY <1>0, <2>1, <2>2 DEF CleanInv, Clean, Text, Valid, OpenChats, turnVars
<1>. QED
  BY <1>4, <1>5, <1>7, <1>8, <1>9, <1>10 DEF IInv

LEMMA CompactKeeps ==
  ASSUME IInv, NEW t \in Turns, Compact(t)
  PROVE  IInv'
<1>0. /\ UNCHANGED <<turnVars, quarantined, checkpoints, base, rows, originals, context>>
      /\ step[t] = "decide" /\ step' = [step EXCEPT ![t] = "save"]
      /\ Compactable(rows[t]) # {}
  BY DEF Compact
<1>1. ContextTypes' /\ TurnTypes' /\ TurnInv'
  BY <1>0 DEF IInv, ContextTypes, TurnTypes, TurnInv, Chat, turnVars
<1>2. Extends
  BY <1>0, SameExtends
<1>3. \A d \in DOMAIN checkpoints' : CheckpointInv(d)'
  BY <1>0, <1>2, OldCheckpoints DEF IInv
<1>4. ASSUME NEW u \in Turns, u # t PROVE BuildInv(u)' /\ ContextInv(u)'
  <2>1. step'[u] = step[u]
    BY <1>0, <1>4 DEF IInv, ContextTypes
  <2>. QED
    BY <1>0, <1>2, <2>1, SameTurn DEF IInv
<1>5. BuildInv(t)' /\ ContextInv(t)'
  <2>0. step'[t] = "save" /\ BuildInv(t)
    BY <1>0 DEF IInv, ContextTypes
  <2>1. CompletedBetween(Through(base[t]), t)' = CompletedBetween(Through(base[t]), t)
        /\ Through(base[t])' = Through(base[t]) /\ Completed' = Completed
    BY <1>0 DEF CompletedBetween, Through, Completed, turnVars
  <2>2. BuildInv(t)'
    BY <1>0, <2>0, <2>1 DEF BuildInv, Read, Chat, turnVars, Compactable
  <2>3. ContextInv(t)'
    BY <1>0 DEF IInv, ContextInv, Knows, Given, Chat, Completed, turnVars
  <2>. QED
    BY <2>2, <2>3
<1>6. ASSUME ~LateExecutions PROVE CleanInv'
  <2>1. CleanInv
    BY <1>6 DEF IInv
  <2>2. \A u \in Turns : step'[u] = (IF u = t THEN "save" ELSE step[u])
    BY <1>0 DEF IInv, ContextTypes
  <2>. QED
    BY <1>0, <2>1, <2>2 DEF CleanInv, Clean, Text, Valid, OpenChats, turnVars
<1>. QED
  BY <1>1, <1>3, <1>4, <1>5, <1>6 DEF IInv

-----------------------------------------------------------------------------
(* A context is given.                                                     *)
\* What is summarised and what is given as it is make up the conversation.
Whole(t, summarised, verbatim) ==
  /\ {s \in Completed : Chat(s) /\ s < t} \subseteq summarised \cup verbatim
  /\ summarised \cup verbatim \subseteq Completed
  /\ summarised \cap verbatim = {}
  /\ \A s \in summarised : \E l \in verbatim : s < l

\* What a build has read: the checkpoint up to its boundary, the turns from there.
LEMMA AsRead ==
  ASSUME IInv, NEW t \in Turns, step[t] \in Read
  PROVE  /\ Chat(t)
         /\ rows[t] \subseteq {s \in Completed : s < t}
         /\ Sources(base[t]) \subseteq Turns /\ Text(base[t]) \subseteq Sources(base[t])
         /\ originals[t] \subseteq rows[t]
         /\ Whole(t, Sources(base[t]), rows[t])
<1>. DEFINE c == base[t]
            a == Through(c)
<1>0. BuildInv(t) /\ step[t] # "idle"
  BY DEF IInv, Read
<1>1. rows[t] \subseteq {s \in Completed : a < s /\ s < t}
  BY <1>0 DEF BuildInv, CompletedBetween
<1>2. \A s \in Completed : Chat(s) /\ a < s /\ s < t => s \in rows[t]
  BY <1>0 DEF BuildInv, CompletedBetween
<1>3. CASE c = 0
  <2>1. Sources(c) = {} /\ Text(c) = {} /\ a = 0
    BY <1>3 DEF Sources, Text, Through
  <2>2. \A s \in Completed : a < s
    BY <2>1 DEF Completed, Turns
  <2>. QED
    BY <1>0, <1>1, <1>2, <2>1, <2>2 DEF Whole, BuildInv
<1>4. CASE c # 0
  <2>1. c \in DOMAIN checkpoints /\ rows[t] # {}
    BY <1>0, <1>4 DEF BuildInv
  <2>2. /\ Sources(c) = checkpoints[c].sources /\ Text(c) = checkpoints[c].text
        /\ a = checkpoints[c].through
    BY <1>4 DEF Sources, Text, Through
  <2>3. CheckpointInv(c) /\ a \in Turns
    BY <2>1, <2>2, CheckpointTypes DEF IInv
  <2>4. Sources(c) \subseteq {s \in Completed : s <= a} /\ Text(c) \subseteq Sources(c)
    BY <2>2, <2>3 DEF CheckpointInv
  <2>5. \A s \in Completed : Chat(s) /\ s <= a => s \in Sources(c)
    BY <2>2, <2>3 DEF CheckpointInv
  <2>. HIDE DEF a, c
  <2>6. \A s \in Sources(c), l \in rows[t] : s < l
    BY <1>1, <2>3, <2>4 DEF Turns, Completed
  <2>7. \A s \in Completed : s <= a \/ a < s
    BY <2>3 DEF Turns, Completed
  <2>8. Whole(t, Sources(c), rows[t])
    <3>1. \A s \in Completed : Chat(s) /\ s < t => s \in Sources(c) \/ s \in rows[t]
      BY <1>2, <2>5, <2>7
    <3>2. Sources(c) \cap rows[t] = {}
      BY <1>1, <2>3, <2>4 DEF Turns, Completed
    <3>3. \A s \in Sources(c) : \E l \in rows[t] : s < l
      BY <2>1, <2>6
    <3>. QED
      BY <1>1, <2>4, <3>1, <3>2, <3>3 DEF Whole
  <2>. QED
    BY <1>0, <1>1, <2>4, <2>8 DEF BuildInv, Completed, c
<1>. QED
  BY <1>3, <1>4

LEMMA GiveKeeps ==
  ASSUME IInv, NEW t \in Turns, step[t] \in Read,
         NEW S, NEW V, NEW X, S \subseteq Turns, V \subseteq Turns, X \subseteq Turns,
         Give(t, S, V, X), Chat(t), Whole(t, S, V),
         UNCHANGED <<turnVars, quarantined>>,
         checkpoints' \in Seq(Checkpoint), Extends,
         \A c \in DOMAIN checkpoints' : CheckpointInv(c)',
         ~LateExecutions => Clean(X) /\ \A c \in DOMAIN checkpoints' :
                                           Valid(c)' => Clean(checkpoints'[c].text)
  PROVE  IInv'
<1>. DEFINE C == [built |-> TRUE, summarised |-> S, verbatim |-> V, text |-> X]
<1>0. /\ context' = [context EXCEPT ![t] = C] /\ step' = [step EXCEPT ![t] = "idle"]
      /\ base' = [base EXCEPT ![t] = 0] /\ rows' = [rows EXCEPT ![t] = {}]
      /\ originals' = [originals EXCEPT ![t] = {}]
  BY DEF Give
<1>1. C \in Context
  BY DEF Context
<1>2. C.built /\ C.summarised = S /\ C.verbatim = V /\ C.text = X
  OBVIOUS
<1>. HIDE DEF C
<1>3. ContextTypes'
  BY <1>0, <1>1 DEF IInv, ContextTypes
<1>4. TurnTypes' /\ TurnInv'
  BY DEF IInv, TurnTypes, TurnInv, Chat, turnVars
<1>5. ASSUME NEW u \in Turns, u # t PROVE BuildInv(u)' /\ ContextInv(u)'
  <2>1. /\ step'[u] = step[u] /\ base'[u] = base[u] /\ rows'[u] = rows[u]
        /\ originals'[u] = originals[u] /\ context'[u] = context[u]
    BY <1>0, <1>5 DEF IInv, ContextTypes
  <2>. QED
    BY <2>1, SameTurn DEF IInv
<1>6. /\ step'[t] = "idle" /\ base'[t] = 0 /\ rows'[t] = {} /\ originals'[t] = {}
      /\ context'[t] = C
  BY <1>0 DEF IInv, ContextTypes
<1>7. BuildInv(t)'
  BY <1>6 DEF BuildInv, Read
<1>8. ContextInv(t)'
  <2>1. Completed' = Completed /\ kind' = kind
    BY DEF Completed, turnVars
  <2>. QED
    BY <1>2, <1>6, <2>1 DEF ContextInv, Knows, Given, Whole, Chat
<1>9. ASSUME ~LateExecutions PROVE CleanInv'
  <2>0. CleanInv
    BY <1>9 DEF IInv
  <2>1. \A c \in DOMAIN checkpoints' : Valid(c)' => Clean(checkpoints[c].text)'
    BY <1>9 DEF Clean
  <2>. SUFFICES ASSUME NEW u \in Turns
                PROVE  /\ step'[u] # "idle" => u \in OpenChats'
                       /\ base'[u] # 0 => Clean(Text(base[u]))'
                       /\ Clean(originals[u])'
                       /\ u \in OpenChats' => Clean(context[u].text)'
    BY <2>1 DEF CleanInv
  <2>2. CASE u = t
    BY <1>2, <1>6, <1>9, <2>2 DEF Clean
  <2>3. CASE u # t
    <3>1. /\ step'[u] = step[u] /\ base'[u] = base[u]
          /\ originals'[u] = originals[u] /\ context'[u] = context[u]
      BY <1>0, <2>3 DEF IInv, ContextTypes
    <3>2. OpenChats' = OpenChats
      BY DEF OpenChats, turnVars
    <3>3. base[u] # 0 => Text(base[u])' = Text(base[u])
      BY <3>1 DEF IInv, BuildInv, Extends, Text
    <3>. QED
      BY <2>0, <3>1, <3>2, <3>3 DEF CleanInv, Clean
  <2>. QED
    BY <2>2, <2>3
<1>. QED
  BY <1>3, <1>4, <1>5, <1>7, <1>8, <1>9 DEF IInv

\* The text that a build has read is clean.
LEMMA ReadClean ==
  ASSUME IInv, NEW t \in Turns, ~LateExecutions
  PROVE  Clean(Text(base[t]) \cup originals[t])
<1>1. CleanInv
  BY DEF IInv
<1>2. Clean(Text(base[t]))
  BY <1>1 DEF CleanInv, Text, Clean
<1>. QED
  BY <1>1, <1>2 DEF CleanInv, Clean

LEMMA UseKeeps ==
  ASSUME IInv, NEW t \in Turns, UseAsRead(t)
  PROVE  IInv'
<1>. DEFINE S == Sources(base[t])
            X == Text(base[t]) \cup originals[t]
<1>0. /\ step[t] \in Read /\ Give(t, S, rows[t], X)
      /\ UNCHANGED <<turnVars, quarantined, checkpoints>>
  BY DEF UseAsRead, Read
<1>1. Chat(t) /\ Whole(t, S, rows[t]) /\ S \subseteq Turns /\ rows[t] \subseteq Turns /\ X \subseteq Turns
  BY <1>0, AsRead DEF Completed
<1>2. Extends /\ checkpoints' \in Seq(Checkpoint)
  BY <1>0, SameExtends DEF IInv, ContextTypes
<1>3. \A c \in DOMAIN checkpoints' : CheckpointInv(c)'
  BY <1>0, <1>2, OldCheckpoints DEF IInv
<1>4. ~LateExecutions => Clean(X) /\ \A c \in DOMAIN checkpoints' :
                                        Valid(c)' => Clean(checkpoints'[c].text)
  BY <1>0, ReadClean DEF IInv, CleanInv, Valid
<1>. HIDE DEF S, X
<1>. QED
  BY <1>0, <1>1, <1>2, <1>3, <1>4, GiveKeeps

\* The new checkpoint.
LEMMA Created ==
  ASSUME IInv, NEW t \in Turns, CreateCheckpoint(t)
  PROVE  /\ step[t] \in Read
         /\ checkpoints' \in Seq(Checkpoint) /\ Extends
         /\ \A c \in DOMAIN checkpoints' : CheckpointInv(c)'
         /\ ~LateExecutions => Clean(SummaryText(t)) /\ \A c \in DOMAIN checkpoints' :
                                 Valid(c)' => Clean(checkpoints'[c].text)
         /\ Summarised(t) \subseteq Turns /\ SummaryText(t) \subseteq Turns
         /\ Whole(t, Summarised(t), rows[t] \ Compactable(rows[t]))
<1>. DEFINE R == rows[t]
            K == Compactable(R)
            b == Boundary(K)
            new == [through |-> b, sources |-> Summarised(t), text |-> SummaryText(t), valid |-> TRUE]
<1>0. /\ step[t] = "save" /\ Summarised(t) \subseteq {s \in Completed : s <= b}
      /\ checkpoints' = Append(checkpoints, new) /\ UNCHANGED <<turnVars, quarantined>>
  BY DEF CreateCheckpoint
<1>1. step[t] \in Read /\ K # {} /\ R \subseteq Turns
  BY <1>0 DEF IInv, BuildInv, Read, ContextTypes
<1>2. /\ b \in K /\ \A l \in K : l <= b
      /\ \E m \in R \ K : \A s \in R : s <= m
  BY <1>1, Boundaries
<1>3. /\ Chat(t) /\ R \subseteq {s \in Completed : s < t}
      /\ Sources(base[t]) \subseteq Turns /\ Text(base[t]) \subseteq Sources(base[t])
      /\ originals[t] \subseteq R
      /\ Whole(t, Sources(base[t]), R)
  BY <1>1, AsRead
<1>4. Summarised(t) = Sources(base[t]) \cup K
  BY DEF Summarised, AllSources
<1>5. SummaryText(t) = Text(base[t]) \cup (originals[t] \cap K)
  BY DEF SummaryText
<1>6. K = {s \in R : \E l \in R : s < l}
  BY DEF Compactable
<1>. HIDE DEF R, K, b
<1>7. K \subseteq R /\ b \in Turns
  BY <1>1, <1>2, <1>6
<1>8. Summarised(t) \subseteq Turns /\ SummaryText(t) \subseteq Summarised(t)
  BY <1>1, <1>3, <1>4, <1>5, <1>7
<1>9. new \in Checkpoint
  BY <1>7, <1>8 DEF Checkpoint
<1>10. new.through = b /\ new.sources = Summarised(t) /\ new.text = SummaryText(t)
  OBVIOUS
<1>. HIDE DEF new
<1>. PICK n \in Nat : n = Len(checkpoints) + 1
  BY CheckpointTypes DEF IInv
<1>11. /\ checkpoints' \in Seq(Checkpoint)
       /\ DOMAIN checkpoints' = DOMAIN checkpoints \cup {n}
       /\ checkpoints'[n] = new
       /\ \A c \in DOMAIN checkpoints : checkpoints'[c] = checkpoints[c]
  <2>1. checkpoints \in Seq(Checkpoint)
    BY DEF IInv, ContextTypes
  <2>. QED
    BY <1>0, <1>9, <2>1
<1>12. Extends
  BY <1>11 DEF Extends
<1>13. Completed' = Completed /\ kind' = kind
  BY <1>0 DEF Completed, turnVars
<1>14. CheckpointInv(n)'
  <2>1. {s \in Completed : Chat(s) /\ s <= b} \subseteq Summarised(t)
    <3>. SUFFICES ASSUME NEW s \in Completed, Chat(s), s <= b PROVE s \in Sources(base[t]) \cup K
      BY <1>4
    <3>1. s \in Turns /\ b < t
      BY <1>2, <1>3, <1>7 DEF Completed
    <3>2. s < t
      BY <1>7, <3>1 DEF Turns
    <3>3. s \in Sources(base[t]) \cup R
      BY <1>3, <3>2 DEF Whole
    <3>4. PICK l \in R : b < l
      BY <1>2, <1>6
    <3>5. s < l
      BY <1>1, <1>7, <3>1, <3>4 DEF Turns
    <3>. QED
      BY <1>6, <3>3, <3>4, <3>5
  <2>2. \E l \in Completed : b < l /\ l < t
    <3>1. PICK l \in R : b < l
      BY <1>2, <1>6
    <3>. QED
      BY <1>3, <3>1
  <2>3. /\ checkpoints'[n].through = b
        /\ checkpoints'[n].sources = Summarised(t)
        /\ checkpoints'[n].text = SummaryText(t)
    BY <1>10, <1>11
  <2>. QED
    BY <1>0, <1>3, <1>8, <1>13, <2>1, <2>2, <2>3 DEF CheckpointInv, Chat
<1>15. \A c \in DOMAIN checkpoints' : CheckpointInv(c)'
  BY <1>0, <1>11, <1>12, <1>14, OldCheckpoints DEF IInv
<1>16. ASSUME ~LateExecutions
       PROVE  /\ Clean(SummaryText(t))
              /\ \A c \in DOMAIN checkpoints' : Valid(c)' => Clean(checkpoints'[c].text)
  <2>1. Clean(SummaryText(t))
    BY <1>5, <1>16, ReadClean DEF Clean
  <2>2. \A c \in DOMAIN checkpoints : Valid(c) => Clean(checkpoints[c].text)
    BY <1>16 DEF IInv, CleanInv
  <2>. QED
    BY <1>10, <1>11, <2>1, <2>2 DEF Valid
<1>17. Whole(t, Summarised(t), R \ K)
  <2>1. \A s \in Summarised(t) : \E l \in R : s < l
    BY <1>3, <1>4, <1>6 DEF Whole
  <2>2. PICK m \in R \ K : \A s \in R : s <= m
    BY <1>2
  <2>3. \A s \in Summarised(t) : s < m
    BY <1>1, <1>8, <2>1, <2>2 DEF Turns
  <2>4. Summarised(t) \cup (R \ K) = Sources(base[t]) \cup R
    BY <1>4, <1>7
  <2>5. Summarised(t) \cap (R \ K) = {}
    BY <1>3, <1>4 DEF Whole
  <2>. QED
    BY <1>3, <2>2, <2>3, <2>4, <2>5 DEF Whole
<1>. QED
  BY <1>1, <1>8, <1>11, <1>12, <1>15, <1>16, <1>17 DEF R, K

LEMMA SaveKeeps ==
  ASSUME IInv, NEW t \in Turns, SaveCheckpoint(t) \/ SaveUnacknowledged(t)
  PROVE  IInv'
<1>0. CreateCheckpoint(t)
  BY DEF SaveCheckpoint, SaveUnacknowledged
<1>1. UNCHANGED <<turnVars, quarantined>>
  BY <1>0 DEF CreateCheckpoint
<1>2. /\ step[t] \in Read
      /\ checkpoints' \in Seq(Checkpoint) /\ Extends
      /\ \A c \in DOMAIN checkpoints' : CheckpointInv(c)'
      /\ ~LateExecutions => Clean(SummaryText(t)) /\ \A c \in DOMAIN checkpoints' :
                              Valid(c)' => Clean(checkpoints'[c].text)
      /\ Summarised(t) \subseteq Turns /\ SummaryText(t) \subseteq Turns
      /\ Whole(t, Summarised(t), rows[t] \ Compactable(rows[t]))
  BY <1>0, Created
<1>3. /\ Chat(t) /\ Whole(t, Sources(base[t]), rows[t])
      /\ Sources(base[t]) \subseteq Turns /\ rows[t] \subseteq Turns
      /\ Text(base[t]) \cup originals[t] \subseteq Turns
  BY <1>2, AsRead DEF Completed
<1>4. CASE SaveUnacknowledged(t)
  <2>. DEFINE X == Text(base[t]) \cup originals[t]
  <2>1. Give(t, Sources(base[t]), rows[t], X)
    BY <1>4 DEF SaveUnacknowledged
  <2>2. ~LateExecutions => Clean(X)
    BY ReadClean
  <2>3. X \subseteq Turns
    BY <1>3
  <2>. HIDE DEF X
  <2>. QED
    BY <1>1, <1>2, <1>3, <2>1, <2>2, <2>3, GiveKeeps
<1>5. CASE SaveCheckpoint(t)
  <2>. DEFINE V == rows[t] \ Compactable(rows[t])
              X == SummaryText(t) \cup originals[t]
  <2>1. Give(t, Summarised(t), V, X)
    BY <1>5 DEF SaveCheckpoint
  <2>2. ~LateExecutions => Clean(X)
    BY <1>2, ReadClean DEF Clean
  <2>3. X \subseteq Turns /\ V \subseteq Turns
    BY <1>2, <1>3
  <2>4. Whole(t, Summarised(t), V)
    BY <1>2
  <2>. HIDE DEF X, V
  <2>. QED
    BY <1>1, <1>2, <1>3, <2>1, <2>2, <2>3, <2>4, GiveKeeps
<1>. QED
  BY <1>4, <1>5

-----------------------------------------------------------------------------
(* A quarantine.                                                           *)
LEMMA Invalidated ==
  ASSUME ContextTypes, NEW s \in Turns, checkpoints' = Invalidate(s)
  PROVE  /\ checkpoints' \in Seq(Checkpoint) /\ DOMAIN checkpoints' = DOMAIN checkpoints
         /\ Extends
         /\ \A c \in DOMAIN checkpoints : Valid(c)' => Valid(c) /\ s \notin checkpoints[c].sources
<1>1. /\ Len(checkpoints) \in Nat /\ DOMAIN checkpoints = 1 .. Len(checkpoints)
      /\ \A c \in DOMAIN checkpoints : checkpoints[c] \in Checkpoint
  BY CheckpointTypes
<1>2. \A c \in DOMAIN checkpoints :
        [checkpoints[c] EXCEPT !.valid = @ /\ s \notin checkpoints[c].sources] \in Checkpoint
  BY <1>1 DEF Checkpoint
<1>3. DOMAIN checkpoints' = DOMAIN checkpoints
  BY DEF Invalidate
<1>4. checkpoints' \in Seq(Checkpoint)
  BY <1>1, <1>2 DEF Invalidate
<1>5. ASSUME NEW c \in DOMAIN checkpoints
      PROVE  /\ checkpoints'[c].through = checkpoints[c].through
             /\ checkpoints'[c].sources = checkpoints[c].sources
             /\ checkpoints'[c].text = checkpoints[c].text
             /\ checkpoints'[c].valid => checkpoints[c].valid /\ s \notin checkpoints[c].sources
  <2>1. checkpoints'[c] = [checkpoints[c] EXCEPT !.valid = @ /\ s \notin checkpoints[c].sources]
    BY DEF Invalidate
  <2>2. checkpoints[c] \in Checkpoint
    BY <1>1
  <2>. QED
    BY <2>1, <2>2 DEF Checkpoint
<1>. QED
  BY <1>3, <1>4, <1>5 DEF Extends, Valid

LEMMA QuarantineKeeps ==
  ASSUME IInv, NEW t \in Turns, NEW s \in Turns, Quarantine(t, s)
  PROVE  IInv'
<1>0. /\ UNCHANGED <<turnVars, buildVars>> /\ checkpoints' = Invalidate(s)
      /\ quarantined' = quarantined \cup {s} /\ t \in OpenChats /\ step[t] = "idle"
      /\ context' = [context EXCEPT ![t] = NoContext]
  BY DEF Quarantine
<1>1. /\ checkpoints' \in Seq(Checkpoint) /\ DOMAIN checkpoints' = DOMAIN checkpoints
      /\ Extends
      /\ \A c \in DOMAIN checkpoints : Valid(c)' => Valid(c) /\ s \notin checkpoints[c].sources
  BY <1>0, Invalidated DEF IInv
<1>2. NoContext \in Context /\ ~NoContext.built /\ NoContext.text = {}
  BY DEF NoContext, Context
<1>3. ContextTypes'
  BY <1>0, <1>1, <1>2 DEF IInv, ContextTypes, buildVars
<1>4. TurnTypes' /\ TurnInv'
  BY <1>0 DEF IInv, TurnTypes, TurnInv, Chat, turnVars
<1>5. \A c \in DOMAIN checkpoints' : CheckpointInv(c)'
  BY <1>0, <1>1, OldCheckpoints DEF IInv
<1>6. \A u \in Turns : context'[u] = IF u = t THEN NoContext ELSE context[u]
  BY <1>0 DEF IInv, ContextTypes
<1>7. ASSUME NEW u \in Turns PROVE BuildInv(u)' /\ ContextInv(u)'
  <2>1. BuildInv(u)' /\ (context'[u] = context[u] => ContextInv(u)')
    BY <1>0, <1>1, SameTurn DEF IInv, buildVars
  <2>2. context'[u] = NoContext => ContextInv(u)'
    BY <1>2 DEF ContextInv
  <2>. QED
    BY <1>6, <2>1, <2>2
<1>8. ASSUME ~LateExecutions PROVE CleanInv'
  <2>0. CleanInv
    BY <1>8 DEF IInv
  <2>1. ASSUME NEW c \in DOMAIN checkpoints', Valid(c)'
        PROVE  checkpoints'[c].text \cap quarantined' = {}
    <3>1. Valid(c) /\ s \notin checkpoints[c].sources /\ checkpoints'[c].text = checkpoints[c].text
      BY <1>1, <2>1 DEF Extends
    <3>2. checkpoints[c].text \subseteq checkpoints[c].sources
      BY <1>1 DEF IInv, CheckpointInv
    <3>3. checkpoints[c].text \cap quarantined = {}
      BY <1>1, <2>0, <3>1 DEF CleanInv, Clean
    <3>. QED
      BY <1>0, <3>1, <3>2, <3>3
  <2>2. \A u \in Turns : u \in OpenChats => u = t
    <3>1. \A u \in Turns : u \in OpenChats => u <= t /\ t <= u
      BY <1>0, LastChat DEF IInv, OpenChats, Chat
    <3>. QED
      BY <3>1 DEF Turns
  <2>3. \A u \in Turns : step[u] = "idle" /\ base[u] = 0 /\ originals[u] = {}
    BY <1>0, <2>0, <2>2 DEF CleanInv, IInv, BuildInv, Read
  <2>4. \A u \in Turns : u \in OpenChats' => context'[u].text = {}
    BY <1>0, <1>2, <1>6, <2>2 DEF OpenChats, turnVars
  <2>. QED
    BY <1>0, <2>1, <2>3, <2>4 DEF CleanInv, Clean, buildVars
<1>. QED
  BY <1>3, <1>4, <1>5, <1>7, <1>8 DEF IInv

LEMMA StutterKeeps ==
  ASSUME IInv, UNCHANGED vars
  PROVE  IInv'
<1>. USE DEF vars, turnVars, contextVars, buildVars
<1>1. TurnTypes' /\ ContextTypes' /\ TurnInv'
  BY DEF IInv, TurnTypes, ContextTypes, TurnInv, Chat
<1>2. Extends /\ checkpoints' = checkpoints
  BY SameExtends
<1>3. \A c \in DOMAIN checkpoints' : CheckpointInv(c)'
  BY <1>2, OldCheckpoints DEF IInv
<1>4. \A t \in Turns : BuildInv(t)' /\ ContextInv(t)'
  BY <1>2, SameTurn DEF IInv
<1>5. CleanInv => CleanInv'
  BY DEF CleanInv, Clean, Valid, Text, OpenChats
<1>. QED
  BY <1>1, <1>3, <1>4, <1>5 DEF IInv

LEMMA Always == Spec => []IInv
<1>1. ASSUME IInv, [Next]_vars PROVE IInv'
  BY <1>1, TurnKeeps, StartKeeps, ReadKeeps, UseKeeps, CompactKeeps, SaveKeeps, QuarantineKeeps,
     StutterKeeps DEF Next
<1>. QED
  BY <1>1, Initially, PTL DEF Spec

-----------------------------------------------------------------------------
(***************************************************************************)
(* The theorems.                                                           *)
(***************************************************************************)
\* For any number of turns, checkpoints, invalidations and executions that run on, the
\* context of a turn is the whole conversation before it, with nothing in it twice
\* (services/agent_context.py).
THEOREM WholeConversation == Spec => []KnowsTheConversation
<1>1. IInv => KnowsTheConversation
  BY DEF IInv, ContextInv, Knows, KnowsTheConversation, Chat
<1>. QED
  BY <1>1, Always, PTL

\* If an execution ends with its turn, no later turn can read a quarantined text, in a
\* summary or otherwise (repositories/agent.py, services/agent_context.py).
THEOREM QuarantineHolds ==
  ASSUME ~LateExecutions
  PROVE  Spec => []QuarantinedStaysOut
<1>1. IInv => QuarantinedStaysOut
  BY DEF IInv, CleanInv, Clean, OpenChats, QuarantinedStaysOut
<1>. QED
  BY <1>1, Always, PTL

=============================================================================
