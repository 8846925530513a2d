--------------------------- MODULE PublishContract ---------------------------
(***************************************************************************)
(* What the approval API promises of a publication, without executions,    *)
(* leases or tokens: a request is accepted once, published at most once,   *)
(* and its outcome and its Post agree with what happened on X.             *)
(*                                                                         *)
(* Source: the outcomes of services/x_post_approval.py and                 *)
(* services/x_post_recovery.py.                                            *)
(***************************************************************************)
EXTENDS Naturals

CONSTANTS Keys, Calls, NoCall

VARIABLES outcome, accepted, published, stored

cVars == <<outcome, accepted, published, stored>>

Open(k) == outcome[k] \in {"processing", "outcome_unknown"}

Init ==
  /\ outcome = [k \in Keys |-> "none"]
  /\ accepted = [k \in Keys |-> NoCall]
  /\ published = [k \in Keys |-> 0]
  /\ stored = [k \in Keys |-> 0]

\* A new request; with the content of an open one it fails at once.
Accept(c) ==
  /\ outcome[c.key] = "none"
  /\ accepted' = [accepted EXCEPT ![c.key] = c]
  /\ \/ /\ \A k \in Keys : Open(k) => accepted[k].content # c.content
        /\ outcome' = [outcome EXCEPT ![c.key] = "processing"]
     \/ outcome' = [outcome EXCEPT ![c.key] = "failed"]
  /\ UNCHANGED <<published, stored>>

Publish(k) ==
  /\ Open(k) /\ published[k] = 0
  /\ published' = [published EXCEPT ![k] = 1]
  /\ UNCHANGED <<outcome, accepted, stored>>

Doubt(k) ==
  /\ outcome[k] = "processing"
  /\ outcome' = [outcome EXCEPT ![k] = "outcome_unknown"]
  /\ UNCHANGED <<accepted, published, stored>>

Succeed(k) ==
  /\ Open(k) /\ published[k] = 1
  /\ outcome' = [outcome EXCEPT ![k] = "succeeded"]
  /\ stored' = [stored EXCEPT ![k] = 1]
  /\ UNCHANGED <<accepted, published>>

Fail(k) ==
  /\ Open(k) /\ published[k] = 0
  /\ outcome' = [outcome EXCEPT ![k] = "failed"]
  /\ UNCHANGED <<accepted, published, stored>>

Next ==
  \/ \E c \in Calls : Accept(c)
  \/ \E k \in Keys : Publish(k) \/ Doubt(k) \/ Succeed(k) \/ Fail(k)

Spec == Init /\ [][Next]_cVars
=============================================================================
