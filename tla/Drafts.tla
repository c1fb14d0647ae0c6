------------------------------- MODULE Drafts -------------------------------
(***************************************************************************)
(* The hold-for-approval queue (core/src/drafts.js and the draft gate and   *)
(* routes of core/src/server.js).  A reply held by its connector's policy   *)
(* becomes a draft; operators approve it (its parts are sent one by one,    *)
(* each send awaited) or discard it, from the dashboard and the CLI at the  *)
(* same time.  A send may fail, and the core may restart half-way.          *)
(***************************************************************************)
EXTENDS Integers, FiniteSets

CONSTANTS
  Replies,     \* the turns whose reply reaches the gate, which are also draft ids
  Approvers,   \* requests POST /v2/drafts/:id/approve, each made once
  Parts,       \* the text is part 1, the attached files follow
  MaxTier,     \* trust tiers 0 .. MaxTier
  MaxFailures  \* bound: sends that fail, and restarts

VARIABLES
  draft,       \* the drafts table: status, or "none"
  returned,    \* replies handed back to the connector at once
  approval,    \* per approve request: the draft and the parts it has sent
  delivered,   \* how often each part of each draft went out
  wasApproved, \* history: drafts that some approval found pending
  failures

vars == <<draft, returned, approval, delivered, wasApproved, failures>>

Statuses == {"none", "pending", "sent", "discarded"}
Idle == [of |-> "none", sent |-> 0]

Policies == [kind : {"always_send", "always_draft", "auto_send_full_trust", "trust_tier",
                     "unknown"}, n : 0..MaxTier]
Resolved == [bypass_moderation : BOOLEAN, trust_tier : 0..MaxTier]

TypeOK ==
  /\ draft \in [Replies -> Statuses]
  /\ returned \subseteq Replies
  /\ approval \in [Approvers -> [of : Replies \cup {"none"}, sent : 0..Parts]]
  /\ delivered \in [Replies -> [1..Parts -> Nat]]

Init ==
  /\ draft = [r \in Replies |-> "none"]
  /\ returned = {}
  /\ approval = [a \in Approvers |-> Idle]
  /\ delivered = [r \in Replies |-> [p \in 1..Parts |-> 0]]
  /\ wasApproved = {}
  /\ failures = 0

\* drafts.shouldHold: an unknown policy fails open, to sending.
ShouldHold(policy, resolved) ==
  \/ policy.kind = "always_draft"
  \/ policy.kind = "auto_send_full_trust" /\ ~resolved.bypass_moderation
  \/ policy.kind = "trust_tier" /\ resolved.trust_tier < policy.n

SetStatus_AnyRow(r, status) == draft' = [draft EXCEPT ![r] = status]
\* drafts.setStatus: the UPDATE is guarded by status = 'pending', and misses otherwise.
SetStatus(r, status) ==
  draft' = IF draft[r] = "pending" THEN [draft EXCEPT ![r] = status] ELSE draft

\* The gate at the end of handle(): hold the reply as a draft, or hand it back.
Gate(r) ==
  /\ draft[r] = "none" /\ r \notin returned
  /\ \E policy \in Policies, resolved \in Resolved :
       IF ShouldHold(policy, resolved)
       THEN draft' = [draft EXCEPT ![r] = "pending"] /\ UNCHANGED returned
       ELSE returned' = returned \cup {r} /\ UNCHANGED draft
  /\ UNCHANGED <<approval, delivered, wasApproved, failures>>

\* POST approve, up to its first await: the status is read here and only here.
Approve(a, r) ==
  /\ approval[a] = Idle
  /\ draft[r] = "pending"
  /\ approval' = [approval EXCEPT ![a] = [of |-> r, sent |-> 0]]
  /\ wasApproved' = wasApproved \cup {r}
  /\ UNCHANGED <<draft, returned, delivered, failures>>

AllSent_TextOnly(a) == approval[a].sent >= 1
AllSent(a) == approval[a].sent = Parts

\* deliverOut: the next POST /send is answered ok.
SendPart(a) ==
  /\ approval[a] # Idle /\ ~AllSent(a)
  /\ approval' = [approval EXCEPT ![a].sent = @ + 1]
  /\ delivered' = [delivered EXCEPT ![approval[a].of][approval[a].sent + 1] = @ + 1]
  /\ UNCHANGED <<draft, returned, wasApproved, failures>>

\* ... or fails, and the request ends in a 502 with the draft left as it is.
SendFails(a) ==
  /\ approval[a] # Idle /\ ~AllSent(a)
  /\ failures < MaxFailures
  /\ failures' = failures + 1
  /\ approval' = [approval EXCEPT ![a] = Idle]
  /\ UNCHANGED <<draft, returned, delivered, wasApproved>>

\* Everything is out: mark the draft sent.
Settle(a) ==
  /\ approval[a] # Idle /\ AllSent(a)
  /\ SetStatus(approval[a].of, "sent")
  /\ approval' = [approval EXCEPT ![a] = Idle]
  /\ UNCHANGED <<returned, delivered, wasApproved, failures>>

\* POST discard.
Discard(r) ==
  /\ draft[r] = "pending"
  /\ SetStatus(r, "discarded")
  /\ UNCHANGED <<returned, approval, delivered, wasApproved, failures>>

\* The core restarts: requests in progress are gone, the table stays.
Restart ==
  /\ failures < MaxFailures
  /\ failures' = failures + 1
  /\ \E a \in Approvers : approval[a] # Idle
  /\ approval' = [a \in Approvers |-> Idle]
  /\ UNCHANGED <<draft, returned, delivered, wasApproved>>

Next ==
  \/ \E r \in Replies : Gate(r) \/ Discard(r)
  \/ \E a \in Approvers, r \in Replies : Approve(a, r)
  \/ \E a \in Approvers : SendPart(a) \/ SendFails(a) \/ Settle(a)
  \/ Restart

Spec == Init /\ [][Next]_vars

---------------------------------------------------------------------------
\* A draft marked sent went out whole, and nothing of a draft goes out that no operator
\* approved: whatever failed, restarted or was discarded meanwhile.
SentIsWhole ==
  \A r \in Replies :
    /\ draft[r] = "sent" => \A p \in 1..Parts : delivered[r][p] > 0
    /\ (\E p \in 1..Parts : delivered[r][p] > 0) => r \in wasApproved

\* An operator's decision on a draft is final: an approval that ends later does not turn a
\* discard into a send, nor the other way round.
DecidedOnce == [][\A r \in Replies : draft[r] \in {"sent", "discarded"} =>
                                      draft'[r] = draft[r]]_vars
=============================================================================
