------------------------------ MODULE Evidence ------------------------------
(***************************************************************************)
(* Commitments to digests beside a dispute, on one order.                  *)
(*                                                                         *)
(* Code: src/server/lib/evidence.ts, routes/evidence.ts, and the status    *)
(* route of routes/market.ts as far as it dates the dispute.               *)
(*                                                                         *)
(* A handler reads the order and the party's count before it inserts, and  *)
(* takes its time stamp before the database does what it was told; other   *)
(* handlers run in between.                                                *)
(***************************************************************************)
EXTENDS Naturals, FiniteSets, FiniteSetsExt

CONSTANTS
    Handlers,        \* requests handled at once
    Digests,         \* bound: different files
    MaxPerParty,     \* MAX_EVIDENCE_PER_PARTY
    MaxRequests,     \* bound: requests
    MaxMoment        \* bound: the clock, in milliseconds

ASSUME EvidenceAssumption == {MaxPerParty, MaxRequests, MaxMoment} \subseteq Nat

VARIABLES
    moment,
    order,       \* the order's status: "live", "disputed" or "finished"
    events,      \* order_events: the moves, with the moment each was stamped with
    evidence,    \* order_evidence
    handlers,    \* what each handler is at
    received,    \* requests so far
    disputed     \* not stored: when the dispute was asked for and when it committed

evidenceVars == <<moment, order, events, evidence, handlers, received, disputed>>

Parties == {"buyer", "seller"}
Resting == [step |-> "idle"]
Never == [asked |-> 0, done |-> 0]

EvidenceInit ==
    /\ moment = 1 /\ order = "live" /\ events = {[to |-> "live", at |-> 1]} /\ evidence = {}
    /\ handlers = [h \in Handlers |-> Resting] /\ received = 0 /\ disputed = Never

-----------------------------------------------------------------------------
(* POST /api/market/orders/:id/evidence *)

Mine(party) == {r \in evidence : r.by = party}
Arrives(h, request) ==
    /\ handlers[h] = Resting /\ received < MaxRequests /\ received' = received + 1
    /\ handlers' = [handlers EXCEPT ![h] = request]

BeginCommitment(h, party, digest) ==
    /\ Arrives(h, [step |-> "order", by |-> party, digest |-> digest, began |-> moment,
                   full |-> FALSE, at |-> 0])
    /\ UNCHANGED <<moment, order, events, evidence, disputed>>

\* Finished: there is nothing left to commit to.
Closed == order = "finished"

ReadOrder(h) ==
    /\ handlers[h].step = "order"
    /\ handlers' = [handlers EXCEPT ![h] = IF Closed THEN Resting ELSE [@ EXCEPT !.step = "count"]]
    /\ UNCHANGED <<moment, order, events, evidence, received, disputed>>

\* The insertion is stamped when it is handed to the database.
CountCommitments(h) ==
    /\ handlers[h].step = "count"
    /\ handlers' = [handlers EXCEPT ![h] =
           IF Cardinality(Mine(@.by)) >= MaxPerParty THEN Resting
           ELSE [@ EXCEPT !.step = "insert", !.at = moment]]
    /\ UNCHANGED <<moment, order, events, evidence, received, disputed>>

\* The unique key refuses a digest its party has committed to already.
InsertCommitment(h) ==
    LET request == handlers[h]
        known == \E r \in Mine(request.by) : r.digest = request.digest
    IN  /\ request.step = "insert"
        /\ evidence' = IF known THEN evidence
                       ELSE evidence \cup {[by |-> request.by, digest |-> request.digest, at |-> request.at,
                                            began |-> request.began, stored |-> moment]}
        /\ handlers' = [handlers EXCEPT ![h] = Resting]
        /\ UNCHANGED <<moment, order, events, received, disputed>>

-----------------------------------------------------------------------------
(* POST /api/market/orders/:id/status, from where it takes its time stamp *)

BeginMove(h, to) ==
    /\ \/ order = "live" /\ to \in {"disputed", "finished"}
       \/ order = "disputed" /\ to = "finished"
    /\ Arrives(h, [step |-> "move", from |-> order, to |-> to, at |-> moment])
    /\ UNCHANGED <<moment, order, events, evidence, disputed>>

CommitMove(h) ==
    LET request == handlers[h]
    IN  /\ request.step = "move"
        /\ handlers' = [handlers EXCEPT ![h] = Resting]
        /\ IF order # request.from THEN UNCHANGED <<order, events, disputed>>
           ELSE /\ order' = request.to
                /\ events' = events \cup {[to |-> request.to, at |-> request.at]}
                /\ disputed' = IF request.to = "disputed" THEN [asked |-> request.at, done |-> moment]
                               ELSE disputed
        /\ UNCHANGED <<moment, evidence, received>>

Passes1ms ==
    /\ moment < MaxMoment /\ moment' = moment + 1
    /\ UNCHANGED <<order, events, evidence, handlers, received, disputed>>

-----------------------------------------------------------------------------
(* GET .../evidence: what both parties and the moderator are shown *)

BugDisputedAt == {e.at : e \in events}
DisputedAt == {e.at : e \in {v \in events : v.to = "disputed"}}
BeforeDispute(r) == DisputedAt = {} \/ r.at <= Min(DisputedAt)

EvidenceNext ==
    \/ \E h \in Handlers :
           \/ \E party \in Parties, digest \in Digests : BeginCommitment(h, party, digest)
           \/ ReadOrder(h) \/ CountCommitments(h) \/ InsertCommitment(h)
           \/ \E to \in {"disputed", "finished"} : BeginMove(h, to)
           \/ CommitMove(h)
    \/ Passes1ms

EvidenceSpec == EvidenceInit /\ [][EvidenceNext]_evidenceVars

-----------------------------------------------------------------------------
(* Properties *)

\* What the moderator is told of the order of things is so: a commitment said
\* to precede the dispute was asked for before the dispute could be seen, or in
\* the same millisecond; one said to follow it was stored after the dispute was
\* asked for.  (evidenceForOrder, beforeDispute)
BeforeDisputeIsTrue ==
    disputed # Never =>
        \A r \in evidence : IF BeforeDispute(r) THEN r.began <= disputed.done
                            ELSE r.stored >= disputed.asked

=============================================================================
