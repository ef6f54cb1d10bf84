------------------------------ MODULE Payouts -------------------------------
(***************************************************************************)
(* Money in, money out.  Incoming transfers are credited once, a payout    *)
(* holds its owner's money while it waits, administrators decide on large  *)
(* ones, and a worker on another host, the only process with a spend key,  *)
(* claims, relays and reports.                                             *)
(*                                                                         *)
(* Code: src/server/lib/{ledger,refunds,deposits}.ts, routes/{wallet,      *)
(* payouts,moderation}.ts and scripts/payout-worker.mjs.                   *)
(*                                                                         *)
(* A database transaction whose plain reads matter is two steps: one that  *)
(* takes the reads, one that re-evaluates every guarded UPDATE and unique  *)
(* index and commits.  On SQLite no other transaction begins in between    *)
(* (lib/db/sqlite.ts queues them); on PostgreSQL, at READ COMMITTED, any   *)
(* may.  Whatever the transaction wrote, a crash, a refusal or a statement *)
(* timeout before the commit undoes (the Abandon actions).                 *)
(***************************************************************************)
EXTENDS Ledger

CONSTANTS
    Users, Admins, Workers,
    Payouts,                 \* ids newId() may hand out for withdrawals
    Transfers,               \* incoming transfers the wallet may see
    payerOf, valueOf,        \* the account and the amount of each transfer
    Amounts,                 \* what an owner may ask for (>= MIN_WITHDRAWAL_XMR)
    Limits,                  \* the automatic ceilings an administrator may set
    DefaultLimit,            \* AUTO_PAYOUT_MAX_XMR
    MinDeposit, MinRefund,   \* MIN_DEPOSIT_XMR, MIN_REFUND_XMR
    DualAbove,               \* DUAL_APPROVAL_ABOVE_XMR
    Float,                   \* the worker's MAX_PAYOUT_XMR
    Day, MaxTime,            \* the rolling window, and the bound on the clock
    Dialect,                 \* the database driver, "sqlite" or "postgres"
    LateRelay,               \* may a transfer() be relayed and its answer lost?
    None

ASSUME SetsAssumption ==
    /\ IsFiniteSet(Users) /\ IsFiniteSet(Payouts) /\ IsFiniteSet(Transfers)
    /\ IsFiniteSet(Admins)
    /\ None \notin Users \cup Admins \cup Payouts
    /\ payerOf \in [Transfers -> Users]
    /\ valueOf \in [Transfers -> Nat \ {0}]
ASSUME NumbersAssumption ==
    /\ Amounts \subseteq Nat \ {0} /\ Limits \subseteq Nat /\ DefaultLimit \in Limits
    /\ {MinDeposit, MinRefund, DualAbove, Float, Day, MaxTime} \subseteq Nat
ASSUME DialectAssumption ==
    /\ Dialect \in {"sqlite", "postgres"} /\ LateRelay \in BOOLEAN

VARIABLES
    balances,     \* balances: available and held, per user
    limits,       \* balances.payout_limit_pico, or the default
    deposits,     \* transfer -> absent | arrived | below_minimum | credited
    withdrawals,  \* the withdrawals table, one row per id in use
    approvals,    \* withdrawal_approvals: payout -> admins who signed
    entries,      \* ledger_entries that close a payout, counted per kind
    requests,     \* in-flight requestWithdrawal / refundBelowMinimum calls
    decisions,    \* in-flight decideWithdrawal calls, one per administrator
    workers,      \* what each payout worker holds in memory
    relays,       \* how often the wallet relayed a payout's transfer
    now           \* Date.now(), in ticks

vars == <<balances, limits, deposits, withdrawals, approvals, entries,
          requests, decisions, workers, relays, now>>

-----------------------------------------------------------------------------
(* Tables and helpers *)

OpenStatus   == {"queued", "approval_required", "sending"}
ClosedStatus == {"sent", "failed", "rejected", "cancelled"}

\* The statuses the rolling 24-hour sum counts, and those a payout can be
\* cancelled or reported from.
CountedStatus == {"queued", "sending", "sent"}
BugCancellableStatus == {"queued", "approval_required", "sending"}
CancellableStatus == {"queued", "approval_required"}
BugReportableStatus == {"queued"}
ReportableStatus == {"queued", "sending"}

NoRow      == [status |-> "none", user |-> None, amount |-> 0, at |-> 0, decidedBy |-> None]
NoRequest  == [stage |-> "none", user |-> None, amount |-> 0, limit |-> 0,
               dust |-> {}, refund |-> FALSE, at |-> 0, recent |-> 0]
NoDecision == [stage |-> "none", payout |-> None, approve |-> FALSE, count |-> 0]
IdleWorker == [payout |-> None, stage |-> "idle"]

OpenOf(u) == {p \in Payouts : withdrawals[p].user = u /\ withdrawals[p].status \in OpenStatus}

\* The rows the rolling sum adds up at time t, and that sum.
Recent(u, t) == {p \in Payouts : /\ withdrawals[p].user = u
                                 /\ withdrawals[p].status \in CountedStatus
                                 /\ withdrawals[p].at > t - Day}
AmountOf(S) == Total([p \in S |-> withdrawals[p].amount])
ValueOf(T)  == Total([t \in T |-> valueOf[t]])

Dust(u) == {t \in Transfers : payerOf[t] = u /\ deposits[t] = "below_minimum"}

\* Rows an uncommitted refund has updated: another refund waits for them.
Locked == UNION {requests[p].dust : p \in Payouts}

\* SQLite queues transactions on its one handle; PostgreSQL interleaves them.
MayBegin == Dialect = "sqlite" => /\ \A p \in Payouts : requests[p].stage # "open"
                                  /\ \A a \in Admins : decisions[a].stage = "none"

Required(p) == IF withdrawals[p].amount > DualAbove THEN 2 ELSE 1

Init ==
    /\ balances = [u \in Users |-> EmptyAccount]
    /\ limits = [u \in Users |-> DefaultLimit]
    /\ deposits = [t \in Transfers |-> "absent"]
    /\ withdrawals = [p \in Payouts |-> NoRow]
    /\ approvals = [p \in Payouts |-> {}]
    /\ entries = [p \in Payouts |-> [sent |-> 0, returned |-> 0]]
    /\ requests = [p \in Payouts |-> NoRequest]
    /\ decisions = [a \in Admins |-> NoDecision]
    /\ workers = [k \in Workers |-> IdleWorker]
    /\ relays = [p \in Payouts |-> 0]
    /\ now = 0

-----------------------------------------------------------------------------
(* Money in *)

\* The payer's transfer is in the wallet with the confirmations its size needs.
Arrive(t) ==
    /\ deposits[t] = "absent"
    /\ deposits' = [deposits EXCEPT ![t] = "arrived"]
    /\ UNCHANGED <<balances, limits, withdrawals, approvals, entries,
                   requests, decisions, workers, relays, now>>

\* creditDeposit(): the unique key on deposits makes a second pass over the
\* same transfer insert nothing.
CreditDeposit(t) ==
    /\ MayBegin
    /\ deposits[t] = "arrived"
    /\ LET credited == valueOf[t] >= MinDeposit
       IN  /\ deposits' = [deposits EXCEPT ![t] = IF credited THEN "credited" ELSE "below_minimum"]
           /\ balances' = IF credited
                          THEN Apply(balances, Credit(payerOf[t], valueOf[t]))
                          ELSE balances
    /\ UNCHANGED <<limits, withdrawals, approvals, entries, requests,
                   decisions, workers, relays, now>>

SetPayoutLimit(u, limit) ==
    /\ MayBegin
    /\ limits' = [limits EXCEPT ![u] = limit]
    /\ UNCHANGED <<balances, deposits, withdrawals, approvals, entries,
                   requests, decisions, workers, relays, now>>

-----------------------------------------------------------------------------
(* A payout is asked for *)

OnlyRequests == UNCHANGED <<balances, limits, deposits, withdrawals, approvals,
                            entries, decisions, workers, relays, now>>

\* Both routes: the friendly refusal while a payout is open, then the account's
\* ceiling, both read before the transaction.
Ask(p, u, amount, refund) ==
    /\ withdrawals[p].status = "none" /\ requests[p].stage = "none"
    /\ OpenOf(u) = {}
    /\ requests' = [requests EXCEPT ![p] = [NoRequest EXCEPT
            !.stage = "asked", !.user = u, !.amount = amount, !.limit = limits[u],
            !.refund = refund]]
    /\ OnlyRequests

\* queueWithdrawal()'s clock and its SUM over the rolling window.
OpenTransaction(p, amount, dust) ==
    /\ MayBegin
    /\ requests[p].stage = "asked"
    /\ requests' = [requests EXCEPT
            ![p].stage = "open", ![p].amount = amount, ![p].dust = dust, ![p].at = now,
            ![p].recent = AmountOf(Recent(requests[p].user, now))]
    /\ OnlyRequests

BeginPayout(p) == ~requests[p].refund /\ OpenTransaction(p, requests[p].amount, {})

\* refundBelowMinimum() claims the rows first; a refund that is not worth its
\* network fee rolls back (AbandonRequest).
BeginRefund(p) ==
    LET dust == Dust(requests[p].user)
    IN  /\ requests[p].refund
        /\ dust # {} /\ dust \cap Locked = {}
        /\ ValueOf(dust) >= MinRefund
        /\ OpenTransaction(p, ValueOf(dust), dust)

\* The INSERT, which withdrawals_one_open_per_user may refuse, and the hold.
\* A refund's deposit entries are applied first, so it can always be covered.
BugRequestMoves(r) == IF r.refund THEN Credit(r.user, r.amount) ELSE Hold(r.user, r.amount)
RequestMoves(r) == IF r.refund THEN On(r.user, Movement(0, r.amount)) ELSE Hold(r.user, r.amount)
BugClaimed(dust) == deposits
Claimed(dust) == [t \in Transfers |-> IF t \in dust THEN "credited" ELSE deposits[t]]
Automatic(r) == r.amount <= r.limit /\ r.recent + r.amount <= r.limit

CommitRequest(p) ==
    LET r == requests[p]
    IN  /\ r.stage = "open"
        /\ OpenOf(r.user) = {}
        /\ Covered(balances, RequestMoves(r))
        /\ balances' = Apply(balances, RequestMoves(r))
        /\ deposits' = Claimed(r.dust)
        /\ withdrawals' = [withdrawals EXCEPT ![p] =
                [status |-> IF Automatic(r) THEN "queued" ELSE "approval_required",
                 user |-> r.user, amount |-> r.amount, at |-> r.at, decidedBy |-> None]]
        /\ requests' = [requests EXCEPT ![p] = NoRequest]
        /\ UNCHANGED <<limits, approvals, entries, decisions, workers, relays, now>>

\* 409 payout_pending, 402 insufficient_balance, refund_too_small, a statement
\* timeout, a crash: nothing the transaction wrote remains.
AbandonRequest(p) ==
    /\ requests[p].stage # "none"
    /\ requests' = [requests EXCEPT ![p] = NoRequest]
    /\ OnlyRequests

-----------------------------------------------------------------------------
(* A payout is closed: status, balance and ledger entry in one transaction *)

Close(p, from, to, moves) ==
    /\ MayBegin
    /\ withdrawals[p].status \in from
    /\ Covered(balances, moves)
    /\ withdrawals' = [withdrawals EXCEPT ![p].status = to]
    /\ balances' = Apply(balances, moves)
    /\ entries' = IF to = "sent" THEN [entries EXCEPT ![p].sent = @ + 1]
                                 ELSE [entries EXCEPT ![p].returned = @ + 1]
    /\ UNCHANGED <<limits, deposits, approvals, requests, decisions, relays, now>>

ReturnHold(p) == Unhold(withdrawals[p].user, withdrawals[p].amount)

MarkWithdrawalSent(p) ==
    Close(p, ReportableStatus, "sent", Spend(withdrawals[p].user, withdrawals[p].amount))
MarkWithdrawalFailed(p) == Close(p, ReportableStatus, "failed", ReturnHold(p))

CancelWithdrawal(p) ==
    Close(p, CancellableStatus, "cancelled", ReturnHold(p)) /\ UNCHANGED workers

-----------------------------------------------------------------------------
(* An administrator decides: decideWithdrawal() *)

DecideRead(a, p, approve) ==
    /\ MayBegin
    /\ decisions[a].stage = "none"
    /\ withdrawals[p].status = "approval_required"
    /\ decisions' = [decisions EXCEPT ![a] =
            [stage |-> "read", payout |-> p, approve |-> approve, count |-> 0]]
    /\ UNCHANGED <<balances, limits, deposits, withdrawals, approvals, entries,
                   requests, workers, relays, now>>

\* The COUNT sees this transaction's own signature and the committed ones.
BugSignatures(p, a) == Cardinality(approvals[p]) + 1
BugSignaturesBefore(p, a) == Cardinality(approvals[p])
Signatures(p, a) == Cardinality(approvals[p] \cup {a})

CountApprovals(a) ==
    /\ decisions[a].stage = "read" /\ decisions[a].approve
    /\ decisions' = [decisions EXCEPT ![a].stage = "counted",
            ![a].count = Signatures(decisions[a].payout, a)]
    /\ UNCHANGED <<balances, limits, deposits, withdrawals, approvals, entries,
                   requests, workers, relays, now>>

\* The guarded UPDATE of either branch; zero rows changed is not an error.
BugSettle(p, status, a) == UNCHANGED withdrawals
Settle(p, status, a) ==
    withdrawals' = IF withdrawals[p].status = "approval_required"
                   THEN [withdrawals EXCEPT ![p].status = status, ![p].decidedBy = a]
                   ELSE withdrawals

CommitApproval(a) ==
    LET p == decisions[a].payout
    IN  /\ decisions[a].stage = "counted"
        /\ approvals' = [approvals EXCEPT ![p] = @ \cup {a}]
        /\ IF decisions[a].count >= Required(p) THEN Settle(p, "queued", a)
                                                ELSE UNCHANGED withdrawals
        /\ decisions' = [decisions EXCEPT ![a] = NoDecision]
        /\ UNCHANGED <<balances, limits, deposits, entries, requests, workers,
                       relays, now>>

\* The refusal applies its movement whether or not its UPDATE changed the row.
CommitRejection(a) ==
    LET p == decisions[a].payout
    IN  /\ decisions[a].stage = "read" /\ ~decisions[a].approve
        /\ Covered(balances, ReturnHold(p))
        /\ Settle(p, "rejected", a)
        /\ balances' = Apply(balances, ReturnHold(p))
        /\ entries' = [entries EXCEPT ![p].returned = @ + 1]
        /\ decisions' = [decisions EXCEPT ![a] = NoDecision]
        /\ UNCHANGED <<limits, deposits, approvals, requests, workers, relays, now>>

AbandonDecision(a) ==
    /\ decisions[a].stage # "none"
    /\ decisions' = [decisions EXCEPT ![a] = NoDecision]
    /\ UNCHANGED <<balances, limits, deposits, withdrawals, approvals, entries,
                   requests, workers, relays, now>>

-----------------------------------------------------------------------------
(* The payout worker *)

Hands(k, p, stage) == workers' = [workers EXCEPT ![k] = [payout |-> p, stage |-> stage]]

OnlyWorkers == UNCHANGED <<balances, limits, deposits, withdrawals, approvals,
                           entries, requests, decisions, relays, now>>

\* One UPDATE picks the oldest queued row.  The answer may not reach the worker.
\* A single statement does not wait in SQLite's queue of transactions.
BugClaimable(p) == withdrawals[p].status \in {"queued", "sending"}
Claimable(p) == /\ withdrawals[p].status = "queued"
                /\ \A q \in Payouts : withdrawals[q].status = "queued"
                                         => withdrawals[p].at <= withdrawals[q].at

ClaimWithdrawal(k, p, heard) ==
    /\ workers[k] = IdleWorker
    /\ Claimable(p)
    /\ withdrawals' = [withdrawals EXCEPT ![p].status = "sending"]
    /\ IF heard THEN Hands(k, p, "claimed") ELSE UNCHANGED workers
    /\ UNCHANGED <<balances, limits, deposits, approvals, entries, requests,
                   decisions, relays, now>>

\* Above the float, an address the wallet refuses, or a transfer() that throws
\* with nothing relayed.
NotRelayed(k) ==
    /\ workers[k].stage = "claimed"
    /\ Hands(k, workers[k].payout, "failed")
    /\ OnlyWorkers

\* The wallet relays.  If the 120 s limit on the call passes first, sendOne's
\* catch branch takes it for a failure.
Relay(k) ==
    LET p == workers[k].payout
    IN  /\ workers[k].stage = "claimed"
        /\ withdrawals[p].amount <= Float
        /\ relays' = [relays EXCEPT ![p] = @ + 1]
        /\ \/ Hands(k, p, "relayed")
           \/ LateRelay /\ Hands(k, p, "failed")
        /\ UNCHANGED <<balances, limits, deposits, withdrawals, approvals, entries,
                       requests, decisions, now>>

ReportSent(k) ==
    /\ workers[k].stage = "relayed"
    /\ MarkWithdrawalSent(workers[k].payout)
    /\ Hands(k, None, "idle")

ReportFailed(k) ==
    /\ workers[k].stage = "failed"
    /\ MarkWithdrawalFailed(workers[k].payout)
    /\ Hands(k, None, "idle")

\* A crash, or a report the marketplace did not accept: the loop's catch goes
\* back to polling, and nothing is retried.
GiveUp(k) == workers[k] # IdleWorker /\ Hands(k, None, "idle") /\ OnlyWorkers

\* The resolve route.  The operator waits until no worker has the payout and
\* answers what the wallet's history shows.
Resolve(p) ==
    /\ withdrawals[p].status = "sending"
    /\ \A k \in Workers : workers[k].payout # p
    /\ IF relays[p] > 0 THEN MarkWithdrawalSent(p) ELSE MarkWithdrawalFailed(p)
    /\ UNCHANGED workers

Tick ==
    /\ now < MaxTime
    /\ now' = now + 1
    /\ UNCHANGED <<balances, limits, deposits, withdrawals, approvals, entries,
                   requests, decisions, workers, relays>>

Next ==
    \/ \E t \in Transfers : Arrive(t) \/ CreditDeposit(t)
    \/ \E u \in Users, limit \in Limits : SetPayoutLimit(u, limit)
    \/ \E p \in Payouts, u \in Users :
          \/ \E amount \in Amounts : Ask(p, u, amount, FALSE)
          \/ Ask(p, u, 0, TRUE)
    \/ \E p \in Payouts : \/ BeginPayout(p) \/ BeginRefund(p) \/ CommitRequest(p)
                          \/ AbandonRequest(p) \/ CancelWithdrawal(p) \/ Resolve(p)
    \/ \E a \in Admins, p \in Payouts, approve \in BOOLEAN : DecideRead(a, p, approve)
    \/ \E a \in Admins : \/ CountApprovals(a) \/ CommitApproval(a)
                         \/ CommitRejection(a) \/ AbandonDecision(a)
    \/ \E k \in Workers, p \in Payouts, heard \in BOOLEAN : ClaimWithdrawal(k, p, heard)
    \/ \E k \in Workers : \/ NotRelayed(k) \/ Relay(k) \/ ReportSent(k)
                          \/ ReportFailed(k) \/ GiveUp(k)
    \/ Tick

Spec == Init /\ [][Next]_vars

\* The worker's loop, the operator who reads the wallet's history, and the end
\* of every open transaction (it commits, or the driver rolls it back) happen
\* eventually; SQLite's queue of transactions is first come, first served.
Fairness ==
    /\ \A p \in Payouts : /\ WF_vars(CommitRequest(p) \/ (requests[p].stage = "open" /\ AbandonRequest(p)))
                          /\ SF_vars(Resolve(p))
    /\ \A a \in Admins : WF_vars(CountApprovals(a) \/ CommitApproval(a)
                                    \/ CommitRejection(a) \/ AbandonDecision(a))
    /\ \A k \in Workers :
          /\ SF_vars(\E p \in Payouts, heard \in BOOLEAN : ClaimWithdrawal(k, p, heard))
          /\ WF_vars(NotRelayed(k) \/ Relay(k))
          /\ WF_vars(GiveUp(k))
FairSpec == Spec /\ Fairness

-----------------------------------------------------------------------------
(* Properties *)

Request == {NoRequest} \cup
    [stage : {"asked", "open"}, user : Users, amount : Nat, limit : Nat,
     dust : SUBSET Transfers, refund : BOOLEAN, at : Nat, recent : Nat]
Row == {NoRow} \cup
    [status : OpenStatus \cup ClosedStatus, user : Users, amount : Nat, at : Nat,
     decidedBy : Admins \cup {None}]
Decision == {NoDecision} \cup
    [stage : {"read", "counted"}, payout : Payouts, approve : BOOLEAN, count : Nat]
Worker == {IdleWorker} \cup
    [payout : Payouts, stage : {"claimed", "relayed", "failed"}]

\* Every variable keeps its shape: in particular no balance is ever negative
\* (rule 3 of lib/ledger.ts).
TypeOK ==
    /\ balances \in [Users -> Account]
    /\ limits \in [Users -> Limits]
    /\ deposits \in [Transfers -> {"absent", "arrived", "below_minimum", "credited"}]
    /\ withdrawals \in [Payouts -> Row]
    /\ approvals \in [Payouts -> SUBSET Admins]
    /\ entries \in [Payouts -> [sent : Nat, returned : Nat]]
    /\ requests \in [Payouts -> Request]
    /\ decisions \in [Admins -> Decision]
    /\ workers \in [Workers -> Worker]
    /\ relays \in [Payouts -> Nat]
    /\ now \in Nat

\* Money held is exactly the money of open payouts, and an account has at most
\* one of those: whatever was taken for a payout is given up once.
HeldBacksOpen ==
    \A u \in Users : /\ \A p, q \in OpenOf(u) : p = q
                    /\ balances[u].held = AmountOf(OpenOf(u))

\* The ledger closes a payout exactly once, in the way its row says.
ClosedOnce ==
    \A p \in Payouts :
        /\ entries[p].sent = IF withdrawals[p].status = "sent" THEN 1 ELSE 0
        /\ entries[p].returned = IF withdrawals[p].status \in ClosedStatus \ {"sent"} THEN 1 ELSE 0

\* No payout leaves the wallet twice, whatever the worker forgets.
RelayedOnce == \A p \in Payouts : relays[p] <= 1

\* A payout the wallet relayed is never handed back to its owner: it is sent, or
\* still waiting to be reported (docs/PAYMENTS.md).
PaidNotReturned ==
    \A p \in Payouts : relays[p] > 0 => /\ withdrawals[p].status \in {"sending", "sent"}
                                        /\ entries[p].returned = 0

\* What solvency() compares: liabilities against the wallet.  They differ only
\* by transfers not recorded yet and by payouts relayed but not reported yet
\* (and by network fees, which no account is charged for).
Liabilities ==
    Total([u \in Users |-> balances[u].available + balances[u].held + ValueOf(Dust(u))])
WalletTotal ==
    ValueOf({t \in Transfers : deposits[t] # "absent"})
        - Total([p \in Payouts |-> relays[p] * withdrawals[p].amount])
Unreported == {p \in Payouts : relays[p] > 0 /\ withdrawals[p].status = "sending"}

BooksMatchWallet ==
    Liabilities + ValueOf({t \in Transfers : deposits[t] = "arrived"})
        = WalletTotal + AmountOf(Unreported)

AutomaticOutflow(u) ==
    {p \in Payouts : /\ withdrawals[p].user = u /\ withdrawals[p].at > now - Day
                     /\ withdrawals[p].status \in {"queued", "sending", "sent"}
                     /\ withdrawals[p].decidedBy = None}
\* A payout an administrator released carries the signatures its amount needs,
\* however the decisions, clicks and cancellations interleave (ADR-0076).
SignedRelease ==
    \A p \in Payouts :
        withdrawals[p].status \in {"queued", "sending", "sent"} /\ withdrawals[p].decidedBy # None
            => Cardinality(approvals[p]) >= Required(p)

\* Nobody's payout is released early or kept for ever: what leaves an account
\* in any rolling day with nobody's decision stays under the highest ceiling it
\* could have been given, and once the administrators its amount requires have
\* signed and no decision is in flight, a payout is no longer parked.
\* (ledger.ts: queueWithdrawal's window, decideWithdrawal)
ReleasesAreDue ==
    /\ \A u \in Users : \E limit \in Limits : AmountOf(AutomaticOutflow(u)) <= limit
    /\ \A p \in Payouts :
           /\ withdrawals[p].status = "approval_required"
           /\ \A a \in Admins : decisions[a].payout # p
           => Cardinality(approvals[p]) < Required(p)

\* A queued payout is settled in the end, whatever crashes: the worker takes it
\* once, and a human resolves the one it never reported.
QueuedPayoutsClose ==
    \A p \in Payouts : withdrawals[p].status = "queued" ~> withdrawals[p].status \in ClosedStatus

\* The owner's view of the tier: an abstract payout is paid at the relay.
PromiseState(p) ==
    IF withdrawals[p].status = "none" THEN "unasked"
    ELSE IF relays[p] > 0 THEN "paid"
    ELSE IF withdrawals[p].status \in OpenStatus THEN "waiting"
    ELSE "lapsed"
Promise == INSTANCE Remittance WITH
    owed <- [u \in Users |-> (balances[u].available + balances[u].held + ValueOf(Dust(u)))
                                - AmountOf({p \in Unreported : withdrawals[p].user = u})],
    payout <- [p \in Payouts |-> [state |-> PromiseState(p), user |-> withdrawals[p].user,
                                  amount |-> withdrawals[p].amount]]
KeepsPromise == Promise!Spec

=============================================================================
