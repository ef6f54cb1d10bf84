---------------------------- MODULE PayoutsProofs ---------------------------
(***************************************************************************)
(* What holds of Payouts for every number of users, administrators,        *)
(* workers and payouts, and every amount and ceiling.  In the second half, *)
(* where the money is: the books equal the wallet, and the tier keeps the  *)
(* promise of Remittance.  Both need that no relayed transfer is taken for *)
(* a failure (~LateRelay), and neither depends on the database.  And that  *)
(* payouts are released when they are due, and not before: the rolling     *)
(* ceiling and the signatures, where one transaction runs at a time.       *)
(***************************************************************************)
EXTENDS Payouts, LedgerProofs

-----------------------------------------------------------------------------
(* Types *)

\* TypeOK needs one thing more to be inductive: a decision in flight is about a
\* payout that has a row, since its refusal returns that row's amount.
DecisionsHaveRows ==
    \A a \in Admins : decisions[a].stage # "none"
                          => withdrawals[decisions[a].payout].status # "none"
TypeInv == TypeOK /\ DecisionsHaveRows

LEMMA AmountOfType ==
    ASSUME TypeOK, NEW S \in SUBSET Payouts
    PROVE  AmountOf(S) \in Nat
<1>1. IsFiniteSet(S)
    BY SetsAssumption, FS_Subset
<1>2. \A p \in S : withdrawals[p].amount \in Nat
    BY DEF TypeOK, Row, NoRow
<1>3. [p \in S |-> withdrawals[p].amount] \in [S -> Nat]
    BY <1>2
<1> QED BY <1>1, <1>3, TotalType DEF AmountOf

LEMMA ValueOfType ==
    ASSUME NEW T \in SUBSET Transfers
    PROVE  ValueOf(T) \in Nat
<1>1. IsFiniteSet(T)
    BY SetsAssumption, FS_Subset
<1>2. [t \in T |-> valueOf[t]] \in [T -> Nat]
    BY SetsAssumption
<1> QED BY <1>1, <1>2, TotalType DEF ValueOf

LEMMA InitType == Init => TypeInv
<1>1. SUFFICES ASSUME Init PROVE TypeInv
    OBVIOUS
<1>2. balances \in [Users -> Account]
    BY <1>1 DEF Init, EmptyAccount, Account
<1>3. /\ limits \in [Users -> Limits]
      /\ deposits \in [Transfers -> {"absent", "arrived", "below_minimum", "credited"}]
      /\ withdrawals \in [Payouts -> Row] /\ approvals \in [Payouts -> SUBSET Admins]
      /\ entries \in [Payouts -> [sent : Nat, returned : Nat]]
      /\ relays \in [Payouts -> Nat] /\ now \in Nat
    BY <1>1, NumbersAssumption DEF Init, Row
<1>4. /\ requests \in [Payouts -> Request] /\ decisions \in [Admins -> Decision]
      /\ workers \in [Workers -> Worker]
    BY <1>1 DEF Init, Request, Decision, Worker
<1>5. DecisionsHaveRows
    BY <1>1 DEF Init, DecisionsHaveRows, NoDecision
<1> QED BY <1>2, <1>3, <1>4, <1>5 DEF TypeInv, TypeOK

\* A row in a given set of statuses has an owner and an amount.
LEMMA RowType ==
    ASSUME TypeOK, NEW p \in Payouts, withdrawals[p].status # "none"
    PROVE  withdrawals[p].user \in Users /\ withdrawals[p].amount \in Nat
BY DEF TypeOK, Row, NoRow

\* Closing a payout moves its amount out of what its owner has on hold.
LEMMA ReturnType ==
    ASSUME TypeOK, NEW p \in Payouts, withdrawals[p].status # "none",
           Covered(balances, ReturnHold(p))
    PROVE  Apply(balances, ReturnHold(p)) \in [Users -> Account]
<1> DEFINE u == withdrawals[p].user
           n == withdrawals[p].amount
<1>1. u \in Users /\ n \in Nat /\ balances \in [Users -> Account]
    BY RowType DEF TypeOK
<1>2. ReturnHold(p) = On(u, Movement(n, -n))
    BY <1>1, Kinds DEF ReturnHold
<1>3. Covered(balances, On(u, Movement(n, -n))) /\ n \in Int /\ -n \in Int
    BY <1>1, <1>2
<1> HIDE DEF u, n
<1>4. Apply(balances, On(u, Movement(n, -n))) \in [Users -> Account]
    BY <1>1, <1>3, ApplyOne
<1> QED BY <1>2, <1>4

LEMMA SpendType ==
    ASSUME TypeOK, NEW p \in Payouts, withdrawals[p].status # "none",
           Covered(balances, Spend(withdrawals[p].user, withdrawals[p].amount))
    PROVE  Apply(balances, Spend(withdrawals[p].user, withdrawals[p].amount))
                \in [Users -> Account]
<1> DEFINE u == withdrawals[p].user
           n == withdrawals[p].amount
<1>1. u \in Users /\ n \in Nat /\ balances \in [Users -> Account]
    BY RowType DEF TypeOK
<1>2. Spend(u, n) = On(u, Movement(0, -n))
    BY <1>1, Kinds
<1>3. Covered(balances, On(u, Movement(0, -n))) /\ 0 \in Int /\ -n \in Int
    BY <1>1, <1>2
<1> HIDE DEF u, n
<1>4. Apply(balances, On(u, Movement(0, -n))) \in [Users -> Account]
    BY <1>1, <1>3, ApplyOne
<1> QED BY <1>2, <1>4 DEF u, n

\* Every way to close a payout keeps the types: Close checks the statuses it
\* closes from, so the row it closes has an owner.
LEMMA CloseType ==
    ASSUME TypeInv, NEW p \in Payouts, NEW from \in SUBSET OpenStatus,
           NEW to \in ClosedStatus, NEW STATE moves, Close(p, from, to, moves),
           Apply(balances, moves) \in [Users -> Account],
           workers' \in [Workers -> Worker]
    PROVE  TypeInv'
<1>1. withdrawals[p].status \in OpenStatus /\ withdrawals[p] \in Row
    BY DEF Close, TypeInv, TypeOK
<1>2. withdrawals[p].status # "none" /\ withdrawals[p] \in Row \ {NoRow}
    BY <1>1 DEF OpenStatus, NoRow
<1>3. [withdrawals[p] EXCEPT !.status = to] \in Row
    BY <1>2 DEF Row
<1>4. withdrawals' \in [Payouts -> Row]
    BY <1>3 DEF Close, TypeInv, TypeOK
<1>5. balances' \in [Users -> Account] /\ entries' \in [Payouts -> [sent : Nat, returned : Nat]]
    BY DEF Close, TypeInv, TypeOK
<1>6. TypeOK'
    BY <1>4, <1>5 DEF Close, TypeInv, TypeOK
<1>7. \A q \in Payouts : withdrawals[q].status # "none" => withdrawals'[q].status # "none"
    BY <1>2 DEF Close, TypeInv, TypeOK, ClosedStatus, Row, NoRow
<1>8. DecisionsHaveRows'
    BY <1>7 DEF Close, DecisionsHaveRows, TypeInv, TypeOK, Decision, NoDecision
<1> QED BY <1>6, <1>8 DEF TypeInv

LEMMA MarkWithdrawalSentType ==
    ASSUME TypeInv, NEW p \in Payouts, MarkWithdrawalSent(p), workers' \in [Workers -> Worker]
    PROVE  TypeInv'
<1> DEFINE moves == Spend(withdrawals[p].user, withdrawals[p].amount)
<1>1. Close(p, ReportableStatus, "sent", moves)
    BY DEF MarkWithdrawalSent
<1>2. withdrawals[p].status # "none" /\ Covered(balances, moves)
    BY <1>1 DEF Close, ReportableStatus
<1>3. Apply(balances, moves) \in [Users -> Account]
    BY <1>2, SpendType DEF TypeInv
<1>4. ReportableStatus \in SUBSET OpenStatus /\ "sent" \in ClosedStatus
    BY DEF ReportableStatus, OpenStatus, ClosedStatus
<1> HIDE DEF moves
<1> QED BY <1>1, <1>3, <1>4, CloseType

LEMMA MarkWithdrawalFailedType ==
    ASSUME TypeInv, NEW p \in Payouts, MarkWithdrawalFailed(p), workers' \in [Workers -> Worker]
    PROVE  TypeInv'
<1>1. Close(p, ReportableStatus, "failed", ReturnHold(p))
    BY DEF MarkWithdrawalFailed
<1>2. withdrawals[p].status # "none" /\ Covered(balances, ReturnHold(p))
    BY <1>1 DEF Close, ReportableStatus
<1>3. Apply(balances, ReturnHold(p)) \in [Users -> Account]
    BY <1>2, ReturnType DEF TypeInv
<1>4. ReportableStatus \in SUBSET OpenStatus /\ "failed" \in ClosedStatus
    BY DEF ReportableStatus, OpenStatus, ClosedStatus
<1> QED BY <1>1, <1>3, <1>4, CloseType

LEMMA CancelWithdrawalType ==
    ASSUME TypeInv, NEW p \in Payouts, CancelWithdrawal(p)
    PROVE  TypeInv'
<1>1. Close(p, CancellableStatus, "cancelled", ReturnHold(p)) /\ UNCHANGED workers
    BY DEF CancelWithdrawal
<1>2. withdrawals[p].status # "none" /\ Covered(balances, ReturnHold(p))
    BY <1>1 DEF Close, CancellableStatus
<1>3. Apply(balances, ReturnHold(p)) \in [Users -> Account]
    BY <1>2, ReturnType DEF TypeInv
<1>4. CancellableStatus \in SUBSET OpenStatus /\ "cancelled" \in ClosedStatus
    BY DEF CancellableStatus, OpenStatus, ClosedStatus
<1>5. workers' \in [Workers -> Worker]
    BY <1>1 DEF TypeInv, TypeOK
<1> QED BY <1>1, <1>3, <1>4, <1>5, CloseType

\* What an open request holds: an owner, an amount and the rows it claimed.
LEMMA RequestType ==
    ASSUME TypeOK, NEW p \in Payouts, requests[p].stage # "none"
    PROVE  /\ requests[p].user \in Users /\ requests[p].amount \in Nat
           /\ requests[p].dust \in SUBSET Transfers
           /\ requests[p] \in [stage : {"asked", "open"}, user : Users, amount : Nat,
                                limit : Nat, dust : SUBSET Transfers, refund : BOOLEAN,
                                at : Nat, recent : Nat]
BY DEF TypeOK, Request, NoRequest

LEMMA OpenTransactionType ==
    ASSUME TypeInv, NEW p \in Payouts, NEW STATE amount, amount \in Nat,
           NEW STATE dust, dust \in SUBSET Transfers, OpenTransaction(p, amount, dust)
    PROVE  TypeInv'
<1>1. AmountOf(Recent(requests[p].user, now)) \in Nat
    BY AmountOfType DEF Recent, TypeInv
<1>2. requests[p].stage # "none"
    BY DEF OpenTransaction
<1>3. requests[p] \in [stage : {"asked", "open"}, user : Users, amount : Nat,
                        limit : Nat, dust : SUBSET Transfers, refund : BOOLEAN,
                        at : Nat, recent : Nat]
    BY <1>2, RequestType DEF TypeInv
<1>4. now \in Nat
    BY DEF TypeInv, TypeOK
<1>5. [requests[p] EXCEPT !.stage = "open", !.amount = amount, !.dust = dust, !.at = now,
            !.recent = AmountOf(Recent(requests[p].user, now))] \in Request
    BY <1>1, <1>3, <1>4 DEF Request
<1>6. requests' \in [Payouts -> Request]
    BY <1>5 DEF OpenTransaction, TypeInv, TypeOK
<1>7. TypeOK'
    BY <1>6 DEF OpenTransaction, OnlyRequests, TypeInv, TypeOK
<1>8. DecisionsHaveRows'
    BY DEF OpenTransaction, OnlyRequests, TypeInv, DecisionsHaveRows
<1> QED BY <1>7, <1>8 DEF TypeInv

LEMMA CreditDepositType ==
    ASSUME TypeInv, NEW t \in Transfers, CreditDeposit(t)
    PROVE  TypeInv'
<1> DEFINE u == payerOf[t]
           n == valueOf[t]
<1>1. u \in Users /\ n \in Nat /\ n \in Int /\ 0 \in Int /\ balances \in [Users -> Account]
    BY SetsAssumption DEF TypeInv, TypeOK
<1>2. Credit(u, n) = On(u, Movement(n, 0))
    BY <1>1, Kinds
<1> HIDE DEF u, n
<1>3. Covered(balances, On(u, Movement(n, 0)))
    BY <1>1 DEF Covered, On, Movement, Account
<1>4. Apply(balances, On(u, Movement(n, 0))) \in [Users -> Account]
    BY <1>1, <1>3, ApplyOne
<1>5. balances' \in [Users -> Account]
    BY <1>1, <1>2, <1>4 DEF CreditDeposit, u, n
<1>6. TypeOK'
    BY <1>5 DEF CreditDeposit, TypeInv, TypeOK
<1>7. DecisionsHaveRows'
    BY DEF CreditDeposit, TypeInv, DecisionsHaveRows
<1> QED BY <1>6, <1>7 DEF TypeInv

\* A request that commits finds the money it holds: its owner's own, or the
\* deposits it claims in the same transaction.
LEMMA RequestMovesType ==
    ASSUME TypeOK, NEW p \in Payouts, requests[p].stage = "open",
           Covered(balances, RequestMoves(requests[p]))
    PROVE  Apply(balances, RequestMoves(requests[p])) \in [Users -> Account]
<1> DEFINE u == requests[p].user
           n == requests[p].amount
<1>1. /\ u \in Users /\ n \in Nat /\ n \in Int /\ -n \in Int /\ 0 \in Int
      /\ balances \in [Users -> Account]
    BY RequestType DEF TypeOK
<1>2. \/ RequestMoves(requests[p]) = On(u, Movement(0, n))
      \/ RequestMoves(requests[p]) = On(u, Movement(-n, n))
    BY <1>1, Kinds DEF RequestMoves
<1>3. \/ Covered(balances, On(u, Movement(0, n)))
      \/ Covered(balances, On(u, Movement(-n, n)))
    BY <1>2
<1> HIDE DEF u, n
<1>4. CASE RequestMoves(requests[p]) = On(u, Movement(0, n))
    <2>1. Covered(balances, On(u, Movement(0, n)))
        BY <1>4
    <2>2. Apply(balances, On(u, Movement(0, n))) \in [Users -> Account]
        BY <1>1, <2>1, ApplyOne
    <2> QED BY <1>4, <2>2
<1>5. CASE RequestMoves(requests[p]) = On(u, Movement(-n, n))
    <2>1. Covered(balances, On(u, Movement(-n, n)))
        BY <1>5
    <2>2. Apply(balances, On(u, Movement(-n, n))) \in [Users -> Account]
        BY <1>1, <2>1, ApplyOne
    <2> QED BY <1>5, <2>2
<1> QED BY <1>2, <1>4, <1>5

LEMMA CommitRequestType ==
    ASSUME TypeInv, NEW p \in Payouts, CommitRequest(p)
    PROVE  TypeInv'
<1> DEFINE r == requests[p]
           row == [status |-> IF Automatic(r) THEN "queued" ELSE "approval_required",
                   user |-> r.user, amount |-> r.amount, at |-> r.at, decidedBy |-> None]
<1>1. r.stage = "open"
    BY DEF CommitRequest
<1>2. /\ r.user \in Users /\ r.amount \in Nat /\ r.at \in Nat
      /\ r.dust \in SUBSET Transfers
    BY <1>1, RequestType DEF TypeInv
<1>3. balances' \in [Users -> Account]
    BY <1>1, RequestMovesType DEF CommitRequest, TypeInv
<1>4. row \in Row /\ row.status # "none"
    BY <1>2 DEF Row, OpenStatus
<1>5. withdrawals' = [withdrawals EXCEPT ![p] = row]
    BY DEF CommitRequest
<1> HIDE DEF r, row
<1>6. withdrawals' \in [Payouts -> Row]
    BY <1>4, <1>5 DEF TypeInv, TypeOK
<1>7. deposits' \in [Transfers -> {"absent", "arrived", "below_minimum", "credited"}]
    BY DEF CommitRequest, Claimed, TypeInv, TypeOK
<1>8. requests' \in [Payouts -> Request]
    BY DEF CommitRequest, TypeInv, TypeOK, Request
<1>9. TypeOK'
    BY <1>3, <1>6, <1>7, <1>8 DEF CommitRequest, TypeInv, TypeOK
<1>10. DecisionsHaveRows'
    BY <1>4, <1>5 DEF CommitRequest, TypeInv, TypeOK, DecisionsHaveRows, Decision, NoDecision
<1> QED BY <1>9, <1>10 DEF TypeInv

LEMMA DecisionType ==
    ASSUME TypeOK, NEW a \in Admins, decisions[a].stage # "none"
    PROVE  /\ decisions[a].payout \in Payouts
           /\ decisions[a] \in [stage : {"read", "counted"}, payout : Payouts,
                                 approve : BOOLEAN, count : Nat]
BY DEF TypeOK, Decision, NoDecision

\* Settling a parked row keeps it a row, and leaves every other one alone.
LEMMA SettleType ==
    ASSUME TypeOK, NEW p \in Payouts, NEW a \in Admins,
           NEW status \in {"queued", "rejected"}, Settle(p, status, a)
    PROVE  /\ withdrawals' \in [Payouts -> Row]
           /\ \A q \in Payouts : withdrawals[q].status # "none"
                                    => withdrawals'[q].status # "none"
<1>1. CASE withdrawals[p].status = "approval_required"
    <2>1. withdrawals[p] \in [status : OpenStatus \cup ClosedStatus, user : Users,
                              amount : Nat, at : Nat, decidedBy : Admins \cup {None}]
        BY <1>1 DEF TypeOK, Row, NoRow
    <2>2. [withdrawals[p] EXCEPT !.status = status, !.decidedBy = a] \in Row
        BY <2>1 DEF Row, OpenStatus, ClosedStatus
    <2>3. withdrawals' = [withdrawals EXCEPT ![p] =
                            [withdrawals[p] EXCEPT !.status = status, !.decidedBy = a]]
        BY <1>1, <2>1 DEF Settle, TypeOK
    <2>4. [withdrawals[p] EXCEPT !.status = status, !.decidedBy = a].status # "none"
        BY <2>1
    <2> QED BY <2>2, <2>3, <2>4 DEF TypeOK
<1>2. CASE withdrawals[p].status # "approval_required"
    BY <1>2 DEF Settle, TypeOK
<1> QED BY <1>1, <1>2

LEMMA CountApprovalsType ==
    ASSUME TypeInv, NEW a \in Admins, CountApprovals(a)
    PROVE  TypeInv'
<1> DEFINE p == decisions[a].payout
<1>1. decisions[a].stage # "none"
    BY DEF CountApprovals
<1>2. p \in Payouts /\ decisions[a] \in [stage : {"read", "counted"}, payout : Payouts,
                                          approve : BOOLEAN, count : Nat]
    BY <1>1, DecisionType DEF TypeInv
<1>3. approvals[p] \cup {a} \in SUBSET Admins
    BY <1>2 DEF TypeInv, TypeOK
<1>4. Signatures(p, a) \in Nat
    BY <1>3, SetsAssumption, FS_Subset, FS_CardinalityType DEF Signatures
<1> HIDE DEF p
<1>5. [decisions[a] EXCEPT !.stage = "counted", !.count = Signatures(p, a)] \in Decision
    BY <1>2, <1>4 DEF Decision
<1>6. decisions' = [decisions EXCEPT ![a] =
                      [decisions[a] EXCEPT !.stage = "counted", !.count = Signatures(p, a)]]
    BY <1>2 DEF CountApprovals, p, TypeInv, TypeOK
<1>7. TypeOK'
    BY <1>5, <1>6 DEF CountApprovals, TypeInv, TypeOK
<1>8. DecisionsHaveRows'
    BY <1>1, <1>2, <1>6 DEF CountApprovals, TypeInv, TypeOK, DecisionsHaveRows
<1> QED BY <1>7, <1>8 DEF TypeInv

LEMMA CommitApprovalType ==
    ASSUME TypeInv, NEW a \in Admins, CommitApproval(a)
    PROVE  TypeInv'
<1> DEFINE p == decisions[a].payout
<1>1. decisions[a].stage # "none"
    BY DEF CommitApproval
<1>2. p \in Payouts
    BY <1>1, DecisionType DEF TypeInv
<1>3. Settle(p, "queued", a) \/ UNCHANGED withdrawals
    BY DEF CommitApproval
<1>4. /\ approvals' = [approvals EXCEPT ![p] = @ \cup {a}]
      /\ decisions' = [decisions EXCEPT ![a] = NoDecision]
      /\ UNCHANGED <<balances, limits, deposits, entries, requests, workers, relays, now>>
    BY DEF CommitApproval
<1> HIDE DEF p
<1>5. /\ withdrawals' \in [Payouts -> Row]
      /\ \A q \in Payouts : withdrawals[q].status # "none" => withdrawals'[q].status # "none"
    BY <1>2, <1>3, SettleType DEF TypeInv, TypeOK
<1>6. TypeOK'
    BY <1>2, <1>4, <1>5 DEF TypeInv, TypeOK, Decision
<1>7. DecisionsHaveRows'
    BY <1>4, <1>5 DEF TypeInv, TypeOK, DecisionsHaveRows, Decision, NoDecision
<1> QED BY <1>6, <1>7 DEF TypeInv

LEMMA CommitRejectionType ==
    ASSUME TypeInv, NEW a \in Admins, CommitRejection(a)
    PROVE  TypeInv'
<1> DEFINE p == decisions[a].payout
<1>1. decisions[a].stage # "none"
    BY DEF CommitRejection
<1>2. p \in Payouts /\ withdrawals[p].status # "none"
    BY <1>1, DecisionType DEF TypeInv, DecisionsHaveRows
<1>3. /\ Settle(p, "rejected", a) /\ Covered(balances, ReturnHold(p))
      /\ balances' = Apply(balances, ReturnHold(p))
      /\ entries' = [entries EXCEPT ![p].returned = @ + 1]
      /\ decisions' = [decisions EXCEPT ![a] = NoDecision]
      /\ UNCHANGED <<limits, deposits, approvals, requests, workers, relays, now>>
    BY DEF CommitRejection
<1> HIDE DEF p
<1>4. balances' \in [Users -> Account]
    BY <1>2, <1>3, ReturnType DEF TypeInv
<1>5. /\ withdrawals' \in [Payouts -> Row]
      /\ \A q \in Payouts : withdrawals[q].status # "none" => withdrawals'[q].status # "none"
    BY <1>2, <1>3, SettleType DEF TypeInv
<1>6. entries' \in [Payouts -> [sent : Nat, returned : Nat]]
    BY <1>2, <1>3 DEF TypeInv, TypeOK
<1>7. decisions' \in [Admins -> Decision]
    BY <1>3 DEF TypeInv, TypeOK, Decision
<1>8. TypeOK'
    BY <1>3, <1>4, <1>5, <1>6, <1>7 DEF TypeInv, TypeOK
<1>9. DecisionsHaveRows'
    BY <1>3, <1>5 DEF TypeInv, TypeOK, DecisionsHaveRows, Decision, NoDecision
<1> QED BY <1>8, <1>9 DEF TypeInv

LEMMA ClaimWithdrawalType ==
    ASSUME TypeInv, NEW k \in Workers, NEW p \in Payouts, NEW heard \in BOOLEAN,
           ClaimWithdrawal(k, p, heard)
    PROVE  TypeInv'
<1>1. withdrawals[p].status = "queued"
    BY DEF ClaimWithdrawal, Claimable
<1>2. withdrawals[p] \in [status : OpenStatus \cup ClosedStatus, user : Users,
                          amount : Nat, at : Nat, decidedBy : Admins \cup {None}]
    BY <1>1 DEF TypeInv, TypeOK, Row, NoRow
<1>3. [withdrawals[p] EXCEPT !.status = "sending"] \in Row
    BY <1>2 DEF Row, OpenStatus
<1>4. withdrawals' \in [Payouts -> Row]
    BY <1>3 DEF ClaimWithdrawal, TypeInv, TypeOK
<1>5. workers' \in [Workers -> Worker]
    BY DEF ClaimWithdrawal, Hands, Worker, TypeInv, TypeOK
<1>6. TypeOK'
    BY <1>4, <1>5 DEF ClaimWithdrawal, TypeInv, TypeOK
<1>7. \A q \in Payouts : withdrawals[q].status # "none" => withdrawals'[q].status # "none"
    BY <1>2 DEF ClaimWithdrawal, TypeInv, TypeOK
<1>8. DecisionsHaveRows'
    BY <1>7 DEF ClaimWithdrawal, TypeInv, TypeOK, DecisionsHaveRows, Decision, NoDecision
<1> QED BY <1>6, <1>8 DEF TypeInv

LEMMA TypeStep == TypeInv /\ [Next]_vars => TypeInv'
<1> SUFFICES ASSUME TypeInv, [Next]_vars PROVE TypeInv'
    OBVIOUS
<1>1. ASSUME NEW t \in Transfers, Arrive(t) PROVE TypeInv'
    BY <1>1 DEF Arrive, TypeInv, TypeOK, DecisionsHaveRows
<1>2. ASSUME NEW t \in Transfers, CreditDeposit(t) PROVE TypeInv'
    BY <1>2, CreditDepositType
<1>3. ASSUME NEW u \in Users, NEW limit \in Limits, SetPayoutLimit(u, limit) PROVE TypeInv'
    BY <1>3 DEF SetPayoutLimit, TypeInv, TypeOK, DecisionsHaveRows
<1>4. ASSUME NEW p \in Payouts, NEW u \in Users, NEW amount \in Amounts \cup {0},
             NEW refund \in BOOLEAN, Ask(p, u, amount, refund)
      PROVE  TypeInv'
    <2>1. Limits \subseteq Nat /\ Amounts \subseteq Nat
        BY NumbersAssumption
    <2>2. amount \in Nat
        BY <2>1
    <2>3. limits \in [Users -> Limits]
        BY DEF TypeInv, TypeOK
    <2>4. limits[u] \in Nat /\ amount \in Nat
        BY <2>1, <2>2, <2>3
    <2>5. [NoRequest EXCEPT !.stage = "asked", !.user = u, !.amount = amount,
               !.limit = limits[u], !.refund = refund] \in Request
        BY <2>4 DEF Request, NoRequest
    <2>6. TypeOK'
        BY <1>4, <2>5 DEF Ask, OnlyRequests, TypeInv, TypeOK
    <2> QED BY <1>4, <2>6 DEF Ask, OnlyRequests, TypeInv, DecisionsHaveRows
<1>5. ASSUME NEW p \in Payouts, BeginPayout(p) PROVE TypeInv'
    <2>1. requests[p].amount \in Nat
        BY <1>5, RequestType DEF BeginPayout, OpenTransaction, TypeInv
    <2>2. OpenTransaction(p, requests[p].amount, {}) /\ {} \in SUBSET Transfers
        BY <1>5 DEF BeginPayout
    <2> QED BY <2>1, <2>2, OpenTransactionType
<1>6. ASSUME NEW p \in Payouts, BeginRefund(p) PROVE TypeInv'
    <2> DEFINE dust == Dust(requests[p].user)
    <2>1. dust \in SUBSET Transfers
        BY DEF Dust
    <2>2. ValueOf(dust) \in Nat
        BY <2>1, ValueOfType
    <2>3. OpenTransaction(p, ValueOf(dust), dust)
        BY <1>6 DEF BeginRefund
    <2> HIDE DEF dust
    <2> QED BY <2>1, <2>2, <2>3, OpenTransactionType
<1>7. ASSUME NEW p \in Payouts, CommitRequest(p) PROVE TypeInv'
    BY <1>7, CommitRequestType
<1>8. ASSUME NEW p \in Payouts, AbandonRequest(p) PROVE TypeInv'
    BY <1>8 DEF AbandonRequest, OnlyRequests, Request, TypeInv, TypeOK, DecisionsHaveRows
<1>9. ASSUME NEW p \in Payouts, CancelWithdrawal(p) PROVE TypeInv'
    BY <1>9, CancelWithdrawalType
<1>10. ASSUME NEW p \in Payouts, Resolve(p) PROVE TypeInv'
    <2>1. workers' \in [Workers -> Worker]
        BY <1>10 DEF Resolve, TypeInv, TypeOK
    <2> QED BY <1>10, <2>1, MarkWithdrawalSentType, MarkWithdrawalFailedType DEF Resolve
<1>11. ASSUME NEW a \in Admins, NEW p \in Payouts, NEW approve \in BOOLEAN,
              DecideRead(a, p, approve)
       PROVE  TypeInv'
    <2>1. TypeOK'
        BY <1>11 DEF DecideRead, TypeInv, TypeOK, Decision
    <2>2. DecisionsHaveRows'
        BY <1>11 DEF DecideRead, TypeInv, TypeOK, DecisionsHaveRows
    <2> QED BY <2>1, <2>2 DEF TypeInv
<1>12. ASSUME NEW a \in Admins, CountApprovals(a) PROVE TypeInv'
    BY <1>12, CountApprovalsType
<1>13. ASSUME NEW a \in Admins, CommitApproval(a) PROVE TypeInv'
    BY <1>13, CommitApprovalType
<1>14. ASSUME NEW a \in Admins, CommitRejection(a) PROVE TypeInv'
    BY <1>14, CommitRejectionType
<1>15. ASSUME NEW a \in Admins, AbandonDecision(a) PROVE TypeInv'
    BY <1>15 DEF AbandonDecision, Decision, NoDecision, TypeInv, TypeOK, DecisionsHaveRows
<1>16. ASSUME NEW k \in Workers, NEW p \in Payouts, NEW heard \in BOOLEAN,
              ClaimWithdrawal(k, p, heard)
       PROVE  TypeInv'
    BY <1>16, ClaimWithdrawalType
<1>17. ASSUME NEW k \in Workers, NotRelayed(k) PROVE TypeInv'
    BY <1>17 DEF NotRelayed, Hands, OnlyWorkers, Worker, IdleWorker, TypeInv, TypeOK, DecisionsHaveRows
<1>18. ASSUME NEW k \in Workers, Relay(k) PROVE TypeInv'
    <2>1. workers[k].payout \in Payouts
        BY <1>18 DEF Relay, Worker, IdleWorker, TypeInv, TypeOK
    <2> QED BY <1>18, <2>1 DEF Relay, Hands, Worker, TypeInv, TypeOK, DecisionsHaveRows
<1>19. ASSUME NEW k \in Workers, ReportSent(k) PROVE TypeInv'
    <2>1. workers[k].payout \in Payouts
        BY <1>19 DEF ReportSent, Worker, IdleWorker, TypeInv, TypeOK
    <2>2. workers' \in [Workers -> Worker] /\ MarkWithdrawalSent(workers[k].payout)
        BY <1>19 DEF ReportSent, Hands, Worker, IdleWorker, TypeInv, TypeOK
    <2> QED BY <2>1, <2>2, MarkWithdrawalSentType
<1>20. ASSUME NEW k \in Workers, ReportFailed(k) PROVE TypeInv'
    <2>1. workers[k].payout \in Payouts
        BY <1>20 DEF ReportFailed, Worker, IdleWorker, TypeInv, TypeOK
    <2>2. workers' \in [Workers -> Worker] /\ MarkWithdrawalFailed(workers[k].payout)
        BY <1>20 DEF ReportFailed, Hands, Worker, IdleWorker, TypeInv, TypeOK
    <2> QED BY <2>1, <2>2, MarkWithdrawalFailedType
<1>21. ASSUME NEW k \in Workers, GiveUp(k) PROVE TypeInv'
    BY <1>21 DEF GiveUp, Hands, OnlyWorkers, Worker, IdleWorker, TypeInv, TypeOK, DecisionsHaveRows
<1>22. ASSUME Tick PROVE TypeInv'
    BY <1>22 DEF Tick, TypeInv, TypeOK, DecisionsHaveRows
<1>23. ASSUME UNCHANGED vars PROVE TypeInv'
    BY <1>23 DEF vars, TypeInv, TypeOK, DecisionsHaveRows
<1> QED BY <1>1, <1>2, <1>3, <1>4, <1>5, <1>6, <1>7, <1>8, <1>9, <1>10, <1>11, <1>12,
           <1>13, <1>14, <1>15, <1>16, <1>17, <1>18, <1>19, <1>20, <1>21, <1>22, <1>23
    DEF Next

\* Every reachable state is well typed: no interleaving, on either database,
\* ever drives an available or a held balance below zero.
THEOREM TypeCorrect == Spec => []TypeOK
<1>1. TypeInv => TypeOK
    BY DEF TypeInv
<1> QED BY <1>1, InitType, TypeStep, PTL DEF Spec

-----------------------------------------------------------------------------
(* The worker: no payout is relayed twice *)

\* A request holds a fresh id until it commits.
RequestsAreNew ==
    \A p \in Payouts : requests[p].stage # "none" => withdrawals[p].status = "none"

\* A payout in a worker's hands is `sending` and in nobody else's; one the
\* worker has yet to relay was never relayed; what was relayed never returns to
\* the queue, and unless an answer was lost it is not reported as failed.
WorkerInv ==
    /\ \A k \in Workers : workers[k].stage # "idle" =>
          /\ withdrawals[workers[k].payout].status = "sending"
          /\ workers[k].stage = "claimed" => relays[workers[k].payout] = 0
          /\ workers[k].stage = "failed" /\ ~LateRelay => relays[workers[k].payout] = 0
    /\ \A k, l \in Workers : /\ workers[k].stage # "idle" /\ workers[l].stage # "idle"
                             /\ workers[k].payout = workers[l].payout
                             => k = l
    /\ \A p \in Payouts :
          /\ relays[p] <= 1
          /\ relays[p] > 0 => withdrawals[p].status \in {"sending", "sent", "failed"}
          /\ relays[p] > 0 /\ ~LateRelay => withdrawals[p].status \in {"sending", "sent"}

BaseInv == TypeInv /\ RequestsAreNew
RelayInv == BaseInv /\ WorkerInv

LEMMA BaseInit == Init => BaseInv
<1>1. Init => RequestsAreNew
    BY DEF Init, NoRequest, RequestsAreNew
<1> QED BY <1>1, InitType DEF BaseInv

LEMMA RelayInit == Init => RelayInv
<1>1. Init => WorkerInv
    BY DEF Init, NoRow, IdleWorker, WorkerInv
<1> QED BY <1>1, BaseInit DEF RelayInv

\* Steps that leave every free id free.
LEMMA NewFrame ==
    ASSUME BaseInv,
           \A p \in Payouts : withdrawals[p].status = "none" => withdrawals'[p] = withdrawals[p],
           \A p \in Payouts : requests'[p].stage # "none" =>
               requests[p].stage # "none" \/ withdrawals[p].status = "none"
    PROVE  RequestsAreNew'
BY DEF BaseInv, RequestsAreNew

\* A payout in the hands of a worker has an id.
LEMMA WorkerType ==
    ASSUME TypeOK, NEW k \in Workers, workers[k].stage # "idle"
    PROVE  workers[k].payout \in Payouts
BY DEF TypeOK, Worker, IdleWorker

LEMMA CloseRows ==
    ASSUME TypeOK, NEW p \in Payouts, NEW from \in SUBSET OpenStatus, NEW to \in ClosedStatus,
           NEW STATE moves, Close(p, from, to, moves)
    PROVE  /\ withdrawals[p].status \in from /\ withdrawals[p].status # "none"
           /\ withdrawals'[p].status = to
           /\ \A q \in Payouts \ {p} : withdrawals'[q] = withdrawals[q]
           /\ UNCHANGED <<requests, relays>>
<1>1. withdrawals[p].status \in from /\ withdrawals[p].status # "none"
    BY DEF Close, OpenStatus
<1>2. withdrawals[p] \in [status : OpenStatus \cup ClosedStatus, user : Users, amount : Nat,
                          at : Nat, decidedBy : Admins \cup {None}]
    BY <1>1 DEF TypeOK, Row, NoRow
<1> QED BY <1>1, <1>2 DEF Close, TypeOK

LEMMA CloseNew ==
    ASSUME BaseInv, NEW p \in Payouts, NEW from \in SUBSET OpenStatus, NEW to \in ClosedStatus,
           NEW STATE moves, Close(p, from, to, moves)
    PROVE  RequestsAreNew'
BY CloseRows, NewFrame DEF BaseInv, TypeInv

LEMMA MarkNew ==
    ASSUME BaseInv, NEW p \in Payouts, MarkWithdrawalSent(p) \/ MarkWithdrawalFailed(p)
    PROVE  RequestsAreNew'
<1>1. ReportableStatus \in SUBSET OpenStatus /\ {"sent", "failed"} \subseteq ClosedStatus
    BY DEF ReportableStatus, OpenStatus, ClosedStatus
<1>2. CASE MarkWithdrawalSent(p)
    <2>1. Close(p, ReportableStatus, "sent", Spend(withdrawals[p].user, withdrawals[p].amount))
        BY <1>2 DEF MarkWithdrawalSent
    <2> QED BY <1>1, <2>1, CloseNew
<1>3. CASE MarkWithdrawalFailed(p)
    <2>1. Close(p, ReportableStatus, "failed", ReturnHold(p))
        BY <1>3 DEF MarkWithdrawalFailed
    <2> QED BY <1>1, <2>1, CloseNew
<1> QED BY <1>2, <1>3

LEMMA SettleRows ==
    ASSUME TypeOK, NEW p \in Payouts, NEW a \in Admins, NEW status \in {"queued", "rejected"},
           Settle(p, status, a)
    PROVE  /\ \A q \in Payouts \ {p} : withdrawals'[q] = withdrawals[q]
           /\ withdrawals[p].status # "approval_required" => UNCHANGED withdrawals
BY DEF Settle, TypeOK

\* A claim moves one queued row.
LEMMA ClaimRows ==
    ASSUME TypeOK, NEW k \in Workers, NEW p \in Payouts, NEW heard \in BOOLEAN,
           ClaimWithdrawal(k, p, heard)
    PROVE  /\ withdrawals[p].status = "queued"
           /\ withdrawals'[p].status = "sending"
           /\ withdrawals'[p].user = withdrawals[p].user
           /\ withdrawals'[p].amount = withdrawals[p].amount
           /\ withdrawals'[p].decidedBy = withdrawals[p].decidedBy
           /\ \A q \in Payouts \ {p} : withdrawals'[q] = withdrawals[q]
           /\ UNCHANGED <<balances, approvals, entries, requests, decisions, relays>>
<1>1. withdrawals[p].status = "queued"
    BY DEF ClaimWithdrawal, Claimable
<1>2. withdrawals[p] \in [status : OpenStatus \cup ClosedStatus, user : Users, amount : Nat,
                          at : Nat, decidedBy : Admins \cup {None}]
    BY <1>1 DEF TypeOK, Row, NoRow
<1> QED BY <1>1, <1>2 DEF ClaimWithdrawal, TypeOK

LEMMA BaseStep == BaseInv /\ [Next]_vars => BaseInv'
<1> SUFFICES ASSUME BaseInv, [Next]_vars PROVE RequestsAreNew'
    BY TypeStep DEF BaseInv
<1>1. ASSUME UNCHANGED withdrawals,
             \A q \in Payouts : requests'[q].stage # "none" =>
                 requests[q].stage # "none" \/ withdrawals[q].status = "none"
      PROVE  RequestsAreNew'
    BY <1>1, NewFrame
<1>2. ASSUME NEW p \in Payouts, NEW u \in Users, NEW amount, NEW refund, Ask(p, u, amount, refund)
      PROVE  RequestsAreNew'
    <2>1. \A q \in Payouts : requests'[q].stage # "none" =>
              requests[q].stage # "none" \/ withdrawals[q].status = "none"
        BY <1>2 DEF Ask, BaseInv, TypeInv, TypeOK
    <2> QED BY <1>1, <1>2, <2>1 DEF Ask, OnlyRequests
<1>3. ASSUME NEW p \in Payouts, NEW STATE amount, NEW STATE dust, OpenTransaction(p, amount, dust)
      PROVE  RequestsAreNew'
    <2>1. \A q \in Payouts : requests'[q].stage # "none" => requests[q].stage # "none"
        BY <1>3 DEF OpenTransaction, BaseInv, TypeInv, TypeOK
    <2> QED BY <1>1, <1>3, <2>1 DEF OpenTransaction, OnlyRequests
<1>4. ASSUME NEW p \in Payouts, CommitRequest(p)
      PROVE  RequestsAreNew'
    <2>1. /\ \A q \in Payouts \ {p} : withdrawals'[q] = withdrawals[q]
          /\ requests' = [requests EXCEPT ![p] = NoRequest]
        BY <1>4 DEF CommitRequest, BaseInv, TypeInv, TypeOK
    <2> QED BY <2>1 DEF BaseInv, RequestsAreNew, NoRequest, TypeInv, TypeOK
<1>5. ASSUME NEW p \in Payouts, AbandonRequest(p)
      PROVE  RequestsAreNew'
    <2>1. \A q \in Payouts : requests'[q].stage # "none" => requests[q].stage # "none"
        BY <1>5 DEF AbandonRequest, NoRequest, BaseInv, TypeInv, TypeOK
    <2> QED BY <1>1, <1>5, <2>1 DEF AbandonRequest, OnlyRequests
<1>6. ASSUME NEW p \in Payouts, CancelWithdrawal(p)
      PROVE  RequestsAreNew'
    <2>1. Close(p, CancellableStatus, "cancelled", ReturnHold(p))
        BY <1>6 DEF CancelWithdrawal
    <2>2. CancellableStatus \in SUBSET OpenStatus /\ "cancelled" \in ClosedStatus
        BY DEF CancellableStatus, OpenStatus, ClosedStatus
    <2> QED BY <2>1, <2>2, CloseNew
<1>7. ASSUME NEW p \in Payouts, Resolve(p)
      PROVE  RequestsAreNew'
    BY <1>7, MarkNew DEF Resolve
<1>8. ASSUME NEW k \in Workers, ReportSent(k) \/ ReportFailed(k)
      PROVE  RequestsAreNew'
    <2>1. workers[k].payout \in Payouts
        BY <1>8, WorkerType DEF ReportSent, ReportFailed, BaseInv, TypeInv
    <2> QED BY <1>8, <2>1, MarkNew DEF ReportSent, ReportFailed
<1>9. ASSUME NEW a \in Admins, CommitApproval(a) \/ CommitRejection(a)
      PROVE  RequestsAreNew'
    <2>1. decisions[a].payout \in Payouts
        BY <1>9, DecisionType DEF CommitApproval, CommitRejection, BaseInv, TypeInv
    <2>2. ASSUME NEW status \in {"queued", "rejected"}, Settle(decisions[a].payout, status, a)
          PROVE  \A q \in Payouts : withdrawals[q].status = "none" => withdrawals'[q] = withdrawals[q]
        BY <2>1, <2>2, SettleRows DEF BaseInv, TypeInv
    <2>3. \A q \in Payouts : withdrawals[q].status = "none" => withdrawals'[q] = withdrawals[q]
        BY <1>9, <2>2 DEF CommitApproval, CommitRejection
    <2> QED BY <1>9, <2>3, NewFrame DEF CommitApproval, CommitRejection
<1>10. ASSUME NEW k \in Workers, NEW p \in Payouts, NEW heard \in BOOLEAN,
              ClaimWithdrawal(k, p, heard)
       PROVE  RequestsAreNew'
    <2>1. /\ withdrawals[p].status = "queued" /\ UNCHANGED requests
          /\ \A q \in Payouts \ {p} : withdrawals'[q] = withdrawals[q]
        BY <1>10, ClaimRows DEF BaseInv, TypeInv
    <2> QED BY <2>1, NewFrame
<1>11. ASSUME UNCHANGED vars PROVE RequestsAreNew'
    BY <1>1, <1>11 DEF vars
<1> QED BY <1>1, <1>2, <1>3, <1>4, <1>5, <1>6, <1>7, <1>8, <1>9, <1>10, <1>11
    DEF Next, Arrive, CreditDeposit, SetPayoutLimit, BeginPayout, BeginRefund, DecideRead,
        CountApprovals, AbandonDecision, NotRelayed, Relay, GiveUp, OnlyWorkers, Tick

\* Steps that touch no row, no worker and no relay.
LEMMA RelayFrame ==
    ASSUME RelayInv, UNCHANGED <<withdrawals, workers, relays>>
    PROVE  WorkerInv'
BY DEF RelayInv, WorkerInv

\* Steps that move the status of a row no worker holds and no relay has left.
LEMMA RelayRows ==
    ASSUME RelayInv, UNCHANGED <<workers, relays>>, NEW p \in Payouts,
           withdrawals[p].status \in {"none", "queued", "approval_required"},
           \A q \in Payouts \ {p} : withdrawals'[q] = withdrawals[q]
    PROVE  WorkerInv'
<1>1. relays[p] = 0
    BY DEF RelayInv, WorkerInv, BaseInv, TypeInv, TypeOK
<1>2. \A k \in Workers : workers[k].stage # "idle" =>
          workers[k].payout # p /\ workers[k].payout \in Payouts
    BY DEF RelayInv, WorkerInv, BaseInv, TypeInv, TypeOK, Worker, IdleWorker
<1>3. \A k \in Workers : workers[k].stage # "idle" =>
          withdrawals'[workers[k].payout] = withdrawals[workers[k].payout]
    BY <1>2
<1> QED BY <1>1, <1>3 DEF RelayInv, WorkerInv

\* A decision changes a parked row or none at all.
LEMMA SettleRelay ==
    ASSUME RelayInv, NEW p \in Payouts, NEW a \in Admins, NEW status \in {"queued", "rejected"},
           Settle(p, status, a), UNCHANGED <<workers, relays>>
    PROVE  WorkerInv'
<1>1. CASE withdrawals[p].status = "approval_required"
    <2>1. \A q \in Payouts \ {p} : withdrawals'[q] = withdrawals[q]
        BY SettleRows DEF RelayInv, BaseInv, TypeInv
    <2> QED BY <1>1, <2>1, RelayRows
<1>2. CASE withdrawals[p].status # "approval_required"
    <2>1. UNCHANGED withdrawals
        BY <1>2, SettleRows DEF RelayInv, BaseInv, TypeInv
    <2> QED BY <2>1, RelayFrame
<1> QED BY <1>1, <1>2

\* A row closed out of `sending` by whoever is the last to hold it: the worker
\* that reports, or the operator once no worker has it.
LEMMA ReportRelay ==
    ASSUME RelayInv, NEW p \in Payouts, NEW to \in {"sent", "failed"}, NEW STATE moves,
           Close(p, ReportableStatus, to, moves),
           \A k \in Workers : workers[k].stage # "idle" /\ workers[k].payout = p
                                  => workers'[k] = IdleWorker,
           \A k \in Workers : workers'[k] = IdleWorker \/ workers'[k] = workers[k],
           to = "failed" /\ ~LateRelay => relays[p] = 0
    PROVE  WorkerInv'
<1>1. ReportableStatus \in SUBSET OpenStatus /\ to \in ClosedStatus
    BY DEF ReportableStatus, OpenStatus, ClosedStatus
<1>2. /\ withdrawals'[p].status = to
      /\ \A q \in Payouts \ {p} : withdrawals'[q] = withdrawals[q]
      /\ UNCHANGED relays
    BY <1>1, CloseRows DEF RelayInv, BaseInv, TypeInv
<1>3. \A k \in Workers : workers'[k].stage # "idle" =>
          /\ workers'[k] = workers[k] /\ workers[k].payout \in Payouts \ {p}
    BY WorkerType DEF RelayInv, BaseInv, TypeInv, IdleWorker
<1> QED BY <1>2, <1>3 DEF RelayInv, WorkerInv

LEMMA RelayStep == RelayInv /\ [Next]_vars => RelayInv'
<1> SUFFICES ASSUME RelayInv, [Next]_vars PROVE WorkerInv'
    BY BaseStep DEF RelayInv
<1> USE DEF RelayInv, BaseInv
<1>1. ASSUME UNCHANGED <<withdrawals, workers, relays>> PROVE WorkerInv'
    BY <1>1, RelayFrame
<1>2. ASSUME NEW p \in Payouts, CommitRequest(p) PROVE WorkerInv'
    <2>1. withdrawals[p].status = "none"
        BY <1>2 DEF CommitRequest, RequestsAreNew
    <2>2. /\ \A q \in Payouts \ {p} : withdrawals'[q] = withdrawals[q]
          /\ UNCHANGED <<workers, relays>>
        BY <1>2 DEF CommitRequest, TypeInv, TypeOK
    <2> QED BY <2>1, <2>2, RelayRows
<1>3. ASSUME NEW p \in Payouts, CancelWithdrawal(p) PROVE WorkerInv'
    <2>1. Close(p, CancellableStatus, "cancelled", ReturnHold(p)) /\ UNCHANGED workers
        BY <1>3 DEF CancelWithdrawal
    <2>2. CancellableStatus \in SUBSET OpenStatus /\ "cancelled" \in ClosedStatus
        BY DEF CancellableStatus, OpenStatus, ClosedStatus
    <2>3. /\ withdrawals[p].status \in CancellableStatus
          /\ \A q \in Payouts \ {p} : withdrawals'[q] = withdrawals[q]
          /\ UNCHANGED relays
        BY <2>1, <2>2, CloseRows DEF TypeInv
    <2> QED BY <2>1, <2>3, RelayRows DEF CancellableStatus
<1>4. ASSUME NEW p \in Payouts, Resolve(p) PROVE WorkerInv'
    <2>1. /\ \A k \in Workers : workers[k].payout # p
          /\ \A k \in Workers : workers'[k] = workers[k]
        BY <1>4 DEF Resolve
    <2>2. relays[p] \in Nat
        BY DEF TypeInv, TypeOK
    <2>3. CASE relays[p] > 0
        BY <1>4, <2>1, <2>3, ReportRelay DEF Resolve, MarkWithdrawalSent
    <2>4. CASE relays[p] = 0
        BY <1>4, <2>1, <2>4, ReportRelay DEF Resolve, MarkWithdrawalFailed
    <2> QED BY <2>2, <2>3, <2>4
<1>5. ASSUME NEW a \in Admins, CommitApproval(a) PROVE WorkerInv'
    <2>1. decisions[a].payout \in Payouts
        BY <1>5, DecisionType DEF CommitApproval, TypeInv
    <2>2. CASE Settle(decisions[a].payout, "queued", a)
        BY <1>5, <2>1, <2>2, SettleRelay DEF CommitApproval
    <2>3. CASE UNCHANGED withdrawals
        BY <1>5, <2>3, RelayFrame DEF CommitApproval
    <2> QED BY <1>5, <2>2, <2>3 DEF CommitApproval
<1>6. ASSUME NEW a \in Admins, CommitRejection(a) PROVE WorkerInv'
    <2>1. decisions[a].payout \in Payouts
        BY <1>6, DecisionType DEF CommitRejection, TypeInv
    <2> QED BY <1>6, <2>1, SettleRelay DEF CommitRejection
<1>7. ASSUME NEW k \in Workers, NEW p \in Payouts, NEW heard \in BOOLEAN,
             ClaimWithdrawal(k, p, heard)
      PROVE  WorkerInv'
    <2>1. /\ workers[k] = IdleWorker
          /\ workers' = workers \/ workers' = [workers EXCEPT ![k] = [payout |-> p, stage |-> "claimed"]]
        BY <1>7 DEF ClaimWithdrawal, Hands
    <2>2. /\ withdrawals[p].status = "queued" /\ withdrawals'[p].status = "sending"
          /\ \A q \in Payouts \ {p} : withdrawals'[q] = withdrawals[q]
          /\ UNCHANGED relays
        BY <1>7, ClaimRows DEF TypeInv
    <2>3. \A l \in Workers : workers[l].stage # "idle" => workers[l].payout \in Payouts \ {p}
        BY <2>2, WorkerType DEF WorkerInv, TypeInv
    <2>4. relays[p] = 0
        BY <2>2 DEF WorkerInv, TypeInv, TypeOK
    <2>5. \A l \in Workers : \/ workers'[l] = workers[l]
                             \/ l = k /\ workers'[l] = [payout |-> p, stage |-> "claimed"]
        BY <2>1 DEF TypeInv, TypeOK
    <2> QED BY <2>1, <2>2, <2>3, <2>4, <2>5 DEF WorkerInv, IdleWorker
<1>8. ASSUME NEW k \in Workers, NotRelayed(k) \/ GiveUp(k) PROVE WorkerInv'
    <2>1. UNCHANGED <<withdrawals, relays>>
        BY <1>8 DEF NotRelayed, GiveUp, OnlyWorkers
    <2>2. \A l \in Workers :
              \/ workers'[l] = workers[l]
              \/ workers'[l].stage = "idle"
              \/ /\ workers'[l].payout = workers[l].payout /\ workers'[l].stage = "failed"
                 /\ workers[l].stage = "claimed"
        BY <1>8 DEF NotRelayed, GiveUp, Hands, TypeInv, TypeOK
    <2> QED BY <2>1, <2>2 DEF WorkerInv
<1>9. ASSUME NEW k \in Workers, Relay(k) PROVE WorkerInv'
    <2> DEFINE p == workers[k].payout
    <2>1. p \in Payouts /\ workers[k].stage = "claimed"
        BY <1>9, WorkerType DEF Relay, TypeInv
    <2>2. /\ relays[p] = 0 /\ withdrawals[p].status = "sending"
          /\ \A l \in Workers \ {k} : workers[l].stage # "idle" =>
                 workers[l].payout \in Payouts \ {p}
        BY <2>1, WorkerType DEF WorkerInv, TypeInv
    <2>3. UNCHANGED withdrawals /\ relays' = [relays EXCEPT ![p] = 1]
        BY <1>9, <2>2 DEF Relay
    <2>4. /\ workers'[k].payout = p
          /\ workers'[k].stage = "relayed" \/ (LateRelay /\ workers'[k].stage = "failed")
          /\ \A l \in Workers \ {k} : workers'[l] = workers[l]
        BY <1>9 DEF Relay, Hands, TypeInv, TypeOK
    <2>5. relays'[p] = 1 /\ \A q \in Payouts \ {p} : relays'[q] = relays[q]
        BY <2>1, <2>3 DEF TypeInv, TypeOK
    <2> HIDE DEF p
    <2>6. \A l \in Workers : workers'[l].stage # "idle" =>
             \/ l = k
             \/ workers'[l] = workers[l] /\ workers[l].payout \in Payouts \ {p}
        BY <2>2, <2>4
    <2> QED BY <2>2, <2>3, <2>4, <2>5, <2>6 DEF WorkerInv
<1>10. ASSUME NEW k \in Workers, ReportSent(k) \/ ReportFailed(k) PROVE WorkerInv'
    <2> DEFINE p == workers[k].payout
    <2>1. p \in Payouts /\ workers[k].stage # "idle"
        BY <1>10, WorkerType DEF ReportSent, ReportFailed, TypeInv
    <2>2. workers' = [workers EXCEPT ![k] = IdleWorker]
        BY <1>10 DEF ReportSent, ReportFailed, Hands, IdleWorker
    <2>3. /\ \A l \in Workers : workers[l].stage # "idle" /\ workers[l].payout = p
                                 => workers'[l] = IdleWorker
          /\ \A l \in Workers : workers'[l] = IdleWorker \/ workers'[l] = workers[l]
        BY <2>1, <2>2 DEF WorkerInv, TypeInv, TypeOK
    <2>4. CASE ReportSent(k)
        <3>1. Close(p, ReportableStatus, "sent", Spend(withdrawals[p].user, withdrawals[p].amount))
            BY <2>4 DEF ReportSent, MarkWithdrawalSent
        <3> QED BY <2>1, <2>3, <3>1, ReportRelay
    <2>5. CASE ReportFailed(k)
        <3>1. Close(p, ReportableStatus, "failed", ReturnHold(p))
            BY <2>5 DEF ReportFailed, MarkWithdrawalFailed
        <3>2. ~LateRelay => relays[p] = 0
            BY <2>5 DEF ReportFailed, WorkerInv
        <3> QED BY <2>1, <2>3, <3>1, <3>2, ReportRelay
    <2> QED BY <1>10, <2>4, <2>5
<1>11. ASSUME UNCHANGED vars PROVE WorkerInv'
    BY <1>1, <1>11 DEF vars
<1> QED BY <1>1, <1>2, <1>3, <1>4, <1>5, <1>6, <1>7, <1>8, <1>9, <1>10, <1>11
    DEF Next, Arrive, CreditDeposit, SetPayoutLimit, Ask, BeginPayout, BeginRefund,
        OpenTransaction, AbandonRequest, OnlyRequests, DecideRead, CountApprovals,
        AbandonDecision, Tick

\* The wallet relays a payout at most once: a worker that loses its memory, a lost
\* answer and a second worker never lead to a second transfer, on either database.
THEOREM NoSecondRelay == Spec => []RelayedOnce
<1>1. Init => RelayInv
    BY RelayInit
<1>2. RelayInv /\ [Next]_vars => RelayInv'
    BY RelayStep
<1>3. RelayInv => RelayedOnce
    BY DEF RelayInv, WorkerInv, RelayedOnce
<1> QED BY <1>1, <1>2, <1>3, PTL DEF Spec

-----------------------------------------------------------------------------
(* Decisions: no release without the signatures it needs *)

Released == {"queued", "sending", "sent"}

\* What a transaction counted is still there when it commits: signatures are
\* only ever added.
SignInv ==
    /\ \A p \in Payouts :
          withdrawals[p].status \in Released /\ withdrawals[p].decidedBy # None
             => Cardinality(approvals[p]) >= Required(p)
    /\ \A a \in Admins :
          decisions[a].stage = "counted" =>
             decisions[a].count <= Cardinality(approvals[decisions[a].payout] \cup {a})

ReleaseInv == TypeInv /\ SignInv

LEMMA ReleaseInit == Init => ReleaseInv
<1>1. Init => SignInv
    BY DEF Init, NoRow, NoDecision, SignInv, Released
<1> QED BY <1>1, InitType DEF ReleaseInv

LEMMA SignaturesGrow ==
    ASSUME NEW S \in SUBSET Admins, NEW T \in SUBSET S
    PROVE  Cardinality(T) \in Nat /\ Cardinality(S) \in Nat /\ Cardinality(T) <= Cardinality(S)
<1>1. IsFiniteSet(S)
    BY SetsAssumption, FS_Subset
<1>2. IsFiniteSet(T) /\ Cardinality(T) <= Cardinality(S)
    BY <1>1, FS_Subset
<1> QED BY <1>1, <1>2, FS_CardinalityType

\* Steps that add no signature and count none: every row they change leaves the
\* released statuses, enters undecided, or keeps amount and decision.
LEMMA SignFrame ==
    ASSUME SignInv, UNCHANGED approvals,
           \A a \in Admins : decisions'[a] = decisions[a] \/ decisions'[a].stage # "counted",
           \A p \in Payouts :
              \/ withdrawals'[p].status \notin Released
              \/ withdrawals'[p].decidedBy = None
              \/ /\ withdrawals[p].status \in Released
                 /\ withdrawals'[p].decidedBy = withdrawals[p].decidedBy
                 /\ withdrawals'[p].amount = withdrawals[p].amount
    PROVE  SignInv'
<1>1. ASSUME NEW p \in Payouts, withdrawals'[p].status \in Released,
             withdrawals'[p].decidedBy # None
      PROVE  Cardinality(approvals'[p]) >= Required(p)'
    BY <1>1 DEF SignInv, Required
<1>2. ASSUME NEW a \in Admins, decisions'[a].stage = "counted"
      PROVE  decisions'[a].count <= Cardinality(approvals'[decisions'[a].payout] \cup {a})
    BY <1>2 DEF SignInv
<1> QED BY <1>1, <1>2 DEF SignInv

LEMMA CloseSign ==
    ASSUME ReleaseInv, NEW p \in Payouts, NEW from \in SUBSET OpenStatus, NEW to \in ClosedStatus,
           to = "sent" => from \subseteq Released,
           NEW STATE moves, Close(p, from, to, moves)
    PROVE  SignInv'
<1>1. withdrawals[p].status \in from /\ withdrawals[p].status # "none"
    BY DEF Close, OpenStatus
<1>2. withdrawals[p] \in [status : OpenStatus \cup ClosedStatus, user : Users, amount : Nat,
                          at : Nat, decidedBy : Admins \cup {None}]
    BY <1>1 DEF ReleaseInv, TypeInv, TypeOK, Row, NoRow
<1>3. /\ withdrawals' = [withdrawals EXCEPT ![p].status = to]
      /\ UNCHANGED <<approvals, decisions>>
    BY DEF Close
<1>4. /\ withdrawals'[p].status = to
      /\ withdrawals'[p].decidedBy = withdrawals[p].decidedBy
      /\ withdrawals'[p].amount = withdrawals[p].amount
      /\ \A q \in Payouts \ {p} : withdrawals'[q] = withdrawals[q]
    BY <1>2, <1>3 DEF ReleaseInv, TypeInv, TypeOK
<1>5. to \notin Released \/ withdrawals[p].status \in Released
    BY <1>1 DEF Released, ClosedStatus
<1>6. \A q \in Payouts :
          \/ withdrawals'[q].status \notin Released
          \/ /\ withdrawals[q].status \in Released
             /\ withdrawals'[q].decidedBy = withdrawals[q].decidedBy
             /\ withdrawals'[q].amount = withdrawals[q].amount
    BY <1>4, <1>5
<1> QED BY <1>3, <1>6, SignFrame DEF ReleaseInv

LEMMA MarkSign ==
    ASSUME ReleaseInv, NEW p \in Payouts, MarkWithdrawalSent(p) \/ MarkWithdrawalFailed(p)
    PROVE  SignInv'
<1>1. /\ ReportableStatus \in SUBSET OpenStatus /\ ReportableStatus \subseteq Released
      /\ {"sent", "failed"} \subseteq ClosedStatus
    BY DEF ReportableStatus, OpenStatus, ClosedStatus, Released
<1>2. CASE MarkWithdrawalSent(p)
    <2> DEFINE moves == Spend(withdrawals[p].user, withdrawals[p].amount)
    <2>1. Close(p, ReportableStatus, "sent", moves)
        BY <1>2 DEF MarkWithdrawalSent
    <2> HIDE DEF moves
    <2> QED BY <1>1, <2>1, CloseSign
<1>3. CASE MarkWithdrawalFailed(p)
    <2>1. Close(p, ReportableStatus, "failed", ReturnHold(p))
        BY <1>3 DEF MarkWithdrawalFailed
    <2> QED BY <1>1, <2>1, CloseSign
<1> QED BY <1>2, <1>3

LEMMA ReleaseStep == ReleaseInv /\ [Next]_vars => ReleaseInv'
<1> SUFFICES ASSUME ReleaseInv, [Next]_vars PROVE SignInv'
    BY TypeStep DEF ReleaseInv
<1> USE DEF ReleaseInv
<1>1. ASSUME UNCHANGED <<withdrawals, approvals, decisions>> PROVE SignInv'
    BY <1>1 DEF SignInv, Required
<1>2. ASSUME NEW p \in Payouts, CommitRequest(p) PROVE SignInv'
    <2>1. /\ withdrawals'[p].decidedBy = None
          /\ \A q \in Payouts \ {p} : withdrawals'[q] = withdrawals[q]
          /\ UNCHANGED <<approvals, decisions>>
        BY <1>2 DEF CommitRequest, TypeInv, TypeOK
    <2> QED BY <2>1, SignFrame
<1>3. ASSUME NEW p \in Payouts, CancelWithdrawal(p) PROVE SignInv'
    <2>1. Close(p, CancellableStatus, "cancelled", ReturnHold(p))
        BY <1>3 DEF CancelWithdrawal
    <2>2. CancellableStatus \in SUBSET OpenStatus /\ "cancelled" \in ClosedStatus
        BY DEF CancellableStatus, OpenStatus, ClosedStatus
    <2> QED BY <2>1, <2>2, CloseSign
<1>4. ASSUME NEW p \in Payouts, Resolve(p) PROVE SignInv'
    BY <1>4, MarkSign DEF Resolve
<1>5. ASSUME NEW k \in Workers, ReportSent(k) \/ ReportFailed(k) PROVE SignInv'
    <2>1. workers[k].payout \in Payouts
        BY <1>5, WorkerType DEF ReportSent, ReportFailed, TypeInv
    <2> QED BY <1>5, <2>1, MarkSign DEF ReportSent, ReportFailed
<1>6. ASSUME NEW a \in Admins, NEW p \in Payouts, NEW approve, DecideRead(a, p, approve)
      PROVE  SignInv'
    <2>1. \A b \in Admins : decisions'[b] = decisions[b] \/ decisions'[b].stage # "counted"
        BY <1>6 DEF DecideRead, TypeInv, TypeOK
    <2> QED BY <1>6, <2>1, SignFrame DEF DecideRead
<1>7. ASSUME NEW a \in Admins, AbandonDecision(a) PROVE SignInv'
    <2>1. \A b \in Admins : decisions'[b] = decisions[b] \/ decisions'[b].stage # "counted"
        BY <1>7 DEF AbandonDecision, NoDecision, TypeInv, TypeOK
    <2> QED BY <1>7, <2>1, SignFrame DEF AbandonDecision
<1>8. ASSUME NEW a \in Admins, CountApprovals(a) PROVE SignInv'
    <2> DEFINE p == decisions[a].payout
    <2>1. p \in Payouts
        BY <1>8, DecisionType DEF CountApprovals, TypeInv
    <2>2. /\ decisions'[a].payout = p
          /\ decisions'[a].count = Cardinality(approvals[p] \cup {a})
          /\ \A b \in Admins \ {a} : decisions'[b] = decisions[b]
          /\ UNCHANGED <<withdrawals, approvals>>
        BY <1>8 DEF CountApprovals, Signatures, TypeInv, TypeOK, Decision, NoDecision
    <2>3. Cardinality(approvals[p] \cup {a}) \in Nat
        BY <2>1, SignaturesGrow DEF TypeInv, TypeOK
    <2> HIDE DEF p
    <2> QED BY <2>2, <2>3 DEF SignInv, Required
<1>9. ASSUME NEW a \in Admins, CommitApproval(a) PROVE SignInv'
    <2> DEFINE p == decisions[a].payout
    <2>1. p \in Payouts /\ decisions[a].count \in Nat
        BY <1>9, DecisionType DEF CommitApproval, TypeInv
    <2>2. /\ decisions[a].stage = "counted"
          /\ approvals' = [approvals EXCEPT ![p] = @ \cup {a}]
          /\ decisions' = [decisions EXCEPT ![a] = NoDecision]
          /\ \/ decisions[a].count >= Required(p) /\ Settle(p, "queued", a)
             \/ UNCHANGED withdrawals
        BY <1>9 DEF CommitApproval
    <2> HIDE DEF p
    <2>3. approvals'[p] = approvals[p] \cup {a} /\ approvals'[p] \in SUBSET Admins
        BY <2>1, <2>2 DEF TypeInv, TypeOK
    <2>4. \A q \in Payouts : approvals[q] \subseteq approvals'[q] /\ approvals'[q] \in SUBSET Admins
        BY <2>1, <2>2 DEF TypeInv, TypeOK
    <2>5. \A q \in Payouts : /\ Cardinality(approvals[q]) <= Cardinality(approvals'[q])
                            /\ Cardinality(approvals[q]) \in Nat /\ Cardinality(approvals'[q]) \in Nat
        BY <2>4, SignaturesGrow
    <2>6. ASSUME NEW b \in Admins, decisions'[b].stage = "counted"
          PROVE  decisions'[b].count <= Cardinality(approvals'[decisions'[b].payout] \cup {b})
        <3>1. decisions'[b] = decisions[b] /\ decisions[b].stage = "counted"
            BY <2>2, <2>6 DEF NoDecision, TypeInv, TypeOK
        <3> DEFINE q == decisions[b].payout
        <3>2. q \in Payouts /\ decisions[b].count \in Nat
            BY <3>1, DecisionType DEF TypeInv
        <3>3. decisions[b].count <= Cardinality(approvals[q] \cup {b})
            BY <3>1 DEF SignInv
        <3> HIDE DEF q
        <3>4. /\ approvals[q] \cup {b} \in SUBSET (approvals'[q] \cup {b})
              /\ approvals'[q] \cup {b} \in SUBSET Admins
            BY <2>4, <3>2
        <3>5. /\ Cardinality(approvals[q] \cup {b}) <= Cardinality(approvals'[q] \cup {b})
              /\ Cardinality(approvals[q] \cup {b}) \in Nat
              /\ Cardinality(approvals'[q] \cup {b}) \in Nat
            BY <3>4, SignaturesGrow
        <3> QED BY <3>1, <3>2, <3>3, <3>5 DEF q
    <2>7. Required(p) \in Nat
        BY DEF Required
    <2>8. decisions[a].count <= Cardinality(approvals'[p])
        BY <2>2, <2>3 DEF SignInv, p
    <2>9. ASSUME NEW q \in Payouts, withdrawals'[q].status \in Released,
                 withdrawals'[q].decidedBy # None
          PROVE  Cardinality(approvals'[q]) >= Required(q)'
        <3>1. CASE withdrawals'[q] = withdrawals[q]
            <4>1. Cardinality(approvals[q]) >= Required(q) /\ Required(q)' = Required(q)
                BY <2>9, <3>1 DEF SignInv, Required
            <4>2. Required(q) \in Nat
                BY DEF Required
            <4> QED BY <2>5, <4>1, <4>2
        <3>2. CASE withdrawals'[q] # withdrawals[q]
            <4>1. decisions[a].count >= Required(p) /\ Settle(p, "queued", a) /\ q = p
                BY <2>1, <2>2, <3>2, SettleRows DEF TypeInv
            <4>2. withdrawals[p].status = "approval_required"
                BY <2>1, <3>2, <4>1, SettleRows DEF TypeInv
            <4>3. withdrawals[p] \in [status : OpenStatus \cup ClosedStatus, user : Users,
                                      amount : Nat, at : Nat, decidedBy : Admins \cup {None}]
                BY <2>1, <4>2 DEF TypeInv, TypeOK, Row, NoRow
            <4>4. withdrawals'[p].amount = withdrawals[p].amount
                BY <2>1, <4>1, <4>2, <4>3 DEF Settle, TypeInv, TypeOK
            <4>5. Required(q)' = Required(p)
                BY <4>1, <4>4 DEF Required
            <4> QED BY <2>1, <2>5, <2>7, <2>8, <4>1, <4>5
        <3> QED BY <3>1, <3>2
    <2> QED BY <2>6, <2>9 DEF SignInv
<1>10. ASSUME NEW a \in Admins, CommitRejection(a) PROVE SignInv'
    <2> DEFINE p == decisions[a].payout
    <2>1. p \in Payouts
        BY <1>10, DecisionType DEF CommitRejection, TypeInv
    <2>2. /\ Settle(p, "rejected", a) /\ UNCHANGED approvals
          /\ decisions' = [decisions EXCEPT ![a] = NoDecision]
        BY <1>10 DEF CommitRejection
    <2> HIDE DEF p
    <2>3. \A q \in Payouts : withdrawals'[q] = withdrawals[q] \/ withdrawals'[q].status = "rejected"
        BY <2>1, <2>2 DEF Settle, TypeInv, TypeOK, Row, NoRow
    <2>4. \A b \in Admins : decisions'[b] = decisions[b] \/ decisions'[b].stage # "counted"
        BY <2>2 DEF NoDecision, TypeInv, TypeOK
    <2> QED BY <2>2, <2>3, <2>4, SignFrame DEF Released
<1>11. ASSUME NEW k \in Workers, NEW p \in Payouts, NEW heard \in BOOLEAN,
              ClaimWithdrawal(k, p, heard)
       PROVE  SignInv'
    <2>1. /\ withdrawals[p].status = "queued"
          /\ withdrawals'[p].decidedBy = withdrawals[p].decidedBy
          /\ withdrawals'[p].amount = withdrawals[p].amount
          /\ \A q \in Payouts \ {p} : withdrawals'[q] = withdrawals[q]
          /\ UNCHANGED <<approvals, decisions>>
        BY <1>11, ClaimRows DEF TypeInv
    <2>2. \A q \in Payouts :
              \/ withdrawals'[q].status \notin Released
              \/ /\ withdrawals[q].status \in Released
                 /\ withdrawals'[q].decidedBy = withdrawals[q].decidedBy
                 /\ withdrawals'[q].amount = withdrawals[q].amount
        BY <2>1 DEF Released
    <2> QED BY <2>1, <2>2, SignFrame
<1>12. ASSUME UNCHANGED vars PROVE SignInv'
    BY <1>1, <1>12 DEF vars
<1> QED BY <1>1, <1>2, <1>3, <1>4, <1>5, <1>6, <1>7, <1>8, <1>9, <1>10, <1>11, <1>12
    DEF Next, Arrive, CreditDeposit, SetPayoutLimit, Ask, BeginPayout, BeginRefund,
        OpenTransaction, AbandonRequest, OnlyRequests, NotRelayed, Relay, GiveUp, OnlyWorkers, Tick

\* A payout an administrator released carries the signatures its amount needs,
\* for any number of administrators deciding at once, on either database.
THEOREM ReleaseIsSigned == Spec => []SignedRelease
<1>1. ReleaseInv => SignedRelease
    BY DEF ReleaseInv, SignInv, SignedRelease, Released
<1> QED BY <1>1, ReleaseInit, ReleaseStep, PTL DEF Spec

-----------------------------------------------------------------------------
(* One transaction at a time: the books of a deployment on SQLite *)

\* The money on hold, without a sum: an account has one open payout at most and
\* holds its amount, or it holds nothing.
IsOpen(p, u) == withdrawals[p].user = u /\ withdrawals[p].status \in OpenStatus
HoldInv ==
    \A u \in Users :
        /\ \A p \in Payouts : IsOpen(p, u) =>
              /\ balances[u].held = withdrawals[p].amount
              /\ \A q \in Payouts : IsOpen(q, u) => q = p
        /\ (\A p \in Payouts : ~IsOpen(p, u)) => balances[u].held = 0

\* The queue of lib/db/sqlite.ts: one transaction is open, and the row a decision
\* has read is still the row it decides on.
Serial ==
    /\ \A a, b \in Admins : decisions[a].stage # "none" /\ decisions[b].stage # "none" => a = b
    /\ \A p, q \in Payouts : requests[p].stage = "open" /\ requests[q].stage = "open" => p = q
    /\ \A a \in Admins, p \in Payouts :
          decisions[a].stage # "none" => requests[p].stage # "open"
    /\ \A a \in Admins : decisions[a].stage # "none" =>
          withdrawals[decisions[a].payout].status = "approval_required"

BooksInv == BaseInv /\ Serial /\ HoldInv /\ ClosedOnce

LEMMA BooksInit == Init => BooksInv
<1>1. Init => Serial /\ ClosedOnce
    BY DEF Init, NoRow, NoRequest, NoDecision, Serial, ClosedOnce, ClosedStatus
<1>2. Init => HoldInv
    BY DEF Init, NoRow, EmptyAccount, HoldInv, IsOpen, OpenStatus
<1> QED BY <1>1, <1>2, BaseInit DEF BooksInv

\* A transaction begins only when no other one is open.
LEMMA Alone ==
    ASSUME Dialect = "sqlite", MayBegin
    PROVE  /\ \A p \in Payouts : requests[p].stage # "open"
           /\ \A a \in Admins : decisions[a].stage = "none"
BY DEF MayBegin

\* Steps that leave rows, entries and what is held alone.
LEMMA BooksFrame ==
    ASSUME BooksInv, UNCHANGED <<withdrawals, entries>>,
           \A u \in Users : balances'[u].held = balances[u].held
    PROVE  HoldInv' /\ ClosedOnce'
BY DEF BooksInv, HoldInv, IsOpen, ClosedOnce

\* Steps that move a row among the open statuses.
LEMMA BooksOpen ==
    ASSUME BooksInv, UNCHANGED <<balances, entries>>,
           \A p \in Payouts :
              \/ withdrawals'[p] = withdrawals[p]
              \/ /\ withdrawals[p].status \in OpenStatus /\ withdrawals'[p].status \in OpenStatus
                 /\ withdrawals'[p].user = withdrawals[p].user
                 /\ withdrawals'[p].amount = withdrawals[p].amount
    PROVE  HoldInv' /\ ClosedOnce'
<1>1. \A p \in Payouts, u \in Users :
          IsOpen(p, u)' <=> IsOpen(p, u)
    BY DEF IsOpen
<1>2. \A p \in Payouts : withdrawals'[p].amount = withdrawals[p].amount
    OBVIOUS
<1>3. balances' = balances
    OBVIOUS
<1>4. HoldInv
    BY DEF BooksInv
<1>5. HoldInv'
    BY ONLY <1>1, <1>2, <1>3, <1>4 DEF HoldInv
<1>6. ClosedOnce'
    BY DEF BooksInv, ClosedOnce, OpenStatus, ClosedStatus
<1> QED BY <1>5, <1>6

\* A step that closes an open row gives its amount back from the hold, or spends
\* it, and writes the entry that says which.
LEMMA BooksClose ==
    ASSUME BooksInv, NEW p \in Payouts, withdrawals[p].status \in OpenStatus,
           NEW to \in ClosedStatus,
           withdrawals'[p].status = to,
           withdrawals'[p].user = withdrawals[p].user,
           \A q \in Payouts \ {p} : withdrawals'[q] = withdrawals[q],
           balances'[withdrawals[p].user].held
               = balances[withdrawals[p].user].held - withdrawals[p].amount,
           \A u \in Users \ {withdrawals[p].user} : balances'[u].held = balances[u].held,
           entries' = IF to = "sent" THEN [entries EXCEPT ![p].sent = @ + 1]
                                     ELSE [entries EXCEPT ![p].returned = @ + 1]
    PROVE  HoldInv' /\ ClosedOnce'
<1> DEFINE v == withdrawals[p].user
<1>1. v \in Users /\ withdrawals[p].amount \in Nat
    BY RowType DEF BooksInv, BaseInv, TypeInv, OpenStatus
<1>2. /\ balances[v].held = withdrawals[p].amount
      /\ \A q \in Payouts : IsOpen(q, v) => q = p
    BY <1>1 DEF BooksInv, HoldInv, IsOpen
<1>3. balances'[v].held = 0 /\ \A q \in Payouts : ~IsOpen(q, v)'
    BY <1>1, <1>2 DEF IsOpen, OpenStatus, ClosedStatus
<1>4. ASSUME NEW u \in Users \ {v}
      PROVE  /\ balances'[u].held = balances[u].held
             /\ \A q \in Payouts : IsOpen(q, u)' <=> IsOpen(q, u)
             /\ \A q \in Payouts : IsOpen(q, u) => withdrawals'[q] = withdrawals[q]
    BY <1>4 DEF IsOpen
<1>5. HoldInv'
    <2>1. SUFFICES ASSUME NEW u \in Users
                   PROVE  /\ \A q \in Payouts : IsOpen(q, u)' =>
                                /\ balances'[u].held = withdrawals'[q].amount
                                /\ \A r \in Payouts : IsOpen(r, u)' => r = q
                          /\ (\A q \in Payouts : ~IsOpen(q, u)') => balances'[u].held = 0
        BY DEF HoldInv
    <2>2. CASE u = v
        BY <1>3, <2>2
    <2>3. CASE u # v
        <3>1. /\ \A q \in Payouts : IsOpen(q, u) =>
                    /\ balances[u].held = withdrawals[q].amount
                    /\ \A r \in Payouts : IsOpen(r, u) => r = q
              /\ (\A q \in Payouts : ~IsOpen(q, u)) => balances[u].held = 0
            BY DEF BooksInv, HoldInv
        <3>2. /\ balances'[u].held = balances[u].held
              /\ \A q \in Payouts : IsOpen(q, u)' <=> IsOpen(q, u)
              /\ \A q \in Payouts : IsOpen(q, u) => withdrawals'[q] = withdrawals[q]
            BY <1>4, <2>3
        <3> QED BY <3>1, <3>2
    <2> QED BY <2>2, <2>3
<1>6. entries[p] = [sent |-> 0, returned |-> 0]
    BY DEF BooksInv, ClosedOnce, OpenStatus, ClosedStatus, BaseInv, TypeInv, TypeOK
<1>7. /\ entries'[p] = IF to = "sent" THEN [sent |-> 1, returned |-> 0]
                                      ELSE [sent |-> 0, returned |-> 1]
      /\ \A q \in Payouts \ {p} : entries'[q] = entries[q]
    BY <1>6 DEF BooksInv, BaseInv, TypeInv, TypeOK
<1>8. ClosedOnce'
    BY <1>7 DEF BooksInv, ClosedOnce, ClosedStatus
<1> QED BY <1>5, <1>8

\* What closing and asking do to the hold of one account, and of nobody else.
HeldChange(u, n) ==
    /\ balances'[u].held = balances[u].held + n
    /\ \A v \in Users \ {u} : balances'[v].held = balances[v].held

LEMMA OneHeld ==
    ASSUME TypeOK, NEW STATE u, u \in Users, NEW STATE x, x \in Int, NEW STATE y, y \in Int,
           Covered(balances, On(u, Movement(x, y))),
           balances' = Apply(balances, On(u, Movement(x, y)))
    PROVE  HeldChange(u, y)
<1>1. balances \in [Users -> Account]
    BY DEF TypeOK
<1>2. /\ balances'[u] = [available |-> balances[u].available + x, held |-> balances[u].held + y]
      /\ \A v \in Users \ {u} : balances'[v] = balances[v]
    BY <1>1, ApplyOne
<1> QED BY <1>2 DEF HeldChange

LEMMA CloseHeld ==
    ASSUME TypeOK, NEW p \in Payouts, withdrawals[p].status # "none",
           NEW STATE moves, Covered(balances, moves), balances' = Apply(balances, moves),
           \/ moves = ReturnHold(p)
           \/ moves = Spend(withdrawals[p].user, withdrawals[p].amount)
    PROVE  HeldChange(withdrawals[p].user, -withdrawals[p].amount)
<1> DEFINE u == withdrawals[p].user
           n == withdrawals[p].amount
<1>1. u \in Users /\ n \in Nat /\ n \in Int /\ -n \in Int /\ 0 \in Int
    BY RowType
<1>2. moves = On(u, Movement(n, -n)) \/ moves = On(u, Movement(0, -n))
    BY <1>1, Kinds DEF ReturnHold
<1> HIDE DEF u, n
<1>3. CASE moves = On(u, Movement(n, -n))
    <2>1. Covered(balances, On(u, Movement(n, -n))) /\ balances' = Apply(balances, On(u, Movement(n, -n)))
        BY <1>3
    <2> QED BY <1>1, <2>1, OneHeld DEF u, n
<1>4. CASE moves = On(u, Movement(0, -n))
    <2>1. Covered(balances, On(u, Movement(0, -n))) /\ balances' = Apply(balances, On(u, Movement(0, -n)))
        BY <1>4
    <2> QED BY <1>1, <2>1, OneHeld DEF u, n
<1> QED BY <1>2, <1>3, <1>4

LEMMA RequestHeld ==
    ASSUME TypeOK, NEW p \in Payouts, requests[p].stage = "open",
           Covered(balances, RequestMoves(requests[p])),
           balances' = Apply(balances, RequestMoves(requests[p]))
    PROVE  HeldChange(requests[p].user, requests[p].amount)
<1> DEFINE u == requests[p].user
           n == requests[p].amount
           moves == RequestMoves(requests[p])
<1>1. u \in Users /\ n \in Nat /\ n \in Int /\ -n \in Int /\ 0 \in Int
    BY RequestType
<1>2. moves = On(u, Movement(0, n)) \/ moves = On(u, Movement(-n, n))
    BY <1>1, Kinds DEF RequestMoves
<1>3. Covered(balances, moves) /\ balances' = Apply(balances, moves)
    OBVIOUS
<1> HIDE DEF u, n, moves
<1>4. CASE moves = On(u, Movement(0, n))
    <2>1. Covered(balances, On(u, Movement(0, n))) /\ balances' = Apply(balances, On(u, Movement(0, n)))
        BY <1>3, <1>4
    <2> QED BY <1>1, <2>1, OneHeld DEF u, n
<1>5. CASE moves = On(u, Movement(-n, n))
    <2>1. Covered(balances, On(u, Movement(-n, n))) /\ balances' = Apply(balances, On(u, Movement(-n, n)))
        BY <1>3, <1>5
    <2> QED BY <1>1, <2>1, OneHeld DEF u, n
<1> QED BY <1>2, <1>4, <1>5

\* Closing a payout, by whoever: the books stay right, and no transaction is
\* left open behind it.
LEMMA CloseBooks ==
    ASSUME BooksInv, Dialect = "sqlite", NEW p \in Payouts, NEW from \in SUBSET OpenStatus,
           NEW to \in ClosedStatus, NEW STATE moves, Close(p, from, to, moves),
           \/ moves = ReturnHold(p)
           \/ moves = Spend(withdrawals[p].user, withdrawals[p].amount)
    PROVE  Serial' /\ HoldInv' /\ ClosedOnce'
<1>1. /\ MayBegin /\ withdrawals[p].status \in from
      /\ Covered(balances, moves) /\ balances' = Apply(balances, moves)
      /\ withdrawals' = [withdrawals EXCEPT ![p].status = to]
      /\ entries' = IF to = "sent" THEN [entries EXCEPT ![p].sent = @ + 1]
                                    ELSE [entries EXCEPT ![p].returned = @ + 1]
      /\ UNCHANGED <<requests, decisions>>
    BY DEF Close
<1>2. withdrawals[p].status \in OpenStatus /\ withdrawals[p].status # "none"
    BY <1>1 DEF OpenStatus
<1>3. withdrawals[p] \in [status : OpenStatus \cup ClosedStatus, user : Users, amount : Nat,
                          at : Nat, decidedBy : Admins \cup {None}]
    BY <1>2 DEF BooksInv, BaseInv, TypeInv, TypeOK, Row, NoRow
<1>4. /\ withdrawals'[p].status = to /\ withdrawals'[p].user = withdrawals[p].user
      /\ \A q \in Payouts \ {p} : withdrawals'[q] = withdrawals[q]
    BY <1>1, <1>3 DEF BooksInv, BaseInv, TypeInv, TypeOK
<1>5. HeldChange(withdrawals[p].user, -withdrawals[p].amount)
    BY <1>1, <1>2, CloseHeld DEF BooksInv, BaseInv, TypeInv
<1>6. balances[withdrawals[p].user].held + (-withdrawals[p].amount)
          = balances[withdrawals[p].user].held - withdrawals[p].amount
    BY <1>3 DEF BooksInv, BaseInv, TypeInv, TypeOK, Account
<1>7. HoldInv' /\ ClosedOnce'
    BY <1>1, <1>2, <1>4, <1>5, <1>6, BooksClose DEF HeldChange
<1>8. Serial'
    BY <1>1, Alone DEF Serial
<1> QED BY <1>7, <1>8

LEMMA MarkBooks ==
    ASSUME BooksInv, Dialect = "sqlite", NEW p \in Payouts,
           MarkWithdrawalSent(p) \/ MarkWithdrawalFailed(p)
    PROVE  Serial' /\ HoldInv' /\ ClosedOnce'
<1>1. ReportableStatus \in SUBSET OpenStatus /\ {"sent", "failed"} \subseteq ClosedStatus
    BY DEF ReportableStatus, OpenStatus, ClosedStatus
<1>2. CASE MarkWithdrawalSent(p)
    <2> DEFINE moves == Spend(withdrawals[p].user, withdrawals[p].amount)
    <2>1. Close(p, ReportableStatus, "sent", moves)
        BY <1>2 DEF MarkWithdrawalSent
    <2>2. moves = Spend(withdrawals[p].user, withdrawals[p].amount)
        OBVIOUS
    <2> HIDE DEF moves
    <2> QED BY <1>1, <2>1, <2>2, CloseBooks
<1>3. CASE MarkWithdrawalFailed(p)
    <2>1. Close(p, ReportableStatus, "failed", ReturnHold(p))
        BY <1>3 DEF MarkWithdrawalFailed
    <2> QED BY <1>1, <2>1, CloseBooks
<1> QED BY <1>2, <1>3

LEMMA CommitRequestBooks ==
    ASSUME BooksInv, NEW p \in Payouts, CommitRequest(p)
    PROVE  Serial' /\ HoldInv' /\ ClosedOnce'
<1> DEFINE u == requests[p].user
           n == requests[p].amount
<1>1. /\ requests[p].stage = "open" /\ OpenOf(u) = {}
      /\ Covered(balances, RequestMoves(requests[p]))
      /\ balances' = Apply(balances, RequestMoves(requests[p]))
      /\ requests' = [requests EXCEPT ![p] = NoRequest]
      /\ UNCHANGED <<entries, decisions>>
    BY DEF CommitRequest
<1>2. u \in Users /\ n \in Nat
    BY <1>1, RequestType DEF BooksInv, BaseInv, TypeInv
<1>3. /\ withdrawals'[p].status \in {"queued", "approval_required"}
      /\ withdrawals'[p].user = u /\ withdrawals'[p].amount = n
      /\ \A q \in Payouts \ {p} : withdrawals'[q] = withdrawals[q]
    BY DEF CommitRequest, BooksInv, BaseInv, TypeInv, TypeOK
<1>4. HeldChange(u, n)
    BY <1>1, RequestHeld DEF BooksInv, BaseInv, TypeInv
<1>5. withdrawals[p].status = "none"
    BY <1>1 DEF BooksInv, BaseInv, RequestsAreNew
<1> HIDE DEF u, n
<1>6. \A q \in Payouts : ~IsOpen(q, u)
    BY <1>1 DEF IsOpen, OpenOf
<1>7. balances[u].held = 0
    BY <1>2, <1>6 DEF BooksInv, HoldInv
<1>8. balances'[u].held = n
    BY <1>2, <1>4, <1>7 DEF HeldChange
<1>9. \A q \in Payouts :
          withdrawals'[q].user = u /\ withdrawals'[q].status \in OpenStatus => q = p
    BY <1>3, <1>6 DEF IsOpen
<1>10. ASSUME NEW v \in Users \ {u}
       PROVE  /\ balances'[v].held = balances[v].held
              /\ \A q \in Payouts : IsOpen(q, v)' <=> IsOpen(q, v)
              /\ \A q \in Payouts : IsOpen(q, v) => withdrawals'[q] = withdrawals[q]
    BY <1>2, <1>3, <1>4, <1>5 DEF HeldChange, IsOpen, OpenStatus
<1>11. HoldInv'
    <2>1. SUFFICES ASSUME NEW v \in Users
                   PROVE  /\ \A q \in Payouts : IsOpen(q, v)' =>
                                /\ balances'[v].held = withdrawals'[q].amount
                                /\ \A r \in Payouts : IsOpen(r, v)' => r = q
                          /\ (\A q \in Payouts : ~IsOpen(q, v)') => balances'[v].held = 0
        BY DEF HoldInv
    <2>2. CASE v = u
        <3>1. IsOpen(p, v)'
            BY <1>3, <2>2 DEF IsOpen, OpenStatus
        <3>2. \A q \in Payouts : IsOpen(q, v)' => q = p
            BY <1>9, <2>2 DEF IsOpen
        <3> QED BY <1>3, <1>8, <2>2, <3>1, <3>2
    <2>3. CASE v # u
        <3>1. /\ \A q \in Payouts : IsOpen(q, v) =>
                    /\ balances[v].held = withdrawals[q].amount
                    /\ \A r \in Payouts : IsOpen(r, v) => r = q
              /\ (\A q \in Payouts : ~IsOpen(q, v)) => balances[v].held = 0
            BY DEF BooksInv, HoldInv
        <3>2. /\ balances'[v].held = balances[v].held
              /\ \A q \in Payouts : IsOpen(q, v)' <=> IsOpen(q, v)
              /\ \A q \in Payouts : IsOpen(q, v) => withdrawals'[q] = withdrawals[q]
            BY <1>10, <2>3
        <3> QED BY <3>1, <3>2
    <2> QED BY <2>2, <2>3
<1>12. ClosedOnce'
    BY <1>1, <1>3, <1>5 DEF BooksInv, ClosedOnce, ClosedStatus
<1>13. \A a \in Admins : decisions[a].stage = "none"
    BY <1>1 DEF BooksInv, Serial
<1>14. \A q \in Payouts : requests'[q].stage = "open" => requests[q].stage = "open"
    BY <1>1 DEF NoRequest, BooksInv, BaseInv, TypeInv, TypeOK
<1>15. Serial'
    BY <1>1, <1>13, <1>14 DEF BooksInv, Serial
<1> QED BY <1>11, <1>12, <1>15

\* The decision that commits is the only transaction, and about a parked row.
LEMMA DecisionBooks ==
    ASSUME BooksInv, NEW a \in Admins, CommitApproval(a) \/ CommitRejection(a)
    PROVE  Serial' /\ HoldInv' /\ ClosedOnce'
<1> DEFINE p == decisions[a].payout
<1>1. decisions[a].stage # "none"
    BY DEF CommitApproval, CommitRejection
<1>2. p \in Payouts /\ withdrawals[p].status = "approval_required"
    BY <1>1, DecisionType DEF BooksInv, BaseInv, TypeInv, Serial
<1>3. /\ decisions' = [decisions EXCEPT ![a] = NoDecision]
      /\ UNCHANGED requests
    BY DEF CommitApproval, CommitRejection
<1>4. \A b \in Admins : decisions'[b].stage = "none"
    BY <1>1, <1>3 DEF BooksInv, Serial, BaseInv, TypeInv, TypeOK, NoDecision
<1>5. Serial'
    BY <1>3, <1>4 DEF BooksInv, Serial
<1>6. withdrawals[p] \in [status : OpenStatus \cup ClosedStatus, user : Users, amount : Nat,
                          at : Nat, decidedBy : Admins \cup {None}]
    BY <1>2 DEF BooksInv, BaseInv, TypeInv, TypeOK, Row, NoRow
<1>7. CASE CommitApproval(a)
    <2>1. /\ UNCHANGED <<balances, entries>>
          /\ Settle(p, "queued", a) \/ UNCHANGED withdrawals
        BY <1>7 DEF CommitApproval
    <2> HIDE DEF p
    <2>2. \A q \in Payouts :
              \/ withdrawals'[q] = withdrawals[q]
              \/ /\ withdrawals[q].status \in OpenStatus /\ withdrawals'[q].status \in OpenStatus
                 /\ withdrawals'[q].user = withdrawals[q].user
                 /\ withdrawals'[q].amount = withdrawals[q].amount
        BY <1>2, <1>6, <2>1 DEF Settle, BooksInv, BaseInv, TypeInv, TypeOK, OpenStatus
    <2> QED BY <1>5, <2>1, <2>2, BooksOpen
<1>8. CASE CommitRejection(a)
    <2>1. /\ Covered(balances, ReturnHold(p)) /\ balances' = Apply(balances, ReturnHold(p))
          /\ Settle(p, "rejected", a)
          /\ entries' = [entries EXCEPT ![p].returned = @ + 1]
        BY <1>8 DEF CommitRejection
    <2> HIDE DEF p
    <2>2. /\ withdrawals'[p].status = "rejected" /\ withdrawals'[p].user = withdrawals[p].user
          /\ \A q \in Payouts \ {p} : withdrawals'[q] = withdrawals[q]
        BY <1>2, <1>6, <2>1 DEF Settle, BooksInv, BaseInv, TypeInv, TypeOK
    <2>3. HeldChange(withdrawals[p].user, -withdrawals[p].amount)
        BY <1>2, <2>1, CloseHeld DEF BooksInv, BaseInv, TypeInv
    <2>4. balances[withdrawals[p].user].held + (-withdrawals[p].amount)
              = balances[withdrawals[p].user].held - withdrawals[p].amount
        BY <1>6 DEF BooksInv, BaseInv, TypeInv, TypeOK, Account
    <2>5. withdrawals[p].status \in OpenStatus /\ "rejected" \in ClosedStatus
        BY <1>2 DEF OpenStatus, ClosedStatus
    <2>6. HoldInv' /\ ClosedOnce'
        BY <1>2, <2>1, <2>2, <2>3, <2>4, <2>5, BooksClose DEF HeldChange
    <2> QED BY <1>5, <2>6
<1> QED BY <1>7, <1>8

LEMMA CreditDepositBooks ==
    ASSUME BooksInv, NEW t \in Transfers, CreditDeposit(t)
    PROVE  Serial' /\ HoldInv' /\ ClosedOnce'
<1>1. /\ payerOf[t] \in Users /\ valueOf[t] \in Nat
      /\ balances \in [Users -> Account]
    BY SetsAssumption DEF BooksInv, BaseInv, TypeInv, TypeOK
<1>2. Credit(payerOf[t], valueOf[t]) = On(payerOf[t], Movement(valueOf[t], 0))
    BY <1>1, Kinds
<1>3. \A u \in Users : balances'[u].held = balances[u].held
    BY <1>1, <1>2 DEF CreditDeposit, Apply, On, Movement, Account
<1>4. Serial'
    BY DEF CreditDeposit, BooksInv, Serial
<1> QED BY <1>3, <1>4, BooksFrame DEF CreditDeposit

LEMMA BooksStep == Dialect = "sqlite" /\ BooksInv /\ [Next]_vars => BooksInv'
<1> SUFFICES ASSUME Dialect = "sqlite", BooksInv, [Next]_vars
             PROVE  Serial' /\ HoldInv' /\ ClosedOnce'
    BY BaseStep DEF BooksInv
<1> DEFINE Goal == Serial' /\ HoldInv' /\ ClosedOnce'
<1>1. ASSUME UNCHANGED <<balances, withdrawals, entries, decisions>>,
             \A p \in Payouts : requests'[p].stage = "open" => requests[p].stage = "open"
      PROVE  Goal
    BY <1>1, BooksFrame DEF BooksInv, Serial
<1>2. ASSUME NEW t \in Transfers, CreditDeposit(t) PROVE Goal
    BY <1>2, CreditDepositBooks
<1>3. ASSUME NEW p \in Payouts, NEW u \in Users, NEW amount, NEW refund, Ask(p, u, amount, refund)
      PROVE  Goal
    <2>1. \A q \in Payouts : requests'[q].stage = "open" => requests[q].stage = "open"
        BY <1>3 DEF Ask, BooksInv, BaseInv, TypeInv, TypeOK
    <2> QED BY <1>1, <1>3, <2>1 DEF Ask, OnlyRequests
<1>4. ASSUME NEW p \in Payouts, NEW STATE amount, NEW STATE dust, OpenTransaction(p, amount, dust)
      PROVE  Goal
    <2>1. /\ MayBegin /\ UNCHANGED <<balances, withdrawals, entries, decisions>>
          /\ \A q \in Payouts \ {p} : requests'[q] = requests[q]
        BY <1>4 DEF OpenTransaction, OnlyRequests, BooksInv, BaseInv, TypeInv, TypeOK
    <2>2. Serial'
        BY <2>1, Alone DEF Serial
    <2> QED BY <2>1, <2>2, BooksFrame
<1>5. ASSUME NEW p \in Payouts, CommitRequest(p) PROVE Goal
    BY <1>5, CommitRequestBooks
<1>6. ASSUME NEW p \in Payouts, AbandonRequest(p) PROVE Goal
    <2>1. \A q \in Payouts : requests'[q].stage = "open" => requests[q].stage = "open"
        BY <1>6 DEF AbandonRequest, NoRequest, BooksInv, BaseInv, TypeInv, TypeOK
    <2> QED BY <1>1, <1>6, <2>1 DEF AbandonRequest, OnlyRequests
<1>7. ASSUME NEW p \in Payouts, CancelWithdrawal(p) PROVE Goal
    <2>1. Close(p, CancellableStatus, "cancelled", ReturnHold(p))
        BY <1>7 DEF CancelWithdrawal
    <2>2. CancellableStatus \in SUBSET OpenStatus /\ "cancelled" \in ClosedStatus
        BY DEF CancellableStatus, OpenStatus, ClosedStatus
    <2> QED BY <2>1, <2>2, CloseBooks
<1>8. ASSUME NEW p \in Payouts, Resolve(p) PROVE Goal
    BY <1>8, MarkBooks DEF Resolve
<1>9. ASSUME NEW k \in Workers, ReportSent(k) \/ ReportFailed(k) PROVE Goal
    <2>1. workers[k].payout \in Payouts
        BY <1>9, WorkerType DEF ReportSent, ReportFailed, BooksInv, BaseInv, TypeInv
    <2> QED BY <1>9, <2>1, MarkBooks DEF ReportSent, ReportFailed
<1>10. ASSUME NEW a \in Admins, NEW p \in Payouts, NEW approve, DecideRead(a, p, approve)
       PROVE  Goal
    <2>1. /\ MayBegin /\ withdrawals[p].status = "approval_required"
          /\ decisions'[a].payout = p
          /\ \A b \in Admins \ {a} : decisions'[b] = decisions[b]
          /\ UNCHANGED <<balances, withdrawals, entries, requests>>
        BY <1>10 DEF DecideRead, BooksInv, BaseInv, TypeInv, TypeOK
    <2>2. Serial'
        BY <2>1, Alone DEF Serial
    <2> QED BY <2>1, <2>2, BooksFrame
<1>11. ASSUME NEW a \in Admins, CountApprovals(a) PROVE Goal
    <2>1. /\ \A b \in Admins : /\ decisions'[b].payout = decisions[b].payout
                               /\ decisions'[b].stage # "none" => decisions[b].stage # "none"
          /\ UNCHANGED <<balances, withdrawals, entries, requests>>
        BY <1>11 DEF CountApprovals, BooksInv, BaseInv, TypeInv, TypeOK, Decision, NoDecision
    <2>2. Serial'
        BY <2>1 DEF BooksInv, Serial
    <2> QED BY <2>1, <2>2, BooksFrame
<1>12. ASSUME NEW a \in Admins, AbandonDecision(a) PROVE Goal
    <2>1. /\ \A b \in Admins : decisions'[b] = decisions[b] \/ decisions'[b].stage = "none"
          /\ UNCHANGED <<balances, withdrawals, entries, requests>>
        BY <1>12 DEF AbandonDecision, BooksInv, BaseInv, TypeInv, TypeOK, NoDecision
    <2>2. Serial'
        BY <2>1 DEF BooksInv, Serial
    <2> QED BY <2>1, <2>2, BooksFrame
<1>13. ASSUME NEW a \in Admins, CommitApproval(a) \/ CommitRejection(a) PROVE Goal
    BY <1>13, DecisionBooks
<1>14. ASSUME NEW k \in Workers, NEW p \in Payouts, NEW heard \in BOOLEAN,
              ClaimWithdrawal(k, p, heard)
       PROVE  Goal
    <2>1. /\ withdrawals[p].status = "queued"
          /\ withdrawals'[p].status = "sending"
          /\ withdrawals'[p].user = withdrawals[p].user
          /\ withdrawals'[p].amount = withdrawals[p].amount
          /\ \A q \in Payouts \ {p} : withdrawals'[q] = withdrawals[q]
          /\ UNCHANGED <<balances, entries, requests, decisions>>
        BY <1>14, ClaimRows DEF BooksInv, BaseInv, TypeInv
    <2>2. \A q \in Payouts :
              \/ withdrawals'[q] = withdrawals[q]
              \/ /\ withdrawals[q].status \in OpenStatus /\ withdrawals'[q].status \in OpenStatus
                 /\ withdrawals'[q].user = withdrawals[q].user
                 /\ withdrawals'[q].amount = withdrawals[q].amount
        BY <2>1 DEF OpenStatus
    <2>3. \A a \in Admins : decisions[a].stage # "none" => decisions[a].payout \in Payouts
        BY DecisionType DEF BooksInv, BaseInv, TypeInv
    <2>4. \A a \in Admins : decisions[a].stage # "none" =>
              withdrawals'[decisions[a].payout] = withdrawals[decisions[a].payout]
        BY <2>1, <2>3 DEF BooksInv, Serial
    <2>5. Serial'
        BY <2>1, <2>4 DEF BooksInv, Serial
    <2> QED BY <2>1, <2>2, <2>5, BooksOpen
<1>15. ASSUME UNCHANGED vars PROVE Goal
    BY <1>1, <1>15 DEF vars
<1> HIDE DEF Goal
<1>16. Goal
    BY <1>1, <1>2, <1>3, <1>4, <1>5, <1>6, <1>7, <1>8, <1>9, <1>10, <1>11, <1>12, <1>13, <1>14, <1>15
    DEF Next, Arrive, SetPayoutLimit, BeginPayout, BeginRefund, NotRelayed, Relay, GiveUp,
        OnlyWorkers, Tick
<1> QED BY <1>16 DEF Goal

\* What HoldInv says without a sum, HeldBacksOpen says with one.
LEMMA HoldIsSum ==
    ASSUME TypeOK, HoldInv
    PROVE  HeldBacksOpen
<1>1. SUFFICES ASSUME NEW u \in Users
               PROVE  /\ \A p, q \in OpenOf(u) : p = q
                      /\ balances[u].held = AmountOf(OpenOf(u))
    BY DEF HeldBacksOpen
<1>2. \A p \in Payouts : p \in OpenOf(u) <=> IsOpen(p, u)
    BY DEF OpenOf, IsOpen
<1>3. OpenOf(u) \subseteq Payouts
    BY DEF OpenOf
<1>4. \A p, q \in OpenOf(u) : p = q
    BY <1>2, <1>3 DEF HoldInv
<1>5. CASE OpenOf(u) = {}
    <2>1. balances[u].held = 0
        BY <1>2, <1>5 DEF HoldInv
    <2>2. [p \in {} |-> withdrawals[p].amount] \in [{} -> Nat]
        OBVIOUS
    <2>3. AmountOf({}) = 0
        BY <2>2, TotalEmpty DEF AmountOf
    <2> QED BY <1>4, <1>5, <2>1, <2>3
<1>6. CASE OpenOf(u) # {}
    <2>1. PICK p \in OpenOf(u) : TRUE
        BY <1>6
    <2>2. OpenOf(u) = {p} /\ balances[u].held = withdrawals[p].amount
        BY <1>2, <1>3, <1>4, <2>1 DEF HoldInv
    <2>3. withdrawals[p].amount \in Nat
        BY <1>3 DEF TypeOK, Row, NoRow
    <2>4. [q \in {p} |-> withdrawals[q].amount] \in [{p} -> Nat]
        BY <2>3
    <2>5. AmountOf({p}) = withdrawals[p].amount
        BY <2>4, TotalOne DEF AmountOf
    <2> QED BY <1>4, <2>2, <2>5
<1> QED BY <1>5, <1>6

\* On SQLite, what is held on an account is the amount of its one open payout:
\* money is taken for a payout once and given up once.
THEOREM HoldsMatchPayouts ==
    ASSUME Dialect = "sqlite"
    PROVE  Spec => []HeldBacksOpen
<1>1. Init => BooksInv
    BY BooksInit
<1>2. BooksInv /\ [Next]_vars => BooksInv'
    BY BooksStep
<1>3. BooksInv => HeldBacksOpen
    BY HoldIsSum DEF BooksInv, BaseInv, TypeInv
<1> QED BY <1>1, <1>2, <1>3, PTL DEF Spec

\* On SQLite every payout is closed once in the ledger, as its row says.  (On
\* PostgreSQL it is not: the run payouts_reject_race.)
THEOREM LedgerClosesOnce ==
    ASSUME Dialect = "sqlite"
    PROVE  Spec => []ClosedOnce
<1>1. Init => BooksInv
    BY BooksInit
<1>2. BooksInv /\ [Next]_vars => BooksInv'
    BY BooksStep
<1>3. BooksInv => ClosedOnce
    BY DEF BooksInv
<1> QED BY <1>1, <1>2, <1>3, PTL DEF Spec

\* On SQLite, and as long as no relayed transfer is reported as a failure, a
\* payout that left the wallet is never handed back.  (Without the second
\* assumption it is: the run payouts_late_relay.)
THEOREM PaidIsNotReturned ==
    ASSUME Dialect = "sqlite", ~LateRelay
    PROVE  Spec => []PaidNotReturned
<1>1. Init => BooksInv /\ RelayInv
    BY BooksInit, RelayInit
<1>2. BooksInv /\ RelayInv /\ [Next]_vars => BooksInv' /\ RelayInv'
    BY BooksStep, RelayStep
<1>3. BooksInv /\ RelayInv => PaidNotReturned
    BY DEF BooksInv, RelayInv, BaseInv, WorkerInv, ClosedOnce, PaidNotReturned, ClosedStatus
<1> QED BY <1>1, <1>2, <1>3, PTL DEF Spec

-----------------------------------------------------------------------------
(* Sums over rows, transfers and accounts *)

\* What some rows of a withdrawals table are worth.
AmountIn(table, S) == Total([p \in S |-> table[p].amount])

LEMMA AmountType ==
    ASSUME NEW table \in [Payouts -> Row], NEW S \in SUBSET Payouts
    PROVE  AmountIn(table, S) \in Nat
<1>1. IsFiniteSet(S)
    BY SetsAssumption, FS_Subset
<1>2. \A p \in S : table[p].amount \in Nat
    BY DEF Row, NoRow
<1>3. [p \in S |-> table[p].amount] \in [S -> Nat]
    BY <1>2
<1> QED BY <1>1, <1>3, TotalType DEF AmountIn

LEMMA AmountSame ==
    ASSUME NEW S, NEW table, NEW other, \A p \in S : table[p].amount = other[p].amount
    PROVE  AmountIn(table, S) = AmountIn(other, S)
<1>1. [p \in S |-> table[p].amount] = [p \in S |-> other[p].amount]
    OBVIOUS
<1> QED BY <1>1 DEF AmountIn

LEMMA AmountMore ==
    ASSUME NEW table \in [Payouts -> Row], NEW S \in SUBSET Payouts, NEW p \in Payouts \ S
    PROVE  AmountIn(table, S \cup {p}) = AmountIn(table, S) + table[p].amount
<1> DEFINE f == [q \in S |-> table[q].amount]
           g == [q \in S \cup {p} |-> table[q].amount]
<1>1. IsFiniteSet(S)
    BY SetsAssumption, FS_Subset
<1>2. \A q \in Payouts : table[q].amount \in Nat
    BY DEF Row, NoRow
<1>3. f \in [S -> Nat] /\ g \in [S \cup {p} -> Nat]
    BY <1>2
<1>4. (\A q \in S : g[q] = f[q]) /\ g[p] = table[p].amount
    OBVIOUS
<1>5. AmountIn(table, S) = Total(f) /\ AmountIn(table, S \cup {p}) = Total(g)
    BY DEF AmountIn
<1> HIDE DEF f, g
<1>6. Total(g) = Total(f) + g[p]
    BY <1>1, <1>3, <1>4, TotalMore
<1> QED BY <1>4, <1>5, <1>6

LEMMA ValueMore ==
    ASSUME NEW T \in SUBSET Transfers, NEW t \in Transfers \ T
    PROVE  ValueOf(T \cup {t}) = ValueOf(T) + valueOf[t]
<1> DEFINE f == [s \in T |-> valueOf[s]]
           g == [s \in T \cup {t} |-> valueOf[s]]
<1>1. IsFiniteSet(T)
    BY SetsAssumption, FS_Subset
<1>2. f \in [T -> Nat] /\ g \in [T \cup {t} -> Nat]
    BY SetsAssumption
<1>3. (\A s \in T : g[s] = f[s]) /\ g[t] = valueOf[t]
    OBVIOUS
<1>4. ValueOf(T) = Total(f) /\ ValueOf(T \cup {t}) = Total(g)
    BY DEF ValueOf
<1> HIDE DEF f, g
<1>5. Total(g) = Total(f) + g[t]
    BY <1>1, <1>2, <1>3, TotalMore
<1> QED BY <1>3, <1>4, <1>5

LEMMA ValueSplit ==
    ASSUME NEW T \in SUBSET Transfers, NEW S \in SUBSET T
    PROVE  ValueOf(T) = ValueOf(S) + ValueOf(T \ S)
<1> DEFINE f == [s \in T |-> valueOf[s]]
<1>1. IsFiniteSet(T)
    BY SetsAssumption, FS_Subset
<1>2. f \in [T -> Nat]
    BY SetsAssumption
<1>3. Total(f) = Total([s \in S |-> f[s]]) + Total([s \in T \ S |-> f[s]])
    BY <1>1, <1>2, TotalSplit
<1>4. [s \in S |-> f[s]] = [s \in S |-> valueOf[s]] /\ [s \in T \ S |-> f[s]] = [s \in T \ S |-> valueOf[s]]
    OBVIOUS
<1> QED BY <1>3, <1>4 DEF ValueOf

\* Transfers are worth something, so claimed rows are too.
LEMMA ValuePositive ==
    ASSUME NEW T \in SUBSET Transfers, T # {}
    PROVE  ValueOf(T) >= 1
<1>1. PICK t \in T : TRUE
    OBVIOUS
<1>2. T \ {t} \in SUBSET Transfers /\ t \in Transfers \ (T \ {t}) /\ (T \ {t}) \cup {t} = T
    BY <1>1
<1>3. ValueOf(T) = ValueOf(T \ {t}) + valueOf[t]
    BY <1>2, ValueMore
<1>4. ValueOf(T \ {t}) \in Nat /\ valueOf[t] \in Nat \ {0}
    BY <1>2, ValueOfType, SetsAssumption
<1> QED BY <1>3, <1>4

\* What the platform owes an account before its relayed payouts are taken off:
\* both of its totals, and the transfers too small to credit.
DustIn(d, u) == {t \in Transfers : payerOf[t] = u /\ d[t] = "below_minimum"}
ShareIn(b, d, u) == b[u].available + b[u].held + ValueOf(DustIn(d, u))
Share(u) == ShareIn(balances, deposits, u)

LEMMA ShareType ==
    ASSUME NEW b \in [Users -> Account], NEW d, NEW u \in Users
    PROVE  /\ ShareIn(b, d, u) \in Nat /\ ShareIn(b, d, u) >= b[u].available
           /\ ShareIn(b, d, u) >= ValueOf(DustIn(d, u))
<1>1. b[u].available \in Nat /\ b[u].held \in Nat
    BY DEF Account
<1>2. ValueOf(DustIn(d, u)) \in Nat
    BY ValueOfType DEF DustIn
<1> QED BY <1>1, <1>2 DEF ShareIn

\* The liabilities are the sum of the shares, and follow each of them.
LEMMA LiabilitiesKept ==
    ASSUME \A u \in Users : Share(u)' = Share(u)
    PROVE  Liabilities' = Liabilities
<1>1. [u \in Users |-> Share(u)]' = [u \in Users |-> Share(u)]
    OBVIOUS
<1> QED BY <1>1 DEF Liabilities, Share, ShareIn, Dust, DustIn

LEMMA LiabilitiesMove ==
    ASSUME TypeOK, TypeOK', IsFiniteSet(Users), NEW u \in Users, NEW n \in Int,
           Share(u)' = Share(u) + n, \A v \in Users \ {u} : Share(v)' = Share(v)
    PROVE  Liabilities' = Liabilities + n /\ Liabilities \in Nat
<1> DEFINE f == [v \in Users |-> Share(v)]
           g == [v \in Users |-> Share(v)']
<1>1. f \in [Users -> Nat] /\ g \in [Users -> Nat]
    BY ShareType DEF TypeOK, Share
<1>2. (\A v \in Users \ {u} : g[v] = f[v]) /\ g[u] = f[u] + n
    OBVIOUS
<1>3. Liabilities = Total(f) /\ Liabilities' = Total(g)
    BY DEF Liabilities, Share, ShareIn, Dust, DustIn
<1> HIDE DEF f, g
<1>4. Total(g) = Total(f) - f[u] + g[u]
    BY <1>1, <1>2, TotalChange
<1>5. Total(f) \in Nat /\ f[u] \in Nat
    BY <1>1, TotalType
<1> QED BY <1>2, <1>3, <1>4, <1>5

\* A movement changes one share by what it adds to the two totals together.
LEMMA ShareMove ==
    ASSUME TypeOK, NEW u \in Users, NEW x \in Int, NEW y \in Int,
           Covered(balances, On(u, Movement(x, y))),
           balances' = Apply(balances, On(u, Movement(x, y))),
           \A v \in Users : DustIn(deposits', v) = DustIn(deposits, v)
    PROVE  Share(u)' = Share(u) + (x + y) /\ \A v \in Users \ {u} : Share(v)' = Share(v)
<1>1. balances \in [Users -> Account]
    BY DEF TypeOK
<1>2. /\ balances'[u] = [available |-> balances[u].available + x, held |-> balances[u].held + y]
      /\ \A v \in Users \ {u} : balances'[v] = balances[v]
    BY <1>1, ApplyOne
<1>3. \A v \in Users : ValueOf(DustIn(deposits, v)) \in Nat
    BY ValueOfType DEF DustIn
<1>4. balances[u].available \in Nat /\ balances[u].held \in Nat
    BY <1>1 DEF Account
<1> QED BY <1>2, <1>3, <1>4 DEF Share, ShareIn

-----------------------------------------------------------------------------
(* What the requests in flight hold *)

\* A refund under way has claimed rows of its own that nobody else has, all of
\* them still uncredited, and asks for what they are worth.  Everything that is
\* asked for is worth something.
ClaimsInv ==
    /\ \A p \in Payouts :
          /\ requests[p].stage = "open" /\ requests[p].refund =>
                /\ requests[p].dust \subseteq DustIn(deposits, requests[p].user)
                /\ requests[p].amount = ValueOf(requests[p].dust)
          /\ requests[p].stage # "open" \/ ~requests[p].refund => requests[p].dust = {}
          /\ requests[p].stage = "open" \/ (requests[p].stage = "asked" /\ ~requests[p].refund)
                => requests[p].amount >= 1
    /\ \A p, q \in Payouts : p # q => requests[p].dust \cap requests[q].dust = {}

\* A worker that is about to report success did relay.
ReportInv == \A k \in Workers : workers[k].stage = "relayed" => relays[workers[k].payout] > 0

MoneyInv == RelayInv /\ ClaimsInv /\ ReportInv

LEMMA MoneyInit == Init => MoneyInv
<1>1. Init => ClaimsInv
    BY DEF Init, NoRequest, ClaimsInv
<1>2. Init => ReportInv
    BY DEF Init, IdleWorker, ReportInv
<1> QED BY <1>1, <1>2, RelayInit DEF MoneyInv

\* Steps that leave the requests alone and no dust credited.
LEMMA ClaimsFrame ==
    ASSUME MoneyInv, UNCHANGED requests,
           \A t \in Transfers : deposits[t] = "below_minimum" => deposits'[t] = "below_minimum"
    PROVE  ClaimsInv'
<1>1. \A u : DustIn(deposits, u) \subseteq DustIn(deposits', u)
    BY DEF DustIn
<1> QED BY <1>1 DEF MoneyInv, ClaimsInv

\* Steps that change one request to one that claims nothing.
LEMMA ClaimsDrop ==
    ASSUME MoneyInv, NEW p \in Payouts, UNCHANGED deposits,
           \A q \in Payouts \ {p} : requests'[q] = requests[q],
           requests'[p].stage # "open", requests'[p].dust = {},
           requests'[p].stage = "asked" /\ ~requests'[p].refund => requests'[p].amount >= 1
    PROVE  ClaimsInv'
BY DEF MoneyInv, ClaimsInv

LEMMA BeginPayoutClaims ==
    ASSUME MoneyInv, NEW p \in Payouts, BeginPayout(p)
    PROVE  ClaimsInv'
<1>1. /\ requests[p].stage = "asked" /\ ~requests[p].refund /\ UNCHANGED deposits
      /\ requests' = [requests EXCEPT
            ![p].stage = "open", ![p].amount = requests[p].amount, ![p].dust = {}, ![p].at = now,
            ![p].recent = AmountOf(Recent(requests[p].user, now))]
    BY DEF BeginPayout, OpenTransaction, OnlyRequests
<1>2. requests[p] \in [stage : {"asked", "open"}, user : Users, amount : Nat,
                        limit : Nat, dust : SUBSET Transfers, refund : BOOLEAN,
                        at : Nat, recent : Nat]
    BY <1>1, RequestType DEF MoneyInv, RelayInv, BaseInv, TypeInv
<1>3. /\ \A q \in Payouts \ {p} : requests'[q] = requests[q]
      /\ requests'[p].refund = requests[p].refund /\ requests'[p].dust = {}
      /\ requests'[p].amount = requests[p].amount /\ requests'[p].stage = "open"
    BY <1>1, <1>2 DEF MoneyInv, RelayInv, BaseInv, TypeInv, TypeOK
<1> QED BY <1>1, <1>3, ZenonT(60) DEF MoneyInv, ClaimsInv

LEMMA BeginRefundClaims ==
    ASSUME MoneyInv, NEW p \in Payouts, BeginRefund(p)
    PROVE  ClaimsInv'
<1> DEFINE dust == Dust(requests[p].user)
<1>1. /\ requests[p].stage = "asked" /\ requests[p].refund /\ UNCHANGED deposits
      /\ dust # {} /\ dust \cap Locked = {}
      /\ requests' = [requests EXCEPT
            ![p].stage = "open", ![p].amount = ValueOf(dust), ![p].dust = dust, ![p].at = now,
            ![p].recent = AmountOf(Recent(requests[p].user, now))]
    BY DEF BeginRefund, OpenTransaction, OnlyRequests
<1>2. requests[p] \in [stage : {"asked", "open"}, user : Users, amount : Nat,
                        limit : Nat, dust : SUBSET Transfers, refund : BOOLEAN,
                        at : Nat, recent : Nat]
    BY <1>1, RequestType DEF MoneyInv, RelayInv, BaseInv, TypeInv
<1>3. dust \in SUBSET Transfers /\ dust = DustIn(deposits, requests[p].user)
    BY DEF Dust, DustIn
<1>4. ValueOf(dust) >= 1
    BY <1>1, <1>3, ValuePositive
<1> HIDE DEF dust
<1>5. /\ \A q \in Payouts \ {p} : requests'[q] = requests[q]
      /\ requests'[p].refund = requests[p].refund /\ requests'[p].dust = dust
      /\ requests'[p].user = requests[p].user
      /\ requests'[p].amount = ValueOf(dust) /\ requests'[p].stage = "open"
    BY <1>1, <1>2 DEF MoneyInv, RelayInv, BaseInv, TypeInv, TypeOK
<1>6. \A q \in Payouts : dust \cap requests[q].dust = {}
    BY <1>1 DEF Locked
<1>7. ASSUME NEW q \in Payouts, NEW r \in Payouts, q # r
      PROVE  requests'[q].dust \cap requests'[r].dust = {}
    <2>1. requests[q].dust \cap requests[r].dust = {}
        BY <1>7 DEF MoneyInv, ClaimsInv
    <2> QED BY <1>5, <1>6, <1>7, <2>1
<1>8. ASSUME NEW q \in Payouts
      PROVE  /\ requests'[q].stage = "open" /\ requests'[q].refund =>
                   /\ requests'[q].dust \subseteq DustIn(deposits', requests'[q].user)
                   /\ requests'[q].amount = ValueOf(requests'[q].dust)
             /\ requests'[q].stage # "open" \/ ~requests'[q].refund => requests'[q].dust = {}
             /\ requests'[q].stage = "open" \/ (requests'[q].stage = "asked" /\ ~requests'[q].refund)
                   => requests'[q].amount >= 1
    <2>1. CASE q = p
        BY <1>1, <1>3, <1>4, <1>5, <2>1
    <2>2. CASE q # p
        BY <1>1, <1>5, <2>2, ZenonT(60) DEF MoneyInv, ClaimsInv
    <2> QED BY <2>1, <2>2
<1> QED BY <1>7, <1>8 DEF ClaimsInv

\* A refund that commits credits the rows it claimed, and no row of another.
LEMMA CommitRequestClaims ==
    ASSUME MoneyInv, NEW p \in Payouts, CommitRequest(p)
    PROVE  ClaimsInv'
<1>1. /\ deposits' = Claimed(requests[p].dust)
      /\ requests' = [requests EXCEPT ![p] = NoRequest]
    BY DEF CommitRequest
<1>2. /\ \A q \in Payouts \ {p} : requests'[q] = requests[q]
      /\ requests'[p].stage = "none" /\ requests'[p].dust = {} /\ ~requests'[p].refund
    BY <1>1 DEF NoRequest, MoneyInv, RelayInv, BaseInv, TypeInv, TypeOK
<1>3. ASSUME NEW q \in Payouts \ {p}, requests[q].stage = "open", requests[q].refund
      PROVE  requests[q].dust \subseteq DustIn(deposits', requests[q].user)
    <2>1. requests[q].dust \subseteq DustIn(deposits, requests[q].user)
        BY <1>3 DEF MoneyInv, ClaimsInv
    <2>2. requests[q].dust \cap requests[p].dust = {}
        BY DEF MoneyInv, ClaimsInv
    <2> QED BY <1>1, <2>1, <2>2 DEF Claimed, DustIn
<1> QED BY <1>2, <1>3 DEF MoneyInv, ClaimsInv

\* Steps in which no worker comes to have relayed.
LEMMA ReportFrame ==
    ASSUME MoneyInv, UNCHANGED relays,
           \A k \in Workers : workers'[k] = workers[k] \/ workers'[k].stage # "relayed"
    PROVE  ReportInv'
BY DEF MoneyInv, ReportInv

LEMMA MoneyStep == MoneyInv /\ [Next]_vars => MoneyInv'
<1> SUFFICES ASSUME MoneyInv, [Next]_vars PROVE ClaimsInv' /\ ReportInv'
    BY RelayStep DEF MoneyInv
<1> DEFINE Goal == ClaimsInv' /\ ReportInv'
<1> USE DEF RelayInv, BaseInv
<1>1. ASSUME UNCHANGED <<requests, workers, relays>>,
             \A t \in Transfers : deposits[t] = "below_minimum" => deposits'[t] = "below_minimum"
      PROVE  Goal
    BY <1>1, ClaimsFrame, ReportFrame
<1>2. ASSUME NEW t \in Transfers, Arrive(t) \/ CreditDeposit(t) PROVE Goal
    <2>1. /\ UNCHANGED <<requests, workers, relays>>
          /\ \A s \in Transfers : deposits[s] = "below_minimum" => deposits'[s] = "below_minimum"
        BY <1>2 DEF Arrive, CreditDeposit, MoneyInv, TypeInv, TypeOK
    <2> QED BY <1>1, <2>1
<1>3. ASSUME NEW p \in Payouts, NEW u \in Users, NEW amount, NEW refund \in BOOLEAN,
             Ask(p, u, amount, refund), refund = FALSE => amount \in Amounts
      PROVE  Goal
    <2>1. /\ \A q \in Payouts \ {p} : requests'[q] = requests[q]
          /\ requests'[p].stage = "asked" /\ requests'[p].dust = {}
          /\ requests'[p].refund = refund /\ requests'[p].amount = amount
          /\ UNCHANGED <<deposits, workers, relays>>
        BY <1>3 DEF Ask, OnlyRequests, NoRequest, MoneyInv, TypeInv, TypeOK
    <2>2. \A n \in Amounts : n >= 1
        BY NumbersAssumption
    <2>3. ~refund => amount >= 1
        BY <1>3, <2>2
    <2> QED BY <2>1, <2>3, ClaimsDrop, ReportFrame
<1>4. ASSUME NEW p \in Payouts, BeginPayout(p) \/ BeginRefund(p) PROVE Goal
    <2>1. UNCHANGED <<workers, relays>>
        BY <1>4 DEF BeginPayout, BeginRefund, OpenTransaction, OnlyRequests
    <2> QED BY <1>4, <2>1, BeginPayoutClaims, BeginRefundClaims, ReportFrame
<1>5. ASSUME NEW p \in Payouts, CommitRequest(p) PROVE Goal
    <2>1. UNCHANGED <<workers, relays>>
        BY <1>5 DEF CommitRequest
    <2> QED BY <1>5, <2>1, CommitRequestClaims, ReportFrame
<1>6. ASSUME NEW p \in Payouts, AbandonRequest(p) PROVE Goal
    <2>1. /\ \A q \in Payouts \ {p} : requests'[q] = requests[q]
          /\ requests'[p].stage = "none" /\ requests'[p].dust = {}
          /\ UNCHANGED <<deposits, workers, relays>>
        BY <1>6 DEF AbandonRequest, OnlyRequests, NoRequest, MoneyInv, TypeInv, TypeOK
    <2> QED BY <2>1, ClaimsDrop, ReportFrame
<1>7. ASSUME NEW p \in Payouts, CancelWithdrawal(p) \/ Resolve(p) PROVE Goal
    <2>1. UNCHANGED <<deposits, requests, workers, relays>>
        BY <1>7 DEF CancelWithdrawal, Resolve, MarkWithdrawalSent, MarkWithdrawalFailed, Close
    <2> QED BY <1>1, <2>1
<1>8. ASSUME NEW a \in Admins, CommitApproval(a) \/ CommitRejection(a) PROVE Goal
    <2>1. UNCHANGED <<deposits, requests, workers, relays>>
        BY <1>8 DEF CommitApproval, CommitRejection
    <2> QED BY <1>1, <2>1
<1>9. ASSUME NEW k \in Workers, NEW p \in Payouts, NEW heard \in BOOLEAN,
             ClaimWithdrawal(k, p, heard)
      PROVE  Goal
    <2>1. /\ UNCHANGED <<deposits, requests, relays>>
          /\ \A l \in Workers : workers'[l] = workers[l] \/ workers'[l].stage # "relayed"
        BY <1>9 DEF ClaimWithdrawal, Hands, MoneyInv, TypeInv, TypeOK
    <2> QED BY <2>1, ClaimsFrame, ReportFrame
<1>10. ASSUME NEW k \in Workers, NotRelayed(k) \/ ReportSent(k) \/ ReportFailed(k) \/ GiveUp(k)
       PROVE  Goal
    <2>1. /\ UNCHANGED <<deposits, requests, relays>>
          /\ \A l \in Workers : workers'[l] = workers[l] \/ workers'[l].stage # "relayed"
        BY <1>10 DEF NotRelayed, ReportSent, ReportFailed, GiveUp, OnlyWorkers, Hands,
            MarkWithdrawalSent, MarkWithdrawalFailed, Close, MoneyInv, TypeInv, TypeOK
    <2> QED BY <2>1, ClaimsFrame, ReportFrame
<1>11. ASSUME NEW k \in Workers, Relay(k) PROVE Goal
    <2> DEFINE p == workers[k].payout
    <2>1. p \in Payouts
        BY <1>11, WorkerType DEF Relay, MoneyInv, TypeInv
    <2>2. /\ relays' = [relays EXCEPT ![p] = @ + 1] /\ UNCHANGED <<deposits, requests>>
          /\ workers'[k].payout = p /\ \A l \in Workers \ {k} : workers'[l] = workers[l]
        BY <1>11 DEF Relay, Hands, MoneyInv, TypeInv, TypeOK
    <2> HIDE DEF p
    <2>3. relays \in [Payouts -> Nat]
        BY DEF MoneyInv, TypeInv, TypeOK
    <2>4. relays'[p] > 0 /\ \A q \in Payouts : relays'[q] >= relays[q]
        BY <2>1, <2>2, <2>3
    <2>5. \A l \in Workers \ {k} : workers[l].stage = "relayed" => workers[l].payout \in Payouts
        BY WorkerType DEF MoneyInv, TypeInv
    <2>6. ASSUME NEW l \in Workers, workers'[l].stage = "relayed"
          PROVE  relays'[workers'[l].payout] > 0
        <3>1. CASE l = k
            BY <2>2, <2>4, <3>1
        <3>2. CASE l # k
            <4>1. /\ workers'[l] = workers[l] /\ workers[l].payout \in Payouts
                  /\ relays[workers[l].payout] > 0
                BY <2>2, <2>5, <2>6, <3>2 DEF MoneyInv, ReportInv
            <4> QED BY <2>2, <2>3, <2>4, <4>1
        <3> QED BY <3>1, <3>2
    <2>7. ReportInv'
        BY <2>6 DEF ReportInv
    <2> QED BY <2>2, <2>7, ClaimsFrame
<1>12. ASSUME UNCHANGED vars PROVE Goal
    BY <1>1, <1>12 DEF vars
<1> HIDE DEF Goal
<1>13. Goal
    BY <1>1, <1>2, <1>3, <1>4, <1>5, <1>6, <1>7, <1>8, <1>9, <1>10, <1>11, <1>12
    DEF Next, SetPayoutLimit, DecideRead, CountApprovals, AbandonDecision, Tick
<1> QED BY <1>13 DEF Goal

-----------------------------------------------------------------------------
(* What the wallet has sent *)

\* Relayed and not reported yet, of one owner; and what the platform owes that
\* owner once those are taken off.
UnreportedOf(u) == {p \in Unreported : withdrawals[p].user = u}
Owed(u) == Share(u) - AmountOf(UnreportedOf(u))

\* What the wallet sent, as solvency() adds it up.
Sent == Total([p \in Payouts |-> relays[p] * withdrawals[p].amount])

\* A row the wallet has relayed once is worth its amount, any other nothing.
LEMMA SentRow ==
    ASSUME TypeOK, NEW p \in Payouts
    PROVE  /\ relays[p] = 0 => relays[p] * withdrawals[p].amount = 0
           /\ relays[p] = 1 => relays[p] * withdrawals[p].amount = withdrawals[p].amount
           /\ withdrawals[p].amount \in Nat
<1>1. withdrawals[p].amount \in Nat
    BY DEF TypeOK, Row, NoRow
<1> QED BY <1>1

LEMMA RelaysType ==
    ASSUME RelayInv, NEW p \in Payouts
    PROVE  relays[p] = 0 \/ relays[p] = 1
<1>1. relays[p] \in Nat
    BY DEF RelayInv, BaseInv, TypeInv, TypeOK
<1>2. relays[p] <= 1
    BY DEF RelayInv, WorkerInv
<1> QED BY <1>1, <1>2

\* Steps that touch no row the wallet has relayed: nothing above moves.
RelayedRowsKept ==
    /\ UNCHANGED relays
    /\ \A p \in Payouts : relays[p] > 0 => withdrawals'[p] = withdrawals[p]

LEMMA SentKept ==
    ASSUME MoneyInv, TypeOK', RelayedRowsKept
    PROVE  /\ Unreported' = Unreported /\ AmountOf(Unreported)' = AmountOf(Unreported)
           /\ \A u : UnreportedOf(u)' = UnreportedOf(u)
           /\ \A u : AmountOf(UnreportedOf(u))' = AmountOf(UnreportedOf(u))
           /\ Sent' = Sent
<1>1. \A p \in Payouts : /\ p \in Unreported' <=> p \in Unreported
                         /\ p \in Unreported => withdrawals'[p] = withdrawals[p]
    BY DEF RelayedRowsKept, Unreported
<1>2. Unreported' = Unreported /\ Unreported \subseteq Payouts
    BY <1>1 DEF Unreported
<1>3. \A u : UnreportedOf(u)' = UnreportedOf(u) /\ UnreportedOf(u) \subseteq Unreported
    BY <1>1, <1>2 DEF UnreportedOf
<1>4. ASSUME NEW S \in SUBSET Unreported
      PROVE  AmountIn(withdrawals', S) = AmountIn(withdrawals, S)
    BY <1>1, <1>2, AmountSame
<1>5. \A S : AmountOf(S) = AmountIn(withdrawals, S) /\ AmountOf(S)' = AmountIn(withdrawals', S)
    BY DEF AmountOf, AmountIn
<1>6. \A p \in Payouts : relays[p] = 0 \/ relays[p] = 1
    BY RelaysType DEF MoneyInv
<1>7. \A p \in Payouts : withdrawals[p].amount \in Nat /\ withdrawals'[p].amount \in Nat
    BY DEF MoneyInv, RelayInv, BaseInv, TypeInv, TypeOK, Row, NoRow
<1>8. ASSUME NEW p \in Payouts
      PROVE  relays'[p] * withdrawals'[p].amount = relays[p] * withdrawals[p].amount
    BY <1>6, <1>7 DEF RelayedRowsKept
<1>9. Sent' = Sent
    <2>1. [p \in Payouts |-> relays[p] * withdrawals[p].amount]'
              = [p \in Payouts |-> relays[p] * withdrawals[p].amount]
        BY <1>8
    <2> QED BY <2>1 DEF Sent
<1>10. AmountOf(Unreported)' = AmountIn(withdrawals', Unreported')
    BY DEF AmountOf, AmountIn
<1>11. \A u : AmountOf(UnreportedOf(u))' = AmountIn(withdrawals', UnreportedOf(u)')
    BY DEF AmountOf, AmountIn
<1> QED BY <1>2, <1>3, <1>4, <1>5, <1>9, <1>10, <1>11

\* A relay adds its row to what was sent and to what is still unreported.
LEMMA SentMore ==
    ASSUME MoneyInv, TypeOK', NEW p \in Payouts, UNCHANGED withdrawals,
           relays[p] = 0, relays'[p] = 1, withdrawals[p].status = "sending",
           \A q \in Payouts \ {p} : relays'[q] = relays[q]
    PROVE  /\ Unreported' = Unreported \cup {p} /\ p \notin Unreported
           /\ AmountOf(Unreported)' = AmountOf(Unreported) + withdrawals[p].amount
           /\ Sent' = Sent + withdrawals[p].amount
<1>1. withdrawals \in [Payouts -> Row] /\ relays \in [Payouts -> Nat] /\ relays' \in [Payouts -> Nat]
    BY DEF MoneyInv, RelayInv, BaseInv, TypeInv, TypeOK
<1>2. Unreported' = Unreported \cup {p} /\ p \notin Unreported /\ Unreported \in SUBSET Payouts
    BY DEF Unreported
<1>3. AmountIn(withdrawals, Unreported \cup {p}) = AmountIn(withdrawals, Unreported) + withdrawals[p].amount
    BY <1>1, <1>2, AmountMore
<1>4. AmountOf(Unreported)' = AmountOf(Unreported) + withdrawals[p].amount
    BY <1>2, <1>3 DEF AmountOf, AmountIn
<1>5. \A q \in Payouts : withdrawals[q].amount \in Nat
    BY <1>1 DEF Row, NoRow
<1> DEFINE f == [q \in Payouts |-> relays[q] * withdrawals[q].amount]
           g == [q \in Payouts |-> relays'[q] * withdrawals[q].amount]
<1>6. \A q \in Payouts : relays[q] = 0 \/ relays[q] = 1
    BY RelaysType DEF MoneyInv
<1>7. \A q \in Payouts : relays'[q] = 0 \/ relays'[q] = 1
    BY <1>6
<1>8. f \in [Payouts -> Nat] /\ g \in [Payouts -> Nat]
    BY <1>5, <1>6, <1>7
<1>9. (\A q \in Payouts \ {p} : g[q] = f[q]) /\ f[p] = 0 /\ g[p] = withdrawals[p].amount
    BY <1>5
<1>10. Sent = Total(f) /\ Sent' = Total(g)
    BY DEF Sent
<1> HIDE DEF f, g
<1>11. IsFiniteSet(Payouts)
    BY SetsAssumption
<1>12. Total(g) = Total(f) - f[p] + g[p]
    BY <1>8, <1>9, <1>11, TotalChange
<1>13. Total(f) \in Nat
    BY <1>8, <1>11, TotalType
<1>14. Sent' = Sent + withdrawals[p].amount
    BY <1>5, <1>9, <1>10, <1>12, <1>13
<1> QED BY <1>2, <1>4, <1>14

\* The report of a relayed payout takes its row off again.
LEMMA SentReported ==
    ASSUME MoneyInv, TypeOK', NEW p \in Payouts, UNCHANGED relays,
           relays[p] = 1, withdrawals[p].status = "sending", withdrawals'[p].status # "sending",
           withdrawals'[p].amount = withdrawals[p].amount,
           \A q \in Payouts \ {p} : withdrawals'[q] = withdrawals[q]
    PROVE  /\ Unreported' = Unreported \ {p} /\ p \in Unreported
           /\ AmountOf(Unreported) = AmountOf(Unreported)' + withdrawals[p].amount
           /\ Sent' = Sent
<1>1. withdrawals \in [Payouts -> Row] /\ relays \in [Payouts -> Nat]
    BY DEF MoneyInv, RelayInv, BaseInv, TypeInv, TypeOK
<1>2. Unreported' = Unreported \ {p} /\ p \in Unreported /\ Unreported \in SUBSET Payouts
    BY DEF Unreported
<1>3. (Unreported \ {p}) \cup {p} = Unreported /\ Unreported \ {p} \in SUBSET Payouts
      /\ p \in Payouts \ (Unreported \ {p})
    BY <1>2
<1>4. AmountIn(withdrawals, Unreported) = AmountIn(withdrawals, Unreported \ {p}) + withdrawals[p].amount
    BY <1>1, <1>3, AmountMore
<1>5. AmountIn(withdrawals', Unreported \ {p}) = AmountIn(withdrawals, Unreported \ {p})
    BY <1>3, AmountSame
<1>6. AmountOf(Unreported) = AmountOf(Unreported)' + withdrawals[p].amount
    BY <1>2, <1>4, <1>5 DEF AmountOf, AmountIn
<1>7. [q \in Payouts |-> relays[q] * withdrawals[q].amount]'
              = [q \in Payouts |-> relays[q] * withdrawals[q].amount]
    <2>1. \A q \in Payouts : relays'[q] = relays[q] /\ withdrawals'[q].amount = withdrawals[q].amount
        OBVIOUS
    <2> QED BY <2>1
<1>8. Sent' = Sent
    BY <1>7 DEF Sent
<1> QED BY <1>2, <1>6, <1>8

-----------------------------------------------------------------------------
(* What each operation does to the money *)

SharesKept == \A u \in Users : Share(u)' = Share(u)

\* A transfer the marketplace records is owed to its payer from then on, whether
\* it is credited or stays dust.
LEMMA CreditDepositMoney ==
    ASSUME MoneyInv, NEW t \in Transfers, CreditDeposit(t)
    PROVE  /\ Share(payerOf[t])' = Share(payerOf[t]) + valueOf[t]
           /\ \A u \in Users \ {payerOf[t]} : Share(u)' = Share(u)
           /\ RelayedRowsKept
<1> DEFINE u == payerOf[t]
           n == valueOf[t]
<1>1. /\ u \in Users /\ n \in Nat /\ n \in Int /\ 0 \in Int /\ n + 0 = n
      /\ balances \in [Users -> Account] /\ TypeOK
      /\ deposits \in [Transfers -> {"absent", "arrived", "below_minimum", "credited"}]
    BY SetsAssumption DEF MoneyInv, RelayInv, BaseInv, TypeInv, TypeOK
<1>2. Credit(u, n) = On(u, Movement(n, 0))
    BY <1>1, Kinds
<1>3. deposits[t] = "arrived" /\ UNCHANGED <<withdrawals, relays>>
    BY DEF CreditDeposit
<1>4. RelayedRowsKept
    BY <1>3 DEF RelayedRowsKept
<1>5. CASE valueOf[t] >= MinDeposit
    <2>1. /\ deposits' = [deposits EXCEPT ![t] = "credited"]
          /\ balances' = Apply(balances, Credit(u, n))
        BY <1>5 DEF CreditDeposit
    <2>2. \A v \in Users : DustIn(deposits', v) = DustIn(deposits, v)
        BY <1>1, <1>3, <2>1 DEF DustIn
    <2> HIDE DEF u, n
    <2>3. /\ balances' = Apply(balances, On(u, Movement(n, 0)))
          /\ Covered(balances, On(u, Movement(n, 0)))
        BY <1>1, <1>2, <2>1 DEF Covered, On, Movement, Account
    <2>4. Share(u)' = Share(u) + (n + 0) /\ \A v \in Users \ {u} : Share(v)' = Share(v)
        BY <1>1, <2>2, <2>3, ShareMove
    <2> QED BY <1>1, <1>4, <2>4 DEF u, n
<1>6. CASE ~(valueOf[t] >= MinDeposit)
    <2>1. deposits' = [deposits EXCEPT ![t] = "below_minimum"] /\ balances' = balances
        BY <1>6 DEF CreditDeposit
    <2>2. /\ DustIn(deposits', u) = DustIn(deposits, u) \cup {t} /\ t \notin DustIn(deposits, u)
          /\ DustIn(deposits, u) \in SUBSET Transfers
          /\ \A v \in Users \ {u} : DustIn(deposits', v) = DustIn(deposits, v)
        BY <1>1, <1>3, <2>1 DEF DustIn
    <2>3. ValueOf(DustIn(deposits', u)) = ValueOf(DustIn(deposits, u)) + n
        BY <2>2, ValueMore
    <2>4. \A v \in Users \ {u} : Share(v)' = Share(v)
        BY <2>1, <2>2 DEF Share, ShareIn
    <2>5. ValueOf(DustIn(deposits, u)) \in Nat /\ balances[u].available \in Nat /\ balances[u].held \in Nat
        BY <1>1, <2>2, ValueOfType DEF Account
    <2> HIDE DEF u, n
    <2>6. Share(u)' = Share(u) + n
        BY <1>1, <2>1, <2>3, <2>5 DEF Share, ShareIn
    <2> QED BY <1>4, <2>4, <2>6 DEF u, n
<1> QED BY <1>5, <1>6

\* Asking for a payout moves money between the totals of one account; a refund
\* turns what its owner was owed as dust into money on hold.
LEMMA CommitRequestMoney ==
    ASSUME MoneyInv, NEW p \in Payouts, CommitRequest(p)
    PROVE  /\ SharesKept /\ RelayedRowsKept
           /\ withdrawals[p].status = "none" /\ relays[p] = 0
           /\ requests[p].user \in Users
           /\ requests[p].amount \in 1..Share(requests[p].user)
<1> DEFINE dust == requests[p].dust
<1>1. /\ requests[p].stage = "open" /\ Covered(balances, RequestMoves(requests[p]))
      /\ balances' = Apply(balances, RequestMoves(requests[p]))
      /\ deposits' = Claimed(dust) /\ UNCHANGED relays
    BY DEF CommitRequest
<1>2. TypeOK /\ balances \in [Users -> Account]
      /\ deposits \in [Transfers -> {"absent", "arrived", "below_minimum", "credited"}]
    BY DEF MoneyInv, RelayInv, BaseInv, TypeInv, TypeOK
<1>3. PICK u \in Users : u = requests[p].user
    BY <1>1, <1>2, RequestType
<1>3a. PICK n \in Nat : n = requests[p].amount
    BY <1>1, <1>2, RequestType
<1>3b. n \in Int /\ -n \in Int /\ 0 \in Int /\ n + 0 = n /\ -n + n = 0
    OBVIOUS
<1>4. withdrawals[p].status = "none"
    BY <1>1 DEF MoneyInv, RelayInv, BaseInv, RequestsAreNew
<1>5. relays[p] = 0
    BY <1>4, RelaysType DEF MoneyInv, RelayInv, WorkerInv
<1>6. \A q \in Payouts \ {p} : withdrawals'[q] = withdrawals[q]
    BY <1>2 DEF CommitRequest, TypeOK
<1>7. RelayedRowsKept
    BY <1>1, <1>5, <1>6 DEF RelayedRowsKept
<1>8. n >= 1
    BY <1>1, <1>3a DEF MoneyInv, ClaimsInv
<1>9. ShareIn(balances, deposits, u) \in Nat /\ ShareIn(balances, deposits, u) >= balances[u].available
      /\ ShareIn(balances, deposits, u) >= ValueOf(DustIn(deposits, u))
    BY <1>2, <1>3, ShareType
<1>10. CASE ~requests[p].refund
    <2>1. dust = {}
        BY <1>10 DEF MoneyInv, ClaimsInv
    <2>2. deposits' = deposits
        BY <1>1, <1>2, <2>1 DEF Claimed
    <2>3. RequestMoves(requests[p]) = On(u, Movement(-n, n))
        BY <1>3, <1>3a, <1>10, Kinds DEF RequestMoves
    <2>4. /\ Covered(balances, On(u, Movement(-n, n)))
          /\ balances' = Apply(balances, On(u, Movement(-n, n)))
          /\ \A v \in Users : DustIn(deposits', v) = DustIn(deposits, v)
        BY <1>1, <2>2, <2>3
    <2>5. Share(u)' = Share(u) + (-n + n) /\ \A v \in Users \ {u} : Share(v)' = Share(v)
        BY <1>2, <1>3b, <2>4, ShareMove
    <2>6. SharesKept
        BY <1>3b, <1>9, <2>5 DEF SharesKept, Share
    <2>7. balances[u].available >= n
        BY <1>2, <1>3, <2>4 DEF Covered, On, Movement, Account
    <2>8. n \in 1..Share(u)
        BY <1>2, <1>3, <1>8, <1>9, <2>7 DEF Share, Account
    <2> QED BY <1>3, <1>3a, <1>4, <1>5, <1>7, <2>6, <2>8
<1>11. CASE requests[p].refund
    <2>1. dust \subseteq DustIn(deposits, u) /\ n = ValueOf(dust)
        BY <1>1, <1>3, <1>3a, <1>11 DEF MoneyInv, ClaimsInv
    <2>2. RequestMoves(requests[p]) = On(u, Movement(0, n))
        BY <1>3, <1>3a, <1>11 DEF RequestMoves
    <2> HIDE DEF dust
    <2>3. Covered(balances, On(u, Movement(0, n))) /\ balances' = Apply(balances, On(u, Movement(0, n)))
        BY <1>1, <2>2
    <2>4. /\ balances'[u] = [available |-> balances[u].available + 0, held |-> balances[u].held + n]
          /\ \A v \in Users \ {u} : balances'[v] = balances[v]
        BY <1>2, <1>3b, <2>3, ApplyOne
    <2>5. /\ DustIn(deposits', u) = DustIn(deposits, u) \ dust
          /\ DustIn(deposits, u) \in SUBSET Transfers
        BY <1>1, <1>2, <2>1 DEF Claimed, DustIn
    <2>6. \A v \in Users \ {u} : DustIn(deposits', v) = DustIn(deposits, v)
        BY <1>1, <1>2, <2>1 DEF Claimed, DustIn
    <2>7. ValueOf(DustIn(deposits, u)) = n + ValueOf(DustIn(deposits', u))
        BY <2>1, <2>5, ValueSplit
    <2>8. ValueOf(DustIn(deposits', u)) \in Nat
        BY <2>5, ValueOfType
    <2>9. balances[u].available \in Nat /\ balances[u].held \in Nat
        BY <1>2, <1>3 DEF Account
    <2>10. Share(u)' = Share(u)
        <3>1. balances'[u].available = balances[u].available /\ balances'[u].held = balances[u].held + n
            BY <2>4, <2>9
        <3>2. ShareIn(balances', deposits', u) = ShareIn(balances, deposits, u)
            BY <3>1, <2>7, <2>8, <2>9 DEF ShareIn
        <3> QED BY <3>2 DEF Share
    <2>11. SharesKept
        BY <2>4, <2>6, <2>10 DEF SharesKept, Share, ShareIn
    <2>12. n \in 1..Share(u)
        BY <1>3, <1>8, <1>9, <2>7, <2>8 DEF Share
    <2> QED BY <1>3, <1>3a, <1>4, <1>5, <1>7, <2>11, <2>12
<1> QED BY <1>10, <1>11

\* What is on hold goes back to the account it was taken from.
LEMMA ReturnMoney ==
    ASSUME MoneyInv, NEW p \in Payouts, withdrawals[p].status # "none",
           Covered(balances, ReturnHold(p)), balances' = Apply(balances, ReturnHold(p)),
           UNCHANGED deposits
    PROVE  SharesKept
<1>1. TypeOK
    BY DEF MoneyInv, RelayInv, BaseInv, TypeInv
<1>2. PICK u \in Users : u = withdrawals[p].user
    BY <1>1, RowType
<1>3. PICK n \in Nat : n = withdrawals[p].amount
    BY <1>1, RowType
<1>4. n \in Int /\ -n \in Int /\ n + -n = 0
    OBVIOUS
<1>5. ReturnHold(p) = On(u, Movement(n, -n))
    BY <1>2, <1>3, Kinds DEF ReturnHold
<1>6. /\ Covered(balances, On(u, Movement(n, -n)))
      /\ balances' = Apply(balances, On(u, Movement(n, -n)))
      /\ \A v \in Users : DustIn(deposits', v) = DustIn(deposits, v)
    BY <1>5 DEF DustIn
<1>7. Share(u)' = Share(u) + (n + -n) /\ \A v \in Users \ {u} : Share(v)' = Share(v)
    BY <1>1, <1>4, <1>6, ShareMove
<1>8. Share(u) \in Nat
    BY <1>1, ShareType DEF TypeOK, Share
<1> QED BY <1>4, <1>7, <1>8 DEF SharesKept

\* A payout that is closed without having left the wallet changes nothing of this.
LEMMA CloseMoney ==
    ASSUME MoneyInv, NEW p \in Payouts, NEW from \in SUBSET OpenStatus, NEW to \in ClosedStatus,
           Close(p, from, to, ReturnHold(p)), relays[p] = 0
    PROVE  SharesKept /\ RelayedRowsKept
<1>1. /\ withdrawals[p].status # "none" /\ UNCHANGED relays
      /\ \A q \in Payouts \ {p} : withdrawals'[q] = withdrawals[q]
    BY CloseRows DEF MoneyInv, RelayInv, BaseInv, TypeInv
<1>2. /\ Covered(balances, ReturnHold(p)) /\ balances' = Apply(balances, ReturnHold(p))
      /\ UNCHANGED deposits
    BY DEF Close
<1>3. SharesKept
    BY <1>1, <1>2, ReturnMoney
<1> QED BY <1>1, <1>3 DEF RelayedRowsKept

LEMMA MarkWithdrawalFailedMoney ==
    ASSUME MoneyInv, NEW p \in Payouts, MarkWithdrawalFailed(p), relays[p] = 0
    PROVE  SharesKept /\ RelayedRowsKept
<1>1. Close(p, ReportableStatus, "failed", ReturnHold(p))
    BY DEF MarkWithdrawalFailed
<1>2. ReportableStatus \in SUBSET OpenStatus /\ "failed" \in ClosedStatus
    BY DEF ReportableStatus, OpenStatus, ClosedStatus
<1> QED BY <1>1, <1>2, CloseMoney

LEMMA CancelWithdrawalMoney ==
    ASSUME MoneyInv, NEW p \in Payouts, CancelWithdrawal(p)
    PROVE  SharesKept /\ RelayedRowsKept /\ relays[p] = 0
<1>1. Close(p, CancellableStatus, "cancelled", ReturnHold(p))
    BY DEF CancelWithdrawal
<1>2. CancellableStatus \in SUBSET OpenStatus /\ "cancelled" \in ClosedStatus
    BY DEF CancellableStatus, OpenStatus, ClosedStatus
<1>3. withdrawals[p].status \in {"queued", "approval_required"}
    BY <1>1 DEF Close, CancellableStatus
<1>4. relays[p] = 0
    BY <1>3, RelaysType DEF MoneyInv, RelayInv, WorkerInv
<1> QED BY <1>1, <1>2, <1>4, CloseMoney

\* A reported payout leaves its owner's hold: the wallet had sent it before.
LEMMA MarkWithdrawalSentMoney ==
    ASSUME MoneyInv, ~LateRelay, NEW p \in Payouts, MarkWithdrawalSent(p), relays[p] > 0
    PROVE  /\ relays[p] = 1 /\ withdrawals[p].status = "sending" /\ withdrawals'[p].status = "sent"
           /\ withdrawals[p].user \in Users /\ withdrawals[p].amount \in Nat
           /\ withdrawals'[p] = [withdrawals[p] EXCEPT !.status = "sent"]
           /\ withdrawals'[p].user = withdrawals[p].user
           /\ withdrawals'[p].amount = withdrawals[p].amount
           /\ \A q \in Payouts \ {p} : withdrawals'[q] = withdrawals[q]
           /\ UNCHANGED <<relays, deposits>>
           /\ \A u \in Users : Share(u)' = IF u = withdrawals[p].user
                                          THEN Share(u) - withdrawals[p].amount ELSE Share(u)
<1> DEFINE moves == Spend(withdrawals[p].user, withdrawals[p].amount)
<1>1. Close(p, ReportableStatus, "sent", moves)
    BY DEF MarkWithdrawalSent
<1>2. TypeOK
    BY DEF MoneyInv, RelayInv, BaseInv, TypeInv
<1>3. withdrawals[p].status \in {"queued", "sending"}
    BY <1>1 DEF Close, ReportableStatus
<1>4. withdrawals[p].status = "sending" /\ relays[p] = 1
    BY <1>3, RelaysType DEF MoneyInv, RelayInv, WorkerInv
<1>5. /\ withdrawals[p].user \in Users /\ withdrawals[p].amount \in Nat
      /\ withdrawals[p] \in [status : OpenStatus \cup ClosedStatus, user : Users, amount : Nat,
                             at : Nat, decidedBy : Admins \cup {None}]
    BY <1>2, <1>4 DEF TypeOK, Row, NoRow
<1>6. /\ withdrawals' = [withdrawals EXCEPT ![p].status = "sent"] /\ UNCHANGED <<relays, deposits>>
      /\ Covered(balances, moves) /\ balances' = Apply(balances, moves)
    BY <1>1 DEF Close
<1>7. /\ withdrawals'[p] = [withdrawals[p] EXCEPT !.status = "sent"]
      /\ \A q \in Payouts \ {p} : withdrawals'[q] = withdrawals[q]
    BY <1>2, <1>6 DEF TypeOK
<1>8. /\ withdrawals'[p].status = "sent" /\ withdrawals'[p].user = withdrawals[p].user
      /\ withdrawals'[p].amount = withdrawals[p].amount
    BY <1>5, <1>7
<1>9. PICK u \in Users : u = withdrawals[p].user
    BY <1>5
<1>10. PICK n \in Nat : n = withdrawals[p].amount
    BY <1>5
<1>11. moves = On(u, Movement(0, -n)) /\ 0 \in Int /\ -n \in Int
    BY <1>9, <1>10, Kinds
<1> HIDE DEF moves
<1>12. /\ Covered(balances, On(u, Movement(0, -n))) /\ balances' = Apply(balances, On(u, Movement(0, -n)))
       /\ \A v \in Users : DustIn(deposits', v) = DustIn(deposits, v)
    BY <1>6, <1>11 DEF DustIn
<1>13. Share(u)' = Share(u) + (0 + -n) /\ \A v \in Users \ {u} : Share(v)' = Share(v)
    BY <1>2, <1>11, <1>12, ShareMove
<1>14. Share(u) \in Nat
    BY <1>2, ShareType DEF TypeOK, Share
<1>15. Share(u)' = Share(u) - n
    BY <1>13, <1>14
<1>16. \A v \in Users : Share(v)' = IF v = withdrawals[p].user
                                   THEN Share(v) - withdrawals[p].amount ELSE Share(v)
    BY <1>9, <1>10, <1>13, <1>15
<1> QED BY <1>4, <1>5, <1>6, <1>7, <1>8, <1>16

\* A decision concerns a parked row, and such a row never left the wallet.
LEMMA DecisionMoney ==
    ASSUME MoneyInv, NEW a \in Admins, CommitApproval(a) \/ CommitRejection(a)
    PROVE  SharesKept /\ RelayedRowsKept
<1> DEFINE p == decisions[a].payout
<1>1. TypeOK /\ decisions[a].stage # "none"
    BY DEF CommitApproval, CommitRejection, MoneyInv, RelayInv, BaseInv, TypeInv
<1>2. p \in Payouts /\ withdrawals[p].status # "none"
    BY <1>1, DecisionType DEF MoneyInv, RelayInv, BaseInv, TypeInv, DecisionsHaveRows
<1>3. withdrawals[p].status = "approval_required" => relays[p] = 0
    BY <1>2, RelaysType DEF MoneyInv, RelayInv, WorkerInv
<1>4. CASE CommitApproval(a)
    <2>1. /\ UNCHANGED <<balances, deposits, relays>>
          /\ Settle(p, "queued", a) \/ UNCHANGED withdrawals
        BY <1>4 DEF CommitApproval
    <2> HIDE DEF p
    <2>2. RelayedRowsKept
        BY <1>1, <1>2, <1>3, <2>1, SettleRows DEF RelayedRowsKept
    <2>3. SharesKept
        BY <2>1 DEF SharesKept, Share, ShareIn
    <2> QED BY <2>2, <2>3
<1>5. CASE CommitRejection(a)
    <2>1. /\ Covered(balances, ReturnHold(p)) /\ balances' = Apply(balances, ReturnHold(p))
          /\ Settle(p, "rejected", a) /\ UNCHANGED <<deposits, relays>>
        BY <1>5 DEF CommitRejection
    <2> HIDE DEF p
    <2>2. RelayedRowsKept
        BY <1>1, <1>2, <1>3, <2>1, SettleRows DEF RelayedRowsKept
    <2>3. SharesKept
        BY <1>2, <2>1, ReturnMoney
    <2> QED BY <2>2, <2>3
<1> QED BY <1>4, <1>5

LEMMA RelayMoney ==
    ASSUME MoneyInv, NEW k \in Workers, Relay(k), NEW p \in Payouts, p = workers[k].payout
    PROVE  /\ relays[p] = 0 /\ relays'[p] = 1 /\ withdrawals[p].status = "sending"
           /\ \A q \in Payouts \ {p} : relays'[q] = relays[q]
           /\ UNCHANGED <<withdrawals, balances, deposits>>
<1>1. /\ workers[k].stage = "claimed" /\ relays' = [relays EXCEPT ![p] = @ + 1]
      /\ UNCHANGED <<withdrawals, balances, deposits>>
    BY DEF Relay
<1>2. relays[p] = 0 /\ withdrawals[p].status = "sending"
    BY <1>1 DEF MoneyInv, RelayInv, WorkerInv
<1>3. relays \in [Payouts -> Nat]
    BY DEF MoneyInv, RelayInv, BaseInv, TypeInv, TypeOK
<1> QED BY <1>1, <1>2, <1>3

-----------------------------------------------------------------------------
(* The books and the wallet *)

Arrived == {t \in Transfers : deposits[t] = "arrived"}
Present == {t \in Transfers : deposits[t] # "absent"}

LEMMA BooksAre ==
    BooksMatchWallet <=> Liabilities + ValueOf(Arrived) = (ValueOf(Present) - Sent) + AmountOf(Unreported)
BY DEF BooksMatchWallet, WalletTotal, Arrived, Present, Sent

LEMMA BooksAreNext ==
    BooksMatchWallet' <=> Liabilities' + ValueOf(Arrived')
                              = (ValueOf(Present') - Sent') + AmountOf(Unreported)'
BY DEF BooksMatchWallet, WalletTotal, Arrived, Present, Sent, ValueOf, Unreported, Liabilities,
       AmountOf, Dust

LEMMA BooksTypes ==
    ASSUME MoneyInv
    PROVE  /\ Liabilities \in Nat /\ ValueOf(Arrived) \in Nat /\ ValueOf(Present) \in Nat
           /\ Sent \in Nat /\ AmountOf(Unreported) \in Nat
<1>1. TypeOK /\ IsFiniteSet(Users) /\ IsFiniteSet(Payouts)
    BY SetsAssumption DEF MoneyInv, RelayInv, BaseInv, TypeInv
<1>2. ValueOf(Arrived) \in Nat /\ ValueOf(Present) \in Nat
    BY ValueOfType DEF Arrived, Present
<1>3. Liabilities \in Nat
    <2>1. [u \in Users |-> Share(u)] \in [Users -> Nat]
        BY <1>1, ShareType DEF TypeOK, Share
    <2>2. Total([u \in Users |-> Share(u)]) \in Nat
        BY <1>1, <2>1, TotalType
    <2> QED BY <2>2 DEF Liabilities, Share, ShareIn, Dust, DustIn
<1>4. Sent \in Nat
    <2>1. ASSUME NEW p \in Payouts
          PROVE  relays[p] * withdrawals[p].amount \in Nat
        <3>1. relays[p] = 0 \/ relays[p] = 1
            BY RelaysType DEF MoneyInv
        <3> QED BY <1>1, <3>1, SentRow
    <2>2. [p \in Payouts |-> relays[p] * withdrawals[p].amount] \in [Payouts -> Nat]
        BY <2>1
    <2> QED BY <1>1, <2>2, TotalType DEF Sent
<1>5. AmountOf(Unreported) \in Nat
    BY <1>1, AmountOfType DEF Unreported
<1> QED BY <1>2, <1>3, <1>4, <1>5

LEMMA BooksStart == Init => BooksMatchWallet
<1> SUFFICES ASSUME Init PROVE BooksMatchWallet
    OBVIOUS
<1>1. IsFiniteSet(Users) /\ IsFiniteSet(Payouts)
    BY SetsAssumption
<1>2. /\ Arrived = {} /\ Present = {} /\ Unreported = {}
      /\ \A u \in Users : DustIn(deposits, u) = {}
    BY DEF Init, Arrived, Present, Unreported, DustIn
<1>3. ValueOf({}) = 0
    <2>1. [t \in {} |-> valueOf[t]] \in [{} -> Nat]
        OBVIOUS
    <2> QED BY <2>1, TotalEmpty DEF ValueOf
<1>4. AmountOf({}) = 0
    <2>1. [p \in {} |-> withdrawals[p].amount] \in [{} -> Nat]
        OBVIOUS
    <2> QED BY <2>1, TotalEmpty DEF AmountOf
<1>5. ASSUME NEW u \in Users PROVE Share(u) = 0
    <2>1. balances[u].available = 0 /\ balances[u].held = 0
        BY DEF Init, EmptyAccount
    <2>2. ValueOf(DustIn(deposits, u)) = 0
        BY <1>2, <1>3
    <2> QED BY <2>1, <2>2 DEF Share, ShareIn
<1>6. Cardinality(Users) * 0 = 0 /\ Cardinality(Payouts) * 0 = 0
    <2>1. Cardinality(Users) \in Nat /\ Cardinality(Payouts) \in Nat
        BY <1>1, FS_CardinalityType
    <2> QED BY <2>1
<1>7. Liabilities = 0
    <2>1. [u \in Users |-> Share(u)] = [u \in Users |-> 0]
        BY <1>5
    <2>2. Total([u \in Users |-> 0]) = Cardinality(Users) * 0
        BY <1>1, TotalConstant
    <2> QED BY <1>6, <2>1, <2>2 DEF Liabilities, Share, ShareIn, Dust, DustIn
<1>8. Sent = 0
    <2>1. \A p \in Payouts : relays[p] = 0 /\ withdrawals[p].amount = 0
        BY DEF Init, NoRow
    <2>2. [p \in Payouts |-> relays[p] * withdrawals[p].amount] = [p \in Payouts |-> 0]
        BY <2>1
    <2>3. Total([p \in Payouts |-> 0]) = Cardinality(Payouts) * 0
        BY <1>1, TotalConstant
    <2> QED BY <1>6, <2>2, <2>3 DEF Sent
<1> QED BY <1>2, <1>3, <1>4, <1>7, <1>8, BooksAre

\* Steps that move no money between an account and the wallet.
LEMMA BooksKept ==
    ASSUME MoneyInv, MoneyInv', BooksMatchWallet, SharesKept, RelayedRowsKept,
           \A t \in Transfers : /\ deposits'[t] = "arrived" <=> deposits[t] = "arrived"
                                /\ deposits'[t] = "absent" <=> deposits[t] = "absent"
    PROVE  BooksMatchWallet'
<1>1. Arrived' = Arrived /\ Present' = Present
    BY DEF Arrived, Present
<1>2. Liabilities' = Liabilities
    BY LiabilitiesKept DEF SharesKept
<1>3. Sent' = Sent /\ AmountOf(Unreported)' = AmountOf(Unreported)
    BY SentKept DEF MoneyInv, RelayInv, BaseInv, TypeInv
<1>4. Liabilities + ValueOf(Arrived) = (ValueOf(Present) - Sent) + AmountOf(Unreported)
    BY BooksAre
<1> QED BY <1>1, <1>2, <1>3, <1>4, BooksAreNext

LEMMA ClaimMoney ==
    ASSUME MoneyInv, NEW k \in Workers, NEW p \in Payouts, NEW heard \in BOOLEAN,
           ClaimWithdrawal(k, p, heard)
    PROVE  SharesKept /\ RelayedRowsKept /\ UNCHANGED deposits /\ relays[p] = 0
<1>1. /\ withdrawals[p].status = "queued" /\ UNCHANGED <<balances, relays>>
      /\ \A q \in Payouts \ {p} : withdrawals'[q] = withdrawals[q]
    BY ClaimRows DEF MoneyInv, RelayInv, BaseInv, TypeInv
<1>2. UNCHANGED deposits
    BY DEF ClaimWithdrawal
<1>3. relays[p] = 0
    BY <1>1, RelaysType DEF MoneyInv, RelayInv, WorkerInv
<1>4. SharesKept
    BY <1>1, <1>2 DEF SharesKept, Share, ShareIn
<1> QED BY <1>1, <1>2, <1>3, <1>4 DEF RelayedRowsKept

\* The report that closes a payout finds out what happened to it: one that says
\* "sent" was relayed, one that says "failed" was not.
LEMMA ReportMoney ==
    ASSUME MoneyInv, ~LateRelay, NEW p \in Payouts,
           \/ Resolve(p)
           \/ \E k \in Workers : workers[k].payout = p /\ (ReportSent(k) \/ ReportFailed(k))
    PROVE  \/ MarkWithdrawalSent(p) /\ relays[p] > 0
           \/ MarkWithdrawalFailed(p) /\ relays[p] = 0
<1>1. relays[p] \in Nat
    BY DEF MoneyInv, RelayInv, BaseInv, TypeInv, TypeOK
<1>2. CASE Resolve(p)
    BY <1>1, <1>2 DEF Resolve
<1>3. ASSUME NEW k \in Workers, workers[k].payout = p, ReportSent(k)
      PROVE  MarkWithdrawalSent(p) /\ relays[p] > 0
    BY <1>3 DEF ReportSent, MoneyInv, ReportInv
<1>4. ASSUME NEW k \in Workers, workers[k].payout = p, ReportFailed(k)
      PROVE  MarkWithdrawalFailed(p) /\ relays[p] = 0
    BY <1>4 DEF ReportFailed, MoneyInv, RelayInv, WorkerInv
<1> QED BY <1>2, <1>3, <1>4

LEMMA WalletStep ==
    ASSUME ~LateRelay
    PROVE  MoneyInv /\ BooksMatchWallet /\ [Next]_vars => BooksMatchWallet'
<1> SUFFICES ASSUME MoneyInv, BooksMatchWallet, [Next]_vars PROVE BooksMatchWallet'
    OBVIOUS
<1>0. MoneyInv'
    BY MoneyStep
<1>0a. /\ TypeOK /\ TypeOK' /\ IsFiniteSet(Users)
      /\ deposits \in [Transfers -> {"absent", "arrived", "below_minimum", "credited"}]
    BY <1>0, SetsAssumption DEF MoneyInv, RelayInv, BaseInv, TypeInv, TypeOK
<1>0b. Liabilities + ValueOf(Arrived) = (ValueOf(Present) - Sent) + AmountOf(Unreported)
    BY BooksAre
<1>0c. /\ Liabilities \in Nat /\ ValueOf(Arrived) \in Nat /\ ValueOf(Present) \in Nat
      /\ Sent \in Nat /\ AmountOf(Unreported) \in Nat
    BY BooksTypes
<1>1. ASSUME UNCHANGED deposits, SharesKept, RelayedRowsKept PROVE BooksMatchWallet'
    BY <1>0, <1>1, BooksKept
<1>2. ASSUME UNCHANGED <<balances, deposits, withdrawals, relays>> PROVE BooksMatchWallet'
    <2>1. SharesKept /\ RelayedRowsKept
        BY <1>2 DEF SharesKept, Share, ShareIn, RelayedRowsKept
    <2> QED BY <1>1, <1>2, <2>1
<1>3. ASSUME NEW t \in Transfers, Arrive(t) PROVE BooksMatchWallet'
    <2>1. /\ deposits[t] = "absent" /\ deposits' = [deposits EXCEPT ![t] = "arrived"]
          /\ UNCHANGED <<balances, withdrawals, relays>>
        BY <1>3 DEF Arrive
    <2>2. /\ Arrived' = Arrived \cup {t} /\ t \notin Arrived
          /\ Present' = Present \cup {t} /\ t \notin Present
          /\ Arrived \in SUBSET Transfers /\ Present \in SUBSET Transfers
        BY <1>0a, <2>1 DEF Arrived, Present
    <2>3. ValueOf(Arrived') = ValueOf(Arrived) + valueOf[t] /\ ValueOf(Present') = ValueOf(Present) + valueOf[t]
        BY <2>2, ValueMore
    <2>4. \A u \in Users : DustIn(deposits', u) = DustIn(deposits, u)
        BY <1>0a, <2>1 DEF DustIn
    <2>5. SharesKept /\ RelayedRowsKept
        BY <2>1, <2>4 DEF SharesKept, Share, ShareIn, RelayedRowsKept
    <2>6. Liabilities' = Liabilities
        BY <2>5, LiabilitiesKept DEF SharesKept
    <2>7. Sent' = Sent /\ AmountOf(Unreported)' = AmountOf(Unreported)
        BY <1>0a, <2>5, SentKept
    <2>8. valueOf[t] \in Nat
        BY SetsAssumption
    <2> QED BY <1>0b, <1>0c, <2>3, <2>6, <2>7, <2>8, BooksAreNext
<1>4. ASSUME NEW t \in Transfers, CreditDeposit(t) PROVE BooksMatchWallet'
    <2>1. /\ deposits[t] = "arrived" /\ deposits'[t] \in {"credited", "below_minimum"}
          /\ \A s \in Transfers \ {t} : deposits'[s] = deposits[s]
        BY <1>0a, <1>4 DEF CreditDeposit
    <2>2. /\ Arrived' = Arrived \ {t} /\ t \in Transfers \ (Arrived \ {t})
          /\ Arrived = (Arrived \ {t}) \cup {t} /\ Arrived \ {t} \in SUBSET Transfers
          /\ Present' = Present
        BY <2>1 DEF Arrived, Present
    <2>3. ValueOf((Arrived \ {t}) \cup {t}) = ValueOf(Arrived \ {t}) + valueOf[t]
        BY <2>2, ValueMore
    <2>4. payerOf[t] \in Users /\ valueOf[t] \in Nat /\ valueOf[t] \in Int
        BY SetsAssumption
    <2>5. /\ Share(payerOf[t])' = Share(payerOf[t]) + valueOf[t]
          /\ \A u \in Users \ {payerOf[t]} : Share(u)' = Share(u)
          /\ RelayedRowsKept
        BY <1>4, CreditDepositMoney
    <2>6. Liabilities' = Liabilities + valueOf[t]
        BY <1>0a, <2>4, <2>5, LiabilitiesMove
    <2>7. Sent' = Sent /\ AmountOf(Unreported)' = AmountOf(Unreported)
        BY <1>0a, <2>5, SentKept
    <2>8. ValueOf(Arrived') \in Nat
        BY <2>2, ValueOfType
    <2>9. ValueOf(Arrived) = ValueOf(Arrived') + valueOf[t] /\ ValueOf(Present') = ValueOf(Present)
        BY <2>2, <2>3
    <2> QED BY <1>0b, <1>0c, <2>4, <2>6, <2>7, <2>8, <2>9, BooksAreNext
<1>5. ASSUME NEW p \in Payouts, CommitRequest(p) PROVE BooksMatchWallet'
    <2>1. SharesKept /\ RelayedRowsKept
        BY <1>5, CommitRequestMoney
    <2>2. requests[p].stage = "open" /\ deposits' = Claimed(requests[p].dust)
        BY <1>5 DEF CommitRequest
    <2>3. \A t \in requests[p].dust : deposits[t] = "below_minimum"
        BY <2>2 DEF MoneyInv, ClaimsInv, DustIn
    <2>4. \A t \in Transfers : /\ deposits'[t] = "arrived" <=> deposits[t] = "arrived"
                               /\ deposits'[t] = "absent" <=> deposits[t] = "absent"
        BY <2>2, <2>3 DEF Claimed
    <2> QED BY <1>0, <2>1, <2>4, BooksKept
<1>6. ASSUME NEW p \in Payouts, CancelWithdrawal(p) PROVE BooksMatchWallet'
    <2>1. UNCHANGED deposits
        BY <1>6 DEF CancelWithdrawal, Close
    <2> QED BY <1>1, <1>6, <2>1, CancelWithdrawalMoney
<1>7. ASSUME NEW p \in Payouts,
             \/ Resolve(p)
             \/ \E k \in Workers : workers[k].payout = p /\ (ReportSent(k) \/ ReportFailed(k))
      PROVE  BooksMatchWallet'
    <2>1. CASE MarkWithdrawalFailed(p) /\ relays[p] = 0
        <3>1. UNCHANGED deposits
            BY <2>1 DEF MarkWithdrawalFailed, Close
        <3> QED BY <1>1, <2>1, <3>1, MarkWithdrawalFailedMoney
    <2>2. CASE MarkWithdrawalSent(p) /\ relays[p] > 0
        <3>1. /\ relays[p] = 1 /\ withdrawals[p].status = "sending" /\ withdrawals'[p].status = "sent"
              /\ withdrawals[p].user \in Users /\ withdrawals[p].amount \in Nat
              /\ withdrawals'[p].amount = withdrawals[p].amount
              /\ \A q \in Payouts \ {p} : withdrawals'[q] = withdrawals[q]
              /\ UNCHANGED <<relays, deposits>>
              /\ \A u \in Users : Share(u)' = IF u = withdrawals[p].user
                                             THEN Share(u) - withdrawals[p].amount ELSE Share(u)
            BY <2>2, MarkWithdrawalSentMoney
        <3>2. AmountOf(Unreported) = AmountOf(Unreported)' + withdrawals[p].amount /\ Sent' = Sent
            BY <1>0a, <3>1, SentReported
        <3>3. PICK u \in Users : u = withdrawals[p].user
            BY <3>1
        <3>4. PICK n \in Nat : n = withdrawals[p].amount
            BY <3>1
        <3>5. /\ Share(u)' = Share(u) - n /\ \A v \in Users \ {u} : Share(v)' = Share(v)
            BY <3>1, <3>3, <3>4
        <3>6. -n \in Int
            OBVIOUS
        <3>7. Share(u)' = Share(u) + (-n)
            <4>1. Share(u) \in Nat
                BY <1>0a, ShareType DEF TypeOK, Share
            <4> QED BY <3>5, <3>6, <4>1
        <3>8. Liabilities' = Liabilities + (-n)
            BY <1>0a, <3>5, <3>6, <3>7, LiabilitiesMove
        <3>9. AmountOf(Unreported)' \in Nat
            <4>1. AmountIn(withdrawals', Unreported') \in Nat
                BY <1>0a, AmountType DEF TypeOK, Unreported
            <4> QED BY <4>1 DEF AmountOf, AmountIn
        <3>10. Arrived' = Arrived /\ Present' = Present
            BY <3>1 DEF Arrived, Present
        <3> QED BY <1>0b, <1>0c, <3>2, <3>4, <3>8, <3>9, <3>10, BooksAreNext
    <2> QED BY <1>7, <2>1, <2>2, ReportMoney
<1>8. ASSUME NEW k \in Workers, ReportSent(k) \/ ReportFailed(k) PROVE BooksMatchWallet'
    <2>1. workers[k].payout \in Payouts
        BY <1>0a, <1>8, WorkerType DEF ReportSent, ReportFailed
    <2> QED BY <1>7, <1>8, <2>1
<1>9. ASSUME NEW a \in Admins, CommitApproval(a) \/ CommitRejection(a) PROVE BooksMatchWallet'
    <2>1. UNCHANGED deposits
        BY <1>9 DEF CommitApproval, CommitRejection
    <2> QED BY <1>1, <1>9, <2>1, DecisionMoney
<1>10. ASSUME NEW k \in Workers, NEW p \in Payouts, NEW heard \in BOOLEAN,
              ClaimWithdrawal(k, p, heard)
       PROVE  BooksMatchWallet'
    BY <1>1, <1>10, ClaimMoney
<1>11. ASSUME NEW k \in Workers, Relay(k) PROVE BooksMatchWallet'
    <2>1. workers[k].payout \in Payouts
        BY <1>0a, <1>11, WorkerType DEF Relay
    <2>2. PICK p \in Payouts : p = workers[k].payout
        BY <2>1
    <2>3. /\ relays[p] = 0 /\ relays'[p] = 1 /\ withdrawals[p].status = "sending"
          /\ \A q \in Payouts \ {p} : relays'[q] = relays[q]
          /\ UNCHANGED <<withdrawals, balances, deposits>>
        BY <1>11, <2>2, RelayMoney
    <2>4. /\ AmountOf(Unreported)' = AmountOf(Unreported) + withdrawals[p].amount
          /\ Sent' = Sent + withdrawals[p].amount
        BY <1>0a, <2>3, SentMore
    <2>5. Arrived' = Arrived /\ Present' = Present /\ SharesKept
        BY <2>3 DEF Arrived, Present, SharesKept, Share, ShareIn
    <2>6. Liabilities' = Liabilities
        BY <2>5, LiabilitiesKept DEF SharesKept
    <2>7. withdrawals[p].amount \in Nat
        BY <1>0a, SentRow
    <2> QED BY <1>0b, <1>0c, <2>4, <2>5, <2>6, <2>7, BooksAreNext
<1>12. ASSUME UNCHANGED vars PROVE BooksMatchWallet'
    BY <1>2, <1>12 DEF vars
<1> QED BY <1>2, <1>3, <1>4, <1>5, <1>6, <1>7, <1>8, <1>9, <1>10, <1>11, <1>12
    DEF Next, SetPayoutLimit, Ask, BeginPayout, BeginRefund, OpenTransaction, AbandonRequest,
        OnlyRequests, DecideRead, CountApprovals, AbandonDecision, NotRelayed, GiveUp,
        OnlyWorkers, Tick

\* As long as no relayed transfer is taken for a failure, the books and the
\* wallet differ by nothing but transfers not recorded yet and payouts relayed
\* but not reported yet, whatever interleaves, on either database: solvency()
\* never finds a piconero too many or too few for another reason.
THEOREM BooksMatch ==
    ASSUME ~LateRelay
    PROVE  Spec => []BooksMatchWallet
<1>1. Init => MoneyInv /\ BooksMatchWallet
    BY MoneyInit, BooksStart
<1>2. MoneyInv /\ BooksMatchWallet /\ [Next]_vars => MoneyInv' /\ BooksMatchWallet'
    BY MoneyStep, WalletStep
<1> QED BY <1>1, <1>2, PTL DEF Spec

-----------------------------------------------------------------------------
(* The promise: Payouts implements Remittance *)

\* What Remittance sees of a state: what each account is owed, and each payout.
StateSeen(status, n) ==
    IF status = "none" THEN "unasked"
    ELSE IF n > 0 THEN "paid"
    ELSE IF status \in OpenStatus THEN "waiting"
    ELSE "lapsed"
OwedAll == [u \in Users |-> Owed(u)]
Seen == [p \in Payouts |-> [state |-> StateSeen(withdrawals[p].status, relays[p]),
                            user |-> withdrawals[p].user, amount |-> withdrawals[p].amount]]

LEMMA States ==
    ASSUME NEW status, NEW n \in Nat
    PROVE  /\ StateSeen("none", n) = "unasked"
           /\ status # "none" /\ n > 0 => StateSeen(status, n) = "paid"
           /\ status \in OpenStatus /\ n = 0 => StateSeen(status, n) = "waiting"
           /\ status \in ClosedStatus /\ n = 0 => StateSeen(status, n) = "lapsed"
BY DEF StateSeen, OpenStatus, ClosedStatus

LEMMA NothingSeen ==
    ASSUME OwedAll' = OwedAll, Seen' = Seen
    PROVE  UNCHANGED Promise!vars
BY DEF Promise!vars, OwedAll, Owed, Share, ShareIn, DustIn, UnreportedOf, Seen, StateSeen,
       PromiseState, Dust

LEMMA ReceiveSeen ==
    ASSUME NEW u \in Users, OwedAll' = [OwedAll EXCEPT ![u] = OwedAll'[u]],
           OwedAll'[u] > OwedAll[u], Seen' = Seen
    PROVE  Promise!Next
<1>1. Promise!Receive(u)
    BY DEF Promise!Receive, OwedAll, Owed, Share, ShareIn, DustIn, UnreportedOf, Seen, StateSeen,
           PromiseState, Dust
<1> QED BY <1>1 DEF Promise!Next

LEMMA InstructSeen ==
    ASSUME NEW p \in Payouts, NEW u \in Users, NEW n \in 1..OwedAll[u],
           Seen[p].state = "unasked", OwedAll' = OwedAll,
           Seen' = [Seen EXCEPT ![p] = [state |-> "waiting", user |-> u, amount |-> n]]
    PROVE  Promise!Next
<1>1. Promise!Instruct(p, u)
    BY DEF Promise!Instruct, Promise!Unasked, OwedAll, Owed, Share, ShareIn, DustIn, UnreportedOf,
           Seen, StateSeen, PromiseState, Dust
<1> QED BY <1>1 DEF Promise!Next

LEMMA PaySeen ==
    ASSUME NEW p \in Payouts, Seen[p].state = "waiting",
           Seen' = [Seen EXCEPT ![p].state = "paid"],
           OwedAll' = [OwedAll EXCEPT ![Seen[p].user] = @ - Seen[p].amount]
    PROVE  Promise!Next
<1>1. Promise!Pay(p)
    BY DEF Promise!Pay, Promise!Decide, OwedAll, Owed, Share, ShareIn, DustIn, UnreportedOf,
           Seen, StateSeen, PromiseState, Dust
<1> QED BY <1>1 DEF Promise!Next

LEMMA LapseSeen ==
    ASSUME NEW p \in Payouts, Seen[p].state = "waiting",
           Seen' = [Seen EXCEPT ![p].state = "lapsed"], OwedAll' = OwedAll
    PROVE  Promise!Next
<1>1. Promise!Lapse(p)
    BY DEF Promise!Lapse, Promise!Decide, OwedAll, Owed, Share, ShareIn, DustIn, UnreportedOf,
           Seen, StateSeen, PromiseState, Dust
<1> QED BY <1>1 DEF Promise!Next

\* Nothing is owed less because money moved between the totals of an account.
LEMMA OwedKept ==
    ASSUME MoneyInv, TypeOK', SharesKept, RelayedRowsKept
    PROVE  OwedAll' = OwedAll
<1>1. \A u : AmountOf(UnreportedOf(u))' = AmountOf(UnreportedOf(u))
    BY SentKept
<1>2. \A u \in Users : Owed(u)' = Owed(u)
    BY <1>1 DEF Owed, SharesKept
<1> QED BY <1>2 DEF OwedAll

\* Rows that stay in the same statuses look the same.
LEMMA SeenKept ==
    ASSUME MoneyInv, UNCHANGED relays,
           \A p \in Payouts :
              \/ withdrawals'[p] = withdrawals[p]
              \/ /\ withdrawals'[p].user = withdrawals[p].user
                 /\ withdrawals'[p].amount = withdrawals[p].amount
                 /\ \/ withdrawals[p].status \in OpenStatus /\ withdrawals'[p].status \in OpenStatus
                    \/ /\ relays[p] > 0
                       /\ withdrawals[p].status # "none" /\ withdrawals'[p].status # "none"
    PROVE  Seen' = Seen
<1>1. ASSUME NEW p \in Payouts
      PROVE  /\ StateSeen(withdrawals'[p].status, relays[p]) = StateSeen(withdrawals[p].status, relays[p])
             /\ withdrawals'[p].user = withdrawals[p].user
             /\ withdrawals'[p].amount = withdrawals[p].amount
    BY DEF StateSeen, OpenStatus
<1> QED BY <1>1 DEF Seen

\* A row that is closed without having left the wallet lapses.
LEMMA SeenLapsed ==
    ASSUME MoneyInv, NEW p \in Payouts, UNCHANGED relays, relays[p] = 0,
           withdrawals[p].status \in OpenStatus, withdrawals'[p].status \in ClosedStatus,
           withdrawals'[p].user = withdrawals[p].user,
           withdrawals'[p].amount = withdrawals[p].amount,
           \A q \in Payouts \ {p} : withdrawals'[q] = withdrawals[q]
    PROVE  Seen[p].state = "waiting" /\ Seen' = [Seen EXCEPT ![p].state = "lapsed"]
<1>1. /\ StateSeen(withdrawals[p].status, relays[p]) = "waiting"
      /\ StateSeen(withdrawals'[p].status, relays[p]) = "lapsed"
    BY States
<1>2. Seen[p].state = "waiting"
    BY <1>1 DEF Seen
<1>3. Seen' = [q \in Payouts |-> [state |-> StateSeen(withdrawals'[q].status, relays[q]),
                            user |-> withdrawals'[q].user, amount |-> withdrawals'[q].amount]]
    BY DEF Seen
<1>4. Seen' = [Seen EXCEPT ![p].state = "lapsed"]
    BY <1>1, <1>3 DEF Seen
<1> QED BY <1>2, <1>4

LEMMA CloseSeen ==
    ASSUME MoneyInv, NEW p \in Payouts, NEW from \in SUBSET OpenStatus, NEW to \in ClosedStatus,
           NEW STATE moves, Close(p, from, to, moves), relays[p] = 0, OwedAll' = OwedAll
    PROVE  Promise!Next
<1>1. TypeOK
    BY DEF MoneyInv, RelayInv, BaseInv, TypeInv
<1>2. /\ withdrawals[p].status \in from /\ withdrawals'[p].status = to
      /\ \A q \in Payouts \ {p} : withdrawals'[q] = withdrawals[q]
      /\ UNCHANGED relays /\ withdrawals[p].status # "none"
    BY <1>1, CloseRows
<1>3. withdrawals[p] \in [status : OpenStatus \cup ClosedStatus, user : Users, amount : Nat,
                          at : Nat, decidedBy : Admins \cup {None}]
    BY <1>1, <1>2 DEF TypeOK, Row, NoRow
<1>4. withdrawals'[p].user = withdrawals[p].user /\ withdrawals'[p].amount = withdrawals[p].amount
    BY <1>1, <1>3 DEF Close, TypeOK
<1>5. Seen[p].state = "waiting" /\ Seen' = [Seen EXCEPT ![p].state = "lapsed"]
    BY <1>2, <1>4, SeenLapsed
<1> QED BY <1>5, LapseSeen

LEMMA RelayPromise ==
    ASSUME MoneyInv, MoneyInv', NEW k \in Workers, Relay(k)
    PROVE  Promise!Next
<1>1. TypeOK /\ withdrawals \in [Payouts -> Row] /\ balances \in [Users -> Account]
    BY DEF MoneyInv, RelayInv, BaseInv, TypeInv, TypeOK
<1>2. workers[k].payout \in Payouts
    BY <1>1, WorkerType DEF Relay
<1>3. PICK p \in Payouts : p = workers[k].payout
    BY <1>2
<1>4. /\ relays[p] = 0 /\ relays'[p] = 1 /\ withdrawals[p].status = "sending"
      /\ \A q \in Payouts \ {p} : relays'[q] = relays[q]
      /\ UNCHANGED <<withdrawals, balances, deposits>>
    BY <1>3, RelayMoney
<1>5. withdrawals[p].status # "none" /\ withdrawals[p].status \in OpenStatus
    BY <1>4 DEF OpenStatus
<1>6. PICK u \in Users : u = withdrawals[p].user
    BY <1>1, <1>5, RowType
<1>7. PICK n \in Nat : n = withdrawals[p].amount
    BY <1>1, <1>5, RowType
<1>8. Unreported' = Unreported \cup {p} /\ p \notin Unreported
    BY <1>4, SentMore DEF MoneyInv, RelayInv, BaseInv, TypeInv
<1>9. /\ UnreportedOf(u)' = UnreportedOf(u) \cup {p} /\ p \notin UnreportedOf(u)
      /\ \A v \in Users \ {u} : UnreportedOf(v)' = UnreportedOf(v)
      /\ \A v \in Users : UnreportedOf(v) \in SUBSET Payouts
    BY <1>4, <1>6, <1>8 DEF UnreportedOf, Unreported
<1>10. AmountIn(withdrawals, UnreportedOf(u) \cup {p}) = AmountIn(withdrawals, UnreportedOf(u)) + n
    BY <1>1, <1>7, <1>9, AmountMore
<1>11. AmountOf(UnreportedOf(u))' = AmountOf(UnreportedOf(u)) + n
    BY <1>4, <1>9, <1>10 DEF AmountOf, AmountIn
<1>12. \A v \in Users \ {u} : AmountOf(UnreportedOf(v))' = AmountOf(UnreportedOf(v))
    BY <1>4, <1>9 DEF AmountOf
<1>13. \A v \in Users : Share(v)' = Share(v) /\ Share(v) \in Nat
    BY <1>1, <1>4, ShareType DEF Share, ShareIn
<1>14. AmountOf(UnreportedOf(u)) \in Nat
    BY <1>1, <1>9, AmountType DEF AmountOf, AmountIn
<1>15. Owed(u)' = Owed(u) - n /\ \A v \in Users \ {u} : Owed(v)' = Owed(v)
    BY <1>11, <1>12, <1>13, <1>14 DEF Owed
<1>16. Seen[p].user = u /\ Seen[p].amount = n
    BY <1>6, <1>7 DEF Seen
<1>17. OwedAll' = [OwedAll EXCEPT ![Seen[p].user] = @ - Seen[p].amount]
    BY <1>15, <1>16 DEF OwedAll
<1>18. /\ StateSeen(withdrawals[p].status, relays[p]) = "waiting"
       /\ StateSeen(withdrawals[p].status, relays'[p]) = "paid"
    BY <1>4, <1>5, States
<1>19. Seen' = [q \in Payouts |-> [state |-> StateSeen(withdrawals[q].status, relays'[q]),
                            user |-> withdrawals[q].user, amount |-> withdrawals[q].amount]]
    BY <1>4 DEF Seen
<1>20. Seen[p].state = "waiting" /\ Seen' = [Seen EXCEPT ![p].state = "paid"]
    BY <1>4, <1>18, <1>19 DEF Seen
<1> QED BY <1>17, <1>20, PaySeen

LEMMA ReportPromise ==
    ASSUME ~LateRelay, MoneyInv, MoneyInv', NEW p \in Payouts,
           \/ Resolve(p)
           \/ \E k \in Workers : workers[k].payout = p /\ (ReportSent(k) \/ ReportFailed(k))
    PROVE  Promise!Next \/ UNCHANGED Promise!vars
<1>1. /\ TypeOK /\ withdrawals \in [Payouts -> Row] /\ withdrawals' \in [Payouts -> Row]
      /\ TypeOK'
    BY DEF MoneyInv, RelayInv, BaseInv, TypeInv, TypeOK
<1>2. CASE MarkWithdrawalFailed(p) /\ relays[p] = 0
    <2>1. Close(p, ReportableStatus, "failed", ReturnHold(p))
        BY <1>2 DEF MarkWithdrawalFailed
    <2>2. ReportableStatus \in SUBSET OpenStatus /\ "failed" \in ClosedStatus
        BY DEF ReportableStatus, OpenStatus, ClosedStatus
    <2>3. OwedAll' = OwedAll
        BY <1>1, <1>2, MarkWithdrawalFailedMoney, OwedKept
    <2> QED BY <1>2, <2>1, <2>2, <2>3, CloseSeen
<1>3. CASE MarkWithdrawalSent(p) /\ relays[p] > 0
    <2>1. /\ relays[p] = 1 /\ withdrawals[p].status = "sending" /\ withdrawals'[p].status = "sent"
          /\ withdrawals[p].user \in Users /\ withdrawals[p].amount \in Nat
          /\ withdrawals'[p].user = withdrawals[p].user
          /\ withdrawals'[p].amount = withdrawals[p].amount
          /\ \A q \in Payouts \ {p} : withdrawals'[q] = withdrawals[q]
          /\ UNCHANGED <<relays, deposits>>
          /\ \A u \in Users : Share(u)' = IF u = withdrawals[p].user
                                         THEN Share(u) - withdrawals[p].amount ELSE Share(u)
        BY <1>3, MarkWithdrawalSentMoney
    <2>2. Unreported' = Unreported \ {p} /\ p \in Unreported /\ Unreported \in SUBSET Payouts
        BY <1>1, <2>1, SentReported DEF Unreported
    <2>3. PICK u \in Users : u = withdrawals[p].user
        BY <2>1
    <2>4. PICK n \in Nat : n = withdrawals[p].amount
        BY <2>1
    <2>5. \A q \in Payouts : withdrawals'[q].user = withdrawals[q].user
                             /\ withdrawals'[q].amount = withdrawals[q].amount
        BY <2>1
    <2>6. /\ UnreportedOf(u)' = UnreportedOf(u) \ {p} /\ p \in UnreportedOf(u)
          /\ \A v \in Users \ {u} : UnreportedOf(v)' = UnreportedOf(v)
          /\ \A v \in Users : UnreportedOf(v) \in SUBSET Payouts
        BY <2>2, <2>3, <2>5 DEF UnreportedOf
    <2>7. /\ (UnreportedOf(u) \ {p}) \cup {p} = UnreportedOf(u)
          /\ UnreportedOf(u) \ {p} \in SUBSET Payouts /\ p \in Payouts \ (UnreportedOf(u) \ {p})
        BY <2>6
    <2>8. AmountIn(withdrawals, UnreportedOf(u)) = AmountIn(withdrawals, UnreportedOf(u) \ {p}) + n
        BY <1>1, <2>4, <2>7, AmountMore
    <2>9. AmountIn(withdrawals, UnreportedOf(u) \ {p}) \in Nat
        BY <1>1, <2>7, AmountType
    <2>10. ASSUME NEW S \in SUBSET Payouts
           PROVE  AmountIn(withdrawals', S) = AmountIn(withdrawals, S)
        BY <2>5, AmountSame
    <2>11. AmountOf(UnreportedOf(u)) = AmountOf(UnreportedOf(u))' + n /\ AmountOf(UnreportedOf(u))' \in Nat
        <3>1. AmountOf(UnreportedOf(u))' = AmountIn(withdrawals', UnreportedOf(u) \ {p})
            BY <2>6 DEF AmountOf, AmountIn
        <3>2. AmountOf(UnreportedOf(u)) = AmountIn(withdrawals, UnreportedOf(u))
            BY DEF AmountOf, AmountIn
        <3> QED BY <2>7, <2>8, <2>9, <2>10, <3>1, <3>2
    <2>12. ASSUME NEW v \in Users \ {u}
           PROVE  AmountOf(UnreportedOf(v))' = AmountOf(UnreportedOf(v))
        <3>1. AmountOf(UnreportedOf(v))' = AmountIn(withdrawals', UnreportedOf(v))
            BY <2>6 DEF AmountOf, AmountIn
        <3>2. AmountOf(UnreportedOf(v)) = AmountIn(withdrawals, UnreportedOf(v))
            BY DEF AmountOf, AmountIn
        <3> QED BY <2>6, <2>10, <3>1, <3>2
    <2>13. Share(u)' = Share(u) - n /\ \A v \in Users \ {u} : Share(v)' = Share(v)
        BY <2>1, <2>3, <2>4
    <2>14. Share(u) \in Nat
        BY <1>1, ShareType DEF TypeOK, Share
    <2>15. \A v \in Users : Owed(v)' = Owed(v)
        BY <2>11, <2>12, <2>13, <2>14 DEF Owed
    <2>16. OwedAll' = OwedAll
        BY <2>15 DEF OwedAll
    <2>17. Seen' = Seen
        BY <2>1, SeenKept
    <2> QED BY <2>16, <2>17, NothingSeen
<1> QED BY <1>2, <1>3, ReportMoney

LEMMA CommitRequestPromise ==
    ASSUME MoneyInv, MoneyInv', NEW p \in Payouts, CommitRequest(p)
    PROVE  Promise!Next
<1> DEFINE r == requests[p]
<1>1. /\ TypeOK /\ TypeOK' /\ withdrawals \in [Payouts -> Row] /\ balances \in [Users -> Account]
    BY DEF MoneyInv, RelayInv, BaseInv, TypeInv, TypeOK
<1>2. /\ SharesKept /\ RelayedRowsKept /\ withdrawals[p].status = "none" /\ relays[p] = 0
      /\ r.user \in Users /\ r.amount \in 1..Share(r.user)
    BY CommitRequestMoney
<1>3. PICK u \in Users : u = r.user
    BY <1>2
<1>4. PICK n \in 1..Share(u) : n = r.amount
    BY <1>2, <1>3
<1>5. UnreportedOf(u) = {}
    BY <1>3 DEF CommitRequest, OpenOf, OpenStatus, UnreportedOf, Unreported
<1>6. AmountOf(UnreportedOf(u)) = 0
    <2>1. [q \in {} |-> withdrawals[q].amount] \in [{} -> Nat]
        OBVIOUS
    <2> QED BY <1>5, <2>1, TotalEmpty DEF AmountOf
<1>7. Share(u) \in Nat
    BY <1>1, ShareType DEF Share
<1>8. n \in 1..OwedAll[u]
    BY <1>4, <1>6, <1>7 DEF OwedAll, Owed
<1>9. OwedAll' = OwedAll
    BY <1>1, <1>2, OwedKept
<1>10. /\ withdrawals' = [withdrawals EXCEPT ![p] =
                [status |-> IF Automatic(r) THEN "queued" ELSE "approval_required",
                 user |-> r.user, amount |-> r.amount, at |-> r.at, decidedBy |-> None]]
       /\ UNCHANGED relays
    BY DEF CommitRequest
<1> HIDE DEF r
<1>11. /\ withdrawals'[p].status \in {"queued", "approval_required"}
       /\ withdrawals'[p].user = u /\ withdrawals'[p].amount = n
       /\ \A q \in Payouts \ {p} : withdrawals'[q] = withdrawals[q]
    BY <1>1, <1>3, <1>4, <1>10
<1>12. /\ StateSeen(withdrawals[p].status, relays[p]) = "unasked"
       /\ StateSeen(withdrawals'[p].status, relays[p]) = "waiting"
    <2>1. withdrawals'[p].status \in OpenStatus
        BY <1>11 DEF OpenStatus
    <2> QED BY <1>2, <2>1, States
<1>13. Seen' = [q \in Payouts |-> [state |-> StateSeen(withdrawals'[q].status, relays[q]),
                            user |-> withdrawals'[q].user, amount |-> withdrawals'[q].amount]]
    BY <1>10 DEF Seen
<1>14. Seen[p].state = "unasked" /\ Seen' = [Seen EXCEPT ![p] = [state |-> "waiting", user |-> u, amount |-> n]]
    BY <1>11, <1>12, <1>13, ZenonT(60) DEF Seen
<1> QED BY <1>8, <1>9, <1>14, InstructSeen

LEMMA CreditDepositPromise ==
    ASSUME MoneyInv, MoneyInv', NEW t \in Transfers, CreditDeposit(t)
    PROVE  Promise!Next
<1>1. /\ TypeOK /\ TypeOK' /\ balances \in [Users -> Account] /\ withdrawals \in [Payouts -> Row]
    BY DEF MoneyInv, RelayInv, BaseInv, TypeInv, TypeOK
<1>2. PICK u \in Users : u = payerOf[t]
    BY SetsAssumption
<1>3. PICK n \in Nat \ {0} : n = valueOf[t]
    BY SetsAssumption
<1>4. /\ Share(payerOf[t])' = Share(payerOf[t]) + valueOf[t]
      /\ \A v \in Users \ {payerOf[t]} : Share(v)' = Share(v)
      /\ RelayedRowsKept
    BY CreditDepositMoney
<1>5. \A v : AmountOf(UnreportedOf(v))' = AmountOf(UnreportedOf(v))
    BY <1>1, <1>4, SentKept
<1>6. Share(u)' = Share(u) + n /\ \A v \in Users \ {u} : Share(v)' = Share(v)
    BY <1>2, <1>3, <1>4
<1>7. Share(u) \in Nat /\ AmountOf(UnreportedOf(u)) \in Nat
    <2>1. AmountOf(UnreportedOf(u)) \in Nat
        BY <1>1, AmountOfType DEF UnreportedOf, Unreported
    <2> QED BY <1>1, <2>1, ShareType DEF Share
<1>8. Owed(u)' > Owed(u) /\ \A v \in Users \ {u} : Owed(v)' = Owed(v)
    BY <1>5, <1>6, <1>7 DEF Owed
<1>9. OwedAll' = [OwedAll EXCEPT ![u] = OwedAll'[u]] /\ OwedAll'[u] > OwedAll[u]
    BY <1>8 DEF OwedAll
<1>10. Seen' = Seen
    BY DEF CreditDeposit, Seen
<1> QED BY <1>9, <1>10, ReceiveSeen

\* An approval leaves the payout waiting; a refusal that finds it still parked
\* makes it lapse, and one that comes too late changes nothing the owner sees.
LEMMA DecisionPromise ==
    ASSUME MoneyInv, MoneyInv', NEW a \in Admins, CommitApproval(a) \/ CommitRejection(a)
    PROVE  Promise!Next \/ UNCHANGED Promise!vars
<1>1. /\ TypeOK /\ TypeOK' /\ withdrawals \in [Payouts -> Row]
      /\ decisions[a].stage # "none" /\ UNCHANGED relays
    BY DEF CommitApproval, CommitRejection, MoneyInv, RelayInv, BaseInv, TypeInv, TypeOK
<1>2. OwedAll' = OwedAll
    BY <1>1, DecisionMoney, OwedKept
<1>3. PICK p \in Payouts : p = decisions[a].payout
    BY <1>1, DecisionType
<1>4. CASE UNCHANGED withdrawals
    BY <1>1, <1>2, <1>4, NothingSeen DEF Seen
<1>5. ASSUME NEW status \in {"queued", "rejected"}, Settle(p, status, a),
             withdrawals[p].status = "approval_required"
      PROVE  /\ withdrawals'[p].status = status
             /\ withdrawals'[p].user = withdrawals[p].user
             /\ withdrawals'[p].amount = withdrawals[p].amount
             /\ \A q \in Payouts \ {p} : withdrawals'[q] = withdrawals[q]
             /\ relays[p] = 0
    <2>1. withdrawals[p] \in [status : OpenStatus \cup ClosedStatus, user : Users, amount : Nat,
                              at : Nat, decidedBy : Admins \cup {None}]
        BY <1>1, <1>5 DEF Row, NoRow
    <2>2. withdrawals' = [withdrawals EXCEPT ![p].status = status, ![p].decidedBy = a]
        BY <1>5 DEF Settle
    <2>3. relays[p] = 0
        BY <1>5, RelaysType DEF MoneyInv, RelayInv, WorkerInv
    <2> QED BY <1>1, <2>1, <2>2, <2>3
<1>6. CASE Settle(p, "queued", a) /\ withdrawals[p].status = "approval_required"
    <2>1. /\ withdrawals'[p].status = "queued"
          /\ withdrawals'[p].user = withdrawals[p].user
          /\ withdrawals'[p].amount = withdrawals[p].amount
          /\ \A q \in Payouts \ {p} : withdrawals'[q] = withdrawals[q]
        BY <1>5, <1>6
    <2>2. withdrawals[p].status \in OpenStatus /\ withdrawals'[p].status \in OpenStatus
        BY <1>6, <2>1 DEF OpenStatus
    <2>3. Seen' = Seen
        BY <1>1, <2>1, <2>2, SeenKept
    <2> QED BY <1>2, <2>3, NothingSeen
<1>7. CASE Settle(p, "rejected", a) /\ withdrawals[p].status = "approval_required"
    <2>1. /\ withdrawals'[p].status = "rejected" /\ relays[p] = 0
          /\ withdrawals'[p].user = withdrawals[p].user
          /\ withdrawals'[p].amount = withdrawals[p].amount
          /\ \A q \in Payouts \ {p} : withdrawals'[q] = withdrawals[q]
        BY <1>5, <1>7
    <2>2. withdrawals[p].status \in OpenStatus /\ withdrawals'[p].status \in ClosedStatus
        BY <1>7, <2>1 DEF OpenStatus, ClosedStatus
    <2>3. Seen[p].state = "waiting" /\ Seen' = [Seen EXCEPT ![p].state = "lapsed"]
        BY <1>1, <2>1, <2>2, SeenLapsed
    <2> QED BY <1>2, <2>3, LapseSeen
<1>8. \/ UNCHANGED withdrawals
      \/ withdrawals[p].status = "approval_required" /\ (Settle(p, "queued", a) \/ Settle(p, "rejected", a))
    BY <1>3 DEF CommitApproval, CommitRejection, Settle
<1> QED BY <1>4, <1>6, <1>7, <1>8

LEMMA PromiseStep ==
    ASSUME ~LateRelay
    PROVE  MoneyInv /\ MoneyInv' /\ [Next]_vars => [Promise!Next]_(Promise!vars)
<1> SUFFICES ASSUME MoneyInv, MoneyInv', [Next]_vars
             PROVE  Promise!Next \/ UNCHANGED Promise!vars
    OBVIOUS
<1>1. /\ TypeOK /\ TypeOK' /\ withdrawals \in [Payouts -> Row]
      /\ deposits \in [Transfers -> {"absent", "arrived", "below_minimum", "credited"}]
    BY DEF MoneyInv, RelayInv, BaseInv, TypeInv, TypeOK
<1>2. CASE UNCHANGED <<balances, deposits, withdrawals, relays>>
    <2>1. SharesKept /\ RelayedRowsKept
        BY <1>2 DEF SharesKept, Share, ShareIn, RelayedRowsKept
    <2>2. OwedAll' = OwedAll
        BY <1>1, <2>1, OwedKept
    <2>3. Seen' = Seen
        BY <1>2 DEF Seen
    <2> QED BY <2>2, <2>3, NothingSeen
<1>3. ASSUME NEW t \in Transfers, Arrive(t) PROVE UNCHANGED Promise!vars
    <2>1. \A u \in Users : DustIn(deposits', u) = DustIn(deposits, u)
        BY <1>1, <1>3 DEF Arrive, DustIn
    <2>2. UNCHANGED <<balances, withdrawals, relays>>
        BY <1>3 DEF Arrive
    <2>3. SharesKept /\ RelayedRowsKept
        BY <2>1, <2>2 DEF SharesKept, Share, ShareIn, RelayedRowsKept
    <2>4. OwedAll' = OwedAll
        BY <1>1, <2>3, OwedKept
    <2>5. Seen' = Seen
        BY <2>2 DEF Seen
    <2> QED BY <2>4, <2>5, NothingSeen
<1>4. ASSUME NEW p \in Payouts, CancelWithdrawal(p) PROVE Promise!Next
    <2>1. /\ Close(p, CancellableStatus, "cancelled", ReturnHold(p))
          /\ CancellableStatus \in SUBSET OpenStatus /\ "cancelled" \in ClosedStatus
        BY <1>4 DEF CancelWithdrawal, CancellableStatus, OpenStatus, ClosedStatus
    <2>2. SharesKept /\ RelayedRowsKept /\ relays[p] = 0
        BY <1>4, CancelWithdrawalMoney
    <2>3. OwedAll' = OwedAll
        BY <1>1, <2>2, OwedKept
    <2> QED BY <2>1, <2>2, <2>3, CloseSeen
<1>5. ASSUME NEW k \in Workers, NEW p \in Payouts, NEW heard \in BOOLEAN,
             ClaimWithdrawal(k, p, heard)
      PROVE  UNCHANGED Promise!vars
    <2>1. /\ withdrawals[p].status = "queued" /\ withdrawals'[p].status = "sending"
          /\ withdrawals'[p].user = withdrawals[p].user
          /\ withdrawals'[p].amount = withdrawals[p].amount
          /\ \A q \in Payouts \ {p} : withdrawals'[q] = withdrawals[q]
          /\ UNCHANGED relays
        BY <1>1, <1>5, ClaimRows
    <2>2. withdrawals[p].status \in OpenStatus /\ withdrawals'[p].status \in OpenStatus
        BY <2>1 DEF OpenStatus
    <2>3. Seen' = Seen
        BY <2>1, <2>2, SeenKept
    <2>4. OwedAll' = OwedAll
        BY <1>1, <1>5, ClaimMoney, OwedKept
    <2> QED BY <2>3, <2>4, NothingSeen
<1>6. ASSUME NEW k \in Workers, ReportSent(k) \/ ReportFailed(k)
      PROVE  Promise!Next \/ UNCHANGED Promise!vars
    <2>1. PICK p \in Payouts : p = workers[k].payout
        BY <1>1, <1>6, WorkerType DEF ReportSent, ReportFailed
    <2> QED BY <1>6, <2>1, ReportPromise
<1>7. ASSUME NEW p \in Payouts, Resolve(p)
      PROVE  Promise!Next \/ UNCHANGED Promise!vars
    BY <1>7, ReportPromise
<1>8. \/ UNCHANGED <<balances, deposits, withdrawals, relays>>
      \/ \E t \in Transfers : Arrive(t) \/ CreditDeposit(t)
      \/ \E p \in Payouts : CommitRequest(p) \/ CancelWithdrawal(p) \/ Resolve(p)
      \/ \E a \in Admins : CommitApproval(a) \/ CommitRejection(a)
      \/ \E k \in Workers, p \in Payouts, heard \in BOOLEAN : ClaimWithdrawal(k, p, heard)
      \/ \E k \in Workers : Relay(k) \/ ReportSent(k) \/ ReportFailed(k)
    BY ZenonT(60) DEF Next, vars, SetPayoutLimit, Ask, BeginPayout, BeginRefund, OpenTransaction,
           AbandonRequest, OnlyRequests, DecideRead, CountApprovals, AbandonDecision,
           NotRelayed, GiveUp, OnlyWorkers, Tick
<1> QED BY <1>2, <1>3, <1>4, <1>5, <1>6, <1>7, <1>8, CommitRequestPromise,
           CreditDepositPromise, DecisionPromise, RelayPromise

LEMMA PromiseInit == Init => Promise!Init
<1> SUFFICES ASSUME Init PROVE Promise!Init
    OBVIOUS
<1>1. ASSUME NEW u \in Users PROVE OwedAll[u] = 0
    <2>1. DustIn(deposits, u) = {} /\ UnreportedOf(u) = {}
        BY DEF Init, DustIn, UnreportedOf, Unreported
    <2>2. balances[u].available = 0 /\ balances[u].held = 0
        BY DEF Init, EmptyAccount
    <2>3. [t \in {} |-> valueOf[t]] \in [{} -> Nat] /\ [p \in {} |-> withdrawals[p].amount] \in [{} -> Nat]
        OBVIOUS
    <2>4. ValueOf({}) = 0 /\ AmountOf({}) = 0
        BY <2>3, TotalEmpty DEF ValueOf, AmountOf
    <2>5. Share(u) = 0
        BY <2>1, <2>2, <2>4 DEF Share, ShareIn
    <2> QED BY <2>1, <2>4, <2>5 DEF OwedAll, Owed
<1>2. OwedAll = [u \in Users |-> 0]
    BY <1>1 DEF OwedAll
<1>3. \A p \in Payouts : Seen[p].state = "unasked"
    BY States DEF Init, NoRow, Seen, StateSeen
<1> QED BY <1>2, <1>3 DEF Promise!Init, Promise!Unasked, OwedAll, Owed, Share, ShareIn, DustIn,
           UnreportedOf, Seen, StateSeen, PromiseState, Dust

\* As long as no relayed transfer is taken for a failure, the tier keeps the
\* promise Remittance states, on either database: what an account is owed grows
\* with what arrives for it, falls by a payout's amount when the wallet relays
\* that payout and at no other time, an instruction never exceeds it, and a
\* payout ends once, paid or lapsed.
THEOREM KeepsThePromise ==
    ASSUME ~LateRelay
    PROVE  Spec => KeepsPromise
<1>1. Init => MoneyInv /\ Promise!Init
    BY MoneyInit, PromiseInit
<1>2. MoneyInv /\ [Next]_vars => MoneyInv'
    BY MoneyStep
<1>3. MoneyInv /\ MoneyInv' /\ [Next]_vars => [Promise!Next]_(Promise!vars)
    BY PromiseStep
<1> QED BY <1>1, <1>2, <1>3, PTL DEF Spec, KeepsPromise, Promise!Spec

-----------------------------------------------------------------------------
(* The sums over a window *)

LEMMA AmountPart ==
    ASSUME NEW table \in [Payouts -> Row], NEW T \in SUBSET Payouts, NEW S \in SUBSET T
    PROVE  AmountIn(table, S) <= AmountIn(table, T)
<1> DEFINE f == [p \in T |-> table[p].amount]
<1>1. IsFiniteSet(T)
    BY SetsAssumption, FS_Subset
<1>2. \A p \in Payouts : table[p].amount \in Nat
    BY DEF Row, NoRow
<1>3. f \in [T -> Nat]
    BY <1>2
<1>4. [p \in S |-> f[p]] = [p \in S |-> table[p].amount]
    OBVIOUS
<1> HIDE DEF f
<1>5. Total([p \in S |-> f[p]]) <= Total(f)
    BY <1>1, <1>3, TotalPart
<1> QED BY <1>4, <1>5 DEF AmountIn, f

\* Recent and AutomaticOutflow, of any table at any time.
RecentIn(table, u, t) ==
    {p \in Payouts : table[p].user = u /\ table[p].status \in Released /\ table[p].at > t - Day}
OutflowIn(table, u, t) == {p \in RecentIn(table, u, t) : table[p].decidedBy = None}

LEMMA WindowsAre ==
    ASSUME NEW u, NEW t
    PROVE  /\ AmountOf(Recent(u, t)) = AmountIn(withdrawals, RecentIn(withdrawals, u, t))
           /\ AmountOf(AutomaticOutflow(u)) = AmountIn(withdrawals, OutflowIn(withdrawals, u, now))
<1>1. Recent(u, t) = RecentIn(withdrawals, u, t)
    BY DEF Recent, RecentIn, CountedStatus, Released
<1>2. AutomaticOutflow(u) = OutflowIn(withdrawals, u, now)
    BY DEF AutomaticOutflow, OutflowIn, RecentIn, Released
<1> QED BY <1>1, <1>2 DEF AmountOf, AmountIn

-----------------------------------------------------------------------------
(* The inductive invariant *)

\* What left each account by itself is within some ceiling.
OutflowInv ==
    \A u \in Users : \E limit \in Limits :
        AmountIn(withdrawals, OutflowIn(withdrawals, u, now)) <= limit

\* The sum a request has read still covers the rows it was taken over: nothing
\* is added to them before the request commits or gives up.
AskInv ==
    \A p \in Payouts :
        /\ requests[p].stage # "none" => requests[p].limit \in Limits
        /\ requests[p].stage = "open" =>
              /\ requests[p].at <= now
              /\ AmountIn(withdrawals, RecentIn(withdrawals, requests[p].user, requests[p].at))
                    <= requests[p].recent

\* Whoever counted still has it right: a parked row lacks signatures, and no row
\* inherits any.
ParkInv ==
    /\ \A p \in Payouts :
          /\ withdrawals[p].status = "none" => approvals[p] = {}
          /\ withdrawals[p].status = "approval_required" => Cardinality(approvals[p]) < Required(p)
    /\ \A a \in Admins : decisions[a].stage = "counted" =>
          decisions[a].count = Cardinality(approvals[decisions[a].payout] \cup {a})

DueInv == BooksInv /\ OutflowInv /\ AskInv /\ ParkInv

LEMMA DueTypes ==
    ASSUME BooksInv
    PROVE  /\ TypeOK /\ withdrawals \in [Payouts -> Row] /\ requests \in [Payouts -> Request]
           /\ decisions \in [Admins -> Decision] /\ approvals \in [Payouts -> SUBSET Admins]
           /\ limits \in [Users -> Limits] /\ now \in Nat /\ Day \in Nat
           /\ \A p \in Payouts : withdrawals[p].at \in Nat /\ withdrawals[p].amount \in Nat
<1>1. TypeOK
    BY DEF BooksInv, BaseInv, TypeInv
<1>2. \A p \in Payouts : withdrawals[p].at \in Nat /\ withdrawals[p].amount \in Nat
    BY <1>1 DEF TypeOK, Row, NoRow
<1>3. Day \in Nat
    BY NumbersAssumption
<1> QED BY <1>1, <1>2, <1>3 DEF TypeOK

LEMMA NothingCounted ==
    ASSUME NEW table
    PROVE  AmountIn(table, {}) = 0
<1>1. [p \in {} |-> table[p].amount] \in [{} -> Nat]
    OBVIOUS
<1> QED BY <1>1, TotalEmpty DEF AmountIn

LEMMA DueInit == Init => DueInv
<1> SUFFICES ASSUME Init PROVE DueInv
    OBVIOUS
<1>1. BooksInv
    BY BooksInit
<1>2. \A u \in Users : OutflowIn(withdrawals, u, now) = {}
    BY DEF Init, NoRow, OutflowIn, RecentIn, Released
<1>3. DefaultLimit \in Limits /\ DefaultLimit >= 0
    BY NumbersAssumption
<1>4. OutflowInv
    BY <1>2, <1>3, NothingCounted DEF OutflowInv
<1>5. AskInv /\ ParkInv
    BY DEF Init, NoRow, NoRequest, NoDecision, AskInv, ParkInv
<1> QED BY <1>1, <1>4, <1>5 DEF DueInv

-----------------------------------------------------------------------------
(* Frames *)

\* Rows that take nothing more from the ceiling than they took before.
KeptRow(p) ==
    \/ withdrawals'[p] = withdrawals[p]
    \/ withdrawals'[p].status \notin Released
    \/ withdrawals'[p].decidedBy # None
    \/ /\ withdrawals[p].status \in Released /\ withdrawals'[p].status \in Released
       /\ withdrawals'[p].user = withdrawals[p].user
       /\ withdrawals'[p].amount = withdrawals[p].amount
       /\ withdrawals'[p].at = withdrawals[p].at
       /\ withdrawals'[p].decidedBy = withdrawals[p].decidedBy

LEMMA OutflowLess ==
    ASSUME BooksInv, BooksInv', now' >= now, NEW u \in Users,
           \A p \in Payouts : KeptRow(p) \/ withdrawals'[p].user # u
    PROVE  AmountIn(withdrawals', OutflowIn(withdrawals', u, now'))
              <= AmountIn(withdrawals, OutflowIn(withdrawals, u, now))
<1> DEFINE S == OutflowIn(withdrawals', u, now')
           T == OutflowIn(withdrawals, u, now)
<1>1. /\ withdrawals \in [Payouts -> Row] /\ now \in Nat /\ now' \in Nat /\ Day \in Nat
      /\ \A p \in Payouts : withdrawals[p].at \in Nat /\ withdrawals'[p].at \in Nat
    <2>1. TypeOK /\ TypeOK'
        BY DEF BooksInv, BaseInv, TypeInv
    <2>2. Day \in Nat
        BY NumbersAssumption
    <2>3. \A p \in Payouts : withdrawals[p] \in Row /\ withdrawals'[p] \in Row
        BY <2>1 DEF TypeOK
    <2>4. \A r \in Row : r.at \in Nat
        BY DEF Row, NoRow
    <2> QED BY <2>1, <2>2, <2>3, <2>4 DEF TypeOK
<1>2. ASSUME NEW p \in S
      PROVE  p \in T /\ withdrawals'[p].amount = withdrawals[p].amount
    <2>1. /\ p \in Payouts /\ withdrawals'[p].user = u /\ withdrawals'[p].status \in Released
          /\ withdrawals'[p].at > now' - Day /\ withdrawals'[p].decidedBy = None
        BY DEF OutflowIn, RecentIn
    <2>2. /\ withdrawals[p].user = u /\ withdrawals[p].status \in Released
          /\ withdrawals[p].at = withdrawals'[p].at /\ withdrawals[p].decidedBy = None
          /\ withdrawals'[p].amount = withdrawals[p].amount
        BY <2>1 DEF KeptRow
    <2>3. withdrawals[p].at > now - Day
        BY <1>1, <2>1, <2>2
    <2> QED BY <2>1, <2>2, <2>3 DEF OutflowIn, RecentIn
<1>3. S \in SUBSET T /\ T \in SUBSET Payouts
    BY <1>2 DEF OutflowIn, RecentIn
<1>4. AmountIn(withdrawals', S) = AmountIn(withdrawals, S)
    BY <1>2, AmountSame
<1>5. AmountIn(withdrawals, S) <= AmountIn(withdrawals, T)
    BY <1>1, <1>3, AmountPart
<1> QED BY <1>4, <1>5

LEMMA OutflowType ==
    ASSUME NEW table \in [Payouts -> Row], NEW u, NEW t
    PROVE  AmountIn(table, OutflowIn(table, u, t)) \in Nat
<1>1. OutflowIn(table, u, t) \in SUBSET Payouts
    BY DEF OutflowIn, RecentIn
<1> QED BY <1>1, AmountType

LEMMA OutflowKept ==
    ASSUME DueInv, BooksInv', now' >= now, \A p \in Payouts : KeptRow(p)
    PROVE  OutflowInv'
<1>1. BooksInv
    BY DEF DueInv
<1>2. ASSUME NEW u \in Users
      PROVE  \E limit \in Limits : AmountIn(withdrawals', OutflowIn(withdrawals', u, now')) <= limit
    <2>1. PICK limit \in Limits : AmountIn(withdrawals, OutflowIn(withdrawals, u, now)) <= limit
        BY DEF DueInv, OutflowInv
    <2>2. AmountIn(withdrawals', OutflowIn(withdrawals', u, now'))
              <= AmountIn(withdrawals, OutflowIn(withdrawals, u, now))
        BY <1>1, OutflowLess
    <2>3. /\ AmountIn(withdrawals, OutflowIn(withdrawals, u, now)) \in Nat
          /\ AmountIn(withdrawals', OutflowIn(withdrawals', u, now')) \in Nat /\ limit \in Nat
        <3>1. TypeOK /\ TypeOK'
            BY <1>1 DEF BooksInv, BaseInv, TypeInv
        <3> QED BY <3>1, OutflowType, NumbersAssumption DEF TypeOK
    <2>4. AmountIn(withdrawals', OutflowIn(withdrawals', u, now')) <= limit
        BY <2>1, <2>2, <2>3
    <2> QED BY <2>4
<1> QED BY <1>2 DEF OutflowInv

\* Rows that count for as much as they did in every window.
SameRecent(p) ==
    \/ withdrawals'[p] = withdrawals[p]
    \/ /\ withdrawals[p].status \in Released /\ withdrawals'[p].status \in Released
       /\ withdrawals'[p].user = withdrawals[p].user
       /\ withdrawals'[p].amount = withdrawals[p].amount
       /\ withdrawals'[p].at = withdrawals[p].at

LEMMA AskKept ==
    ASSUME DueInv, BooksInv', now' >= now,
           \A p \in Payouts : requests'[p] = requests[p] \/ requests'[p].stage = "none",
           \/ \A p \in Payouts : requests'[p].stage # "open"
           \/ \A p \in Payouts : SameRecent(p)
    PROVE  AskInv'
<1>1. /\ now \in Nat /\ now' \in Nat /\ requests \in [Payouts -> Request]
    BY DEF DueInv, BooksInv, BaseInv, TypeInv, TypeOK
<1>2. ASSUME NEW p \in Payouts, requests'[p].stage # "none"
      PROVE  requests'[p].limit \in Limits
    BY <1>2 DEF DueInv, AskInv
<1>3. ASSUME NEW p \in Payouts, requests'[p].stage = "open"
      PROVE  /\ requests'[p].at <= now'
             /\ AmountIn(withdrawals', RecentIn(withdrawals', requests'[p].user, requests'[p].at))
                    <= requests'[p].recent
    <2>1. /\ requests'[p] = requests[p] /\ requests[p].stage = "open"
          /\ \A q \in Payouts : SameRecent(q)
        BY <1>3
    <2>2. PICK u, t : u = requests[p].user /\ t = requests[p].at
        OBVIOUS
    <2>3. t <= now /\ AmountIn(withdrawals, RecentIn(withdrawals, u, t)) <= requests[p].recent
        BY <2>1, <2>2 DEF DueInv, AskInv
    <2>4. t \in Nat
        BY <1>1, <2>1, <2>2 DEF Request, NoRequest
    <2>5. RecentIn(withdrawals', u, t) = RecentIn(withdrawals, u, t)
        BY <2>1 DEF RecentIn, SameRecent
    <2>6. \A q \in Payouts : withdrawals'[q].amount = withdrawals[q].amount
        BY <2>1 DEF SameRecent
    <2>7. AmountIn(withdrawals', RecentIn(withdrawals, u, t)) = AmountIn(withdrawals, RecentIn(withdrawals, u, t))
        BY <2>6, AmountSame DEF RecentIn
    <2> QED BY <1>1, <2>1, <2>2, <2>3, <2>4, <2>5, <2>7
<1> QED BY <1>2, <1>3 DEF AskInv

LEMMA ParkKept ==
    ASSUME DueInv, UNCHANGED approvals,
           \A a \in Admins : decisions'[a] = decisions[a] \/ decisions'[a].stage # "counted",
           \A p \in Payouts : \/ withdrawals'[p] = withdrawals[p]
                              \/ withdrawals'[p].status \notin {"none", "approval_required"}
    PROVE  ParkInv'
<1>1. ASSUME NEW p \in Payouts
      PROVE  /\ withdrawals'[p].status = "none" => approvals'[p] = {}
             /\ withdrawals'[p].status = "approval_required" => Cardinality(approvals'[p]) < Required(p)'
    BY DEF DueInv, ParkInv, Required
<1>2. ASSUME NEW a \in Admins, decisions'[a].stage = "counted"
      PROVE  decisions'[a].count = Cardinality(approvals'[decisions'[a].payout] \cup {a})
    BY <1>2 DEF DueInv, ParkInv
<1> QED BY <1>1, <1>2 DEF ParkInv

-----------------------------------------------------------------------------
(* The steps that matter *)

\* The sum is taken over the rows that are there, as the request begins.
LEMMA OpenTransactionDue ==
    ASSUME DueInv, NEW p \in Payouts, NEW STATE n, NEW STATE dust, OpenTransaction(p, n, dust)
    PROVE  AskInv'
<1>1. /\ now \in Nat /\ requests \in [Payouts -> Request] /\ withdrawals \in [Payouts -> Row]
    BY DueTypes DEF DueInv
<1>2. /\ requests[p].stage = "asked"
      /\ requests' = [requests EXCEPT
            ![p].stage = "open", ![p].amount = n, ![p].dust = dust, ![p].at = now,
            ![p].recent = AmountOf(Recent(requests[p].user, now))]
      /\ UNCHANGED <<withdrawals, now>>
    BY DEF OpenTransaction, OnlyRequests
<1>2a. PICK u : u = requests[p].user
    OBVIOUS
<1>3. requests[p] \in [stage : {"asked", "open"}, user : Users, amount : Nat, limit : Nat,
                       dust : SUBSET Transfers, refund : BOOLEAN, at : Nat, recent : Nat]
    BY <1>2, RequestType, DueTypes DEF DueInv
<1>4. /\ requests'[p].limit = requests[p].limit /\ requests'[p].user = u
      /\ requests'[p].at = now
      /\ requests'[p].recent = AmountIn(withdrawals, RecentIn(withdrawals, u, now))
      /\ \A q \in Payouts \ {p} : requests'[q] = requests[q]
    BY <1>1, <1>2, <1>2a, <1>3, WindowsAre
<1>5. requests[p].limit \in Limits
    BY <1>2 DEF DueInv, AskInv
<1>6. AmountIn(withdrawals, RecentIn(withdrawals, u, now)) \in Nat
    <2>1. RecentIn(withdrawals, u, now) \in SUBSET Payouts
        BY DEF RecentIn
    <2> QED BY <1>1, <2>1, AmountType
<1>7. ASSUME NEW q \in Payouts
      PROVE  /\ requests'[q].stage # "none" => requests'[q].limit \in Limits
             /\ requests'[q].stage = "open" =>
                   /\ requests'[q].at <= now'
                   /\ AmountIn(withdrawals', RecentIn(withdrawals', requests'[q].user, requests'[q].at))
                         <= requests'[q].recent
    <2>1. CASE q = p
        BY <1>1, <1>2, <1>4, <1>5, <1>6, <2>1
    <2>2. CASE q # p
        <3>1. requests'[q] = requests[q]
            BY <1>4, <2>2
        <3> QED BY <1>2, <3>1 DEF DueInv, AskInv
    <2> QED BY <2>1, <2>2
<1> QED BY <1>7 DEF AskInv

\* A payout queued by itself fits under its ceiling together with everything
\* that left the account in the window.
LEMMA CommitRequestDue ==
    ASSUME DueInv, BooksInv', NEW p \in Payouts, CommitRequest(p)
    PROVE  OutflowInv' /\ AskInv' /\ ParkInv'
<1> DEFINE r == requests[p]
<1>1. /\ TypeOK /\ withdrawals \in [Payouts -> Row] /\ requests \in [Payouts -> Request]
      /\ now \in Nat /\ Day \in Nat
      /\ \A q \in Payouts : withdrawals[q].at \in Nat
    BY DueTypes DEF DueInv
<1>2. /\ r.stage = "open" /\ UNCHANGED <<now, approvals, decisions>>
      /\ withdrawals' = [withdrawals EXCEPT ![p] =
                [status |-> IF Automatic(r) THEN "queued" ELSE "approval_required",
                 user |-> r.user, amount |-> r.amount, at |-> r.at, decidedBy |-> None]]
      /\ requests' = [requests EXCEPT ![p] = NoRequest]
    BY DEF CommitRequest
<1>3. r \in [stage : {"asked", "open"}, user : Users, amount : Nat, limit : Nat,
             dust : SUBSET Transfers, refund : BOOLEAN, at : Nat, recent : Nat]
    BY <1>1, <1>2, RequestType
<1>4. PICK u \in Users : u = r.user
    BY <1>3
<1>5. PICK n \in Nat : n = r.amount
    BY <1>3
<1>6. PICK t \in Nat : t = r.at
    BY <1>3
<1>7. PICK recent \in Nat : recent = r.recent
    BY <1>3
<1>8. PICK limit \in Limits : limit = r.limit
    BY <1>2 DEF DueInv, AskInv
<1>9. t <= now /\ AmountIn(withdrawals, RecentIn(withdrawals, u, t)) <= recent
    BY <1>2, <1>4, <1>6, <1>7 DEF DueInv, AskInv
<1>10. withdrawals[p].status = "none" /\ approvals[p] = {}
    BY <1>2 DEF DueInv, BooksInv, BaseInv, RequestsAreNew, ParkInv
<1>11. Automatic(r) => n <= limit /\ recent + n <= limit
    BY <1>5, <1>7, <1>8 DEF Automatic
<1>12. /\ withdrawals'[p] = [status |-> IF Automatic(r) THEN "queued" ELSE "approval_required",
                             user |-> u, amount |-> n, at |-> t, decidedBy |-> None]
       /\ \A q \in Payouts \ {p} : withdrawals'[q] = withdrawals[q]
       /\ \A q \in Payouts \ {p} : requests'[q] = requests[q]
       /\ requests'[p] = NoRequest
    BY <1>1, <1>2, <1>4, <1>5, <1>6
<1>13. ASSUME NEW q \in Payouts PROVE requests'[q].stage # "open"
    BY <1>2, <1>12 DEF DueInv, BooksInv, Serial, NoRequest
<1> HIDE DEF r
<1>14. AskInv'
    <2>1. \A q \in Payouts : requests'[q] = requests[q] \/ requests'[q].stage = "none"
        BY <1>12 DEF NoRequest
    <2> QED BY <1>1, <1>2, <1>13, <2>1, AskKept
<1>15. ParkInv'
    <2>1. ASSUME NEW q \in Payouts
          PROVE  /\ withdrawals'[q].status = "none" => approvals'[q] = {}
                 /\ withdrawals'[q].status = "approval_required" => Cardinality(approvals'[q]) < Required(q)'
        <3>1. CASE q = p
            <4>1. Cardinality(approvals'[p]) = 0
                BY <1>2, <1>10, FS_EmptySet
            <4>2. Required(p)' \in {1, 2} /\ withdrawals'[p].status # "none"
                BY <1>12 DEF Required
            <4> QED BY <3>1, <4>1, <4>2
        <3>2. CASE q # p
            BY <1>2, <1>12, <3>2 DEF DueInv, ParkInv, Required
        <3> QED BY <3>1, <3>2
    <2> QED BY <1>2, <2>1 DEF DueInv, ParkInv
<1>16. CASE ~Automatic(r)
    <2>1. \A q \in Payouts : KeptRow(q)
        BY <1>12, <1>16 DEF KeptRow, Released
    <2> QED BY <1>1, <1>2, <1>14, <1>15, <2>1, OutflowKept
<1>17. CASE Automatic(r)
    <2> DEFINE S == OutflowIn(withdrawals', u, now)
               T == RecentIn(withdrawals, u, t)
    <2>1. T \in SUBSET Payouts /\ p \in Payouts \ T
        BY <1>10 DEF RecentIn, Released
    <2>2. ASSUME NEW q \in S PROVE q \in T \cup {p}
        <3>1. CASE q = p
            BY <3>1
        <3>2. CASE q # p
            <4>1. q \in Payouts /\ withdrawals'[q] = withdrawals[q]
                BY <1>12, <3>2 DEF OutflowIn, RecentIn
            <4>2. withdrawals[q].user = u /\ withdrawals[q].status \in Released /\ withdrawals[q].at > now - Day
                BY <4>1 DEF OutflowIn, RecentIn
            <4>3. withdrawals[q].at > t - Day
                BY <1>1, <1>9, <4>1, <4>2
            <4> QED BY <4>1, <4>2, <4>3 DEF RecentIn
        <3> QED BY <3>1, <3>2
    <2>3. withdrawals' \in [Payouts -> Row]
        BY DEF BooksInv, BaseInv, TypeInv, TypeOK
    <2>4. AmountIn(withdrawals', T \cup {p}) = AmountIn(withdrawals', T) + n
        BY <1>12, <2>1, <2>3, AmountMore
    <2>5. AmountIn(withdrawals', T) = AmountIn(withdrawals, T)
        BY <1>12, <2>1, AmountSame
    <2>6. AmountIn(withdrawals', S) <= AmountIn(withdrawals', T \cup {p})
        <3>1. S \in SUBSET (T \cup {p}) /\ T \cup {p} \in SUBSET Payouts
            BY <2>1, <2>2
        <3> QED BY <2>3, <3>1, AmountPart
    <2>7. AmountIn(withdrawals', S) \in Nat /\ AmountIn(withdrawals', T) \in Nat
        BY <2>1, <2>3, AmountType, OutflowType
    <2>8. AmountIn(withdrawals, T) <= recent
        BY <1>9
    <2> HIDE DEF S, T
    <2>9. AmountIn(withdrawals', S) <= limit
        <3>1. limit \in Nat
            BY NumbersAssumption
        <3> QED BY <1>11, <1>17, <2>4, <2>5, <2>6, <2>7, <2>8, <3>1
    <2>10. ASSUME NEW v \in Users
           PROVE  \E l \in Limits : AmountIn(withdrawals', OutflowIn(withdrawals', v, now')) <= l
        <3>1. CASE v = u
            BY <1>2, <2>9, <3>1 DEF S
        <3>2. CASE v # u
            <4>1. \A q \in Payouts : KeptRow(q) \/ withdrawals'[q].user # v
                BY <1>12, <3>2 DEF KeptRow
            <4>2. AmountIn(withdrawals', OutflowIn(withdrawals', v, now'))
                      <= AmountIn(withdrawals, OutflowIn(withdrawals, v, now))
                <5>1. BooksInv /\ now' = now /\ now' >= now
                    BY <1>1, <1>2 DEF DueInv
                <5> QED BY <4>1, <5>1, OutflowLess
            <4>3. PICK l \in Limits : AmountIn(withdrawals, OutflowIn(withdrawals, v, now)) <= l
                BY DEF DueInv, OutflowInv
            <4>4. /\ AmountIn(withdrawals', OutflowIn(withdrawals', v, now')) \in Nat
                  /\ AmountIn(withdrawals, OutflowIn(withdrawals, v, now)) \in Nat /\ l \in Nat
                BY <1>1, <2>3, OutflowType, NumbersAssumption
            <4>5. AmountIn(withdrawals', OutflowIn(withdrawals', v, now')) <= l
                BY <4>2, <4>3, <4>4
            <4> QED BY <4>5
        <3> QED BY <3>1, <3>2
    <2> QED BY <1>14, <1>15, <2>10 DEF OutflowInv
<1> QED BY <1>16, <1>17

\* A close is a transaction of its own: no request is open around it, and what it
\* closes leaves the window or stays in it.
LEMMA CloseDue ==
    ASSUME DueInv, BooksInv', Dialect = "sqlite", NEW p \in Payouts,
           NEW from \in SUBSET OpenStatus, NEW to \in ClosedStatus,
           to = "sent" => from \subseteq Released,
           NEW STATE moves, Close(p, from, to, moves)
    PROVE  OutflowInv' /\ AskInv' /\ ParkInv'
<1>1. /\ TypeOK /\ withdrawals \in [Payouts -> Row] /\ now \in Nat
    BY DueTypes DEF DueInv
<1>2. /\ withdrawals[p].status \in from /\ withdrawals[p].status # "none"
      /\ withdrawals' = [withdrawals EXCEPT ![p].status = to]
      /\ UNCHANGED <<requests, approvals, decisions, now>>
      /\ \A q \in Payouts : requests[q].stage # "open"
    BY Alone DEF Close, OpenStatus
<1>3. withdrawals[p] \in [status : OpenStatus \cup ClosedStatus, user : Users, amount : Nat,
                          at : Nat, decidedBy : Admins \cup {None}]
    BY <1>1, <1>2 DEF Row, NoRow
<1>4. /\ withdrawals'[p].status = to /\ withdrawals'[p].user = withdrawals[p].user
      /\ withdrawals'[p].amount = withdrawals[p].amount /\ withdrawals'[p].at = withdrawals[p].at
      /\ withdrawals'[p].decidedBy = withdrawals[p].decidedBy
      /\ \A q \in Payouts \ {p} : withdrawals'[q] = withdrawals[q]
    BY <1>1, <1>2, <1>3
<1>5. to = "sent" \/ to \notin Released
    BY DEF ClosedStatus, Released
<1>6. \A q \in Payouts : KeptRow(q)
    BY <1>2, <1>4, <1>5 DEF KeptRow, Released
<1>7. \A q \in Payouts : \/ withdrawals'[q] = withdrawals[q]
                         \/ withdrawals'[q].status \notin {"none", "approval_required"}
    BY <1>4 DEF ClosedStatus
<1>8. now' >= now
    BY <1>1, <1>2
<1>9. OutflowInv'
    BY <1>6, <1>8, OutflowKept
<1>10. AskInv'
    BY <1>2, <1>8, AskKept
<1>11. ParkInv'
    BY <1>2, <1>7, ParkKept
<1> QED BY <1>9, <1>10, <1>11

LEMMA MarkDue ==
    ASSUME DueInv, BooksInv', Dialect = "sqlite", NEW p \in Payouts,
           MarkWithdrawalSent(p) \/ MarkWithdrawalFailed(p) \/ CancelWithdrawal(p)
    PROVE  OutflowInv' /\ AskInv' /\ ParkInv'
<1>1. /\ {ReportableStatus, CancellableStatus} \subseteq SUBSET OpenStatus
      /\ ReportableStatus \subseteq Released /\ {"sent", "failed", "cancelled"} \subseteq ClosedStatus
    BY DEF ReportableStatus, CancellableStatus, OpenStatus, ClosedStatus, Released
<1>2. CASE MarkWithdrawalSent(p)
    <2> DEFINE moves == Spend(withdrawals[p].user, withdrawals[p].amount)
    <2>1. Close(p, ReportableStatus, "sent", moves)
        BY <1>2 DEF MarkWithdrawalSent
    <2> HIDE DEF moves
    <2> QED BY <1>1, <2>1, CloseDue
<1>3. CASE MarkWithdrawalFailed(p)
    <2>1. Close(p, ReportableStatus, "failed", ReturnHold(p))
        BY <1>3 DEF MarkWithdrawalFailed
    <2> QED BY <1>1, <2>1, CloseDue
<1>4. CASE CancelWithdrawal(p)
    <2>1. Close(p, CancellableStatus, "cancelled", ReturnHold(p))
        BY <1>4 DEF CancelWithdrawal
    <2> QED BY <1>1, <2>1, CloseDue
<1> QED BY <1>2, <1>3, <1>4

\* A decision commits alone: the row is still parked, the count is still right,
\* and it releases the row or falls short of the signatures it needs.
LEMMA DecisionDue ==
    ASSUME DueInv, BooksInv', NEW a \in Admins, CommitApproval(a) \/ CommitRejection(a)
    PROVE  OutflowInv' /\ AskInv' /\ ParkInv'
<1>1. /\ TypeOK /\ withdrawals \in [Payouts -> Row] /\ now \in Nat
      /\ decisions \in [Admins -> Decision] /\ approvals \in [Payouts -> SUBSET Admins]
    BY DueTypes DEF DueInv
<1>2. decisions[a].stage # "none" /\ UNCHANGED <<requests, now>>
      /\ decisions' = [decisions EXCEPT ![a] = NoDecision]
    BY DEF CommitApproval, CommitRejection
<1>3. PICK p \in Payouts : p = decisions[a].payout
    BY <1>1, <1>2, DecisionType
<1>4. /\ withdrawals[p].status = "approval_required"
      /\ \A q \in Payouts : requests[q].stage # "open"
      /\ \A b \in Admins \ {a} : decisions[b].stage = "none"
    BY <1>2, <1>3 DEF DueInv, BooksInv, Serial
<1>5. withdrawals[p] \in [status : OpenStatus \cup ClosedStatus, user : Users, amount : Nat,
                          at : Nat, decidedBy : Admins \cup {None}]
    BY <1>1, <1>4 DEF Row, NoRow
<1>6. now' >= now /\ a # None
    BY <1>1, <1>2, SetsAssumption
<1>7. \A b \in Admins : decisions'[b].stage = "none"
    BY <1>1, <1>2, <1>4 DEF NoDecision
<1>8. AskInv'
    BY <1>2, <1>4, <1>6, AskKept
<1>9. ASSUME NEW status \in {"queued", "rejected"}, Settle(p, status, a)
      PROVE  /\ withdrawals'[p].status = status /\ withdrawals'[p].decidedBy = a
             /\ \A q \in Payouts \ {p} : withdrawals'[q] = withdrawals[q]
             /\ OutflowInv'
    <2>1. withdrawals' = [withdrawals EXCEPT ![p].status = status, ![p].decidedBy = a]
        BY <1>4, <1>9 DEF Settle
    <2>2. /\ withdrawals'[p].status = status /\ withdrawals'[p].decidedBy = a
          /\ \A q \in Payouts \ {p} : withdrawals'[q] = withdrawals[q]
        BY <1>1, <1>5, <2>1
    <2>3. \A q \in Payouts : KeptRow(q)
        BY <1>6, <2>2 DEF KeptRow
    <2> QED BY <1>6, <2>2, <2>3, OutflowKept
<1>10. CASE CommitRejection(a)
    <2>1. Settle(p, "rejected", a) /\ UNCHANGED approvals
        BY <1>3, <1>10 DEF CommitRejection
    <2>2. /\ withdrawals'[p].status = "rejected" /\ OutflowInv'
          /\ \A q \in Payouts \ {p} : withdrawals'[q] = withdrawals[q]
        BY <1>9, <2>1
    <2>3. ParkInv'
        BY <1>7, <2>1, <2>2, ParkKept
    <2> QED BY <1>8, <2>2, <2>3
<1>11. CASE CommitApproval(a)
    <2>1. /\ decisions[a].stage = "counted"
          /\ approvals' = [approvals EXCEPT ![p] = @ \cup {a}]
          /\ IF decisions[a].count >= Required(p) THEN Settle(p, "queued", a)
                                                  ELSE UNCHANGED withdrawals
        BY <1>3, <1>11 DEF CommitApproval
    <2>2. decisions[a].count = Cardinality(approvals'[p])
        BY <1>1, <1>3, <2>1 DEF DueInv, ParkInv
    <2>3. Cardinality(approvals'[p]) \in Nat /\ Required(p) \in Nat
        <3>1. approvals'[p] \in SUBSET Admins
            BY <1>1, <2>1
        <3> QED BY <3>1, SignaturesGrow DEF Required
    <2>4. \A q \in Payouts \ {p} : approvals'[q] = approvals[q]
        BY <1>1, <2>1
    <2>5. CASE decisions[a].count >= Required(p)
        <3>1. /\ withdrawals'[p].status = "queued" /\ OutflowInv'
              /\ \A q \in Payouts \ {p} : withdrawals'[q] = withdrawals[q]
            BY <1>9, <2>1, <2>5
        <3>2. ParkInv'
            BY <1>7, <2>4, <3>1 DEF DueInv, ParkInv, Required
        <3> QED BY <1>8, <3>1, <3>2
    <2>6. CASE decisions[a].count < Required(p)
        <3>1. UNCHANGED withdrawals
            BY <2>1, <2>2, <2>3, <2>6
        <3>2. OutflowInv'
            BY <1>6, <3>1, OutflowKept DEF KeptRow
        <3>3. Cardinality(approvals'[p]) < Required(p)
            BY <2>2, <2>6
        <3>4. ParkInv'
            BY <1>4, <1>7, <2>4, <3>1, <3>3 DEF DueInv, ParkInv, Required
        <3> QED BY <1>8, <3>2, <3>4
    <2> QED BY <2>2, <2>3, <2>5, <2>6
<1> QED BY <1>10, <1>11

LEMMA DueStep ==
    ASSUME Dialect = "sqlite"
    PROVE  DueInv /\ [Next]_vars => DueInv'
<1> SUFFICES ASSUME DueInv, [Next]_vars PROVE DueInv'
    OBVIOUS
<1>0. BooksInv'
    BY BooksStep DEF DueInv
<1> SUFFICES OutflowInv' /\ AskInv' /\ ParkInv'
    BY <1>0 DEF DueInv
<1>0a. /\ TypeOK /\ requests \in [Payouts -> Request] /\ decisions \in [Admins -> Decision]
       /\ limits \in [Users -> Limits] /\ withdrawals \in [Payouts -> Row]
       /\ now \in Nat /\ now >= now
    BY DueTypes DEF DueInv
<1>1. ASSUME UNCHANGED withdrawals, now' >= now PROVE OutflowInv'
    BY <1>0, <1>1, OutflowKept DEF KeptRow
<1>2. ASSUME UNCHANGED <<withdrawals, requests>>, now' >= now PROVE AskInv'
    BY <1>0, <1>2, AskKept DEF SameRecent
<1>3. ASSUME UNCHANGED <<withdrawals, approvals>>,
             \A a \in Admins : decisions'[a] = decisions[a] \/ decisions'[a].stage # "counted"
      PROVE  ParkInv'
    BY <1>3, ParkKept
<1>4. ASSUME UNCHANGED <<withdrawals, requests, approvals, decisions>>, now' >= now
      PROVE  OutflowInv' /\ AskInv' /\ ParkInv'
    BY <1>1, <1>2, <1>3, <1>4
<1>5. CASE Tick
    <2>1. now' >= now
        BY <1>0a, <1>5 DEF Tick
    <2> QED BY <1>4, <1>5, <2>1 DEF Tick
<1>6. ASSUME NEW p \in Payouts, NEW u \in Users, NEW amount, NEW refund, Ask(p, u, amount, refund)
      PROVE  OutflowInv' /\ AskInv' /\ ParkInv'
    <2>1. UNCHANGED <<withdrawals, approvals, decisions, now>> /\ now' >= now
        BY <1>0a, <1>6 DEF Ask, OnlyRequests
    <2>2. /\ requests'[p].stage = "asked" /\ requests'[p].limit = limits[u]
          /\ \A q \in Payouts \ {p} : requests'[q] = requests[q]
        BY <1>0a, <1>6 DEF Ask, NoRequest
    <2>3. ASSUME NEW q \in Payouts
          PROVE  /\ requests'[q].stage # "none" => requests'[q].limit \in Limits
                 /\ requests'[q].stage = "open" =>
                       /\ requests'[q].at <= now'
                       /\ AmountIn(withdrawals', RecentIn(withdrawals', requests'[q].user, requests'[q].at))
                             <= requests'[q].recent
        BY <1>0a, <2>1, <2>2 DEF DueInv, AskInv
    <2>4. AskInv'
        BY <2>3 DEF AskInv
    <2> QED BY <1>1, <1>3, <2>1, <2>4
<1>7. ASSUME NEW p \in Payouts, NEW STATE n, NEW STATE dust, OpenTransaction(p, n, dust)
      PROVE  OutflowInv' /\ AskInv' /\ ParkInv'
    <2>1. UNCHANGED <<withdrawals, approvals, decisions, now>> /\ now' >= now
        BY <1>0a, <1>7 DEF OpenTransaction, OnlyRequests
    <2>2. AskInv'
        BY <1>7, OpenTransactionDue
    <2> QED BY <1>1, <1>3, <2>1, <2>2
<1>8. ASSUME NEW p \in Payouts, BeginPayout(p) \/ BeginRefund(p)
      PROVE  OutflowInv' /\ AskInv' /\ ParkInv'
    BY <1>7, <1>8 DEF BeginPayout, BeginRefund
<1>9. ASSUME NEW p \in Payouts, AbandonRequest(p) PROVE OutflowInv' /\ AskInv' /\ ParkInv'
    <2>1. UNCHANGED <<withdrawals, approvals, decisions, now>> /\ now' >= now
        BY <1>0a, <1>9 DEF AbandonRequest, OnlyRequests
    <2>2. \A q \in Payouts : requests'[q] = requests[q] \/ requests'[q].stage = "none"
        BY <1>0a, <1>9 DEF AbandonRequest, NoRequest
    <2>3. AskInv'
        BY <1>0, <2>1, <2>2, AskKept DEF SameRecent
    <2> QED BY <1>1, <1>3, <2>1, <2>3
<1>10. ASSUME NEW k \in Workers, ReportSent(k) \/ ReportFailed(k)
       PROVE  OutflowInv' /\ AskInv' /\ ParkInv'
    <2>1. workers[k].payout \in Payouts
        BY <1>0a, <1>10, WorkerType DEF ReportSent, ReportFailed
    <2> QED BY <1>0, <1>10, <2>1, MarkDue DEF ReportSent, ReportFailed
<1>11. ASSUME NEW p \in Payouts, Resolve(p) \/ CancelWithdrawal(p)
       PROVE  OutflowInv' /\ AskInv' /\ ParkInv'
    BY <1>0, <1>11, MarkDue DEF Resolve
<1>12. ASSUME NEW a \in Admins, NEW p \in Payouts, NEW approve, DecideRead(a, p, approve)
       PROVE  OutflowInv' /\ AskInv' /\ ParkInv'
    <2>1. UNCHANGED <<withdrawals, requests, approvals, now>> /\ now' >= now
        BY <1>0a, <1>12 DEF DecideRead
    <2>2. \A b \in Admins : decisions'[b] = decisions[b] \/ decisions'[b].stage # "counted"
        BY <1>0a, <1>12 DEF DecideRead
    <2> QED BY <1>1, <1>2, <1>3, <2>1, <2>2
<1>13. ASSUME NEW a \in Admins, AbandonDecision(a) PROVE OutflowInv' /\ AskInv' /\ ParkInv'
    <2>1. UNCHANGED <<withdrawals, requests, approvals, now>> /\ now' >= now
        BY <1>0a, <1>13 DEF AbandonDecision
    <2>2. \A b \in Admins : decisions'[b] = decisions[b] \/ decisions'[b].stage # "counted"
        BY <1>0a, <1>13 DEF AbandonDecision, NoDecision
    <2> QED BY <1>1, <1>2, <1>3, <2>1, <2>2
<1>14. ASSUME NEW a \in Admins, CountApprovals(a) PROVE OutflowInv' /\ AskInv' /\ ParkInv'
    <2>1. UNCHANGED <<withdrawals, requests, approvals, now>> /\ now' >= now
        BY <1>0a, <1>14 DEF CountApprovals
    <2>2. decisions[a] \in [stage : {"read", "counted"}, payout : Payouts,
                            approve : BOOLEAN, count : Nat]
        BY <1>0a, <1>14, DecisionType DEF CountApprovals
    <2>3. /\ decisions'[a].payout = decisions[a].payout
          /\ decisions'[a].count = Cardinality(approvals[decisions[a].payout] \cup {a})
          /\ \A b \in Admins \ {a} : decisions'[b] = decisions[b]
        BY <1>0a, <1>14, <2>2 DEF CountApprovals, Signatures
    <2>4. ParkInv'
        BY <2>1, <2>3 DEF DueInv, ParkInv, Required
    <2> QED BY <1>1, <1>2, <2>1, <2>4
<1>15. ASSUME NEW k \in Workers, NEW p \in Payouts, NEW heard \in BOOLEAN,
              ClaimWithdrawal(k, p, heard)
       PROVE  OutflowInv' /\ AskInv' /\ ParkInv'
    <2>1. /\ withdrawals[p].status = "queued" /\ withdrawals'[p].status = "sending"
          /\ withdrawals'[p].user = withdrawals[p].user
          /\ withdrawals'[p].amount = withdrawals[p].amount
          /\ withdrawals'[p].decidedBy = withdrawals[p].decidedBy
          /\ \A q \in Payouts \ {p} : withdrawals'[q] = withdrawals[q]
          /\ UNCHANGED <<approvals, requests, decisions>>
        BY <1>0a, <1>15, ClaimRows
    <2>2. now' = now /\ now' >= now /\ withdrawals'[p].at = withdrawals[p].at
        <3>1. withdrawals[p] \in [status : OpenStatus \cup ClosedStatus, user : Users,
                                  amount : Nat, at : Nat, decidedBy : Admins \cup {None}]
            BY <1>0a, <2>1 DEF Row, NoRow
        <3> QED BY <1>0a, <1>15, <3>1 DEF ClaimWithdrawal
    <2>3. \A q \in Payouts : KeptRow(q) /\ SameRecent(q)
        BY <2>1, <2>2 DEF KeptRow, SameRecent, Released
    <2>4. OutflowInv'
        BY <1>0, <2>2, <2>3, OutflowKept
    <2>5. AskInv'
        BY <1>0, <2>1, <2>2, <2>3, AskKept
    <2>6. ParkInv'
        BY <2>1, ParkKept
    <2> QED BY <2>4, <2>5, <2>6
<1>16. CASE UNCHANGED <<withdrawals, requests, approvals, decisions, now>>
    BY <1>0a, <1>4, <1>16
<1>17. \/ UNCHANGED <<withdrawals, requests, approvals, decisions, now>>
       \/ Tick
       \/ \E p \in Payouts, u \in Users : (\E n \in Amounts : Ask(p, u, n, FALSE)) \/ Ask(p, u, 0, TRUE)
       \/ \E p \in Payouts : BeginPayout(p) \/ BeginRefund(p) \/ CommitRequest(p)
                             \/ AbandonRequest(p) \/ CancelWithdrawal(p) \/ Resolve(p)
       \/ \E a \in Admins, p \in Payouts, approve \in BOOLEAN : DecideRead(a, p, approve)
       \/ \E a \in Admins : CountApprovals(a) \/ CommitApproval(a) \/ CommitRejection(a)
                            \/ AbandonDecision(a)
       \/ \E k \in Workers, p \in Payouts, heard \in BOOLEAN : ClaimWithdrawal(k, p, heard)
       \/ \E k \in Workers : ReportSent(k) \/ ReportFailed(k)
    BY DEF Next, vars, Arrive, CreditDeposit, SetPayoutLimit, NotRelayed, Relay, GiveUp, OnlyWorkers
<1> QED BY <1>0, <1>5, <1>6, <1>8, <1>9, <1>10, <1>11, <1>12, <1>13, <1>14, <1>15, <1>16, <1>17,
           CommitRequestDue, DecisionDue

\* On one database handle, what leaves an account in any rolling day with
\* nobody's decision stays under a ceiling the account could have been given,
\* and a payout stays parked only while it lacks signatures, however requests,
\* claims, reports and clicks interleave.  On PostgreSQL neither holds: two
\* requests may each read the sum before the other commits, and two approvals
\* may each count without the other's signature.
THEOREM ReleasedWhenDue ==
    ASSUME Dialect = "sqlite"
    PROVE  Spec => []ReleasesAreDue
<1>1. Init => DueInv
    BY DueInit
<1>2. DueInv /\ [Next]_vars => DueInv'
    BY DueStep
<1>3. DueInv => ReleasesAreDue
    <2> SUFFICES ASSUME DueInv PROVE ReleasesAreDue
        OBVIOUS
    <2>1. \A u \in Users : \E limit \in Limits : AmountOf(AutomaticOutflow(u)) <= limit
        BY WindowsAre DEF DueInv, OutflowInv
    <2>2. \A p \in Payouts : withdrawals[p].status = "approval_required"
                                => Cardinality(approvals[p]) < Required(p)
        BY DEF DueInv, ParkInv
    <2> QED BY <2>1, <2>2 DEF ReleasesAreDue
<1> QED BY <1>1, <1>2, <1>3, PTL DEF Spec

=============================================================================
