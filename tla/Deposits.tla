------------------------------ MODULE Deposits ------------------------------
(***************************************************************************)
(* The watcher: the address an account is given, the scan that credits     *)
(* what was paid to it, and the comparison of books and wallet.            *)
(*                                                                         *)
(* Code: src/server/lib/deposits.ts, monero.ts, creditDeposit in ledger.ts,*)
(* belowMinimumLiability in refunds.ts, the watcher's timer in main.ts.    *)
(*                                                                         *)
(* The wallet is external: it makes subaddresses, sees transfers, and      *)
(* loses those a fork of the chain takes back.  The timer starts a pass    *)
(* whether or not the last one has ended.  What a payout goes through is   *)
(* in Payouts; here it leaves the books some time after the wallet.        *)
(***************************************************************************)
EXTENDS Naturals, FiniteSets, FiniteSetsExt

CONSTANTS
    Owners,            \* accounts
    Asks,              \* requests for an address handled at once
    Passes,            \* passes of the watcher that may overlap
    Schemes,           \* bound: transfers, subaddresses, passes, and what may happen
    Amounts,           \* bound: piconero a transfer may be of
    Fees,              \* bound: what the network takes for a payout beyond what
                       \* the operator has put into the wallet for it
    MinPico,           \* MIN_DEPOSIT_XMR
    FastCreditMax,     \* FAST_CREDIT_MAX_XMR
    MinConfirmations,  \* DEPOSIT_CONFIRMATIONS
    Nobody

ASSUME AmountsAssumption ==
    Amounts \subseteq Nat \ {0} /\ Fees \subseteq Nat /\ {MinPico, FastCreditMax} \subseteq Nat
ASSUME ConfirmationsAssumption == MinConfirmations \in Nat \ {0}
ASSUME SchemesAssumption ==
    \A s \in Schemes : /\ {s.transfers, s.subaddresses, s.passes, s.blocks} \subseteq Nat
                       /\ s.may \subseteq {"fork", "crash", "fail", "payout", "compare"}

VARIABLES
    scheme,       \* the bound this behaviour keeps to
    subaddresses, \* how many the wallet has made
    addresses,    \* deposit_addresses: the index of each account, 0 for none
    shown,        \* every index an account was ever shown
    transfers,    \* what was paid, by txid, and whether a fork took it back
    blocks,       \* blocks so far
    deposits,     \* the rows
    books,        \* account -> available and held
    payouts,      \* account -> what its payout is at
    relayed,      \* what payouts have taken out of the wallet
    fees,         \* what the network has taken out of it with them
    asks, passes, \* what runs in each slot
    run,          \* passes so far
    compared      \* the last comparison

depositVars == <<scheme, subaddresses, addresses, shown, transfers, blocks, deposits, books,
                 payouts, relayed, fees, asks, passes, run, compared>>

Waiting == [step |-> "idle"]
NoPayout == [step |-> "none", amount |-> 0]
May(what) == what \in scheme.may

DepositInit ==
    /\ scheme \in Schemes
    /\ subaddresses = 0
    /\ addresses = [u \in Owners |-> 0] /\ shown = [u \in Owners |-> {}]
    /\ transfers = {} /\ blocks = 0 /\ deposits = {}
    /\ books = [u \in Owners |-> [available |-> 0, held |-> 0]]
    /\ payouts = [u \in Owners |-> NoPayout] /\ relayed = 0 /\ fees = 0
    /\ asks = [a \in Asks |-> Waiting] /\ passes = [p \in Passes |-> Waiting] /\ run = 0
    /\ compared = [owed |-> 0, wallet |-> 0, due |-> 0, fees |-> 0]

-----------------------------------------------------------------------------
(* An address per account *)

Show(u, index) == shown' = [shown EXCEPT ![u] = @ \cup {index}]

AskForAddress(a, u) ==
    /\ asks[a] = Waiting
    /\ IF addresses[u] # 0
       THEN Show(u, addresses[u]) /\ UNCHANGED asks
       ELSE /\ asks' = [asks EXCEPT ![a] = [step |-> "create", user |-> u, index |-> 0]]
            /\ UNCHANGED shown
    /\ UNCHANGED <<scheme, subaddresses, addresses, transfers, blocks, deposits, books, payouts,
                   relayed, fees, passes, run, compared>>

\* The wallet's answer may be lost: the subaddress is made and never handed out.
CreateAddress(a) ==
    /\ asks[a].step = "create" /\ subaddresses < scheme.subaddresses
    /\ subaddresses' = subaddresses + 1
    /\ \/ asks' = [asks EXCEPT ![a].step = "insert", ![a].index = subaddresses + 1]
       \/ May("fail") /\ asks' = [asks EXCEPT ![a] = Waiting]
    /\ UNCHANGED <<scheme, addresses, shown, transfers, blocks, deposits, books, payouts, relayed, fees,
                   passes, run, compared>>

\* user_id is the key: of two requests that raced, one's row stands for both.
BugGiven(a) == asks[a].index
Given(a) == LET u == asks[a].user IN IF addresses[u] = 0 THEN asks[a].index ELSE addresses[u]

InsertAddress(a) ==
    LET u == asks[a].user
    IN  /\ asks[a].step = "insert"
        /\ addresses' = [addresses EXCEPT ![u] = IF @ = 0 THEN asks[a].index ELSE @]
        /\ Show(u, Given(a))
        /\ asks' = [asks EXCEPT ![a] = Waiting]
        /\ UNCHANGED <<scheme, subaddresses, transfers, blocks, deposits, books, payouts, relayed, fees,
                       passes, run, compared>>

-----------------------------------------------------------------------------
(* The chain, as the wallet sees it *)

Confirmations(t) == IF t.lost THEN 0 ELSE blocks - t.at
Incoming == {t \in transfers : Confirmations(t) > 0}

\* To an address somebody was shown, or to one this database does not know.
Pay(index, amount) ==
    /\ Cardinality(transfers) < scheme.transfers
    /\ transfers' = transfers \cup
           {[txid |-> Cardinality(transfers) + 1, index |-> index, amount |-> amount,
             at |-> blocks, lost |-> FALSE]}
    /\ UNCHANGED <<scheme, subaddresses, addresses, shown, blocks, deposits, books, payouts,
                   relayed, fees, asks, passes, run, compared>>

Block ==
    /\ blocks < scheme.blocks
    /\ blocks' = blocks + 1
    /\ UNCHANGED <<scheme, subaddresses, addresses, shown, transfers, deposits, books, payouts,
                   relayed, fees, asks, passes, run, compared>>

\* Another branch wins, no deeper than the confirmations a large top-up waits for.
Fork(t) ==
    /\ May("fork") /\ Confirmations(t) \in 1..(MinConfirmations - 1)
    /\ transfers' = (transfers \ {t}) \cup {[t EXCEPT !.lost = TRUE]}
    /\ UNCHANGED <<scheme, subaddresses, addresses, shown, blocks, deposits, books, payouts,
                   relayed, fees, asks, passes, run, compared>>

Sum(set, value(_)) == MapThenSumSet(value, set)
TotalPico == LET value(t) == t.amount IN Sum(Incoming, value) - relayed - fees

-----------------------------------------------------------------------------
(* A pass: what the wallet saw, who owns it, what is recorded, one by one *)

To(p, step) == passes' = [passes EXCEPT ![p].step = step]
AfterScan == IF May("compare") THEN "balances" ELSE "idle"
EndScan(p) == passes' = [passes EXCEPT ![p] = [step |-> AfterScan, owed |-> 0, due |-> 0]]

\* quietly: a wallet that does not answer is a pass that credits nothing.
BeginScan(p) ==
    /\ passes[p].step = "idle" /\ run < scheme.passes /\ run' = run + 1
    /\ \/ IF Incoming = {} THEN EndScan(p)
          ELSE passes' = [passes EXCEPT ![p] =
                   [step |-> "owners", owed |-> 0, due |-> 0, addresses |-> addresses, known |-> {},
                    todo |-> {[txid |-> t.txid, index |-> t.index, amount |-> t.amount,
                               confirmations |-> Confirmations(t)] : t \in Incoming}]]
       \/ May("fail") /\ EndScan(p)
    /\ UNCHANGED <<scheme, subaddresses, addresses, shown, transfers, blocks, deposits, books,
                   payouts, relayed, fees, asks, compared>>

ReadOwners(p) ==
    /\ passes[p].step = "owners"
    /\ passes' = [passes EXCEPT ![p].step = "known", ![p].addresses = addresses]
    /\ UNCHANGED <<scheme, subaddresses, addresses, shown, transfers, blocks, deposits, books,
                   payouts, relayed, fees, asks, run, compared>>

Key(t) == <<t.txid, t.index, t.amount>>

ReadKnown(p) ==
    /\ passes[p].step = "known"
    /\ passes' = [passes EXCEPT ![p].step = "each", ![p].known = {Key(d) : d \in deposits}]
    /\ UNCHANGED <<scheme, subaddresses, addresses, shown, transfers, blocks, deposits, books,
                   payouts, relayed, fees, asks, run, compared>>

ConfirmationsFor(amount) == IF amount <= FastCreditMax THEN 1 ELSE MinConfirmations

UserOf(p, t) ==
    LET owners == {u \in Owners : passes[p].addresses[u] = t.index}
    IN  IF owners = {} THEN Nobody ELSE CHOOSE u \in owners : TRUE

Creditable(p, t) ==
    /\ t.confirmations >= ConfirmationsFor(t.amount)
    /\ Key(t) \notin passes[p].known
    /\ UserOf(p, t) # Nobody

\* The unique key refuses what another pass has recorded since.
Duplicate(t) == Key(t) \in {Key(d) : d \in deposits}

Credited(t) == t.amount >= MinPico
CreditDeposit(u, t) ==
    IF Duplicate(t) THEN UNCHANGED <<deposits, books>>
    ELSE /\ deposits' = deposits \cup
                {[txid |-> t.txid, index |-> t.index, amount |-> t.amount, user |-> u,
                  status |-> IF Credited(t) THEN "credited" ELSE "below_minimum"]}
         /\ books' = IF Credited(t) THEN [books EXCEPT ![u].available = @ + t.amount] ELSE books

ScanDeposit(p) ==
    /\ passes[p].step = "each"
    /\ IF passes[p].todo = {} THEN EndScan(p) /\ UNCHANGED <<deposits, books>>
       ELSE LET t == CHOOSE s \in passes[p].todo : \A o \in passes[p].todo : s.txid <= o.txid
            IN  /\ passes' = [passes EXCEPT ![p].todo = @ \ {t}]
                /\ IF Creditable(p, t) THEN CreditDeposit(UserOf(p, t), t)
                   ELSE UNCHANGED <<deposits, books>>
    /\ UNCHANGED <<scheme, subaddresses, addresses, shown, transfers, blocks, payouts, relayed, fees,
                   asks, run, compared>>

-----------------------------------------------------------------------------
(* The comparison: balances, then uncredited top-ups, then the wallet *)

Balances == LET value(u) == books[u].available + books[u].held IN Sum(Owners, value)

Uncredited == {d \in deposits : d.status = "below_minimum"}
BelowMinimumLiability == LET value(d) == d.amount IN Sum(Uncredited, value)

\* `due` is not the code's: what the wallet has sent and the books still count,
\* now or at any time before the wallet is asked.
Relayed == LET value(u) == payouts[u].amount
           IN  Sum({u \in Owners : payouts[u].step = "relayed"}, value)

SumBalances(p) ==
    /\ passes[p].step = "balances"
    /\ passes' = [passes EXCEPT ![p].step = "uncredited", ![p].owed = Balances,
                                ![p].due = Relayed]
    /\ UNCHANGED <<scheme, subaddresses, addresses, shown, transfers, blocks, deposits, books,
                   payouts, relayed, fees, asks, run, compared>>

SumUncredited(p) ==
    /\ passes[p].step = "uncredited"
    /\ passes' = [passes EXCEPT ![p].step = "wallet", ![p].owed = @ + BelowMinimumLiability]
    /\ UNCHANGED <<scheme, subaddresses, addresses, shown, transfers, blocks, deposits, books,
                   payouts, relayed, fees, asks, run, compared>>

Solvency(p) ==
    /\ passes[p].step = "wallet"
    /\ passes' = [passes EXCEPT ![p] = Waiting]
    /\ compared' = [owed |-> passes[p].owed, wallet |-> TotalPico, due |-> passes[p].due,
                     fees |-> fees]
    /\ UNCHANGED <<scheme, subaddresses, addresses, shown, transfers, blocks, deposits, books,
                   payouts, relayed, fees, asks, run>>

-----------------------------------------------------------------------------
(* Beside the watcher *)

\* A payout of everything, or a refund of every top-up too small to credit.
Dust(u) == {d \in deposits : d.user = u /\ d.status = "below_minimum"}
BeginPayout(u) ==
    LET value(d) == d.amount
        dust == Sum(Dust(u), value)
    IN  /\ May("payout") /\ payouts[u] = NoPayout
        /\ \/ /\ books[u].available > 0
              /\ payouts' = [payouts EXCEPT ![u] = [step |-> "queued", amount |-> books[u].available]]
              /\ books' = [books EXCEPT ![u] = [available |-> 0, held |-> @.held + @.available]]
              /\ UNCHANGED deposits
           \/ /\ dust > 0
              /\ payouts' = [payouts EXCEPT ![u] = [step |-> "queued", amount |-> dust]]
              /\ books' = [books EXCEPT ![u].held = @ + dust]
              /\ deposits' = (deposits \ Dust(u)) \cup {[d EXCEPT !.status = "credited"] : d \in Dust(u)}
        /\ UNCHANGED <<scheme, subaddresses, addresses, shown, transfers, blocks, relayed, fees, asks,
                       passes, run, compared>>

\* The payee gets all of the amount: what the network takes for sending it is
\* recorded in the payout's row and charged to no account.
RelayPayout(u, fee) ==
    /\ payouts[u].step = "queued" /\ payouts[u].amount + fee <= TotalPico
    /\ payouts' = [payouts EXCEPT ![u].step = "relayed"]
    /\ relayed' = relayed + payouts[u].amount /\ fees' = fees + fee
    /\ passes' = [p \in Passes |-> IF passes[p].step \in {"uncredited", "wallet"}
                                   THEN [passes[p] EXCEPT !.due = @ + payouts[u].amount] ELSE passes[p]]
    /\ UNCHANGED <<scheme, subaddresses, addresses, shown, transfers, blocks, deposits, books,
                   asks, run, compared>>

ReportPayout(u) ==
    /\ payouts[u].step = "relayed"
    /\ books' = [books EXCEPT ![u].held = @ - payouts[u].amount]
    /\ payouts' = [payouts EXCEPT ![u] = NoPayout]
    /\ UNCHANGED <<scheme, subaddresses, addresses, shown, transfers, blocks, deposits, relayed, fees,
                   asks, passes, run, compared>>

Restart ==
    /\ May("crash")
    /\ asks' = [a \in Asks |-> Waiting] /\ passes' = [p \in Passes |-> Waiting]
    /\ UNCHANGED <<scheme, subaddresses, addresses, shown, transfers, blocks, deposits, books,
                   payouts, relayed, fees, run, compared>>

DepositNext ==
    \/ \E a \in Asks : (\E u \in Owners : AskForAddress(a, u)) \/ CreateAddress(a) \/ InsertAddress(a)
    \/ \E i \in 1..subaddresses, m \in Amounts : Pay(i, m)
    \/ Block
    \/ \E t \in transfers : Fork(t)
    \/ \E p \in Passes : \/ BeginScan(p) \/ ReadOwners(p) \/ ReadKnown(p) \/ ScanDeposit(p)
                         \/ SumBalances(p) \/ SumUncredited(p) \/ Solvency(p)
    \/ \E u \in Owners : \/ BeginPayout(u) \/ ReportPayout(u)
                         \/ \E fee \in Fees : RelayPayout(u, fee)
    \/ Restart

-----------------------------------------------------------------------------
(* Properties *)

\* However requests race and answers are lost, an account is shown one address
\* for life; what is paid to it is that account's, and is recorded once however
\* many passes overlap or are cut off.  (deposits.ts: depositAddressFor,
\* scanDeposits; the unique key on deposits)
PaymentsAreAttributed ==
    /\ \A u \in Owners : \A i \in shown[u], v \in Owners : \A j \in shown[v] : (i = j) <=> (u = v)
    /\ \A d \in deposits :
           /\ shown[d.user] \subseteq {d.index}
           /\ \E t \in transfers : Key(t) = Key(d)
           /\ \A o \in deposits : o.txid = d.txid => o = d
    /\ LET value(d) == IF d.status = "credited" THEN d.amount ELSE 0
       IN  Balances + relayed = Sum(deposits, value) + Relayed

\* A shortfall is reported only for what the network took for payouts, which no
\* account is charged for, if a fork took back a small top-up that was credited,
\* or if a payout counted on the books had left the wallet before it was asked.
\* No order of credits, refunds and reads makes another, and no fork shallower
\* than the confirmations a large top-up waits for.  (solvency, confirmationsFor;
\* the fee: payout-worker.mjs, markWithdrawalSent)
AlarmIsReal ==
    LET taken == {t \in transfers : t.lost /\ Duplicate(t) /\ t.amount <= FastCreditMax}
    IN  compared.owed <= compared.wallet + compared.fees + compared.due
                               + Sum(taken, LAMBDA t : t.amount)

\* What is paid is booked to whoever was shown the address, and the comparison of
\* books and wallet is alarmed by nothing else than it says.  (deposits.ts)
DepositsAddUp == PaymentsAreAttributed /\ AlarmIsReal

=============================================================================
