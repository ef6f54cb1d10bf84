------------------------------- MODULE Ledger -------------------------------
(***************************************************************************)
(* The bookkeeping of src/server/lib/ledger.ts: an account is a pair of    *)
(* running totals, and every operation of the marketplace on money is a    *)
(* set of movements applied together or not at all.                        *)
(*                                                                         *)
(* This module has no state of its own.  Payouts and Escrow keep the       *)
(* balances table as a variable and change it only through Apply.          *)
(***************************************************************************)
EXTENDS Integers, FiniteSets

Account == [available : Nat, held : Nat]
EmptyAccount == [available |-> 0, held |-> 0]

\* What one movement adds to the two totals of its account.
Movement(availableDelta, heldDelta) ==
    [available |-> availableDelta, held |-> heldDelta]

\* A set of movements on distinct accounts, as a function from the accounts
\* they touch; And joins two such sets.
On(account, movement) == [x \in {account} |-> movement]
And(f, g) == [x \in DOMAIN f \cup DOMAIN g |->
                 IF x \in DOMAIN f THEN f[x] ELSE g[x]]

\* The movements the code names by their LedgerKind.
Credit(a, n)  == On(a, Movement(n, 0))    \* deposit, order_earnings, order_fee, bond_compensation
Hold(a, n)    == On(a, Movement(-n, n))   \* order_hold, bond_hold, withdrawal_hold
Unhold(a, n)  == On(a, Movement(n, -n))   \* order_release, bond_release, withdrawal_returned
Spend(a, n)   == On(a, Movement(0, -n))   \* order_hold at settlement, bond_forfeit, withdrawal_sent

\* Definitions named Bug... are variants of the one that follows them: each is a
\* mistake the code could have made, and shows that some property notices it.
BugCovered(balance, moves) ==
    \A a \in DOMAIN moves : balance[a].held + moves[a].held >= 0

\* The WHERE clause of apply(): every touched total stays at or above zero.
\* One movement that fails rolls the whole transaction back.
Covered(balance, moves) ==
    \A a \in DOMAIN moves :
        /\ balance[a].available + moves[a].available >= 0
        /\ balance[a].held + moves[a].held >= 0

Apply(balance, moves) ==
    [a \in DOMAIN balance |->
        IF a \in DOMAIN moves
        THEN [available |-> balance[a].available + moves[a].available,
              held      |-> balance[a].held + moves[a].held]
        ELSE balance[a]]

\* The platform's cut, rounded down, in basis points of the price.
FeeFor(amount, feeBps) == (amount * feeBps) \div 10000

\* SQL's SUM over a finite table column of naturals.  Each row contributes as
\* many coins as its value, so the sum is a count: the library's facts about
\* Cardinality apply to it.
Coins(f) == UNION {{x} \X (1..f[x]) : x \in DOMAIN f}
Total(f) == Cardinality(Coins(f))

=============================================================================
