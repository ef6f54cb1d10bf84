------------------------------- MODULE Trade -------------------------------
(***************************************************************************)
(* What the marketplace promises the two sides of an order, without saying *)
(* how.                                                                    *)
(*                                                                         *)
(* A deal is struck only on money its buyer owns and has not promised      *)
(* elsewhere.  It ends once: either the price leaves the buyer, all of it  *)
(* for the seller and the platform, or nothing moves.  Afterwards a seller *)
(* may be made to compensate the buyer; the platform has no part in that.  *)
(***************************************************************************)
EXTENDS Ledger

CONSTANTS Users, Platform, Deals, Prices

VARIABLES
    wealth,   \* account -> what it owns, whatever is set aside for what
    deal      \* deal -> its state, its two sides and its price

vars == <<wealth, deal>>

Promised(u) == Total([d \in {x \in Deals : deal[x].state = "open" /\ deal[x].buyer = u}
                         |-> deal[d].price])

Init ==
    /\ wealth \in [Users \cup {Platform} -> Nat]
    /\ \A d \in Deals : deal[d].state = "none"

\* n moves from one account to another, the fee out of it to the platform.
Pays(from, to, n, fee) ==
    wealth' = [a \in Users \cup {Platform} |->
                  CASE a = from -> wealth[a] - n
                    [] a = to -> wealth[a] + (n - fee)
                    [] a = Platform -> wealth[a] + fee
                    [] OTHER -> wealth[a]]

Strike(d, buyer, seller, price) ==
    /\ deal[d].state = "none"
    /\ buyer # seller
    /\ Promised(buyer) + price <= wealth[buyer]
    /\ deal' = [deal EXCEPT ![d] = [state |-> "open", buyer |-> buyer,
                                    seller |-> seller, price |-> price]]
    /\ UNCHANGED wealth

Pay(d) ==
    /\ deal[d].state = "open"
    /\ deal' = [deal EXCEPT ![d].state = "paid"]
    /\ \E fee \in 0..deal[d].price :
          Pays(deal[d].buyer, deal[d].seller, deal[d].price, fee)

Return(d) ==
    /\ deal[d].state = "open"
    /\ deal' = [deal EXCEPT ![d].state = "returned"]
    /\ UNCHANGED wealth

Compensate(d) ==
    /\ deal[d].state = "paid"
    /\ \E n \in 1..deal[d].price : n <= wealth[deal[d].seller] /\ Pays(deal[d].seller, deal[d].buyer, n, 0)
    /\ UNCHANGED deal

Next ==
    \E d \in Deals :
        \/ \E buyer, seller \in Users, price \in Prices : Strike(d, buyer, seller, price)
        \/ Pay(d) \/ Return(d) \/ Compensate(d)

Spec == Init /\ [][Next]_vars

=============================================================================
