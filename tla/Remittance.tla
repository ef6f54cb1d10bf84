----------------------------- MODULE Remittance -----------------------------
(***************************************************************************)
(* What the payout tier promises an account owner, without saying how.     *)
(*                                                                         *)
(* The platform owes an account what arrived for it, credited or not.  A   *)
(* payout is an instruction to send part of that: it is either paid, and   *)
(* then the platform owes that much less, or it lapses, and then nothing   *)
(* changed.  It is decided once.                                           *)
(***************************************************************************)
EXTENDS Integers

CONSTANTS Users, Payouts

VARIABLES
    owed,     \* user -> what the platform owes them
    payout    \* payout -> its state, its owner and its amount

vars == <<owed, payout>>

Unasked(p) == payout[p].state = "unasked"

Init ==
    /\ owed = [u \in Users |-> 0]
    /\ \A p \in Payouts : Unasked(p)

Receive(u) ==
    /\ owed' = [owed EXCEPT ![u] = owed'[u]]
    /\ owed'[u] > owed[u]
    /\ UNCHANGED payout

Decide(p, from, to) ==
    /\ payout[p].state = from
    /\ payout' = [payout EXCEPT ![p].state = to]

\* An instruction never exceeds what its owner is owed.
Instruct(p, u) ==
    /\ Unasked(p)
    /\ \E n \in 1..owed[u] :
          payout' = [payout EXCEPT ![p] = [state |-> "waiting", user |-> u, amount |-> n]]
    /\ UNCHANGED owed

Pay(p) ==
    /\ Decide(p, "waiting", "paid")
    /\ owed' = [owed EXCEPT ![payout[p].user] = @ - payout[p].amount]

Lapse(p) == Decide(p, "waiting", "lapsed") /\ UNCHANGED owed

Next ==
    \/ \E u \in Users : Receive(u)
    \/ \E p \in Payouts : Pay(p) \/ Lapse(p) \/ \E u \in Users : Instruct(p, u)

Spec == Init /\ [][Next]_vars

=============================================================================
