----------------------------- MODULE MCPayouts ------------------------------
(* Payouts on a small instance: one transfer that is credited at once, two   *)
(* that are each below the minimum and together worth a refund.              *)
EXTENDS Payouts, TLC

CONSTANTS u1, u2, big, dust1, dust2

MCPayer == [t \in Transfers |-> IF t = dust1 /\ u2 \in Users THEN u2 ELSE u1]
MCValue == [t \in Transfers |-> IF t = big THEN 6 ELSE 1]

\* Which administrator or worker does what never matters, only that they are
\* different.
Symmetry == Permutations(Admins) \cup Permutations(Workers)

=============================================================================
