------------------------------- MODULE Escrow -------------------------------
(***************************************************************************)
(* An order and the money behind it: escrow from placing to settlement,    *)
(* delivery of the goods, disputes and reports, and the bond a seller      *)
(* stakes against harm that shows after escrow has paid out.               *)
(*                                                                         *)
(* Code: src/server/routes/{market,deliveries,bonds,moderation}.ts and     *)
(* lib/{ledger,bonds}.ts.                                                  *)
(*                                                                         *)
(* Every handler reads first, decides, and then opens a transaction whose  *)
(* statements are guarded UPDATEs.  A handler is therefore two steps, the  *)
(* reads and the commit, on either database; anything may happen between   *)
(* them.  A refusal at the commit, a crash or a timeout is Refuse: the     *)
(* transaction leaves nothing.                                             *)
(*                                                                         *)
(* Left to other modules: how accounts are funded and paid out (Payouts),  *)
(* and the seller's level a settled sale recomputes, which no order, hold  *)
(* or bond ever reads.  A seller has one listing here.                     *)
(***************************************************************************)
EXTENDS Ledger

CONSTANTS
    Users, Sellers, Platform,
    Orders,          \* ids newId() may hand out for orders
    Calls,           \* requests the server handles at the same time
    Prices,          \* what a listing may ask
    Stakes,          \* what a seller may stake at once (>= BOND_MIN_XMR)
    FeeBps,          \* ORDER_FEE_BPS
    Funds,           \* what every user has to spend at first
    MaxReports,      \* bound on open reports per order the buyer adds to
    None

ASSUME PeopleAssumption ==
    /\ IsFiniteSet(Users) /\ IsFiniteSet(Orders)
    /\ Sellers \subseteq Users /\ Platform \notin Users /\ None \notin Users
ASSUME PricesAssumption ==
    /\ Prices \subseteq Nat /\ Stakes \subseteq Nat \ {0}
    /\ FeeBps \in 0..10000 /\ {Funds, MaxReports} \subseteq Nat

VARIABLES
    balances,       \* available and held, per user and for the platform
    orders,         \* the orders table
    files,          \* orders with a row in deliveries
    reports,        \* order -> open reports filed by its own buyer
    complained,     \* orders disputed at some time or reported by their buyer
    bonds,          \* seller -> bond_pico, and whether the cool-off has run out
    entries,        \* ledger_entries that end an order's hold, per kind
    compensations,  \* order -> number of bond_compensation entries
    calls           \* what each request in flight has read

vars == <<balances, orders, files, reports, complained, bonds, entries,
          compensations, calls>>

-----------------------------------------------------------------------------
(* Tables and helpers *)

OpenStatus == {"placed", "accepted", "delivered", "disputed"}
Ended      == {"completed", "cancelled"}

\* ORDER_TRANSITIONS, without `delivered`, which only the delivery route sets.
OrderTransitions == {
    <<"placed", "accepted", "seller">>,   <<"placed", "cancelled", "buyer">>,
    <<"placed", "cancelled", "seller">>,  <<"placed", "cancelled", "moderator">>,
    <<"accepted", "cancelled", "seller">>, <<"accepted", "cancelled", "moderator">>,
    <<"accepted", "disputed", "buyer">>,  <<"delivered", "completed", "buyer">>,
    <<"delivered", "disputed", "buyer">>, <<"disputed", "completed", "moderator">>,
    <<"disputed", "cancelled", "moderator">>}

NoOrder == [status |-> "none", buyer |-> None, seller |-> None, price |-> 0]
NoBond  == [pico |-> 0, cooled |-> TRUE]
Idle    == [op |-> "idle"]

Init ==
    /\ balances = [a \in Users \cup {Platform} |->
                      [available |-> IF a = Platform THEN 0 ELSE Funds, held |-> 0]]
    /\ orders = [o \in Orders |-> NoOrder]
    /\ files = {}
    /\ reports = [o \in Orders |-> 0]
    /\ complained = {}
    /\ bonds = [s \in Sellers |-> NoBond]
    /\ entries = [o \in Orders |-> [settled |-> 0, released |-> 0]]
    /\ compensations = [o \in Orders |-> 0]
    /\ calls = [c \in Calls |-> Idle]

\* The first half of a handler: its reads, and the checks made on them.
Begin(c, call) ==
    /\ calls[c] = Idle
    /\ calls' = [calls EXCEPT ![c] = call]
    /\ UNCHANGED <<balances, orders, files, reports, complained, bonds, entries, compensations>>

Finish(c) == calls' = [calls EXCEPT ![c] = Idle]

Refuse(c) ==
    /\ calls[c] # Idle
    /\ Finish(c)
    /\ UNCHANGED <<balances, orders, files, reports, complained, bonds, entries, compensations>>

Moves(moves) == Covered(balances, moves) /\ balances' = Apply(balances, moves)

-----------------------------------------------------------------------------
(* Placing an order *)

\* The listing is read at its current price; what the seller does to it later
\* does not reach this request.
LookAtListing(c, buyer, seller, price) ==
    /\ buyer # seller
    /\ Begin(c, [op |-> "place", buyer |-> buyer, seller |-> seller, price |-> price])

\* orders_one_open_per_listing
NoneOpen(buyer, seller) ==
    ~\E o \in Orders : /\ orders[o].buyer = buyer /\ orders[o].seller = seller
                       /\ orders[o].status \in OpenStatus

PlaceOrder(c, o) ==
    LET r == calls[c]
    IN  /\ r.op = "place"
        /\ orders[o] = NoOrder
        /\ NoneOpen(r.buyer, r.seller)
        /\ orders' = [orders EXCEPT ![o] = [status |-> "placed", buyer |-> r.buyer,
                                            seller |-> r.seller, price |-> r.price]]
        /\ Moves(Hold(r.buyer, r.price))
        /\ Finish(c)
        /\ UNCHANGED <<files, reports, complained, bonds, entries, compensations>>

-----------------------------------------------------------------------------
(* The status route *)

AuthoriseMove(c, o, to) ==
    \E role \in {"buyer", "seller", "moderator"} :
        /\ <<orders[o].status, to, role>> \in OrderTransitions
        /\ Begin(c, [op |-> "move", order |-> o, from |-> orders[o].status, to |-> to,
                     settling |-> orders[o].status = "disputed" /\ role = "moderator"])

\* The compare-and-swap on the status that was authorised.
BugStillIn(o, from) == orders[o].status \in OpenStatus
BugSwap(o, from) == TRUE
StillIn(o, from) == orders[o].status = from

\* settleOrder() and releaseHold().
Settlement(o) ==
    LET price == orders[o].price
        fee == FeeFor(price, FeeBps)
    IN  And(Spend(orders[o].buyer, price),
            And(Credit(orders[o].seller, price - fee), Credit(Platform, fee)))
BugOutcome(o, to) ==
    IF to \in Ended THEN Unhold(orders[o].buyer, orders[o].price) ELSE [a \in {} |-> Movement(0, 0)]
Outcome(o, to) ==
    CASE to = "completed" -> Settlement(o)
      [] to = "cancelled" -> Unhold(orders[o].buyer, orders[o].price)
      [] OTHER -> [a \in {} |-> Movement(0, 0)]

FilesAfter(o, to) == IF to \in Ended THEN files \ {o} ELSE files

MoveOrder(c) ==
    LET r == calls[c]
        o == r.order
    IN  /\ r.op = "move"
        /\ StillIn(o, r.from)
        /\ orders' = [orders EXCEPT ![o].status = r.to]
        /\ files' = FilesAfter(o, r.to)
        /\ Moves(Outcome(o, r.to))
        /\ entries' = CASE r.to = "completed" -> [entries EXCEPT ![o].settled = @ + 1]
                        [] r.to = "cancelled" -> [entries EXCEPT ![o].released = @ + 1]
                        [] OTHER -> entries
        /\ reports' = CASE r.to = "disputed" -> [reports EXCEPT ![o] = @ + 1]
                        [] r.settling -> [reports EXCEPT ![o] = 0]
                        [] OTHER -> reports
        /\ complained' = IF r.to = "disputed" THEN complained \cup {o} ELSE complained
        /\ Finish(c)
        /\ UNCHANGED <<bonds, compensations>>

-----------------------------------------------------------------------------
(* Delivery *)

AuthoriseDelivery(c, o, file) ==
    /\ orders[o].status = "accepted"
    /\ Begin(c, [op |-> "deliver", order |-> o, file |-> file])

\* deliveries.order_id is unique; a manual delivery stores nothing.
Deliver(c) ==
    LET o == calls[c].order
    IN  /\ calls[c].op = "deliver"
        /\ calls[c].file => o \notin files
        /\ StillIn(o, "accepted")
        /\ files' = IF calls[c].file THEN files \cup {o} ELSE files
        /\ orders' = [orders EXCEPT ![o].status = "delivered"]
        /\ Finish(c)
        /\ UNCHANGED <<balances, reports, complained, bonds, entries, compensations>>

\* The buyer acknowledges the file, or it expires and a sweep removes it.
ForgetFile(o) ==
    /\ o \in files
    /\ files' = files \ {o}
    /\ UNCHANGED <<balances, orders, reports, complained, bonds, entries, compensations, calls>>

-----------------------------------------------------------------------------
(* Reports *)

\* The buyer reports the order; a report by anyone else holds nothing.
Report(o) ==
    /\ orders[o].status # "none"
    /\ reports[o] < MaxReports
    /\ reports' = [reports EXCEPT ![o] = @ + 1]
    /\ complained' = complained \cup {o}
    /\ UNCHANGED <<balances, orders, files, bonds, entries, compensations, calls>>

\* A moderator resolves one: the guarded UPDATE makes a second try a 409.
ResolveReport(o) ==
    /\ reports[o] > 0
    /\ reports' = [reports EXCEPT ![o] = @ - 1]
    /\ UNCHANGED <<balances, orders, files, complained, bonds, entries, compensations, calls>>

-----------------------------------------------------------------------------
(* The seller's bond *)

PostBond(s, stake) ==
    /\ Moves(Hold(s, stake))
    /\ bonds' = [bonds EXCEPT ![s] = [pico |-> @.pico + stake, cooled |-> FALSE]]
    /\ UNCHANGED <<orders, files, reports, complained, entries, compensations, calls>>

CoolOff(s) ==
    /\ ~bonds[s].cooled
    /\ bonds' = [bonds EXCEPT ![s].cooled = TRUE]
    /\ UNCHANGED <<balances, orders, files, reports, complained, entries, compensations, calls>>

OrdersOf(s) == {o \in Orders : orders[o].seller = s}
OpenDisputeCount(s) == Cardinality({o \in OrdersOf(s) : orders[o].status = "disputed"})
OpenReportCount(s) == Total([o \in OrdersOf(s) |-> reports[o]])

CheckRelease(c, s) ==
    /\ bonds[s].pico # 0 /\ bonds[s].cooled
    /\ OpenDisputeCount(s) = 0 /\ OpenReportCount(s) = 0
    /\ Begin(c, [op |-> "release", seller |-> s])

\* Re-read, compare-and-swap, credit: one of two racing releases finds zero.
ReleaseBond(c) ==
    LET s == calls[c].seller
    IN  /\ calls[c].op = "release"
        /\ bonds[s].pico # 0
        /\ Moves(Unhold(s, bonds[s].pico))
        /\ bonds' = [bonds EXCEPT ![s] = NoBond]
        /\ Finish(c)
        /\ UNCHANGED <<orders, files, reports, complained, entries, compensations>>

CheckClaim(c, o, amount) ==
    /\ orders[o].status = "completed"
    /\ o \in complained
    /\ compensations[o] = 0
    /\ Begin(c, [op |-> "claim", order |-> o, amount |-> amount])

BondAfter(s, amount) == [bonds[s] EXCEPT !.pico = @ - amount]

\* The guarded debit of the bond, then both movements.
ClaimBond(c) ==
    LET r == calls[c]
        s == orders[r.order].seller
    IN  /\ r.op = "claim"
        /\ bonds[s].pico >= r.amount
        /\ bonds' = [bonds EXCEPT ![s] = BondAfter(s, r.amount)]
        /\ Moves(And(Spend(s, r.amount), Credit(orders[r.order].buyer, r.amount)))
        /\ compensations' = [compensations EXCEPT ![r.order] = @ + 1]
        /\ Finish(c)
        /\ UNCHANGED <<orders, files, reports, complained, entries>>

-----------------------------------------------------------------------------

Next ==
    \/ \E c \in Calls :
          \/ \E buyer \in Users, seller \in Sellers, price \in Prices :
                LookAtListing(c, buyer, seller, price)
          \/ \E o \in Orders : \/ PlaceOrder(c, o)
                               \/ \E to \in OpenStatus \cup Ended : AuthoriseMove(c, o, to)
                               \/ \E file \in BOOLEAN : AuthoriseDelivery(c, o, file)
                               \/ \E amount \in 1..orders[o].price : CheckClaim(c, o, amount)
          \/ \E s \in Sellers : CheckRelease(c, s)
          \/ MoveOrder(c) \/ Deliver(c) \/ ReleaseBond(c) \/ ClaimBond(c) \/ Refuse(c)
    \/ \E o \in Orders : ForgetFile(o) \/ Report(o) \/ ResolveReport(o)
    \/ \E s \in Sellers : CoolOff(s) \/ \E stake \in Stakes : PostBond(s, stake)

Spec == Init /\ [][Next]_vars

-----------------------------------------------------------------------------
(* Properties *)

Committed(u) ==
    Total([o \in {x \in Orders : orders[x].buyer = u
                      /\ orders[x].status \in {"placed", "accepted", "delivered", "disputed"}}
              |-> orders[o].price])

\* Whichever of the racing requests won: what is held on an account is what it
\* has committed, the prices of its open orders as a buyer and its bond as a
\* seller, to the pico; orders, fees, bonds and compensations only move money
\* between accounts, none of which is ever negative; and the escrow of an order
\* is ended once, in the way its status says.  (ledger.ts: settleOrder,
\* releaseHold; bonds.ts; the guarded updates of market.ts)
MoneyAccounted ==
    /\ balances \in [Users \cup {Platform} -> Account]
    /\ \A u \in Users :
           balances[u].held = Committed(u) + (IF u \in Sellers THEN bonds[u].pico ELSE 0)
    /\ Total([a \in Users \cup {Platform} |-> balances[a].available + balances[a].held])
           = Funds * Cardinality(Users)
    /\ \A o \in Orders :
           /\ entries[o].settled = IF orders[o].status = "completed" THEN 1 ELSE 0
           /\ entries[o].released = IF orders[o].status = "cancelled" THEN 1 ELSE 0

\* An order that ended stays ended and its file is gone, also when its delivery
\* was under way; one under dispute is ended by a moderator who looked at the
\* dispute, never by a request authorised before it.  (market.ts: orders/:id/
\* status; deliveries.ts)
OrdersEndForGood ==
    [][/\ \A o \in files' : orders'[o].status \in {"delivered", "disputed"}
       /\ \A o \in Orders :
             orders'[o].status # orders[o].status =>
                /\ orders[o].status \notin {"completed", "cancelled"}
                /\ orders[o].status = "disputed" =>
                      \E c \in Calls : /\ calls[c].op = "move" /\ calls[c].order = o
                                       /\ calls[c].settling /\ calls'[c] # calls[c]]_vars

\* The order's two sides see Trade: set-asides, files, reports and bonds are how
\* it is kept.
Bargain == INSTANCE Trade WITH
    Deals <- Orders,
    wealth <- [a \in Users \cup {Platform} |-> balances[a].available + balances[a].held],
    deal <- [o \in Orders |->
               [state |-> CASE orders[o].status = "none" -> "none"
                            [] orders[o].status = "completed" -> "paid"
                            [] orders[o].status = "cancelled" -> "returned"
                            [] OTHER -> "open",
                buyer |-> orders[o].buyer, seller |-> orders[o].seller, price |-> orders[o].price]]
KeepsTrade == Bargain!Spec

\* "One order, one compensation" (lib/bonds.ts).
CompensatedOnce == \A o \in Orders : compensations[o] <= 1

\* "A bond cannot leave while one exists" (lib/bonds.ts), one being a dispute on
\* one of the seller's orders; the same is said of the buyer's open reports.
BondStaysUnderDispute ==
    [][\A s \in Sellers :
          /\ bonds'[s].pico < bonds[s].pico
          /\ \E c \in Calls : calls[c].op = "release" /\ calls'[c] # calls[c]
          => OpenDisputeCount(s) = 0]_vars

=============================================================================
