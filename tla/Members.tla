------------------------------ MODULE Members ------------------------------
(***************************************************************************)
(* Accounts as they come and go, and what hangs on them: the founder's     *)
(* role, money, orders, and the record that orders and reviews make.       *)
(*                                                                         *)
(* Code: registration and deletion in src/server/routes/auth.ts; placing   *)
(* an order and reviewing it in routes/market.ts; hiding a review in       *)
(* routes/moderation.ts; the ratings of lib/reputation.ts.                 *)
(*                                                                         *)
(* A handler looks, and then commits one transaction; others commit in     *)
(* between.  What an order does while it runs is Escrow's: here a party    *)
(* moves it and its money in one step.  Every account of 1..sellers sells. *)
(***************************************************************************)
EXTENDS Naturals, FiniteSets

CONSTANTS
    Names,      \* user names
    Slots,      \* requests under way
    Stories     \* bound: who is there, and what may happen how often

ASSUME StoriesAssumption ==
    \A s \in Stories : {s.there, s.sellers, s.coins, s.births, s.orders} \subseteq Nat

VARIABLES
    story,      \* the bounds of this behaviour
    users,      \* rows of users, with their row of balances
    claimed,    \* bootstrap_claims holds 'admin'
    orders,     \* rows of orders
    events,     \* rows of order_events that tell of a dispute
    reviews,    \* rows of reviews
    pending,   \* slot -> request under way
    born, placed    \* accounts and orders made so far

memberVars == <<story, users, claimed, orders, events, reviews, pending, born, placed>>

NotAsked == [op |-> "none"]
Open == {"placed", "disputed"}    \* or accepted, or delivered
User(id, name, admin, available) ==
    [id |-> id, name |-> name, admin |-> admin, available |-> available, held |-> 0]

\* A deployment before its first account, or one where the first few have money.
MembersInit ==
    /\ story \in Stories
    /\ \E name \in [1..story.there -> Names] :
           /\ \A i, j \in 1..story.there : name[i] = name[j] => i = j
           /\ users = {User(i, name[i], i = 1, story.coins) : i \in 1..story.there}
    /\ claimed = (story.there > 0)
    /\ orders = {} /\ events = {} /\ reviews = {}
    /\ pending = [s \in Slots |-> NotAsked]
    /\ born = story.there /\ placed = 0

May(what) == what \in story.may
Asks(s, request) == pending[s] = NotAsked /\ pending' = [pending EXCEPT ![s] = request]
Ends(s) == pending' = [pending EXCEPT ![s] = NotAsked]
Is(s, op) == pending[s].op = op
Here(id) == \E u \in users : u.id = id
Taken(name) == \E u \in users : u.name = name
OrdersOf(id) == {o \in orders : id \in {o.buyer, o.seller}}

\* Money that reaches an account, or an order that names it, while its deletion
\* is past the check: the note is kept with the deletion, for the properties.
Met(s, touched) ==
    IF Is(s, "delete") /\ pending[s].id \in touched
    THEN [pending[s] EXCEPT !.met = TRUE] ELSE pending[s]
Meets(touched) == pending' = [s \in Slots |-> Met(s, touched)]

\* The balances after `change' is added to what an account has.
Pay(id, change) ==
    {IF u.id = id THEN [u EXCEPT !.available = @ + change] ELSE u : u \in users}

-----------------------------------------------------------------------------
(* Registration *)

\* The name is looked up, and the password is hashed before anything is written.
AskRegister(s, name) ==
    /\ May("register")
    /\ ~Taken(name)
    /\ Asks(s, [op |-> "register", name |-> name])
    /\ UNCHANGED <<story, users, claimed, orders, events, reviews, born, placed>>

\* One transaction: the claim, which only the first takes, then the row.  A name
\* that was taken meanwhile takes the claim back with it.
CommitRegister(s) ==
    LET name == pending[s].name
    IN  /\ Is(s, "register")
        /\ born < story.births
        /\ IF Taken(name)
           THEN UNCHANGED <<users, born, claimed>>
           ELSE /\ users' = users \cup {User(born + 1, name, ~claimed, 0)}
                /\ claimed' = TRUE
                /\ born' = born + 1
        /\ Ends(s)
        /\ UNCHANGED <<story, orders, events, reviews, placed>>

-----------------------------------------------------------------------------
(* Money and orders *)

\* A top-up is credited, or a payout of everything leaves: Payouts, Deposits.
MoveMoney(u) ==
    /\ May("money")
    /\ \/ /\ u.available = 0
          /\ users' = Pay(u.id, 1)
          /\ Meets({u.id})
       \/ /\ u.available > 0
          /\ users' = Pay(u.id, 0 - u.available)
          /\ UNCHANGED pending
    /\ UNCHANGED <<story, claimed, orders, events, reviews, born, placed>>

\* The listing is read, and with it who sells it.
AskOrder(s, buyer, seller) ==
    /\ placed < story.orders
    /\ seller # buyer /\ seller \in 1..story.sellers
    /\ Here(buyer) /\ Here(seller)
    /\ Asks(s, [op |-> "order", buyer |-> buyer, seller |-> seller])
    /\ UNCHANGED <<story, users, claimed, orders, events, reviews, born, placed>>

\* The order and its hold; nothing when a party is gone or the money is.
PlaceOrder(s) ==
    LET buyer == pending[s].buyer
        seller == pending[s].seller
        paid == {[u EXCEPT !.available = @ - 1, !.held = @ + 1] : u \in {v \in users : v.id = buyer}}
        goes == Here(seller) /\ \E u \in users : u.id = buyer /\ u.available > 0
    IN  /\ Is(s, "order")
        /\ placed < story.orders
        /\ IF goes
           THEN /\ placed' = placed + 1
                /\ orders' = orders \cup {[id |-> placed + 1, buyer |-> buyer, seller |-> seller,
                                           status |-> "placed"]}
                /\ users' = {u \in users : u.id # buyer} \cup paid
           ELSE UNCHANGED <<placed, orders, users>>
        /\ pending' = [t \in Slots |->
               IF t = s THEN NotAsked
               ELSE IF goes /\ pending[t].op = "delete" /\ pending[t].checked
               THEN Met(t, {buyer, seller}) ELSE pending[t]]
        /\ UNCHANGED <<story, claimed, events, reviews, born>>

SetStatus(o, status) == orders' = (orders \ {o}) \cup {[o EXCEPT !.status = status]}

\* The buyer argues; who did is written down.
DisputeOrder(o) ==
    /\ May("dispute")
    /\ o.status = "placed"
    /\ SetStatus(o, "disputed")
    /\ events' = events \cup {[order |-> o.id, actor |-> o.buyer]}
    /\ UNCHANGED <<story, users, claimed, reviews, pending, born, placed>>

\* Completed, the hold is the seller's; cancelled, it is the buyer's again.
EndOrder(o, status) ==
    LET paid == IF status = "completed" THEN o.seller ELSE o.buyer
    IN  /\ o.status \in Open
        /\ SetStatus(o, status)
        /\ users' = {[u EXCEPT !.held = IF u.id = o.buyer THEN @ - 1 ELSE @,
                               !.available = IF u.id = paid THEN @ + 1 ELSE @] : u \in users}
        /\ Meets({paid})
        /\ UNCHANGED <<story, claimed, events, reviews, born, placed>>

-----------------------------------------------------------------------------
(* Deletion *)

\* The password, then the balance, then the orders of either side.
AskDelete(s, u) ==
    /\ May("delete")
    /\ u.available = 0 /\ u.held = 0
    /\ Asks(s, [op |-> "delete", id |-> u.id, met |-> FALSE, checked |-> FALSE])
    /\ UNCHANGED <<story, users, claimed, orders, events, reviews, born, placed>>

BugUnfinished(id) == {o \in orders : o.buyer = id /\ o.status \in Open}
Unfinished(id) == {o \in OrdersOf(id) : o.status \in Open}

CheckOrders(s) ==
    /\ Is(s, "delete") /\ ~pending[s].checked
    /\ IF Unfinished(pending[s].id) = {}
       THEN pending' = [pending EXCEPT ![s].checked = TRUE]
       ELSE Ends(s)
    /\ UNCHANGED <<story, users, claimed, orders, events, reviews, born, placed>>

\* The row, and by cascade the balance, the orders of either side, what their
\* events tell, and the reviews of them.
DeleteAccount(s) ==
    LET id == pending[s].id
        left == orders \ OrdersOf(id)
        kept == {o.id : o \in left}
    IN  /\ Is(s, "delete") /\ pending[s].checked
        /\ users' = {u \in users : u.id # id}
        /\ orders' = left
        /\ events' = {e \in events : e.order \in kept /\ e.actor # id}
        /\ reviews' = {r \in reviews : r.order \in kept}
        /\ Ends(s)
        /\ UNCHANGED <<story, claimed, born, placed>>

\* A handler may fail on the way: nothing of it is written.
Fail(s) ==
    /\ May("fail")
    /\ pending[s] # NotAsked
    /\ Ends(s)
    /\ UNCHANGED <<story, users, claimed, orders, events, reviews, born, placed>>

-----------------------------------------------------------------------------
(* Reviews *)

\* A completed order, by its buyer, not yet reviewed.
AskReview(s, o) ==
    /\ May("review")
    /\ o.status = "completed"
    /\ \A r \in reviews : r.order # o.id
    /\ Asks(s, [op |-> "review", order |-> o])
    /\ UNCHANGED <<story, users, claimed, orders, events, reviews, born, placed>>

\* The schema takes one review of an order that is there.
InsertReview(s) ==
    LET o == pending[s].order
    IN  /\ Is(s, "review")
        /\ reviews' = IF o \in orders /\ \A r \in reviews : r.order # o.id
                      THEN reviews \cup {[order |-> o.id, seller |-> o.seller, author |-> o.buyer,
                                          visible |-> TRUE]}
                      ELSE reviews
        /\ Ends(s)
        /\ UNCHANGED <<story, users, claimed, orders, events, born, placed>>

HideReview(r) ==
    /\ May("review")
    /\ r.visible
    /\ reviews' = (reviews \ {r}) \cup {[r EXCEPT !.visible = FALSE]}
    /\ UNCHANGED <<story, users, claimed, orders, events, pending, born, placed>>

\* ratingOver: of each author, the visible review of their latest order.
Visible(seller) == {r \in reviews : r.seller = seller /\ r.visible}
Newer(seller, r) == {q \in Visible(seller) : q.author = r.author /\ q.order > r.order}
Voices(seller) == {r \in Visible(seller) : Newer(seller, r) = {}}

\* sellerReputation: disputes at any point, whichever way they were settled.
Disputed(seller) ==
    {o.id : o \in {p \in orders : p.seller = seller /\ \E e \in events : e.order = p.id}}

MembersNext ==
    \/ \E s \in Slots :
           \/ \E name \in Names : AskRegister(s, name)
           \/ CommitRegister(s)
           \/ \E u, v \in users : AskOrder(s, u.id, v.id)
           \/ PlaceOrder(s)
           \/ \E u \in users : AskDelete(s, u)
           \/ CheckOrders(s) \/ DeleteAccount(s) \/ Fail(s)
           \/ \E o \in orders : AskReview(s, o)
           \/ InsertReview(s)
    \/ \E u \in users : MoveMoney(u)
    \/ \E o \in orders :
           DisputeOrder(o) \/ \E status \in {"completed", "cancelled"} : EndOrder(o, status)
    \/ \E r \in reviews : HideReview(r)

MembersSpec == MembersInit /\ [][MembersNext]_memberVars

-----------------------------------------------------------------------------
(* Properties *)

\* The first account ever made, and no other, was made an administrator, and the
\* claim says whether there was one.
OneFounder ==
    /\ claimed <=> born > 0
    /\ \A u \in users : u.admin <=> u.id = 1
    /\ \A u, v \in users : u.name = v.name => u = v

\* What an account holds is what its unfinished orders cost.
Backed(id) ==
    \A u \in users : u.id = id =>
        u.held = Cardinality({o \in orders : o.buyer = id /\ o.status \in Open})

\* An account that goes takes along no money of its own and no hold of anybody
\* else's, unless money or an order met its deletion on the way.
NothingDestroyed ==
    \/ \E s \in Slots : Is(s, "delete") /\ pending[s].met /\ pending'[s] = NotAsked
    \/ /\ \A u \in users : Backed(u.id) => Backed(u.id)'
       /\ \A u \in users : Here(u.id)' \/ (u.available = 0 /\ u.held = 0)

\* A seller is rated by buyers, each with one voice, for a completed order; and a
\* dispute counts for as long as both its parties are there.
RecordStands ==
    \A u \in users' :
        /\ \A v, w \in Voices(u.id)' : v.author = w.author => v = w
        /\ \A r \in Visible(u.id)' : \E v \in Voices(u.id)' : v.author = r.author
        /\ \A r \in Visible(u.id)' :
               \E o \in orders' : o.id = r.order /\ o.status = "completed" /\ o.buyer = r.author
        /\ \A o \in orders : o.id \in Disputed(u.id) /\ Here(o.buyer)' => o.id \in Disputed(u.id)'

\* However registrations, deletions, orders, payments and reviews overlap, the
\* deployment has one founder, no money is lost with an account, and a seller's
\* record tells what happened.  (auth.ts: register, delete, SEC-2026-002 and
\* SEC-2026-009; reputation.ts: ratingOver, sellerReputation)
AccountsComeAndGo == [][OneFounder' /\ NothingDestroyed /\ RecordStands]_memberVars

=============================================================================
