------------------------------ MODULE Market -------------------------------
(***************************************************************************)
(* A seller's standing and listings: the level earned by settled sales,    *)
(* lost to dormancy and suspensions, and the key the catalogue sorts by.   *)
(*                                                                         *)
(* Code: src/server/lib/reputation.ts; the listing routes of               *)
(* src/server/routes/market.ts; suspension and removal in                  *)
(* src/server/routes/moderation.ts; the daily job of src/server/main.ts.   *)
(*                                                                         *)
(* Only a sale writes standing inside a transaction.  On PostgreSQL its    *)
(* first statement locks the seller's row, so the transaction is one step. *)
(* On SQLite a statement outside any transaction runs on the same handle   *)
(* at once, between the statements of the one that is open.                *)
(***************************************************************************)
EXTENDS Naturals, FiniteSets, FiniteSetsExt

CONSTANTS
    Listings,     \* ids newId() may hand out for listings
    Tasks,        \* slots for requests and jobs under way
    Levels,       \* LEVELS: level -> settled and completed it takes
    Earnings,     \* what a sale earns the seller
    DecayDays,    \* SELLER_LEVEL_DECAY_DAYS
    MaxPenalty,   \* the cap of level_penalty, which is 3
    Seasons       \* bound: the database, and the sales, days and calls of a behaviour

ASSUME NumbersAssumption ==
    /\ DecayDays \in Nat \ {0}
    /\ {Earnings, MaxPenalty} \subseteq Nat
    /\ \A s \in Seasons :
           s.database \in {"sqlite", "postgres"} /\ {s.sales, s.days, s.calls} \subseteq Nat
ASSUME LevelsAssumption ==
    /\ IsFiniteSet(DOMAIN Levels) /\ DOMAIN Levels = 1..Cardinality(DOMAIN Levels)
    /\ \A n \in DOMAIN Levels : {Levels[n].settled, Levels[n].orders} \subseteq Nat

VARIABLES
    season,       \* the bounds of this behaviour, and its database
    date,         \* today(), from 1
    seller,       \* the row of sellers
    completed,    \* completed orders of the seller
    listings,     \* id -> status and the level in its rank_key
    sale,         \* the transaction of a settling sale, on SQLite
    tasks,        \* slot -> request or job under way
    turns,        \* calls so far
    suspensions,  \* suspensions so far, for the properties
    overlapped    \* two writers of standing have been under way at once

marketVars == <<season, date, seller, completed, listings, sale, tasks, turns, suspensions, overlapped>>

NoTask == [op |-> "idle", step |-> "idle"]
NoSale == [step |-> "none"]
NoListing == [status |-> "none", rank |-> 0]

MarketInit ==
    /\ season \in Seasons
    /\ date = 1
    /\ seller = [settled |-> 0, level |-> 0, penalty |-> 0, lastSettled |-> 0, status |-> "active"]
    /\ completed = 0
    /\ listings = [l \in Listings |-> NoListing]
    /\ sale = NoSale
    /\ tasks = [t \in Tasks |-> NoTask]
    /\ turns = 0
    /\ suspensions = 0
    /\ overlapped = FALSE

-----------------------------------------------------------------------------
(* Standing *)

LevelFor(settled, orders) ==
    Max({0} \cup {n \in DOMAIN Levels : settled >= Levels[n].settled /\ orders >= Levels[n].orders})

Minus(a, b) == IF a > b THEN a - b ELSE 0

\* Dormancy takes a step per DecayDays since the last sale; a day of 0 is null.
StandingLevel(row, orders, today) ==
    LET idle == IF row.lastSettled = 0 THEN 0 ELSE Minus(today, row.lastSettled) \div DecayDays
    IN  Minus(LevelFor(row.settled, orders), idle + row.penalty)

CompletedOrders == completed

Ranked(level) ==
    [l \in Listings |-> IF listings[l] = NoListing THEN NoListing
                        ELSE [listings[l] EXCEPT !.rank = level]]

\* The sale and the clock in one statement.
Counted(row) == [row EXCEPT !.settled = @ + Earnings, !.lastSettled = date]

Writing == {t \in Tasks : tasks[t] # NoTask /\ tasks[t].op # "edit"}

\* recordSettledSale, inside the transaction that settles the order: the row,
\* then the level and the rank keys when the level changes.
SettleSale ==
    LET row == Counted(seller)
        level == StandingLevel(row, CompletedOrders + 1, date)
    IN  /\ season.database = "postgres"
        /\ completed < season.sales
        /\ completed' = completed + 1
        /\ seller' = [row EXCEPT !.level = level]
        /\ listings' = IF level = seller.level THEN listings ELSE Ranked(level)
        /\ overlapped' = (overlapped \/ Writing # {})
        /\ UNCHANGED <<season, date, sale, tasks, turns, suspensions>>

SettleRow ==
    /\ season.database = "sqlite"
    /\ sale = NoSale
    /\ completed < season.sales
    /\ completed' = completed + 1
    /\ seller' = Counted(seller)
    /\ sale' = [step |-> "level", row |-> seller', level |-> 0]
    /\ overlapped' = (overlapped \/ Writing # {})
    /\ UNCHANGED <<season, date, listings, tasks, turns, suspensions>>

SettleLevel ==
    LET level == StandingLevel(sale.row, CompletedOrders, sale.row.lastSettled)
    IN  /\ sale # NoSale /\ sale.step = "level"
        /\ seller' = [seller EXCEPT !.level = IF level = sale.row.level THEN @ ELSE level]
        /\ sale' = IF level = sale.row.level THEN NoSale ELSE [sale EXCEPT !.step = "rank", !.level = level]
        /\ UNCHANGED <<season, date, completed, listings, tasks, turns, suspensions, overlapped>>

SettleRank ==
    /\ sale # NoSale /\ sale.step = "rank"
    /\ listings' = Ranked(sale.level)
    /\ sale' = NoSale
    /\ UNCHANGED <<season, date, seller, completed, tasks, turns, suspensions, overlapped>>

-----------------------------------------------------------------------------
(* Writers of standing outside a transaction *)

Takes(t) == tasks[t] = NoTask /\ turns < season.calls /\ turns' = turns + 1
Turns(t, r) == tasks' = [tasks EXCEPT ![t] = r]
Crosses == overlapped' = (overlapped \/ Writing # {} \/ sale # NoSale)

\* decaySellerLevels looks at sellers who have a level to lose.
Decay(t) ==
    /\ Takes(t)
    /\ seller.level > 0
    /\ Turns(t, [op |-> "decay", step |-> "count", row |-> seller, level |-> 0, today |-> date])
    /\ Crosses
    /\ UNCHANGED <<season, date, seller, completed, listings, sale, suspensions>>

\* A suspension: the seller's row is suspended, then loses a level for good.
Suspend(t) ==
    /\ Takes(t)
    /\ seller' = [seller EXCEPT !.status = "suspended"]
    /\ Turns(t, [op |-> "suspend", step |-> "penalty", row |-> seller, level |-> 0])
    /\ suspensions' = suspensions + 1
    /\ Crosses
    /\ UNCHANGED <<season, date, completed, listings, sale>>

\* The UPDATE adds to what the row holds now, not to what the handler saw of it.
Penalty(row) == IF seller.penalty < MaxPenalty THEN seller.penalty + 1 ELSE MaxPenalty

Penalise(t) ==
    /\ tasks[t].step = "penalty"
    /\ seller' = [seller EXCEPT !.penalty = Penalty(tasks[t].row)]
    /\ Turns(t, [tasks[t] EXCEPT !.step = "count", !.row = seller'])
    /\ UNCHANGED <<season, date, completed, listings, sale, turns, suspensions, overlapped>>

Reinstate(t) ==
    /\ Takes(t)
    /\ seller' = [seller EXCEPT !.status = "active"]
    /\ Turns(t, [op |-> "reinstate", step |-> "count", row |-> seller', level |-> 0])
    /\ Crosses
    /\ UNCHANGED <<season, date, completed, listings, sale, suspensions>>

\* The level follows from the row read first and the orders counted now.
CountOrders(t) ==
    LET r == tasks[t]
        level == StandingLevel(r.row, CompletedOrders, IF r.op = "decay" THEN r.today ELSE date)
    IN  /\ r.step = "count"
        /\ Turns(t, IF level = r.row.level THEN NoTask ELSE [r EXCEPT !.step = "level", !.level = level])
        /\ UNCHANGED <<season, date, seller, completed, listings, sale, turns, suspensions, overlapped>>

\* writeLevel: the row, then the listings.
WriteLevel(t) ==
    /\ tasks[t].step = "level"
    /\ seller' = [seller EXCEPT !.level = tasks[t].level]
    /\ Turns(t, [tasks[t] EXCEPT !.step = "rank"])
    /\ UNCHANGED <<season, date, completed, listings, sale, turns, suspensions, overlapped>>

BugRerank(level) == listings
Rerank(level) == Ranked(level)

WriteRank(t) ==
    /\ tasks[t].step = "rank"
    /\ listings' = Rerank(tasks[t].level)
    /\ Turns(t, NoTask)
    /\ UNCHANGED <<season, date, seller, completed, sale, turns, suspensions, overlapped>>

-----------------------------------------------------------------------------
(* Listings *)

\* requireSeller reads status and level; the listing is inserted later.
BeginListing(t) ==
    /\ Takes(t)
    /\ seller.status = "active"
    /\ Turns(t, [op |-> "create", step |-> "insert", level |-> seller.level])
    /\ Crosses
    /\ UNCHANGED <<season, date, seller, completed, listings, sale, suspensions>>

InsertNewListing(t) ==
    \E l \in Listings :
        /\ tasks[t].step = "insert"
        /\ listings[l] = NoListing
        /\ listings' = [listings EXCEPT ![l] = [status |-> "active", rank |-> tasks[t].level]]
        /\ Turns(t, NoTask)
        /\ UNCHANGED <<season, date, seller, completed, sale, turns, suspensions, overlapped>>

BugEditable(l) == listings[l].status # "none"
Editable(l) == listings[l].status \in {"active", "paused"}

\* PATCH: the status is read, then written; `overtaken` when a removal came between.
BeginEdit(t, l) ==
    /\ Takes(t)
    /\ Editable(l)
    /\ Turns(t, [op |-> "edit", step |-> "edit", listing |-> l, overtaken |-> FALSE])
    /\ UNCHANGED <<season, date, seller, completed, listings, sale, suspensions, overlapped>>

EditListing(t) ==
    \E status \in {"active", "paused"} :
        /\ tasks[t].step = "edit"
        /\ listings' = [listings EXCEPT ![tasks[t].listing].status = status]
        /\ Turns(t, NoTask)
        /\ UNCHANGED <<season, date, seller, completed, sale, turns, suspensions, overlapped>>

RemoveListing(l) ==
    /\ listings[l] # NoListing
    /\ turns < season.calls /\ turns' = turns + 1
    /\ listings' = [listings EXCEPT ![l].status = "removed"]
    /\ tasks' = [t \in Tasks |-> IF tasks[t].op = "edit" /\ tasks[t].listing = l
                                 THEN [tasks[t] EXCEPT !.overtaken = TRUE] ELSE tasks[t]]
    /\ UNCHANGED <<season, date, seller, completed, sale, suspensions, overlapped>>

NextDay ==
    /\ date < season.days
    /\ date' = date + 1
    /\ UNCHANGED <<season, seller, completed, listings, sale, tasks, turns, suspensions, overlapped>>

MarketNext ==
    \/ SettleSale \/ SettleRow \/ SettleLevel \/ SettleRank \/ NextDay
    \/ \E t \in Tasks :
           \/ Decay(t) \/ Suspend(t) \/ Penalise(t) \/ Reinstate(t)
           \/ CountOrders(t) \/ WriteLevel(t) \/ WriteRank(t)
           \/ BeginListing(t) \/ InsertNewListing(t) \/ EditListing(t)
           \/ \E l \in Listings : BeginEdit(t, l)
    \/ \E l \in Listings : RemoveListing(l)

MarketSpec == MarketInit /\ [][MarketNext]_marketVars

-----------------------------------------------------------------------------
(* Properties *)

\* Whatever overlaps, no settled sale and no suspension goes uncounted, and a
\* level written from a row that is out of date, which may be too low for a
\* while or too high by a step of dormancy or penalty, is never above what the
\* sales so far have earned.  At rest every listing sorts by the level the
\* profile shows, unless two writers of standing, or one and a new listing, were
\* under way at once.  (reputation.ts: recordSettledSale, penaliseSellerStanding,
\* decaySellerLevels, every caller of writeLevel; market.ts: POST listings)
StandingIsEarned ==
    LET pending == Cardinality({t \in Tasks : tasks[t].step = "penalty"})
    IN  /\ seller.settled = Earnings * completed
        /\ seller.penalty = Min({MaxPenalty, suspensions - pending})
        /\ seller.level <= LevelFor(seller.settled, completed)
        /\ (~overlapped /\ Writing = {} /\ sale = NoSale) =>
               \A l \in Listings : listings[l] # NoListing => listings[l].rank = seller.level

\* A listing moderation removed comes back only by an edit that was under way
\* when it was removed.  (market.ts: PATCH listings; moderation.ts: remove)
RemovedStays ==
    [][\A l \in Listings :
          listings[l].status = "removed" /\ listings'[l].status # "removed" =>
              \E t \in Tasks : tasks[t].step = "edit" /\ tasks[t].listing = l /\ tasks[t].overtaken]_marketVars

=============================================================================
