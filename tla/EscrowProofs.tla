---------------------------- MODULE EscrowProofs ----------------------------
(***************************************************************************)
(* What holds of Escrow for every number of users, orders and requests,    *)
(* and every price, stake and fee; and of Handover, that the goods of an   *)
(* order reach its buyer, for every deal, every number of tabs of the      *)
(* seller and every loss.                                                  *)
(***************************************************************************)
EXTENDS Escrow, Handover, LedgerProofs

-----------------------------------------------------------------------------
(* Types *)

Accounts == Users \cup {Platform}

OrderRow == {NoOrder} \cup
    {r \in [status : OpenStatus \cup Ended, buyer : Users, seller : Sellers, price : Nat] :
        r.buyer # r.seller}

Statuses == OpenStatus \cup Ended
Call == {Idle} \cup [op : {"place"}, buyer : Users, seller : Sellers, price : Prices]
               \cup [op : {"move"}, order : Orders, from : OpenStatus, to : Statuses, settling : BOOLEAN]
               \cup [op : {"deliver"}, order : Orders, file : BOOLEAN]
               \cup [op : {"release"}, seller : Sellers]
               \cup [op : {"claim"}, order : Orders, amount : Nat]

TypeOK ==
    /\ balances \in [Accounts -> Account]
    /\ orders \in [Orders -> OrderRow]
    /\ files \in SUBSET Orders
    /\ reports \in [Orders -> Nat]
    /\ complained \in SUBSET Orders
    /\ bonds \in [Sellers -> [pico : Nat, cooled : BOOLEAN]]
    /\ entries \in [Orders -> [settled : Nat, released : Nat]]
    /\ compensations \in [Orders -> Nat]
    /\ calls \in [Calls -> Call]

\* What a request in flight may still rely on: a buyer does not order from
\* himself, a transition is one of the table's, and a claim asks for no more than
\* the price of an order that was completed, which is for good.
CallOK(r) ==
    /\ r.op = "place" => r.buyer # r.seller
    /\ r.op = "move" => /\ \E role \in {"buyer", "seller", "moderator"} :
                              <<r.from, r.to, role>> \in OrderTransitions
                        /\ r.from = "disputed" => r.settling
    /\ r.op = "claim" => /\ orders[r.order].status = "completed"
                         /\ r.amount \in 1..orders[r.order].price

\* Files belong to orders that were delivered and have not ended.
FilesOK == \A o \in files : orders[o].status \in {"delivered", "disputed"}

TypeInv == TypeOK /\ (\A c \in Calls : CallOK(calls[c])) /\ FilesOK

\* The platform's share and the seller's add up to the price.
LEMMA FeeType ==
    ASSUME NEW price \in Nat
    PROVE  FeeFor(price, FeeBps) \in 0..price
<1>1. FeeBps \in Nat /\ FeeBps <= 10000
    BY PricesAssumption
<1>2. price * FeeBps \in Nat /\ price * FeeBps <= price * 10000
    BY <1>1
<1> DEFINE scaled == price * FeeBps
<1> HIDE DEF scaled
<1>3. ASSUME scaled \in Nat, scaled <= price * 10000
      PROVE  scaled \div 10000 \in 0..price
    BY <1>3
<1> QED BY <1>2, <1>3 DEF FeeFor, scaled

-----------------------------------------------------------------------------
(* What each use of the ledger does to the balances *)

Worth(b) == Total([a \in Accounts |-> b[a].available + b[a].held])

LEMMA AccountsFinite == IsFiniteSet(Accounts) /\ Platform \in Accounts /\ Users \subseteq Accounts
BY PeopleAssumption, FS_AddElement DEF Accounts

LEMMA WorthType ==
    ASSUME NEW b \in [Accounts -> Account]
    PROVE  /\ [a \in Accounts |-> b[a].available + b[a].held] \in [Accounts -> Nat]
           /\ Worth(b) \in Nat
<1>1. [a \in Accounts |-> b[a].available + b[a].held] \in [Accounts -> Nat]
    BY DEF Account
<1> QED BY <1>1, AccountsFinite, TotalType DEF Worth

\* One movement that sets money aside, or gives it back.
LEMMA SetAside ==
    ASSUME NEW b \in [Accounts -> Account], NEW u \in Accounts, NEW x \in Int,
           Covered(b, On(u, Movement(x, -x)))
    PROVE  LET after == Apply(b, On(u, Movement(x, -x)))
           IN  /\ after \in [Accounts -> Account]
               /\ after[u] = [available |-> b[u].available + x, held |-> b[u].held - x]
               /\ \A a \in Accounts \ {u} : after[a] = b[a]
               /\ Worth(after) = Worth(b)
<1> DEFINE after == Apply(b, On(u, Movement(x, -x)))
           f == [a \in Accounts |-> b[a].available + b[a].held]
           g == [a \in Accounts |-> after[a].available + after[a].held]
<1>1. -x \in Int
    OBVIOUS
<1>2. /\ after \in [Accounts -> Account]
      /\ after[u] = [available |-> b[u].available + x, held |-> b[u].held + (-x)]
      /\ \A a \in Accounts \ {u} : after[a] = b[a]
    BY <1>1, ApplyOne
<1>3. f \in [Accounts -> Nat] /\ g \in [Accounts -> Nat]
    BY <1>2, WorthType
<1>4. b[u] \in Account
    OBVIOUS
<1>5. g[u] = f[u] /\ \A a \in Accounts \ {u} : g[a] = f[a]
    BY <1>2, <1>4 DEF Account
<1>6. g = f
    BY <1>3, <1>5
<1>7. b[u].held + (-x) = b[u].held - x
    BY <1>4 DEF Account
<1> QED BY <1>2, <1>6, <1>7 DEF Worth

LEMMA HoldMoves ==
    ASSUME balances \in [Accounts -> Account], NEW u \in Accounts, NEW n \in Nat, Moves(Hold(u, n))
    PROVE  /\ balances' \in [Accounts -> Account]
           /\ balances'[u] = [available |-> balances[u].available - n, held |-> balances[u].held + n]
           /\ \A a \in Accounts \ {u} : balances'[a] = balances[a]
           /\ Worth(balances') = Worth(balances)
           /\ balances[u].available >= n
<1> DEFINE x == -n
<1>1. x \in Int /\ -x = n
    OBVIOUS
<1>2. Hold(u, n) = On(u, Movement(x, -x))
    BY <1>1 DEF Hold
<1>3. balances[u].available \in Nat /\ balances[u].held \in Nat
    BY DEF Account
<1>4. /\ balances' = Apply(balances, On(u, Movement(x, -x)))
      /\ Covered(balances, On(u, Movement(x, -x)))
    BY <1>2 DEF Moves
<1>5. balances[u].available + x >= 0
    BY <1>4 DEF Covered, On, Movement
<1>6. /\ balances[u].available + x = balances[u].available - n
      /\ balances[u].held - x = balances[u].held + n
    BY <1>3
<1> HIDE DEF x
<1>7. /\ balances' \in [Accounts -> Account]
      /\ balances'[u] = [available |-> balances[u].available + x, held |-> balances[u].held - x]
      /\ \A a \in Accounts \ {u} : balances'[a] = balances[a]
      /\ Worth(balances') = Worth(balances)
    BY <1>1, <1>4, SetAside
<1>8. balances[u].available >= n
    BY <1>3, <1>5, <1>6
<1> QED BY <1>6, <1>7, <1>8

LEMMA UnholdMoves ==
    ASSUME balances \in [Accounts -> Account], NEW u \in Accounts, NEW n \in Nat, Moves(Unhold(u, n))
    PROVE  /\ balances' \in [Accounts -> Account]
           /\ balances'[u] = [available |-> balances[u].available + n, held |-> balances[u].held - n]
           /\ \A a \in Accounts \ {u} : balances'[a] = balances[a]
           /\ Worth(balances') = Worth(balances)
<1>1. /\ balances' = Apply(balances, On(u, Movement(n, -n)))
      /\ Covered(balances, On(u, Movement(n, -n)))
    BY DEF Moves, Unhold
<1> QED BY <1>1, SetAside

\* Money that was set aside goes to somebody else.
LEMMA TransferMoves ==
    ASSUME balances \in [Accounts -> Account], NEW u \in Accounts, NEW v \in Accounts, u # v,
           NEW n \in Nat, Moves(And(Spend(u, n), Credit(v, n)))
    PROVE  /\ balances' \in [Accounts -> Account]
           /\ balances'[u] = [available |-> balances[u].available, held |-> balances[u].held - n]
           /\ balances'[v] = [available |-> balances[v].available + n, held |-> balances[v].held]
           /\ \A a \in Accounts \ {u, v} : balances'[a] = balances[a]
           /\ Worth(balances') = Worth(balances)
           /\ balances[u].held >= n
<1> DEFINE f == [a \in Accounts |-> balances[a].available + balances[a].held]
           g == [a \in Accounts |-> balances'[a].available + balances'[a].held]
           s == Spend(u, n)
           c == Credit(v, n)
<1>1. /\ s \in [{u} -> Move] /\ s[u].available = 0 /\ s[u].held = -n
      /\ c \in [{v} -> Move] /\ c[v].available = n /\ c[v].held = 0
    BY SpendMove, CreditMove
<1>2. balances' = Apply(balances, And(s, c)) /\ Covered(balances, And(s, c))
    BY DEF Moves
<1> HIDE DEF s, c
<1>5. /\ balances' \in [Accounts -> Account]
      /\ balances'[u] = [available |-> balances[u].available + s[u].available,
                         held |-> balances[u].held + s[u].held]
      /\ balances'[v] = [available |-> balances[v].available + c[v].available,
                         held |-> balances[v].held + c[v].held]
      /\ \A a \in Accounts \ {u, v} : balances'[a] = balances[a]
      /\ balances[u].held + s[u].held >= 0
    <2> DEFINE m == And(s, c)
    <2>1. m \in [{u, v} -> Move] /\ m[u] = s[u] /\ m[v] = c[v]
        BY <1>1 DEF And
    <2> HIDE DEF m
    <2>2. \A a \in Accounts :
             balances'[a] = IF a \in {u, v} THEN [available |-> balances[a].available + m[a].available,
                                                  held |-> balances[a].held + m[a].held]
                                            ELSE balances[a]
        BY <1>2, <2>1 DEF Apply, m
    <2>3. balances' \in [Accounts -> Account] /\ balances[u].held + m[u].held >= 0
        <3>1. Covered(balances, m) /\ balances' = Apply(balances, m) /\ u \in DOMAIN m
            BY <1>2, <2>1 DEF m
        <3> QED BY <2>1, <3>1 DEF Apply, Covered, Account, Move
    <2> QED BY <2>1, <2>2, <2>3
<1>6. /\ balances[u].available \in Nat /\ balances[u].held \in Nat
      /\ balances[v].available \in Nat /\ balances[v].held \in Nat
    BY DEF Account
<1>7. /\ balances'[u] = [available |-> balances[u].available, held |-> balances[u].held - n]
      /\ balances'[v] = [available |-> balances[v].available + n, held |-> balances[v].held]
      /\ balances[u].held >= n
    BY <1>1, <1>5, <1>6
<1>8. f \in [Accounts -> Nat] /\ g \in [Accounts -> Nat]
    BY <1>5, WorthType
<1>9. /\ f[u] = balances[u].available + balances[u].held
      /\ f[v] = balances[v].available + balances[v].held
      /\ g[u] = f[u] - n /\ g[v] = f[v] + n
      /\ \A a \in Accounts \ {u, v} : g[a] = f[a]
    BY <1>5, <1>6, <1>7
<1>10. Total(f) \in Nat /\ f[u] \in Nat /\ f[v] \in Nat
    BY <1>8, AccountsFinite, TotalType
<1> HIDE DEF f, g
<1>11. Total(g) = Total(f) - f[u] - f[v] + g[u] + g[v]
    BY <1>8, <1>9, AccountsFinite, TotalChangeTwo
<1>12. Total(g) = Total(f)
    BY <1>9, <1>10, <1>11
<1> QED BY <1>5, <1>7, <1>12 DEF Worth, f, g

\* The price of an order, split between its seller and the platform.
LEMMA SettlementMoves ==
    ASSUME balances \in [Accounts -> Account], NEW u \in Users, NEW v \in Users, u # v,
           NEW price \in Nat, NEW fee \in 0..price,
           Moves(And(Spend(u, price), And(Credit(v, price - fee), Credit(Platform, fee))))
    PROVE  /\ balances' \in [Accounts -> Account]
           /\ balances'[u] = [available |-> balances[u].available, held |-> balances[u].held - price]
           /\ balances'[v] = [available |-> balances[v].available + (price - fee), held |-> balances[v].held]
           /\ balances'[Platform] = [available |-> balances[Platform].available + fee,
                                     held |-> balances[Platform].held]
           /\ \A a \in Accounts \ {u, v, Platform} : balances'[a] = balances[a]
           /\ Worth(balances') = Worth(balances)
           /\ balances[u].held >= price
<1> DEFINE P == Platform
           f == [a \in Accounts |-> balances[a].available + balances[a].held]
           g == [a \in Accounts |-> balances'[a].available + balances'[a].held]
           s == Spend(u, price)
           c == Credit(v, price - fee)
           d == Credit(P, fee)
<1>0. u # P /\ v # P /\ u \in Accounts /\ v \in Accounts /\ P \in Accounts
    BY AccountsFinite, PeopleAssumption
<1>1. price - fee \in Nat /\ fee \in Nat
    OBVIOUS
<1>2. /\ s \in [{u} -> Move] /\ s[u].available = 0 /\ s[u].held = -price
      /\ c \in [{v} -> Move] /\ c[v].available = price - fee /\ c[v].held = 0
      /\ d \in [{P} -> Move] /\ d[P].available = fee /\ d[P].held = 0
    BY <1>1, SpendMove, CreditMove
<1>3. balances' = Apply(balances, And(s, And(c, d))) /\ Covered(balances, And(s, And(c, d)))
    BY DEF Moves
<1> HIDE DEF s, c, d, P
<1>5. /\ balances' \in [Accounts -> Account]
      /\ balances'[u] = [available |-> balances[u].available + s[u].available,
                         held |-> balances[u].held + s[u].held]
      /\ balances'[v] = [available |-> balances[v].available + c[v].available,
                         held |-> balances[v].held + c[v].held]
      /\ balances'[P] = [available |-> balances[P].available + d[P].available,
                         held |-> balances[P].held + d[P].held]
      /\ \A a \in Accounts \ {u, v, P} : balances'[a] = balances[a]
      /\ balances[u].held + s[u].held >= 0
    <2> DEFINE m == And(s, And(c, d))
    <2>1. m \in [{u, v, P} -> Move] /\ m[u] = s[u] /\ m[v] = c[v] /\ m[P] = d[P]
        BY <1>0, <1>2 DEF And
    <2> HIDE DEF m
    <2>2. \A a \in Accounts :
             balances'[a] = IF a \in {u, v, P} THEN [available |-> balances[a].available + m[a].available,
                                                     held |-> balances[a].held + m[a].held]
                                               ELSE balances[a]
        BY <1>3, <2>1 DEF Apply, m
    <2>3. balances' \in [Accounts -> Account] /\ balances[u].held + m[u].held >= 0
        <3>1. Covered(balances, m) /\ balances' = Apply(balances, m) /\ u \in DOMAIN m
            BY <1>3, <2>1 DEF m
        <3> QED BY <1>0, <2>1, <3>1 DEF Apply, Covered, Account, Move
    <2> QED BY <1>0, <2>1, <2>2, <2>3
<1>6. /\ balances[u].available \in Nat /\ balances[u].held \in Nat
      /\ balances[v].available \in Nat /\ balances[v].held \in Nat
      /\ balances[P].available \in Nat /\ balances[P].held \in Nat
    BY <1>0 DEF Account
<1>7. /\ balances'[u] = [available |-> balances[u].available, held |-> balances[u].held - price]
      /\ balances'[v] = [available |-> balances[v].available + (price - fee), held |-> balances[v].held]
      /\ balances'[P] = [available |-> balances[P].available + fee, held |-> balances[P].held]
      /\ balances[u].held >= price
    BY <1>1, <1>2, <1>5, <1>6
<1>8. f \in [Accounts -> Nat] /\ g \in [Accounts -> Nat]
    BY <1>5, WorthType
<1>9. /\ f[u] = balances[u].available + balances[u].held
      /\ f[v] = balances[v].available + balances[v].held
      /\ f[P] = balances[P].available + balances[P].held
      /\ g[u] = f[u] - price /\ g[v] = f[v] + (price - fee) /\ g[P] = f[P] + fee
      /\ \A a \in Accounts \ {u, v, P} : g[a] = f[a]
    BY <1>0, <1>1, <1>5, <1>6, <1>7
<1>10. Total(f) \in Nat /\ f[u] \in Nat /\ f[v] \in Nat /\ f[P] \in Nat
    BY <1>0, <1>8, AccountsFinite, TotalType
<1> HIDE DEF f, g
<1>11. Total(g) = Total(f) - f[u] - f[v] - f[P] + g[u] + g[v] + g[P]
    BY <1>0, <1>8, <1>9, AccountsFinite, TotalChangeThree
<1>12. Total(g) = Total(f)
    BY <1>1, <1>9, <1>10, <1>11
<1> QED BY <1>5, <1>7, <1>12 DEF Worth, f, g, P

-----------------------------------------------------------------------------
(* The type invariant *)

LEMMA RowType ==
    ASSUME TypeInv, NEW o \in Orders
    PROVE  /\ orders[o].status # "none" => /\ orders[o].status \in Statuses
                                           /\ orders[o].buyer \in Users
                                           /\ orders[o].seller \in Sellers
                                           /\ orders[o].seller \in Users
                                           /\ orders[o].buyer # orders[o].seller
           /\ orders[o].status = "none" => orders[o] = NoOrder
           /\ orders[o].price \in Nat
<1>1. orders[o] \in OrderRow /\ Sellers \subseteq Users
    BY PeopleAssumption DEF TypeInv, TypeOK
<1> QED BY <1>1 DEF OrderRow, NoOrder, Statuses, OpenStatus, Ended

\* What a request in flight holds, by what it is about to do.
LEMMA CallType ==
    ASSUME TypeInv, NEW c \in Calls
    PROVE  LET r == calls[c]
           IN  /\ r.op = "place" => /\ r.buyer \in Users /\ r.seller \in Sellers
                                    /\ r.price \in Prices /\ r.price \in Nat /\ r.buyer # r.seller
               /\ r.op = "move" => /\ r.order \in Orders /\ r.from \in OpenStatus
                                   /\ r.to \in Statuses /\ r.settling \in BOOLEAN
               /\ r.op = "deliver" => r.order \in Orders /\ r.file \in BOOLEAN
               /\ r.op = "release" => r.seller \in Sellers
               /\ r.op = "claim" => r.order \in Orders /\ r.amount \in Nat
<1>1. calls[c] \in Call /\ CallOK(calls[c]) /\ Prices \subseteq Nat
    BY PricesAssumption DEF TypeInv, TypeOK
<1> DEFINE r == calls[c]
<1>2. r.op = "place" => r.buyer # r.seller
    BY <1>1 DEF CallOK
<1> HIDE DEF r
<1>3. r \in Call
    BY <1>1 DEF r
<1>4. r.op = "place" => r.buyer \in Users /\ r.seller \in Sellers /\ r.price \in Prices
    BY <1>3 DEF Call, Idle
<1>5. r.op = "move" => /\ r.order \in Orders /\ r.from \in OpenStatus
                       /\ r.to \in Statuses /\ r.settling \in BOOLEAN
    BY <1>3 DEF Call, Idle
<1>6. /\ r.op = "deliver" => r.order \in Orders /\ r.file \in BOOLEAN
      /\ r.op = "release" => r.seller \in Sellers
      /\ r.op = "claim" => r.order \in Orders /\ r.amount \in Nat
    BY <1>3 DEF Call, Idle
<1> QED BY <1>1, <1>2, <1>4, <1>5, <1>6 DEF r

\* The transitions a moderator, a buyer or a seller may ask for.
LEMMA MoveKind ==
    ASSUME TypeInv, NEW c \in Calls, calls[c].op = "move"
    PROVE  LET r == calls[c]
           IN  /\ r.from \in {"placed", "accepted", "delivered", "disputed"}
               /\ r.to \in {"accepted", "disputed", "completed", "cancelled"}
               /\ r.to = "accepted" => r.from = "placed"
               /\ r.to = "disputed" => r.from \in {"accepted", "delivered"}
               /\ r.from = "disputed" => r.settling
<1>1. CallOK(calls[c])
    BY DEF TypeInv
<1> QED BY <1>1 DEF CallOK, OrderTransitions

LEMMA InitTypeInv == Init => TypeInv
<1> SUFFICES ASSUME Init PROVE TypeInv
    OBVIOUS
<1>1. balances \in [Accounts -> Account]
    BY PricesAssumption DEF Init, Account, Accounts
<1>2. orders \in [Orders -> OrderRow] /\ calls \in [Calls -> Call]
    BY DEF Init, OrderRow, Call
<1>3. /\ files \in SUBSET Orders /\ reports \in [Orders -> Nat] /\ complained \in SUBSET Orders
      /\ bonds \in [Sellers -> [pico : Nat, cooled : BOOLEAN]]
      /\ entries \in [Orders -> [settled : Nat, released : Nat]]
      /\ compensations \in [Orders -> Nat]
    BY DEF Init, NoBond
<1>4. \A c \in Calls : CallOK(calls[c])
    BY DEF Init, CallOK, Idle
<1>5. FilesOK
    BY DEF Init, FilesOK
<1> QED BY <1>1, <1>2, <1>3, <1>4, <1>5 DEF TypeInv, TypeOK

\* Calls stay well formed while no completed order changes, one of them starting
\* or ending.
LEMMA CallsKept ==
    ASSUME TypeInv,
           \A o \in Orders : orders[o].status = "completed" => orders'[o] = orders[o],
           NEW c \in Calls, NEW r \in Call,
           r.op = "claim" => orders'[r.order].status = "completed" /\ r.amount \in 1..orders'[r.order].price,
           r.op = "place" => r.buyer # r.seller,
           r.op = "move" => /\ \E role \in {"buyer", "seller", "moderator"} :
                                  <<r.from, r.to, role>> \in OrderTransitions
                            /\ r.from = "disputed" => r.settling,
           calls' = [calls EXCEPT ![c] = r] \/ calls' = calls
    PROVE  calls' \in [Calls -> Call] /\ \A d \in Calls : CallOK(calls[d])'
<1>1. calls' \in [Calls -> Call]
    BY DEF TypeInv, TypeOK
<1>2. ASSUME NEW d \in Calls PROVE CallOK(calls[d])'
    <2>1. CASE calls'[d] = calls[d]
        <3>1. CallOK(calls[d])
            BY DEF TypeInv
        <3>2. calls[d].op = "claim" => calls[d].order \in Orders
            BY CallType
        <3> QED BY <2>1, <3>1, <3>2 DEF CallOK
    <2>2. CASE calls'[d] = r
        BY <2>2 DEF CallOK
    <2> QED BY <2>1, <2>2 DEF TypeInv, TypeOK
<1> QED BY <1>1, <1>2

LEMMA FinishKept ==
    ASSUME TypeInv, \A o \in Orders : orders[o].status = "completed" => orders'[o] = orders[o],
           NEW c \in Calls, Finish(c)
    PROVE  calls' \in [Calls -> Call] /\ \A d \in Calls : CallOK(calls[d])'
<1>1. Idle \in Call /\ Idle.op = "idle"
    BY DEF Call, Idle
<1> QED BY <1>1, CallsKept DEF Finish

LEMMA BeginType ==
    ASSUME TypeInv, NEW c \in Calls, NEW r \in Call, CallOK(r), Begin(c, r)
    PROVE  TypeInv'
<1>1. /\ r.op = "claim" => orders'[r.order].status = "completed" /\ r.amount \in 1..orders'[r.order].price
      /\ r.op = "place" => r.buyer # r.seller
      /\ r.op = "move" => /\ \E role \in {"buyer", "seller", "moderator"} :
                                <<r.from, r.to, role>> \in OrderTransitions
                          /\ r.from = "disputed" => r.settling
      /\ calls' = [calls EXCEPT ![c] = r] /\ orders' = orders
    BY DEF Begin, CallOK
<1>2. calls' \in [Calls -> Call] /\ \A d \in Calls : CallOK(calls[d])'
    BY <1>1, CallsKept
<1> QED BY <1>2 DEF TypeInv, TypeOK, FilesOK, Begin

LEMMA StepType == TypeInv /\ [Next]_vars => TypeInv'
<1> SUFFICES ASSUME TypeInv, [Next]_vars PROVE TypeInv'
    OBVIOUS
<1> USE DEF TypeInv, TypeOK
<1>1. ASSUME NEW c \in Calls, NEW buyer \in Users, NEW seller \in Sellers, NEW price \in Prices,
             LookAtListing(c, buyer, seller, price)
      PROVE  TypeInv'
    <2> DEFINE r == [op |-> "place", buyer |-> buyer, seller |-> seller, price |-> price]
    <2>1. r \in Call /\ CallOK(r) /\ Begin(c, r)
        BY <1>1 DEF LookAtListing, Call, CallOK
    <2> QED BY <2>1, BeginType
<1>2. ASSUME NEW c \in Calls, NEW o \in Orders, PlaceOrder(c, o)
      PROVE  TypeInv'
    <2>1. /\ calls[c].buyer \in Users /\ calls[c].seller \in Sellers
          /\ calls[c].price \in Nat /\ calls[c].buyer # calls[c].seller
        BY <1>2, CallType DEF PlaceOrder
    <2>2. balances' \in [Accounts -> Account]
        BY <1>2, <2>1, HoldMoves, AccountsFinite DEF PlaceOrder
    <2>3. orders' \in [Orders -> OrderRow]
        BY <1>2, <2>1 DEF PlaceOrder, OrderRow, OpenStatus
    <2>4. \A x \in Orders : orders[x].status \in Statuses => orders'[x] = orders[x]
        BY <1>2 DEF PlaceOrder, NoOrder, Statuses, OpenStatus, Ended
    <2>5. calls' \in [Calls -> Call] /\ \A d \in Calls : CallOK(calls[d])'
        BY <1>2, <2>4, FinishKept DEF PlaceOrder, Statuses, Ended
    <2>6. FilesOK'
        BY <1>2, <2>4 DEF PlaceOrder, FilesOK, Statuses, OpenStatus
    <2> QED BY <1>2, <2>2, <2>3, <2>5, <2>6 DEF PlaceOrder
<1>3. ASSUME NEW c \in Calls, NEW o \in Orders, NEW to \in OpenStatus \cup Ended, AuthoriseMove(c, o, to)
      PROVE  TypeInv'
    <2>1. PICK role \in {"buyer", "seller", "moderator"} :
            /\ <<orders[o].status, to, role>> \in OrderTransitions
            /\ Begin(c, [op |-> "move", order |-> o, from |-> orders[o].status, to |-> to,
                         settling |-> orders[o].status = "disputed" /\ role = "moderator"])
        BY <1>3 DEF AuthoriseMove
    <2> DEFINE set == (orders[o].status = "disputed" /\ role = "moderator")
               r == [op |-> "move", order |-> o, from |-> orders[o].status, to |-> to, settling |-> set]
    <2>2. orders[o].status \in OpenStatus /\ set \in BOOLEAN
        BY <2>1 DEF OrderTransitions, OpenStatus
    <2>3. orders[o].status = "disputed" => set
        BY <2>1 DEF OrderTransitions
    <2> HIDE DEF set
    <2>4. r \in Call
        BY <2>2 DEF Call, Statuses
    <2>5. CallOK(r)
        BY <2>1, <2>3 DEF CallOK
    <2> QED BY <2>1, <2>4, <2>5, BeginType DEF set
<1>4. ASSUME NEW c \in Calls, NEW o \in Orders, NEW file \in BOOLEAN, AuthoriseDelivery(c, o, file)
      PROVE  TypeInv'
    <2> DEFINE r == [op |-> "deliver", order |-> o, file |-> file]
    <2>1. r \in Call /\ CallOK(r) /\ Begin(c, r)
        BY <1>4 DEF AuthoriseDelivery, Call, CallOK
    <2> QED BY <2>1, BeginType
<1>5. ASSUME NEW c \in Calls, NEW o \in Orders, NEW amount \in 1..orders[o].price, CheckClaim(c, o, amount)
      PROVE  TypeInv'
    <2> DEFINE r == [op |-> "claim", order |-> o, amount |-> amount]
    <2>1. amount \in Nat
        BY RowType
    <2>2. r \in Call /\ CallOK(r) /\ Begin(c, r)
        BY <1>5, <2>1 DEF CheckClaim, Call, CallOK
    <2> QED BY <2>2, BeginType
<1>6. ASSUME NEW c \in Calls, NEW s \in Sellers, CheckRelease(c, s)
      PROVE  TypeInv'
    <2> DEFINE r == [op |-> "release", seller |-> s]
    <2>1. r \in Call /\ CallOK(r) /\ Begin(c, r)
        BY <1>6 DEF CheckRelease, Call, CallOK
    <2> QED BY <2>1, BeginType
<1>7. ASSUME NEW c \in Calls, MoveOrder(c)
      PROVE  TypeInv'
    <2> DEFINE o == calls[c].order
               to == calls[c].to
    <2>1. /\ o \in Orders /\ orders[o].status = calls[c].from
          /\ orders[o].status \in {"placed", "accepted", "delivered", "disputed"}
          /\ to \in {"accepted", "disputed", "completed", "cancelled"}
          /\ to = "accepted" => orders[o].status = "placed"
        BY <1>7, CallType, MoveKind DEF MoveOrder, StillIn
    <2>2. /\ orders[o].buyer \in Users /\ orders[o].seller \in Users
          /\ orders[o].buyer # orders[o].seller /\ orders[o].price \in Nat
        BY <2>1, RowType
    <2>3. balances' \in [Accounts -> Account]
        <3>1. CASE to = "completed"
            <4> DEFINE fee == FeeFor(orders[o].price, FeeBps)
            <4>1. Moves(Settlement(o)) /\ fee \in 0..orders[o].price
                BY <1>7, <2>2, <3>1, FeeType DEF MoveOrder, Outcome
            <4> HIDE DEF fee, o
            <4>2. Moves(And(Spend(orders[o].buyer, orders[o].price),
                            And(Credit(orders[o].seller, orders[o].price - fee), Credit(Platform, fee))))
                BY <4>1 DEF Settlement, fee
            <4> QED BY <2>2, <4>1, <4>2, SettlementMoves
        <3>2. CASE to = "cancelled"
            <4>1. Moves(Unhold(orders[o].buyer, orders[o].price))
                BY <1>7, <3>2 DEF MoveOrder, Outcome
            <4> HIDE DEF o
            <4> QED BY <2>2, <4>1, UnholdMoves, AccountsFinite
        <3>3. CASE to \notin Ended
            BY <1>7, <3>3 DEF MoveOrder, Outcome, Moves, Apply, Ended
        <3> QED BY <3>1, <3>2, <3>3 DEF Ended
    <2>4. orders' \in [Orders -> OrderRow] /\ files' \in SUBSET Orders
        BY <1>7, <2>1, <2>2, RowType, SMTT(30) DEF MoveOrder, OrderRow, OpenStatus, Ended, NoOrder, FilesAfter
    <2>5. reports' \in [Orders -> Nat] /\ complained' \in SUBSET Orders
        BY <1>7, <2>1 DEF MoveOrder
    <2>6. entries' \in [Orders -> [settled : Nat, released : Nat]]
        BY <1>7, <2>1 DEF MoveOrder
    <2>7. calls' \in [Calls -> Call] /\ \A d \in Calls : CallOK(calls[d])'
        BY <1>7, <2>1, FinishKept DEF MoveOrder
    <2>8. FilesOK'
        BY <1>7, <2>1 DEF MoveOrder, FilesOK, FilesAfter, Ended
    <2> QED BY <1>7, <2>3, <2>4, <2>5, <2>6, <2>7, <2>8 DEF MoveOrder
<1>8. ASSUME NEW c \in Calls, Deliver(c)
      PROVE  TypeInv'
    <2>1. calls[c].order \in Orders /\ orders[calls[c].order].status = "accepted"
        BY <1>8, CallType DEF Deliver, StillIn
    <2>2. orders' \in [Orders -> OrderRow] /\ files' \in SUBSET Orders
        BY <1>8, <2>1 DEF Deliver, OrderRow, OpenStatus, NoOrder
    <2>3. calls' \in [Calls -> Call] /\ \A d \in Calls : CallOK(calls[d])'
        BY <1>8, <2>1, FinishKept DEF Deliver
    <2>4. FilesOK'
        BY <1>8, <2>1 DEF Deliver, FilesOK
    <2> QED BY <1>8, <2>2, <2>3, <2>4 DEF Deliver
<1>9. ASSUME NEW c \in Calls, ReleaseBond(c)
      PROVE  TypeInv'
    <2>1. calls[c].seller \in Sellers /\ calls[c].seller \in Accounts /\ bonds[calls[c].seller].pico \in Nat
        BY <1>9, CallType, PeopleAssumption DEF ReleaseBond, Accounts
    <2>2. balances' \in [Accounts -> Account]
        BY <1>9, <2>1, UnholdMoves DEF ReleaseBond
    <2>3. bonds' \in [Sellers -> [pico : Nat, cooled : BOOLEAN]]
        BY <1>9, <2>1 DEF ReleaseBond, NoBond
    <2>4. calls' \in [Calls -> Call] /\ \A d \in Calls : CallOK(calls[d])'
        BY <1>9, FinishKept DEF ReleaseBond
    <2> QED BY <1>9, <2>2, <2>3, <2>4 DEF ReleaseBond, FilesOK
<1>10. ASSUME NEW c \in Calls, ClaimBond(c)
       PROVE  TypeInv'
    <2> DEFINE o == calls[c].order
    <2>1. /\ o \in Orders /\ calls[c].amount \in Nat /\ orders[o].status = "completed"
        BY <1>10, CallType DEF ClaimBond, CallOK
    <2>2. /\ orders[o].seller \in Sellers /\ orders[o].seller \in Users /\ orders[o].buyer \in Users
          /\ orders[o].buyer # orders[o].seller
        BY <2>1, RowType
    <2>3. balances' \in [Accounts -> Account]
        BY <1>10, <2>1, <2>2, TransferMoves, AccountsFinite DEF ClaimBond
    <2>4. bonds' \in [Sellers -> [pico : Nat, cooled : BOOLEAN]]
        <3> DEFINE b == bonds[orders[o].seller]
        <3>1. BondAfter(orders[o].seller, calls[c].amount) \in [pico : Nat, cooled : BOOLEAN]
            <4>1. b \in [pico : Nat, cooled : BOOLEAN] /\ b.pico >= calls[c].amount
                BY <1>10, <2>2 DEF ClaimBond
            <4>2. b.pico - calls[c].amount \in Nat
                BY <2>1, <4>1
            <4>3. [b EXCEPT !.pico = @ - calls[c].amount] \in [pico : Nat, cooled : BOOLEAN]
                BY <4>1, <4>2, Zenon
            <4> QED BY <4>3 DEF BondAfter
        <3>2. bonds' = [bonds EXCEPT ![orders[o].seller] = BondAfter(orders[o].seller, calls[c].amount)]
            BY <1>10 DEF ClaimBond
        <3> QED BY <2>2, <3>1, <3>2
    <2>5. calls' \in [Calls -> Call] /\ \A d \in Calls : CallOK(calls[d])'
        BY <1>10, FinishKept DEF ClaimBond
    <2>6. compensations' \in [Orders -> Nat]
        BY <1>10, <2>1 DEF ClaimBond
    <2> QED BY <1>10, <2>3, <2>4, <2>5, <2>6 DEF ClaimBond, FilesOK
<1>11. ASSUME NEW c \in Calls, Refuse(c)
       PROVE  TypeInv'
    BY <1>11, FinishKept DEF Refuse, FilesOK
<1>12. ASSUME NEW o \in Orders, ForgetFile(o) \/ Report(o) \/ ResolveReport(o)
       PROVE  TypeInv'
    <2>1. /\ files' \in SUBSET files /\ reports' \in [Orders -> Nat] /\ complained' \in SUBSET Orders
        BY <1>12 DEF ForgetFile, Report, ResolveReport
    <2>2. UNCHANGED <<balances, orders, bonds, entries, compensations, calls>>
        BY <1>12 DEF ForgetFile, Report, ResolveReport
    <2> QED BY <2>1, <2>2 DEF FilesOK, CallOK
<1>13. ASSUME NEW s \in Sellers, CoolOff(s)
       PROVE  TypeInv'
    BY <1>13 DEF CoolOff, FilesOK, CallOK
<1>14. ASSUME NEW s \in Sellers, NEW stake \in Stakes, PostBond(s, stake)
       PROVE  TypeInv'
    <2>1. stake \in Nat /\ s \in Accounts
        BY PricesAssumption, PeopleAssumption DEF Accounts
    <2>2. balances' \in [Accounts -> Account]
        BY <1>14, <2>1, HoldMoves DEF PostBond
    <2>3. bonds' \in [Sellers -> [pico : Nat, cooled : BOOLEAN]]
        BY <1>14, <2>1 DEF PostBond
    <2> QED BY <1>14, <2>2, <2>3 DEF PostBond, FilesOK, CallOK
<1>15. CASE UNCHANGED vars
    BY <1>15 DEF vars, FilesOK, CallOK
<1> QED BY <1>1, <1>2, <1>3, <1>4, <1>5, <1>6, <1>7, <1>8, <1>9, <1>10, <1>11, <1>12, <1>13,
           <1>14, <1>15 DEF Next

\* Every row, balance and request in flight keeps its shape, no balance is ever
\* negative, and only an order that was delivered and has not ended has a file.
\* (The types the tables of schema.sql and the checks of the routes give them.)
THEOREM TypeCorrect == Spec => []TypeInv
<1>1. Init => TypeInv
    BY InitTypeInv
<1>2. TypeInv /\ [Next]_vars => TypeInv'
    BY StepType
<1> QED BY <1>1, <1>2, PTL DEF Spec

-----------------------------------------------------------------------------
(* What is set aside *)

OpenFor(table, u) ==
    {x \in Orders : table[x].buyer = u
                       /\ table[x].status \in {"placed", "accepted", "delivered", "disputed"}}
Due(table, u) == Total([o \in OpenFor(table, u) |-> table[o].price])

LEMMA CommittedIsDue == \A u : Committed(u) = Due(orders, u) /\ Committed(u)' = Due(orders', u)
BY DEF Committed, Due, OpenFor

LEMMA DueType ==
    ASSUME NEW s \in [Orders -> OrderRow], NEW u
    PROVE  /\ IsFiniteSet(OpenFor(s, u))
           /\ [o \in OpenFor(s, u) |-> s[o].price] \in [OpenFor(s, u) -> Nat]
           /\ Due(s, u) \in Nat
<1>1. IsFiniteSet(OpenFor(s, u))
    BY PeopleAssumption, FS_Subset DEF OpenFor
<1>2. \A o \in Orders : s[o].price \in Nat
    BY DEF OrderRow, NoOrder
<1>3. [o \in OpenFor(s, u) |-> s[o].price] \in [OpenFor(s, u) -> Nat]
    BY <1>2 DEF OpenFor
<1> QED BY <1>1, <1>3, TotalType DEF Due

\* Orders whose price and openness do not change leave what is due alone.
LEMMA DueSame ==
    ASSUME NEW s \in [Orders -> OrderRow], NEW t \in [Orders -> OrderRow], NEW u,
           \A x \in Orders : /\ t[x].buyer = s[x].buyer /\ t[x].price = s[x].price
                             /\ t[x].status \in OpenStatus <=> s[x].status \in OpenStatus
    PROVE  Due(t, u) = Due(s, u)
<1>1. OpenFor(t, u) = OpenFor(s, u)
    BY DEF OpenFor, OpenStatus
<1>2. [o \in OpenFor(t, u) |-> t[o].price] = [o \in OpenFor(s, u) |-> s[o].price]
    BY <1>1 DEF OpenFor
<1> QED BY <1>2 DEF Due

\* One order more is open: its price is due from its buyer, and nobody else.
LEMMA DueMore ==
    ASSUME NEW s \in [Orders -> OrderRow], NEW t \in [Orders -> OrderRow], NEW o \in Orders,
           \A x \in Orders \ {o} : t[x] = s[x],
           s[o].status \notin OpenStatus, t[o].status \in OpenStatus, NEW u
    PROVE  Due(t, u) = Due(s, u) + (IF u = t[o].buyer THEN t[o].price ELSE 0)
<1> DEFINE S == OpenFor(s, u)
           T == OpenFor(t, u)
           f == [x \in S |-> s[x].price]
           g == [x \in T |-> t[x].price]
<1>1. IsFiniteSet(S) /\ f \in [S -> Nat] /\ g \in [T -> Nat] /\ Due(s, u) \in Nat
    BY DueType
<1>2. CASE u = t[o].buyer
    <2>1. T = S \cup {o} /\ o \notin S
        BY <1>2 DEF OpenFor, OpenStatus
    <2>2. (\A y \in S : g[y] = f[y]) /\ g[o] = t[o].price
        BY <2>1 DEF OpenFor
    <2> HIDE DEF S, T, f, g
    <2>3. g \in [S \cup {o} -> Nat]
        BY <1>1, <2>1
    <2>4. Total(g) = Total(f) + g[o]
        BY <1>1, <2>1, <2>2, <2>3, TotalMore
    <2> QED BY <1>2, <2>2, <2>4 DEF Due, f, g, S, T
<1>3. CASE u # t[o].buyer
    <2>1. T = S
        BY <1>3 DEF OpenFor, OpenStatus
    <2>2. \A x \in S : t[x].price = s[x].price
        BY <1>3, <2>1 DEF OpenFor
    <2> HIDE DEF S, T
    <2>3. g = f
        BY <2>1, <2>2
    <2> QED BY <1>1, <1>3, <2>3 DEF Due, S, T
<1> QED BY <1>2, <1>3

Bond(u) == IF u \in Sellers THEN bonds[u].pico ELSE 0

\* The parts of MoneyAccounted.
SetAsideOK == \A u \in Users : balances[u].held = Committed(u) + Bond(u)
WorthOK == Worth(balances) = Funds * Cardinality(Users)
EntriesOK == \A o \in Orders :
    /\ entries[o].settled = IF orders[o].status = "completed" THEN 1 ELSE 0
    /\ entries[o].released = IF orders[o].status = "cancelled" THEN 1 ELSE 0

LEMMA MoneyParts ==
    /\ MoneyAccounted <=> balances \in [Accounts -> Account] /\ SetAsideOK /\ WorthOK /\ EntriesOK
    /\ MoneyAccounted' <=> balances' \in [Accounts -> Account] /\ SetAsideOK' /\ WorthOK' /\ EntriesOK'
BY DEF MoneyAccounted, SetAsideOK, WorthOK, EntriesOK, Worth, Accounts, Bond

LEMMA InitMoney == Init => MoneyAccounted
<1> SUFFICES ASSUME Init PROVE MoneyAccounted
    OBVIOUS
<1>1. TypeInv
    BY InitTypeInv
<1>2. SetAsideOK
    <2> SUFFICES ASSUME NEW u \in Users PROVE balances[u].held = Committed(u) + Bond(u)
        BY DEF SetAsideOK
    <2>1. OpenFor(orders, u) = {}
        BY DEF Init, OpenFor, NoOrder
    <2>2. [o \in OpenFor(orders, u) |-> orders[o].price] \in [{} -> Nat]
        BY <2>1
    <2>3. Committed(u) = 0
        BY <2>2, TotalEmpty, CommittedIsDue DEF Due
    <2>4. Bond(u) = 0 /\ balances[u].held = 0
        BY DEF Init, Bond, NoBond
    <2> QED BY <2>3, <2>4
<1>3. WorthOK
    <2> DEFINE f == [a \in Users |-> Funds]
               g == [a \in Accounts |-> balances[a].available + balances[a].held]
    <2>1. IsFiniteSet(Users) /\ Platform \notin Users /\ Funds \in Nat
        BY PeopleAssumption, PricesAssumption
    <2>2. Total(f) = Cardinality(Users) * Funds
        BY <2>1, TotalConstant
    <2>3. f \in [Users -> Nat] /\ g \in [Accounts -> Nat]
        BY <1>1, <2>1, WorthType DEF TypeInv, TypeOK
    <2>4. (\A a \in Users : g[a] = f[a]) /\ g[Platform] = 0
        BY <2>1 DEF Init, Accounts
    <2>5. Total(f) \in Nat /\ Cardinality(Users) \in Nat
        BY <2>1, <2>3, TotalType, FS_CardinalityType
    <2> HIDE DEF f, g
    <2>6. Total(g) = Total(f) + g[Platform]
        BY <2>1, <2>3, <2>4, TotalMore DEF Accounts
    <2>7. Total(g) = Funds * Cardinality(Users)
        BY <2>1, <2>2, <2>4, <2>5, <2>6
    <2> QED BY <2>7 DEF WorthOK, Worth, g
<1>4. EntriesOK
    BY DEF Init, EntriesOK, NoOrder
<1> QED BY <1>1, <1>2, <1>3, <1>4, MoneyParts DEF TypeInv, TypeOK

\* A step that moves no money: openness, prices and bonds stay.
LEMMA NothingMoves ==
    ASSUME TypeInv, TypeInv', MoneyAccounted, UNCHANGED <<balances, entries>>,
           \A s \in Sellers : bonds'[s].pico = bonds[s].pico,
           \A o \in Orders : /\ orders'[o].buyer = orders[o].buyer
                             /\ orders'[o].price = orders[o].price
                             /\ orders'[o].status \in OpenStatus <=> orders[o].status \in OpenStatus
                             /\ \A ended \in Ended :
                                   orders'[o].status = ended <=> orders[o].status = ended
    PROVE  MoneyAccounted'
<1>1. orders \in [Orders -> OrderRow] /\ orders' \in [Orders -> OrderRow]
    BY DEF TypeInv, TypeOK
<1>2. \A u : Committed(u)' = Committed(u)
    BY <1>1, DueSame, CommittedIsDue
<1>3. SetAsideOK'
    BY <1>2, MoneyParts DEF SetAsideOK, Bond
<1>4. EntriesOK'
    BY MoneyParts DEF EntriesOK, Ended
<1> QED BY <1>3, <1>4, MoneyParts DEF WorthOK

\* A bond grows, shrinks or pays: what its seller holds follows it.
LEMMA BondMoves ==
    ASSUME TypeInv, TypeInv', MoneyAccounted, UNCHANGED <<orders, entries>>,
           NEW s \in Sellers, NEW n \in Int,
           bonds'[s].pico = bonds[s].pico + n, balances'[s].held = balances[s].held + n,
           \A x \in Sellers \ {s} : bonds'[x].pico = bonds[x].pico,
           \A a \in Users \ {s} : balances'[a].held = balances[a].held,
           Worth(balances') = Worth(balances)
    PROVE  MoneyAccounted'
<1>1. \A u : Committed(u)' = Committed(u) /\ Committed(u) \in Nat
    BY CommittedIsDue, DueType DEF TypeInv, TypeOK
<1>2. ASSUME NEW u \in Users PROVE balances'[u].held = Committed(u)' + Bond(u)'
    <2>1. balances[u].held = Committed(u) + Bond(u)
        BY MoneyParts DEF SetAsideOK
    <2>2. s \in Users /\ balances[u].held \in Nat /\ \A x \in Sellers : bonds[x].pico \in Nat
        BY PeopleAssumption DEF TypeInv, TypeOK, Accounts, Account
    <2>3. CASE u = s
        <3>1. Bond(u) = bonds[s].pico /\ Bond(u)' = bonds[s].pico + n
            BY <2>3 DEF Bond
        <3> QED BY <1>1, <2>1, <2>2, <2>3, <3>1
    <2>4. CASE u # s
        <3>1. Bond(u)' = Bond(u) /\ balances'[u].held = balances[u].held
            BY <2>4 DEF Bond
        <3> QED BY <1>1, <2>1, <3>1
    <2> QED BY <2>3, <2>4
<1>3. SetAsideOK' /\ WorthOK' /\ EntriesOK'
    BY <1>2, MoneyParts DEF SetAsideOK, WorthOK, EntriesOK
<1> QED BY <1>3, MoneyParts DEF TypeInv, TypeOK

LEMMA PlaceOrderMoney ==
    ASSUME TypeInv, TypeInv', MoneyAccounted, NEW c \in Calls, NEW o \in Orders, PlaceOrder(c, o)
    PROVE  MoneyAccounted'
<1> DEFINE buyer == calls[c].buyer
           price == calls[c].price
<1>1. buyer \in Users /\ buyer \in Accounts /\ price \in Nat
    BY CallType DEF PlaceOrder, Accounts
<1>2. balances \in [Accounts -> Account] /\ orders \in [Orders -> OrderRow] /\ orders' \in [Orders -> OrderRow]
    BY DEF TypeInv, TypeOK
<1>3. /\ orders[o] = NoOrder /\ orders'[o].status = "placed"
      /\ orders'[o].buyer = buyer /\ orders'[o].price = price
      /\ \A x \in Orders \ {o} : orders'[x] = orders[x]
      /\ Moves(Hold(buyer, price)) /\ UNCHANGED <<bonds, entries>>
    BY <1>2 DEF PlaceOrder
<1> HIDE DEF buyer, price
<1>4. /\ balances'[buyer] = [available |-> balances[buyer].available - price,
                             held |-> balances[buyer].held + price]
      /\ \A a \in Accounts \ {buyer} : balances'[a] = balances[a]
      /\ Worth(balances') = Worth(balances)
    BY <1>1, <1>2, <1>3, HoldMoves
<1>5. orders[o].status \notin OpenStatus /\ orders'[o].status \in OpenStatus
    BY <1>3 DEF NoOrder, OpenStatus
<1>6. ASSUME NEW u \in Users PROVE balances'[u].held = Committed(u)' + Bond(u)'
    <2>1. Committed(u)' = Committed(u) + (IF u = buyer THEN price ELSE 0)
        BY <1>2, <1>3, <1>5, DueMore, CommittedIsDue
    <2>2. balances[u].held = Committed(u) + Bond(u) /\ Bond(u)' = Bond(u)
        BY <1>3, MoneyParts DEF SetAsideOK, Bond
    <2>3. Committed(u) \in Nat /\ Bond(u) \in Nat
        BY <1>2, DueType, CommittedIsDue DEF Bond, TypeInv, TypeOK
    <2>4. balances'[u].held = balances[u].held + (IF u = buyer THEN price ELSE 0)
        BY <1>1, <1>2, <1>4 DEF Accounts, Account
    <2> QED BY <1>1, <2>1, <2>2, <2>3, <2>4
<1>7. EntriesOK'
    BY <1>3, MoneyParts DEF EntriesOK, NoOrder
<1> QED BY <1>4, <1>6, <1>7, MoneyParts DEF SetAsideOK, WorthOK, TypeInv, TypeOK

\* An order that was open ends, and its buyer has nothing set aside for it.
LEMMA EndMoney ==
    ASSUME TypeInv, TypeInv', MoneyAccounted, UNCHANGED bonds, NEW o \in Orders,
           orders[o].status \in OpenStatus, orders'[o].status \notin OpenStatus,
           \A x \in Orders \ {o} : orders'[x] = orders[x],
           balances'[orders[o].buyer].held = balances[orders[o].buyer].held - orders[o].price,
           \A a \in Users \ {orders[o].buyer} : balances'[a].held = balances[a].held
    PROVE  SetAsideOK'
<1>1. /\ orders[o].price \in Nat
      /\ orders \in [Orders -> OrderRow] /\ orders' \in [Orders -> OrderRow]
    BY RowType DEF TypeInv, TypeOK
<1>2. ASSUME NEW u \in Users PROVE balances'[u].held = Committed(u)' + Bond(u)'
    <2>1. Committed(u) = Committed(u)' + (IF u = orders[o].buyer THEN orders[o].price ELSE 0)
        BY <1>1, DueMore, CommittedIsDue
    <2>2. balances[u].held = Committed(u) + Bond(u) /\ Bond(u)' = Bond(u)
        BY MoneyParts DEF SetAsideOK, Bond
    <2>3. Committed(u)' \in Nat /\ Bond(u) \in Nat
        BY <1>1, DueType, CommittedIsDue DEF Bond, TypeInv, TypeOK
    <2> QED BY <1>1, <2>1, <2>2, <2>3
<1> QED BY <1>2 DEF SetAsideOK

LEMMA MoveOrderMoney ==
    ASSUME TypeInv, TypeInv', MoneyAccounted, NEW c \in Calls, MoveOrder(c)
    PROVE  MoneyAccounted'
<1> DEFINE o == calls[c].order
           to == calls[c].to
           buyer == orders[o].buyer
           seller == orders[o].seller
           price == orders[o].price
<1>1. /\ o \in Orders /\ orders[o].status \in {"placed", "accepted", "delivered", "disputed"}
      /\ to \in {"accepted", "disputed", "completed", "cancelled"}
    BY CallType, MoveKind DEF MoveOrder, StillIn
<1>2. buyer \in Users /\ seller \in Users /\ buyer # seller /\ price \in Nat
    BY <1>1, RowType
<1>3. /\ balances \in [Accounts -> Account] /\ orders \in [Orders -> OrderRow]
      /\ entries \in [Orders -> [settled : Nat, released : Nat]]
    BY DEF TypeInv, TypeOK
<1>4. /\ orders' = [orders EXCEPT ![o].status = to] /\ UNCHANGED bonds
      /\ Moves(Outcome(o, to))
      /\ entries' = CASE to = "completed" -> [entries EXCEPT ![o].settled = @ + 1]
                      [] to = "cancelled" -> [entries EXCEPT ![o].released = @ + 1]
                      [] OTHER -> entries
    BY DEF MoveOrder
<1> HIDE DEF o, to
<1>5. /\ orders'[o].status = to /\ orders'[o].price = price /\ orders'[o].buyer = buyer
      /\ \A x \in Orders \ {o} : orders'[x] = orders[x]
    BY <1>1, <1>3, <1>4, RowType DEF OrderRow
<1>6. EntriesOK'
    BY <1>1, <1>3, <1>4, <1>5, MoneyParts DEF EntriesOK
<1>7. CASE to = "completed"
    <2> DEFINE fee == FeeFor(price, FeeBps)
    <2>1. Moves(Settlement(o)) /\ fee \in 0..price
        BY <1>2, <1>4, <1>7, FeeType DEF Outcome
    <2> HIDE DEF fee
    <2>2. Moves(And(Spend(buyer, price), And(Credit(seller, price - fee), Credit(Platform, fee))))
        BY <2>1 DEF Settlement, fee
    <2> HIDE DEF buyer, seller, price
    <2>3. /\ balances'[buyer] = [available |-> balances[buyer].available, held |-> balances[buyer].held - price]
          /\ balances'[seller] = [available |-> balances[seller].available + (price - fee),
                                  held |-> balances[seller].held]
          /\ \A a \in Accounts \ {buyer, seller, Platform} : balances'[a] = balances[a]
          /\ Worth(balances') = Worth(balances)
        BY <1>2, <1>3, <2>1, <2>2, SettlementMoves, ZenonT(60)
    <2>4. /\ balances'[buyer].held = balances[buyer].held - price
          /\ \A a \in Users \ {buyer} : balances'[a].held = balances[a].held
        BY <2>3, PeopleAssumption DEF Accounts
    <2>5. SetAsideOK'
        BY <1>1, <1>4, <1>5, <1>7, <2>4, EndMoney DEF OpenStatus, buyer, price
    <2> QED BY <1>6, <2>3, <2>5, MoneyParts DEF WorthOK, TypeInv, TypeOK
<1>8. CASE to = "cancelled"
    <2>1. Moves(Unhold(buyer, price))
        BY <1>4, <1>8 DEF Outcome
    <2> HIDE DEF buyer, seller, price
    <2>2. /\ balances'[buyer] = [available |-> balances[buyer].available + price,
                                 held |-> balances[buyer].held - price]
          /\ \A a \in Accounts \ {buyer} : balances'[a] = balances[a]
          /\ Worth(balances') = Worth(balances)
        BY <1>2, <1>3, <2>1, UnholdMoves, AccountsFinite
    <2>3. /\ balances'[buyer].held = balances[buyer].held - price
          /\ \A a \in Users \ {buyer} : balances'[a].held = balances[a].held
        BY <2>2 DEF Accounts
    <2>4. SetAsideOK'
        BY <1>1, <1>4, <1>5, <1>8, <2>3, EndMoney DEF OpenStatus, buyer, price
    <2> QED BY <1>6, <2>2, <2>4, MoneyParts DEF WorthOK, TypeInv, TypeOK
<1>9. CASE to \in {"accepted", "disputed"}
    <2>1. balances' = balances
        BY <1>3, <1>4, <1>9 DEF Outcome, Moves, Apply
    <2>2. entries' = entries
        BY <1>4, <1>9
    <2>3. \A x \in Orders : /\ orders'[x].buyer = orders[x].buyer /\ orders'[x].price = orders[x].price
                            /\ orders'[x].status \in OpenStatus <=> orders[x].status \in OpenStatus
                            /\ \A ended \in Ended : orders'[x].status = ended <=> orders[x].status = ended
        BY <1>1, <1>5, <1>9 DEF OpenStatus, Ended
    <2>4. \A s \in Sellers : bonds'[s].pico = bonds[s].pico
        BY <1>4
    <2> QED BY <2>1, <2>2, <2>3, <2>4, NothingMoves
<1> QED BY <1>1, <1>7, <1>8, <1>9

LEMMA StepMoney == TypeInv /\ TypeInv' /\ MoneyAccounted /\ [Next]_vars => MoneyAccounted'
<1> SUFFICES ASSUME TypeInv, TypeInv', MoneyAccounted, [Next]_vars PROVE MoneyAccounted'
    OBVIOUS
<1>1. ASSUME UNCHANGED <<balances, orders, bonds, entries>> PROVE MoneyAccounted'
    BY <1>1, NothingMoves
<1>2. ASSUME NEW c \in Calls, NEW r, Begin(c, r) PROVE MoneyAccounted'
    BY <1>1, <1>2 DEF Begin
<1>3. ASSUME NEW c \in Calls, Deliver(c) PROVE MoneyAccounted'
    <2> DEFINE o == calls[c].order
    <2>1. o \in Orders /\ orders[o].status = "accepted" /\ orders[o] \in OrderRow
        BY <1>3, CallType DEF Deliver, StillIn, TypeInv, TypeOK
    <2>2. /\ orders'[o].status = "delivered" /\ orders'[o].buyer = orders[o].buyer
          /\ orders'[o].price = orders[o].price
          /\ \A x \in Orders \ {o} : orders'[x] = orders[x]
        BY <1>3, <2>1 DEF Deliver, OrderRow, NoOrder, TypeInv, TypeOK
    <2> QED BY <1>3, <2>1, <2>2, NothingMoves DEF Deliver, OpenStatus, Ended
<1>4. ASSUME NEW c \in Calls, ReleaseBond(c) PROVE MoneyAccounted'
    <2> DEFINE s == calls[c].seller
               n == bonds[s].pico
    <2>1. s \in Sellers /\ s \in Accounts /\ s \in Users /\ n \in Nat
        BY <1>4, CallType, PeopleAssumption DEF ReleaseBond, Accounts, TypeInv, TypeOK
    <2>2. /\ Moves(Unhold(s, n)) /\ bonds' = [bonds EXCEPT ![s] = NoBond]
          /\ UNCHANGED <<orders, entries>>
        BY <1>4 DEF ReleaseBond
    <2>3. /\ bonds'[s].pico = 0 /\ \A x \in Sellers \ {s} : bonds'[x] = bonds[x]
        BY <2>1, <2>2 DEF NoBond, TypeInv, TypeOK
    <2>4. balances \in [Accounts -> Account] /\ balances[s].held \in Nat
        BY <2>1 DEF TypeInv, TypeOK, Account
    <2> HIDE DEF s
    <2> HIDE DEF n
    <2>5. /\ balances'[s] = [available |-> balances[s].available + n, held |-> balances[s].held - n]
          /\ \A a \in Accounts \ {s} : balances'[a] = balances[a]
          /\ Worth(balances') = Worth(balances)
        BY <2>1, <2>2, <2>4, UnholdMoves
    <2>7. balances'[s].held = balances[s].held - n /\ \A a \in Users \ {s} : balances'[a].held = balances[a].held
        BY <2>5 DEF Accounts
    <2>6. bonds'[s].pico = bonds[s].pico + (-n) /\ balances'[s].held = balances[s].held + (-n) /\ -n \in Int
        BY <2>1, <2>3, <2>4, <2>7 DEF n
    <2> QED BY <2>1, <2>2, <2>3, <2>5, <2>6, <2>7, BondMoves
<1>5. ASSUME NEW c \in Calls, ClaimBond(c) PROVE MoneyAccounted'
    <2> DEFINE o == calls[c].order
               s == orders[o].seller
               b == orders[o].buyer
               n == calls[c].amount
    <2>1. o \in Orders /\ n \in Nat /\ orders[o].status = "completed"
        BY <1>5, CallType DEF ClaimBond, CallOK, TypeInv
    <2>2. s \in Sellers /\ s \in Users /\ b \in Users /\ b # s /\ bonds[s].pico \in Nat
        BY <2>1, RowType DEF TypeInv, TypeOK
    <2>3. /\ Moves(And(Spend(s, n), Credit(b, n))) /\ UNCHANGED <<orders, entries>>
          /\ bonds' = [bonds EXCEPT ![s] = BondAfter(s, n)]
        BY <1>5 DEF ClaimBond
    <2>4. /\ bonds'[s].pico = bonds[s].pico - n /\ \A x \in Sellers \ {s} : bonds'[x] = bonds[x]
        BY <2>2, <2>3 DEF BondAfter, TypeInv, TypeOK
    <2>5. balances \in [Accounts -> Account] /\ balances[s].held \in Nat /\ s \in Accounts /\ b \in Accounts
        BY <2>2 DEF TypeInv, TypeOK, Account, Accounts
    <2> HIDE DEF s, b, n, o
    <2>6. /\ balances'[s] = [available |-> balances[s].available, held |-> balances[s].held - n]
          /\ balances'[b] = [available |-> balances[b].available + n, held |-> balances[b].held]
          /\ \A a \in Accounts \ {s, b} : balances'[a] = balances[a]
          /\ Worth(balances') = Worth(balances)
        BY <2>1, <2>2, <2>3, <2>5, TransferMoves
    <2>7. /\ \A a \in Users \ {s} : balances'[a].held = balances[a].held
        BY <2>6 DEF Accounts
    <2>8. bonds'[s].pico = bonds[s].pico + (-n) /\ balances'[s].held = balances[s].held + (-n) /\ -n \in Int
        BY <2>1, <2>2, <2>4, <2>5, <2>6
    <2> QED BY <2>2, <2>3, <2>4, <2>6, <2>7, <2>8, BondMoves
<1>6. ASSUME NEW s \in Sellers, CoolOff(s) PROVE MoneyAccounted'
    <2>1. \A x \in Sellers : bonds'[x].pico = bonds[x].pico
        BY <1>6 DEF CoolOff, TypeInv, TypeOK
    <2> QED BY <1>6, <2>1, NothingMoves DEF CoolOff
<1>7. ASSUME NEW s \in Sellers, NEW stake \in Stakes, PostBond(s, stake) PROVE MoneyAccounted'
    <2>1. stake \in Nat /\ s \in Accounts /\ bonds[s].pico \in Nat
        BY PricesAssumption, PeopleAssumption DEF Accounts, TypeInv, TypeOK
    <2>2. /\ bonds'[s].pico = bonds[s].pico + stake
          /\ \A x \in Sellers \ {s} : bonds'[x].pico = bonds[x].pico
        BY <1>7 DEF PostBond, TypeInv, TypeOK
    <2>3. balances \in [Accounts -> Account] /\ Moves(Hold(s, stake)) /\ UNCHANGED <<orders, entries>>
        BY <1>7 DEF PostBond, TypeInv, TypeOK
    <2>4. /\ balances'[s] = [available |-> balances[s].available - stake, held |-> balances[s].held + stake]
          /\ \A a \in Accounts \ {s} : balances'[a] = balances[a]
          /\ Worth(balances') = Worth(balances)
        BY <2>1, <2>3, HoldMoves
    <2>5. /\ balances'[s].held = balances[s].held + stake
          /\ \A a \in Users \ {s} : balances'[a].held = balances[a].held
        BY <2>4 DEF Accounts
    <2> QED BY <2>1, <2>2, <2>3, <2>4, <2>5, BondMoves
<1>8. ASSUME NEW c \in Calls, Refuse(c) PROVE MoneyAccounted'
    BY <1>1, <1>8 DEF Refuse
<1>9. ASSUME NEW o \in Orders, ForgetFile(o) \/ Report(o) \/ ResolveReport(o) PROVE MoneyAccounted'
    BY <1>1, <1>9 DEF ForgetFile, Report, ResolveReport
<1>10. CASE UNCHANGED vars
    BY <1>1, <1>10 DEF vars
<1>11. ASSUME NEW c \in Calls, NEW o \in Orders, PlaceOrder(c, o) PROVE MoneyAccounted'
    BY <1>11, PlaceOrderMoney
<1>12. ASSUME NEW c \in Calls, MoveOrder(c) PROVE MoneyAccounted'
    BY <1>12, MoveOrderMoney
<1> QED BY <1>2, <1>3, <1>4, <1>5, <1>6, <1>7, <1>8, <1>9, <1>10, <1>11, <1>12
        DEF Next, LookAtListing, AuthoriseMove, AuthoriseDelivery, CheckClaim, CheckRelease

\* However requests overlap, what is held on an account is what it has committed
\* to open orders and to its bond, orders, fees, bonds and compensations only
\* move money that was there, and an order's escrow ends once, as its status
\* says.  (ledger.ts: settleOrder, releaseHold; bonds.ts; market.ts)
THEOREM EscrowAccounted == Spec => []MoneyAccounted
<1>1. Init => TypeInv /\ MoneyAccounted
    BY InitTypeInv, InitMoney
<1>2. (TypeInv /\ MoneyAccounted) /\ [Next]_vars => (TypeInv /\ MoneyAccounted)'
    BY StepType, StepMoney
<1> QED BY <1>1, <1>2, PTL DEF Spec

-----------------------------------------------------------------------------
(* An order ends once *)

\* How a step may change the status of an order: the statuses it goes through,
\* and the request that takes it there.
LEMMA StatusSteps ==
    ASSUME TypeInv, [Next]_vars, NEW o \in Orders, orders'[o].status # orders[o].status
    PROVE  \/ /\ orders[o].status = "none"
              /\ \E c \in Calls : PlaceOrder(c, o)
           \/ /\ orders[o].status \in OpenStatus
              /\ \E c \in Calls : /\ MoveOrder(c) /\ calls[c].order = o
                                  /\ orders[o].status = calls[c].from
           \/ /\ orders[o].status = "accepted"
              /\ \E c \in Calls : Deliver(c) /\ calls[c].order = o
<1>1. orders \in [Orders -> OrderRow]
    BY DEF TypeInv, TypeOK
<1>2. CASE \E c \in Calls, x \in Orders : PlaceOrder(c, x)
    <2>1. PICK c \in Calls, x \in Orders : PlaceOrder(c, x)
        BY <1>2
    <2>2. x = o
        BY <1>1, <2>1 DEF PlaceOrder
    <2>3. orders[o].status = "none"
        BY <2>1, <2>2 DEF PlaceOrder, NoOrder
    <2> QED BY <2>1, <2>2, <2>3
<1>3. CASE \E c \in Calls : MoveOrder(c)
    <2>1. PICK c \in Calls : MoveOrder(c)
        BY <1>3
    <2>2. calls[c].order = o /\ orders[o].status = calls[c].from
        BY <1>1, <2>1 DEF MoveOrder, StillIn
    <2>3. calls[c].from \in OpenStatus
        BY <2>1, CallType DEF MoveOrder
    <2> QED BY <2>1, <2>2, <2>3
<1>4. CASE \E c \in Calls : Deliver(c)
    BY <1>1, <1>4 DEF Deliver, StillIn
<1>5. CASE UNCHANGED orders
    BY <1>5
<1>6. \/ \E c \in Calls, x \in Orders : PlaceOrder(c, x)
      \/ \E c \in Calls : MoveOrder(c)
      \/ \E c \in Calls : Deliver(c)
      \/ UNCHANGED orders
    BY ZenonT(60) DEF Next, vars, LookAtListing, AuthoriseMove, AuthoriseDelivery, CheckClaim, CheckRelease, Begin,
           Refuse, ForgetFile, Report, ResolveReport, CoolOff, PostBond, ReleaseBond, ClaimBond
<1> QED BY <1>2, <1>3, <1>4, <1>5, <1>6

\* An ended order stays ended and its file is gone; a disputed one is only ended
\* by a moderator who looked at the dispute.  (market.ts: orders/:id/status;
\* deliveries.ts)
THEOREM EndsForGood == Spec => OrdersEndForGood
<1>1. ASSUME TypeInv, TypeInv', [Next]_vars
      PROVE  /\ \A o \in files' : orders'[o].status \in {"delivered", "disputed"}
             /\ \A o \in Orders :
                   orders'[o].status # orders[o].status =>
                      /\ orders[o].status \notin {"completed", "cancelled"}
                      /\ orders[o].status = "disputed" =>
                            \E c \in Calls : /\ calls[c].op = "move" /\ calls[c].order = o
                                             /\ calls[c].settling /\ calls'[c] # calls[c]
    <2>1. \A o \in files' : orders'[o].status \in {"delivered", "disputed"}
        BY <1>1 DEF TypeInv, FilesOK
    <2>2. ASSUME NEW o \in Orders, orders'[o].status # orders[o].status
          PROVE  orders[o].status \notin {"completed", "cancelled"}
        BY <1>1, <2>2, StatusSteps DEF OpenStatus
    <2>3. ASSUME NEW o \in Orders, orders'[o].status # orders[o].status, orders[o].status = "disputed"
          PROVE  \E c \in Calls : /\ calls[c].op = "move" /\ calls[c].order = o
                                  /\ calls[c].settling /\ calls'[c] # calls[c]
        <3>1. PICK c \in Calls : MoveOrder(c) /\ calls[c].order = o /\ calls[c].from = "disputed"
            BY <1>1, <2>3, StatusSteps
        <3>2. calls[c].op = "move" /\ calls'[c] = Idle
            BY <1>1, <3>1 DEF MoveOrder, Finish, TypeInv, TypeOK
        <3>3. calls[c].settling
            BY <1>1, <3>1, <3>2, MoveKind
        <3>4. calls'[c] # calls[c]
            BY <3>2 DEF Idle
        <3> QED BY <3>1, <3>2, <3>3, <3>4
    <2> QED BY <2>1, <2>2, <2>3
<1>2. TypeInv /\ TypeInv' /\ [Next]_vars =>
        [/\ \A o \in files' : orders'[o].status \in {"delivered", "disputed"}
         /\ \A o \in Orders :
               orders'[o].status # orders[o].status =>
                  /\ orders[o].status \notin {"completed", "cancelled"}
                  /\ orders[o].status = "disputed" =>
                        \E c \in Calls : /\ calls[c].op = "move" /\ calls[c].order = o
                                         /\ calls[c].settling /\ calls'[c] # calls[c]]_vars
    BY <1>1
<1> QED BY <1>2, TypeCorrect, PTL DEF Spec, OrdersEndForGood

-----------------------------------------------------------------------------
(* The order's two sides see Trade *)

\* What Trade sees of the balances and of an order.
Wealth(b) == [a \in Accounts |-> b[a].available + b[a].held]
StateOf(status) == CASE status = "none" -> "none"
                     [] status = "completed" -> "paid"
                     [] status = "cancelled" -> "returned"
                     [] OTHER -> "open"
DealsOf(table) == [o \in Orders |-> [state |-> StateOf(table[o].status), buyer |-> table[o].buyer,
                                     seller |-> table[o].seller, price |-> table[o].price]]

LEMMA TradeSeen ==
    /\ Bargain!vars = <<Wealth(balances), DealsOf(orders)>>
    /\ Bargain!vars' = <<Wealth(balances'), DealsOf(orders')>>
BY DEF Bargain!vars, Wealth, StateOf, DealsOf, Accounts

LEMMA WealthType ==
    ASSUME NEW b \in [Accounts -> Account]
    PROVE  /\ Wealth(b) \in [Accounts -> Nat]
           /\ \A a \in Accounts : Wealth(b)[a] = b[a].available + b[a].held
BY DEF Wealth, Account

LEMMA DealsType ==
    ASSUME NEW t \in [Orders -> OrderRow], NEW o \in Orders
    PROVE  /\ DealsOf(t)[o].state = StateOf(t[o].status) /\ DealsOf(t)[o].buyer = t[o].buyer
           /\ DealsOf(t)[o].seller = t[o].seller /\ DealsOf(t)[o].price = t[o].price
BY DEF DealsOf

\* Trade sums its tables as Ledger does.
LEMMA TradeTotal == \A f : Bargain!Total(f) = Total(f)
<1>1. \A S : Bargain!Cardinality(S) = Cardinality(S)
    BY DEF Bargain!Cardinality, Cardinality
<1> QED BY <1>1 DEF Bargain!Total, Bargain!Coins, Total, Coins

\* What its deals have promised is what an account has committed.
LEMMA PromisedIsCommitted ==
    ASSUME TypeInv, NEW u \in Users
    PROVE  Bargain!Promised(u) = Committed(u)
<1> DEFINE S == {x \in Orders : orders[x].buyer = u
                      /\ orders[x].status \in {"placed", "accepted", "delivered", "disputed"}}
           T == {x \in Orders : DealsOf(orders)[x].state = "open" /\ DealsOf(orders)[x].buyer = u}
           f == [o \in S |-> orders[o].price]
           g == [o \in T |-> DealsOf(orders)[o].price]
<1>1. \A o \in Orders : /\ orders[o].status \in Statuses \cup {"none"}
                        /\ orders[o].status = "none" => orders[o].buyer = None
    BY RowType DEF NoOrder
<1>2. S = T
    BY <1>1 DEF DealsOf, StateOf, Statuses, OpenStatus, Ended
<1>3. \A o \in S : orders[o].price = DealsOf(orders)[o].price
    BY DEF DealsOf
<1> HIDE DEF S, T
<1>4. f = g
    BY <1>2, <1>3
<1>5. Bargain!Promised(u) = Total(g)
    BY TradeTotal DEF Bargain!Promised, DealsOf, StateOf, T
<1>6. Committed(u) = Total(f)
    BY DEF Committed, S
<1> QED BY <1>4, <1>5, <1>6

\* Trade's operations, said of what it sees.
LEMMA StrikeSeen ==
    ASSUME NEW d \in Orders, NEW buyer \in Users, NEW seller \in Users, NEW price \in Prices,
           DealsOf(orders)[d].state = "none", buyer # seller,
           Bargain!Promised(buyer) + price <= Wealth(balances)[buyer],
           DealsOf(orders') = [DealsOf(orders) EXCEPT ![d] =
               [state |-> "open", buyer |-> buyer, seller |-> seller, price |-> price]],
           Wealth(balances') = Wealth(balances)
    PROVE  Bargain!Next
<1>1. Bargain!Strike(d, buyer, seller, price)
    BY DEF Bargain!Strike, DealsOf, StateOf, Wealth, Accounts
<1> QED BY <1>1 DEF Bargain!Next

\* n leaves one account for another, the fee out of it for the platform.
Paid(b, from, to, n, fee) ==
    [a \in Accounts |->
        CASE a = from -> Wealth(b)[a] - n
          [] a = to -> Wealth(b)[a] + (n - fee)
          [] a = Platform -> Wealth(b)[a] + fee
          [] OTHER -> Wealth(b)[a]]

LEMMA PaysSeen ==
    ASSUME NEW from, NEW to, NEW n, NEW fee, Wealth(balances') = Paid(balances, from, to, n, fee)
    PROVE  Bargain!Pays(from, to, n, fee)
BY DEF Bargain!Pays, Paid, Wealth, Accounts

LEMMA PaySeen ==
    ASSUME NEW d \in Orders, DealsOf(orders)[d].state = "open",
           DealsOf(orders') = [DealsOf(orders) EXCEPT ![d].state = "paid"],
           NEW fee \in 0..orders[d].price,
           Wealth(balances') = Paid(balances, orders[d].buyer, orders[d].seller, orders[d].price, fee)
    PROVE  Bargain!Next
<1>1. Bargain!Pays(orders[d].buyer, orders[d].seller, orders[d].price, fee)
    BY PaysSeen
<1>2. Bargain!Pay(d)
    BY <1>1 DEF Bargain!Pay, DealsOf, StateOf
<1> QED BY <1>2 DEF Bargain!Next

LEMMA ReturnSeen ==
    ASSUME NEW d \in Orders, DealsOf(orders)[d].state = "open",
           DealsOf(orders') = [DealsOf(orders) EXCEPT ![d].state = "returned"],
           Wealth(balances') = Wealth(balances)
    PROVE  Bargain!Next
<1>1. Bargain!Return(d)
    BY DEF Bargain!Return, DealsOf, StateOf, Wealth, Accounts
<1> QED BY <1>1 DEF Bargain!Next

LEMMA CompensateSeen ==
    ASSUME NEW d \in Orders, DealsOf(orders)[d].state = "paid", DealsOf(orders') = DealsOf(orders),
           NEW n \in 1..orders[d].price, n <= Wealth(balances)[orders[d].seller],
           Wealth(balances') = Paid(balances, orders[d].seller, orders[d].buyer, n, 0)
    PROVE  Bargain!Next
<1>1. Bargain!Pays(orders[d].seller, orders[d].buyer, n, 0)
    BY PaysSeen
<1>2. Bargain!Compensate(d)
    BY <1>1 DEF Bargain!Compensate, DealsOf, StateOf, Wealth, Accounts
<1> QED BY <1>2 DEF Bargain!Next

\* What an order looks like to Trade after its row changed.
LEMMA DealsChange ==
    ASSUME NEW s \in [Orders -> OrderRow], NEW t \in [Orders -> OrderRow], NEW o \in Orders,
           \A x \in Orders \ {o} : t[x] = s[x]
    PROVE  /\ DealsOf(t) = [DealsOf(s) EXCEPT ![o] =
                 [state |-> StateOf(t[o].status), buyer |-> t[o].buyer,
                  seller |-> t[o].seller, price |-> t[o].price]]
           /\ /\ t[o].buyer = s[o].buyer /\ t[o].seller = s[o].seller /\ t[o].price = s[o].price
              => DealsOf(t) = [DealsOf(s) EXCEPT ![o].state = StateOf(t[o].status)]
BY DEF DealsOf

LEMMA WealthSame ==
    ASSUME NEW b \in [Accounts -> Account], NEW c \in [Accounts -> Account],
           \A a \in Accounts : b[a].available + b[a].held = c[a].available + c[a].held
    PROVE  Wealth(b) = Wealth(c)
BY DEF Wealth

LEMMA States ==
    /\ StateOf("none") = "none" /\ StateOf("completed") = "paid" /\ StateOf("cancelled") = "returned"
    /\ \A status \in OpenStatus : StateOf(status) = "open"
BY DEF StateOf, OpenStatus

\* Orders that stay open between steps are the same deals.
LEMMA DealsSame ==
    ASSUME NEW s \in [Orders -> OrderRow], NEW t \in [Orders -> OrderRow], NEW o \in Orders,
           \A x \in Orders \ {o} : t[x] = s[x],
           s[o].status \in OpenStatus, t[o].status \in OpenStatus,
           t[o].buyer = s[o].buyer, t[o].seller = s[o].seller, t[o].price = s[o].price
    PROVE  DealsOf(t) = DealsOf(s)
<1>1. StateOf(t[o].status) = StateOf(s[o].status)
    BY States
<1> QED BY <1>1 DEF DealsOf

LEMMA PlaceOrderTrade ==
    ASSUME TypeInv, TypeInv', MoneyAccounted, NEW c \in Calls, NEW o \in Orders, PlaceOrder(c, o)
    PROVE  Bargain!Next
<1> DEFINE b == calls[c].buyer
           s == calls[c].seller
           p == calls[c].price
<1>1. b \in Users /\ b \in Accounts /\ s \in Users /\ p \in Prices /\ p \in Nat /\ b # s
    BY CallType, PeopleAssumption DEF PlaceOrder, Accounts
<1>2. /\ balances \in [Accounts -> Account] /\ balances' \in [Accounts -> Account]
      /\ orders \in [Orders -> OrderRow] /\ orders' \in [Orders -> OrderRow]
    BY DEF TypeInv, TypeOK
<1>3. /\ orders[o] = NoOrder /\ Moves(Hold(b, p))
      /\ orders'[o] = [status |-> "placed", buyer |-> b, seller |-> s, price |-> p]
      /\ \A x \in Orders \ {o} : orders'[x] = orders[x]
    BY <1>2 DEF PlaceOrder
<1> HIDE DEF b, s, p
<1>4. /\ balances'[b] = [available |-> balances[b].available - p, held |-> balances[b].held + p]
      /\ \A a \in Accounts \ {b} : balances'[a] = balances[a]
      /\ balances[b].available >= p
    BY <1>1, <1>2, <1>3, HoldMoves
<1>5. balances[b].available \in Nat /\ balances[b].held \in Nat
    BY <1>1, <1>2 DEF Account
<1>6. Wealth(balances') = Wealth(balances)
    <2>1. \A a \in Accounts : balances'[a].available + balances'[a].held = balances[a].available + balances[a].held
        BY <1>1, <1>4, <1>5
    <2> QED BY <1>2, <2>1, WealthSame
<1>7. Bargain!Promised(b) + p <= Wealth(balances)[b]
    <2>1. balances[b].held = Committed(b) + Bond(b)
        BY <1>1, MoneyParts DEF SetAsideOK
    <2>2. Bond(b) \in Nat /\ Committed(b) \in Nat
        BY <1>2, DueType, CommittedIsDue DEF Bond, TypeInv, TypeOK
    <2>3. Committed(b) <= balances[b].held
        BY <1>5, <2>1, <2>2
    <2>4. Wealth(balances)[b] = balances[b].available + balances[b].held
        BY <1>1, <1>2, WealthType
    <2>5. Bargain!Promised(b) = Committed(b)
        BY <1>1, PromisedIsCommitted
    <2> QED BY <1>1, <1>4, <1>5, <2>2, <2>3, <2>4, <2>5
<1>8. DealsOf(orders)[o].state = "none"
    BY <1>2, <1>3, DealsType, States DEF NoOrder
<1>9. DealsOf(orders') = [DealsOf(orders) EXCEPT ![o] =
          [state |-> "open", buyer |-> b, seller |-> s, price |-> p]]
    <2>1. StateOf("placed") = "open"
        BY States DEF OpenStatus
    <2> QED BY <1>2, <1>3, <2>1, DealsChange
<1> QED BY <1>1, <1>6, <1>7, <1>8, <1>9, StrikeSeen

LEMMA MoveOrderTrade ==
    ASSUME TypeInv, TypeInv', NEW c \in Calls, MoveOrder(c)
    PROVE  Bargain!Next \/ UNCHANGED Bargain!vars
<1> DEFINE o == calls[c].order
           to == calls[c].to
           buyer == orders[o].buyer
           seller == orders[o].seller
           price == orders[o].price
<1>1. /\ o \in Orders /\ orders[o].status \in {"placed", "accepted", "delivered", "disputed"}
      /\ to \in {"accepted", "disputed", "completed", "cancelled"}
    BY CallType, MoveKind DEF MoveOrder, StillIn
<1>2. buyer \in Users /\ seller \in Users /\ buyer # seller /\ price \in Nat
    BY <1>1, RowType
<1>3. /\ balances \in [Accounts -> Account] /\ balances' \in [Accounts -> Account]
      /\ orders \in [Orders -> OrderRow] /\ orders' \in [Orders -> OrderRow]
    BY DEF TypeInv, TypeOK
<1>4. orders' = [orders EXCEPT ![o].status = to] /\ Moves(Outcome(o, to))
    BY DEF MoveOrder
<1> HIDE DEF o, to
<1>5. /\ orders'[o].status = to /\ orders'[o].buyer = buyer /\ orders'[o].seller = seller
      /\ orders'[o].price = price
      /\ \A x \in Orders \ {o} : orders'[x] = orders[x]
    BY <1>1, <1>3, <1>4, RowType DEF OrderRow
<1>6. DealsOf(orders') = [DealsOf(orders) EXCEPT ![o].state = StateOf(to)]
    BY <1>1, <1>3, <1>5, DealsChange
<1>7. DealsOf(orders)[o].state = "open" /\ orders[o].status \in OpenStatus
    BY <1>1, <1>3, DealsType, States DEF OpenStatus
<1>8. CASE to = "completed"
    <2> DEFINE fee == FeeFor(price, FeeBps)
    <2>1. Moves(Settlement(o)) /\ fee \in 0..price
        BY <1>2, <1>4, <1>8, FeeType DEF Outcome
    <2> HIDE DEF fee
    <2>2. Moves(And(Spend(buyer, price), And(Credit(seller, price - fee), Credit(Platform, fee))))
        BY <2>1 DEF Settlement, fee
    <2> HIDE DEF buyer, seller, price
    <2>3. /\ balances'[buyer] = [available |-> balances[buyer].available, held |-> balances[buyer].held - price]
          /\ balances'[seller] = [available |-> balances[seller].available + (price - fee),
                                  held |-> balances[seller].held]
          /\ balances'[Platform] = [available |-> balances[Platform].available + fee,
                                    held |-> balances[Platform].held]
          /\ \A a \in Accounts \ {buyer, seller, Platform} : balances'[a] = balances[a]
        BY <1>2, <1>3, <2>1, <2>2, SettlementMoves
    <2>4. buyer \in Accounts /\ seller \in Accounts /\ Platform \in Accounts /\ Platform # buyer /\ Platform # seller
        BY <1>2, PeopleAssumption DEF Accounts
    <2>5. \A a \in Accounts : balances[a].available \in Nat /\ balances[a].held \in Nat
        BY <1>3 DEF Account
    <2>6. /\ Wealth(balances') \in [Accounts -> Nat]
          /\ Wealth(balances')[buyer] = Wealth(balances)[buyer] - price
          /\ Wealth(balances')[seller] = Wealth(balances)[seller] + (price - fee)
          /\ Wealth(balances')[Platform] = Wealth(balances)[Platform] + fee
          /\ \A a \in Accounts \ {buyer, seller, Platform} : Wealth(balances')[a] = Wealth(balances)[a]
        BY <1>2, <1>3, <2>1, <2>3, <2>4, <2>5, WealthType
    <2>7. Wealth(balances') = Paid(balances, buyer, seller, price, fee)
        BY <1>2, <2>4, <2>6 DEF Paid
    <2>8. DealsOf(orders') = [DealsOf(orders) EXCEPT ![o].state = "paid"]
        BY <1>6, <1>8, States
    <2> QED BY <1>1, <1>7, <2>1, <2>7, <2>8, PaySeen DEF buyer, seller, price
<1>9. CASE to = "cancelled"
    <2>1. Moves(Unhold(buyer, price))
        BY <1>4, <1>9 DEF Outcome
    <2> HIDE DEF buyer, seller, price
    <2>2. /\ balances'[buyer] = [available |-> balances[buyer].available + price,
                                 held |-> balances[buyer].held - price]
          /\ \A a \in Accounts \ {buyer} : balances'[a] = balances[a]
        BY <1>2, <1>3, <2>1, UnholdMoves, AccountsFinite
    <2>3. \A a \in Accounts : balances[a].available \in Nat /\ balances[a].held \in Nat
        BY <1>3 DEF Account
    <2>4. \A a \in Accounts : balances'[a].available + balances'[a].held = balances[a].available + balances[a].held
        BY <1>2, <2>2, <2>3
    <2>5. Wealth(balances') = Wealth(balances)
        BY <1>3, <2>4, WealthSame
    <2>6. DealsOf(orders') = [DealsOf(orders) EXCEPT ![o].state = "returned"]
        BY <1>6, <1>9, States
    <2> QED BY <1>1, <1>7, <2>5, <2>6, ReturnSeen
<1>10. CASE to \in {"accepted", "disputed"}
    <2>1. balances' = balances
        BY <1>3, <1>4, <1>10 DEF Outcome, Moves, Apply
    <2>2. DealsOf(orders') = DealsOf(orders)
        BY <1>1, <1>3, <1>5, <1>7, <1>10, DealsSame DEF OpenStatus
    <2> QED BY <2>1, <2>2, TradeSeen
<1> QED BY <1>1, <1>8, <1>9, <1>10

LEMMA ClaimBondTrade ==
    ASSUME TypeInv, TypeInv', MoneyAccounted, NEW c \in Calls, ClaimBond(c)
    PROVE  Bargain!Next
<1> DEFINE o == calls[c].order
           s == orders[o].seller
           b == orders[o].buyer
           n == calls[c].amount
<1>1. o \in Orders /\ n \in Nat /\ orders[o].status = "completed" /\ n \in 1..orders[o].price
    BY CallType DEF ClaimBond, CallOK, TypeInv
<1>2. s \in Users /\ b \in Users /\ b # s /\ s \in Accounts /\ b \in Accounts
    BY <1>1, RowType DEF Accounts
<1>3. Moves(And(Spend(s, n), Credit(b, n))) /\ orders' = orders
    BY DEF ClaimBond
<1>4. /\ balances \in [Accounts -> Account] /\ balances' \in [Accounts -> Account]
      /\ orders \in [Orders -> OrderRow]
    BY DEF TypeInv, TypeOK
<1> HIDE DEF o, s, b, n
<1>5. /\ balances'[s] = [available |-> balances[s].available, held |-> balances[s].held - n]
      /\ balances'[b] = [available |-> balances[b].available + n, held |-> balances[b].held]
      /\ \A a \in Accounts \ {s, b} : balances'[a] = balances[a]
      /\ balances[s].held >= n
    BY <1>1, <1>2, <1>3, <1>4, TransferMoves
<1>6. \A a \in Accounts : balances[a].available \in Nat /\ balances[a].held \in Nat
    BY <1>4 DEF Account
<1>7. /\ Wealth(balances') \in [Accounts -> Nat] /\ Wealth(balances) \in [Accounts -> Nat]
      /\ Wealth(balances')[s] = Wealth(balances)[s] - n
      /\ Wealth(balances')[b] = Wealth(balances)[b] + n
      /\ \A a \in Accounts \ {s, b} : Wealth(balances')[a] = Wealth(balances)[a]
      /\ n <= Wealth(balances)[s]
    BY <1>1, <1>2, <1>4, <1>5, <1>6, WealthType
<1>8. Wealth(balances') = Paid(balances, s, b, n, 0)
    <2>1. n - 0 = n /\ \A a \in Accounts : Wealth(balances)[a] + 0 = Wealth(balances)[a]
        BY <1>1, <1>7
    <2>2. Platform # s /\ Platform # b
        BY <1>2, PeopleAssumption
    <2> QED BY <1>2, <1>7, <2>1, <2>2 DEF Paid
<1>9. DealsOf(orders)[o].state = "paid" /\ DealsOf(orders') = DealsOf(orders)
    BY <1>1, <1>3, <1>4, DealsType, States
<1> QED BY <1>1, <1>7, <1>8, <1>9, CompensateSeen DEF s, b

LEMMA TradeStep == TypeInv /\ TypeInv' /\ MoneyAccounted /\ [Next]_vars => [Bargain!Next]_(Bargain!vars)
<1> SUFFICES ASSUME TypeInv, TypeInv', MoneyAccounted, [Next]_vars
             PROVE  Bargain!Next \/ UNCHANGED Bargain!vars
    OBVIOUS
<1>1. /\ balances \in [Accounts -> Account] /\ balances' \in [Accounts -> Account]
      /\ orders \in [Orders -> OrderRow] /\ orders' \in [Orders -> OrderRow]
    BY DEF TypeInv, TypeOK
<1>2. CASE UNCHANGED <<balances, orders>>
    BY <1>2, TradeSeen
<1>3. ASSUME NEW s \in Accounts, NEW n \in Nat, Moves(Hold(s, n)) \/ Moves(Unhold(s, n)), orders' = orders
      PROVE  UNCHANGED Bargain!vars
    <2>1. /\ \/ balances'[s] = [available |-> balances[s].available - n, held |-> balances[s].held + n]
             \/ balances'[s] = [available |-> balances[s].available + n, held |-> balances[s].held - n]
          /\ \A a \in Accounts \ {s} : balances'[a] = balances[a]
        BY <1>1, <1>3, HoldMoves, UnholdMoves
    <2>2. \A a \in Accounts : balances[a].available \in Nat /\ balances[a].held \in Nat
        BY <1>1 DEF Account
    <2>3. \A a \in Accounts : balances'[a].available + balances'[a].held = balances[a].available + balances[a].held
        BY <1>3, <2>1, <2>2
    <2>4. Wealth(balances') = Wealth(balances)
        BY <1>1, <2>3, WealthSame
    <2> QED BY <1>3, <2>4, TradeSeen
<1>4. ASSUME NEW c \in Calls, ReleaseBond(c) PROVE UNCHANGED Bargain!vars
    <2>1. calls[c].seller \in Sellers /\ calls[c].seller \in Accounts
        BY <1>4, CallType, PeopleAssumption DEF ReleaseBond, Accounts
    <2>2. bonds[calls[c].seller].pico \in Nat
        BY <2>1 DEF TypeInv, TypeOK
    <2> QED BY <1>3, <1>4, <2>1, <2>2 DEF ReleaseBond
<1>5. ASSUME NEW s \in Sellers, NEW stake \in Stakes, PostBond(s, stake) PROVE UNCHANGED Bargain!vars
    <2>1. s \in Accounts /\ stake \in Nat
        BY PeopleAssumption, PricesAssumption DEF Accounts
    <2> QED BY <1>3, <1>5, <2>1 DEF PostBond
<1>6. ASSUME NEW c \in Calls, Deliver(c) PROVE UNCHANGED Bargain!vars
    <2> DEFINE o == calls[c].order
    <2>1. o \in Orders /\ orders[o].status = "accepted" /\ balances' = balances
        BY <1>6, CallType DEF Deliver, StillIn
    <2>2. orders' = [orders EXCEPT ![o].status = "delivered"]
        BY <1>6 DEF Deliver
    <2> HIDE DEF o
    <2>3. /\ orders'[o].status = "delivered" /\ orders'[o].buyer = orders[o].buyer
          /\ orders'[o].seller = orders[o].seller /\ orders'[o].price = orders[o].price
          /\ \A x \in Orders \ {o} : orders'[x] = orders[x]
        BY <1>1, <2>1, <2>2 DEF OrderRow, NoOrder
    <2>4. DealsOf(orders') = DealsOf(orders)
        BY <1>1, <2>1, <2>3, DealsSame DEF OpenStatus
    <2> QED BY <2>1, <2>4, TradeSeen
<1>7. \/ \E c \in Calls, o \in Orders : PlaceOrder(c, o)
      \/ \E c \in Calls : MoveOrder(c) \/ ClaimBond(c) \/ ReleaseBond(c) \/ Deliver(c)
      \/ \E s \in Sellers, stake \in Stakes : PostBond(s, stake)
      \/ UNCHANGED <<balances, orders>>
    BY ZenonT(60) DEF Next, vars, LookAtListing, AuthoriseMove, AuthoriseDelivery, CheckClaim, CheckRelease, Begin,
           Refuse, ForgetFile, Report, ResolveReport, CoolOff
<1> QED BY <1>2, <1>4, <1>5, <1>6, <1>7, PlaceOrderTrade, MoveOrderTrade, ClaimBondTrade

LEMMA TradeInit == Init => Bargain!Init
<1> SUFFICES ASSUME Init PROVE Bargain!Init
    OBVIOUS
<1>1. TypeInv
    BY InitTypeInv
<1>2. Wealth(balances) \in [Accounts -> Nat]
    BY <1>1, WealthType DEF TypeInv, TypeOK
<1>3. \A d \in Orders : DealsOf(orders)[d].state = "none"
    BY <1>1, DealsType, States DEF Init, NoOrder, TypeInv, TypeOK
<1> QED BY <1>2, <1>3 DEF Bargain!Init, Wealth, DealsOf, StateOf, Accounts

\* The orders, holds, settlements and claims of the code keep what Trade
\* promises: a deal is struck on money its buyer has and has not promised, ends
\* once, and pays its price out of the buyer's or moves nothing.  (ledger.ts,
\* market.ts, bonds.ts)
THEOREM EscrowKeepsTrade == Spec => KeepsTrade
<1>1. Init => TypeInv /\ MoneyAccounted
    BY InitTypeInv, InitMoney
<1>2. (TypeInv /\ MoneyAccounted) /\ [Next]_vars => (TypeInv /\ MoneyAccounted)'
    BY StepType, StepMoney
<1>3. Init => Bargain!Init
    BY TradeInit
<1>4. TypeInv /\ TypeInv' /\ MoneyAccounted /\ [Next]_vars => [Bargain!Next]_(Bargain!vars)
    BY TradeStep
<1> QED BY <1>1, <1>2, <1>3, <1>4, PTL DEF Spec, KeepsTrade, Bargain!Spec

-----------------------------------------------------------------------------
(* Types *)

OrderStatuses == {"accepted", "delivered", "disputed", "completed", "cancelled"}
Contents == {"nothing"} \cup UNION {d.files : d \in Deals}
FileRow ==
    [id : Nat, key : Nat, kind : {"manual", "file", "text", "attachment"},
     bytes : [of : Contents, clean : BOOLEAN]]
TabRow ==
    [seen : OrderStatuses \cup {"nothing"}, keyed : BOOLEAN,
     step : {"idle", "upload", "key", "open", "forget"}, file : FileRow]

HandoverType ==
    /\ deal \in Deals
    /\ order \in OrderStatuses
    /\ blobs \subseteq FileRow /\ keyring \subseteq FileRow /\ channel \in Seq(FileRow)
    /\ handing \in [SellerTabs -> TabRow] /\ collecting \in TabRow
    /\ made \in Nat

\* The files whose key has left the tab that made it, or is about to, and the
\* one the buyer's browser is at.
OnTheirWay == {channel[i] : i \in DOMAIN channel}
WithKey(t) == IF handing[t].step = "key" THEN {handing[t].file} ELSE {}
AtBuyer == IF collecting.step \in {"open", "forget"} THEN {collecting.file} ELSE {}
Given == blobs \cup keyring \cup OnTheirWay \cup AtBuyer \cup UNION {WithKey(t) : t \in SellerTabs}

\* An attachment's id is its own, and the order's is given one key, with the
\* status; the buyer's browser forgets what it has.
OwnIds ==
    /\ \A f \in Given : f.id # OrderId => f.id = f.key
    /\ \A t \in SellerTabs : handing[t].file.id # OrderId => handing[t].file.id = handing[t].file.key
OneKey == \A f, g \in Given : f.id = OrderId /\ g.id = OrderId => f.key = g.key
NoneYet == order = "accepted" => \A f \in Given : f.id # OrderId
KeyOf(b) ==
    \/ b.key \in lost
    \/ \E k \in keyring \cup OnTheirWay : k.key = b.key
    \/ \E t \in SellerTabs : handing[t].step = "key" /\ handing[t].file.key = b.key
KeysAreSomewhere == \A b \in blobs : KeyOf(b)
HasIt == collecting.step = "forget" => collecting.file \in goods /\ collecting.file.id = OrderId

HandoverInv ==
    HandoverType /\ OwnIds /\ OneKey /\ NoneYet /\ KeysAreSomewhere /\ HasIt

LEMMA FileRows == NothingToSend \in FileRow /\ Tab \in TabRow
BY DEF NothingToSend, Tab, FileRow, TabRow, OrderId, Contents

LEMMA HandoverStarts == HandoverInit => HandoverInv
<1> SUFFICES ASSUME HandoverInit PROVE HandoverInv
    OBVIOUS
<1>1. HandoverType
    BY FileRows DEF HandoverInit, HandoverType, OrderStatuses
<1>2. Given = {}
    BY DEF HandoverInit, Given, OnTheirWay, WithKey, AtBuyer, Tab
<1>3. OwnIds /\ OneKey /\ NoneYet
    BY <1>2 DEF HandoverInit, OwnIds, OneKey, NoneYet, Tab, NothingToSend
<1> QED
    BY <1>1, <1>3 DEF HandoverInit, HandoverInv, KeysAreSomewhere, HasIt, Tab

\* What is encrypted is a file, and an attachment has an id of its own.
LEMMA EncryptedType ==
    ASSUME HandoverType, NEW kind \in {"file", "text", "attachment"}, NEW of \in deal.files
    PROVE  /\ Encrypted(kind, of) \in FileRow
           /\ Encrypted(kind, of).id # OrderId => Encrypted(kind, of).id = Encrypted(kind, of).key
<1>1. of \in Contents
    BY DEF HandoverType, Contents
<1> DEFINE bytes == Strip([of |-> of, clean |-> FALSE])
           id == IF kind = "attachment" THEN made + 1 ELSE OrderId
<1>2. bytes \in [of : Contents, clean : BOOLEAN]
    BY <1>1 DEF Strip
<1>3. made + 1 \in Nat /\ id \in Nat /\ (id # OrderId => id = made + 1)
    BY DEF HandoverType, OrderId
<1>4. Encrypted(kind, of) = [id |-> id, key |-> made + 1, kind |-> kind, bytes |-> bytes]
    BY DEF Encrypted
<1> HIDE DEF bytes, id
<1> QED
    BY <1>2, <1>3, <1>4 DEF FileRow

\* A tab that changes its step, its file or what it shows.
LEMMA TabSteps ==
    ASSUME NEW tab \in TabRow, NEW s \in {"idle", "upload", "key", "open", "forget"}
    PROVE  LET next == [tab EXCEPT !.step = s]
           IN  next \in TabRow /\ next.step = s /\ next.file = tab.file
BY DEF TabRow

LEMMA TabTakes ==
    ASSUME NEW tab \in TabRow, NEW s \in {"upload", "open"}, NEW f \in FileRow
    PROVE  LET next == [tab EXCEPT !.step = s, !.file = f]
           IN  next \in TabRow /\ next.step = s /\ next.file = f
BY DEF TabRow

LEMMA TabShows ==
    ASSUME NEW tab \in TabRow, NEW status \in OrderStatuses
    PROVE  LET next == [tab EXCEPT !.seen = status]
           IN  next \in TabRow /\ next.step = tab.step /\ next.file = tab.file
BY DEF TabRow

LEMMA BuyerShows ==
    ASSUME NEW tab \in TabRow, NEW status \in OrderStatuses, NEW keyed \in BOOLEAN
    PROVE  LET next == [tab EXCEPT !.seen = status, !.keyed = keyed]
           IN  next \in TabRow /\ next.step = tab.step /\ next.file = tab.file
BY DEF TabRow

-----------------------------------------------------------------------------
(* The steps of a seller's tab *)

SellerStep(t) ==
    ShowSeller(t) \/ Choose(t) \/ Upload(t) \/ UploadRefused(t) \/ SendKey(t) \/ CloseSeller(t)

\* What a tab goes on to.
LEMMA ChooseEffect ==
    ASSUME HandoverType, NEW t \in SellerTabs, Choose(t)
    PROVE  \E f \in FileRow :
               /\ handing' = [handing EXCEPT ![t] = [handing[t] EXCEPT !.step = "upload", !.file = f]]
               /\ f.id # OrderId => f.id = f.key
               /\ made' = made + 1
               /\ UNCHANGED <<deal, order, blobs, channel, keyring, collecting, goods, digests, lost>>
<1>1. CASE MarkDelivered(t)
    <2>1. NothingToSend.id = OrderId
        BY DEF NothingToSend
    <2> QED BY <1>1, <2>1, FileRows DEF Choose, MarkDelivered, Hands
<1>2. CASE \E of \in deal.files : DeliverFile(t, of) \/ SendAttachment(t, of)
    <2>1. PICK of \in deal.files : DeliverFile(t, of) \/ SendAttachment(t, of)
        BY <1>2
    <2>2. PICK kind \in {"file", "text", "attachment"} :
              handing' = [handing EXCEPT ![t] = [handing[t] EXCEPT !.step = "upload", !.file = Encrypted(kind, of)]]
              /\ made' = made + 1
        BY <2>1 DEF DeliverFile, SendAttachment, Hands
    <2> QED BY <2>2, EncryptedType DEF Choose
<1> QED BY <1>1, <1>2 DEF Choose

LEMMA HandoverTyped == HandoverType /\ [HandoverNext]_handoverVars => HandoverType'
<1> SUFFICES ASSUME HandoverType, [HandoverNext]_handoverVars PROVE HandoverType'
    OBVIOUS
<1>1. ASSUME NEW t \in SellerTabs, SellerStep(t) \/ Commit(t) PROVE HandoverType'
    <2> USE DEF HandoverType
    <2>0. handing[t] \in TabRow /\ handing[t].file \in FileRow
        BY DEF TabRow
    <2>1. CASE ShowSeller(t)
        BY <2>0, <2>1, TabShows DEF ShowSeller, Hands
    <2>2. CASE Choose(t)
        <3>1. PICK f \in FileRow :
                  /\ handing' = [handing EXCEPT ![t] = [handing[t] EXCEPT !.step = "upload", !.file = f]]
                  /\ made' = made + 1
                  /\ UNCHANGED <<deal, order, blobs, channel, keyring, collecting, goods, digests, lost>>
            BY <2>2, ChooseEffect
        <3>2. [handing[t] EXCEPT !.step = "upload", !.file = f] \in TabRow
            BY <2>0, TabTakes
        <3> QED BY <3>1, <3>2
    <2>3. CASE Upload(t)
        <3>0. \/ handing' = [handing EXCEPT ![t] = [handing[t] EXCEPT !.step = "idle"]]
              \/ handing' = [handing EXCEPT ![t] = [handing[t] EXCEPT !.step = "key"]]
            BY <2>3 DEF Upload, Hands
        <3>1. handing' \in [SellerTabs -> TabRow]
            <4>1. /\ [handing[t] EXCEPT !.step = "idle"] \in TabRow
                  /\ [handing[t] EXCEPT !.step = "key"] \in TabRow
                BY <2>0, TabSteps
            <4> QED BY <3>0, <4>1
        <3>2. blobs' \subseteq FileRow /\ order' \in OrderStatuses
            BY <2>0, <2>3 DEF Upload, OrderStatuses
        <3> QED BY <2>3, <3>1, <3>2 DEF Upload
    <2>4. CASE UploadRefused(t)
        BY <2>0, <2>4, TabSteps DEF UploadRefused, Hands
    <2>5. CASE SendKey(t)
        <3>1. channel' = channel \/ channel' = Append(channel, handing[t].file)
            BY <2>5 DEF SendKey
        <3>2. channel' \in Seq(FileRow)
            BY <2>0, <3>1
        <3> QED BY <2>0, <2>5, <3>2, TabSteps DEF SendKey, Hands
    <2>6. CASE CloseSeller(t)
        BY <2>0, <2>6, FileRows DEF CloseSeller, Hands
    <2>7. CASE Commit(t)
        BY <2>7 DEF Commit
    <2> QED BY <1>1, <2>1, <2>2, <2>3, <2>4, <2>5, <2>6, <2>7 DEF SellerStep
<1>2. CASE ReceiveKey \/ LoseEnvelope
    <2> channel # <<>> => Head(channel) \in FileRow /\ Tail(channel) \in Seq(FileRow)
        BY DEF HandoverType
    <2> QED BY <1>2 DEF ReceiveKey, LoseEnvelope, HandoverType
<1>3. CASE ShowBuyer \/ Open \/ Forget \/ CloseBuyer
    <2>1. collecting' \in TabRow
        <3> USE DEF HandoverType
        <3>1. CASE ShowBuyer
            BY <3>1, BuyerShows DEF ShowBuyer
        <3>2. CASE Open
            BY <3>2, TabSteps DEF Open
        <3>3. CASE Forget \/ CloseBuyer
            BY <3>3, TabSteps, FileRows DEF Forget, CloseBuyer
        <3> QED BY <1>3, <3>1, <3>2, <3>3
    <2> QED BY <1>3, <2>1 DEF ShowBuyer, Open, Forget, CloseBuyer, HandoverType
<1>4. CASE MoveOn
    BY <1>4 DEF MoveOn, Complete, Dispute, Settle, EndAs, HandoverType, OrderStatuses
<1>5. CASE \E k \in keyring : Fetch(k)
    <2>1. PICK file \in FileRow : collecting' = [collecting EXCEPT !.step = "open", !.file = file]
        BY <1>5 DEF Fetch, Stored, HandoverType
    <2>2. collecting' \in TabRow
        BY <2>1, TabTakes DEF HandoverType
    <2> QED BY <1>5, <2>2 DEF Fetch, HandoverType
<1>6. CASE \E file \in blobs : ExpireBlob(file)
    BY <1>6 DEF ExpireBlob, HandoverType
<1>7. CASE UNCHANGED handoverVars
    BY <1>7 DEF handoverVars, HandoverType
<1> QED
    BY <1>1, <1>2, <1>3, <1>4, <1>5, <1>6, <1>7 DEF HandoverNext, SellerStep

-----------------------------------------------------------------------------
(* What is given away *)

GivenBy(tabs) == UNION {IF tabs[t].step = "key" THEN {tabs[t].file} ELSE {} : t \in SellerTabs}

LEMMA GivenSplit ==
    /\ Given = blobs \cup keyring \cup OnTheirWay \cup AtBuyer \cup GivenBy(handing)
    /\ Given' = blobs' \cup keyring' \cup OnTheirWay' \cup AtBuyer' \cup GivenBy(handing')
BY DEF Given, GivenBy, WithKey

\* A tab that does not go on to send a key gives nothing.
LEMMA TabGives ==
    ASSUME HandoverType, NEW t \in SellerTabs, NEW tab \in TabRow, Hands(t, tab)
    PROVE  /\ tab.step # "key" => GivenBy(handing') \subseteq GivenBy(handing)
           /\ GivenBy(handing') \subseteq GivenBy(handing) \cup {tab.file}
           /\ \A u \in SellerTabs : handing'[u] = IF u = t THEN tab ELSE handing[u]
<1>1. \A u \in SellerTabs : handing'[u] = IF u = t THEN tab ELSE handing[u]
    BY DEF Hands, HandoverType
<1> QED BY <1>1 DEF GivenBy

LEMMA QueueHolds ==
    ASSUME HandoverType
    PROVE  /\ channel # <<>> =>
                  /\ {Tail(channel)[i] : i \in DOMAIN Tail(channel)} \subseteq OnTheirWay
                  /\ Head(channel) \in OnTheirWay
                  /\ OnTheirWay = {Head(channel)} \cup {Tail(channel)[i] : i \in DOMAIN Tail(channel)}
           /\ \A f \in FileRow :
                  LET longer == Append(channel, f)
                  IN  {longer[i] : i \in DOMAIN longer} = OnTheirWay \cup {f}
<1> USE DEF HandoverType
<1>1. ASSUME channel # <<>>
      PROVE  OnTheirWay = {Head(channel)} \cup {Tail(channel)[i] : i \in DOMAIN Tail(channel)}
    <2>1. DOMAIN channel = 1..Len(channel) /\ Len(channel) \in Nat \ {0}
        BY <1>1
    <2>2. DOMAIN Tail(channel) = 1..(Len(channel) - 1) /\ \A i \in 1..(Len(channel) - 1) : Tail(channel)[i] = channel[i + 1]
        BY <1>1, <2>1
    <2>3. \A i \in 2..Len(channel) : i - 1 \in 1..(Len(channel) - 1) /\ Tail(channel)[i - 1] = channel[i]
        BY <2>1, <2>2
    <2>4. Head(channel) = channel[1]
        BY <1>1
    <2>5. \A i \in 1..(Len(channel) - 1) : i + 1 \in 1..Len(channel)
        BY <2>1
    <2>6. 1 \in 1..Len(channel) /\ \A i \in 1..Len(channel) : i = 1 \/ i \in 2..Len(channel)
        BY <2>1
    <2>7. OnTheirWay = {channel[i] : i \in 1..Len(channel)}
        BY <2>1 DEF OnTheirWay
    <2>8. {Tail(channel)[i] : i \in DOMAIN Tail(channel)} = {channel[i + 1] : i \in 1..(Len(channel) - 1)}
        BY <2>2
    <2>9. \A f \in OnTheirWay : f = Head(channel) \/ f \in {channel[i + 1] : i \in 1..(Len(channel) - 1)}
        <3> TAKE f \in OnTheirWay
        <3>1. PICK i \in 1..Len(channel) : f = channel[i]
            BY <2>7
        <3>2. CASE i = 1
            BY <3>1, <3>2, <2>4
        <3>3. CASE i \in 2..Len(channel)
            <4>1. i - 1 \in 1..(Len(channel) - 1) /\ (i - 1) + 1 = i
                BY <3>3, <2>1
            <4> QED BY <3>1, <4>1
        <3> QED BY <3>2, <3>3, <2>6
    <2> QED BY <2>4, <2>5, <2>6, <2>7, <2>8, <2>9
<1>2. ASSUME NEW f \in FileRow
      PROVE  {Append(channel, f)[i] : i \in DOMAIN Append(channel, f)} = OnTheirWay \cup {f}
    <2>1. DOMAIN channel = 1..Len(channel) /\ Len(channel) \in Nat
        OBVIOUS
    <2>2. DOMAIN Append(channel, f) = 1..(Len(channel) + 1)
        BY <2>1
    <2>3. /\ \A i \in 1..Len(channel) : Append(channel, f)[i] = channel[i]
          /\ Append(channel, f)[Len(channel) + 1] = f
        BY <2>1
    <2> QED BY <2>1, <2>2, <2>3 DEF OnTheirWay
<1> QED BY <1>1, <1>2

\* Only an upload that is accepted gives a file that was not there.
Gives(t) ==
    /\ Upload(t) /\ handing[t].file # NothingToSend
    /\ Given' \subseteq Given \cup {handing[t].file}

LEMMA GivenGrows ==
    ASSUME HandoverType, [HandoverNext]_handoverVars
    PROVE  Given' \subseteq Given \/ \E t \in SellerTabs : Gives(t)
<1> USE GivenSplit
<1>1. ASSUME NEW t \in SellerTabs, SellerStep(t) \/ Commit(t)
      PROVE  Given' \subseteq Given \/ Gives(t)
    <2>0. handing[t] \in TabRow /\ handing[t].file \in FileRow
        BY DEF TabRow, HandoverType
    <2>1. CASE ShowSeller(t)
        <3>1. [handing[t] EXCEPT !.seen = order] \in TabRow /\ [handing[t] EXCEPT !.seen = order].step = "idle"
            BY <2>0, <2>1, TabShows DEF ShowSeller, HandoverType
        <3>2. GivenBy(handing') \subseteq GivenBy(handing)
            BY <2>1, <3>1, TabGives DEF ShowSeller
        <3> QED BY <2>1, <3>2 DEF ShowSeller, OnTheirWay, AtBuyer
    <2>2. CASE Choose(t)
        <3>1. PICK f \in FileRow :
                  /\ handing' = [handing EXCEPT ![t] = [handing[t] EXCEPT !.step = "upload", !.file = f]]
                  /\ UNCHANGED <<deal, order, blobs, channel, keyring, collecting, goods, digests, lost>>
            BY <2>2, ChooseEffect
        <3>2. [handing[t] EXCEPT !.step = "upload", !.file = f] \in TabRow
              /\ [handing[t] EXCEPT !.step = "upload", !.file = f].step = "upload"
            BY <2>0, TabTakes
        <3>3. GivenBy(handing') \subseteq GivenBy(handing)
            <4>1. Hands(t, [handing[t] EXCEPT !.step = "upload", !.file = f])
                BY <3>1 DEF Hands
            <4> QED BY <3>2, <4>1, TabGives
        <3>4. OnTheirWay' = OnTheirWay /\ AtBuyer' = AtBuyer /\ keyring' = keyring /\ blobs' = blobs
            BY <3>1 DEF OnTheirWay, AtBuyer
        <3> QED BY <3>3, <3>4
    <2>3. CASE Upload(t)
        <3>1. /\ [handing[t] EXCEPT !.step = "idle"] \in TabRow
              /\ [handing[t] EXCEPT !.step = "idle"].step = "idle"
              /\ [handing[t] EXCEPT !.step = "key"] \in TabRow
              /\ [handing[t] EXCEPT !.step = "key"].file = handing[t].file
            BY <2>0, TabSteps
        <3>2. OnTheirWay' = OnTheirWay /\ AtBuyer' = AtBuyer /\ keyring' = keyring
            BY <2>3 DEF Upload, OnTheirWay, AtBuyer
        <3>3. CASE handing[t].file = NothingToSend
            <4>1. Hands(t, [handing[t] EXCEPT !.step = "idle"]) /\ blobs' = blobs
                BY <2>3, <3>3 DEF Upload
            <4> QED BY <3>1, <3>2, <4>1, TabGives
        <3>4. CASE handing[t].file # NothingToSend
            <4>1. blobs' = blobs \cup {handing[t].file}
                BY <2>3, <3>4 DEF Upload
            <4>2. \/ Hands(t, [handing[t] EXCEPT !.step = "idle"])
                  \/ Hands(t, [handing[t] EXCEPT !.step = "key"])
                BY <2>3, <3>4 DEF Upload
            <4>3. GivenBy(handing') \subseteq GivenBy(handing) \cup {handing[t].file}
                BY <3>1, <4>2, TabGives
            <4> QED BY <2>3, <3>2, <3>4, <4>1, <4>3 DEF Gives
        <3> QED BY <3>3, <3>4
    <2>4. CASE UploadRefused(t)
        <3>1. [handing[t] EXCEPT !.step = "idle"] \in TabRow /\ [handing[t] EXCEPT !.step = "idle"].step = "idle"
            BY <2>0, TabSteps
        <3>2. GivenBy(handing') \subseteq GivenBy(handing)
            <4>1. Hands(t, [handing[t] EXCEPT !.step = "idle"])
                BY <2>4 DEF UploadRefused
            <4> QED BY <3>1, <4>1, TabGives
        <3>3. OnTheirWay' = OnTheirWay /\ AtBuyer' = AtBuyer /\ keyring' = keyring /\ blobs' = blobs
            BY <2>4 DEF UploadRefused, OnTheirWay, AtBuyer
        <3> QED BY <3>2, <3>3
    <2>5. CASE SendKey(t)
        <3>1. [handing[t] EXCEPT !.step = "idle"] \in TabRow /\ [handing[t] EXCEPT !.step = "idle"].step = "idle"
            BY <2>0, TabSteps
        <3>2. handing[t].file \in GivenBy(handing)
            BY <2>5 DEF SendKey, GivenBy
        <3>3. OnTheirWay' \subseteq OnTheirWay \cup {handing[t].file}
            BY <2>0, <2>5, QueueHolds DEF SendKey, OnTheirWay
        <3>4. GivenBy(handing') \subseteq GivenBy(handing)
            <4>1. Hands(t, [handing[t] EXCEPT !.step = "idle"])
                BY <2>5 DEF SendKey
            <4> QED BY <3>1, <4>1, TabGives
        <3>5. AtBuyer' = AtBuyer /\ keyring' = keyring /\ blobs' = blobs
            BY <2>5 DEF SendKey, AtBuyer
        <3> QED BY <3>2, <3>3, <3>4, <3>5
    <2>6. CASE CloseSeller(t)
        <3>1. Tab \in TabRow /\ Tab.step = "idle"
            BY FileRows DEF Tab
        <3> QED BY <2>6, <3>1, TabGives DEF CloseSeller, OnTheirWay, AtBuyer
    <2>7. CASE Commit(t)
        BY <2>7 DEF Commit, OnTheirWay, AtBuyer
    <2> QED BY <1>1, <2>1, <2>2, <2>3, <2>4, <2>5, <2>6, <2>7 DEF SellerStep
<1>2. CASE ReceiveKey \/ LoseEnvelope
    <2>1. OnTheirWay' \subseteq OnTheirWay /\ Head(channel) \in OnTheirWay
        BY <1>2, QueueHolds DEF ReceiveKey, LoseEnvelope, OnTheirWay
    <2>2. keyring' \subseteq keyring \cup {Head(channel)} /\ blobs' = blobs /\ handing' = handing /\ AtBuyer' = AtBuyer
        BY <1>2 DEF ReceiveKey, LoseEnvelope, AtBuyer
    <2> QED BY <2>1, <2>2
<1>3. CASE ShowBuyer \/ Open \/ Forget \/ CloseBuyer
    <2>1. OnTheirWay' = OnTheirWay /\ keyring' = keyring /\ blobs' \subseteq blobs /\ handing' = handing
        BY <1>3 DEF ShowBuyer, Open, Forget, CloseBuyer, OnTheirWay
    <2>2. collecting \in TabRow
        BY DEF HandoverType
    <2>3. CASE CloseBuyer
        BY <2>1, <2>3 DEF CloseBuyer, AtBuyer, Tab
    <2>4. CASE Open
        BY <2>1, <2>2, <2>4 DEF Open, AtBuyer, TabRow
    <2>5. CASE ShowBuyer \/ Forget
        BY <2>1, <2>2, <2>5 DEF ShowBuyer, Forget, AtBuyer, TabRow
    <2> QED BY <1>3, <2>3, <2>4, <2>5
<1>4. CASE MoveOn
    BY <1>4 DEF MoveOn, Complete, Dispute, Settle, EndAs, OnTheirWay, AtBuyer
<1>5. CASE \E k \in keyring : Fetch(k)
    <2>1. PICK file \in blobs : collecting' = [collecting EXCEPT !.step = "open", !.file = file]
        BY <1>5 DEF Fetch, Stored
    <2>2. AtBuyer' = {file}
        BY <2>1 DEF AtBuyer, TabRow, HandoverType
    <2> QED BY <1>5, <2>2 DEF Fetch, OnTheirWay
<1>6. CASE \E file \in blobs : ExpireBlob(file)
    BY <1>6 DEF ExpireBlob, OnTheirWay, AtBuyer
<1>7. CASE UNCHANGED handoverVars
    BY <1>7 DEF handoverVars, OnTheirWay, AtBuyer
<1> QED
    BY <1>1, <1>2, <1>3, <1>4, <1>5, <1>6, <1>7 DEF HandoverNext, SellerStep

-----------------------------------------------------------------------------
(* One key for the order *)

\* A tab's file stays its own, or is new, or is gone with the tab.
LEMMA FilesOfTabs ==
    ASSUME HandoverType, [HandoverNext]_handoverVars, NEW u \in SellerTabs,
           handing[u].file.id # OrderId => handing[u].file.id = handing[u].file.key
    PROVE  handing'[u].file.id # OrderId => handing'[u].file.id = handing'[u].file.key
<1>1. ASSUME NEW t \in SellerTabs, SellerStep(t)
      PROVE  handing'[u].file.id # OrderId => handing'[u].file.id = handing'[u].file.key
    <2>0. handing[t] \in TabRow
        BY DEF HandoverType
    <2>1. CASE Choose(t)
        <3>1. PICK f \in FileRow :
                  /\ handing' = [handing EXCEPT ![t] = [handing[t] EXCEPT !.step = "upload", !.file = f]]
                  /\ f.id # OrderId => f.id = f.key
            BY <2>1, ChooseEffect
        <3>2. [handing[t] EXCEPT !.step = "upload", !.file = f].file = f
            BY <2>0, TabTakes
        <3> QED BY <3>1, <3>2 DEF HandoverType
    <2>2. CASE CloseSeller(t)
        <3>1. Tab.file.id = OrderId
            BY DEF Tab, NothingToSend
        <3> QED BY <2>2, <3>1 DEF CloseSeller, Hands, HandoverType
    <2>3. ASSUME NEW tab, handing' = [handing EXCEPT ![t] = tab], tab.file = handing[t].file
          PROVE  handing'[u].file = handing[u].file
        BY <2>3 DEF HandoverType
    <2>4. CASE ShowSeller(t)
        <3>1. [handing[t] EXCEPT !.seen = order].file = handing[t].file
            BY <2>0, TabShows DEF HandoverType
        <3> QED BY <2>3, <2>4, <3>1 DEF ShowSeller, Hands
    <2>5. CASE Upload(t) \/ UploadRefused(t) \/ SendKey(t)
        <3>1. \E s \in {"idle", "key"} : handing' = [handing EXCEPT ![t] = [handing[t] EXCEPT !.step = s]]
            BY <2>5 DEF Upload, UploadRefused, SendKey, Hands
        <3>2. \A s \in {"idle", "key"} : [handing[t] EXCEPT !.step = s].file = handing[t].file
            BY <2>0, TabSteps
        <3> QED BY <2>3, <3>1, <3>2
    <2> QED BY <1>1, <2>1, <2>2, <2>4, <2>5 DEF SellerStep
<1>2. ASSUME handing' = handing
      PROVE  handing'[u].file.id # OrderId => handing'[u].file.id = handing'[u].file.key
    BY <1>2
<1>3. handing' = handing \/ \E t \in SellerTabs : SellerStep(t)
    BY DEF HandoverNext, SellerStep, Commit, ReceiveKey, LoseEnvelope, ShowBuyer, Open, Forget, CloseBuyer,
           MoveOn, Fetch, ExpireBlob, handoverVars
<1> QED BY <1>1, <1>2, <1>3

\* An order that has moved on is not accepted again.
LEMMA AcceptedBefore ==
    ASSUME [HandoverNext]_handoverVars, order' = "accepted"
    PROVE  order = "accepted"
BY DEF HandoverNext, handoverVars, ShowSeller, Choose, Upload, UploadRefused, SendKey, CloseSeller, Commit,
       ReceiveKey, LoseEnvelope, ShowBuyer, Open, Forget, CloseBuyer, MoveOn, Complete, Dispute, Settle,
       EndAs, Fetch, ExpireBlob

LEMMA OneKeyKept ==
    ASSUME HandoverInv, [HandoverNext]_handoverVars
    PROVE  OwnIds' /\ OneKey' /\ NoneYet'
<1> USE DEF HandoverInv
<1>1. \A t \in SellerTabs : handing'[t].file.id # OrderId => handing'[t].file.id = handing'[t].file.key
    BY FilesOfTabs DEF OwnIds
<1>2. CASE Given' \subseteq Given
    BY <1>1, <1>2, AcceptedBefore DEF OwnIds, OneKey, NoneYet
<1>3. ASSUME NEW t \in SellerTabs, Gives(t)
      PROVE  OwnIds' /\ OneKey' /\ NoneYet'
    <2> DEFINE file == handing[t].file
    <2>1. Given' \subseteq Given \cup {file} /\ (file.id # OrderId \/ order = "accepted")
        BY <1>3 DEF Gives, Upload, Accepts
    <2>2. order' = IF file.id = OrderId THEN "delivered" ELSE order
        BY <1>3 DEF Gives, Upload
    <2>3. file.id # OrderId => file.id = file.key
        BY DEF OwnIds
    <2> QED BY <1>1, <2>1, <2>2, <2>3 DEF OwnIds, OneKey, NoneYet
<1> QED BY <1>2, <1>3, GivenGrows

\* Under one id there is one key.
LEMMA SameKey ==
    ASSUME OwnIds, OneKey
    PROVE  \A f, g \in Given : f.id = g.id => f.key = g.key
BY DEF OwnIds, OneKey

-----------------------------------------------------------------------------
(* Where the key of a stored file is *)

LEMMA HeldByTabs ==
    ASSUME HandoverType, NEW t \in SellerTabs, NEW tab \in TabRow, Hands(t, tab), NEW u \in SellerTabs,
           handing[u].step = "key", u # t
    PROVE  handing'[u].step = "key" /\ handing'[u].file = handing[u].file
BY DEF Hands, HandoverType

LEMMA KeysKept ==
    ASSUME HandoverInv, [HandoverNext]_handoverVars
    PROVE  KeysAreSomewhere'
<1> USE DEF HandoverInv
<1> SUFFICES ASSUME NEW b \in blobs' PROVE KeyOf(b)'
    BY DEF KeysAreSomewhere
<1>1. ASSUME NEW t \in SellerTabs, SellerStep(t) \/ Commit(t)
      PROVE  KeyOf(b)'
    <2>0. handing[t] \in TabRow /\ handing[t].file \in FileRow
        BY DEF TabRow, HandoverType
    <2>1. ASSUME b \in blobs, lost \subseteq lost', UNCHANGED <<keyring, channel>>,
                 handing[t].step # "key", \E tab \in TabRow : Hands(t, tab)
          PROVE  KeyOf(b)'
        <3>1. KeyOf(b)
            BY <2>1 DEF KeysAreSomewhere
        <3> QED BY <2>1, <3>1, HeldByTabs DEF KeyOf, OnTheirWay
    <2>2. CASE ShowSeller(t)
        <3>1. [handing[t] EXCEPT !.seen = order] \in TabRow
            BY <2>0, TabShows DEF HandoverType
        <3> QED BY <2>1, <2>2, <3>1 DEF ShowSeller
    <2>3. CASE Choose(t)
        <3>1. PICK f \in FileRow :
                  /\ handing' = [handing EXCEPT ![t] = [handing[t] EXCEPT !.step = "upload", !.file = f]]
                  /\ UNCHANGED <<deal, order, blobs, channel, keyring, collecting, goods, digests, lost>>
            BY <2>3, ChooseEffect
        <3>2. [handing[t] EXCEPT !.step = "upload", !.file = f] \in TabRow
            BY <2>0, TabTakes
        <3> QED BY <2>1, <2>3, <3>1, <3>2 DEF Hands, Choose
    <2>4. CASE Upload(t)
        <3>1. /\ [handing[t] EXCEPT !.step = "idle"] \in TabRow
              /\ [handing[t] EXCEPT !.step = "key"] \in TabRow
              /\ [handing[t] EXCEPT !.step = "key"].step = "key"
              /\ [handing[t] EXCEPT !.step = "key"].file = handing[t].file
            BY <2>0, TabSteps
        <3>2. /\ handing[t].step # "key" /\ lost \subseteq lost' /\ UNCHANGED <<keyring, channel>>
              /\ \/ Hands(t, [handing[t] EXCEPT !.step = "idle"])
                 \/ Hands(t, [handing[t] EXCEPT !.step = "key"])
            BY <2>4 DEF Upload
        <3>3. CASE b \in blobs
            BY <2>1, <3>1, <3>2, <3>3
        <3>4. CASE b \notin blobs
            <4>1. b = handing[t].file
                BY <2>4, <3>4 DEF Upload
            <4>2. b.key \in lost' \/ Hands(t, [handing[t] EXCEPT !.step = "key"])
                BY <2>4, <3>4, <4>1 DEF Upload
            <4>3. CASE Hands(t, [handing[t] EXCEPT !.step = "key"])
                <5>1. handing'[t] = [handing[t] EXCEPT !.step = "key"]
                    BY <4>3 DEF Hands, HandoverType
                <5> QED BY <3>1, <4>1, <5>1 DEF KeyOf
            <4> QED BY <4>2, <4>3 DEF KeyOf
        <3> QED BY <3>3, <3>4
    <2>5. CASE UploadRefused(t)
        <3>1. [handing[t] EXCEPT !.step = "idle"] \in TabRow
            BY <2>0, TabSteps
        <3> QED BY <2>1, <2>5, <3>1 DEF UploadRefused
    <2>6. CASE SendKey(t)
        <3>1. [handing[t] EXCEPT !.step = "idle"] \in TabRow
            BY <2>0, TabSteps
        <3>2. OnTheirWay \subseteq OnTheirWay'
            BY <2>0, <2>6, QueueHolds DEF SendKey, OnTheirWay
        <3>3. handing[t].file.key \in lost' \/ handing[t].file \in OnTheirWay'
            BY <2>0, <2>6, QueueHolds DEF SendKey, OnTheirWay
        <3>4. lost \subseteq lost' /\ keyring' = keyring /\ blobs' = blobs /\ Hands(t, [handing[t] EXCEPT !.step = "idle"])
            BY <2>6 DEF SendKey
        <3>5. KeyOf(b)
            BY <3>4 DEF KeysAreSomewhere
        <3>6. CASE \E u \in SellerTabs : handing[u].step = "key" /\ handing[u].file.key = b.key
            <4>1. PICK u \in SellerTabs : handing[u].step = "key" /\ handing[u].file.key = b.key
                BY <3>6
            <4>2. CASE u = t
                BY <3>3, <4>1, <4>2 DEF KeyOf
            <4>3. CASE u # t
                BY <3>1, <3>4, <4>1, <4>3, HeldByTabs DEF KeyOf
            <4> QED BY <4>2, <4>3
        <3> QED BY <3>2, <3>4, <3>5, <3>6 DEF KeyOf
    <2>7. CASE CloseSeller(t)
        <3>1. /\ lost' = lost \cup {handing[t].file.key} /\ UNCHANGED <<blobs, keyring, channel>>
              /\ Hands(t, Tab) /\ Tab \in TabRow
            BY <2>7, FileRows DEF CloseSeller
        <3>2. KeyOf(b)
            BY <3>1 DEF KeysAreSomewhere
        <3>3. CASE \E u \in SellerTabs : handing[u].step = "key" /\ handing[u].file.key = b.key
            <4>1. PICK u \in SellerTabs : handing[u].step = "key" /\ handing[u].file.key = b.key
                BY <3>3
            <4>2. CASE u = t
                BY <3>1, <4>1, <4>2 DEF KeyOf
            <4>3. CASE u # t
                BY <3>1, <4>1, <4>3, HeldByTabs DEF KeyOf
            <4> QED BY <4>2, <4>3
        <3> QED BY <3>1, <3>2, <3>3 DEF KeyOf, OnTheirWay
    <2>8. CASE Commit(t)
        BY <2>8 DEF Commit, KeysAreSomewhere, KeyOf, OnTheirWay
    <2> QED BY <1>1, <2>2, <2>3, <2>4, <2>5, <2>6, <2>7, <2>8 DEF SellerStep
<1>2. ASSUME UNCHANGED <<handing, keyring, channel, lost>>, blobs' \subseteq blobs
      PROVE  KeyOf(b)'
    BY <1>2 DEF KeysAreSomewhere, KeyOf, OnTheirWay
<1>3. CASE ReceiveKey
    <2> DEFINE file == Head(channel)
    <2>a. channel # <<>> /\ channel' = Tail(channel)
        BY <1>3 DEF ReceiveKey
    <2>b. OnTheirWay' = {Tail(channel)[i] : i \in DOMAIN Tail(channel)}
        BY <2>a DEF OnTheirWay
    <2>0. file \in OnTheirWay /\ OnTheirWay = {file} \cup OnTheirWay'
        BY <2>a, <2>b, QueueHolds
    <2>1. /\ keyring' = {k \in keyring : k.id # file.id} \cup {file} /\ UNCHANGED <<blobs, handing, lost>>
          /\ file \in OnTheirWay /\ OnTheirWay = {file} \cup OnTheirWay'
        BY <1>3, <2>0 DEF ReceiveKey
    <2>2. \A k \in keyring : k.id = file.id => k.key = file.key
        BY <2>1, SameKey DEF Given
    <2>3. KeyOf(b)
        BY <2>1 DEF KeysAreSomewhere
    <2>4. CASE \E k \in keyring : k.key = b.key
        BY <2>1, <2>2, <2>4 DEF KeyOf
    <2> QED BY <2>1, <2>3, <2>4 DEF KeyOf
<1>4. CASE LoseEnvelope
    <2> DEFINE file == Head(channel)
    <2>1. /\ keyring' = keyring /\ UNCHANGED <<blobs, handing>> /\ lost' = lost \cup {file.key}
          /\ OnTheirWay = {file} \cup OnTheirWay'
        <3>1. channel # <<>> /\ channel' = Tail(channel)
            BY <1>4 DEF LoseEnvelope
        <3>2. OnTheirWay' = {Tail(channel)[i] : i \in DOMAIN Tail(channel)}
            BY <3>1 DEF OnTheirWay
        <3>3. OnTheirWay = {file} \cup {Tail(channel)[i] : i \in DOMAIN Tail(channel)}
            BY <3>1, QueueHolds
        <3>4. keyring' = keyring /\ UNCHANGED <<blobs, handing>> /\ lost' = lost \cup {file.key}
            BY <1>4 DEF LoseEnvelope
        <3> QED BY <3>2, <3>3, <3>4
    <2>2. KeyOf(b)
        BY <2>1 DEF KeysAreSomewhere
    <2> QED BY <2>1, <2>2 DEF KeyOf
<1>5. CASE ShowBuyer \/ Open \/ Forget \/ CloseBuyer \/ MoveOn
    BY <1>2, <1>5 DEF ShowBuyer, Open, Forget, CloseBuyer, MoveOn, Complete, Dispute, Settle, EndAs
<1>6. CASE (\E k \in keyring : Fetch(k)) \/ (\E file \in blobs : ExpireBlob(file)) \/ UNCHANGED handoverVars
    BY <1>2, <1>6 DEF Fetch, ExpireBlob, handoverVars
<1> QED BY <1>1, <1>3, <1>4, <1>5, <1>6 DEF HandoverNext, SellerStep

LEMMA HasItKept ==
    ASSUME HandoverInv, [HandoverNext]_handoverVars
    PROVE  HasIt'
<1> USE DEF HandoverInv
<1>0. collecting \in TabRow
    BY DEF HandoverType
<1>1. CASE Open
    <2>1. \A s \in {"forget", "idle"} :
              [collecting EXCEPT !.step = s].step = s /\ [collecting EXCEPT !.step = s].file = collecting.file
        BY <1>0, TabSteps
    <2> QED BY <1>1, <2>1 DEF Open, HasIt
<1>2. CASE Forget \/ CloseBuyer
    <2>1. [collecting EXCEPT !.step = "idle"].step = "idle" /\ Tab.step = "idle"
        BY <1>0, TabSteps DEF Tab
    <2> QED BY <1>2, <2>1 DEF Forget, CloseBuyer, HasIt
<1>3. CASE ShowBuyer
    <2> DEFINE keyed == \E k \in keyring : k.id = OrderId
    <2>1. collecting.step = "idle" /\ collecting' = [collecting EXCEPT !.seen = order, !.keyed = keyed]
        BY <1>3 DEF ShowBuyer
    <2>2. keyed \in BOOLEAN /\ order \in OrderStatuses
        BY DEF HandoverType
    <2> HIDE DEF keyed
    <2>3. collecting'.step = "idle"
        BY <1>0, <2>1, <2>2, BuyerShows
    <2> QED BY <2>3 DEF HasIt
<1>4. CASE \E k \in keyring : Fetch(k)
    <2>1. PICK file \in FileRow : collecting' = [collecting EXCEPT !.step = "open", !.file = file]
        BY <1>4 DEF Fetch, Stored, HandoverType
    <2>2. collecting'.step = "open"
        BY <1>0, <2>1, TabTakes
    <2> QED BY <2>2 DEF HasIt
<1>5. ASSUME UNCHANGED <<collecting, goods>> PROVE HasIt'
    BY <1>5 DEF HasIt
<1>6. ASSUME NEW t \in SellerTabs, SellerStep(t) \/ Commit(t) PROVE UNCHANGED <<collecting, goods>>
    BY <1>6 DEF SellerStep, ShowSeller, Choose, Upload, UploadRefused, SendKey, CloseSeller, Commit
<1> QED
    BY <1>1, <1>2, <1>3, <1>4, <1>5, <1>6
    DEF HandoverNext, SellerStep, ReceiveKey, LoseEnvelope, MoveOn, ExpireBlob, handoverVars

LEMMA HandoverInductive == HandoverInv /\ [HandoverNext]_handoverVars => HandoverInv'
BY HandoverTyped, OneKeyKept, KeysKept, HasItKept DEF HandoverInv

-----------------------------------------------------------------------------
(* What was handed over reaches the buyer *)

\* Only what has expired, what ends with its order and what the buyer has goes.
LEMMA FilesGo ==
    ASSUME HandoverInv, [HandoverNext]_handoverVars
    PROVE  FilesWait
<1> USE DEF HandoverInv
<1>1. SUFFICES ASSUME NEW b \in blobs \ blobs'
               PROVE  \/ ExpireBlob(b)
                      \/ b.id = OrderId /\ order' \in {"completed", "cancelled"}
                      \/ b.id = OrderId /\ \E g \in goods : g.key = b.key
    BY DEF FilesWait
<1>2. CASE Forget
    <2>1. b.id = OrderId /\ collecting.step = "forget"
        BY <1>2 DEF Forget, Stored
    <2>2. collecting.file \in goods /\ collecting.file.id = OrderId /\ {b, collecting.file} \subseteq Given
        BY <2>1 DEF HasIt, Given, AtBuyer
    <2> QED BY <2>1, <2>2 DEF OneKey
<1>3. CASE MoveOn
    BY <1>3 DEF MoveOn, Complete, Dispute, Settle, EndAs, Stored
<1>4. ASSUME NEW file \in blobs, ExpireBlob(file) PROVE ExpireBlob(b)
    <2>1. b = file
        BY <1>4 DEF ExpireBlob
    <2> QED BY <1>4, <2>1
<1>5. ASSUME NEW t \in SellerTabs, SellerStep(t) \/ Commit(t) PROVE FALSE
    BY <1>5 DEF SellerStep, ShowSeller, Choose, Upload, UploadRefused, SendKey, CloseSeller, Commit
<1>6. CASE ReceiveKey \/ LoseEnvelope \/ ShowBuyer \/ Open \/ CloseBuyer \/ (\E k \in keyring : Fetch(k))
           \/ UNCHANGED handoverVars
    BY <1>6 DEF ReceiveKey, LoseEnvelope, ShowBuyer, Open, CloseBuyer, Fetch, handoverVars
<1> QED BY <1>2, <1>3, <1>4, <1>5, <1>6 DEF HandoverNext, SellerStep

\* A key opens what is stored under its id, the key of what is stored is known
\* somewhere, what the buyer was given is recognised by its digest, and a stored
\* file goes only when it may: for every number of tabs, files and mishaps.
THEOREM GoodsReach == HandoverSpec => GoodsReachTheBuyer
<1>1. HandoverInit => HandoverInv
    BY HandoverStarts
<1>2. HandoverInv' => KeysFit'
    BY DEF HandoverInv, OwnIds, OneKey, KeysFit, Given, KeysAreSomewhere, KeyOf, OnTheirWay
<1>3. DigestsMatch'
    BY DEF DigestsMatch, Digest, Strip
<1>4. HandoverInv /\ [HandoverNext]_handoverVars => HandoverInv'
    BY HandoverInductive
<1>5. HandoverInv /\ HandoverInv' /\ [HandoverNext]_handoverVars
          => [KeysFit' /\ DigestsMatch' /\ FilesWait]_handoverVars
    BY <1>2, <1>3, FilesGo
<1> QED BY <1>1, <1>4, <1>5, PTL DEF HandoverSpec, GoodsReachTheBuyer

=============================================================================
