---------------------------- MODULE LedgerProofs ----------------------------
(***************************************************************************)
(* Facts about the bookkeeping of Ledger, for every account and amount:    *)
(* what a covered set of movements does to the balances, and what a sum    *)
(* is worth.                                                               *)
(***************************************************************************)
EXTENDS Ledger, FiniteSetTheorems, TLAPS

Move == [available : Int, held : Int]

\* Whatever apply() commits leaves every total at or above zero: the WHERE
\* clause is enough, no caller has to check anything.
LEMMA ApplyType ==
    ASSUME NEW A, NEW balance \in [A -> Account],
           NEW T \in SUBSET A, NEW moves \in [T -> Move], Covered(balance, moves)
    PROVE  Apply(balance, moves) \in [A -> Account]
<1>1. SUFFICES ASSUME NEW a \in A
               PROVE  Apply(balance, moves)[a] \in Account
    BY DEF Apply
<1>2. CASE a \in T
    BY <1>2 DEF Apply, Covered, Account, Move
<1>3. CASE a \notin T
    BY <1>3 DEF Apply
<1> QED BY <1>2, <1>3

\* The same for one movement, with what it does to the account it touches and to
\* the others.
LEMMA ApplyOne ==
    ASSUME NEW A, NEW balance \in [A -> Account], NEW a \in A,
           NEW x \in Int, NEW y \in Int, Covered(balance, On(a, Movement(x, y)))
    PROVE  LET after == Apply(balance, On(a, Movement(x, y)))
           IN  /\ after \in [A -> Account]
               /\ after[a] = [available |-> balance[a].available + x, held |-> balance[a].held + y]
               /\ \A b \in A \ {a} : after[b] = balance[b]
<1> DEFINE moves == On(a, Movement(x, y))
<1>1. moves \in [{a} -> Move] /\ moves[a] = [available |-> x, held |-> y]
    BY DEF On, Movement, Move
<1> HIDE DEF moves
<1>2. Apply(balance, moves) \in [A -> Account]
    BY <1>1, ApplyType DEF moves
<1>3. /\ Apply(balance, moves)[a] = [available |-> balance[a].available + x,
                                     held |-> balance[a].held + y]
      /\ \A b \in A \ {a} : Apply(balance, moves)[b] = balance[b]
    BY <1>1 DEF Apply
<1> QED BY <1>2, <1>3 DEF moves

\* The four kinds of movement, as movements of integers.
LEMMA Kinds ==
    ASSUME NEW a, NEW n \in Nat
    PROVE  /\ Credit(a, n) = On(a, Movement(n, 0))
           /\ Hold(a, n) = On(a, Movement(-n, n))
           /\ Unhold(a, n) = On(a, Movement(n, -n))
           /\ Spend(a, n) = On(a, Movement(0, -n))
BY DEF Credit, Hold, Unhold, Spend

\* A set of movements, account by account.
LEMMA ApplyEach ==
    ASSUME NEW A, NEW balance \in [A -> Account],
           NEW T \in SUBSET A, NEW moves \in [T -> Move], Covered(balance, moves)
    PROVE  LET after == Apply(balance, moves)
           IN  /\ after \in [A -> Account]
               /\ \A a \in T : after[a] = [available |-> balance[a].available + moves[a].available,
                                          held |-> balance[a].held + moves[a].held]
               /\ \A a \in A \ T : after[a] = balance[a]
<1>1. Apply(balance, moves) \in [A -> Account]
    BY ApplyType
<1> QED BY <1>1 DEF Apply

LEMMA CreditMove ==
    ASSUME NEW a, NEW n \in Nat
    PROVE  /\ Credit(a, n) \in [{a} -> Move]
           /\ Credit(a, n)[a].available = n /\ Credit(a, n)[a].held = 0
<1>1. Credit(a, n) = [x \in {a} |-> [available |-> n, held |-> 0]]
    BY DEF Credit, On, Movement
<1> QED BY <1>1 DEF Move

LEMMA SpendMove ==
    ASSUME NEW a, NEW n \in Nat
    PROVE  /\ Spend(a, n) \in [{a} -> Move]
           /\ Spend(a, n)[a].available = 0 /\ Spend(a, n)[a].held = -n
<1>1. Spend(a, n) = [x \in {a} |-> [available |-> 0, held |-> -n]]
    BY DEF Spend, On, Movement
<1>2. -n \in Int
    OBVIOUS
<1> QED BY <1>1, <1>2 DEF Move

-----------------------------------------------------------------------------
(* Sums *)

LEMMA CoinsFinite ==
    ASSUME NEW D, IsFiniteSet(D), NEW f \in [D -> Nat]
    PROVE  IsFiniteSet(Coins(f))
<1> DEFINE pile == [x \in D |-> {x} \X (1..f[x])]
           piles == {{x} \X (1..f[x]) : x \in D}
<1>1. pile \in Surjection(D, piles)
    BY DEF Surjection
<1>2. IsFiniteSet(piles)
    BY <1>1, FS_Surjection
<1>3. \A P \in piles : IsFiniteSet(P)
    <2>1. SUFFICES ASSUME NEW x \in D
                   PROVE  IsFiniteSet({x} \X (1..f[x]))
        OBVIOUS
    <2>2. IsFiniteSet({x})
        BY FS_Singleton
    <2>3. f[x] \in Int /\ 1 \in Int
        OBVIOUS
    <2>4. IsFiniteSet(1..f[x])
        BY <2>3, FS_Interval
    <2> QED BY <2>2, <2>4, FS_Product
<1>4. Coins(f) = UNION piles
    BY DEF Coins
<1> QED BY <1>2, <1>3, <1>4, FS_UNION

LEMMA TotalType ==
    ASSUME NEW D, IsFiniteSet(D), NEW f \in [D -> Nat]
    PROVE  Total(f) \in Nat
BY CoinsFinite, FS_CardinalityType DEF Total

LEMMA TotalEmpty ==
    ASSUME NEW f \in [{} -> Nat]
    PROVE  Total(f) = 0
<1>1. Coins(f) = {}
    BY DEF Coins
<1> QED BY <1>1, FS_EmptySet DEF Total

\* A sum of one row is that row.
LEMMA TotalOne ==
    ASSUME NEW x, NEW f \in [{x} -> Nat]
    PROVE  Total(f) = f[x]
<1>1. Coins(f) = {x} \X (1..f[x])
    BY DEF Coins
<1>2. IsFiniteSet({x}) /\ Cardinality({x}) = 1
    BY FS_Singleton
<1>3. f[x] \in Nat /\ 1 \in Int
    OBVIOUS
<1>4. IsFiniteSet(1..f[x]) /\ Cardinality(1..f[x]) = f[x]
    BY <1>3, FS_Interval
<1>5. Cardinality({x} \X (1..f[x])) = Cardinality({x}) * Cardinality(1..f[x])
    BY <1>2, <1>4, FS_Product
<1>6. Total(f) = 1 * f[x]
    BY <1>1, <1>2, <1>4, <1>5 DEF Total
<1> QED BY <1>3, <1>6

\* A sum falls into the sum of some of its rows and that of the others.
LEMMA TotalSplit ==
    ASSUME NEW D, IsFiniteSet(D), NEW f \in [D -> Nat], NEW S \in SUBSET D
    PROVE  Total(f) = Total([x \in S |-> f[x]]) + Total([x \in D \ S |-> f[x]])
<1> DEFINE g == [x \in S |-> f[x]]
           h == [x \in D \ S |-> f[x]]
<1>1. IsFiniteSet(S) /\ IsFiniteSet(D \ S)
    BY FS_Subset
<1>2. g \in [S -> Nat] /\ h \in [D \ S -> Nat]
    OBVIOUS
<1>3. IsFiniteSet(Coins(g)) /\ IsFiniteSet(Coins(h))
    BY <1>1, <1>2, CoinsFinite
<1>4. Coins(f) = Coins(g) \cup Coins(h)
    BY DEF Coins
<1>5. Coins(g) \cap Coins(h) = {}
    BY DEF Coins
<1>6. Cardinality(Coins(f)) = Cardinality(Coins(g)) + Cardinality(Coins(h))
                                - Cardinality(Coins(g) \cap Coins(h))
    BY <1>3, <1>4, FS_Union
<1>7. Cardinality(Coins(g) \cap Coins(h)) = 0
    BY <1>5, FS_EmptySet
<1>8. Cardinality(Coins(g)) \in Nat /\ Cardinality(Coins(h)) \in Nat
    BY <1>3, FS_CardinalityType
<1> QED BY <1>6, <1>7, <1>8 DEF Total

\* A row that appears adds its value.
LEMMA TotalMore ==
    ASSUME NEW D, IsFiniteSet(D), NEW f \in [D -> Nat], NEW x, x \notin D,
           NEW g \in [D \cup {x} -> Nat], \A y \in D : g[y] = f[y]
    PROVE  Total(g) = Total(f) + g[x]
<1>1. IsFiniteSet(D \cup {x})
    BY FS_AddElement
<1>2. Total(g) = Total([y \in D |-> g[y]]) + Total([y \in (D \cup {x}) \ D |-> g[y]])
    BY <1>1, TotalSplit
<1>3. [y \in D |-> g[y]] = f /\ (D \cup {x}) \ D = {x}
    OBVIOUS
<1>4. [y \in {x} |-> g[y]] \in [{x} -> Nat] /\ [y \in {x} |-> g[y]][x] = g[x]
    OBVIOUS
<1>5. Total([y \in {x} |-> g[y]]) = g[x]
    BY <1>4, TotalOne
<1> QED BY <1>2, <1>3, <1>5

\* One that changes changes the sum by as much.
LEMMA TotalChange ==
    ASSUME NEW D, IsFiniteSet(D), NEW f \in [D -> Nat], NEW g \in [D -> Nat],
           NEW x \in D, \A y \in D \ {x} : g[y] = f[y]
    PROVE  Total(g) = Total(f) - f[x] + g[x]
<1> DEFINE E == D \ {x}
           rest == [y \in E |-> f[y]]
<1>1. IsFiniteSet(E) /\ rest \in [E -> Nat] /\ x \notin E /\ E \cup {x} = D
    BY FS_Subset
<1>2. \A y \in E : rest[y] = f[y] /\ rest[y] = g[y]
    OBVIOUS
<1> HIDE DEF E, rest
<1>3. Total(f) = Total(rest) + f[x] /\ Total(g) = Total(rest) + g[x]
    BY <1>1, <1>2, TotalMore
<1>4. Total(rest) \in Nat /\ f[x] \in Nat /\ g[x] \in Nat
    BY <1>1, TotalType
<1> QED BY <1>3, <1>4

LEMMA TotalChangeTwo ==
    ASSUME NEW D, IsFiniteSet(D), NEW f \in [D -> Nat], NEW g \in [D -> Nat],
           NEW x \in D, NEW y \in D, x # y, \A z \in D \ {x, y} : g[z] = f[z]
    PROVE  Total(g) = Total(f) - f[x] - f[y] + g[x] + g[y]
<1> DEFINE h == [f EXCEPT ![x] = g[x]]
<1>1. h \in [D -> Nat] /\ h[x] = g[x] /\ h[y] = f[y]
    OBVIOUS
<1>2. (\A z \in D \ {x} : h[z] = f[z]) /\ (\A z \in D \ {y} : g[z] = h[z])
    OBVIOUS
<1> HIDE DEF h
<1>3. Total(h) = Total(f) - f[x] + h[x]
    BY <1>1, <1>2, TotalChange
<1>4. Total(g) = Total(h) - h[y] + g[y]
    BY <1>1, <1>2, TotalChange
<1>5. {Total(f), Total(g), Total(h)} \subseteq Nat /\ {f[x], f[y], g[x], g[y]} \subseteq Nat
    BY <1>1, TotalType
<1> QED BY <1>1, <1>3, <1>4, <1>5

LEMMA TotalChangeThree ==
    ASSUME NEW D, IsFiniteSet(D), NEW f \in [D -> Nat], NEW g \in [D -> Nat],
           NEW x \in D, NEW y \in D, NEW z \in D, x # y, y # z, x # z,
           \A w \in D \ {x, y, z} : g[w] = f[w]
    PROVE  Total(g) = Total(f) - f[x] - f[y] - f[z] + g[x] + g[y] + g[z]
<1> DEFINE h == [f EXCEPT ![x] = g[x]]
<1>1. h \in [D -> Nat] /\ h[x] = g[x] /\ h[y] = f[y] /\ h[z] = f[z]
    OBVIOUS
<1>2. (\A w \in D \ {x} : h[w] = f[w]) /\ (\A w \in D \ {y, z} : g[w] = h[w])
    OBVIOUS
<1> HIDE DEF h
<1>3. Total(h) = Total(f) - f[x] + h[x]
    BY <1>1, <1>2, TotalChange
<1>4. Total(g) = Total(h) - h[y] - h[z] + g[y] + g[z]
    BY <1>1, <1>2, TotalChangeTwo
<1>5. {Total(f), Total(g), Total(h)} \subseteq Nat
    BY <1>1, TotalType
<1>6. {f[x], f[y], f[z], g[x], g[y], g[z]} \subseteq Nat
    OBVIOUS
<1> QED BY <1>1, <1>3, <1>4, <1>5, <1>6

\* A sum of equal rows is a product.
LEMMA TotalConstant ==
    ASSUME NEW D, IsFiniteSet(D), NEW n \in Nat
    PROVE  Total([x \in D |-> n]) = Cardinality(D) * n
<1>1. Coins([x \in D |-> n]) = D \X (1..n)
    BY DEF Coins
<1>2. IsFiniteSet(1..n) /\ Cardinality(1..n) = n
    BY FS_Interval
<1> QED BY <1>1, <1>2, FS_Product DEF Total

\* Some of the rows are worth no more than all.
LEMMA TotalPart ==
    ASSUME NEW D, IsFiniteSet(D), NEW f \in [D -> Nat], NEW S \in SUBSET D
    PROVE  Total([x \in S |-> f[x]]) <= Total(f)
<1>1. IsFiniteSet(S) /\ IsFiniteSet(D \ S)
    BY FS_Subset
<1>2. Total([x \in S |-> f[x]]) \in Nat /\ Total([x \in D \ S |-> f[x]]) \in Nat
    BY <1>1, TotalType
<1> QED BY <1>2, TotalSplit

=============================================================================
