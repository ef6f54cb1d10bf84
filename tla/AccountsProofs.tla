--------------------------- MODULE AccountsProofs ---------------------------
(***************************************************************************)
(* What holds of Accounts for every number of requests under way, every    *)
(* mix of routes and any number of calls, on either database; of Vault for *)
(* any number of browsers; and of Members for any number of accounts,      *)
(* orders and reviews.                                                     *)
(***************************************************************************)
EXTENDS Vault, Members, FiniteSetTheorems, WellFoundedInduction, TLAPS

-----------------------------------------------------------------------------
(* Types *)

Routes == {"login", "complete", "recovery", "recover", "link", "claim", "challenge", "key",
           "remove", "password", "phrase", "save"}
Steps  == {"mint", "issue", "read", "take", "taking", "check", "refuse", "commit", "revoke", "write"}
Kinds  == {"pgp-login", "recovery", "link", "pgp-enroll", "pgp-rotate", "pgp-remove", None}

Row == [id : Nat, under : Nat, overlap : BOOLEAN]
Ticket == [id : Nat, kind : Kinds, under : Nat, overlap : BOOLEAN]
Request ==
    [route : Routes, step : Steps, session : Nat, under : Nat, overlap : BOOLEAN, key : Nat,
     signed : Nat, ticket : Nat, kind : Kinds]

TypeInv ==
    /\ mix \in Mixes /\ calls \in Nat
    /\ pgp \in Nat /\ keys \in Nat /\ epoch \in Nat /\ issued \in Nat
    /\ sessions \in SUBSET Row /\ tickets \in SUBSET Ticket
    /\ answered \in [1..MaxIssued -> Nat]
    /\ requests \in [Requests -> {Idle} \cup Request]

LEMMA InitType == Init => TypeInv
<1> SUFFICES ASSUME Init PROVE TypeInv
    OBVIOUS
<1>1. mix \in Mixes /\ mix.pgp \subseteq Nat
    BY MixesAssumption DEF Init
<1>2. pgp \in Nat /\ keys \in Nat
    BY <1>1 DEF Init
<1>3. sessions \in SUBSET Row /\ tickets \in SUBSET Ticket
    BY DEF Init, Row
<1>4. answered \in [1..MaxIssued -> Nat] /\ requests \in [Requests -> {Idle} \cup Request]
    BY DEF Init
<1> QED BY <1>1, <1>2, <1>3, <1>4 DEF Init, TypeInv

\* Whoever is at a step is no idle slot.
LEMMA RequestType ==
    ASSUME TypeInv, NEW c \in Requests, requests[c].step # "idle"
    PROVE  requests[c] \in Request
BY DEF TypeInv, Idle

LEMMA RequestSteps ==
    ASSUME NEW r \in Request
    PROVE  r.step \in Steps /\ r.step # "idle" /\ r # Idle
BY DEF Request, Idle, Steps

LEMMA IdleSlot ==
    ASSUME TypeInv, NEW c \in Requests, requests[c].step = "idle"
    PROVE  requests[c] = Idle
BY RequestSteps DEF TypeInv

-----------------------------------------------------------------------------
(* What the steps do *)

\* What a slot is given when a request comes in: it holds no ticket yet, and what
\* it stands under is the current credential or that of its session.
Comes(r) ==
    /\ r \in Request /\ r.ticket = 0
    /\ r.step \in {"mint", "issue", "take", "commit", "read", "write"}
    /\ r.route \in {"key", "remove"} => r.step = "read"
    /\ \/ r.under = epoch
       \/ \E s \in sessions : r.under = s.under /\ r.overlap = s.overlap

LEMMA BeginEffect ==
    ASSUME TypeInv, NEW c \in Requests, Begin(c)
    PROVE  /\ requests[c] = Idle
           /\ \E r : Comes(r) /\ requests' = [requests EXCEPT ![c] = r]
<1>1. requests[c] = Idle /\ epoch \in Nat
    BY IdleSlot DEF Begin, At, TypeInv
<1>2. Comes(Login)
    BY <1>1 DEF Comes, Login, Start, Request, Routes, Steps, Kinds
<1>3. Comes(AskRecovery)
    BY <1>1 DEF Comes, AskRecovery, Start, Request, Routes, Steps, Kinds
<1>4. ASSUME NEW route \in {"complete", "claim", "recover"} PROVE Comes(Answer(route))
    BY <1>1, <1>4 DEF Comes, Answer, Start, Request, Routes, Steps, Kinds
<1>5. ASSUME NEW s \in sessions
      PROVE  /\ \A route \in {"password", "phrase"} : Comes(AskChange(s, route, "commit"))
             /\ \A route \in {"key", "remove"} : Comes(AskChange(s, route, "read"))
             /\ Comes(AskChange(s, "save", "write"))
             /\ Comes(AskLink(s)) /\ Comes(AskKey(s, "key")) /\ Comes(AskKey(s, "remove"))
    <2>1. s.id \in Nat /\ s.under \in Nat /\ s.overlap \in BOOLEAN
        BY DEF TypeInv, Row
    <2>2. \A route \in {"password", "phrase"} : Comes(AskChange(s, route, "commit"))
        BY <1>1, <2>1 DEF Comes, AskChange, Start, Request, Routes, Steps, Kinds
    <2>3. \A route \in {"key", "remove"} : Comes(AskChange(s, route, "read"))
        BY <1>1, <2>1 DEF Comes, AskChange, Start, Request, Routes, Steps, Kinds
    <2>4. Comes(AskChange(s, "save", "write"))
        BY <1>1, <2>1 DEF Comes, AskChange, Start, Request, Routes, Steps, Kinds
    <2>5. Comes(AskLink(s))
        BY <2>1 DEF Comes, AskLink, Start, Request, Routes, Steps, Kinds
    <2>6. Comes(AskKey(s, "key"))
        BY <2>1 DEF Comes, AskKey, Start, Request, Routes, Steps, Kinds
    <2>7. Comes(AskKey(s, "remove"))
        BY <2>1 DEF Comes, AskKey, Start, Request, Routes, Steps, Kinds
    <2> QED BY <2>2, <2>3, <2>4, <2>5, <2>6, <2>7
<1>6. CASE WithoutSession(c)
    BY <1>1, <1>2, <1>3, <1>4, <1>6 DEF WithoutSession, Goes
<1>7. ASSUME NEW s \in sessions, WithSession(c, s)
      PROVE  \E r : Comes(r) /\ requests' = [requests EXCEPT ![c] = r]
    BY <1>5, <1>7 DEF WithSession, Goes
<1> QED BY <1>1, <1>6, <1>7 DEF Begin

\* A slot takes a ticket: what it stands under is its own credential, or the one
\* the ticket was made under; a key it signs with is the one it has looked up.
Takes(c, t, r) ==
    /\ requests' = [requests EXCEPT ![c] = r]
    /\ r \in Request /\ r.ticket = t.id
    /\ r.route = requests[c].route /\ r.key = requests[c].key
    /\ \/ tickets' = Without(t) /\ mix.database = "sqlite" /\ r.step \in {"check", "commit", "refuse"}
       \/ tickets' = tickets /\ mix.database # "sqlite" /\ r.step = "taking"
    /\ r.route \in {"key", "remove"} => r.signed = r.key
    /\ \/ r.under = requests[c].under /\ r.overlap = requests[c].overlap
       \/ r.under = t.under /\ r.overlap = (requests[c].overlap \/ t.overlap)

\* What each ticket of the kinds that are good would make of the request.
Claims(c, kinds, claimant) ==
    \A t \in tickets : t.kind \in kinds =>
       /\ claimant[t] \in Request
       /\ claimant[t].route = requests[c].route /\ claimant[t].key = requests[c].key
       /\ claimant[t].route \in {"key", "remove"} => claimant[t].signed = claimant[t].key
       /\ \/ /\ claimant[t].under = requests[c].under
             /\ claimant[t].overlap = requests[c].overlap
          \/ /\ claimant[t].under = t.under
             /\ claimant[t].overlap = (requests[c].overlap \/ t.overlap)

LEMMA ConsumeTakes ==
    ASSUME TypeInv, NEW c \in Requests, At(c, "take"),
           NEW kinds, NEW next \in {"check", "commit", "refuse"},
           NEW STATE claimant, Consume(c, kinds, next, claimant),
           Claims(c, kinds, claimant)
    PROVE  \E t \in tickets, r \in Request : Takes(c, t, r)
<1>1. PICK t \in tickets :
          /\ t.kind \in kinds
          /\ IF mix.database = "sqlite"
             THEN /\ tickets' = Without(t)
                  /\ Goes(c, [claimant[t] EXCEPT !.step = next, !.ticket = t.id])
             ELSE /\ Goes(c, [claimant[t] EXCEPT !.step = "taking", !.ticket = t.id])
                  /\ UNCHANGED tickets
    BY DEF Consume
<1>2. PICK q \in Request : q = claimant[t]
    BY <1>1 DEF Claims
<1>3. t.id \in Nat
    BY DEF TypeInv, Ticket
<1>4. /\ q.route = requests[c].route /\ q.key = requests[c].key
      /\ q.route \in {"key", "remove"} => q.signed = q.key
      /\ \/ q.under = requests[c].under /\ q.overlap = requests[c].overlap
         \/ q.under = t.under /\ q.overlap = (requests[c].overlap \/ t.overlap)
    BY <1>1, <1>2 DEF Claims
<1>5. CASE mix.database = "sqlite"
    <2> DEFINE r == [q EXCEPT !.step = next, !.ticket = t.id]
    <2>1. /\ r \in Request /\ r.step = next /\ r.ticket = t.id /\ r.route = q.route /\ r.key = q.key
          /\ r.signed = q.signed /\ r.under = q.under /\ r.overlap = q.overlap
        BY <1>3 DEF Request, Steps
    <2>2. requests' = [requests EXCEPT ![c] = r] /\ tickets' = Without(t)
        BY <1>1, <1>2, <1>5 DEF Goes
    <2> HIDE DEF r
    <2>3. Takes(c, t, r)
        BY <1>4, <1>5, <2>1, <2>2 DEF Takes
    <2> QED BY <2>1, <2>3
<1>6. CASE mix.database # "sqlite"
    <2> DEFINE r == [q EXCEPT !.step = "taking", !.ticket = t.id]
    <2>1. /\ r \in Request /\ r.step = "taking" /\ r.ticket = t.id /\ r.route = q.route /\ r.key = q.key
          /\ r.signed = q.signed /\ r.under = q.under /\ r.overlap = q.overlap
        BY <1>3 DEF Request, Steps
    <2>2. requests' = [requests EXCEPT ![c] = r] /\ tickets' = tickets
        BY <1>1, <1>2, <1>6 DEF Goes
    <2> HIDE DEF r
    <2>3. Takes(c, t, r)
        BY <1>4, <1>6, <2>1, <2>2 DEF Takes
    <2> QED BY <2>1, <2>3
<1> QED BY <1>5, <1>6

LEMMA TakeEffect ==
    ASSUME TypeInv, NEW c \in Requests, Take(c)
    PROVE  /\ requests[c].step \in {"take", "refuse"} /\ requests[c] \in Request
           /\ \/ requests' = [requests EXCEPT ![c] = Idle] /\ tickets' = tickets
              \/ At(c, "take") /\ \E t \in tickets, r \in Request : Takes(c, t, r)
<1> DEFINE q == requests[c]
<1>1. q.step \in {"take", "refuse"}
    BY DEF Take, TakeLink, TakeLogin, TakeRecovery, TakeKey, TakeRemoval, Refused, Serves, At
<1>2. q \in Request
    BY <1>1, RequestType
<1>3. CASE Refused(c)
    BY <1>1, <1>2, <1>3 DEF Refused, Goes
<1>4. ASSUME NEW t \in tickets
      PROVE  /\ Inherits(c, t) \in Request
             /\ Inherits(c, t).route = q.route /\ Inherits(c, t).key = q.key
             /\ Inherits(c, t).under = t.under
             /\ Inherits(c, t).overlap = (q.overlap \/ t.overlap)
    <2>1. t.under \in Nat /\ t.overlap \in BOOLEAN
        BY DEF TypeInv, Ticket
    <2> QED BY <1>2, <2>1 DEF Inherits, Request
<1>5. CASE TakeLink(c)
    <2> DEFINE claimant == [t \in tickets |-> Inherits(c, t)]
    <2>1. At(c, "take") /\ q.route = "claim" /\ Consume(c, {"link"}, "check", claimant)
        BY <1>5 DEF TakeLink, Serves
    <2>2. \A t \in tickets : claimant[t] = Inherits(c, t)
        OBVIOUS
    <2> HIDE DEF claimant
    <2>3. ASSUME NEW t \in tickets
          PROVE  /\ claimant[t] \in Request
                 /\ claimant[t].route = q.route /\ claimant[t].key = q.key
                 /\ claimant[t].route \in {"key", "remove"} => claimant[t].signed = claimant[t].key
                 /\ claimant[t].under = t.under /\ claimant[t].overlap = (q.overlap \/ t.overlap)
        <3>1. claimant[t].route \notin {"key", "remove"}
            BY <1>4, <2>1, <2>2
        <3> QED BY <1>4, <2>2, <3>1
    <2>4. Claims(c, {"link"}, claimant)
        BY <2>3 DEF Claims
    <2> QED BY <1>1, <1>2, <2>1, <2>4, ConsumeTakes
<1>6. CASE TakeLogin(c)
    <2> DEFINE claimant == [t \in tickets |-> Inherits(c, t)]
    <2>1. At(c, "take") /\ q.route = "complete" /\ Consume(c, {"pgp-login"}, "check", claimant)
        BY <1>6 DEF TakeLogin, Serves
    <2>2. \A t \in tickets : claimant[t] = Inherits(c, t)
        OBVIOUS
    <2> HIDE DEF claimant
    <2>3. ASSUME NEW t \in tickets
          PROVE  /\ claimant[t] \in Request
                 /\ claimant[t].route = q.route /\ claimant[t].key = q.key
                 /\ claimant[t].route \in {"key", "remove"} => claimant[t].signed = claimant[t].key
                 /\ claimant[t].under = t.under /\ claimant[t].overlap = (q.overlap \/ t.overlap)
        <3>1. claimant[t].route \notin {"key", "remove"}
            BY <1>4, <2>1, <2>2
        <3> QED BY <1>4, <2>2, <3>1
    <2>4. Claims(c, {"pgp-login"}, claimant)
        BY <2>3 DEF Claims
    <2> QED BY <1>1, <1>2, <2>1, <2>4, ConsumeTakes
<1>7. CASE TakeRecovery(c)
    <2> DEFINE claimant == [t \in tickets |-> requests[c]]
    <2>1. At(c, "take") /\ q.route = "recover" /\ Consume(c, {"recovery"}, "check", claimant)
        BY <1>7 DEF TakeRecovery, Serves
    <2>2. \A t \in tickets : claimant[t] = q
        OBVIOUS
    <2> HIDE DEF claimant
    <2>3. Claims(c, {"recovery"}, claimant)
        BY <1>2, <2>1, <2>2 DEF Claims
    <2> QED BY <1>1, <1>2, <2>1, <2>3, ConsumeTakes
<1>8. CASE TakeKey(c)
    <2> DEFINE claimant == [t \in tickets |->
                   [requests[c] EXCEPT !.signed = IF t.kind = "pgp-enroll" THEN 0 ELSE requests[c].key]]
    <2>1. At(c, "take") /\ q.route = "key" /\ Consume(c, Purposes(q.key), "commit", claimant)
        BY <1>8 DEF TakeKey, Serves
    <2>2. ASSUME NEW t \in tickets, t.kind \in Purposes(q.key)
          PROVE  /\ claimant[t] \in Request /\ claimant[t].route = q.route /\ claimant[t].key = q.key
                 /\ claimant[t].under = q.under /\ claimant[t].overlap = q.overlap
                 /\ claimant[t].signed = claimant[t].key
        <3>1. t.kind = "pgp-enroll" <=> q.key = 0
            BY <2>2 DEF Purposes
        <3> QED BY <1>2, <3>1 DEF Request
    <2> HIDE DEF claimant
    <2>3. Claims(c, Purposes(q.key), claimant)
        BY <2>2 DEF Claims
    <2> QED BY <1>1, <1>2, <2>1, <2>3, ConsumeTakes
<1>9. CASE TakeRemoval(c)
    <2> DEFINE claimant == [t \in tickets |-> [requests[c] EXCEPT !.signed = requests[c].key]]
               next == IF q.key = 0 THEN "refuse" ELSE "commit"
    <2>1. At(c, "take") /\ q.route = "remove" /\ Consume(c, {"pgp-remove"}, next, claimant)
        BY <1>9 DEF TakeRemoval, Serves
    <2>2. ASSUME NEW t \in tickets
          PROVE  /\ claimant[t] \in Request /\ claimant[t].route = q.route /\ claimant[t].key = q.key
                 /\ claimant[t].under = q.under /\ claimant[t].overlap = q.overlap
                 /\ claimant[t].signed = claimant[t].key
        BY <1>2 DEF Request
    <2>3. next \in {"check", "commit", "refuse"}
        OBVIOUS
    <2> HIDE DEF claimant, next
    <2>4. Claims(c, {"pgp-remove"}, claimant)
        BY <2>2 DEF Claims
    <2> QED BY <1>1, <1>2, <2>1, <2>3, <2>4, ConsumeTakes
<1> QED BY <1>3, <1>5, <1>6, <1>7, <1>8, <1>9 DEF Take

\* A change leaves every request under way where it is, and marked.
LEMMA OverlappedEffect ==
    ASSUME TypeInv, NEW c \in Requests, NEW r, requests' = Overlapped(c, r)
    PROVE  /\ requests'[c] = r
           /\ \A d \in Requests \ {c} :
                 \/ requests[d] = Idle /\ requests'[d] = Idle
                 \/ /\ requests[d] \in Request /\ requests'[d] \in Request
                    /\ requests'[d] = [requests[d] EXCEPT !.overlap = TRUE]
                    /\ requests'[d].overlap
                    /\ requests'[d].route = requests[d].route /\ requests'[d].step = requests[d].step
                    /\ requests'[d].key = requests[d].key /\ requests'[d].signed = requests[d].signed
                    /\ requests'[d].ticket = requests[d].ticket
                    /\ requests'[d].under = requests[d].under
<1>1. requests'[c] = r
    BY DEF Overlapped
<1>2. ASSUME NEW d \in Requests \ {c}, requests[d] = Idle PROVE requests'[d] = Idle
    BY <1>2 DEF Overlapped
<1>3. ASSUME NEW d \in Requests \ {c}, requests[d] # Idle
      PROVE  /\ requests[d] \in Request /\ requests'[d] \in Request
             /\ requests'[d] = [requests[d] EXCEPT !.overlap = TRUE]
             /\ requests'[d].overlap
             /\ requests'[d].route = requests[d].route /\ requests'[d].step = requests[d].step
             /\ requests'[d].key = requests[d].key /\ requests'[d].signed = requests[d].signed
             /\ requests'[d].ticket = requests[d].ticket
             /\ requests'[d].under = requests[d].under
    <2>1. requests'[d] = [requests[d] EXCEPT !.overlap = TRUE] /\ requests[d] \in Request
        BY <1>3 DEF Overlapped, TypeInv
    <2> QED BY <2>1 DEF Request
<1> QED BY <1>1, <1>2, <1>3

-----------------------------------------------------------------------------
(* The types hold *)

\* Every answer is counted, up to two.
LEMMA AnswersType ==
    ASSUME TypeInv, NEW t, Answers(t), UNCHANGED mix
    PROVE  answered' \in [1..MaxIssued -> Nat]
<1>1. answered \in [1..MaxIssued -> Nat]
    BY DEF TypeInv
<1> DEFINE more == IF answered[t] < 2 THEN answered[t] + 1 ELSE answered[t]
<1>2. answered' = answered \/ answered' = [answered EXCEPT ![t] = more]
    BY DEF Answers
<1>3. t \in 1..MaxIssued => more \in Nat
    BY <1>1
<1> HIDE DEF more
<1> QED BY <1>1, <1>2, <1>3

\* What the request in a slot becomes.
LEMMA OneRequest ==
    ASSUME TypeInv, NEW c \in Requests, NEW r \in {Idle} \cup Request, Goes(c, r)
    PROVE  requests' \in [Requests -> {Idle} \cup Request]
BY DEF TypeInv, Goes

LEMMA AllRequests ==
    ASSUME TypeInv, NEW c \in Requests, NEW r \in {Idle} \cup Request, requests' = Overlapped(c, r)
    PROVE  requests' \in [Requests -> {Idle} \cup Request]
<1>1. \A d \in Requests : requests'[d] \in {Idle} \cup Request
    BY OverlappedEffect, ZenonT(60)
<1>2. requests' = [d \in Requests |-> requests'[d]]
    BY DEF Overlapped
<1> QED BY <1>1, <1>2

LEMMA StepType == TypeInv /\ [Next]_vars => TypeInv'
<1> SUFFICES ASSUME TypeInv, [Next]_vars PROVE TypeInv'
    OBVIOUS
<1>1. ASSUME UNCHANGED mix, calls' \in Nat, pgp' \in Nat, keys' \in Nat, epoch' \in Nat, issued' \in Nat,
             sessions' \in SUBSET Row, tickets' \in SUBSET Ticket, answered' \in [1..MaxIssued -> Nat],
             requests' \in [Requests -> {Idle} \cup Request]
      PROVE  TypeInv'
    BY <1>1 DEF TypeInv, MaxIssued
<1>2. ASSUME NEW c \in Requests, Begin(c) PROVE TypeInv'
    <2>1. PICK r : r \in Request /\ requests' = [requests EXCEPT ![c] = r]
        BY <1>2, BeginEffect DEF Comes
    <2>2. requests' \in [Requests -> {Idle} \cup Request]
        BY <2>1, OneRequest DEF Goes
    <2> QED BY <1>1, <1>2, <2>2 DEF Begin, TypeInv, account
<1>3. ASSUME NEW c \in Requests, Issue(c) PROVE TypeInv'
    <2>1. requests[c] \in Request
        BY <1>3, RequestType DEF Issue, At
    <2>2. /\ requests[c].kind \in Kinds /\ requests[c].under \in Nat
          /\ requests[c].overlap \in BOOLEAN /\ issued + 1 \in Nat
        BY <2>1 DEF Request, TypeInv
    <2>3. [id |-> issued + 1, kind |-> requests[c].kind, under |-> requests[c].under,
           overlap |-> requests[c].overlap] \in Ticket
        BY <2>2 DEF Ticket
    <2>4. tickets' \in SUBSET Ticket /\ requests' \in [Requests -> {Idle} \cup Request]
        BY <1>3, <2>3, OneRequest DEF Issue, TypeInv
    <2> QED BY <1>1, <1>3, <2>2, <2>4 DEF Issue, TypeInv, bounds, account
<1>4. ASSUME NEW c \in Requests, ReadKey(c) PROVE TypeInv'
    <2>1. requests[c] \in Request
        BY <1>4, RequestType DEF ReadKey, At
    <2>2. [requests[c] EXCEPT !.step = "take", !.key = pgp] \in Request
        BY <2>1 DEF Request, Steps, TypeInv
    <2>3. requests' \in [Requests -> {Idle} \cup Request]
        BY <1>4, <2>2, OneRequest DEF ReadKey
    <2> QED BY <1>1, <1>4, <2>3 DEF ReadKey, TypeInv, bounds, account
<1>5. ASSUME NEW c \in Requests, Take(c) PROVE TypeInv'
    <2>1. \/ requests' = [requests EXCEPT ![c] = Idle] /\ tickets' = tickets
          \/ \E t \in tickets, r \in Request : Takes(c, t, r)
        BY <1>5, TakeEffect
    <2>2. requests' \in [Requests -> {Idle} \cup Request] /\ tickets' \in SUBSET Ticket
        BY <2>1 DEF Takes, Without, TypeInv
    <2> QED BY <1>1, <1>5, <2>2 DEF Take, TypeInv, bounds, account
<1>6. ASSUME NEW c \in Requests, CommitTake(c) PROVE TypeInv'
    <2> DEFINE next == CASE requests[c].route = "key" -> "commit"
                         [] requests[c].route = "remove" -> IF requests[c].key = 0 THEN "refuse" ELSE "commit"
                         [] OTHER -> "check"
    <2>1. requests[c] \in Request /\ next \in Steps
        BY <1>6, RequestType DEF CommitTake, At, Steps
    <2>2. tickets' \in SUBSET Ticket /\ Goes(c, [requests[c] EXCEPT !.step = next])
        BY <1>6 DEF CommitTake, Without, TypeInv
    <2> HIDE DEF next
    <2>3. [requests[c] EXCEPT !.step = next] \in Request
        BY <2>1 DEF Request
    <2>4. requests' \in [Requests -> {Idle} \cup Request]
        BY <2>2, <2>3, OneRequest
    <2> QED BY <1>1, <1>6, <2>2, <2>4 DEF CommitTake, TypeInv, bounds, account
<1>7. ASSUME NEW c \in Requests, Check(c) PROVE TypeInv'
    <2>1. requests[c] \in Request
        BY <1>7, RequestType DEF Check, At
    <2>2. /\ [requests[c] EXCEPT !.step = "mint"] \in Request
          /\ [requests[c] EXCEPT !.step = "commit", !.under = epoch] \in Request
        BY <2>1 DEF Request, Steps, TypeInv
    <2>3. \E r \in {Idle} \cup Request : Goes(c, r)
        BY <1>7, <2>2 DEF Check, CheckLogin, CheckLink, CheckRecovery
    <2>4. requests' \in [Requests -> {Idle} \cup Request]
        BY <2>3, OneRequest
    <2> QED BY <1>1, <1>7, <2>4 DEF Check, TypeInv, bounds, account
<1>8. ASSUME NEW c \in Requests, Commit(c) PROVE TypeInv'
    <2>1. requests[c] \in Request /\ epoch + 1 \in Nat /\ keys + 1 \in Nat
        BY <1>8, RequestType
           DEF Commit, CommitPassword, CommitRecoveryKey, CommitRecovery, CommitKey, CommitRemoval,
               Serves, At, TypeInv
    <2>2. [requests[c] EXCEPT !.step = "revoke", !.under = epoch + 1] \in Request
        BY <2>1 DEF Request, Steps
    <2>3. requests' \in [Requests -> {Idle} \cup Request]
        BY <1>8, <2>2, AllRequests DEF Commit
    <2>4. pgp' \in Nat /\ keys' \in Nat
        BY <1>8, <2>1
           DEF Commit, CommitPassword, CommitRecoveryKey, CommitRecovery, CommitKey, CommitRemoval, TypeInv
    <2>5. answered' \in [1..MaxIssued -> Nat]
        BY <1>8, AnswersType DEF Commit, bounds
    <2> QED BY <1>1, <1>8, <2>1, <2>3, <2>4, <2>5 DEF Commit, TypeInv, bounds
<1>9. ASSUME NEW c \in Requests, Revoke(c) PROVE TypeInv'
    <2>1. requests[c] \in Request
        BY <1>9, RequestType DEF Revoke, At
    <2>2. [requests[c] EXCEPT !.step = "mint", !.ticket = 0] \in Request
        BY <2>1 DEF Request, Steps
    <2>3. requests' \in [Requests -> {Idle} \cup Request]
        BY <1>9, <2>2, AllRequests DEF Revoke, RevokeAllCredentials, RevokeOtherCredentials
    <2>4. \A s \in sessions : [s EXCEPT !.under = requests[c].under, !.overlap = requests[c].overlap] \in Row
        BY <2>1 DEF Request, Row, TypeInv
    <2>5. sessions' \in SUBSET Row /\ tickets' \in SUBSET Ticket
        BY <1>9, <2>4 DEF Revoke, RevokeAllCredentials, RevokeOtherCredentials, LeftOver
    <2> QED BY <1>1, <1>9, <2>3, <2>5 DEF Revoke, TypeInv, bounds, account
<1>10. ASSUME NEW c \in Requests, Mint(c) PROVE TypeInv'
    <2>1. requests[c] \in Request
        BY <1>10, RequestType DEF Mint, At
    <2>2. issued + 1 \in Nat /\ requests[c].under \in Nat /\ requests[c].overlap \in BOOLEAN
        BY <2>1 DEF Request, TypeInv
    <2>3. [id |-> issued + 1, under |-> requests[c].under, overlap |-> requests[c].overlap] \in Row
        BY <2>2 DEF Row
    <2>4. sessions' \in SUBSET Row /\ requests' \in [Requests -> {Idle} \cup Request]
        BY <1>10, <2>3, OneRequest DEF Mint, TypeInv
    <2>5. answered' \in [1..MaxIssued -> Nat]
        BY <1>10, AnswersType DEF Mint, bounds
    <2> QED BY <1>1, <1>10, <2>2, <2>4, <2>5 DEF Mint, TypeInv, bounds, account
<1>11. CASE EndSessions
    BY <1>1, <1>11 DEF EndSessions, DestroySession, DestroyAllSessions, TypeInv, account
<1>12. CASE Expire
    BY <1>1, <1>12 DEF Expire, Without, TypeInv, bounds, account
<1>13. CASE Stop
    BY <1>1, <1>13 DEF Stop, TypeInv, account
<1>14. CASE UNCHANGED vars
    BY <1>1, <1>14 DEF vars, TypeInv
<1> QED BY <1>2, <1>3, <1>4, <1>5, <1>6, <1>7, <1>8, <1>9, <1>10, <1>11, <1>12, <1>13, <1>14 DEF Next

-----------------------------------------------------------------------------
(* A slot that changes alone *)

\* A request goes on in its slot, or leaves it, and no credential changes.
MovesAlone(c, r) == Goes(c, r) /\ UNCHANGED <<mix, pgp, keys, epoch, torn>>

LEMMA AloneEffect ==
    ASSUME TypeInv, NEW c \in Requests, NEW r, MovesAlone(c, r)
    PROVE  /\ requests'[c] = r
           /\ \A d \in Requests \ {c} : requests'[d] = requests[d]
           /\ UNCHANGED <<mix, pgp, epoch, torn, MaxIssued>>
BY DEF TypeInv, MovesAlone, Goes, MaxIssued

LEMMA CommitAt ==
    ASSUME TypeInv, NEW c \in Requests, Commit(c)
    PROVE  /\ requests[c].step = "commit" /\ requests[c] \in Request
           /\ requests[c].route \in {"password", "phrase", "recover", "key", "remove"}
           /\ pgp' # pgp => requests[c].route \in {"recover", "key", "remove"}
<1>1. requests[c].step = "commit"
    BY DEF Commit, CommitPassword, CommitRecoveryKey, CommitRecovery, CommitKey, CommitRemoval, Serves, At
<1>2. requests[c] \in Request
    BY <1>1, RequestType
<1> QED BY <1>1, <1>2
    DEF Commit, CommitPassword, CommitRecoveryKey, CommitRecovery, CommitKey, CommitRemoval, Serves

-----------------------------------------------------------------------------
(* Nothing minted under a replaced credential, but for what overlapped it *)

Fair(x) == x.under < epoch => x.overlap

Pending == \E c \in Requests : At(c, "revoke")

AllFair ==
    /\ \A c \in Requests : requests[c] # Idle => Fair(requests[c])
    /\ \A x \in sessions \cup tickets : Fair(x)

\* While a revocation is to come old rows may be left; whoever is about to revoke
\* stands under the newest credential, or has been marked by the one after it.
StaleInv ==
    /\ \A c \in Requests : At(c, "revoke") => Fair(requests[c])
    /\ torn \/ Pending \/ AllFair

LEMMA AloneStale ==
    ASSUME TypeInv, StaleInv, NEW c \in Requests, NEW r \in {Idle} \cup Request, MovesAlone(c, r),
           requests[c].step # "revoke", r.step # "revoke",
           AllFair => r = Idle \/ Fair(r),
           AllFair => \A x \in sessions' \cup tickets' : Fair(x)
    PROVE  StaleInv'
<1>1. /\ requests'[c] = r /\ epoch' = epoch /\ torn' = torn
      /\ \A d \in Requests \ {c} : requests'[d] = requests[d]
    BY AloneEffect
<1>2. \A x : Fair(x)' <=> Fair(x')
    BY <1>1 DEF Fair
<1>3. \A d \in Requests : At(d, "revoke")' => At(d, "revoke") /\ requests'[d] = requests[d]
    BY <1>1 DEF At
<1>4. ASSUME NEW d \in Requests, At(d, "revoke")' PROVE Fair(requests[d])'
    BY <1>1, <1>3, <1>4 DEF StaleInv, Fair
<1>5. Pending => Pending'
    BY <1>1 DEF Pending, At
<1>6. ASSUME AllFair PROVE AllFair'
    <2>1. ASSUME NEW d \in Requests, requests'[d] # Idle PROVE Fair(requests[d])'
        BY <1>1, <1>6, <2>1 DEF AllFair, Fair
    <2>2. ASSUME NEW x \in sessions' \cup tickets' PROVE x.under < epoch' => x.overlap
        BY <1>1, <1>6 DEF Fair
    <2> QED BY <2>1, <2>2 DEF AllFair, Fair
<1> QED BY <1>1, <1>4, <1>5, <1>6 DEF StaleInv

\* What stays, or has been inherited with its mark, is fair where its source was.
LEMMA FairKept ==
    ASSUME TypeInv, NEW r \in Request, NEW q, q.under = r.under, r.overlap => q.overlap, Fair(r)
    PROVE  Fair(q)
BY DEF Fair

LEMMA StepStale == TypeInv /\ StaleInv /\ [Next]_vars => StaleInv'
<1> SUFFICES ASSUME TypeInv, StaleInv, [Next]_vars PROVE StaleInv'
    OBVIOUS
<1>1. \A d \in Requests : requests[d] # Idle <=> requests[d] \in Request
    BY RequestSteps DEF TypeInv
<1>2. epoch \in Nat /\ ~(epoch < epoch)
    BY DEF TypeInv
<1>3. ASSUME NEW c \in Requests, Begin(c) PROVE StaleInv'
    <2>1. PICK r : Comes(r) /\ requests' = [requests EXCEPT ![c] = r]
        BY <1>3, BeginEffect
    <2>2. /\ MovesAlone(c, r) /\ r \in Request /\ requests[c].step = "idle" /\ r.step # "revoke"
          /\ sessions' = sessions /\ tickets' = tickets
        BY <1>3, <2>1 DEF Begin, MovesAlone, Goes, At, Comes, account
    <2>3. AllFair => Fair(r)
        BY <1>2, <2>1 DEF AllFair, Fair, Comes
    <2> QED BY <2>2, <2>3, AloneStale DEF AllFair
<1>4. ASSUME NEW c \in Requests, Issue(c) PROVE StaleInv'
    <2>1. requests[c] \in Request /\ requests[c].step = "issue"
        BY <1>4, RequestType DEF Issue, At
    <2> DEFINE new == [id |-> issued + 1, kind |-> requests[c].kind, under |-> requests[c].under,
                       overlap |-> requests[c].overlap]
    <2>2. tickets' \subseteq tickets \cup {new} /\ sessions' = sessions /\ MovesAlone(c, Idle)
        BY <1>4 DEF Issue, MovesAlone, bounds, account
    <2>3. AllFair => Fair(new)
        BY <1>1, <2>1 DEF AllFair, Fair
    <2> HIDE DEF new
    <2>4. AllFair => \A x \in sessions' \cup tickets' : Fair(x)
        BY <2>2, <2>3 DEF AllFair
    <2> QED BY <2>1, <2>2, <2>4, AloneStale DEF Idle
<1>5. ASSUME NEW c \in Requests, ReadKey(c) PROVE StaleInv'
    <2>1. requests[c] \in Request /\ requests[c].step = "read"
        BY <1>5, RequestType DEF ReadKey, At
    <2> DEFINE r == [requests[c] EXCEPT !.step = "take", !.key = pgp]
    <2>2. r \in Request /\ r.step = "take" /\ r.under = requests[c].under /\ r.overlap = requests[c].overlap
        BY <2>1 DEF Request, Steps, TypeInv
    <2>3. MovesAlone(c, r) /\ sessions' = sessions /\ tickets' = tickets
        BY <1>5 DEF ReadKey, MovesAlone, bounds, account
    <2> HIDE DEF r
    <2>4. AllFair => Fair(r)
        BY <1>1, <2>1, <2>2 DEF AllFair, Fair
    <2> QED BY <2>1, <2>2, <2>3, <2>4, AloneStale DEF AllFair
<1>6. ASSUME NEW c \in Requests, Take(c) PROVE StaleInv'
    <2>1. requests[c].step \in {"take", "refuse"} /\ requests[c] \in Request
        BY <1>6, TakeEffect
    <2>2. sessions' = sessions /\ UNCHANGED <<mix, pgp, keys, epoch, torn>>
        BY <1>6 DEF Take, bounds, account
    <2>3. CASE requests' = [requests EXCEPT ![c] = Idle] /\ tickets' = tickets
        <3>1. MovesAlone(c, Idle) /\ Idle.step # "revoke"
            BY <2>2, <2>3 DEF MovesAlone, Goes, Idle
        <3> QED BY <2>1, <2>2, <2>3, <3>1, AloneStale DEF AllFair
    <2>4. ASSUME NEW t \in tickets, NEW r \in Request, Takes(c, t, r) PROVE StaleInv'
        <3>1. MovesAlone(c, r) /\ r.step # "revoke"
            BY <2>2, <2>4 DEF MovesAlone, Goes, Takes
        <3>2. AllFair => Fair(r)
            BY <1>1, <2>1, <2>4 DEF AllFair, Fair, Takes
        <3>3. tickets' \subseteq tickets
            BY <2>4 DEF Takes, Without
        <3> QED BY <2>1, <2>2, <3>1, <3>2, <3>3, AloneStale DEF AllFair
    <2> QED BY <1>6, <2>3, <2>4, TakeEffect
<1>7. ASSUME NEW c \in Requests, CommitTake(c) PROVE StaleInv'
    <2>1. requests[c] \in Request /\ requests[c].step = "taking"
        BY <1>7, RequestType DEF CommitTake, At
    <2>2. PICK next \in {"commit", "refuse", "check"} : Goes(c, [requests[c] EXCEPT !.step = next])
        BY <1>7 DEF CommitTake
    <2> DEFINE r == [requests[c] EXCEPT !.step = next]
    <2>3. r \in Request /\ r.step = next /\ r.under = requests[c].under /\ r.overlap = requests[c].overlap
        BY <2>1 DEF Request, Steps
    <2>4. MovesAlone(c, r) /\ sessions' = sessions /\ tickets' \subseteq tickets
        BY <1>7, <2>2 DEF CommitTake, MovesAlone, Without, bounds, account
    <2> HIDE DEF r
    <2>5. AllFair => Fair(r)
        BY <1>1, <2>1, <2>3 DEF AllFair, Fair
    <2> QED BY <2>1, <2>3, <2>4, <2>5, AloneStale DEF AllFair
<1>8. ASSUME NEW c \in Requests, Check(c) PROVE StaleInv'
    <2>1. requests[c] \in Request /\ requests[c].step = "check"
        BY <1>8, RequestType DEF Check, At
    <2>2. sessions' = sessions /\ tickets' = tickets /\ UNCHANGED <<mix, pgp, keys, epoch, torn>>
        BY <1>8 DEF Check, bounds, account
    <2>3. CASE Goes(c, Idle)
        <3>1. MovesAlone(c, Idle) /\ Idle.step # "revoke"
            BY <2>2, <2>3 DEF MovesAlone, Idle
        <3> QED BY <2>1, <2>2, <3>1, AloneStale DEF AllFair
    <2>4. CASE Goes(c, [requests[c] EXCEPT !.step = "mint"])
        <3> DEFINE r == [requests[c] EXCEPT !.step = "mint"]
        <3>1. r \in Request /\ r.step = "mint" /\ r.under = requests[c].under /\ r.overlap = requests[c].overlap
            BY <2>1 DEF Request, Steps
        <3>2. MovesAlone(c, r)
            BY <2>2, <2>4 DEF MovesAlone
        <3> HIDE DEF r
        <3>3. AllFair => Fair(r)
            BY <1>1, <2>1, <3>1 DEF AllFair, Fair
        <3> QED BY <2>1, <2>2, <3>1, <3>2, <3>3, AloneStale DEF AllFair
    <2>5. CASE Goes(c, [requests[c] EXCEPT !.step = "commit", !.under = epoch])
        <3> DEFINE r == [requests[c] EXCEPT !.step = "commit", !.under = epoch]
        <3>1. r \in Request /\ r.step = "commit" /\ r.under = epoch
            BY <1>2, <2>1 DEF Request, Steps
        <3>2. MovesAlone(c, r)
            BY <2>2, <2>5 DEF MovesAlone
        <3> HIDE DEF r
        <3>3. Fair(r)
            BY <1>2, <3>1 DEF Fair
        <3> QED BY <2>1, <2>2, <3>1, <3>2, <3>3, AloneStale DEF AllFair
    <2> QED BY <1>8, <2>3, <2>4, <2>5 DEF Check, CheckLogin, CheckLink, CheckRecovery
<1>9. ASSUME NEW c \in Requests, Commit(c) PROVE StaleInv'
    <2> DEFINE r == [requests[c] EXCEPT !.step = "revoke", !.under = epoch + 1]
    <2>1. requests[c] \in Request
        BY <1>9, CommitAt
    <2>2. r.step = "revoke" /\ r.under = epoch + 1
        BY <2>1 DEF Request
    <2>3. requests' = Overlapped(c, r) /\ epoch' = epoch + 1
        BY <1>9 DEF Commit
    <2> HIDE DEF r
    <2>4. requests'[c] = r /\ \A d \in Requests \ {c} : requests'[d] = Idle \/ requests'[d].overlap
        BY <2>3, OverlappedEffect
    <2>5. At(c, "revoke")' /\ Fair(requests[c])'
        BY <1>2, <2>2, <2>3, <2>4 DEF At, Fair
    <2>6. \A d \in Requests \ {c} : At(d, "revoke")' => Fair(requests[d])'
        BY <2>4 DEF At, Fair, Idle
    <2> QED BY <2>5, <2>6 DEF StaleInv, Pending
<1>10. ASSUME NEW c \in Requests, Revoke(c) PROVE StaleInv'
    <2>1. requests[c] \in Request /\ Fair(requests[c])
        BY <1>10, RequestType DEF Revoke, At, StaleInv
    <2>2. epoch' = epoch /\ tickets' = {}
        BY <1>10 DEF Revoke, account, LeftOver
    <2>3. PICK r \in {Idle} \cup Request :
             /\ requests' = Overlapped(c, r) /\ r.step # "revoke"
             /\ r = Idle \/ (r.under = requests[c].under /\ r.overlap = requests[c].overlap)
        <3>1. CASE RevokeAllCredentials(c)
            <4> DEFINE r == [requests[c] EXCEPT !.step = "mint", !.ticket = 0]
            <4>1. /\ r \in Request /\ r.step = "mint"
                  /\ r.under = requests[c].under /\ r.overlap = requests[c].overlap
                BY <2>1 DEF Request, Steps
            <4>2. requests' = Overlapped(c, r)
                BY <3>1 DEF RevokeAllCredentials
            <4> HIDE DEF r
            <4> QED BY <4>1, <4>2
        <3>2. CASE RevokeOtherCredentials(c)
            <4>1. requests' = Overlapped(c, Idle) /\ Idle.step # "revoke"
                BY <3>2 DEF RevokeOtherCredentials, Idle
            <4> QED BY <4>1
        <3> QED BY <1>10, <3>1, <3>2 DEF Revoke
    <2>4. \A s \in sessions' : s.under = requests[c].under /\ s.overlap = requests[c].overlap
        <3> DEFINE marked(s) == [s EXCEPT !.under = requests[c].under, !.overlap = requests[c].overlap]
        <3>1. ASSUME NEW s \in sessions
              PROVE  marked(s).under = requests[c].under /\ marked(s).overlap = requests[c].overlap
            BY DEF TypeInv, Row
        <3>2. sessions' = {} \/ sessions' = {marked(s) : s \in {x \in sessions : x.id = requests[c].session}}
            BY <1>10 DEF Revoke, RevokeAllCredentials, RevokeOtherCredentials
        <3> HIDE DEF marked
        <3> QED BY <3>1, <3>2
    <2>5. requests'[c] = r /\ \A d \in Requests \ {c} : requests'[d] = Idle \/ requests'[d].overlap
        BY <2>3, OverlappedEffect
    <2>6. \A d \in Requests : requests'[d] # Idle => Fair(requests[d])'
        BY <2>1, <2>2, <2>3, <2>5 DEF Fair
    <2>7. \A x \in sessions' \cup tickets' : x.under < epoch' => x.overlap
        BY <2>1, <2>2, <2>4 DEF Fair
    <2>8. AllFair'
        BY <2>6, <2>7 DEF AllFair, Fair
    <2>9. \A d \in Requests : At(d, "revoke")' => Fair(requests[d])'
        BY <2>6 DEF At, Idle
    <2> QED BY <2>8, <2>9 DEF StaleInv
<1>11. ASSUME NEW c \in Requests, Mint(c) PROVE StaleInv'
    <2>1. requests[c] \in Request /\ requests[c].step = "mint"
        BY <1>11, RequestType DEF Mint, At
    <2> DEFINE new == [id |-> issued + 1, under |-> requests[c].under, overlap |-> requests[c].overlap]
    <2>2. sessions' = sessions \cup {new} /\ tickets' = tickets /\ MovesAlone(c, Idle) /\ Idle.step # "revoke"
        BY <1>11 DEF Mint, MovesAlone, bounds, account, Idle
    <2>3. AllFair => Fair(new)
        BY <1>1, <2>1 DEF AllFair, Fair
    <2> HIDE DEF new
    <2>4. AllFair => \A x \in sessions' \cup tickets' : Fair(x)
        BY <2>2, <2>3 DEF AllFair
    <2> QED BY <2>1, <2>2, <2>4, AloneStale
<1>12. ASSUME requests' = requests, epoch' = epoch, torn' = torn,
              sessions' \subseteq sessions, tickets' \subseteq tickets
       PROVE  StaleInv'
    BY <1>12 DEF StaleInv, Pending, At, AllFair, Fair
<1>13. CASE EndSessions
    BY <1>12, <1>13 DEF EndSessions, DestroySession, DestroyAllSessions, account
<1>14. CASE Expire
    BY <1>12, <1>14 DEF Expire, Without, account
<1>15. CASE Stop
    <2>1. /\ \A c \in Requests : requests'[c] = Idle
          /\ torn' = (torn \/ Pending) /\ epoch' = epoch /\ sessions' = sessions /\ tickets' = tickets
        BY <1>15 DEF Stop, Pending, account
    <2>2. \A d \in Requests : ~At(d, "revoke")'
        BY <2>1 DEF At, Idle
    <2>3. CASE AllFair
        BY <2>1, <2>2, <2>3 DEF StaleInv, AllFair, Fair
    <2>4. CASE torn \/ Pending
        BY <2>1, <2>2, <2>4 DEF StaleInv
    <2> QED BY <2>3, <2>4 DEF StaleInv
<1>16. CASE UNCHANGED vars
    BY <1>12, <1>16 DEF vars
<1> QED BY <1>3, <1>4, <1>5, <1>6, <1>7, <1>8, <1>9, <1>10, <1>11, <1>13, <1>14, <1>15, <1>16 DEF Next

LEMMA InitStale == Init => StaleInv
<1> SUFFICES ASSUME Init PROVE StaleInv
    OBVIOUS
<1>1. \A c \in Requests : requests[c] = Idle /\ ~At(c, "revoke")
    BY DEF Init, At, Idle
<1>2. \A x \in sessions \cup tickets : ~(x.under < epoch)
    BY DEF Init
<1> QED BY <1>1, <1>2 DEF StaleInv, AllFair, Fair

\* A session, challenge or link code outlives the credential it was minted under
\* only if its request, or its ticket's request, was under way while the credential
\* was replaced; else the revocation is still to come, or the server stopped before
\* it.  (auth.ts: password; recovery.ts: complete, pgp/key, pgp/remove,
\* recovery/key; sessions.ts: revokeAllCredentials, revokeOtherCredentials)
THEOREM NothingStale == Spec => []StaleOnlyByOverlap
<1>1. Init => TypeInv /\ StaleInv
    BY InitType, InitStale
<1>2. TypeInv /\ StaleInv /\ [Next]_vars => TypeInv' /\ StaleInv'
    BY StepType, StepStale
<1>3. StaleInv => StaleOnlyByOverlap
    BY DEF StaleInv, StaleOnlyByOverlap, Pending, AllFair, Fair
<1> QED BY <1>1, <1>2, <1>3, PTL DEF Spec

-----------------------------------------------------------------------------
(* A key goes by its own signature, the phrase, or a request that overlapped *)

\* A request that changes the key works with the key of the account, or has been
\* marked since it looked; and what signed is the key it looked up.
WithKey(r, current) ==
    r.route \in {"key", "remove"} /\ r.step \in {"take", "taking", "refuse", "commit"} =>
        /\ r.key = current \/ r.overlap
        /\ r.step \in {"taking", "commit"} => r.signed = r.key

KeyInv == \A c \in Requests : WithKey(requests[c], pgp)

LEMMA IdleKey == \A current : WithKey(Idle, current)
BY DEF WithKey, Idle

LEMMA AloneKey ==
    ASSUME TypeInv, KeyInv, NEW c \in Requests, NEW r, requests' = [requests EXCEPT ![c] = r],
           pgp' = pgp, WithKey(r, pgp)
    PROVE  KeyInv'
BY DEF TypeInv, KeyInv, WithKey

LEMMA StepKey == TypeInv /\ KeyInv /\ [Next]_vars => KeyInv'
<1> SUFFICES ASSUME TypeInv, KeyInv, [Next]_vars PROVE KeyInv'
    OBVIOUS
<1>1. ASSUME NEW c \in Requests, Begin(c) PROVE KeyInv'
    <2>1. PICK r : Comes(r) /\ requests' = [requests EXCEPT ![c] = r]
        BY <1>1, BeginEffect
    <2>2. WithKey(r, pgp) /\ pgp' = pgp
        BY <1>1, <2>1 DEF Begin, Comes, WithKey, account
    <2> QED BY <2>1, <2>2, AloneKey
<1>2. ASSUME NEW c \in Requests, Issue(c) \/ Mint(c) PROVE KeyInv'
    BY <1>2, IdleKey, AloneKey DEF Issue, Mint, Goes, account
<1>3. ASSUME NEW c \in Requests, ReadKey(c) PROVE KeyInv'
    <2>1. requests[c] \in Request
        BY <1>3, RequestType DEF ReadKey, At
    <2> DEFINE r == [requests[c] EXCEPT !.step = "take", !.key = pgp]
    <2>2. r.step = "take" /\ r.key = pgp
        BY <2>1 DEF Request
    <2>3. requests' = [requests EXCEPT ![c] = r] /\ pgp' = pgp
        BY <1>3 DEF ReadKey, Goes, account
    <2> HIDE DEF r
    <2>4. WithKey(r, pgp)
        BY <2>2 DEF WithKey
    <2> QED BY <2>3, <2>4, AloneKey
<1>4. ASSUME NEW c \in Requests, Take(c) PROVE KeyInv'
    <2>1. pgp' = pgp
        BY <1>4 DEF Take, account
    <2>2. CASE requests' = [requests EXCEPT ![c] = Idle]
        BY <2>1, <2>2, IdleKey, AloneKey
    <2>3. ASSUME At(c, "take"), NEW t \in tickets, NEW r \in Request, Takes(c, t, r) PROVE KeyInv'
        <3>1. r.overlap = requests[c].overlap \/ r.overlap = (requests[c].overlap \/ t.overlap)
            BY <2>3 DEF Takes
        <3>2. r.route = requests[c].route /\ r.key = requests[c].key
              /\ (r.route \in {"key", "remove"} => r.signed = r.key)
            BY <2>3 DEF Takes
        <3>3. WithKey(requests[c], pgp)
            BY DEF KeyInv
        <3>4. WithKey(r, pgp)
            BY <2>3, <3>1, <3>2, <3>3 DEF WithKey, At
        <3>5. requests' = [requests EXCEPT ![c] = r]
            BY <2>3 DEF Takes
        <3> QED BY <2>1, <3>4, <3>5, AloneKey
    <2> QED BY <1>4, <2>2, <2>3, TakeEffect
<1>5. ASSUME NEW c \in Requests, CommitTake(c) PROVE KeyInv'
    <2>1. requests[c] \in Request /\ requests[c].step = "taking" /\ WithKey(requests[c], pgp)
        BY <1>5, RequestType DEF CommitTake, At, KeyInv
    <2>2. PICK next \in {"commit", "refuse", "check"} : Goes(c, [requests[c] EXCEPT !.step = next])
        BY <1>5 DEF CommitTake
    <2> DEFINE r == [requests[c] EXCEPT !.step = next]
    <2>3. /\ r.step = next /\ r.route = requests[c].route /\ r.key = requests[c].key
          /\ r.signed = requests[c].signed /\ r.overlap = requests[c].overlap
        BY <2>1 DEF Request
    <2>4. requests' = [requests EXCEPT ![c] = r] /\ pgp' = pgp
        BY <1>5, <2>2 DEF CommitTake, Goes, account
    <2> HIDE DEF r
    <2>5. WithKey(r, pgp)
        BY <2>1, <2>3 DEF WithKey
    <2> QED BY <2>4, <2>5, AloneKey
<1>6. ASSUME NEW c \in Requests, Check(c) PROVE KeyInv'
    <2>1. requests[c] \in Request /\ pgp' = pgp
        BY <1>6, RequestType DEF Check, At, account
    <2>2. CASE Goes(c, Idle)
        BY <2>1, <2>2, IdleKey, AloneKey DEF Goes
    <2>3. CASE CheckLogin(c) \/ CheckLink(c)
        <3> DEFINE r == [requests[c] EXCEPT !.step = "mint"]
        <3>1. r.step = "mint" /\ requests' = [requests EXCEPT ![c] = r]
            BY <2>1, <2>3 DEF Request, CheckLogin, CheckLink, Goes
        <3> HIDE DEF r
        <3>2. WithKey(r, pgp)
            BY <3>1 DEF WithKey
        <3> QED BY <2>1, <3>1, <3>2, AloneKey
    <2>4. CASE CheckRecovery(c)
        <3> DEFINE r == [requests[c] EXCEPT !.step = "commit", !.under = epoch]
        <3>1. r.route = "recover" /\ requests' = [requests EXCEPT ![c] = r]
            BY <2>1, <2>4 DEF Request, CheckRecovery, Serves, Goes
        <3> HIDE DEF r
        <3>2. WithKey(r, pgp)
            BY <3>1 DEF WithKey
        <3> QED BY <2>1, <3>1, <3>2, AloneKey
    <2> QED BY <1>6, <2>2, <2>3, <2>4 DEF Check
<1>7. ASSUME NEW c \in Requests, NEW r, requests' = Overlapped(c, r), WithKey(r, pgp'),
             pgp' = pgp \/ requests[c].step = "commit"
      PROVE  KeyInv'
    <2>1. ASSUME NEW d \in Requests \ {c} PROVE WithKey(requests'[d], pgp')
        <3>1. CASE requests'[d] = Idle
            BY <3>1, IdleKey
        <3>2. CASE requests[d] \in Request /\ requests'[d] = [requests[d] EXCEPT !.overlap = TRUE]
            <4>1. WithKey(requests[d], pgp)
                BY DEF KeyInv
            <4>2. /\ requests'[d].overlap /\ requests'[d].step = requests[d].step
                  /\ requests'[d].route = requests[d].route /\ requests'[d].key = requests[d].key
                  /\ requests'[d].signed = requests[d].signed
                BY <3>2 DEF Request
            <4> QED BY <4>1, <4>2 DEF WithKey
        <3> QED BY <1>7, <3>1, <3>2, OverlappedEffect
    <2>2. requests'[c] = r
        BY <1>7, OverlappedEffect
    <2>3. WithKey(requests'[c], pgp')
        BY <1>7, <2>2
    <2> QED BY <2>1, <2>3 DEF KeyInv
<1>8. ASSUME NEW c \in Requests, Commit(c) PROVE KeyInv'
    <2> DEFINE r == [requests[c] EXCEPT !.step = "revoke", !.under = epoch + 1]
    <2>1. r.step = "revoke" /\ requests[c].step = "commit" /\ requests' = Overlapped(c, r)
        BY <1>8, CommitAt DEF Commit, Request
    <2> HIDE DEF r
    <2>2. WithKey(r, pgp')
        BY <2>1 DEF WithKey
    <2> QED BY <1>7, <2>1, <2>2
<1>9. ASSUME NEW c \in Requests, Revoke(c) PROVE KeyInv'
    <2>1. requests[c] \in Request /\ pgp' = pgp
        BY <1>9, RequestType DEF Revoke, At, account
    <2>2. CASE RevokeAllCredentials(c)
        <3> DEFINE r == [requests[c] EXCEPT !.step = "mint", !.ticket = 0]
        <3>1. r.step = "mint" /\ requests' = Overlapped(c, r)
            BY <2>1, <2>2 DEF Request, RevokeAllCredentials
        <3> HIDE DEF r
        <3>2. WithKey(r, pgp')
            BY <3>1 DEF WithKey
        <3> QED BY <1>7, <2>1, <3>1, <3>2
    <2>3. CASE RevokeOtherCredentials(c)
        <3>1. requests' = Overlapped(c, Idle) /\ WithKey(Idle, pgp')
            BY <2>3 DEF RevokeOtherCredentials, WithKey, Idle
        <3> QED BY <1>7, <2>1, <3>1
    <2> QED BY <1>9, <2>2, <2>3 DEF Revoke
<1>10. CASE EndSessions \/ Expire \/ UNCHANGED vars
    BY <1>10 DEF EndSessions, Expire, vars, account, KeyInv, WithKey
<1>11. CASE Stop
    <2>1. \A c \in Requests : requests'[c] = Idle
        BY <1>11 DEF Stop
    <2> QED BY <2>1 DEF KeyInv, WithKey, Idle
<1> QED BY <1>1, <1>2, <1>3, <1>4, <1>5, <1>6, <1>8, <1>9, <1>10, <1>11 DEF Next

\* A PGP key leaves the account by a signature of that key or by the recovery
\* phrase, or by a request that was under way when the key was put there.
\* (recovery.ts: pgp/key, pgp/remove)
THEOREM KeySignedAway == Spec => KeyLeavesSigned
<1> DEFINE Signed ==
        pgp # 0 /\ pgp' # pgp =>
            \E c \in Requests :
                /\ At(c, "commit")
                /\ requests'[c].step = "revoke"
                /\ \/ requests[c].route = "recover"
                   \/ requests[c].signed = pgp
                   \/ requests[c].overlap
<1>1. Init => TypeInv /\ KeyInv
    BY InitType DEF Init, KeyInv, WithKey, Idle
<1>2. TypeInv /\ KeyInv /\ [Next]_vars => TypeInv' /\ KeyInv'
    BY StepType, StepKey
<1>3. TypeInv /\ KeyInv /\ [Next]_vars => [Signed]_vars
    <2> SUFFICES ASSUME TypeInv, KeyInv, Next, pgp' # pgp PROVE Signed
        BY DEF vars
    <2>1. PICK c \in Requests : Commit(c)
        BY DEF Next, Begin, Issue, ReadKey, Take, CommitTake, Check, Revoke, Mint, EndSessions, Expire, Stop,
               account
    <2>2. /\ At(c, "commit") /\ requests[c] \in Request
          /\ requests[c].route \in {"recover", "key", "remove"}
        BY <2>1, CommitAt DEF At
    <2> DEFINE r == [requests[c] EXCEPT !.step = "revoke", !.under = epoch + 1]
    <2>3. r.step = "revoke" /\ requests' = Overlapped(c, r)
        BY <2>1, <2>2 DEF Commit, Request
    <2> HIDE DEF r
    <2>4. requests'[c].step = "revoke"
        BY <2>3, OverlappedEffect
    <2>5. requests[c].route = "recover" \/ requests[c].signed = pgp \/ requests[c].overlap
        BY <2>2 DEF KeyInv, WithKey, At
    <2> QED BY <2>2, <2>4, <2>5
<1> QED BY <1>1, <1>2, <1>3, PTL DEF Spec, KeyLeavesSigned

-----------------------------------------------------------------------------
(* A challenge or link code is good once, on SQLite *)

\* Having taken a ticket, a request holds it until its session or change.
Holding == {"check", "commit", "mint", "refuse"}
HasTicket(r, t) == r.step \in Holding /\ r.ticket = t

Unanswered(t) == t \in 1..MaxIssued /\ t <= issued /\ answered[t] = 0

\* A ticket lies in the table, or one request holds it, or it has been used: what
\* is answered for the first time has never been answered before.
TicketInv ==
    /\ issued <= MaxIssued
    /\ \A t \in 1..MaxIssued : answered[t] <= 1 /\ (t > issued => answered[t] = 0)
    /\ \A x \in tickets : Unanswered(x.id) /\ \A c \in Requests : ~HasTicket(requests[c], x.id)
    /\ \A c \in Requests :
          /\ requests[c].step # "taking"
          /\ requests[c].step \in Holding =>
                requests[c].ticket = 0 \/ Unanswered(requests[c].ticket)
    /\ \A c, d \in Requests :
          requests[c].step \in Holding /\ requests[c].ticket # 0 /\ HasTicket(requests[d], requests[c].ticket) => c = d

LEMMA IdleHolds == Idle.step \notin Holding /\ Idle.step # "taking"
BY DEF Idle, Holding

\* A request that goes on with the ticket it holds, or lets go of it.
LEMMA KeepsTicket ==
    ASSUME TypeInv, TicketInv, NEW c \in Requests, NEW r, requests' = [requests EXCEPT ![c] = r],
           UNCHANGED <<mix, issued, answered>>, tickets' \subseteq tickets,
           r.step # "taking",
           r.step \in Holding => r.ticket = 0 \/ HasTicket(requests[c], r.ticket)
    PROVE  TicketInv'
<1>1. requests'[c] = r /\ \A d \in Requests \ {c} : requests'[d] = requests[d]
    BY DEF TypeInv
<1>2. MaxIssued' = MaxIssued
    BY DEF MaxIssued
<1>3. \A t : Unanswered(t)' <=> Unanswered(t)
    BY <1>2 DEF Unanswered
<1>4. \A d \in Requests : \A t : t # 0 /\ HasTicket(requests'[d], t) => HasTicket(requests[d], t)
    BY <1>1 DEF HasTicket
<1>5. \A x \in tickets : x.id # 0
    BY DEF TicketInv, Unanswered
<1>6. ASSUME NEW x \in tickets'
      PROVE  Unanswered(x.id)' /\ \A d \in Requests : ~HasTicket(requests'[d], x.id)
    <2>1. x \in tickets
        BY <1>6
    <2> QED BY <1>3, <1>4, <1>5, <2>1 DEF TicketInv
<1>7. ASSUME NEW d \in Requests, requests'[d].step \in Holding, requests'[d].ticket # 0
      PROVE  Unanswered(requests[d].ticket)'
    <2>1. HasTicket(requests[d], requests'[d].ticket)
        BY <1>4, <1>7 DEF HasTicket
    <2>2. Unanswered(requests'[d].ticket)
        BY <1>7, <2>1 DEF TicketInv, HasTicket
    <2> QED BY <1>2, <2>2 DEF Unanswered
<1>8. ASSUME NEW d \in Requests, NEW e \in Requests, requests'[d].step \in Holding,
             requests'[d].ticket # 0, HasTicket(requests'[e], requests'[d].ticket)
      PROVE  d = e
    <2>1. HasTicket(requests[d], requests'[d].ticket) /\ HasTicket(requests[e], requests'[d].ticket)
        BY <1>4, <1>8 DEF HasTicket
    <2> QED BY <1>8, <2>1 DEF TicketInv, HasTicket
<1>9. \A d \in Requests : requests'[d].step # "taking"
    BY <1>1 DEF TicketInv
<1>10. issued' <= MaxIssued'
       /\ \A t \in 1..MaxIssued' : answered'[t] <= 1 /\ (t > issued' => answered'[t] = 0)
    BY <1>2 DEF TicketInv
<1>11. \A d \in Requests : requests'[d].step \in Holding =>
           requests'[d].ticket = 0 \/ Unanswered(requests[d].ticket)'
    BY <1>7
<1>12. \A x \in tickets' : Unanswered(x.id)' /\ \A d \in Requests : ~HasTicket(requests'[d], x.id)
    BY <1>6
<1>13. \A d, e \in Requests :
           requests'[d].step \in Holding /\ requests'[d].ticket # 0
           /\ HasTicket(requests'[e], requests'[d].ticket) => d = e
    BY <1>8
<1> QED BY <1>9, <1>10, <1>11, <1>12, <1>13 DEF TicketInv

\* What a request answers with its ticket is the first answer of that ticket.
LEMMA AnswersOnce ==
    ASSUME TypeInv, TicketInv, NEW c \in Requests, requests[c].step \in Holding,
           Answers(requests[c].ticket), mix' = mix
    PROVE  /\ \A t \in 1..MaxIssued : answered'[t] <= 1 /\ (t > issued => answered'[t] = 0)
           /\ \A t \in 1..MaxIssued : t # requests[c].ticket => answered'[t] = answered[t]
<1> DEFINE t0 == requests[c].ticket
           more == IF answered[t0] < 2 THEN answered[t0] + 1 ELSE answered[t0]
<1>1. answered \in [1..MaxIssued -> Nat]
    BY DEF TypeInv
<1>2. CASE t0 = 0
    BY <1>2 DEF Answers, TicketInv
<1>3. CASE t0 # 0
    <2>1. t0 \in 1..MaxIssued /\ t0 <= issued /\ answered[t0] = 0
        BY <1>3 DEF TicketInv, Unanswered
    <2>2. answered' = [answered EXCEPT ![t0] = more]
        BY <1>3 DEF Answers
    <2>3. more = 1
        BY <2>1
    <2>4. issued \in Nat /\ MaxIssued \in Nat
        BY MixesAssumption DEF TypeInv, MaxIssued
    <2> HIDE DEF more, t0
    <2>5. \A t \in 1..MaxIssued : t # t0 => answered'[t] = answered[t]
        BY <1>1, <2>2
    <2>6. answered'[t0] = 1
        BY <1>1, <2>1, <2>2, <2>3
    <2>7. ASSUME NEW t \in 1..MaxIssued PROVE answered'[t] <= 1 /\ (t > issued => answered'[t] = 0)
        <3>1. CASE t = t0
            BY <2>1, <2>4, <2>6, <3>1
        <3>2. CASE t # t0
            BY <2>5, <3>2 DEF TicketInv
        <3> QED BY <3>1, <3>2
    <2> QED BY <2>5, <2>7 DEF t0
<1> QED BY <1>2, <1>3

LEMMA OverlappedTickets ==
    ASSUME TypeInv, NEW c \in Requests, NEW r, requests' = Overlapped(c, r)
    PROVE  \A d \in Requests \ {c} :
              /\ requests'[d].step = requests[d].step
              /\ requests'[d].step \in Holding => requests'[d].ticket = requests[d].ticket
<1> SUFFICES ASSUME NEW d \in Requests \ {c}
             PROVE  /\ requests'[d].step = requests[d].step
                    /\ requests'[d].step \in Holding => requests'[d].ticket = requests[d].ticket
    OBVIOUS
<1>1. CASE requests[d] = Idle /\ requests'[d] = Idle
    BY <1>1, IdleHolds
<1>2. CASE requests'[d].step = requests[d].step /\ requests'[d].ticket = requests[d].ticket
    BY <1>2
<1> QED BY <1>1, <1>2, OverlappedEffect

LEMMA StepTicket ==
    ASSUME TypeInv, TicketInv, mix.database = "sqlite", [Next]_vars PROVE TicketInv'
<1>1. issued \in Nat /\ MaxIssued \in Nat
    BY MixesAssumption DEF TypeInv, MaxIssued
<1>2. ASSUME NEW c \in Requests, Begin(c) PROVE TicketInv'
    <2>1. PICK r : Comes(r) /\ requests' = [requests EXCEPT ![c] = r]
        BY <1>2, BeginEffect
    <2>2. r.step # "taking" /\ r.ticket = 0
        BY <2>1 DEF Comes
    <2>3. UNCHANGED <<mix, issued, answered>> /\ tickets' \subseteq tickets
        BY <1>2 DEF Begin
    <2> QED BY <2>1, <2>2, <2>3, KeepsTicket
<1>3. ASSUME NEW c \in Requests, Issue(c) PROVE TicketInv'
    <2> DEFINE new == [id |-> issued + 1, kind |-> requests[c].kind, under |-> requests[c].under,
                       overlap |-> requests[c].overlap]
    <2>1. /\ issued < MaxIssued /\ issued' = issued + 1 /\ tickets' \subseteq tickets \cup {new}
          /\ requests' = [requests EXCEPT ![c] = Idle] /\ UNCHANGED <<mix, answered>>
        BY <1>3 DEF Issue, Goes, bounds
    <2>2. new.id = issued + 1
        OBVIOUS
    <2> HIDE DEF new
    <2>3. \A d \in Requests : requests'[d] = requests[d] \/ requests'[d] = Idle
        BY <2>1 DEF TypeInv
    <2>4. \A d \in Requests : requests'[d].step \in Holding => requests'[d] = requests[d]
        BY <2>3, IdleHolds
    <2>5. MaxIssued' = MaxIssued
        BY <2>1 DEF MaxIssued
    <2>6. \A t : Unanswered(t) => Unanswered(t)'
        BY <1>1, <2>1, <2>5 DEF Unanswered
    <2>7. answered[issued + 1] = 0 /\ issued + 1 \in 1..MaxIssued
        BY <1>1, <2>1 DEF TicketInv
    <2>8. ASSUME NEW d \in Requests, requests'[d].step \in Holding PROVE requests'[d].ticket # issued + 1
        BY <1>1, <2>4, <2>8 DEF TicketInv, Unanswered
    <2>9. \A x \in tickets' : Unanswered(x.id)' /\ \A d \in Requests : ~HasTicket(requests'[d], x.id)
        <3>1. ASSUME NEW x \in tickets' PROVE Unanswered(x.id)'
            <4>1. CASE x \in tickets
                BY <2>6, <4>1 DEF TicketInv
            <4>2. CASE x = new
                BY <1>1, <2>1, <2>2, <2>5, <2>7, <4>2 DEF Unanswered
            <4> QED BY <2>1, <4>1, <4>2
        <3>2. ASSUME NEW x \in tickets', NEW d \in Requests PROVE ~HasTicket(requests'[d], x.id)
            <4>1. CASE x \in tickets
                BY <2>4, <4>1 DEF TicketInv, HasTicket
            <4>2. CASE x = new
                BY <2>2, <2>8, <4>2 DEF HasTicket
            <4> QED BY <2>1, <4>1, <4>2
        <3> QED BY <3>1, <3>2
    <2>10. issued' <= MaxIssued'
           /\ \A t \in 1..MaxIssued' : answered'[t] <= 1 /\ (t > issued' => answered'[t] = 0)
        BY <1>1, <2>1, <2>5 DEF TicketInv
    <2>11. ASSUME NEW d \in Requests, requests'[d].step \in Holding
           PROVE  requests'[d].ticket = 0 \/ Unanswered(requests[d].ticket)'
        <3>1. requests'[d].ticket = 0 \/ Unanswered(requests'[d].ticket)
            BY <2>4, <2>11 DEF TicketInv
        <3> QED BY <1>1, <2>1, <2>5, <3>1 DEF Unanswered
    <2>12. \A d \in Requests : requests'[d].step # "taking"
        BY <2>3, IdleHolds DEF TicketInv
    <2>13. \A d, e \in Requests :
               requests'[d].step \in Holding /\ requests'[d].ticket # 0
               /\ HasTicket(requests'[e], requests'[d].ticket) => d = e
        BY <2>4 DEF TicketInv, HasTicket
    <2> QED BY <2>9, <2>10, <2>11, <2>12, <2>13 DEF TicketInv
<1>4. ASSUME NEW c \in Requests, ReadKey(c) PROVE TicketInv'
    <2>1. requests[c] \in Request
        BY <1>4, RequestType DEF ReadKey, At
    <2> DEFINE r == [requests[c] EXCEPT !.step = "take", !.key = pgp]
    <2>2. r.step = "take" /\ "take" \notin Holding
        BY <2>1 DEF Request, Holding
    <2>3. /\ requests' = [requests EXCEPT ![c] = r] /\ UNCHANGED <<mix, issued, answered>>
          /\ tickets' \subseteq tickets
        BY <1>4 DEF ReadKey, Goes, bounds
    <2> HIDE DEF r
    <2> QED BY <2>2, <2>3, KeepsTicket
<1>5. ASSUME NEW c \in Requests, Take(c) PROVE TicketInv'
    <2>1. UNCHANGED <<mix, issued, answered>>
        BY <1>5 DEF Take, bounds
    <2>2. CASE requests' = [requests EXCEPT ![c] = Idle] /\ tickets' = tickets
        BY <2>1, <2>2, IdleHolds, KeepsTicket
    <2>3. ASSUME NEW t \in tickets, NEW r \in Request, Takes(c, t, r) PROVE TicketInv'
        <3>1. /\ requests' = [requests EXCEPT ![c] = r] /\ r.ticket = t.id /\ tickets' = Without(t)
              /\ r.step \in {"check", "commit", "refuse"}
            BY <2>3 DEF Takes
        <3>2. requests'[c] = r /\ \A d \in Requests \ {c} : requests'[d] = requests[d]
            BY <3>1 DEF TypeInv
        <3>3. MaxIssued' = MaxIssued
            BY <2>1 DEF MaxIssued
        <3>4. Unanswered(t.id) /\ \A d \in Requests : ~HasTicket(requests[d], t.id)
            BY DEF TicketInv
        <3>5. \A x \in tickets' : x \in tickets /\ x.id # t.id
            BY <3>1 DEF Without
        <3>6. ASSUME NEW x \in tickets'
              PROVE  Unanswered(x.id)' /\ \A d \in Requests : ~HasTicket(requests'[d], x.id)
            <4>1. Unanswered(x.id) /\ \A d \in Requests : ~HasTicket(requests[d], x.id)
                BY <3>5 DEF TicketInv
            <4>2. Unanswered(x.id)'
                BY <2>1, <3>3, <4>1 DEF Unanswered
            <4>3. \A d \in Requests : ~HasTicket(requests'[d], x.id)
                BY <3>1, <3>2, <3>5, <4>1 DEF HasTicket
            <4> QED BY <4>2, <4>3
        <3>7. ASSUME NEW d \in Requests
              PROVE  requests'[d].step # "taking"
                     /\ (requests'[d].step \in Holding =>
                            requests'[d].ticket = 0 \/ Unanswered(requests[d].ticket)')
            <4>1. requests'[d].step # "taking"
                BY <3>1, <3>2 DEF TicketInv
            <4>2. requests'[d].step \in Holding => requests'[d].ticket = 0 \/ Unanswered(requests'[d].ticket)
                BY <3>1, <3>2, <3>4 DEF TicketInv
            <4> QED BY <2>1, <3>3, <4>1, <4>2 DEF Unanswered
        <3>8. ASSUME NEW d \in Requests, NEW e \in Requests, requests'[d].step \in Holding,
                     requests'[d].ticket # 0, HasTicket(requests'[e], requests'[d].ticket)
              PROVE  d = e
            BY <3>1, <3>2, <3>4, <3>8 DEF TicketInv, HasTicket
        <3>9. issued' <= MaxIssued'
              /\ \A u \in 1..MaxIssued' : answered'[u] <= 1 /\ (u > issued' => answered'[u] = 0)
            BY <2>1, <3>3 DEF TicketInv
        <3>10. \A d, e \in Requests :
                   requests'[d].step \in Holding /\ requests'[d].ticket # 0
                   /\ HasTicket(requests'[e], requests'[d].ticket) => d = e
            BY <3>8
        <3> QED BY <3>6, <3>7, <3>9, <3>10 DEF TicketInv
    <2> QED BY <1>5, <2>2, <2>3, TakeEffect
<1>6. ASSUME NEW c \in Requests, CommitTake(c) PROVE TicketInv'
    BY <1>6 DEF CommitTake, At, TicketInv
<1>7. ASSUME NEW c \in Requests, Check(c) PROVE TicketInv'
    <2>1. requests[c] \in Request /\ requests[c].step = "check"
        BY <1>7, RequestType DEF Check, At
    <2>2. UNCHANGED <<mix, issued, answered>> /\ tickets' \subseteq tickets
        BY <1>7 DEF Check, bounds
    <2>3. CASE Goes(c, Idle)
        BY <2>2, <2>3, IdleHolds, KeepsTicket DEF Goes
    <2>4. CASE Goes(c, [requests[c] EXCEPT !.step = "mint"])
        <3> DEFINE r == [requests[c] EXCEPT !.step = "mint"]
        <3>1. r.step # "taking" /\ r.ticket = requests[c].ticket
            BY <2>1 DEF Request
        <3>2. requests' = [requests EXCEPT ![c] = r]
            BY <2>4 DEF Goes
        <3> HIDE DEF r
        <3>3. HasTicket(requests[c], r.ticket)
            BY <2>1, <3>1 DEF HasTicket, Holding
        <3> QED BY <2>2, <3>1, <3>2, <3>3, KeepsTicket
    <2>5. CASE Goes(c, [requests[c] EXCEPT !.step = "commit", !.under = epoch])
        <3> DEFINE r == [requests[c] EXCEPT !.step = "commit", !.under = epoch]
        <3>1. r.step # "taking" /\ r.ticket = requests[c].ticket
            BY <2>1 DEF Request
        <3>2. requests' = [requests EXCEPT ![c] = r]
            BY <2>5 DEF Goes
        <3> HIDE DEF r
        <3>3. HasTicket(requests[c], r.ticket)
            BY <2>1, <3>1 DEF HasTicket, Holding
        <3> QED BY <2>2, <3>1, <3>2, <3>3, KeepsTicket
    <2> QED BY <1>7, <2>3, <2>4, <2>5 DEF Check, CheckLogin, CheckLink, CheckRecovery
<1>8. ASSUME NEW c \in Requests, requests[c].step \in Holding, Answers(requests[c].ticket), mix' = mix,
             tickets' = tickets, issued' = issued \/ (issued' = issued + 1 /\ issued < MaxIssued),
             requests'[c].step \notin Holding, requests'[c].step # "taking",
             \A d \in Requests \ {c} : /\ requests'[d].step = requests[d].step
                                       /\ requests'[d].step \in Holding => requests'[d].ticket = requests[d].ticket
      PROVE  TicketInv'
    <2>1. MaxIssued' = MaxIssued
        BY <1>8 DEF MaxIssued
    <2>2. /\ \A t \in 1..MaxIssued : answered'[t] <= 1 /\ (t > issued => answered'[t] = 0)
          /\ \A t \in 1..MaxIssued : t # requests[c].ticket => answered'[t] = answered[t]
        BY <1>8, AnswersOnce
    <2>3. \A t : Unanswered(t) /\ t # requests[c].ticket =>
                     t \in 1..MaxIssued' /\ t <= issued' /\ answered'[t] = 0
        BY <1>1, <1>8, <2>1, <2>2 DEF Unanswered
    <2>4. \A d \in Requests : requests'[d].step \in Holding =>
              /\ d # c /\ requests[d].step \in Holding /\ requests'[d].ticket = requests[d].ticket
        BY <1>8
    <2>5. ASSUME NEW x \in tickets' PROVE Unanswered(x.id)' /\ \A d \in Requests : ~HasTicket(requests'[d], x.id)
        <3>1. Unanswered(x.id) /\ \A d \in Requests : ~HasTicket(requests[d], x.id)
            BY <1>8 DEF TicketInv
        <3>2. x.id # requests[c].ticket
            BY <1>8, <3>1 DEF HasTicket
        <3>3. Unanswered(x.id)'
            BY <2>3, <3>1, <3>2 DEF Unanswered
        <3>4. \A d \in Requests : ~HasTicket(requests'[d], x.id)
            BY <2>4, <3>1 DEF HasTicket
        <3> QED BY <3>3, <3>4
    <2>6. ASSUME NEW d \in Requests, requests'[d].step \in Holding, requests'[d].ticket # 0
          PROVE  Unanswered(requests[d].ticket)'
        <3>1. d # c /\ requests[d].step \in Holding /\ requests'[d].ticket = requests[d].ticket
            BY <2>4, <2>6
        <3>2. requests[d].ticket # requests[c].ticket /\ Unanswered(requests[d].ticket)
            BY <1>8, <2>6, <3>1 DEF TicketInv, HasTicket
        <3> QED BY <2>3, <3>1, <3>2 DEF Unanswered
    <2>7. \A d \in Requests : requests'[d].step # "taking"
        BY <1>8 DEF TicketInv
    <2>8. issued' <= MaxIssued'
          /\ \A t \in 1..MaxIssued' : answered'[t] <= 1 /\ (t > issued' => answered'[t] = 0)
        BY <1>1, <1>8, <2>1, <2>2 DEF TicketInv
    <2>9. \A d, e \in Requests :
              requests'[d].step \in Holding /\ requests'[d].ticket # 0
              /\ HasTicket(requests'[e], requests'[d].ticket) => d = e
        BY <2>4 DEF TicketInv, HasTicket
    <2>10. \A d \in Requests : requests'[d].step \in Holding =>
               requests'[d].ticket = 0 \/ Unanswered(requests[d].ticket)'
        BY <2>6
    <2>11. \A x \in tickets' : Unanswered(x.id)' /\ \A d \in Requests : ~HasTicket(requests'[d], x.id)
        BY <2>5
    <2> QED BY <2>7, <2>8, <2>9, <2>10, <2>11 DEF TicketInv
<1>9. ASSUME NEW c \in Requests, Commit(c) PROVE TicketInv'
    <2> DEFINE r == [requests[c] EXCEPT !.step = "revoke", !.under = epoch + 1]
    <2>1. /\ requests[c].step \in Holding /\ r.step = "revoke" /\ "revoke" \notin Holding
        BY <1>9, CommitAt DEF Request, Holding
    <2>2. /\ requests' = Overlapped(c, r) /\ Answers(requests[c].ticket)
          /\ mix' = mix /\ tickets' = tickets /\ issued' = issued
        BY <1>9 DEF Commit, bounds
    <2> HIDE DEF r
    <2>3. \A d \in Requests \ {c} : requests'[d].step = requests[d].step
              /\ (requests'[d].step \in Holding => requests'[d].ticket = requests[d].ticket)
        BY <2>2, OverlappedTickets
    <2>4. requests'[c] = r
        BY <2>2, OverlappedEffect
    <2> QED BY <1>8, <2>1, <2>2, <2>3, <2>4
<1>10. ASSUME NEW c \in Requests, Mint(c) PROVE TicketInv'
    <2>1. /\ requests[c].step \in Holding /\ Answers(requests[c].ticket) /\ mix' = mix /\ tickets' = tickets
          /\ issued' = issued + 1 /\ issued < MaxIssued /\ requests' = [requests EXCEPT ![c] = Idle]
        BY <1>10 DEF Mint, At, Holding, Goes, bounds
    <2>2. requests'[c] = Idle /\ \A d \in Requests \ {c} : requests'[d] = requests[d]
        BY <2>1 DEF TypeInv
    <2> QED BY <1>8, <2>1, <2>2, IdleHolds
<1>11. ASSUME NEW c \in Requests, Revoke(c) PROVE TicketInv'
    <2>1. requests[c] \in Request /\ tickets' = {} /\ UNCHANGED <<mix, issued, answered>>
        BY <1>11, RequestType DEF Revoke, At, LeftOver, bounds
    <2>2. MaxIssued' = MaxIssued
        BY <2>1 DEF MaxIssued
    <2>3. PICK r : requests' = Overlapped(c, r) /\ (r = Idle \/ (r.step = "mint" /\ r.ticket = 0))
        <3> DEFINE mine == [requests[c] EXCEPT !.step = "mint", !.ticket = 0]
        <3>1. mine.step = "mint" /\ mine.ticket = 0
            BY <2>1 DEF Request
        <3>2. requests' = Overlapped(c, mine) \/ requests' = Overlapped(c, Idle)
            BY <1>11 DEF Revoke, RevokeAllCredentials, RevokeOtherCredentials
        <3> HIDE DEF mine
        <3> QED BY <3>1, <3>2
    <2>4. \A d \in Requests \ {c} : requests'[d].step = requests[d].step
              /\ (requests'[d].step \in Holding => requests'[d].ticket = requests[d].ticket)
        BY <2>3, OverlappedTickets
    <2>5. requests'[c].step # "taking" /\ (requests'[c].step \in Holding => requests'[c].ticket = 0)
        BY <2>3, OverlappedEffect, IdleHolds
    <2>6. \A d \in Requests : requests'[d].step \in Holding /\ requests'[d].ticket # 0 =>
              d # c /\ requests[d].step \in Holding /\ requests'[d].ticket = requests[d].ticket
        BY <2>4, <2>5
    <2>7. ASSUME NEW d \in Requests, requests'[d].step \in Holding
          PROVE  requests'[d].ticket = 0 \/ Unanswered(requests[d].ticket)'
        <3>1. requests'[d].ticket = 0 \/ Unanswered(requests'[d].ticket)
            BY <2>6, <2>7 DEF TicketInv
        <3> QED BY <2>1, <2>2, <3>1 DEF Unanswered
    <2>8. \A d \in Requests : requests'[d].step # "taking"
        BY <2>4, <2>5 DEF TicketInv
    <2>9. \A d, e \in Requests :
              requests'[d].step \in Holding /\ requests'[d].ticket # 0
              /\ HasTicket(requests'[e], requests'[d].ticket) => d = e
        BY <2>6 DEF TicketInv, HasTicket
    <2>10. issued' <= MaxIssued'
           /\ \A t \in 1..MaxIssued' : answered'[t] <= 1 /\ (t > issued' => answered'[t] = 0)
        BY <2>1, <2>2 DEF TicketInv
    <2> QED BY <2>1, <2>7, <2>8, <2>9, <2>10 DEF TicketInv
<1>12. ASSUME \A d \in Requests : requests'[d] = requests[d] \/ requests'[d] = Idle,
              UNCHANGED <<mix, issued, answered>>, tickets' \subseteq tickets
       PROVE  TicketInv'
    <2>1. MaxIssued' = MaxIssued
        BY <1>12 DEF MaxIssued
    <2>2. \A d \in Requests : requests'[d].step \in Holding => requests'[d] = requests[d]
        BY <1>12, IdleHolds
    <2>3. \A d \in Requests : requests'[d].step # "taking"
        BY <1>12, IdleHolds DEF TicketInv
    <2>4. \A d \in Requests : requests'[d].step \in Holding =>
              requests'[d].ticket = 0 \/ Unanswered(requests[d].ticket)'
        BY <1>12, <2>1, <2>2 DEF TicketInv, Unanswered
    <2>5. \A x \in tickets' : Unanswered(x.id)' /\ \A d \in Requests : ~HasTicket(requests'[d], x.id)
        BY <1>12, <2>1, <2>2 DEF TicketInv, Unanswered, HasTicket
    <2>6. \A d, e \in Requests :
              requests'[d].step \in Holding /\ requests'[d].ticket # 0
              /\ HasTicket(requests'[e], requests'[d].ticket) => d = e
        BY <2>2 DEF TicketInv, HasTicket
    <2>7. issued' <= MaxIssued'
          /\ \A t \in 1..MaxIssued' : answered'[t] <= 1 /\ (t > issued' => answered'[t] = 0)
        BY <1>12, <2>1 DEF TicketInv
    <2> QED BY <2>3, <2>4, <2>5, <2>6, <2>7 DEF TicketInv
<1>13. CASE EndSessions
    BY <1>12, <1>13 DEF EndSessions
<1>14. CASE Expire
    BY <1>12, <1>14 DEF Expire, Without, bounds
<1>15. CASE Stop
    BY <1>12, <1>15 DEF Stop
<1>16. CASE UNCHANGED vars
    BY <1>12, <1>16 DEF vars
<1> QED BY <1>2, <1>3, <1>4, <1>5, <1>6, <1>7, <1>9, <1>10, <1>11, <1>13, <1>14, <1>15, <1>16 DEF Next

LEMMA InitTicket == Init => TicketInv
<1> SUFFICES ASSUME Init PROVE TicketInv
    OBVIOUS
<1>1. \A c \in Requests : requests[c].step = "idle"
    BY DEF Init, Idle
<1>2. MaxIssued \in Nat
    BY MixesAssumption DEF Init, MaxIssued
<1> QED BY <1>1, <1>2 DEF Init, TicketInv, Holding, HasTicket

\* A challenge or link code is good for one session or one change, however many
\* requests bring it at once, on SQLite; on PostgreSQL two that take it at once both
\* succeed.  (auth_flow.ts: consumeChallenge; recovery.ts: link/claim)
THEOREM GoodOnce == Spec => []AnsweredOnce
<1> DEFINE Inv == TypeInv /\ (mix.database = "sqlite" => TicketInv)
<1>1. Init => Inv
    BY InitType, InitTicket
<1>2. Inv /\ [Next]_vars => Inv'
    <2> SUFFICES ASSUME Inv, [Next]_vars PROVE Inv'
        OBVIOUS
    <2>1. mix' = mix
        BY DEF Next, Begin, Issue, ReadKey, Take, CommitTake, Check, Commit, Revoke, Mint, EndSessions, Expire,
               Stop, vars, bounds
    <2> QED BY <2>1, StepType, StepTicket
<1>3. Inv => AnsweredOnce
    BY DEF AnsweredOnce, TicketInv
<1> QED BY <1>1, <1>2, <1>3, PTL DEF Spec

-----------------------------------------------------------------------------
(* Members: types, and what holds of the rows *)

UserRow == [id : Nat, name : Names, admin : BOOLEAN, available : Nat, held : Nat]
OrderRow == [id : Nat, buyer : Nat, seller : Nat, status : {"placed", "disputed", "completed", "cancelled"}]
EventRow == [order : Nat, actor : Nat]
ReviewRow == [order : Nat, seller : Nat, author : Nat, visible : BOOLEAN]
Asked ==
    [op : {"none"}] \cup [op : {"register"}, name : Names] \cup [op : {"order"}, buyer : Nat, seller : Nat]
        \cup [op : {"delete"}, id : Nat, met : BOOLEAN, checked : BOOLEAN]
        \cup [op : {"review"}, order : OrderRow]

\* Accounts are numbered as they register, one to a name; the first is the
\* founder, and the claim tells whether there was one.
UsersOk ==
    /\ born \in Nat /\ claimed \in BOOLEAN /\ users \subseteq UserRow
    /\ claimed <=> born > 0
    /\ \A u \in users : 1 <= u.id /\ u.id <= born /\ (u.admin <=> u.id = 1)
    /\ \A u, v \in users : u.id = v.id \/ u.name = v.name => u = v

\* Orders are numbered as they are placed, between accounts that registered.
OrdersOk ==
    /\ placed \in Nat /\ orders \subseteq OrderRow /\ IsFiniteSet(orders)
    /\ \A o \in orders : o.id <= placed /\ o.buyer <= born /\ o.seller <= born
    /\ \A o, p \in orders : o.id = p.id => o = p

\* Who argued about an order is its buyer.
EventsOk ==
    /\ events \subseteq EventRow
    /\ \A e \in events : e.order <= placed
    /\ \A e \in events, o \in orders : e.order = o.id => e.actor = o.buyer

\* One review of an order, by its buyer, once it was completed.
ReviewsOk ==
    /\ reviews \subseteq ReviewRow
    /\ \A q, r \in reviews : q.order = r.order => q = r
    /\ \A r \in reviews : \E o \in orders : o.id = r.order /\ o.status = "completed" /\ o.buyer = r.author

AskedOk ==
    /\ pending \in [Slots -> Asked]
    /\ \A s \in Slots : Is(s, "review") => pending[s].order.status = "completed"

\* A deletion that nothing met is of an account without money, and once the
\* orders were checked, of one without open orders.
Emptied ==
    \A s \in Slots : Is(s, "delete") /\ ~pending[s].met =>
        /\ \A u \in users : u.id = pending[s].id => u.available = 0 /\ u.held = 0
        /\ pending[s].checked => Unfinished(pending[s].id) = {}

\* The open orders somebody pays for, and what is held for them at least.
Bought(id, rows) == {o \in rows : o.buyer = id /\ o.status \in Open}
HeldCovers == \A u \in users : u.held >= Cardinality(Bought(u.id, orders))

MembersInv == UsersOk /\ OrdersOk /\ EventsOk /\ ReviewsOk /\ AskedOk /\ Emptied /\ HeldCovers

-----------------------------------------------------------------------------
(* Members: counting orders *)

LEMMA BoughtFinite ==
    ASSUME NEW rows \in SUBSET OrderRow, IsFiniteSet(rows), NEW id \in Nat
    PROVE  IsFiniteSet(Bought(id, rows)) /\ Cardinality(Bought(id, rows)) \in Nat
<1>1. Bought(id, rows) \subseteq rows
    BY DEF Bought
<1>2. IsFiniteSet(Bought(id, rows))
    BY <1>1, FS_Subset
<1> QED BY <1>2, FS_CardinalityType

LEMMA BoughtLess ==
    ASSUME NEW rows \in SUBSET OrderRow, IsFiniteSet(rows), NEW id \in Nat, NEW part \in SUBSET rows
    PROVE  Cardinality(Bought(id, part)) <= Cardinality(Bought(id, rows))
<1>1. Bought(id, part) \subseteq Bought(id, rows)
    BY DEF Bought
<1> QED BY <1>1, BoughtFinite, FS_Subset

LEMMA BoughtPlaced ==
    ASSUME NEW rows \in SUBSET OrderRow, IsFiniteSet(rows), NEW id \in Nat, NEW o \in OrderRow,
           o \notin rows, o.status \in Open
    PROVE  Cardinality(Bought(id, rows \cup {o})) =
               Cardinality(Bought(id, rows)) + (IF o.buyer = id THEN 1 ELSE 0)
<1>1. CASE o.buyer = id
    <2>1. Bought(id, rows \cup {o}) = Bought(id, rows) \cup {o} /\ o \notin Bought(id, rows)
        BY <1>1 DEF Bought
    <2>2. Cardinality(Bought(id, rows) \cup {o}) = Cardinality(Bought(id, rows)) + 1
        BY <2>1, BoughtFinite, FS_AddElement
    <2> QED BY <1>1, <2>1, <2>2
<1>2. CASE o.buyer # id
    <2>1. Bought(id, rows \cup {o}) = Bought(id, rows)
        BY <1>2 DEF Bought
    <2> QED BY <1>2, <2>1, BoughtFinite
<1> QED BY <1>1, <1>2

LEMMA BoughtEnded ==
    ASSUME NEW rows \in SUBSET OrderRow, IsFiniteSet(rows), NEW id \in Nat, NEW o \in rows,
           o.status \in Open, NEW p \in OrderRow, p.status \notin Open
    PROVE  Cardinality(Bought(id, rows)) =
               Cardinality(Bought(id, (rows \ {o}) \cup {p})) + (IF o.buyer = id THEN 1 ELSE 0)
<1> DEFINE now == (rows \ {o}) \cup {p}
<1>1. CASE o.buyer = id
    <2>1. Bought(id, now) = Bought(id, rows) \ {o} /\ o \in Bought(id, rows)
        BY <1>1 DEF Bought
    <2>2. Cardinality(Bought(id, rows) \ {o}) = Cardinality(Bought(id, rows)) - 1
        BY <2>1, BoughtFinite, FS_RemoveElement
    <2>3. Cardinality(Bought(id, rows)) \in Nat
        BY BoughtFinite
    <2>4. Cardinality(Bought(id, now)) = Cardinality(Bought(id, rows)) - 1
        BY <2>1, <2>2
    <2> QED BY <1>1, <2>3, <2>4
<1>2. CASE o.buyer # id
    <2>1. Bought(id, now) = Bought(id, rows)
        BY <1>2 DEF Bought
    <2> QED BY <1>2, <2>1, BoughtFinite
<1> QED BY <1>1, <1>2

LEMMA BoughtArgued ==
    ASSUME NEW rows \in SUBSET OrderRow, IsFiniteSet(rows), NEW id \in Nat, NEW o \in rows,
           o.status \in Open, NEW p \in OrderRow, p \notin rows, p.status \in Open, p.buyer = o.buyer
    PROVE  Cardinality(Bought(id, (rows \ {o}) \cup {p})) = Cardinality(Bought(id, rows))
<1> DEFINE less == rows \ {o}
<1>1. less \in SUBSET OrderRow /\ IsFiniteSet(less) /\ p \notin less /\ o \notin less
    BY FS_Subset
<1>2. Cardinality(Bought(id, less \cup {p})) = Cardinality(Bought(id, less)) + (IF p.buyer = id THEN 1 ELSE 0)
    BY <1>1, BoughtPlaced
<1>3. Cardinality(Bought(id, less \cup {o})) = Cardinality(Bought(id, less)) + (IF o.buyer = id THEN 1 ELSE 0)
    BY <1>1, BoughtPlaced
<1>4. less \cup {o} = rows
    OBVIOUS
<1> QED BY <1>2, <1>3, <1>4

-----------------------------------------------------------------------------
(* Members: the rows of users *)

\* What a step makes of each row keeps the number, the name and the role.
SameUser(u, v) == v.id = u.id /\ v.name = u.name /\ v.admin = u.admin

LEMMA RowsMapped ==
    ASSUME UsersOk, NEW f \in [users -> UserRow], \A u \in users : SameUser(u, f[u]),
           users' = {f[u] : u \in users}, born' = born, claimed' = claimed
    PROVE  UsersOk'
<1>1. users' \subseteq UserRow
    OBVIOUS
<1>2. \A v \in users' : \E u \in users : v = f[u] /\ SameUser(u, v)
    OBVIOUS
<1>3. \A v \in users' : 1 <= v.id /\ v.id <= born /\ (v.admin <=> v.id = 1)
    <2> TAKE v \in users'
    <2>1. PICK u \in users : SameUser(u, v)
        BY <1>2
    <2> QED BY <2>1 DEF SameUser, UsersOk
<1>4. \A v, w \in users' : v.id = w.id \/ v.name = w.name => v = w
    <2> TAKE v, w \in users'
    <2>1. PICK t \in users : v = f[t] /\ SameUser(t, v)
        BY <1>2
    <2>2. PICK u \in users : w = f[u] /\ SameUser(u, w)
        BY <1>2
    <2>3. v.id = w.id \/ v.name = w.name => t = u
        BY <2>1, <2>2 DEF SameUser, UsersOk
    <2> QED BY <2>1, <2>2, <2>3
<1> QED BY <1>1, <1>3, <1>4 DEF UsersOk

\* The three steps that change what accounts have.
Paid(u, id, change) == IF u.id = id THEN [u EXCEPT !.available = @ + change] ELSE u
HeldOne(u, id) == IF u.id = id THEN [u EXCEPT !.available = @ - 1, !.held = @ + 1] ELSE u
Freed(u, buyer, to) ==
    [u EXCEPT !.held = IF u.id = buyer THEN @ - 1 ELSE @,
              !.available = IF u.id = to THEN @ + 1 ELSE @]

LEMMA HeldOneRow ==
    ASSUME NEW u \in UserRow, NEW id \in Nat, u.id = id => u.available > 0
    PROVE  /\ HeldOne(u, id) \in UserRow /\ SameUser(u, HeldOne(u, id))
           /\ HeldOne(u, id).available = (IF u.id = id THEN u.available - 1 ELSE u.available)
           /\ HeldOne(u, id).held = (IF u.id = id THEN u.held + 1 ELSE u.held)
<1> DEFINE a == u.available - 1
           h == u.held + 1
           v == [u EXCEPT !.available = a, !.held = h]
<1>1. u.available \in Nat /\ u.held \in Nat
    BY DEF UserRow
<1>2. h \in Nat /\ (u.available > 0 => a \in Nat)
    BY <1>1
<1>3. HeldOne(u, id) = IF u.id = id THEN v ELSE u
    BY DEF HeldOne, UserRow
<1> HIDE DEF h, a
<1>4. a \in Nat => v \in UserRow
    BY <1>2 DEF UserRow
<1>5. SameUser(u, v) /\ v.available = a /\ v.held = h
    BY DEF UserRow, SameUser
<1> HIDE DEF v
<1> QED BY <1>2, <1>3, <1>4, <1>5 DEF h, a, SameUser

LEMMA FreedRow ==
    ASSUME NEW u \in UserRow, NEW buyer \in Nat, NEW to \in Nat, u.id = buyer => u.held > 0
    PROVE  /\ Freed(u, buyer, to) \in UserRow /\ SameUser(u, Freed(u, buyer, to))
           /\ Freed(u, buyer, to).available = (IF u.id = to THEN u.available + 1 ELSE u.available)
           /\ Freed(u, buyer, to).held = (IF u.id = buyer THEN u.held - 1 ELSE u.held)
<1> DEFINE h == IF u.id = buyer THEN u.held - 1 ELSE u.held
           a == IF u.id = to THEN u.available + 1 ELSE u.available
<1>1. u.available \in Nat /\ u.held \in Nat
    BY DEF UserRow
<1>2. h \in Nat /\ a \in Nat
    BY <1>1
<1>3. Freed(u, buyer, to) = [u EXCEPT !.held = h, !.available = a]
    BY DEF Freed, UserRow
<1> HIDE DEF h, a
<1>4. [u EXCEPT !.held = h, !.available = a] \in UserRow
    BY <1>2 DEF UserRow
<1>5. SameUser(u, [u EXCEPT !.held = h, !.available = a])
    BY DEF UserRow, SameUser
<1>6. /\ [u EXCEPT !.held = h, !.available = a].available = a
      /\ [u EXCEPT !.held = h, !.available = a].held = h
    BY DEF UserRow
<1> QED BY <1>3, <1>4, <1>5, <1>6 DEF h, a

\* What moves when money moves: one row, and what it has.
LEMMA MoneyRows ==
    ASSUME UsersOk, NEW m \in users, MoveMoney(m)
    PROVE  /\ UsersOk'
           /\ \A v \in users' : \E u \in users :
                  /\ SameUser(u, v) /\ v.held = u.held
                  /\ u.id # m.id \/ m.available > 0 => v.available <= u.available
           /\ \A u \in users : \E v \in users' : SameUser(u, v) /\ v.held = u.held
<1> DEFINE amount == IF m.available = 0 THEN 1 ELSE 0
           f == [u \in users |-> IF u.id = m.id THEN [u EXCEPT !.available = amount] ELSE u]
<1>1. \A u \in users : u \in UserRow /\ (u.id = m.id => u = m)
    BY DEF UsersOk
<1>2. users' = {f[u] : u \in users}
    <2>1. m.available \in Nat
        BY <1>1 DEF UserRow
    <2>2. CASE m.available = 0
        <3>1. users' = Pay(m.id, 1)
            BY <2>2 DEF MoveMoney
        <3> QED BY <1>1, <2>2, <3>1 DEF Pay, UserRow
    <2>3. CASE m.available > 0
        <3>1. users' = Pay(m.id, 0 - m.available)
            BY <2>3 DEF MoveMoney
        <3>2. m.available + (0 - m.available) = 0
            BY <2>1
        <3> QED BY <1>1, <2>1, <2>3, <3>1, <3>2 DEF Pay, UserRow
    <2> QED BY <2>1, <2>2, <2>3
<1>3. \A u \in users : /\ f[u] \in UserRow /\ SameUser(u, f[u]) /\ f[u].held = u.held
                       /\ u.id # m.id \/ m.available > 0 => f[u].available <= u.available
    BY <1>1 DEF UserRow, SameUser
<1> HIDE DEF f
<1>4. f \in [users -> UserRow]
    BY <1>3 DEF f
<1>5. UsersOk'
    BY <1>2, <1>3, <1>4, RowsMapped DEF MoveMoney
<1> QED BY <1>2, <1>3, <1>5

LEMMA OrderRows ==
    ASSUME UsersOk, NEW s \in Slots, PlaceOrder(s), placed' = placed + 1, placed \in Nat,
           pending[s].buyer \in Nat
    PROVE  /\ UsersOk'
           /\ \E b \in users : b.id = pending[s].buyer /\ b.available > 0
           /\ Here(pending[s].seller)
           /\ orders' = orders \cup {[id |-> placed + 1, buyer |-> pending[s].buyer,
                                      seller |-> pending[s].seller, status |-> "placed"]}
           /\ \A v \in users' : \E u \in users :
                  /\ SameUser(u, v) /\ v.available <= u.available
                  /\ v.held = (IF u.id = pending[s].buyer THEN u.held + 1 ELSE u.held)
           /\ \A u \in users : \E v \in users' :
                  /\ SameUser(u, v)
                  /\ v.held = (IF u.id = pending[s].buyer THEN u.held + 1 ELSE u.held)
<1> DEFINE buyer == pending[s].buyer
           f == [u \in users |-> HeldOne(u, buyer)]
<1>1. /\ Here(pending[s].seller) /\ \E b \in users : b.id = buyer /\ b.available > 0
      /\ users' = {u \in users : u.id # buyer}
                      \cup {[u EXCEPT !.available = @ - 1, !.held = @ + 1] : u \in {v \in users : v.id = buyer}}
      /\ orders' = orders \cup {[id |-> placed + 1, buyer |-> buyer, seller |-> pending[s].seller,
                                 status |-> "placed"]}
    <2> DEFINE goes == Here(pending[s].seller) /\ \E u \in users : u.id = buyer /\ u.available > 0
    <2>1. goes
        <3>1. ~goes => placed' = placed
            BY DEF PlaceOrder
        <3> QED BY <3>1
    <2> QED BY <2>1 DEF PlaceOrder
<1>2. \A u \in users : u \in UserRow /\ (u.id = buyer => u.available > 0)
    BY <1>1 DEF UsersOk
<1>3. users' = {f[u] : u \in users}
    BY <1>1 DEF HeldOne
<1>4. \A u \in users : /\ f[u] \in UserRow /\ SameUser(u, f[u]) /\ f[u].available <= u.available
                       /\ f[u].held = (IF u.id = buyer THEN u.held + 1 ELSE u.held)
    <2> TAKE u \in users
    <2>1. f[u] = HeldOne(u, buyer)
        OBVIOUS
    <2>2. u.available \in Nat
        BY <1>2 DEF UserRow
    <2> QED BY <1>2, <2>1, <2>2, HeldOneRow
<1> HIDE DEF f
<1>5. f \in [users -> UserRow]
    BY <1>4 DEF f
<1>6. UsersOk'
    BY <1>3, <1>4, <1>5, RowsMapped DEF PlaceOrder
<1> QED BY <1>1, <1>3, <1>4, <1>6

LEMMA EndRows ==
    ASSUME UsersOk, NEW o \in orders, NEW status \in {"completed", "cancelled"}, EndOrder(o, status),
           o \in OrderRow, \A u \in users : u.id = o.buyer => u.held > 0
    PROVE  LET to == IF status = "completed" THEN o.seller ELSE o.buyer
           IN  /\ UsersOk'
               /\ \A v \in users' : \E u \in users :
                      /\ SameUser(u, v)
                      /\ v.available = (IF u.id = to THEN u.available + 1 ELSE u.available)
                      /\ v.held = (IF u.id = o.buyer THEN u.held - 1 ELSE u.held)
               /\ \A u \in users : \E v \in users' :
                      /\ SameUser(u, v)
                      /\ v.held = (IF u.id = o.buyer THEN u.held - 1 ELSE u.held)
<1> DEFINE to == IF status = "completed" THEN o.seller ELSE o.buyer
           f == [u \in users |-> Freed(u, o.buyer, to)]
<1>1. o.buyer \in Nat /\ to \in Nat
    BY DEF OrderRow
<1>2. users' = {f[u] : u \in users}
    BY DEF EndOrder, Freed
<1>3. \A u \in users : /\ f[u] \in UserRow /\ SameUser(u, f[u])
                       /\ f[u].available = (IF u.id = to THEN u.available + 1 ELSE u.available)
                       /\ f[u].held = (IF u.id = o.buyer THEN u.held - 1 ELSE u.held)
    <2> TAKE u \in users
    <2>1. f[u] = Freed(u, o.buyer, to)
        OBVIOUS
    <2>2. u \in UserRow
        BY DEF UsersOk
    <2> HIDE DEF to
    <2> QED BY <1>1, <2>1, <2>2, FreedRow
<1> HIDE DEF f
<1>4. f \in [users -> UserRow]
    BY <1>3 DEF f
<1>5. UsersOk'
    BY <1>2, <1>3, <1>4, RowsMapped DEF EndOrder
<1> QED BY <1>2, <1>3, <1>5

-----------------------------------------------------------------------------
(* Members: requests *)

LEMMA AskedKinds ==
    ASSUME AskedOk, NEW s \in Slots
    PROVE  /\ pending[s] \in Asked
           /\ Is(s, "register") => pending[s].name \in Names
           /\ Is(s, "order") => pending[s].buyer \in Nat /\ pending[s].seller \in Nat
           /\ Is(s, "delete") => pending[s] \in [op : {"delete"}, id : Nat, met : BOOLEAN, checked : BOOLEAN]
           /\ Is(s, "review") => pending[s].order \in OrderRow /\ pending[s].order.status = "completed"
<1>1. pending[s] \in Asked
    BY DEF AskedOk
<1> QED BY <1>1 DEF AskedOk, Asked, Is

\* A deletion that is met stays one, of the same account.
LEMMA MetRow ==
    ASSUME AskedOk, NEW s \in Slots, NEW touched
    PROVE  /\ Met(s, touched) \in Asked
           /\ Met(s, touched).op = pending[s].op
           /\ Is(s, "delete") => /\ Met(s, touched).id = pending[s].id
                                 /\ Met(s, touched).checked = pending[s].checked
                                 /\ ~Met(s, touched).met => ~pending[s].met /\ pending[s].id \notin touched
           /\ ~Is(s, "delete") => Met(s, touched) = pending[s]
<1>1. CASE Is(s, "delete") /\ pending[s].id \in touched
    <2>1. pending[s] \in [op : {"delete"}, id : Nat, met : BOOLEAN, checked : BOOLEAN]
        BY <1>1, AskedKinds
    <2>2. Met(s, touched) = [pending[s] EXCEPT !.met = TRUE]
        BY <1>1 DEF Met
    <2>3. Met(s, touched) \in [op : {"delete"}, id : Nat, met : BOOLEAN, checked : BOOLEAN]
        BY <2>1, <2>2
    <2>4. Met(s, touched).met = TRUE /\ Met(s, touched).op = pending[s].op
              /\ Met(s, touched).id = pending[s].id /\ Met(s, touched).checked = pending[s].checked
        BY <2>1, <2>2
    <2> QED BY <1>1, <2>3, <2>4 DEF Asked
<1>2. CASE ~(Is(s, "delete") /\ pending[s].id \in touched)
    <2>1. Met(s, touched) = pending[s]
        BY <1>2 DEF Met
    <2> QED BY <1>2, <2>1, AskedKinds
<1> QED BY <1>1, <1>2

\* A deletion after the step was one before it, of the same account, no further on.
Follows(s, r) ==
    /\ r.op = "delete" => /\ Is(s, "delete") /\ r.id = pending[s].id
                          /\ r.checked => pending[s].checked
                          /\ ~r.met => ~pending[s].met
    /\ r.op = "review" => r = pending[s]

LEMMA FollowsSelf ==
    ASSUME NEW s \in Slots
    PROVE  Follows(s, pending[s]) /\ Follows(s, NotAsked)
BY DEF Follows, NotAsked, Is

LEMMA MeetsFollows ==
    ASSUME AskedOk, NEW touched, Meets(touched)
    PROVE  /\ AskedOk'
           /\ \A s \in Slots :
                  /\ Follows(s, pending'[s])
                  /\ pending'[s].op = "delete" /\ ~pending'[s].met => pending[s].id \notin touched
                  /\ Is(s, "delete") => pending'[s] # NotAsked
<1>1. \A s \in Slots : pending'[s] = Met(s, touched)
    BY DEF Meets
<1>2. pending' \in [Slots -> Asked]
    BY MetRow DEF Meets
<1>3. \A s \in Slots : pending'[s].op = "review" => pending'[s] = pending[s] /\ Is(s, "review")
    BY <1>1, MetRow DEF Is
<1>4. AskedOk'
    BY <1>2, <1>3 DEF AskedOk, Is
<1>5. \A s \in Slots : /\ Follows(s, pending'[s])
                       /\ pending'[s].op = "delete" /\ ~pending'[s].met => pending[s].id \notin touched
    <2> TAKE s \in Slots
    <2>1. pending'[s].op = "delete" => Is(s, "delete")
        BY <1>1, MetRow DEF Is
    <2> QED BY <1>1, <1>3, <2>1, MetRow DEF Follows
<1>6. \A s \in Slots : Is(s, "delete") => pending'[s] # NotAsked
    <2> TAKE s \in Slots
    <2>1. pending'[s].op = pending[s].op
        BY <1>1, MetRow
    <2> QED BY <2>1 DEF Is, NotAsked
<1> QED BY <1>4, <1>5, <1>6

LEMMA EndsFollows ==
    ASSUME AskedOk, NEW s \in Slots, Ends(s)
    PROVE  /\ AskedOk' /\ pending'[s] = NotAsked
           /\ \A t \in Slots : Follows(t, pending'[t])
<1>1. \A t \in Slots : pending'[t] = IF t = s THEN NotAsked ELSE pending[t]
    BY DEF AskedOk, Ends
<1>2. pending' \in [Slots -> Asked]
    BY DEF AskedOk, Ends, NotAsked, Asked
<1>3. AskedOk'
    BY <1>1, <1>2 DEF AskedOk, Is, NotAsked
<1> QED BY <1>1, <1>3, FollowsSelf DEF AskedOk

LEMMA SameFollows ==
    ASSUME AskedOk, pending' = pending
    PROVE  AskedOk' /\ \A t \in Slots : Follows(t, pending'[t])
BY FollowsSelf DEF AskedOk, Is

-----------------------------------------------------------------------------
(* Members: what a step keeps *)

\* A dispute counts while its buyer is there.
DisputesStay ==
    \A u \in users' : \A o \in orders : o.id \in Disputed(u.id) /\ Here(o.buyer)' => o.id \in Disputed(u.id)'

\* What an account holds and what its open orders come to move together.
Tally(u, v) ==
    /\ SameUser(u, v)
    /\ v.held + Cardinality(Bought(u.id, orders)) = u.held + Cardinality(Bought(u.id, orders'))

LEMMA Tallied ==
    ASSUME UsersOk, UsersOk', OrdersOk, OrdersOk', \A v \in users' : \E u \in users : Tally(u, v)
    PROVE  /\ HeldCovers => HeldCovers'
           /\ \A u \in users : Backed(u.id) => Backed(u.id)'
<1>1. \A u \in users : u \in UserRow /\ u.id \in Nat /\ u.held \in Nat
    BY DEF UsersOk, UserRow
<1>2. \A v \in users' : v \in UserRow /\ v.id \in Nat /\ v.held \in Nat
    BY DEF UsersOk, UserRow
<1>3. \A id \in Nat : Cardinality(Bought(id, orders)) \in Nat /\ Cardinality(Bought(id, orders')) \in Nat
    BY BoughtFinite DEF OrdersOk
<1>4. ASSUME HeldCovers, NEW v \in users' PROVE v.held >= Cardinality(Bought(v.id, orders'))
    <2>1. PICK u \in users : Tally(u, v)
        OBVIOUS
    <2>2. v.id = u.id /\ u.held >= Cardinality(Bought(u.id, orders))
        BY <1>4, <2>1 DEF HeldCovers, Tally, SameUser
    <2> QED BY <1>1, <1>2, <1>3, <2>1, <2>2 DEF Tally
<1>5. ASSUME NEW id \in Nat, Backed(id), NEW v \in users', v.id = id
      PROVE  v.held = Cardinality(Bought(id, orders'))
    <2>1. PICK u \in users : Tally(u, v)
        OBVIOUS
    <2>2. u.id = id /\ u.held = Cardinality(Bought(id, orders))
        BY <1>5, <2>1 DEF Backed, Bought, Tally, SameUser
    <2> QED BY <1>1, <1>2, <1>3, <1>5, <2>1, <2>2 DEF Tally
<1>6. \A id \in Nat : Backed(id) => Backed(id)'
    BY <1>5 DEF Backed, Bought
<1> QED BY <1>1, <1>4, <1>6 DEF HeldCovers

\* The parts that speak of orders, where no order moved.
LEMMA SameOrders ==
    ASSUME OrdersOk, EventsOk, ReviewsOk, UNCHANGED <<orders, events, reviews, placed>>,
           born' \in Nat, born \in Nat, born <= born'
    PROVE  OrdersOk' /\ EventsOk' /\ ReviewsOk' /\ DisputesStay
<1>1. \A o \in orders : o.buyer <= born' /\ o.seller <= born'
    <2> TAKE o \in orders
    <2>1. o.buyer \in Nat /\ o.seller \in Nat /\ o.buyer <= born /\ o.seller <= born
        BY DEF OrdersOk, OrderRow
    <2> QED BY <2>1
<1>2. OrdersOk'
    BY <1>1 DEF OrdersOk
<1>3. EventsOk' /\ ReviewsOk'
    BY DEF EventsOk, ReviewsOk
<1>4. DisputesStay
    BY DEF DisputesStay, Disputed
<1> QED BY <1>2, <1>3, <1>4

OpenFor(id, rows) == {o \in rows : id \in {o.buyer, o.seller} /\ o.status \in Open}

LEMMA EmptiedNow ==
    /\ Emptied => \A t \in Slots : Is(t, "delete") /\ ~pending[t].met =>
           /\ \A u \in users : u.id = pending[t].id => u.available = 0 /\ u.held = 0
           /\ pending[t].checked => OpenFor(pending[t].id, orders) = {}
    /\ (\A t \in Slots : pending'[t].op = "delete" /\ ~pending'[t].met =>
           /\ \A v \in users' : v.id = pending'[t].id => v.available = 0 /\ v.held = 0
           /\ pending'[t].checked => OpenFor(pending'[t].id, orders') = {}) => Emptied'
<1>1. \A id : Unfinished(id) = OpenFor(id, orders)
    BY DEF Unfinished, OrdersOf, OpenFor
<1>2. \A t \in Slots : Unfinished(pending[t].id)' = OpenFor(pending'[t].id, orders')
    BY DEF Unfinished, OrdersOf, OpenFor
<1> QED BY <1>1, <1>2 DEF Emptied, Is

\* Deletions stay good where orders and money stay.
LEMMA SameEmptied ==
    ASSUME Emptied, AskedOk', \A t \in Slots : Follows(t, pending'[t]),
           \A u \in users' : u \in users \/ (u.available = 0 /\ u.held = 0), orders' \subseteq orders
    PROVE  Emptied'
<1> SUFFICES ASSUME NEW t \in Slots, pending'[t].op = "delete", ~pending'[t].met
             PROVE  /\ \A u \in users' : u.id = pending'[t].id => u.available = 0 /\ u.held = 0
                    /\ pending'[t].checked => OpenFor(pending'[t].id, orders') = {}
    BY EmptiedNow
<1>1. Is(t, "delete") /\ ~pending[t].met /\ pending'[t].id = pending[t].id
          /\ (pending'[t].checked => pending[t].checked)
    BY DEF Follows
<1>2. /\ \A u \in users : u.id = pending[t].id => u.available = 0 /\ u.held = 0
      /\ pending[t].checked => OpenFor(pending[t].id, orders) = {}
    BY <1>1, EmptiedNow
<1> QED BY <1>1, <1>2 DEF OpenFor

Stays == NothingDestroyed /\ DisputesStay

LEMMA RegisterStep ==
    ASSUME MembersInv, NEW s \in Slots, CommitRegister(s)
    PROVE  MembersInv' /\ Stays
<1> DEFINE name == pending[s].name
           new == User(born + 1, name, ~claimed, 0)
<1>1. AskedOk' /\ \A t \in Slots : Follows(t, pending'[t])
    BY EndsFollows DEF MembersInv, CommitRegister
<1>2. CASE Taken(name)
    <2>1. UNCHANGED <<users, orders, events, reviews, claimed, born, placed>>
        BY <1>2 DEF CommitRegister
    <2>2. UsersOk' /\ HeldCovers' /\ NothingDestroyed
        BY <2>1 DEF MembersInv, UsersOk, HeldCovers, NothingDestroyed, Backed, Here
    <2>3. OrdersOk' /\ EventsOk' /\ ReviewsOk' /\ DisputesStay
        BY <2>1, SameOrders DEF MembersInv, UsersOk
    <2> QED BY <1>1, <2>1, <2>2, <2>3, SameEmptied DEF MembersInv, Stays
<1>3. CASE ~Taken(name)
    <2>1. users' = users \cup {new} /\ claimed' = TRUE /\ born' = born + 1
          /\ UNCHANGED <<orders, events, reviews, placed>>
        BY <1>3 DEF CommitRegister
    <2>2. name \in Names
        BY AskedKinds DEF MembersInv, CommitRegister
    <2>3. born \in Nat /\ claimed \in BOOLEAN /\ (claimed <=> born > 0)
        BY DEF MembersInv, UsersOk
    <2>4. new.id = born + 1 /\ new.name = name /\ new.available = 0 /\ new.held = 0 /\ new.admin = ~claimed
        BY DEF User
    <2>5. new \in UserRow
        BY <2>2, <2>3 DEF User, UserRow
    <2>6. \A u \in users : u.id \in Nat /\ 1 <= u.id /\ u.id <= born /\ u.id # new.id /\ u.name # new.name
        BY <1>3, <2>3, <2>4 DEF MembersInv, UsersOk, UserRow, Taken
    <2>7. new.admin <=> new.id = 1
        <3>1. new.id = 1 <=> ~(born > 0)
            BY <2>3, <2>4
        <3>2. ~claimed <=> ~(born > 0)
            BY <2>3
        <3> HIDE DEF new, name
        <3> QED BY <2>4, <3>1, <3>2, Zenon
    <2> HIDE DEF new, name
    <2>8. UsersOk'
        <3>1. \A u \in users' : 1 <= u.id /\ u.id <= born' /\ (u.admin <=> u.id = 1)
            BY <2>1, <2>3, <2>4, <2>6, <2>7 DEF MembersInv, UsersOk
        <3>2. \A u, v \in users' : u.id = v.id \/ u.name = v.name => u = v
            BY <2>1, <2>6 DEF MembersInv, UsersOk
        <3>3. users' \subseteq UserRow
            BY <2>1, <2>5 DEF MembersInv, UsersOk
        <3> QED BY <2>1, <2>3, <3>1, <3>2, <3>3 DEF UsersOk
    <2>9. OrdersOk' /\ EventsOk' /\ ReviewsOk' /\ DisputesStay
        BY <2>1, <2>3, SameOrders DEF MembersInv
    <2>10. Bought(new.id, orders) = {}
        BY <2>3, <2>4 DEF MembersInv, OrdersOk, OrderRow, Bought
    <2>11. HeldCovers'
        <3>1. Cardinality({}) = 0
            BY FS_EmptySet
        <3> QED BY <2>1, <2>4, <2>10, <3>1 DEF MembersInv, HeldCovers
    <2>12. NothingDestroyed
        BY <2>1, <2>6 DEF NothingDestroyed, Backed, Here
    <2> QED BY <1>1, <2>1, <2>4, <2>8, <2>9, <2>11, <2>12, SameEmptied DEF MembersInv, Stays
<1> QED BY <1>2, <1>3

LEMMA MoneyStep ==
    ASSUME MembersInv, NEW m \in users, MoveMoney(m)
    PROVE  MembersInv' /\ Stays
<1>1. /\ UsersOk /\ UsersOk'
      /\ \A v \in users' : \E u \in users :
             /\ SameUser(u, v) /\ v.held = u.held
             /\ u.id # m.id \/ m.available > 0 => v.available <= u.available
      /\ \A u \in users : \E v \in users' : SameUser(u, v) /\ v.held = u.held
    BY MoneyRows DEF MembersInv
<1>2. UNCHANGED <<orders, events, reviews, placed, born>>
    BY DEF MoveMoney
<1>3. OrdersOk' /\ EventsOk' /\ ReviewsOk' /\ DisputesStay
    BY <1>2, SameOrders DEF MembersInv, UsersOk
<1>4. /\ AskedOk' /\ \A t \in Slots : Follows(t, pending'[t])
      /\ m.available > 0 \/ \A t \in Slots : pending'[t].op = "delete" /\ ~pending'[t].met => pending[t].id # m.id
    BY MeetsFollows, SameFollows DEF MembersInv, MoveMoney
<1>5. \A v \in users' : \E u \in users : Tally(u, v)
    BY <1>1, <1>2 DEF Tally, SameUser
<1>6. HeldCovers' /\ \A u \in users : Backed(u.id) => Backed(u.id)'
    BY <1>1, <1>3, <1>5, Tallied DEF MembersInv
<1>7. \A u \in users : Here(u.id)'
    BY <1>1 DEF Here, SameUser
<1>8. Emptied'
    <2> SUFFICES ASSUME NEW t \in Slots, pending'[t].op = "delete", ~pending'[t].met
                 PROVE  /\ \A v \in users' : v.id = pending'[t].id => v.available = 0 /\ v.held = 0
                        /\ pending'[t].checked => OpenFor(pending'[t].id, orders') = {}
        BY EmptiedNow
    <2>1. Is(t, "delete") /\ ~pending[t].met /\ pending'[t].id = pending[t].id
              /\ (pending'[t].checked => pending[t].checked)
        BY <1>4 DEF Follows
    <2>2. /\ \A u \in users : u.id = pending[t].id => u.available = 0 /\ u.held = 0
          /\ pending[t].checked => OpenFor(pending[t].id, orders) = {}
        BY <2>1, EmptiedNow DEF MembersInv
    <2>3. ASSUME NEW v \in users', v.id = pending[t].id PROVE v.available = 0 /\ v.held = 0
        <3>1. PICK u \in users : /\ SameUser(u, v) /\ v.held = u.held
                                 /\ u.id # m.id \/ m.available > 0 => v.available <= u.available
            BY <1>1
        <3>2. u.id = pending[t].id /\ u.available = 0 /\ u.held = 0
            BY <2>2, <2>3, <3>1 DEF SameUser
        <3>3. v.available \in Nat
            BY <1>1 DEF UsersOk, UserRow
        <3> QED BY <1>4, <3>1, <3>2, <3>3
    <2> QED BY <1>2, <2>1, <2>2, <2>3
<1> QED BY <1>1, <1>3, <1>4, <1>6, <1>7, <1>8 DEF MembersInv, Stays, NothingDestroyed

\* An order that was not placed leaves all as it is.
LEMMA NothingMoves ==
    ASSUME MembersInv, UNCHANGED <<users, claimed, orders, events, reviews, born, placed>>,
           AskedOk', \A t \in Slots : Follows(t, pending'[t])
    PROVE  MembersInv' /\ Stays
<1>1. UsersOk' /\ HeldCovers' /\ NothingDestroyed
    BY DEF MembersInv, UsersOk, HeldCovers, NothingDestroyed, Backed, Here
<1>2. OrdersOk' /\ EventsOk' /\ ReviewsOk' /\ DisputesStay
    BY SameOrders DEF MembersInv, UsersOk
<1>3. Emptied'
    BY SameEmptied DEF MembersInv
<1> QED BY <1>1, <1>2, <1>3 DEF MembersInv, Stays

LEMMA PlaceStep ==
    ASSUME MembersInv, NEW s \in Slots, PlaceOrder(s)
    PROVE  MembersInv' /\ Stays
<1> DEFINE buyer == pending[s].buyer
           seller == pending[s].seller
           new == [id |-> placed + 1, buyer |-> buyer, seller |-> seller, status |-> "placed"]
<1>1. Is(s, "order") /\ buyer \in Nat /\ seller \in Nat /\ placed \in Nat /\ AskedOk
    BY AskedKinds DEF MembersInv, PlaceOrder, OrdersOk
<1>2. CASE placed' # placed + 1
    <2>1. UNCHANGED <<users, claimed, orders, events, reviews, born, placed>>
        BY <1>2 DEF PlaceOrder
    <2>2. ~(Here(seller) /\ \E u \in users : u.id = buyer /\ u.available > 0)
        BY <1>2 DEF PlaceOrder
    <2>3. pending' = [t \in Slots |-> IF t = s THEN NotAsked ELSE pending[t]]
        BY <2>2 DEF PlaceOrder
    <2>4. pending' = [pending EXCEPT ![s] = NotAsked]
        BY <2>3, <1>1 DEF AskedOk
    <2>5. AskedOk' /\ \A t \in Slots : Follows(t, pending'[t])
        BY <1>1, <2>4, EndsFollows DEF Ends
    <2> QED BY <2>1, <2>5, NothingMoves
<1>3. CASE placed' = placed + 1
    <2>1. /\ UsersOk'
          /\ \E b \in users : b.id = buyer /\ b.available > 0
          /\ Here(seller)
          /\ orders' = orders \cup {new}
          /\ \A v \in users' : \E u \in users :
                 /\ SameUser(u, v) /\ v.available <= u.available
                 /\ v.held = (IF u.id = buyer THEN u.held + 1 ELSE u.held)
          /\ \A u \in users : \E v \in users' :
                 /\ SameUser(u, v)
                 /\ v.held = (IF u.id = buyer THEN u.held + 1 ELSE u.held)
        BY <1>1, <1>3, OrderRows DEF MembersInv
    <2>2. UNCHANGED <<claimed, events, reviews, born>>
        BY DEF PlaceOrder
    <2>3. buyer <= born /\ seller <= born
        BY <2>1 DEF MembersInv, UsersOk, Here
    <2>4. new \in OrderRow /\ new.id = placed + 1 /\ new.status \in Open /\ new.buyer = buyer
              /\ new.seller = seller
        BY <1>1 DEF OrderRow, Open
    <2>5. \A o \in orders : o.id \in Nat /\ o.id <= placed
        BY DEF MembersInv, OrdersOk, OrderRow
    <2>6. new \notin orders /\ \A o \in orders : o.id # new.id
        BY <1>1, <2>4, <2>5
    <2> HIDE DEF new, buyer, seller
    <2>7. OrdersOk'
        <3>1. orders' \subseteq OrderRow /\ IsFiniteSet(orders')
            BY <2>1, <2>4, FS_AddElement DEF MembersInv, OrdersOk
        <3>2. \A o \in orders' : o.id <= placed' /\ o.buyer <= born' /\ o.seller <= born'
            BY <1>1, <1>3, <2>1, <2>2, <2>3, <2>4, <2>5 DEF MembersInv, OrdersOk
        <3>3. \A o, p \in orders' : o.id = p.id => o = p
            BY <2>1, <2>6 DEF MembersInv, OrdersOk
        <3> QED BY <1>1, <1>3, <3>1, <3>2, <3>3 DEF OrdersOk
    <2>8. EventsOk'
        <3>1. \A e \in events : e.order \in Nat /\ e.order <= placed
            BY DEF MembersInv, EventsOk, EventRow
        <3>2. \A e \in events, o \in orders' : e.order = o.id => e.actor = o.buyer
            BY <1>1, <2>1, <2>4, <3>1 DEF MembersInv, EventsOk
        <3>3. \A e \in events : e.order <= placed'
            BY <1>1, <1>3, <3>1
        <3> QED BY <2>2, <3>2, <3>3 DEF MembersInv, EventsOk
    <2>9. ReviewsOk' /\ DisputesStay
        <3>1. ReviewsOk'
            BY <2>1, <2>2 DEF MembersInv, ReviewsOk
        <3> QED BY <2>1, <2>2, <3>1 DEF DisputesStay, Disputed
    <2>10. \A v \in users' : \E u \in users : Tally(u, v)
        <3> TAKE v \in users'
        <3>1. PICK u \in users : /\ SameUser(u, v)
                                 /\ v.held = (IF u.id = buyer THEN u.held + 1 ELSE u.held)
            BY <2>1
        <3>2. u.id \in Nat /\ u.held \in Nat
            BY DEF MembersInv, UsersOk, UserRow
        <3>3. Cardinality(Bought(u.id, orders')) =
                  Cardinality(Bought(u.id, orders)) + (IF buyer = u.id THEN 1 ELSE 0)
            BY <2>1, <2>4, <2>6, <3>2, BoughtPlaced DEF MembersInv, OrdersOk
        <3>4. Cardinality(Bought(u.id, orders)) \in Nat
            BY <3>2, BoughtFinite DEF MembersInv, OrdersOk
        <3>5. v.held + Cardinality(Bought(u.id, orders)) = u.held + Cardinality(Bought(u.id, orders'))
            BY <3>1, <3>2, <3>3, <3>4
        <3> QED BY <3>1, <3>5 DEF Tally
    <2>11. HeldCovers' /\ \A u \in users : Backed(u.id) => Backed(u.id)'
        BY <2>1, <2>7, <2>10, Tallied DEF MembersInv
    <2>12. \A u \in users : Here(u.id)'
        BY <2>1 DEF Here, SameUser
    <2>13. \A t \in Slots : pending'[t] =
               IF t = s THEN NotAsked
               ELSE IF Is(t, "delete") /\ pending[t].checked THEN Met(t, {buyer, seller}) ELSE pending[t]
        <3>1. Here(seller) /\ \E u \in users : u.id = buyer /\ u.available > 0
            BY <2>1
        <3> QED BY <3>1 DEF PlaceOrder, buyer, seller, Is
    <2>14. AskedOk'
        <3>1. \A t \in Slots : pending'[t] \in Asked
            BY <1>1, <2>13, MetRow, AskedKinds DEF NotAsked, Asked
        <3>2. pending' = [t \in Slots |-> pending'[t]]
            BY DEF PlaceOrder
        <3>3. \A t \in Slots : pending'[t].op = "review" => pending'[t].order.status = "completed"
            BY <1>1, <2>13, MetRow, AskedKinds DEF NotAsked, Is
        <3>4. pending' \in [Slots -> Asked]
            BY <3>1, <3>2
        <3> QED BY <3>3, <3>4 DEF AskedOk, Is
    <2>15. \A t \in Slots : pending'[t].op = "delete" /\ ~pending'[t].met =>
               /\ Is(t, "delete") /\ ~pending[t].met /\ pending'[t].id = pending[t].id
               /\ pending'[t].checked = pending[t].checked
               /\ pending[t].checked => pending[t].id \notin {buyer, seller}
        BY <1>1, <2>13, MetRow DEF NotAsked, Is
    <2>16. Emptied'
        <3> SUFFICES ASSUME NEW t \in Slots, pending'[t].op = "delete", ~pending'[t].met
                     PROVE  /\ \A v \in users' : v.id = pending'[t].id => v.available = 0 /\ v.held = 0
                            /\ pending'[t].checked => OpenFor(pending'[t].id, orders') = {}
            BY EmptiedNow
        <3>1. /\ \A u \in users : u.id = pending[t].id => u.available = 0 /\ u.held = 0
              /\ pending[t].checked => OpenFor(pending[t].id, orders) = {}
            BY <2>15, EmptiedNow DEF MembersInv
        <3>2. ASSUME NEW v \in users', v.id = pending[t].id PROVE v.available = 0 /\ v.held = 0
            <4>1. PICK u \in users : /\ SameUser(u, v) /\ v.available <= u.available
                                     /\ v.held = (IF u.id = buyer THEN u.held + 1 ELSE u.held)
                BY <2>1
            <4>2. u.id = pending[t].id /\ u.available = 0 /\ u.held = 0
                BY <3>1, <3>2, <4>1 DEF SameUser
            <4>3. u.id # buyer
                BY <2>1, <4>2 DEF MembersInv, UsersOk
            <4>4. v.available \in Nat
                BY <2>1 DEF UsersOk, UserRow
            <4> QED BY <4>1, <4>2, <4>3, <4>4
        <3>3. pending[t].checked => OpenFor(pending[t].id, orders') = {}
            BY <2>1, <2>4, <2>15, <3>1 DEF OpenFor
        <3> QED BY <2>15, <3>2, <3>3
    <2> QED BY <2>1, <2>7, <2>8, <2>9, <2>11, <2>12, <2>14, <2>16 DEF MembersInv, Stays, NothingDestroyed
<1> QED BY <1>2, <1>3

\* What becomes of the record when one order's status changes.
LEMMA StatusRows ==
    ASSUME OrdersOk, EventsOk, ReviewsOk, NEW o \in orders, o.status \in Open,
           NEW status \in {"disputed", "completed", "cancelled"}, SetStatus(o, status),
           events \subseteq events', events' \subseteq events \cup {[order |-> o.id, actor |-> o.buyer]},
           UNCHANGED <<reviews, placed, born>>
    PROVE  /\ OrdersOk' /\ EventsOk' /\ ReviewsOk' /\ DisputesStay
           /\ \E p \in OrderRow : /\ orders' = (orders \ {o}) \cup {p}
                                  /\ p.id = o.id /\ p.buyer = o.buyer /\ p.seller = o.seller
                                  /\ p.status = status
<1> DEFINE p == [o EXCEPT !.status = status]
<1>1. o \in OrderRow /\ orders \subseteq OrderRow
    BY DEF OrdersOk
<1>2. p \in OrderRow /\ p.id = o.id /\ p.buyer = o.buyer /\ p.seller = o.seller /\ p.status = status
    BY <1>1 DEF OrderRow
<1>3. orders' = (orders \ {o}) \cup {p}
    BY DEF SetStatus
<1> HIDE DEF p
<1>4. OrdersOk'
    <2>1. orders' \subseteq OrderRow
        BY <1>1, <1>2, <1>3
    <2>2. IsFiniteSet(orders')
        BY <1>3, FS_AddElement, FS_RemoveElement DEF OrdersOk
    <2>3. \A q \in orders' : \E r \in orders : q.id = r.id /\ q.buyer = r.buyer /\ q.seller = r.seller
        BY <1>2, <1>3
    <2>4. \A q \in orders' : q.id <= placed' /\ q.buyer <= born' /\ q.seller <= born'
        BY <2>3 DEF OrdersOk
    <2>5. \A q, r \in orders' : q.id = r.id => q = r
        BY <1>2, <1>3 DEF OrdersOk
    <2> QED BY <2>1, <2>2, <2>4, <2>5 DEF OrdersOk
<1>5. EventsOk'
    <2> DEFINE e0 == [order |-> o.id, actor |-> o.buyer]
    <2>1. e0 \in EventRow /\ e0.order = o.id /\ e0.actor = o.buyer
        BY <1>1 DEF EventRow, OrderRow
    <2> HIDE DEF e0
    <2>2. events' \subseteq EventRow
        BY <2>1 DEF EventsOk, e0
    <2>3. \A e \in events' : e.order <= placed'
        BY <2>1 DEF EventsOk, OrdersOk, e0
    <2>4. \A q \in orders' : \E r \in orders : q.id = r.id /\ q.buyer = r.buyer
        BY <1>2, <1>3
    <2>5. \A e \in events', r \in orders : e.order = r.id => e.actor = r.buyer
        <3> TAKE e \in events', r \in orders
        <3>1. CASE e \in events
            BY <3>1 DEF EventsOk
        <3>2. CASE e = e0
            BY <2>1, <3>2 DEF OrdersOk
        <3> QED BY <3>1, <3>2 DEF e0
    <2>6. \A e \in events', q \in orders' : e.order = q.id => e.actor = q.buyer
        BY <2>4, <2>5
    <2> QED BY <2>2, <2>3, <2>6 DEF EventsOk
<1>6. ReviewsOk'
    <2>1. o.status # "completed"
        BY DEF Open
    <2>2. \A r \in reviews : \E q \in orders' : q.id = r.order /\ q.status = "completed" /\ q.buyer = r.author
        BY <1>3, <2>1 DEF ReviewsOk
    <2> QED BY <2>2 DEF ReviewsOk
<1>7. DisputesStay
    <2> SUFFICES ASSUME NEW u \in users', NEW q \in orders, q.id \in Disputed(u.id)
                 PROVE  q.id \in Disputed(u.id)'
        BY DEF DisputesStay
    <2>1. PICK r \in orders : r.id = q.id /\ r.seller = u.id /\ \E e \in events : e.order = r.id
        BY DEF Disputed
    <2>2. \E w \in orders' : w.id = r.id /\ w.seller = r.seller
        BY <1>2, <1>3
    <2> QED BY <2>1, <2>2 DEF Disputed
<1> QED BY <1>2, <1>3, <1>4, <1>5, <1>6, <1>7

LEMMA DisputeStep ==
    ASSUME MembersInv, NEW o \in orders, DisputeOrder(o)
    PROVE  MembersInv' /\ Stays
<1>1. /\ o.status = "placed" /\ o.status \in Open /\ SetStatus(o, "disputed")
      /\ events' = events \cup {[order |-> o.id, actor |-> o.buyer]}
      /\ UNCHANGED <<users, claimed, reviews, pending, born, placed>>
    BY DEF DisputeOrder, Open
<1>2. /\ OrdersOk' /\ EventsOk' /\ ReviewsOk' /\ DisputesStay
      /\ \E p \in OrderRow : /\ orders' = (orders \ {o}) \cup {p}
                             /\ p.id = o.id /\ p.buyer = o.buyer /\ p.seller = o.seller
                             /\ p.status = "disputed"
    BY <1>1, StatusRows DEF MembersInv
<1>3. UsersOk' /\ AskedOk' /\ \A t \in Slots : Follows(t, pending'[t])
    BY <1>1, SameFollows DEF MembersInv, UsersOk
<1>4. PICK p \in OrderRow : /\ orders' = (orders \ {o}) \cup {p}
                            /\ p.id = o.id /\ p.buyer = o.buyer /\ p.seller = o.seller
                            /\ p.status = "disputed"
    BY <1>2
<1>5. p \notin orders /\ p.status \in Open
    BY <1>1, <1>4 DEF MembersInv, OrdersOk, Open
<1>6. \A v \in users' : \E u \in users : Tally(u, v)
    <2> TAKE v \in users'
    <2>1. v \in users /\ v.id \in Nat /\ SameUser(v, v)
        BY <1>1 DEF MembersInv, UsersOk, UserRow, SameUser
    <2>2. Cardinality(Bought(v.id, orders')) = Cardinality(Bought(v.id, orders))
        BY <1>1, <1>4, <1>5, <2>1, BoughtArgued DEF MembersInv, OrdersOk
    <2> QED BY <2>1, <2>2 DEF Tally
<1>7. HeldCovers' /\ \A u \in users : Backed(u.id) => Backed(u.id)'
    BY <1>2, <1>3, <1>6, Tallied DEF MembersInv
<1>8. \A u \in users : Here(u.id)'
    BY <1>1 DEF Here
<1>9. Emptied'
    <2> SUFFICES ASSUME NEW t \in Slots, pending'[t].op = "delete", ~pending'[t].met
                 PROVE  /\ \A v \in users' : v.id = pending'[t].id => v.available = 0 /\ v.held = 0
                        /\ pending'[t].checked => OpenFor(pending'[t].id, orders') = {}
        BY EmptiedNow
    <2>1. /\ \A u \in users : u.id = pending[t].id => u.available = 0 /\ u.held = 0
          /\ pending[t].checked => OpenFor(pending[t].id, orders) = {}
        BY <1>1, EmptiedNow DEF MembersInv, Is
    <2>2. pending[t].checked => OpenFor(pending[t].id, orders') = {}
        BY <1>1, <1>4, <2>1 DEF OpenFor
    <2> QED BY <1>1, <2>1, <2>2
<1> QED BY <1>2, <1>3, <1>7, <1>8, <1>9 DEF MembersInv, Stays, NothingDestroyed

LEMMA EndStep ==
    ASSUME MembersInv, NEW o \in orders, NEW status \in {"completed", "cancelled"}, EndOrder(o, status)
    PROVE  MembersInv' /\ Stays
<1> DEFINE to == IF status = "completed" THEN o.seller ELSE o.buyer
<1>1. /\ o.status \in Open /\ SetStatus(o, status) /\ Meets({to})
      /\ UNCHANGED <<claimed, events, reviews, born, placed>>
    BY DEF EndOrder
<1>2. o \in OrderRow /\ o.buyer \in Nat /\ status \notin Open
    BY DEF MembersInv, OrdersOk, OrderRow, Open
<1>3. \A id \in Nat : Cardinality(Bought(id, orders)) \in Nat
    BY BoughtFinite DEF MembersInv, OrdersOk
<1>4. \A u \in users : u.id \in Nat /\ u.held \in Nat /\ u.held >= Cardinality(Bought(u.id, orders))
    BY DEF MembersInv, UsersOk, UserRow, HeldCovers
<1>5. /\ OrdersOk' /\ EventsOk' /\ ReviewsOk' /\ DisputesStay
      /\ \E p \in OrderRow : /\ orders' = (orders \ {o}) \cup {p}
                             /\ p.id = o.id /\ p.buyer = o.buyer /\ p.seller = o.seller
                             /\ p.status = status
    BY <1>1, StatusRows DEF MembersInv
<1>6. PICK p \in OrderRow : orders' = (orders \ {o}) \cup {p} /\ p.status = status
    BY <1>5
<1>7. \A id \in Nat : Cardinality(Bought(id, orders)) =
                          Cardinality(Bought(id, orders')) + (IF o.buyer = id THEN 1 ELSE 0)
    BY <1>1, <1>2, <1>6, BoughtEnded DEF MembersInv, OrdersOk
<1>8. \A id \in Nat : Cardinality(Bought(id, orders')) \in Nat
    BY <1>5, BoughtFinite DEF OrdersOk
<1>9. \A u \in users : u.id = o.buyer => u.held > 0
    <2> SUFFICES ASSUME NEW u \in users, u.id = o.buyer PROVE u.held > 0
        OBVIOUS
    <2>1. Cardinality(Bought(u.id, orders)) = Cardinality(Bought(u.id, orders')) + 1
        BY <1>2, <1>7
    <2> QED BY <1>2, <1>4, <1>8, <2>1
<1>10. /\ UsersOk'
       /\ \A v \in users' : \E u \in users :
              /\ SameUser(u, v)
              /\ v.available = (IF u.id = to THEN u.available + 1 ELSE u.available)
              /\ v.held = (IF u.id = o.buyer THEN u.held - 1 ELSE u.held)
       /\ \A u \in users : \E v \in users' :
              /\ SameUser(u, v)
              /\ v.held = (IF u.id = o.buyer THEN u.held - 1 ELSE u.held)
    BY <1>2, <1>9, EndRows DEF MembersInv
<1> HIDE DEF to
<1>11. \A v \in users' : \E u \in users : Tally(u, v)
    <2> TAKE v \in users'
    <2>1. PICK u \in users : /\ SameUser(u, v)
                             /\ v.held = (IF u.id = o.buyer THEN u.held - 1 ELSE u.held)
        BY <1>10
    <2>2. v.held + Cardinality(Bought(u.id, orders)) = u.held + Cardinality(Bought(u.id, orders'))
        <3>1. /\ u.id \in Nat /\ u.held \in Nat
              /\ Cardinality(Bought(u.id, orders)) \in Nat /\ Cardinality(Bought(u.id, orders')) \in Nat
            BY <1>3, <1>4, <1>8
        <3>2. CASE u.id = o.buyer
            <4>1. Cardinality(Bought(u.id, orders)) = Cardinality(Bought(u.id, orders')) + 1
                BY <1>7, <3>1, <3>2
            <4> QED BY <2>1, <3>1, <3>2, <4>1
        <3>3. CASE u.id # o.buyer
            <4>1. Cardinality(Bought(u.id, orders)) = Cardinality(Bought(u.id, orders')) + 0
                BY <1>7, <3>1, <3>3
            <4> QED BY <2>1, <3>1, <3>3, <4>1
        <3> QED BY <3>2, <3>3
    <2> QED BY <2>1, <2>2 DEF Tally
<1>12. HeldCovers' /\ \A u \in users : Backed(u.id) => Backed(u.id)'
    BY <1>5, <1>10, <1>11, Tallied DEF MembersInv
<1>13. \A u \in users : Here(u.id)'
    BY <1>10 DEF Here, SameUser
<1>14. /\ AskedOk'
       /\ \A t \in Slots : /\ Follows(t, pending'[t])
                           /\ pending'[t].op = "delete" /\ ~pending'[t].met => pending[t].id \notin {to}
    BY <1>1, MeetsFollows DEF MembersInv
<1>15. Emptied'
    <2> SUFFICES ASSUME NEW t \in Slots, pending'[t].op = "delete", ~pending'[t].met
                 PROVE  /\ \A v \in users' : v.id = pending'[t].id => v.available = 0 /\ v.held = 0
                        /\ pending'[t].checked => OpenFor(pending'[t].id, orders') = {}
        BY EmptiedNow
    <2>1. Is(t, "delete") /\ ~pending[t].met /\ pending'[t].id = pending[t].id
              /\ (pending'[t].checked => pending[t].checked) /\ pending[t].id # to
        BY <1>14 DEF Follows
    <2>2. /\ \A u \in users : u.id = pending[t].id => u.available = 0 /\ u.held = 0
          /\ pending[t].checked => OpenFor(pending[t].id, orders) = {}
        BY <2>1, EmptiedNow DEF MembersInv
    <2>3. ASSUME NEW v \in users', v.id = pending[t].id PROVE v.available = 0 /\ v.held = 0
        <3>1. PICK u \in users : /\ SameUser(u, v)
                                 /\ v.available = (IF u.id = to THEN u.available + 1 ELSE u.available)
                                 /\ v.held = (IF u.id = o.buyer THEN u.held - 1 ELSE u.held)
            BY <1>10
        <3>2. u.id = pending[t].id /\ u.available = 0 /\ u.held = 0
            BY <2>2, <2>3, <3>1 DEF SameUser
        <3>3. u.id # o.buyer
            BY <1>9, <3>2
        <3> QED BY <2>1, <3>1, <3>2, <3>3
    <2>4. pending[t].checked => OpenFor(pending[t].id, orders') = {}
        BY <1>2, <1>6, <2>2 DEF OpenFor
    <2> QED BY <2>1, <2>3, <2>4
<1> QED BY <1>5, <1>10, <1>12, <1>13, <1>14, <1>15 DEF MembersInv, Stays, NothingDestroyed

LEMMA DeleteStep ==
    ASSUME MembersInv, NEW s \in Slots, DeleteAccount(s)
    PROVE  MembersInv' /\ Stays
<1> DEFINE id == pending[s].id
           left == orders \ OrdersOf(id)
           kept == {o.id : o \in left}
<1>1. /\ Is(s, "delete") /\ pending[s].checked
      /\ users' = {u \in users : u.id # id} /\ orders' = left
      /\ events' = {e \in events : e.order \in kept /\ e.actor # id}
      /\ reviews' = {r \in reviews : r.order \in kept}
      /\ Ends(s) /\ UNCHANGED <<claimed, born, placed>>
    BY DEF DeleteAccount
<1>2. orders' \subseteq orders /\ \A o \in orders' : o.buyer # id /\ o.seller # id
    BY <1>1 DEF OrdersOf
<1>3. \A o \in orders : o.buyer # id /\ o.seller # id => o \in orders'
    BY <1>1 DEF OrdersOf
<1>4. \A n : n \in kept <=> \E o \in orders' : o.id = n
    BY <1>1
<1> HIDE DEF left, kept
<1>5. UsersOk'
    BY <1>1 DEF MembersInv, UsersOk
<1>6. OrdersOk'
    BY <1>1, <1>2, FS_Subset DEF MembersInv, OrdersOk
<1>7. EventsOk'
    BY <1>1, <1>2 DEF MembersInv, EventsOk
<1>8. ReviewsOk'
    <2>1. \A r \in reviews' : \E o \in orders' : o.id = r.order /\ o.status = "completed" /\ o.buyer = r.author
        <3> TAKE r \in reviews'
        <3>1. PICK o \in orders : o.id = r.order /\ o.status = "completed" /\ o.buyer = r.author
            BY <1>1 DEF MembersInv, ReviewsOk
        <3>2. PICK q \in orders' : q.id = r.order
            BY <1>1, <1>4
        <3>3. q = o
            BY <1>2, <3>1, <3>2 DEF MembersInv, OrdersOk
        <3> QED BY <3>1, <3>2, <3>3
    <2> QED BY <1>1, <2>1 DEF MembersInv, ReviewsOk
<1>9. AskedOk' /\ pending'[s] = NotAsked /\ \A t \in Slots : Follows(t, pending'[t])
    BY <1>1, EndsFollows DEF MembersInv
<1>10. Emptied'
    BY <1>1, <1>2, <1>9, SameEmptied DEF MembersInv
<1>11. HeldCovers'
    <2> SUFFICES ASSUME NEW u \in users' PROVE u.held >= Cardinality(Bought(u.id, orders'))
        BY DEF HeldCovers
    <2>1. u \in users /\ u.id \in Nat /\ u.held \in Nat /\ u.held >= Cardinality(Bought(u.id, orders))
        BY <1>1 DEF MembersInv, UsersOk, UserRow, HeldCovers
    <2>2. Cardinality(Bought(u.id, orders')) <= Cardinality(Bought(u.id, orders))
        BY <1>2, <2>1, BoughtLess DEF MembersInv, OrdersOk
    <2>3. Cardinality(Bought(u.id, orders)) \in Nat /\ Cardinality(Bought(u.id, orders')) \in Nat
        BY <1>6, <2>1, BoughtFinite DEF MembersInv, OrdersOk
    <2> QED BY <2>1, <2>2, <2>3
<1>12. NothingDestroyed
    <2>1. CASE pending[s].met
        BY <1>1, <1>9, <2>1 DEF NothingDestroyed
    <2>2. CASE ~pending[s].met
        <3>1. /\ \A u \in users : u.id = id => u.available = 0 /\ u.held = 0
              /\ OpenFor(id, orders) = {}
            BY <1>1, <2>2, EmptiedNow DEF MembersInv
        <3>2. \A n : n # id => Bought(n, orders') = Bought(n, orders)
            BY <1>2, <1>3, <3>1 DEF Bought, OpenFor
        <3>3. ASSUME NEW u \in users, Backed(u.id) PROVE Backed(u.id)'
            <4> SUFFICES ASSUME NEW v \in users', v.id = u.id
                         PROVE  v.held = Cardinality(Bought(u.id, orders'))
                BY DEF Backed, Bought
            <4>1. v \in users /\ u.id # id
                BY <1>1
            <4>2. v.held = Cardinality(Bought(u.id, orders))
                BY <3>3, <4>1 DEF Backed, Bought
            <4> QED BY <3>2, <4>1, <4>2
        <3>4. \A u \in users : Here(u.id)' \/ (u.available = 0 /\ u.held = 0)
            BY <1>1, <3>1 DEF Here
        <3> QED BY <3>3, <3>4 DEF NothingDestroyed
    <2> QED BY <2>1, <2>2
<1>13. DisputesStay
    <2> SUFFICES ASSUME NEW u \in users', NEW o \in orders, o.id \in Disputed(u.id), Here(o.buyer)'
                 PROVE  o.id \in Disputed(u.id)'
        BY DEF DisputesStay
    <2>1. PICK p \in orders : p.id = o.id /\ p.seller = u.id /\ \E e \in events : e.order = p.id
        BY DEF Disputed
    <2>2. p = o
        BY <2>1 DEF MembersInv, OrdersOk
    <2>3. PICK e \in events : e.order = p.id
        BY <2>1
    <2>4. o.buyer # id /\ o.seller # id
        BY <1>1, <2>1, <2>2 DEF Here
    <2>5. o \in orders' /\ e.actor = o.buyer
        BY <1>3, <2>2, <2>3, <2>4 DEF MembersInv, EventsOk
    <2>6. e \in events'
        BY <1>1, <1>4, <2>2, <2>3, <2>4, <2>5
    <2> QED BY <2>1, <2>2, <2>3, <2>5, <2>6 DEF Disputed
<1> QED BY <1>5, <1>6, <1>7, <1>8, <1>9, <1>10, <1>11, <1>12, <1>13 DEF MembersInv, Stays

\* A request that is made, unless it is a deletion.
LEMMA AsksFollows ==
    ASSUME AskedOk, NEW s \in Slots, NEW r \in Asked, r.op # "delete",
           r.op = "review" => r.order.status = "completed", Asks(s, r)
    PROVE  AskedOk' /\ \A t \in Slots : r.op # "review" => Follows(t, pending'[t])
<1>1. pending' \in [Slots -> Asked] /\ \A t \in Slots : pending'[t] = IF t = s THEN r ELSE pending[t]
    BY DEF AskedOk, Asks
<1>2. AskedOk'
    BY <1>1 DEF AskedOk, Is
<1>3. \A t \in Slots : r.op # "review" => Follows(t, pending'[t])
    BY <1>1, FollowsSelf DEF Follows
<1> QED BY <1>2, <1>3

LEMMA AskStep ==
    ASSUME MembersInv, NEW s \in Slots,
           \/ \E name \in Names : AskRegister(s, name)
           \/ \E u, v \in users : AskOrder(s, u.id, v.id)
           \/ Fail(s)
    PROVE  MembersInv' /\ Stays
<1>1. UNCHANGED <<users, claimed, orders, events, reviews, born, placed>>
    BY DEF AskRegister, AskOrder, Fail
<1>2. AskedOk' /\ \A t \in Slots : Follows(t, pending'[t])
    <2>1. CASE \E name \in Names : AskRegister(s, name)
        <3>1. PICK name \in Names : Asks(s, [op |-> "register", name |-> name])
            BY <2>1 DEF AskRegister
        <3>2. [op |-> "register", name |-> name] \in Asked
            BY DEF Asked
        <3> QED BY <3>1, <3>2, AsksFollows DEF MembersInv
    <2>2. CASE \E u, v \in users : AskOrder(s, u.id, v.id)
        <3>1. PICK u, v \in users : Asks(s, [op |-> "order", buyer |-> u.id, seller |-> v.id])
            BY <2>2 DEF AskOrder
        <3>2. u.id \in Nat /\ v.id \in Nat
            BY DEF MembersInv, UsersOk, UserRow
        <3>3. [op |-> "order", buyer |-> u.id, seller |-> v.id] \in Asked
            BY <3>2 DEF Asked
        <3> QED BY <3>1, <3>3, AsksFollows DEF MembersInv
    <2>3. CASE Fail(s)
        BY <2>3, EndsFollows DEF Fail, MembersInv
    <2> QED BY <2>1, <2>2, <2>3
<1> QED BY <1>1, <1>2, NothingMoves

LEMMA AskReviewStep ==
    ASSUME MembersInv, NEW s \in Slots, NEW o \in orders, AskReview(s, o)
    PROVE  MembersInv' /\ Stays
<1> DEFINE r == [op |-> "review", order |-> o]
<1>1. /\ UNCHANGED <<users, claimed, orders, events, reviews, born, placed>>
      /\ Asks(s, r) /\ o.status = "completed"
    BY DEF AskReview
<1>2. r \in Asked /\ r.op = "review" /\ r.order = o
    BY DEF MembersInv, OrdersOk, Asked
<1> HIDE DEF r
<1>3. AskedOk'
    BY <1>1, <1>2, AsksFollows DEF MembersInv
<1>4. \A t \in Slots : pending'[t].op = "delete" => pending'[t] = pending[t] /\ Is(t, "delete")
    BY <1>1, <1>2 DEF Asks, MembersInv, AskedOk, Is
<1>5. Emptied'
    <2> SUFFICES ASSUME NEW t \in Slots, pending'[t].op = "delete", ~pending'[t].met
                 PROVE  /\ \A v \in users' : v.id = pending'[t].id => v.available = 0 /\ v.held = 0
                        /\ pending'[t].checked => OpenFor(pending'[t].id, orders') = {}
        BY EmptiedNow
    <2> QED BY <1>1, <1>4, EmptiedNow DEF MembersInv
<1>6. UsersOk' /\ HeldCovers' /\ NothingDestroyed
    BY <1>1 DEF MembersInv, UsersOk, HeldCovers, NothingDestroyed, Backed, Here
<1>7. OrdersOk' /\ EventsOk' /\ ReviewsOk' /\ DisputesStay
    BY <1>1, SameOrders DEF MembersInv, UsersOk
<1> QED BY <1>3, <1>5, <1>6, <1>7 DEF MembersInv, Stays

\* A deletion asked for and checked is of an account that is empty.
LEMMA AskDeleteStep ==
    ASSUME MembersInv, NEW s \in Slots, (\E u \in users : AskDelete(s, u)) \/ CheckOrders(s)
    PROVE  MembersInv' /\ Stays
<1>1. UNCHANGED <<users, claimed, orders, events, reviews, born, placed>>
    BY DEF AskDelete, CheckOrders
<1>2. UsersOk' /\ HeldCovers' /\ NothingDestroyed
    BY <1>1 DEF MembersInv, UsersOk, HeldCovers, NothingDestroyed, Backed, Here
<1>3. OrdersOk' /\ EventsOk' /\ ReviewsOk' /\ DisputesStay
    BY <1>1, SameOrders DEF MembersInv, UsersOk
<1>4. CASE CheckOrders(s) /\ Unfinished(pending[s].id) # {}
    <2>1. AskedOk' /\ \A t \in Slots : Follows(t, pending'[t])
        BY <1>4, EndsFollows DEF CheckOrders, MembersInv
    <2> QED BY <1>1, <2>1, NothingMoves
<1>5. CASE CheckOrders(s) /\ Unfinished(pending[s].id) = {}
    <2> DEFINE r == [pending[s] EXCEPT !.checked = TRUE]
    <2>1. pending' = [pending EXCEPT ![s] = r] /\ Is(s, "delete")
        BY <1>5 DEF CheckOrders
    <2>2. pending[s] \in [op : {"delete"}, id : Nat, met : BOOLEAN, checked : BOOLEAN]
        BY <2>1, AskedKinds DEF MembersInv
    <2>3. /\ r \in [op : {"delete"}, id : Nat, met : BOOLEAN, checked : BOOLEAN]
          /\ r.op = "delete" /\ r.id = pending[s].id /\ r.met = pending[s].met
        BY <2>2
    <2> HIDE DEF r
    <2>4. pending' \in [Slots -> Asked] /\ \A t \in Slots : pending'[t] = IF t = s THEN r ELSE pending[t]
        BY <2>1, <2>3 DEF MembersInv, AskedOk, Asked
    <2>5. AskedOk'
        BY <2>3, <2>4 DEF MembersInv, AskedOk, Is
    <2>6. OpenFor(pending[s].id, orders) = {}
        BY <1>5 DEF Unfinished, OrdersOf, OpenFor
    <2>7. Emptied'
        <3> SUFFICES ASSUME NEW t \in Slots, pending'[t].op = "delete", ~pending'[t].met
                     PROVE  /\ \A v \in users' : v.id = pending'[t].id => v.available = 0 /\ v.held = 0
                            /\ pending'[t].checked => OpenFor(pending'[t].id, orders') = {}
            BY EmptiedNow
        <3>1. Is(t, "delete") /\ ~pending[t].met /\ pending'[t].id = pending[t].id
                  /\ (t # s => pending'[t] = pending[t])
            BY <2>1, <2>3, <2>4 DEF Is
        <3> QED BY <1>1, <2>6, <3>1, EmptiedNow DEF MembersInv
    <2> QED BY <1>2, <1>3, <2>5, <2>7 DEF MembersInv, Stays
<1>6. CASE \E u \in users : AskDelete(s, u)
    <2>1. PICK u \in users : AskDelete(s, u)
        BY <1>6
    <2> DEFINE r == [op |-> "delete", id |-> u.id, met |-> FALSE, checked |-> FALSE]
    <2>2. u.available = 0 /\ u.held = 0 /\ u.id \in Nat /\ \A w \in users : w.id = u.id => w = u
        BY <2>1 DEF AskDelete, MembersInv, UsersOk, UserRow
    <2>3. pending' = [pending EXCEPT ![s] = r]
        BY <2>1 DEF AskDelete, Asks
    <2>4. r \in Asked /\ r.op = "delete" /\ r.id = u.id /\ ~r.checked
        BY <2>2 DEF Asked
    <2> HIDE DEF r
    <2>5. pending' \in [Slots -> Asked] /\ \A t \in Slots : pending'[t] = IF t = s THEN r ELSE pending[t]
        BY <2>3, <2>4 DEF MembersInv, AskedOk
    <2>6. AskedOk'
        BY <2>4, <2>5 DEF MembersInv, AskedOk, Is
    <2>7. Emptied'
        <3> SUFFICES ASSUME NEW t \in Slots, pending'[t].op = "delete", ~pending'[t].met
                     PROVE  /\ \A v \in users' : v.id = pending'[t].id => v.available = 0 /\ v.held = 0
                            /\ pending'[t].checked => OpenFor(pending'[t].id, orders') = {}
            BY EmptiedNow
        <3>1. CASE t = s
            BY <1>1, <2>2, <2>4, <2>5, <3>1
        <3>2. CASE t # s
            <4>1. pending'[t] = pending[t] /\ Is(t, "delete")
                BY <2>5, <3>2 DEF Is
            <4> QED BY <1>1, <4>1, EmptiedNow DEF MembersInv
        <3> QED BY <3>1, <3>2
    <2> QED BY <1>2, <1>3, <2>6, <2>7 DEF MembersInv, Stays
<1> QED BY <1>4, <1>5, <1>6

\* Reviews change nothing but the reviews.
LEMMA OnlyReviews ==
    ASSUME MembersInv, UNCHANGED <<users, claimed, orders, events, born, placed>>, ReviewsOk',
           AskedOk', \A t \in Slots : Follows(t, pending'[t])
    PROVE  MembersInv' /\ Stays
<1>1. UsersOk' /\ HeldCovers' /\ NothingDestroyed
    BY DEF MembersInv, UsersOk, HeldCovers, NothingDestroyed, Backed, Here
<1>2. OrdersOk' /\ EventsOk' /\ DisputesStay
    BY DEF MembersInv, OrdersOk, EventsOk, DisputesStay, Disputed
<1>3. Emptied'
    BY SameEmptied DEF MembersInv
<1> QED BY <1>1, <1>2, <1>3 DEF MembersInv, Stays

LEMMA InsertStep ==
    ASSUME MembersInv, NEW s \in Slots, InsertReview(s)
    PROVE  MembersInv' /\ Stays
<1> DEFINE o == pending[s].order
           new == [order |-> o.id, seller |-> o.seller, author |-> o.buyer, visible |-> TRUE]
<1>1. AskedOk' /\ \A t \in Slots : Follows(t, pending'[t])
    BY EndsFollows DEF MembersInv, InsertReview
<1>2. o \in OrderRow /\ o.status = "completed"
    BY AskedKinds DEF MembersInv, InsertReview
<1>3. new \in ReviewRow /\ new.order = o.id /\ new.author = o.buyer
    BY <1>2 DEF OrderRow, ReviewRow
<1>4. UNCHANGED <<users, claimed, orders, events, born, placed>>
    BY DEF InsertReview
<1>5. ReviewsOk'
    <2>1. CASE reviews' = reviews
        BY <1>4, <2>1 DEF MembersInv, ReviewsOk
    <2>2. CASE reviews' # reviews
        <3>1. o \in orders /\ (\A r \in reviews : r.order # o.id) /\ reviews' = reviews \cup {new}
            BY <2>2 DEF InsertReview
        <3> HIDE DEF new, o
        <3>2. reviews' \subseteq ReviewRow
            BY <1>3, <3>1 DEF MembersInv, ReviewsOk
        <3>3. \A q, r \in reviews' : q.order = r.order => q = r
            BY <1>3, <3>1 DEF MembersInv, ReviewsOk
        <3>4. \A r \in reviews' : \E q \in orders' :
                  q.id = r.order /\ q.status = "completed" /\ q.buyer = r.author
            BY <1>2, <1>3, <1>4, <3>1 DEF MembersInv, ReviewsOk
        <3> QED BY <3>2, <3>3, <3>4 DEF ReviewsOk
    <2> QED BY <2>1, <2>2
<1> QED BY <1>1, <1>4, <1>5, OnlyReviews

LEMMA HideStep ==
    ASSUME MembersInv, NEW r \in reviews, HideReview(r)
    PROVE  MembersInv' /\ Stays
<1> DEFINE new == [r EXCEPT !.visible = FALSE]
<1>1. UNCHANGED <<users, claimed, orders, events, pending, born, placed>>
      /\ reviews' = (reviews \ {r}) \cup {new}
    BY DEF HideReview
<1>2. AskedOk' /\ \A t \in Slots : Follows(t, pending'[t])
    BY <1>1, SameFollows DEF MembersInv
<1>3. new \in ReviewRow /\ new.order = r.order /\ new.author = r.author
    BY DEF MembersInv, ReviewsOk, ReviewRow
<1> HIDE DEF new
<1>4. ReviewsOk'
    <2>1. reviews' \subseteq ReviewRow
        BY <1>1, <1>3 DEF MembersInv, ReviewsOk
    <2>2. \A p, q \in reviews' : p.order = q.order => p = q
        BY <1>1, <1>3 DEF MembersInv, ReviewsOk
    <2>3. \A p \in reviews' : \E q \in reviews : p.order = q.order /\ p.author = q.author
        BY <1>1, <1>3
    <2>4. \A p \in reviews' : \E q \in orders' : q.id = p.order /\ q.status = "completed" /\ q.buyer = p.author
        BY <1>1, <2>3 DEF MembersInv, ReviewsOk
    <2> QED BY <2>1, <2>2, <2>4 DEF ReviewsOk
<1> QED BY <1>1, <1>2, <1>4, OnlyReviews

LEMMA MembersStep ==
    MembersInv /\ [MembersNext]_memberVars => MembersInv' /\ (MembersNext => Stays)
<1> SUFFICES ASSUME MembersInv, [MembersNext]_memberVars PROVE MembersInv' /\ (MembersNext => Stays)
    OBVIOUS
<1>1. ASSUME NEW s \in Slots,
             \/ \E name \in Names : AskRegister(s, name)
             \/ CommitRegister(s)
             \/ \E u, v \in users : AskOrder(s, u.id, v.id)
             \/ PlaceOrder(s)
             \/ \E u \in users : AskDelete(s, u)
             \/ CheckOrders(s) \/ DeleteAccount(s) \/ Fail(s)
             \/ \E o \in orders : AskReview(s, o)
             \/ InsertReview(s)
      PROVE  MembersInv' /\ Stays
    BY <1>1, AskStep, RegisterStep, PlaceStep, AskDeleteStep, DeleteStep, AskReviewStep, InsertStep
<1>2. ASSUME \/ \E u \in users : MoveMoney(u)
             \/ \E o \in orders :
                    DisputeOrder(o) \/ \E status \in {"completed", "cancelled"} : EndOrder(o, status)
             \/ \E r \in reviews : HideReview(r)
      PROVE  MembersInv' /\ Stays
    BY <1>2, MoneyStep, DisputeStep, EndStep, HideStep
<1>3. MembersNext => MembersInv' /\ Stays
    BY <1>1, <1>2 DEF MembersNext
<1>4. CASE UNCHANGED memberVars
    <2>1. UNCHANGED <<users, claimed, orders, events, reviews, pending, born, placed>>
        BY <1>4 DEF memberVars
    <2>2. AskedOk' /\ \A t \in Slots : Follows(t, pending'[t])
        BY <2>1, SameFollows DEF MembersInv
    <2>3. MembersInv' /\ Stays
        BY <2>1, <2>2, NothingMoves
    <2> QED BY <2>3
<1> QED BY <1>3, <1>4

LEMMA MembersStart == MembersInit => MembersInv
<1> SUFFICES ASSUME MembersInit PROVE MembersInv
    OBVIOUS
<1>1. story.there \in Nat /\ story.coins \in Nat
    BY StoriesAssumption DEF MembersInit
<1>2. PICK name \in [1..story.there -> Names] :
          /\ \A i, j \in 1..story.there : name[i] = name[j] => i = j
          /\ users = {User(i, name[i], i = 1, story.coins) : i \in 1..story.there}
    BY DEF MembersInit
<1>3. /\ claimed = (story.there > 0) /\ born = story.there /\ placed = 0
      /\ orders = {} /\ events = {} /\ reviews = {} /\ pending = [s \in Slots |-> NotAsked]
    BY DEF MembersInit
<1>4. \A u \in users : \E i \in 1..story.there :
          /\ u.id = i /\ u.name = name[i] /\ (u.admin <=> i = 1) /\ u.held = 0
          /\ u = User(i, name[i], i = 1, story.coins) /\ u \in UserRow
    <2> SUFFICES ASSUME NEW i \in 1..story.there
                 PROVE  LET u == User(i, name[i], i = 1, story.coins)
                        IN  u.id = i /\ u.name = name[i] /\ (u.admin <=> i = 1) /\ u.held = 0 /\ u \in UserRow
        BY <1>2
    <2>1. i \in Nat /\ name[i] \in Names /\ (i = 1) \in BOOLEAN
        BY <1>1
    <2> QED BY <1>1, <2>1 DEF User, UserRow
<1>5. UsersOk
    <2>1. \A u \in users : 1 <= u.id /\ u.id <= born /\ (u.admin <=> u.id = 1)
        BY <1>1, <1>3, <1>4
    <2>2. \A u, v \in users : u.id = v.id \/ u.name = v.name => u = v
        BY <1>2, <1>4
    <2>3. claimed \in BOOLEAN /\ (claimed <=> born > 0)
        <3>1. claimed \in BOOLEAN /\ (claimed <=> story.there > 0)
            <4>1. claimed = (story.there > 0)
                BY <1>3
            <4>2. CASE story.there > 0
                <5>1. (story.there > 0) = TRUE
                    BY <4>2
                <5>2. claimed = TRUE
                    BY <4>1, <5>1, Zenon
                <5> QED BY <4>2, <5>2
            <4>3. CASE ~(story.there > 0)
                <5>1. (story.there > 0) = FALSE
                    BY <4>3
                <5>2. claimed = FALSE
                    BY <4>1, <5>1, Zenon
                <5> QED BY <4>3, <5>2
            <4> QED BY <4>2, <4>3
        <3> QED BY <1>3, <3>1
    <2>4. users \subseteq UserRow
        BY <1>4
    <2> QED BY <1>1, <1>3, <2>1, <2>2, <2>3, <2>4 DEF UsersOk
<1>6. OrdersOk /\ EventsOk /\ ReviewsOk
    BY <1>3, FS_EmptySet DEF OrdersOk, EventsOk, ReviewsOk
<1>7. AskedOk /\ Emptied
    BY <1>3 DEF AskedOk, Asked, Emptied, Is, NotAsked
<1>8. HeldCovers
    <2>1. \A n : Bought(n, orders) = {}
        BY <1>3 DEF Bought
    <2>2. Cardinality({}) = 0
        BY FS_EmptySet
    <2>3. \A u \in users : u.held = 0
        BY <1>4
    <2>4. \A u \in users : Cardinality(Bought(u.id, orders)) = 0
        BY <2>1, <2>2
    <2>5. \A u \in users : u.held >= Cardinality(Bought(u.id, orders))
        BY <2>3, <2>4
    <2> QED BY <2>5 DEF HeldCovers
<1> QED BY <1>5, <1>6, <1>7, <1>8 DEF MembersInv

-----------------------------------------------------------------------------
(* Members: what the record says *)

\* The naturals' order, as a relation: of finitely many reviews one is the newest.
Under == {pair \in Nat \X Nat : pair[1] < pair[2]}

LEMMA SomeLeast ==
    ASSUME NEW S \in SUBSET Nat, S # {}
    PROVE  \E n \in S : \A m \in S : n <= m
<1>1. IsWellFoundedOn(Under, Nat)
    BY NatLessThanWellFounded DEF OpToRel, Under
<1>2. PICK x \in S : \A y \in S : <<y, x>> \notin Under
    BY <1>1, WFMin
<1>3. \A y \in S : x <= y
    <2> TAKE y \in S
    <2>1. x \in Nat /\ y \in Nat
        OBVIOUS
    <2>2. ~(y < x)
        BY <1>2, <2>1 DEF Under
    <2> QED BY <2>1, <2>2
<1> QED BY <1>3

LEMMA SomeGreatest ==
    ASSUME NEW S \in SUBSET Nat, S # {}, NEW top \in Nat, \A n \in S : n <= top
    PROVE  \E n \in S : \A m \in S : m <= n
<1> DEFINE below == {top - n : n \in S}
<1>1. below \subseteq Nat /\ below # {}
    <2>1. \A n \in S : n \in Nat /\ n <= top
        OBVIOUS
    <2>2. \A n \in S : top - n \in Nat
        BY <2>1
    <2> QED BY <2>2
<1>2. PICK x \in below : \A y \in below : x <= y
    BY <1>1, SomeLeast
<1>3. PICK n \in S : x = top - n
    OBVIOUS
<1>4. \A m \in S : top - n <= top - m
    BY <1>2, <1>3
<1> QED BY <1>4

RecordNow ==
    \A u \in users :
        /\ \A v, w \in Voices(u.id) : v.author = w.author => v = w
        /\ \A r \in Visible(u.id) : \E v \in Voices(u.id) : v.author = r.author
        /\ \A r \in Visible(u.id) :
               \E o \in orders : o.id = r.order /\ o.status = "completed" /\ o.buyer = r.author

LEMMA RecordHolds == MembersInv => RecordNow
<1> SUFFICES ASSUME MembersInv, NEW u \in users
             PROVE  /\ \A v, w \in Voices(u.id) : v.author = w.author => v = w
                    /\ \A r \in Visible(u.id) : \E v \in Voices(u.id) : v.author = r.author
                    /\ \A r \in Visible(u.id) :
                           \E o \in orders : o.id = r.order /\ o.status = "completed" /\ o.buyer = r.author
    BY DEF RecordNow
<1>1. \A r \in Visible(u.id) : r \in reviews /\ r.order \in Nat
    BY DEF Visible, MembersInv, ReviewsOk, ReviewRow
<1>2. \A v, w \in Voices(u.id) : v.author = w.author => v = w
    <2> SUFFICES ASSUME NEW v \in Voices(u.id), NEW w \in Voices(u.id), v.author = w.author PROVE v = w
        OBVIOUS
    <2>1. v \in Visible(u.id) /\ w \in Visible(u.id) /\ ~(w.order > v.order) /\ ~(v.order > w.order)
        BY DEF Voices, Newer
    <2>2. v.order = w.order
        BY <1>1, <2>1
    <2> QED BY <1>1, <2>1, <2>2 DEF MembersInv, ReviewsOk
<1>3. ASSUME NEW r \in Visible(u.id) PROVE \E v \in Voices(u.id) : v.author = r.author
    <2> DEFINE Said == {q \in Visible(u.id) : q.author = r.author}
               Numbers == {q.order : q \in Said}
    <2>1. Numbers \in SUBSET Nat /\ Numbers # {}
        BY <1>1
    <2>2. placed \in Nat /\ \A n \in Numbers : n <= placed
        <3>1. \A q \in Said : \E o \in orders : o.id = q.order
            BY <1>1 DEF MembersInv, ReviewsOk
        <3> QED BY <3>1 DEF MembersInv, OrdersOk
    <2>3. PICK n \in Numbers : \A m \in Numbers : m <= n
        BY <2>1, <2>2, SomeGreatest
    <2>4. PICK q \in Said : q.order = n
        OBVIOUS
    <2>5. \A p \in Said : p.order <= q.order
        BY <2>3, <2>4
    <2>6. Newer(u.id, q) = {}
        BY <1>1, <2>4, <2>5 DEF Newer
    <2> QED BY <2>4, <2>6 DEF Voices
<1>4. \A r \in Visible(u.id) :
          \E o \in orders : o.id = r.order /\ o.status = "completed" /\ o.buyer = r.author
    BY <1>1 DEF MembersInv, ReviewsOk
<1> QED BY <1>2, <1>3, <1>4

\* Accounts register, order, review and leave beside each other: one founder, no
\* money lost with an account that nothing met on its way out, and a rating with one
\* voice a buyer, for any number of accounts, orders and requests.
THEOREM AccountsInOrder == MembersSpec => AccountsComeAndGo
<1>1. MembersInit => MembersInv
    BY MembersStart
<1>2. MembersInv /\ [MembersNext]_memberVars => MembersInv'
    BY MembersStep
<1>3. MembersInv => RecordNow
    BY RecordHolds
<1>4. MembersInv => OneFounder
    BY DEF MembersInv, UsersOk, OneFounder
<1>5. MembersInv /\ RecordNow' /\ OneFounder' /\ [MembersNext]_memberVars
          => [OneFounder' /\ NothingDestroyed /\ RecordStands]_memberVars
    <2> SUFFICES ASSUME MembersInv, RecordNow', OneFounder', MembersNext
                 PROVE  OneFounder' /\ NothingDestroyed /\ RecordStands
        OBVIOUS
    <2>1. NothingDestroyed /\ DisputesStay
        BY MembersStep DEF Stays
    <2>2. RecordStands
        BY <2>1 DEF RecordStands, RecordNow, DisputesStay
    <2> QED BY <2>1, <2>2
<1> QED BY <1>1, <1>2, <1>3, <1>4, <1>5, PTL DEF MembersSpec, AccountsComeAndGo

-----------------------------------------------------------------------------
(* Vault: tabs, what requests carry, and whose they are *)

BackupRow == [master : Nat, password : Nat, phrase : Nat, linked : BOOLEAN]
Tab == [session : Nat, held : BackupRow, local : BackupRow, rewrapped : BackupRow]
Load ==
    [browser : mix.browsers \cup {None}, backup : BackupRow, password : Nat, phrase : Nat, overlap : BOOLEAN]

AsksFor(c, routes) == requests[c] # Idle /\ requests[c].route \in routes

SignIns == {"login", "claim", "recover"}
VaultRoutes == SignIns \cup {"recovery", "save", "password", "phrase", "link"}

VaultTyped ==
    /\ secret \in [password : Nat, phrase : Nat, by : {"password", "recover"}]
    /\ vault \in BackupRow /\ late \in BOOLEAN /\ made \in Nat
    /\ browsers \in [mix.browsers -> Tab]
    /\ carried \in [Requests -> Load]
    /\ secret.password <= made /\ \A c \in Requests : carried[c].password <= made

\* Only a request under way carries something, and only some routes are asked for.
RouteOk(c) ==
    /\ requests[c] = Idle => carried[c] = Nothing
    /\ requests[c] # Idle => requests[c].route \in mix.routes \cap VaultRoutes
    /\ At(c, "write") => requests[c].route = "save"
    /\ At(c, "mint") => requests[c].route \in SignIns \cup {"password"}
    /\ AsksFor(c, {"save", "password", "phrase"}) => carried[c].backup.master > 0
    /\ AsksFor(c, {"phrase"}) => carried[c].phrase > 0
RoutesOk == \A c \in Requests : RouteOk(c)

\* Sessions and tickets are numbered together, and a session is one browser's.
SessionsOk ==
    /\ issued <= MaxIssued
    /\ \A s \in sessions : s.id <= issued
    /\ \A c \in Requests : requests[c] # Idle => requests[c].session <= issued
    /\ \A b \in mix.browsers : browsers[b].session <= issued \/ browsers[b].session = NoSession
    /\ \A a, b \in mix.browsers : browsers[a].session = browsers[b].session /\ a # b =>
           browsers[a].session = NoSession

From(c, b) == carried[c].browser = b
Blank(b) == browsers[b].held = NoBackup /\ browsers[b].rewrapped = NoBackup

\* A tab that holds keys, or has a backup to upload, does not sign in, and one
\* that does neither asks for nothing else.
Copy(x) == x = NoBackup \/ x.master > 0
TabOk(b) ==
    /\ Copy(browsers[b].held) /\ Copy(browsers[b].local) /\ Copy(browsers[b].rewrapped)
    /\ browsers[b].held = NoBackup \/ browsers[b].rewrapped = NoBackup
AskerOk(c, b) ==
    /\ From(c, b) /\ AsksFor(c, SignIns) =>
           /\ Blank(b)
           /\ "reload" \notin mix.features => browsers[b].local = NoBackup
    /\ From(c, b) /\ AsksFor(c, {"save"}) => ~Blank(b)
    /\ From(c, b) /\ AsksFor(c, {"password", "phrase"}) => browsers[b].held # NoBackup
    \* The tab that asked for a phrase is the only one with its session.
    /\ AsksFor(c, {"phrase"}) /\ browsers[b].session = requests[c].session /\ ~From(c, b) => Blank(b)
SignsIn(c, b) == From(c, b) /\ AsksFor(c, SignIns)
OneSignIn(b) == \A c, d \in Requests : SignsIn(c, b) /\ SignsIn(d, b) => c = d
TabsOk ==
    /\ Copy(vault)
    /\ \A b \in mix.browsers : OneSignIn(b)
    /\ \A b \in mix.browsers : TabOk(b) /\ \A c \in Requests : AskerOk(c, b)

\* The password a request carries is the account's until another is set; and what
\* a change of it carries is what the tab holds, or held.
SecretOk(c) ==
    /\ AsksFor(c, {"login", "claim"}) /\ ~requests[c].overlap => carried[c].password = secret.password
    /\ AsksFor(c, {"password", "recover"}) /\ (At(c, "revoke") \/ At(c, "mint")) /\ ~requests[c].overlap =>
           carried[c].password = secret.password
    /\ AsksFor(c, {"phrase"}) /\ At(c, "revoke") /\ ~requests[c].overlap => carried[c].phrase = secret.phrase
    /\ AsksFor(c, {"phrase"}) => carried[c].backup.phrase = carried[c].phrase
    /\ AsksFor(c, {"password"}) =>
           /\ carried[c].backup.password = carried[c].password
           /\ \A b \in mix.browsers : From(c, b) => browsers[b].held.password >= carried[c].password
SecretsOk == \A c \in Requests : SecretOk(c)

\* Keys of the first browser, or a linked one's own.
Ours(x) == x = NoBackup \/ (x.master = 1 /\ ~x.linked /\ x.phrase > 0)
OursOrLinked(x) == Ours(x) \/ (x.linked /\ "claim" \in mix.routes)
KeysInv ==
    OneOwner =>
        /\ vault # NoBackup /\ Ours(vault)
        /\ \A b \in mix.browsers :
               OursOrLinked(browsers[b].held) /\ OursOrLinked(browsers[b].local) /\ Ours(browsers[b].rewrapped)
        /\ \A c \in Requests : Ours(carried[c].backup)

\* Nothing changed while a request was under way, nor its session before.
Quiet == \A d \in Requests : ~At(d, "revoke")
OthersQuiet(c) == \A d \in Requests \ {c} : ~At(d, "revoke")
Undisturbed(c) == requests[c] # Idle /\ ~requests[c].overlap /\ ~carried[c].overlap /\ OthersQuiet(c)
InSession(c, b) == browsers[b].session = requests[c].session \/ From(c, b)

\* What was committed under a disturbed session made the backup late.
LateKnown ==
    \A c \in Requests : AsksFor(c, {"password", "phrase"}) /\ (At(c, "revoke") \/ At(c, "mint")) =>
        ~carried[c].overlap

\* The wraps for the password are not behind it.
WrapNow(x) == x = NoBackup \/ x.password >= secret.password
TabNow(b) == WrapNow(browsers[b].held) /\ WrapNow(browsers[b].rewrapped)
SessionNow(s) == ~s.overlap => \A b \in mix.browsers : browsers[b].session = s.id => TabNow(b)
SlotNow(c) ==
    AsksFor(c, {"save", "phrase"}) /\ Undisturbed(c) =>
        WrapNow(carried[c].backup) /\ \A b \in mix.browsers : InSession(c, b) => TabNow(b)
PasswordNow ==
    /\ WrapNow(vault) \/ secret.by = "recover"
    /\ Quiet => \A s \in sessions : SessionNow(s)
    /\ \A c \in Requests : SlotNow(c)
    /\ LateKnown
PasswordInv == late \/ torn \/ PasswordNow

\* The wraps for the phrase are for the one that takes the account.
PhraseOf(x) == x = NoBackup \/ x.linked \/ x.phrase = secret.phrase
TabPhrase(b) == PhraseOf(browsers[b].held) /\ PhraseOf(browsers[b].rewrapped)
SessionPhrase(s) == ~s.overlap => \A b \in mix.browsers : browsers[b].session = s.id => TabPhrase(b)
SlotPhrase(c) ==
    (AsksFor(c, {"save", "password"}) \/ (AsksFor(c, {"phrase"}) /\ At(c, "commit"))) /\ Undisturbed(c) =>
        /\ \A b \in mix.browsers : InSession(c, b) => TabPhrase(b)
        /\ AsksFor(c, {"save", "password"}) => PhraseOf(carried[c].backup)
PhraseNow ==
    /\ vault.phrase = secret.phrase
    /\ Quiet => \A s \in sessions : SessionPhrase(s)
    /\ \A c \in Requests : SlotPhrase(c)
InHand == OneOwner /\ mix.features \cap {"reload", "lose"} = {}
PhraseInv == InHand => late \/ torn \/ PhraseNow

\* Without browsers the vault is left alone.
Untouched ==
    /\ secret = [password |-> 1, phrase |-> 1, by |-> "password"]
    /\ vault = (IF mix.saved THEN First ELSE NoBackup)
    /\ \A c \in Requests : ~At(c, "write")
    /\ carried \in [Requests -> {Nothing}]

TheVault == VaultTyped /\ RoutesOk /\ SessionsOk /\ TabsOk /\ SecretsOk /\ KeysInv /\ PasswordInv /\ PhraseInv
VaultInv ==
    IF mix.browsers = {} THEN Untouched
    ELSE TheVault

-----------------------------------------------------------------------------
(* Vault: what the definitions are about *)

LEMMA RequestRow ==
    ASSUME TypeInv, NEW c \in Requests
    PROVE  /\ requests[c] = Idle \/ (requests[c] # Idle /\ requests[c] \in Request)
           /\ requests[c] \in Request => /\ requests[c] # Idle /\ requests[c].session \in Nat
                                         /\ requests[c].overlap \in BOOLEAN /\ requests[c].step # "idle"
           /\ \A step : step # "idle" /\ At(c, step) => requests[c] \in Request
BY RequestSteps DEF TypeInv, Request, Idle, At

LEMMA NumbersOk ==
    ASSUME TypeInv
    PROVE  /\ issued \in Nat /\ MaxIssued \in Nat /\ NoSession = MaxIssued + 1
           /\ \A s \in sessions : s.id \in Nat /\ s.overlap \in BOOLEAN
           /\ None \notin mix.browsers
<1>1. mix.calls \in Nat /\ None \notin mix.browsers
    BY MixesAssumption, BrowsersAssumption DEF TypeInv
<1>2. MaxIssued \in Nat
    BY <1>1 DEF MaxIssued
<1> QED BY <1>1, <1>2 DEF TypeInv, NoSession, Row

LEMMA NoBackupRow ==
    /\ NoBackup \in BackupRow /\ First \in BackupRow
    /\ NoBackup.master = 0 /\ ~NoBackup.linked /\ NoBackup.phrase = 0 /\ NoBackup.password = 0
    /\ First.master = 1 /\ First.password = 1 /\ First.phrase = 1 /\ ~First.linked /\ First # NoBackup
BY DEF NoBackup, First, Backup, BackupRow

LEMMA TabRow ==
    ASSUME VaultTyped, NEW b \in mix.browsers
    PROVE  /\ browsers[b] \in Tab /\ browsers[b].session \in Nat
           /\ browsers[b].held \in BackupRow /\ browsers[b].local \in BackupRow
           /\ browsers[b].rewrapped \in BackupRow
           /\ browsers[b].held.password \in Nat /\ browsers[b].rewrapped.password \in Nat
BY DEF VaultTyped, Tab, BackupRow

LEMMA LoadRow ==
    ASSUME VaultTyped, NEW c \in Requests
    PROVE  /\ carried[c] \in Load /\ carried[c].browser \in mix.browsers \cup {None}
           /\ carried[c].backup \in BackupRow /\ carried[c].backup.password \in Nat
           /\ carried[c].password \in Nat /\ carried[c].phrase \in Nat /\ carried[c].overlap \in BOOLEAN
BY DEF VaultTyped, Load, BackupRow

LEMMA NothingCarried ==
    ASSUME None \notin mix.browsers
    PROVE  /\ Nothing \in Load /\ Nothing.browser = None /\ Nothing.backup = NoBackup
           /\ Nothing.password = 0 /\ ~Nothing.overlap
BY NoBackupRow DEF Nothing, Carries, Load

-----------------------------------------------------------------------------
(* Vault: slots that keep what they are about *)

\* A request goes on under the same route and session, or leaves its slot; its tab
\* may have been closed.
GoesOn(q, r) ==
    /\ q \in Request /\ r \in Request /\ r.route = q.route /\ r.session = q.session
    /\ q.overlap => r.overlap
    /\ r.step = "revoke" <=> q.step = "revoke"
    /\ r.step = "write" => q.step = "write"
    /\ r.step = "mint" => q.step = "mint" \/ r.route = "claim"
    /\ r.step = "commit" /\ r.route = "phrase" => q.step = "commit"

Keeps(c) ==
    \/ requests'[c] = Idle /\ carried'[c] = Nothing
    \/ /\ GoesOn(requests[c], requests'[c])
       /\ carried'[c] = carried[c] \/ carried'[c] = [carried[c] EXCEPT !.browser = None]

LEMMA KeepsFacts ==
    ASSUME TypeInv, VaultTyped, mix' = mix, NEW c \in Requests, Keeps(c)
    PROVE  /\ \A routes : AsksFor(c, routes)' => AsksFor(c, routes)
           /\ requests'[c] # Idle =>
                  /\ GoesOn(requests[c], requests'[c]) /\ requests[c] # Idle
                  /\ carried'[c].backup = carried[c].backup /\ carried'[c].password = carried[c].password
                  /\ carried'[c].phrase = carried[c].phrase /\ carried'[c].overlap = carried[c].overlap
           /\ \A b \in mix.browsers : From(c, b)' => From(c, b) /\ requests'[c] # Idle /\ carried'[c] = carried[c]
           /\ \A b \in mix.browsers : From(c, b) /\ requests'[c] # Idle /\ carried'[c] = carried[c] => From(c, b)'
           /\ carried'[c] \in Load /\ (carried'[c].password = carried[c].password \/ carried'[c].password = 0)
           /\ Ours(carried[c].backup) => Ours(carried'[c].backup)
           /\ \A step \in {"revoke", "write"} : At(c, step)' => At(c, step)
<1>0. None \notin mix.browsers /\ Nothing.browser = None /\ Nothing \in Load
      /\ Nothing.password = 0 /\ Nothing.backup = NoBackup /\ Ours(NoBackup)
    BY NumbersOk, NothingCarried DEF Ours
<1>1. CASE requests'[c] = Idle /\ carried'[c] = Nothing
    BY <1>0, <1>1 DEF AsksFor, From, At, Idle
<1>2. CASE /\ GoesOn(requests[c], requests'[c])
           /\ carried'[c] = carried[c] \/ carried'[c] = [carried[c] EXCEPT !.browser = None]
    <2>1. requests'[c] # Idle /\ requests[c] # Idle
        BY <1>2, RequestSteps DEF GoesOn
    <2>2. carried[c] \in Load
        BY LoadRow
    <2>3. /\ carried'[c].backup = carried[c].backup /\ carried'[c].password = carried[c].password
          /\ carried'[c].phrase = carried[c].phrase /\ carried'[c].overlap = carried[c].overlap
          /\ carried'[c] \in Load
          /\ carried'[c].browser = carried[c].browser \/ carried'[c].browser = None
        BY <1>2, <2>2 DEF Load
    <2>4. \A routes : AsksFor(c, routes)' => AsksFor(c, routes)
        BY <1>2, <2>1 DEF AsksFor, GoesOn
    <2>5. \A b \in mix.browsers : From(c, b)' => From(c, b) /\ carried'[c] = carried[c]
        <3> SUFFICES ASSUME NEW b \in mix.browsers, From(c, b)' PROVE From(c, b) /\ carried'[c] = carried[c]
            OBVIOUS
        <3>1. carried'[c].browser = b /\ b # None
            BY <1>0 DEF From
        <3>2. carried'[c] # [carried[c] EXCEPT !.browser = None]
            BY <2>2, <3>1 DEF Load
        <3> QED BY <1>2, <3>1, <3>2 DEF From
    <2>6. \A step \in {"revoke", "write"} : At(c, step)' => At(c, step)
        BY <1>2 DEF At, GoesOn
    <2>7. \A b \in mix.browsers : From(c, b) /\ carried'[c] = carried[c] => From(c, b)'
        BY DEF From
    <2>8. Ours(carried[c].backup) => Ours(carried'[c].backup)
        BY <2>3 DEF Ours
    <2> QED BY <1>2, <2>1, <2>3, <2>4, <2>5, <2>6, <2>7, <2>8
<1> QED BY <1>1, <1>2 DEF Keeps

LEMMA KeptRoutes ==
    ASSUME TypeInv, VaultTyped, RoutesOk, mix' = mix, \A c \in Requests : Keeps(c) \/ RouteOk(c)'
    PROVE  RoutesOk'
<1> SUFFICES ASSUME NEW c \in Requests, Keeps(c) PROVE RouteOk(c)'
    BY DEF RoutesOk
<1>1. CASE requests'[c] = Idle /\ carried'[c] = Nothing
    BY <1>1 DEF RouteOk, At, AsksFor, Idle
<1>2. CASE requests'[c] # Idle
    <2>1. GoesOn(requests[c], requests'[c]) /\ requests[c] # Idle /\ carried'[c].backup = carried[c].backup
          /\ carried'[c].phrase = carried[c].phrase
        BY <1>2, KeepsFacts
    <2>2. /\ AsksFor(c, {"save", "password", "phrase"})' => AsksFor(c, {"save", "password", "phrase"})
          /\ AsksFor(c, {"phrase"})' => AsksFor(c, {"phrase"})
        BY KeepsFacts
    <2>3. RouteOk(c)
        BY DEF RoutesOk
    <2> QED BY <1>2, <2>1, <2>2, <2>3 DEF RouteOk, At, GoesOn, SignIns
<1> QED BY <1>1, <1>2, RequestSteps DEF Keeps, GoesOn

\* What a request for a new password was sent stays behind what its tab holds.
HeldGrows(c) ==
    \A b \in mix.browsers : From(c, b)' /\ AsksFor(c, {"password"}) =>
        browsers'[b].held.password >= carried[c].password

LEMMA KeptSecrets ==
    ASSUME TypeInv, VaultTyped, SecretsOk, mix' = mix,
           \A c \in Requests :
               \/ SecretOk(c)'
               \/ Keeps(c) /\ HeldGrows(c) /\ (secret' = secret \/ requests'[c] = Idle \/ requests'[c].overlap)
    PROVE  SecretsOk'
<1> SUFFICES ASSUME NEW c \in Requests, Keeps(c), HeldGrows(c),
                    secret' = secret \/ requests'[c] = Idle \/ requests'[c].overlap
             PROVE  SecretOk(c)'
    BY DEF SecretsOk
<1>1. CASE requests'[c] = Idle
    BY <1>1 DEF SecretOk, AsksFor
<1>2. CASE requests'[c] # Idle
    <2>1. /\ GoesOn(requests[c], requests'[c]) /\ carried'[c].backup = carried[c].backup
          /\ carried'[c].phrase = carried[c].phrase /\ carried'[c].password = carried[c].password
        BY <1>2, KeepsFacts
    <2>2. /\ AsksFor(c, {"login", "claim"})' => AsksFor(c, {"login", "claim"})
          /\ AsksFor(c, {"password", "recover"})' => AsksFor(c, {"password", "recover"})
          /\ AsksFor(c, {"phrase"})' => AsksFor(c, {"phrase"})
          /\ AsksFor(c, {"password"})' => AsksFor(c, {"password"})
        BY KeepsFacts
    <2>3. SecretOk(c)
        BY DEF SecretsOk
    <2>4. At(c, "revoke")' => At(c, "revoke")
        BY <2>1 DEF At, GoesOn
    <2>5. AsksFor(c, {"password", "recover"})' /\ At(c, "mint")' => At(c, "mint")
        BY <2>1 DEF At, GoesOn, AsksFor
    <2>6. requests[c].overlap => requests'[c].overlap
        BY <2>1 DEF GoesOn
    <2>7. AsksFor(c, {"password"})' => \A b \in mix.browsers : From(c, b)' => browsers'[b].held.password >= carried'[c].password
        BY <2>1, <2>2 DEF HeldGrows
    <2>8. secret' = secret \/ requests'[c].overlap
        BY <1>2
    <2> QED BY <2>1, <2>2, <2>3, <2>4, <2>5, <2>6, <2>7, <2>8 DEF SecretOk
<1> QED BY <1>1, <1>2

-----------------------------------------------------------------------------
(* Vault: sessions, tabs and what they hold while slots keep what they are about *)

LEMMA KeptSessions ==
    ASSUME TypeInv, TypeInv', VaultTyped, SessionsOk, mix' = mix, issued <= issued', issued' <= MaxIssued,
           \A s \in sessions' : s.id <= issued',
           \A c \in Requests : Keeps(c) \/ requests'[c].session <= issued',
           \A b \in mix.browsers : browsers'[b].session \in {browsers[b].session, NoSession}
    PROVE  SessionsOk'
<1>1. MaxIssued' = MaxIssued /\ NoSession' = NoSession /\ NoSession \in Nat
    BY NumbersOk DEF MaxIssued, NoSession
<1>2. issued \in Nat /\ issued' \in Nat
    BY DEF TypeInv
<1>3. ASSUME NEW c \in Requests, requests'[c] # Idle PROVE requests'[c].session <= issued'
    <2>1. CASE Keeps(c)
        <3>1. requests[c] # Idle /\ requests'[c].session = requests[c].session /\ requests[c].session <= issued
            BY <1>3, <2>1, KeepsFacts DEF SessionsOk, GoesOn
        <3>2. requests[c].session \in Nat
            BY <3>1, RequestRow
        <3> QED BY <1>2, <3>1, <3>2
    <2> QED BY <2>1
<1>4. ASSUME NEW b \in mix.browsers PROVE browsers'[b].session <= issued' \/ browsers'[b].session = NoSession
    <2>1. browsers[b].session <= issued \/ browsers[b].session = NoSession
        BY DEF SessionsOk
    <2>2. browsers[b].session \in Nat
        BY TabRow
    <2> QED BY <1>2, <2>1, <2>2
<1>5. \A a, b \in mix.browsers : browsers'[a].session = browsers'[b].session /\ a # b =>
          browsers'[a].session = NoSession
    BY DEF SessionsOk
<1> QED BY <1>1, <1>3, <1>4, <1>5 DEF SessionsOk

\* A tab that keeps its session, and is as empty as before.
TabStays(b) ==
    /\ browsers'[b].session = browsers[b].session
    /\ browsers'[b].held = NoBackup <=> browsers[b].held = NoBackup
    /\ browsers'[b].rewrapped = NoBackup <=> browsers[b].rewrapped = NoBackup
    /\ Blank(b) /\ browsers[b].local = NoBackup => browsers'[b].local = NoBackup

LEMMA KeptAsker ==
    ASSUME TypeInv, VaultTyped, mix' = mix, NEW c \in Requests, Keeps(c), NEW b \in mix.browsers,
           AskerOk(c, b), TabStays(b),
           From(c, b) /\ requests'[c] # Idle => From(c, b)'
    PROVE  AskerOk(c, b)'
<1>1. CASE requests'[c] = Idle
    BY <1>1 DEF AskerOk, AsksFor
<1>2. CASE requests'[c] # Idle
    <2>1. /\ AsksFor(c, SignIns)' => AsksFor(c, SignIns)
          /\ AsksFor(c, {"save"})' => AsksFor(c, {"save"})
          /\ AsksFor(c, {"phrase"})' => AsksFor(c, {"phrase"})
          /\ AsksFor(c, {"password", "phrase"})' => AsksFor(c, {"password", "phrase"})
        BY KeepsFacts DEF SignIns
    <2>2. From(c, b)' <=> From(c, b)
        BY <1>2, KeepsFacts
    <2>3. requests'[c].session = requests[c].session
        BY <1>2, KeepsFacts DEF GoesOn
    <2>4. Blank(b)' <=> Blank(b)
        BY DEF TabStays, Blank
    <2> QED BY <2>1, <2>2, <2>3, <2>4 DEF AskerOk, TabStays
<1> QED BY <1>1, <1>2

Unrevoked == \A c \in Requests : At(c, "revoke") => At(c, "revoke")'

LEMMA KeptQuiet ==
    ASSUME TypeInv, VaultTyped, mix' = mix, Unrevoked
    PROVE  /\ Quiet' => Quiet
           /\ \A c \in Requests : OthersQuiet(c)' => OthersQuiet(c)
           /\ \A c \in Requests : Keeps(c) /\ Undisturbed(c)' => Undisturbed(c)
<1>1. \A c \in Requests : OthersQuiet(c)' => OthersQuiet(c)
    BY DEF OthersQuiet, Unrevoked
<1>2. ASSUME NEW c \in Requests, Keeps(c), Undisturbed(c)' PROVE Undisturbed(c)
    BY <1>1, <1>2, KeepsFacts DEF Undisturbed, GoesOn
<1> QED BY <1>1, <1>2 DEF Quiet, Unrevoked

\* No session, and no request, is that of the tab.
Fresh(b) ==
    /\ \A s \in sessions : s.id # browsers'[b].session
    /\ \A c \in Requests : requests[c] # Idle => requests[c].session # browsers'[b].session

TabKeepsNow(b) ==
    \/ browsers'[b].session = browsers[b].session /\ (TabNow(b) => TabNow(b)')
    \/ TabNow(b)'
    \/ Fresh(b) /\ \A c \in Requests : From(c, b)' /\ AsksFor(c, {"save", "phrase"}) => (TabNow(b) => TabNow(b)')

LEMMA KeptLate ==
    ASSUME TypeInv, VaultTyped, mix' = mix, LateKnown,
           \A c \in Requests :
               Keeps(c) \/ (AsksFor(c, {"password", "phrase"})' => ~At(c, "revoke")' /\ ~At(c, "mint")')
    PROVE  LateKnown'
<1> SUFFICES ASSUME NEW c \in Requests, AsksFor(c, {"password", "phrase"})', (At(c, "revoke") \/ At(c, "mint"))',
                    Keeps(c)
             PROVE  ~carried'[c].overlap
    BY DEF LateKnown
<1>1. /\ GoesOn(requests[c], requests'[c]) /\ carried'[c].overlap = carried[c].overlap
      /\ AsksFor(c, {"password", "phrase"})
    BY KeepsFacts DEF AsksFor
<1>2. At(c, "revoke") \/ At(c, "mint")
    BY <1>1 DEF GoesOn, At, AsksFor
<1> QED BY <1>1, <1>2 DEF LateKnown

LEMMA KeptPassword ==
    ASSUME TypeInv, VaultTyped, mix' = mix, secret' = secret, PasswordNow, Unrevoked,
           WrapNow(vault)' \/ vault' = vault,
           \A c \in Requests :
               Keeps(c) \/ (SlotNow(c)' /\ (AsksFor(c, {"password", "phrase"})' => ~At(c, "revoke")' /\ ~At(c, "mint")')),
           \A s \in sessions' : s \in sessions \/ (Quiet' => SessionNow(s)'),
           \A b \in mix.browsers : TabKeepsNow(b)
    PROVE  PasswordNow'
<1>1. (WrapNow(vault) \/ secret.by = "recover")'
    BY DEF PasswordNow, WrapNow
<1>2. ASSUME Quiet', NEW s \in sessions' PROVE SessionNow(s)'
    <2> SUFFICES ASSUME s \in sessions, ~s.overlap, NEW b \in mix.browsers, browsers'[b].session = s.id PROVE TabNow(b)'
        BY <1>2 DEF SessionNow
    <2>1. Quiet
        BY <1>2, KeptQuiet
    <2>2. browsers[b].session = s.id => TabNow(b)
        BY <2>1 DEF PasswordNow, SessionNow
    <2> QED BY <2>2 DEF TabKeepsNow, Fresh
<1>3. ASSUME NEW c \in Requests PROVE SlotNow(c)'
    <2> SUFFICES ASSUME Keeps(c), AsksFor(c, {"save", "phrase"})', Undisturbed(c)'
                 PROVE  (WrapNow(carried[c].backup) /\ \A b \in mix.browsers : InSession(c, b) => TabNow(b))'
        BY DEF SlotNow
    <2>1. AsksFor(c, {"save", "phrase"}) /\ Undisturbed(c)
        BY KeepsFacts, KeptQuiet
    <2>2. WrapNow(carried[c].backup) /\ \A b \in mix.browsers : InSession(c, b) => TabNow(b)
        BY <2>1 DEF PasswordNow, SlotNow
    <2>3. /\ carried'[c].backup = carried[c].backup /\ requests'[c].session = requests[c].session
          /\ requests[c] # Idle
        BY KeepsFacts DEF AsksFor, GoesOn
    <2>4. WrapNow(carried[c].backup)'
        BY <2>2, <2>3 DEF WrapNow
    <2>5. ASSUME NEW b \in mix.browsers, InSession(c, b)' PROVE TabNow(b)'
        <3>1. From(c, b)' => From(c, b)
            BY KeepsFacts
        <3>2. CASE Fresh(b) /\ \A d \in Requests : From(d, b)' /\ AsksFor(d, {"save", "phrase"}) => (TabNow(b) => TabNow(b)')
            BY <2>1, <2>2, <2>3, <2>5, <3>1, <3>2 DEF Fresh, InSession
        <3>3. CASE browsers'[b].session = browsers[b].session /\ (TabNow(b) => TabNow(b)')
            BY <2>2, <2>3, <2>5, <3>1, <3>3 DEF InSession
        <3> QED BY <3>2, <3>3 DEF TabKeepsNow
    <2> QED BY <2>4, <2>5
<1>4. LateKnown'
    BY KeptLate DEF PasswordNow
<1> QED BY <1>1, <1>2, <1>3, <1>4 DEF PasswordNow

TabKeepsPhrase(b) ==
    \/ browsers'[b].session = browsers[b].session /\ (TabPhrase(b) => TabPhrase(b)')
    \/ TabPhrase(b)'
    \/ Fresh(b) /\ \A c \in Requests :
                       From(c, b)' /\ AsksFor(c, {"save", "password", "phrase"}) => (TabPhrase(b) => TabPhrase(b)')

LEMMA KeptPhrase ==
    ASSUME TypeInv, VaultTyped, mix' = mix, secret' = secret, PhraseNow, Unrevoked,
           vault'.phrase = secret.phrase,
           \A c \in Requests : Keeps(c) \/ SlotPhrase(c)',
           \A s \in sessions' : s \in sessions \/ (Quiet' => SessionPhrase(s)'),
           \A b \in mix.browsers : TabKeepsPhrase(b)
    PROVE  PhraseNow'
<1>2. ASSUME Quiet', NEW s \in sessions' PROVE SessionPhrase(s)'
    <2> SUFFICES ASSUME s \in sessions, ~s.overlap, NEW b \in mix.browsers, browsers'[b].session = s.id
                 PROVE  TabPhrase(b)'
        BY <1>2 DEF SessionPhrase
    <2>1. Quiet
        BY <1>2, KeptQuiet
    <2>2. browsers[b].session = s.id => TabPhrase(b)
        BY <2>1 DEF PhraseNow, SessionPhrase
    <2> QED BY <2>2 DEF TabKeepsPhrase, Fresh
<1>3. ASSUME NEW c \in Requests PROVE SlotPhrase(c)'
    <2> SUFFICES ASSUME Keeps(c), Undisturbed(c)',
                        (AsksFor(c, {"save", "password"}) \/ (AsksFor(c, {"phrase"}) /\ At(c, "commit")))'
                 PROVE  (/\ \A b \in mix.browsers : InSession(c, b) => TabPhrase(b)
                         /\ AsksFor(c, {"save", "password"}) => PhraseOf(carried[c].backup))'
        BY DEF SlotPhrase
    <2>0. requests'[c] # Idle
        BY DEF Undisturbed
    <2>1. /\ AsksFor(c, {"save", "password"})' => AsksFor(c, {"save", "password"})
          /\ AsksFor(c, {"phrase"})' => AsksFor(c, {"phrase"})
          /\ Undisturbed(c)
        BY KeepsFacts, KeptQuiet
    <2>3. /\ carried'[c].backup = carried[c].backup /\ GoesOn(requests[c], requests'[c])
          /\ requests[c] # Idle /\ requests'[c].session = requests[c].session
        BY <2>0, KeepsFacts DEF GoesOn
    <2>6. AsksFor(c, {"phrase"})' /\ At(c, "commit")' => At(c, "commit")
        BY <2>3 DEF GoesOn, At, AsksFor
    <2>2. /\ \A b \in mix.browsers : InSession(c, b) => TabPhrase(b)
          /\ AsksFor(c, {"save", "password"}) => PhraseOf(carried[c].backup)
        BY <2>1, <2>6 DEF PhraseNow, SlotPhrase
    <2>4. AsksFor(c, {"save", "password"})' => PhraseOf(carried[c].backup)'
        BY <2>1, <2>2, <2>3 DEF PhraseOf
    <2>7. AsksFor(c, {"save", "password", "phrase"})
        BY <2>1 DEF AsksFor
    <2>5. ASSUME NEW b \in mix.browsers, InSession(c, b)' PROVE TabPhrase(b)'
        <3>1. From(c, b)' => From(c, b)
            BY KeepsFacts
        <3>2. CASE /\ Fresh(b)
                   /\ \A d \in Requests :
                          From(d, b)' /\ AsksFor(d, {"save", "password", "phrase"}) => (TabPhrase(b) => TabPhrase(b)')
            BY <2>7, <2>2, <2>3, <2>5, <3>1, <3>2 DEF Fresh, InSession
        <3>3. CASE browsers'[b].session = browsers[b].session /\ (TabPhrase(b) => TabPhrase(b)')
            BY <2>2, <2>3, <2>5, <3>1, <3>3 DEF InSession
        <3> QED BY <3>2, <3>3 DEF TabKeepsPhrase
    <2> QED BY <2>4, <2>5
<1> QED BY <1>2, <1>3 DEF PhraseNow

-----------------------------------------------------------------------------
(* Vault: steps that leave the tabs and the account alone *)

LEMMA KeptTyped ==
    ASSUME TypeInv, VaultTyped, mix' = mix, \A c \in Requests : Keeps(c), carried' = [c \in Requests |-> carried'[c]],
           secret' = secret, vault' \in BackupRow, late' \in BOOLEAN, made' \in {made, made + 1},
           browsers' \in [mix.browsers -> Tab]
    PROVE  VaultTyped'
<1>1. made \in Nat /\ made' \in Nat /\ made <= made' /\ secret.password \in Nat /\ secret.password <= made
    BY DEF VaultTyped
<1>2. \A c \in Requests : carried'[c] \in Load /\ carried'[c].password <= made'
    <2> SUFFICES ASSUME NEW c \in Requests PROVE carried'[c] \in Load /\ carried'[c].password <= made'
        OBVIOUS
    <2>1. carried[c].password \in Nat /\ carried[c].password <= made
        BY LoadRow DEF VaultTyped
    <2>2. carried'[c] \in Load /\ (carried'[c].password = carried[c].password \/ carried'[c].password = 0)
        BY KeepsFacts
    <2> QED BY <1>1, <2>1, <2>2
<1>3. carried' \in [Requests -> Load]
    BY <1>2
<1>4. Load' = Load
    BY DEF Load
<1>5. secret' \in [password : Nat, phrase : Nat, by : {"password", "recover"}]
    BY DEF VaultTyped
<1> QED BY <1>1, <1>2, <1>3, <1>4, <1>5 DEF VaultTyped

Calm ==
    /\ UNCHANGED <<mix, secret, vault, late, browsers, made>>
    /\ carried' = [c \in Requests |-> carried'[c]]
    /\ \A c \in Requests : Keeps(c) /\ (requests'[c] = Idle \/ carried'[c] = carried[c])
    /\ sessions' \subseteq sessions /\ issued <= issued' /\ issued' <= MaxIssued
    /\ torn => torn'
    /\ torn' \/ Unrevoked

LEMMA CalmStep ==
    ASSUME TypeInv, TypeInv', TheVault, Calm
    PROVE  TheVault'
<1>0. /\ mix' = mix /\ secret' = secret /\ vault' = vault /\ late' = late /\ browsers' = browsers
      /\ \A c \in Requests : Keeps(c)
      /\ VaultTyped /\ RoutesOk /\ SessionsOk /\ TabsOk /\ SecretsOk /\ KeysInv /\ PasswordInv /\ PhraseInv
    BY DEF Calm, TheVault
<1>1. VaultTyped'
    BY <1>0, KeptTyped DEF VaultTyped, Calm
<1>2. RoutesOk'
    BY <1>0, KeptRoutes
<1>3. SessionsOk'
    <2>1. issued \in Nat /\ issued' \in Nat
        BY DEF TypeInv
    <2>2. \A s \in sessions' : s.id <= issued'
        BY <1>0, <2>1, NumbersOk DEF SessionsOk, Calm
    <2> QED BY <1>0, <2>2, KeptSessions DEF Calm
<1>4. TabsOk'
    <2>1. ASSUME NEW b \in mix.browsers, NEW c \in Requests PROVE AskerOk(c, b)'
        <3>1. AskerOk(c, b) /\ TabStays(b)
            BY <1>0 DEF TabsOk, TabStays
        <3>2. From(c, b) /\ requests'[c] # Idle => From(c, b)'
            BY DEF Calm, From
        <3> QED BY <1>0, <3>1, <3>2, KeptAsker
    <2>2. ASSUME NEW b \in mix.browsers, NEW c \in Requests, SignsIn(c, b)' PROVE SignsIn(c, b)
        BY <1>0, <2>2, KeepsFacts DEF SignsIn
    <2>3. \A b \in mix.browsers : OneSignIn(b)'
        BY <1>0, <2>2 DEF OneSignIn, TabsOk
    <2>4. Copy(vault)' /\ \A b \in mix.browsers : TabOk(b)'
        BY <1>0 DEF TabsOk, TabOk, Copy
    <2> QED BY <1>0, <2>1, <2>3, <2>4 DEF TabsOk
<1>5. SecretsOk'
    <2>1. ASSUME NEW c \in Requests PROVE HeldGrows(c)
        BY <1>0, KeepsFacts DEF HeldGrows, SecretsOk, SecretOk
    <2> QED BY <1>0, <2>1, KeptSecrets
<1>6. KeysInv'
    <2>1. ASSUME OneOwner PROVE \A c \in Requests : Ours(carried'[c].backup)
        BY <1>0, <2>1, KeepsFacts DEF KeysInv
    <2> QED BY <1>0, <2>1 DEF KeysInv, OneOwner, Ours, OursOrLinked
<1>7. PasswordInv'
    <2> SUFFICES ASSUME ~late, ~torn' PROVE PasswordNow'
        BY <1>0 DEF PasswordInv
    <2>1. PasswordNow /\ Unrevoked
        BY <1>0 DEF PasswordInv, Calm
    <2>2. \A b \in mix.browsers : TabKeepsNow(b)
        BY <1>0 DEF TabKeepsNow, TabNow, WrapNow
    <2> QED BY <1>0, <2>1, <2>2, KeptPassword DEF Calm
<1>8. PhraseInv'
    <2> SUFFICES ASSUME ~late, ~torn', InHand PROVE PhraseNow'
        BY <1>0 DEF PhraseInv, InHand, OneOwner
    <2>1. PhraseNow /\ Unrevoked
        BY <1>0 DEF PhraseInv, Calm
    <2>2. \A b \in mix.browsers : TabKeepsPhrase(b)
        BY <1>0 DEF TabKeepsPhrase, TabPhrase, PhraseOf
    <2>3. vault'.phrase = secret.phrase
        BY <1>0, <2>1 DEF PhraseNow
    <2> QED BY <1>0, <2>1, <2>2, <2>3, KeptPhrase DEF Calm
<1> QED BY <1>1, <1>2, <1>3, <1>4, <1>5, <1>6, <1>7, <1>8 DEF TheVault

LEMMA SelfGoesOn == ASSUME NEW r \in Request PROVE GoesOn(r, r)
BY DEF GoesOn

LEMMA DropKeeps ==
    ASSUME TypeInv, TheVault, Drop, NEW c \in Requests, requests'[c] = requests[c]
    PROVE  Keeps(c) /\ (requests'[c] = Idle \/ carried'[c] = carried[c])
<1>1. CASE requests[c] = Idle
    BY <1>1 DEF Drop, Keeps
<1>2. CASE requests[c] # Idle
    <2>1. requests[c] \in Request
        BY <1>2 DEF TypeInv
    <2> QED BY <1>2, <2>1, SelfGoesOn DEF Drop, Keeps
<1> QED BY <1>1, <1>2

LEMMA OneCalm ==
    ASSUME TypeInv, TheVault, NEW c \in Requests, NEW r, Goes(c, r), r = Idle \/ GoesOn(requests[c], r),
           ~At(c, "revoke"), Drop, UNCHANGED others, UNCHANGED <<mix, sessions, torn>>,
           issued <= issued', issued' <= MaxIssued
    PROVE  Calm
<1>1. requests'[c] = r /\ \A d \in Requests \ {c} : requests'[d] = requests[d]
    BY DEF TypeInv, Goes
<1>2. Keeps(c) /\ (requests'[c] = Idle \/ carried'[c] = carried[c])
    <2>1. CASE r = Idle
        BY <1>1, <2>1 DEF Drop, Keeps
    <2>2. CASE r # Idle
        BY <1>1, <2>2 DEF Drop, Keeps
    <2> QED BY <2>1, <2>2
<1>3. \A d \in Requests : Keeps(d) /\ (requests'[d] = Idle \/ carried'[d] = carried[d])
    BY <1>1, <1>2, DropKeeps
<1>4. carried' = [d \in Requests |-> carried'[d]]
    BY DEF Drop
<1>5. Unrevoked
    BY <1>1 DEF Unrevoked, At
<1> QED BY <1>3, <1>4, <1>5 DEF Calm, others

\* Only a claim and a recovery take something.
LEMMA ConsumeCalm ==
    ASSUME TypeInv, NEW c \in Requests, At(c, "take"), requests[c] \in Request,
           NEW kinds, NEW STATE claimant, Consume(c, kinds, "check", claimant),
           \A t \in tickets : GoesOn(requests[c], claimant[t])
    PROVE  \E r \in Request : GoesOn(requests[c], r) /\ Goes(c, r)
<1>1. PICK t \in tickets, step \in {"check", "taking"} : Goes(c, [claimant[t] EXCEPT !.step = step, !.ticket = t.id])
    BY DEF Consume
<1>2. t.id \in Nat
    BY DEF TypeInv, Ticket
<1>3. PICK q \in Request : q = claimant[t] /\ GoesOn(requests[c], q)
    BY DEF GoesOn
<1> DEFINE r == [q EXCEPT !.step = step, !.ticket = t.id]
<1>4. r \in Request /\ r.route = q.route /\ r.session = q.session /\ r.overlap = q.overlap /\ r.step = step
    BY <1>2, <1>3 DEF Request, Steps
<1>5. Goes(c, r)
    BY <1>1, <1>3
<1> HIDE DEF r
<1>6. GoesOn(requests[c], r)
    BY <1>3, <1>4 DEF GoesOn, At
<1> QED BY <1>4, <1>5, <1>6

LEMMA SlotRoutes ==
    ASSUME TypeInv, TheVault, NEW c \in Requests, requests[c] # Idle
    PROVE  requests[c] \in Request /\ requests[c].route \in VaultRoutes /\ requests[c].route \in mix.routes
BY DEF TypeInv, TheVault, RoutesOk, RouteOk

LEMMA TakeCalm ==
    ASSUME TypeInv, TheVault, NEW c \in Requests, Take(c)
    PROVE  /\ \E r : Goes(c, r) /\ (r = Idle \/ GoesOn(requests[c], r))
           /\ ~At(c, "revoke")
<1>1. At(c, "take") \/ At(c, "refuse")
    BY DEF Take, TakeLink, TakeLogin, TakeRecovery, TakeKey, TakeRemoval, Refused, Serves
<1>2. requests[c] \in Request /\ requests[c].route \in VaultRoutes
    BY <1>1, SlotRoutes DEF At, Idle
<1>3. CASE Refused(c)
    BY <1>1, <1>3 DEF Refused, At
<1>4. CASE TakeLink(c)
    <2>1. \A t \in tickets : GoesOn(requests[c], [u \in tickets |-> Inherits(c, u)][t])
        <3> SUFFICES ASSUME NEW t \in tickets PROVE GoesOn(requests[c], Inherits(c, t))
            OBVIOUS
        <3>1. t.under \in Nat /\ t.overlap \in BOOLEAN
            BY DEF TypeInv, Ticket
        <3> DEFINE q == requests[c]
                   r == [q EXCEPT !.under = t.under, !.overlap = q.overlap \/ t.overlap]
        <3>2. (q.overlap \/ t.overlap) \in BOOLEAN
            BY Zenon
        <3>3. r \in Request /\ r.route = q.route /\ r.session = q.session /\ r.step = q.step /\ (q.overlap => r.overlap)
            BY <1>2, <3>1, <3>2 DEF Request
        <3>4. GoesOn(q, r)
            BY <1>2, <3>3 DEF GoesOn
        <3> QED BY <3>4 DEF Inherits
    <2>2. \E r \in Request : GoesOn(requests[c], r) /\ Goes(c, r)
        BY <1>2, <1>4, <2>1, ConsumeCalm DEF TakeLink, Serves
    <2> QED BY <1>1, <2>2 DEF At
<1>5. CASE TakeRecovery(c)
    <2>1. \A t \in tickets : GoesOn(requests[c], [u \in tickets |-> requests[c]][t])
        BY <1>2, SelfGoesOn
    <2>2. \E r \in Request : GoesOn(requests[c], r) /\ Goes(c, r)
        BY <1>2, <1>5, <2>1, ConsumeCalm DEF TakeRecovery, Serves
    <2> QED BY <1>1, <2>2 DEF At
<1>6. ~TakeLogin(c) /\ ~TakeKey(c) /\ ~TakeRemoval(c)
    BY <1>2 DEF TakeLogin, TakeKey, TakeRemoval, Serves, VaultRoutes, SignIns
<1> QED BY <1>3, <1>4, <1>5, <1>6 DEF Take

LEMMA MovesCalm ==
    ASSUME TypeInv, TheVault, NEW c \in Requests, Drop, UNCHANGED others,
           Issue(c) \/ ReadKey(c) \/ Take(c) \/ CommitTake(c) \/ Check(c)
    PROVE  Calm
<1>0. issued \in Nat /\ MaxIssued \in Nat /\ issued <= MaxIssued /\ issued <= issued
    BY NumbersOk DEF TheVault, SessionsOk
<1>1. CASE Issue(c)
    <2>1. Goes(c, Idle) /\ ~At(c, "revoke") /\ UNCHANGED <<mix, sessions, torn>>
          /\ issued' = issued + 1 /\ issued < MaxIssued
        BY <1>1 DEF Issue, At, bounds
    <2>2. issued <= issued' /\ issued' <= MaxIssued
        BY <1>0, <2>1
    <2> QED BY <2>1, <2>2, OneCalm
<1>2. CASE ReadKey(c)
    <2>1. requests[c] \in Request
        BY <1>2, SlotRoutes DEF ReadKey, At, Idle
    <2> DEFINE q == requests[c]
               r == [q EXCEPT !.step = "take", !.key = pgp]
    <2>2. r \in Request /\ r.route = q.route /\ r.session = q.session /\ r.overlap = q.overlap /\ r.step = "take"
        BY <2>1 DEF Request, Steps, TypeInv
    <2>3. q.step = "read" /\ Goes(c, r) /\ ~At(c, "revoke") /\ UNCHANGED <<mix, sessions, torn>> /\ issued' = issued
        BY <1>2 DEF ReadKey, At, bounds
    <2> HIDE DEF r
    <2>4. GoesOn(q, r)
        BY <2>1, <2>2, <2>3 DEF GoesOn
    <2> QED BY <1>0, <2>3, <2>4, OneCalm
<1>3. CASE Take(c)
    <2>1. PICK r : Goes(c, r) /\ (r = Idle \/ GoesOn(requests[c], r))
        BY <1>3, TakeCalm
    <2>2. ~At(c, "revoke") /\ UNCHANGED <<mix, sessions, torn>> /\ issued' = issued
        BY <1>3, TakeCalm DEF Take, bounds
    <2> QED BY <1>0, <2>1, <2>2, OneCalm
<1>4. CASE CommitTake(c)
    <2>1. requests[c] \in Request /\ requests[c].route \in VaultRoutes
        BY <1>4, SlotRoutes DEF CommitTake, At, Idle
    <2> DEFINE q == requests[c]
               r == [q EXCEPT !.step = "check"]
    <2>2. r \in Request /\ r.route = q.route /\ r.session = q.session /\ r.overlap = q.overlap /\ r.step = "check"
        BY <2>1 DEF Request, Steps
    <2>3. q.step = "taking" /\ Goes(c, r) /\ ~At(c, "revoke") /\ UNCHANGED <<mix, sessions, torn>> /\ issued' = issued
        BY <1>4, <2>1 DEF CommitTake, At, bounds, VaultRoutes, SignIns
    <2> HIDE DEF r
    <2>4. GoesOn(q, r)
        BY <2>1, <2>2, <2>3 DEF GoesOn
    <2> QED BY <1>0, <2>3, <2>4, OneCalm
<1>5. CASE Check(c)
    <2>1. requests[c] \in Request /\ requests[c].route \in VaultRoutes
        BY <1>5, SlotRoutes DEF Check, At, Idle
    <2> DEFINE q == requests[c]
    <2>2. q.step = "check" /\ ~At(c, "revoke") /\ UNCHANGED <<mix, sessions, torn>> /\ issued' = issued
        BY <1>5 DEF Check, At, bounds
    <2>3. CASE Goes(c, Idle)
        BY <1>0, <2>2, <2>3, OneCalm
    <2>4. CASE CheckLink(c)
        <3> DEFINE r == [q EXCEPT !.step = "mint"]
        <3>1. r \in Request /\ r.route = q.route /\ r.session = q.session /\ r.overlap = q.overlap /\ r.step = "mint"
            BY <2>1 DEF Request, Steps
        <3>2. Goes(c, r) /\ q.route = "claim"
            BY <2>4 DEF CheckLink, Serves
        <3> HIDE DEF r
        <3>3. GoesOn(q, r)
            BY <2>1, <2>2, <3>1, <3>2 DEF GoesOn
        <3> QED BY <1>0, <2>2, <3>2, <3>3, OneCalm
    <2>5. CASE CheckRecovery(c)
        <3> DEFINE r == [q EXCEPT !.step = "commit", !.under = epoch]
        <3>1. r \in Request /\ r.route = q.route /\ r.session = q.session /\ r.overlap = q.overlap /\ r.step = "commit"
            BY <2>1 DEF Request, Steps, TypeInv
        <3>2. Goes(c, r) /\ q.route = "recover"
            BY <2>5 DEF CheckRecovery, Serves
        <3> HIDE DEF r
        <3>3. GoesOn(q, r)
            BY <2>1, <2>2, <3>1, <3>2 DEF GoesOn
        <3> QED BY <1>0, <2>2, <3>2, <3>3, OneCalm
    <2>6. ~CheckLogin(c)
        BY <2>1 DEF CheckLogin, Serves, VaultRoutes, SignIns
    <2> QED BY <1>5, <2>3, <2>4, <2>5, <2>6 DEF Check
<1> QED BY <1>1, <1>2, <1>3, <1>4, <1>5

LEMMA EndsCalm ==
    ASSUME TypeInv, TheVault, Drop, UNCHANGED others, EndSessions \/ Expire \/ Stop
    PROVE  Calm
<1>0. issued \in Nat /\ MaxIssued \in Nat /\ issued <= MaxIssued /\ issued <= issued
    BY NumbersOk DEF TheVault, SessionsOk
<1>1. carried' = [d \in Requests |-> carried'[d]] /\ UNCHANGED <<mix, issued>>
    BY DEF Drop, EndSessions, Expire, Stop, bounds
<1>2. CASE EndSessions \/ Expire
    <2>1. requests' = requests /\ torn' = torn /\ sessions' \subseteq sessions
        BY <1>2 DEF EndSessions, Expire, DestroySession, DestroyAllSessions
    <2>2. \A c \in Requests : Keeps(c) /\ (requests'[c] = Idle \/ carried'[c] = carried[c])
        BY <2>1, DropKeeps
    <2> QED BY <1>0, <1>1, <2>1, <2>2 DEF Calm, Unrevoked, At, others
<1>3. CASE Stop
    <2>1. requests' = [c \in Requests |-> Idle] /\ sessions' = sessions
          /\ torn' = (torn \/ \E c \in Requests : At(c, "revoke"))
        BY <1>3 DEF Stop
    <2>2. \A c \in Requests : Keeps(c) /\ requests'[c] = Idle
        BY <2>1 DEF Keeps, Drop
    <2> QED BY <1>0, <1>1, <2>1, <2>2 DEF Calm, Unrevoked, others
<1> QED BY <1>2, <1>3

-----------------------------------------------------------------------------
(* Vault: a password or a phrase is written *)

\* A change marks the other requests under way, and they go on.
LEMMA OverlappedKeeps ==
    ASSUME TypeInv, TheVault, NEW c \in Requests, NEW r, requests' = Overlapped(c, r), NEW d \in Requests \ {c},
           carried'[d] = carried[d] \/ carried'[d] = IF requests'[d] = Idle THEN Nothing ELSE carried[d]
    PROVE  /\ Keeps(d) /\ carried'[d] = carried[d] /\ (requests'[d] = Idle \/ requests'[d].overlap)
           /\ \A step : At(d, step)' <=> At(d, step)
           /\ requests'[d] = Idle <=> requests[d] = Idle
           /\ requests'[d] # Idle =>
                  requests'[d].route = requests[d].route /\ requests'[d].session = requests[d].session
<1>1. CASE requests[d] = Idle
    <2>1. requests'[d] = Idle
        BY <1>1 DEF Overlapped
    <2>2. carried[d] = Nothing
        BY <1>1 DEF TheVault, RoutesOk, RouteOk
    <2> QED BY <1>1, <2>1, <2>2 DEF Keeps, At
<1>2. CASE requests[d] # Idle
    <2>1. /\ requests[d] \in Request /\ requests'[d] \in Request /\ requests'[d].overlap
          /\ requests'[d].route = requests[d].route /\ requests'[d].step = requests[d].step
          /\ requests'[d] = [requests[d] EXCEPT !.overlap = TRUE]
        BY <1>2, OverlappedEffect
    <2>2. requests'[d].session = requests[d].session
        BY <2>1 DEF Request
    <2>3. requests'[d] # Idle /\ carried'[d] = carried[d]
        BY <2>1, RequestSteps
    <2>4. GoesOn(requests[d], requests'[d])
        BY <2>1, <2>2 DEF GoesOn
    <2> QED BY <1>2, <2>1, <2>2, <2>3, <2>4 DEF Keeps, At
<1> QED BY <1>1, <1>2

LEMMA CommitsKeep ==
    ASSUME TypeInv, TheVault, NEW c \in Requests, Commit(c)
    PROVE  /\ requests[c] \in Request /\ At(c, "commit") /\ requests[c].route \in {"password", "phrase", "recover"}
           /\ requests'[c] \in Request /\ At(c, "revoke")' /\ requests'[c].route = requests[c].route
           /\ requests'[c].session = requests[c].session /\ requests'[c].overlap = requests[c].overlap
           /\ \E r : requests' = Overlapped(c, r)
           /\ UNCHANGED <<mix, sessions, issued, torn>>
<1>1. requests[c] \in Request /\ requests[c].step = "commit" /\ requests[c] # Idle
    BY CommitAt, RequestSteps
<1>2. requests[c].route \in {"password", "phrase", "recover"}
    BY <1>1, CommitAt, SlotRoutes DEF VaultRoutes, SignIns
<1> DEFINE q == requests[c]
           r == [q EXCEPT !.step = "revoke", !.under = epoch + 1]
<1>3. epoch + 1 \in Nat
    BY DEF TypeInv
<1>4. r \in Request /\ r.route = q.route /\ r.session = q.session /\ r.overlap = q.overlap /\ r.step = "revoke"
    BY <1>1, <1>3 DEF Request, Steps
<1>5. requests' = Overlapped(c, r) /\ UNCHANGED <<mix, sessions, issued, torn>>
    BY DEF Commit, bounds
<1> HIDE DEF r
<1>6. requests'[c] = r
    BY <1>5, OverlappedEffect
<1> QED BY <1>1, <1>2, <1>4, <1>5, <1>6 DEF At

LEMMA CommitStep ==
    ASSUME TypeInv, TypeInv', TheVault, mix.browsers # {}, NEW c \in Requests, CommitSecrets(c)
    PROVE  TheVault'
<1> DEFINE q == requests[c]
           load == carried[c]
<1>0. /\ VaultTyped /\ RoutesOk /\ SessionsOk /\ TabsOk /\ SecretsOk /\ KeysInv /\ PasswordInv /\ PhraseInv
    BY DEF TheVault
<1>1. /\ secret' = [password |-> IF q.route = "phrase" THEN secret.password ELSE load.password,
                    phrase |-> IF q.route = "phrase" THEN load.phrase ELSE secret.phrase,
                    by |-> IF q.route = "phrase" THEN secret.by ELSE q.route]
      /\ vault' = Stored(q, load)
      /\ late' = (late \/ (q.route # "recover" /\ Overlaps(c)))
      /\ browsers' = browsers /\ carried' = carried /\ made' = made /\ Commit(c)
    BY DEF CommitSecrets
<1>2. /\ q \in Request /\ q # Idle /\ At(c, "commit") /\ q.route \in {"password", "phrase", "recover"}
      /\ requests'[c] \in Request /\ requests'[c] # Idle /\ At(c, "revoke")' /\ requests'[c].route = q.route
      /\ requests'[c].session = q.session /\ requests'[c].overlap = q.overlap
      /\ UNCHANGED <<mix, sessions, issued, torn>>
    BY <1>1, CommitsKeep, RequestSteps
<1>3. ASSUME NEW d \in Requests \ {c}
      PROVE  /\ Keeps(d) /\ (requests'[d] = Idle \/ requests'[d].overlap)
             /\ \A step : At(d, step)' <=> At(d, step)
             /\ requests'[d] = Idle <=> requests[d] = Idle
             /\ requests'[d] # Idle =>
                    requests'[d].route = requests[d].route /\ requests'[d].session = requests[d].session
    BY <1>1, CommitsKeep, OverlappedKeeps
<1>4. \A d \in Requests : \A routes : AsksFor(d, routes)' <=> AsksFor(d, routes)
    BY <1>2, <1>3 DEF AsksFor
<1>5. \A d \in Requests, b \in mix.browsers : From(d, b)' <=> From(d, b)
    BY <1>1 DEF From
<1>6. /\ AsksFor(c, {"password"}) <=> q.route = "password"
      /\ AsksFor(c, {"phrase"}) <=> q.route = "phrase"
      /\ ~AsksFor(c, {"login", "claim"}) /\ ~AsksFor(c, {"save"})
      /\ AsksFor(c, {"save", "password", "phrase"}) <=> q.route # "recover"
    BY <1>2 DEF AsksFor
<1>7. load \in Load /\ load.backup \in BackupRow /\ load.password \in Nat /\ load.phrase \in Nat
      /\ load.password <= made /\ vault \in BackupRow
    BY <1>0, LoadRow DEF VaultTyped
<1>8. RouteOk(c) /\ SecretOk(c)
    BY <1>0 DEF RoutesOk, SecretsOk
<1>9. q.route # "recover" => load.backup.master > 0 /\ vault' = load.backup /\ load.backup # NoBackup
    <2>1. q.route # "recover" => load.backup.master > 0 /\ vault' = load.backup
        BY <1>1, <1>2, <1>6, <1>8 DEF RouteOk, Stored
    <2> QED BY <2>1, NoBackupRow
<1>10. q.route = "recover" => vault' = vault
    BY <1>1 DEF Stored
<1>11. VaultTyped'
    <2>1. secret' \in [password : Nat, phrase : Nat, by : {"password", "recover"}]
        BY <1>0, <1>1, <1>2, <1>7 DEF VaultTyped
    <2>2. secret'.password <= made
        BY <1>0, <1>1, <1>7 DEF VaultTyped
    <2>3. vault' \in BackupRow
        BY <1>7, <1>9, <1>10
    <2>4. late' \in BOOLEAN
        BY <1>1, Zenon
    <2>5. Load' = Load
        BY <1>2 DEF Load
    <2> QED BY <1>0, <1>1, <1>2, <2>1, <2>2, <2>3, <2>4, <2>5 DEF VaultTyped
<1>12. RoutesOk'
    <2>1. RouteOk(c)'
        BY <1>1, <1>2, <1>4, <1>6, <1>8 DEF RouteOk, At
    <2> QED BY <1>0, <1>2, <1>3, <2>1, KeptRoutes
<1>13. SessionsOk'
    <2>1. issued \in Nat /\ issued <= issued' /\ issued' <= MaxIssued /\ \A s \in sessions' : s.id <= issued'
        BY <1>0, <1>2 DEF TypeInv, SessionsOk
    <2>2. requests'[c].session <= issued'
        BY <1>0, <1>2 DEF SessionsOk
    <2>3. \A d \in Requests : Keeps(d) \/ requests'[d].session <= issued'
        BY <1>3, <2>2
    <2> QED BY <1>0, <1>1, <1>2, <2>1, <2>3, KeptSessions
<1>14. TabsOk'
    <2>1. ASSUME NEW b \in mix.browsers, NEW d \in Requests PROVE AskerOk(d, b)'
        <3>1. requests'[d] # Idle => requests'[d].session = requests[d].session
            BY <1>2, <1>3
        <3>2. AskerOk(d, b)
            BY <1>0 DEF TabsOk
        <3>3. Blank(b)' <=> Blank(b)
            BY <1>1 DEF Blank
        <3> QED BY <1>1, <1>2, <1>4, <1>5, <3>1, <3>2, <3>3 DEF AskerOk, AsksFor
    <2>2. ASSUME NEW b \in mix.browsers PROVE OneSignIn(b)' /\ TabOk(b)'
        BY <1>0, <1>1, <1>4, <1>5 DEF OneSignIn, SignsIn, TabsOk, TabOk, Copy
    <2>3. Copy(vault)'
        BY <1>0, <1>9, <1>10 DEF TabsOk, Copy
    <2> QED BY <1>2, <2>1, <2>2, <2>3 DEF TabsOk
<1>15. SecretsOk'
    <2>1. SecretOk(c)'
        BY <1>1, <1>2, <1>4, <1>5, <1>6, <1>8 DEF SecretOk, AsksFor
    <2>2. ASSUME NEW d \in Requests PROVE HeldGrows(d)
        BY <1>0, <1>1, <1>5 DEF HeldGrows, SecretsOk, SecretOk
    <2> QED BY <1>0, <1>2, <1>3, <2>1, <2>2, KeptSecrets
<1>16. KeysInv'
    <2>1. OneOwner => vault' # NoBackup /\ Ours(vault')
        BY <1>0, <1>9, <1>10 DEF KeysInv
    <2> QED BY <1>0, <1>1, <1>2, <2>1 DEF KeysInv, OneOwner, Ours, OursOrLinked
<1>17. ~Quiet'
    BY <1>2 DEF Quiet
<1>18. Undisturbed(c)' => Undisturbed(c)
    BY <1>1, <1>2, <1>3 DEF Undisturbed, OthersQuiet
<1>19. \A d \in Requests \ {c} : ~Undisturbed(d)'
    BY <1>3 DEF Undisturbed
<1>20. q.route # "recover" /\ ~late' => Undisturbed(c) /\ ~load.overlap
    BY <1>1, <1>2 DEF Overlaps, Undisturbed, OthersQuiet
<1>21. PasswordInv'
    <2> SUFFICES ASSUME ~late', ~torn' PROVE PasswordNow'
        BY DEF PasswordInv
    <2>1. PasswordNow
        BY <1>0, <1>1, <1>2 DEF PasswordInv
    <2>2. (WrapNow(vault) \/ secret.by = "recover")'
        <3>1. CASE q.route = "recover"
            BY <1>1, <3>1
        <3>2. CASE q.route = "password"
            <4>1. load.backup.password = load.password /\ secret'.password = load.password /\ vault' = load.backup
                BY <1>1, <1>6, <1>8, <1>9, <3>2 DEF SecretOk
            <4> QED BY <1>7, <4>1 DEF WrapNow
        <3>3. CASE q.route = "phrase"
            <4>1. AsksFor(c, {"save", "phrase"}) /\ Undisturbed(c)
                BY <1>2, <1>20, <3>3 DEF AsksFor
            <4>2. WrapNow(load.backup)
                BY <2>1, <4>1 DEF PasswordNow, SlotNow
            <4> QED BY <1>1, <1>9, <3>3, <4>2 DEF WrapNow
        <3> QED BY <1>2, <3>1, <3>2, <3>3
    <2>3. ASSUME NEW d \in Requests PROVE SlotNow(d)'
        <3> SUFFICES ASSUME AsksFor(d, {"save", "phrase"})', Undisturbed(d)' PROVE SlotNow(d)'
            BY DEF SlotNow
        <3>1. d = c
            BY <1>19
        <3>2. AsksFor(c, {"save", "phrase"}) /\ Undisturbed(c) /\ q.route = "phrase"
            BY <1>2, <1>4, <1>18, <3>1 DEF AsksFor
        <3>3. WrapNow(load.backup) /\ \A b \in mix.browsers : InSession(c, b) => TabNow(b)
            BY <2>1, <3>2 DEF PasswordNow, SlotNow
        <3>4. secret'.password = secret.password
            BY <1>1, <3>2
        <3>5. WrapNow(carried[c].backup)'
            BY <1>1, <3>3, <3>4 DEF WrapNow
        <3>6. \A b \in mix.browsers : TabNow(b) => TabNow(b)'
            BY <1>1, <3>4 DEF TabNow, WrapNow
        <3>7. \A b \in mix.browsers : InSession(c, b)' => InSession(c, b)
            BY <1>1, <1>2, <1>5 DEF InSession
        <3> QED BY <1>2, <3>1, <3>3, <3>5, <3>6, <3>7 DEF SlotNow
    <2>4. LateKnown'
        <3> SUFFICES ASSUME NEW d \in Requests, AsksFor(d, {"password", "phrase"})', (At(d, "revoke") \/ At(d, "mint"))'
                     PROVE  ~carried'[d].overlap
            BY DEF LateKnown
        <3>1. CASE d = c
            BY <1>1, <1>2, <1>4, <1>20, <3>1 DEF AsksFor
        <3>2. CASE d # c
            BY <1>1, <1>3, <1>4, <2>1, <3>2 DEF PasswordNow, LateKnown
        <3> QED BY <3>1, <3>2
    <2> QED BY <1>17, <2>2, <2>3, <2>4 DEF PasswordNow
<1>22. PhraseInv'
    <2> SUFFICES ASSUME ~late', ~torn', InHand PROVE PhraseNow'
        BY <1>2 DEF PhraseInv, InHand, OneOwner
    <2>1. PhraseNow /\ OneOwner
        BY <1>0, <1>1, <1>2 DEF PhraseInv, InHand
    <2>2. vault'.phrase = secret'.phrase
        <3>1. CASE q.route = "recover"
            BY <1>1, <1>10, <2>1, <3>1 DEF PhraseNow
        <3>2. CASE q.route = "password"
            <4>1. AsksFor(c, {"save", "password"}) /\ Undisturbed(c)
                BY <1>2, <1>20, <3>2 DEF AsksFor
            <4>2. PhraseOf(load.backup) /\ Ours(load.backup)
                BY <1>0, <2>1, <4>1 DEF PhraseNow, SlotPhrase, KeysInv
            <4>3. load.backup.phrase = secret.phrase
                BY <1>9, <3>2, <4>2 DEF PhraseOf, Ours
            <4> QED BY <1>1, <1>9, <3>2, <4>3
        <3>3. CASE q.route = "phrase"
            BY <1>1, <1>6, <1>8, <1>9, <3>3 DEF SecretOk
        <3> QED BY <1>2, <3>1, <3>2, <3>3
    <2>3. ASSUME NEW d \in Requests PROVE SlotPhrase(d)'
        <3> SUFFICES ASSUME (AsksFor(d, {"save", "password"}) \/ (AsksFor(d, {"phrase"}) /\ At(d, "commit")))',
                            Undisturbed(d)'
                     PROVE  SlotPhrase(d)'
            BY DEF SlotPhrase
        <3>1. d = c
            BY <1>19
        <3>2. AsksFor(c, {"save", "password"}) /\ Undisturbed(c) /\ q.route = "password"
            BY <1>2, <1>4, <1>18, <3>1 DEF AsksFor, At
        <3>3. PhraseOf(load.backup) /\ \A b \in mix.browsers : InSession(c, b) => TabPhrase(b)
            BY <2>1, <3>2 DEF PhraseNow, SlotPhrase
        <3>4. secret'.phrase = secret.phrase
            BY <1>1, <3>2
        <3>5. PhraseOf(carried[c].backup)'
            BY <1>1, <3>3, <3>4 DEF PhraseOf
        <3>6. \A b \in mix.browsers : TabPhrase(b) => TabPhrase(b)'
            BY <1>1, <3>4 DEF TabPhrase, PhraseOf
        <3>7. \A b \in mix.browsers : InSession(c, b)' => InSession(c, b)
            BY <1>1, <1>2, <1>5 DEF InSession
        <3> QED BY <1>2, <3>1, <3>3, <3>5, <3>6, <3>7 DEF SlotPhrase
    <2> QED BY <1>17, <2>2, <2>3 DEF PhraseNow
<1> QED BY <1>11, <1>12, <1>13, <1>14, <1>15, <1>16, <1>21, <1>22 DEF TheVault

-----------------------------------------------------------------------------
(* Vault: the backup is written *)

\* Who is not the tab's request is not from it.
LEMMA DropFrom ==
    ASSUME TypeInv, VaultTyped, Drop, mix' = mix, NEW c \in Requests, NEW b \in mix.browsers,
           From(c, b), requests'[c] # Idle
    PROVE  From(c, b)'
BY DEF Drop, From

LEMMA GoneKeeps ==
    ASSUME TypeInv, TheVault, NEW c \in Requests, Goes(c, Idle), Drop, ~At(c, "revoke")
    PROVE  /\ requests'[c] = Idle /\ carried'[c] = Nothing
           /\ \A d \in Requests \ {c} : requests'[d] = requests[d]
           /\ \A d \in Requests : Keeps(d)
           /\ carried' = [d \in Requests |-> carried'[d]]
           /\ Unrevoked
<1>1. requests'[c] = Idle /\ \A d \in Requests \ {c} : requests'[d] = requests[d]
    BY DEF TypeInv, Goes
<1>2. carried'[c] = Nothing /\ carried' = [d \in Requests |-> carried'[d]]
    BY <1>1 DEF Drop
<1>3. \A d \in Requests : Keeps(d)
    BY <1>1, <1>2, DropKeeps DEF Keeps
<1>4. Unrevoked
    BY <1>1 DEF Unrevoked, At
<1> QED BY <1>1, <1>2, <1>3, <1>4

LEMMA WriteStep ==
    ASSUME TypeInv, TypeInv', TheVault, NEW c \in Requests, WriteBackup(c)
    PROVE  TheVault'
<1> DEFINE load == carried[c]
           b == load.browser
           moved == b # None /\ load.backup = browsers[b].rewrapped
           tab == [browsers[b] EXCEPT !.held = load.backup, !.local = load.backup, !.rewrapped = NoBackup]
<1>0. /\ VaultTyped /\ RoutesOk /\ SessionsOk /\ TabsOk /\ SecretsOk /\ KeysInv /\ PasswordInv /\ PhraseInv
    BY DEF TheVault
<1>1. /\ At(c, "write") /\ Goes(c, Idle) /\ vault' = load.backup /\ late' = (late \/ Overlaps(c)) /\ Drop
      /\ browsers' = IF moved THEN [browsers EXCEPT ![b] = tab] ELSE browsers
      /\ UNCHANGED <<mix, sessions, issued, torn, secret, made>>
    BY DEF WriteBackup, bounds
<1>2. requests[c] # Idle /\ requests[c].route = "save" /\ AsksFor(c, {"save"}) /\ AsksFor(c, {"save", "phrase"})
      /\ AsksFor(c, {"save", "password"}) /\ ~At(c, "revoke") /\ load.backup.master > 0
    BY <1>0, <1>1 DEF RoutesOk, RouteOk, At, Idle, AsksFor
<1>3. /\ requests'[c] = Idle /\ carried'[c] = Nothing
      /\ \A d \in Requests \ {c} : requests'[d] = requests[d]
      /\ \A d \in Requests : Keeps(d)
      /\ carried' = [d \in Requests |-> carried'[d]]
      /\ Unrevoked
    BY <1>1, <1>2, GoneKeeps
<1>4. load.backup \in BackupRow /\ load.backup # NoBackup /\ None \notin mix.browsers
      /\ load.browser \in mix.browsers \cup {None}
    BY <1>0, <1>2, LoadRow, NoBackupRow, NumbersOk
\* The tab that recovers holds what it has uploaded.
<1>5. /\ ~moved => browsers' = browsers
      /\ moved => /\ b \in mix.browsers /\ From(c, b)
                  /\ browsers'[b].session = browsers[b].session
                  /\ browsers'[b].held = load.backup /\ browsers'[b].local = load.backup
                  /\ browsers'[b].rewrapped = NoBackup
                  /\ browsers[b].rewrapped = load.backup /\ browsers[b].held = NoBackup
                  /\ browsers' \in [mix.browsers -> Tab]
                  /\ \A a \in mix.browsers \ {b} : browsers'[a] = browsers[a]
    <2>1. ~moved => browsers' = browsers
        BY <1>1
    <2> SUFFICES ASSUME moved
                 PROVE  /\ b \in mix.browsers /\ From(c, b)
                        /\ browsers'[b].session = browsers[b].session
                        /\ browsers'[b].held = load.backup /\ browsers'[b].local = load.backup
                        /\ browsers'[b].rewrapped = NoBackup
                        /\ browsers[b].rewrapped = load.backup /\ browsers[b].held = NoBackup
                        /\ browsers' \in [mix.browsers -> Tab]
                        /\ \A a \in mix.browsers \ {b} : browsers'[a] = browsers[a]
        BY <2>1
    <2>2. b \in mix.browsers /\ From(c, b) /\ browsers[b] \in Tab /\ browsers \in [mix.browsers -> Tab]
        BY <1>0, <1>4, TabRow DEF From, VaultTyped
    <2>3. tab \in Tab /\ tab.session = browsers[b].session /\ tab.held = load.backup /\ tab.local = load.backup
          /\ tab.rewrapped = NoBackup
        BY <1>4, <2>2, NoBackupRow DEF Tab
    <2>4. browsers' = [browsers EXCEPT ![b] = tab]
        BY <1>1
    <2> HIDE DEF tab
    <2>5. browsers[b].held = NoBackup
        BY <1>0, <1>4, <2>2 DEF TabsOk, TabOk
    <2> QED BY <2>2, <2>3, <2>4, <2>5
<1> HIDE DEF moved, tab
<1>6. browsers' \in [mix.browsers -> Tab]
    BY <1>0, <1>5 DEF VaultTyped
<1>7. \A a \in mix.browsers : browsers'[a].session = browsers[a].session
    BY <1>5
<1>8. \A a \in mix.browsers : (~moved \/ a # b) => browsers'[a] = browsers[a]
    BY <1>5
<1>9. ASSUME NEW a \in mix.browsers, moved, a = b, NEW d \in Requests, d # c
      PROVE  /\ ~(From(d, a) /\ AsksFor(d, SignIns)) /\ ~(From(d, a) /\ AsksFor(d, {"password", "phrase"}))
             /\ AsksFor(d, {"phrase"}) /\ browsers[a].session = requests[d].session => From(d, a)
    <2>1. AskerOk(d, a) /\ AskerOk(c, a)
        BY <1>0 DEF TabsOk
    <2>2. ~Blank(a) /\ browsers[a].held = NoBackup
        BY <1>2, <1>5, <1>9, <2>1 DEF AskerOk
    <2> QED BY <2>1, <2>2 DEF AskerOk
<1>10. VaultTyped'
    <2>1. late' \in BOOLEAN
        BY <1>1, Zenon
    <2> QED BY <1>0, <1>1, <1>3, <1>4, <1>6, <2>1, KeptTyped
<1>11. RoutesOk'
    BY <1>0, <1>1, <1>3, KeptRoutes
<1>12. SessionsOk'
    <2>1. issued \in Nat /\ issued <= issued' /\ issued' <= MaxIssued /\ \A s \in sessions' : s.id <= issued'
        BY <1>0, <1>1 DEF TypeInv, SessionsOk
    <2> QED BY <1>0, <1>1, <1>3, <1>7, <2>1, KeptSessions
<1>13. TabsOk'
    <2>1. ASSUME NEW a \in mix.browsers, NEW d \in Requests PROVE AskerOk(d, a)'
        <3>1. CASE d = c
            BY <1>3, <3>1 DEF AskerOk, AsksFor
        <3>2. CASE d # c /\ (~moved \/ a # b)
            <4>1. AskerOk(d, a) /\ TabStays(a)
                BY <1>0, <1>8, <3>2 DEF TabsOk, TabStays
            <4>2. From(d, a) /\ requests'[d] # Idle => From(d, a)'
                BY <1>0, <1>1, DropFrom
            <4> QED BY <1>0, <1>1, <1>3, <4>1, <4>2, KeptAsker
        <3>3. CASE d # c /\ moved /\ a = b
            <4>1. ~Blank(a)' /\ browsers'[a].held # NoBackup
                BY <1>4, <1>5, <3>3 DEF Blank
            <4>2. requests'[d] = requests[d]
                BY <1>3, <3>3
            <4>3. /\ AsksFor(d, SignIns)' => AsksFor(d, SignIns)
                  /\ AsksFor(d, {"phrase"})' => AsksFor(d, {"phrase"})
                  /\ From(d, a)' => From(d, a)
                BY <1>0, <1>1, <1>3, KeepsFacts
            <4>4. From(d, a) /\ requests'[d] # Idle => From(d, a)'
                BY <1>0, <1>1, DropFrom
            <4>5. ~(From(d, a) /\ AsksFor(d, SignIns))
                  /\ (AsksFor(d, {"phrase"}) /\ browsers[a].session = requests[d].session => From(d, a))
                BY <1>9, <3>3
            <4> QED BY <1>7, <4>1, <4>2, <4>3, <4>4, <4>5 DEF AskerOk, AsksFor
        <3> QED BY <3>1, <3>2, <3>3
    <2>2. ASSUME NEW a \in mix.browsers, NEW d \in Requests, SignsIn(d, a)' PROVE SignsIn(d, a)
        BY <1>0, <1>1, <1>3, <2>2, KeepsFacts DEF SignsIn
    <2>3. \A a \in mix.browsers : OneSignIn(a)'
        BY <1>0, <1>1, <2>2 DEF OneSignIn, TabsOk
    <2>4. ASSUME NEW a \in mix.browsers PROVE TabOk(a)'
        <3>1. CASE moved /\ a = b
            BY <1>2, <1>5, <3>1 DEF TabOk, Copy
        <3>2. CASE ~moved \/ a # b
            BY <1>0, <1>8, <3>2 DEF TabsOk, TabOk, Copy
        <3> QED BY <3>1, <3>2
    <2>5. Copy(vault)'
        BY <1>1, <1>2 DEF Copy
    <2> QED BY <1>1, <2>1, <2>3, <2>4, <2>5 DEF TabsOk
<1>14. SecretsOk'
    <2>1. ASSUME NEW d \in Requests PROVE HeldGrows(d)
        <3> SUFFICES ASSUME NEW a \in mix.browsers, From(d, a)', AsksFor(d, {"password"})
                     PROVE  browsers'[a].held.password >= carried[d].password
            BY DEF HeldGrows
        <3>1. From(d, a) /\ d # c
            BY <1>0, <1>1, <1>3, KeepsFacts
        <3>2. AsksFor(d, {"password", "phrase"})
            BY DEF AsksFor
        <3>3. ~moved \/ a # b
            BY <1>9, <3>1, <3>2
        <3> QED BY <1>0, <1>8, <3>1, <3>3 DEF SecretsOk, SecretOk
    <2> QED BY <1>0, <1>1, <1>3, <2>1, KeptSecrets
<1>15. KeysInv'
    <2> SUFFICES ASSUME OneOwner PROVE KeysInv'
        BY <1>1 DEF KeysInv, OneOwner
    <2>1. \A d \in Requests : Ours(carried[d].backup)
        BY <1>0 DEF KeysInv
    <2>2. \A d \in Requests : Ours(carried'[d].backup)
        BY <1>0, <1>1, <1>3, <2>1, KeepsFacts
    <2>3. vault' # NoBackup /\ Ours(vault')
        BY <1>1, <1>4, <2>1
    <2>4. ASSUME NEW a \in mix.browsers
          PROVE  OursOrLinked(browsers'[a].held) /\ OursOrLinked(browsers'[a].local) /\ Ours(browsers'[a].rewrapped)
        <3>1. CASE moved /\ a = b
            BY <1>5, <2>1, <3>1 DEF OursOrLinked, Ours
        <3>2. CASE ~moved \/ a # b
            BY <1>0, <1>8, <3>2 DEF KeysInv
        <3> QED BY <3>1, <3>2
    <2> QED BY <1>1, <2>2, <2>3, <2>4 DEF KeysInv, Ours, OursOrLinked
<1>17. ~late' => ~late /\ Undisturbed(c)
    BY <1>1, <1>2 DEF Overlaps, Undisturbed, OthersQuiet
<1>18. PasswordInv'
    <2> SUFFICES ASSUME ~late', ~torn' PROVE PasswordNow'
        BY DEF PasswordInv
    <2>1. PasswordNow
        BY <1>0, <1>1, <1>17 DEF PasswordInv
    <2>2. WrapNow(load.backup)
        BY <1>2, <1>17, <2>1 DEF PasswordNow, SlotNow
    <2>3. WrapNow(vault)'
        BY <1>1, <2>2 DEF WrapNow
    <2>4. ASSUME NEW a \in mix.browsers PROVE TabKeepsNow(a)
        <3>1. CASE moved /\ a = b
            <4>1. TabNow(a)'
                BY <1>1, <1>5, <2>2, <3>1 DEF TabNow, WrapNow
            <4> QED BY <4>1 DEF TabKeepsNow
        <3>2. CASE ~moved \/ a # b
            BY <1>1, <1>8, <3>2 DEF TabKeepsNow, TabNow, WrapNow
        <3> QED BY <3>1, <3>2
    <2> QED BY <1>0, <1>1, <1>3, <2>1, <2>3, <2>4, KeptPassword
<1>19. PhraseInv'
    <2> SUFFICES ASSUME ~late', ~torn', InHand PROVE PhraseNow'
        BY <1>1 DEF PhraseInv, InHand, OneOwner
    <2>1. PhraseNow /\ OneOwner
        BY <1>0, <1>1, <1>17 DEF PhraseInv, InHand
    <2>2. PhraseOf(load.backup) /\ Ours(load.backup)
        BY <1>0, <1>2, <1>17, <2>1 DEF PhraseNow, SlotPhrase, KeysInv
    <2>3. vault'.phrase = secret.phrase
        BY <1>1, <1>4, <2>2 DEF PhraseOf, Ours
    <2>4. ASSUME NEW a \in mix.browsers PROVE TabKeepsPhrase(a)
        <3>1. CASE moved /\ a = b
            <4>1. TabPhrase(a)'
                BY <1>1, <1>5, <2>2, <3>1 DEF TabPhrase, PhraseOf
            <4> QED BY <4>1 DEF TabKeepsPhrase
        <3>2. CASE ~moved \/ a # b
            BY <1>1, <1>8, <3>2 DEF TabKeepsPhrase, TabPhrase, PhraseOf
        <3> QED BY <3>1, <3>2
    <2> QED BY <1>0, <1>1, <1>3, <2>1, <2>3, <2>4, KeptPhrase
<1> QED BY <1>10, <1>11, <1>12, <1>13, <1>14, <1>15, <1>18, <1>19 DEF TheVault

-----------------------------------------------------------------------------
(* Vault: a browser is signed in *)

Good(tab) ==
    /\ tab \in Tab /\ tab.session = issued + 1
    /\ Copy(tab.held) /\ Copy(tab.local) /\ Copy(tab.rewrapped)
    /\ tab.held = NoBackup \/ tab.rewrapped = NoBackup
    /\ OneOwner => OursOrLinked(tab.held) /\ OursOrLinked(tab.local) /\ Ours(tab.rewrapped)

\* What the answer makes of a tab that signed in, or changed its password.
MadeBy(c, b, tab) ==
    /\ Good(tab)
    /\ AsksFor(c, {"password"}) => tab.held = browsers[b].held /\ tab.rewrapped = browsers[b].rewrapped
    /\ ~requests[c].overlap => WrapNow(tab.held) /\ WrapNow(tab.rewrapped)
    /\ InHand /\ vault.phrase = secret.phrase /\ AsksFor(c, SignIns) => PhraseOf(tab.held) /\ PhraseOf(tab.rewrapped)

LEMMA NewVaultRow ==
    ASSUME VaultTyped, NEW password \in Nat
    PROVE  /\ NewVault(password) \in BackupRow /\ NewVault(password).master = made + 1
           /\ NewVault(password).password = password /\ NewVault(password).phrase = 0
           /\ ~NewVault(password).linked /\ NewVault(password).master > 0
<1>1. made \in Nat /\ made + 1 \in Nat /\ made + 1 > 0
    BY DEF VaultTyped
<1> QED BY <1>1 DEF NewVault, Backup, BackupRow

LEMMA MintTab ==
    ASSUME TypeInv, TheVault, NEW c \in Requests, At(c, "mint"), NEW b \in mix.browsers, From(c, b),
           NEW tab,
           tab \in AfterMint(requests[c].route, [browsers[b] EXCEPT !.session = issued + 1], carried[c])
    PROVE  MadeBy(c, b, tab)
<1> DEFINE q == requests[c]
           load == carried[c]
           now == [browsers[b] EXCEPT !.session = issued + 1]
<1>0. /\ VaultTyped /\ RoutesOk /\ SessionsOk /\ TabsOk /\ SecretsOk /\ KeysInv
      /\ SecretOk(c) /\ AskerOk(c, b) /\ TabOk(b) /\ Copy(vault)
    BY DEF TheVault, SecretsOk, TabsOk
<1>1. q # Idle /\ q.route \in SignIns \cup {"password"} /\ (\A routes : q.route \in routes => AsksFor(c, routes))
    BY <1>0 DEF RoutesOk, RouteOk, At, Idle, AsksFor
<1>2. /\ load.backup \in BackupRow /\ load.password \in Nat /\ load.phrase \in Nat /\ load \in Load
      /\ browsers[b] \in Tab /\ issued + 1 \in Nat /\ made \in Nat /\ vault \in BackupRow
      /\ secret.password \in Nat /\ secret.phrase \in Nat /\ secret.password <= made /\ NoBackup \in BackupRow
    BY <1>0, LoadRow, TabRow, NoBackupRow DEF TypeInv, VaultTyped
<1>3. /\ now \in Tab /\ now.session = issued + 1 /\ now.held = browsers[b].held
      /\ now.local = browsers[b].local /\ now.rewrapped = browsers[b].rewrapped
    BY <1>2 DEF Tab
<1> HIDE DEF now
<1>4. OneOwner => /\ OursOrLinked(now.held) /\ OursOrLinked(now.local) /\ Ours(now.rewrapped)
                  /\ Ours(load.backup) /\ Ours(vault) /\ vault # NoBackup
    BY <1>0, <1>3 DEF KeysInv
<1>5. Copy(now.held) /\ Copy(now.local) /\ Copy(now.rewrapped) /\ (now.held = NoBackup \/ now.rewrapped = NoBackup)
    BY <1>0, <1>3 DEF TabOk
<1>6. q.route \in SignIns => now.held = NoBackup /\ now.rewrapped = NoBackup
    BY <1>0, <1>1, <1>3 DEF AskerOk, Blank
<1>7. q.route \in SignIns /\ InHand => now.local = NoBackup /\ OneOwner
    BY <1>0, <1>1, <1>3 DEF AskerOk, InHand
<1>8. WrapNow(NoBackup) /\ PhraseOf(NoBackup) /\ Ours(NoBackup) /\ OursOrLinked(NoBackup) /\ Copy(NoBackup)
    BY DEF WrapNow, PhraseOf, Ours, OursOrLinked, Copy
<1>9. q.route = "password" => ~AsksFor(c, SignIns)
    BY DEF AsksFor, SignIns
<1>10. q.route \in SignIns => ~AsksFor(c, {"password"})
    BY DEF AsksFor, SignIns
<1>11. /\ "login" \in SignIns /\ "claim" \in SignIns /\ "recover" \in SignIns
    BY DEF SignIns
<1>12. CASE q.route = "login"
    <2> DEFINE from == IF now.local # NoBackup THEN now.local ELSE vault
               open == Opened(from, load.password)
    <2>1. from \in BackupRow /\ Copy(from) /\ (OneOwner => from # NoBackup /\ OursOrLinked(from))
          /\ (InHand => from = vault)
        BY <1>0, <1>2, <1>3, <1>4, <1>5, <1>7, <1>11, <1>12 DEF OursOrLinked, Tab
    <2> HIDE DEF from
    <2>2. \/ open = NewVault(load.password) /\ from = NoBackup
          \/ open = from /\ from.password = load.password
          \/ open = NoBackup
        BY DEF Opened
    <2> HIDE DEF open
    <2>3. open \in BackupRow /\ Copy(open) /\ (OneOwner => OursOrLinked(open))
        BY <1>0, <1>2, <1>8, <2>1, <2>2, NewVaultRow DEF Copy
    <2>4. ~q.overlap => WrapNow(open)
        <3> SUFFICES ASSUME ~q.overlap PROVE WrapNow(open)
            OBVIOUS
        <3>1. load.password = secret.password
            BY <1>0, <1>1, <1>12 DEF SecretOk
        <3>2. open.password = load.password \/ open = NoBackup
            BY <1>0, <1>2, <2>2, NewVaultRow
        <3> QED BY <1>2, <3>1, <3>2 DEF WrapNow
    <2>5. InHand /\ vault.phrase = secret.phrase => PhraseOf(open)
        BY <1>7, <1>8, <2>1, <2>2, <1>11, <1>12 DEF PhraseOf
    <2>6. tab = [now EXCEPT !.held = open]
        BY <1>12 DEF AfterMint, FinishLogin, now, open, from
    <2>7. /\ tab \in Tab /\ tab.session = issued + 1 /\ tab.held = open /\ tab.local = now.local
          /\ tab.rewrapped = now.rewrapped
        BY <1>3, <2>3, <2>6 DEF Tab
    <2>8. Good(tab)
        BY <1>4, <1>5, <1>6, <1>8, <1>11, <1>12, <2>3, <2>7 DEF Good
    <2> QED BY <1>6, <1>8, <1>10, <1>11, <1>12, <2>4, <2>5, <2>7, <2>8 DEF MadeBy
<1>13. CASE q.route = "claim"
    <2>1. PICK password \in Nat : /\ tab = Adopt(now, password)
                                  /\ password = made + 1 \/ password = load.password
        <3>1. made + 1 \in Nat
            BY <1>2
        <3> QED BY <1>2, <1>13, <3>1 DEF AfterMint, now
    <2>8. PICK new \in BackupRow : new = NewVault(password) /\ new.master > 0 /\ new.password = password
        BY <1>0, NewVaultRow
    <2> DEFINE own == [new EXCEPT !.linked = TRUE]
    <2>2. own \in BackupRow /\ own.master > 0 /\ own.password = password /\ own.linked
        BY <2>8 DEF BackupRow
    <2>3. tab = [now EXCEPT !.held = own]
        BY <2>1, <2>8 DEF Adopt
    <2> HIDE DEF own
    <2>4. Copy(own) /\ OursOrLinked(own) /\ PhraseOf(own)
        BY <1>0, <1>1, <1>13, <2>2 DEF Copy, OursOrLinked, PhraseOf, RoutesOk, RouteOk
    <2>5. ~q.overlap => WrapNow(own)
        <3> SUFFICES ASSUME ~q.overlap PROVE WrapNow(own)
            OBVIOUS
        <3>1. load.password = secret.password
            BY <1>0, <1>1, <1>13 DEF SecretOk
        <3>2. password >= secret.password
            BY <1>2, <2>1, <3>1
        <3> QED BY <2>2, <3>2 DEF WrapNow
    <2>6. /\ tab \in Tab /\ tab.session = issued + 1 /\ tab.held = own /\ tab.local = now.local
          /\ tab.rewrapped = now.rewrapped
        BY <1>3, <2>2, <2>3 DEF Tab
    <2>7. Good(tab)
        BY <1>4, <1>5, <1>6, <1>8, <1>11, <1>13, <2>4, <2>6 DEF Good
    <2> QED BY <1>6, <1>8, <1>10, <1>11, <1>13, <2>4, <2>5, <2>6, <2>7 DEF MadeBy
<1>14. CASE q.route = "recover"
    <2>1. ~q.overlap => load.password = secret.password
        BY <1>0, <1>1, <1>14 DEF SecretOk
    <2>2. tab = FinishRecovery(now, load)
        BY <1>14 DEF AfterMint, now
    <2>3. CASE vault.phrase = 0
        <3> DEFINE new == NewVault(load.password)
        <3>1. new \in BackupRow /\ new.master > 0 /\ new.password = load.password
            BY <1>0, <1>2, NewVaultRow
        <3>2. tab = [now EXCEPT !.held = new, !.local = NoBackup]
            BY <2>2, <2>3 DEF FinishRecovery
        <3> HIDE DEF new
        <3>3. /\ tab \in Tab /\ tab.session = issued + 1 /\ tab.held = new /\ tab.local = NoBackup
              /\ tab.rewrapped = now.rewrapped
            BY <1>2, <1>3, <3>1, <3>2 DEF Tab
        <3>4. ~OneOwner /\ ~InHand
            BY <1>4, <2>3 DEF Ours, InHand
        <3>5. ~q.overlap => WrapNow(new)
            BY <1>2, <2>1, <3>1 DEF WrapNow
        <3>6. Good(tab)
            BY <1>6, <1>8, <1>11, <1>14, <3>1, <3>3, <3>4 DEF Good, Copy
        <3> QED BY <1>6, <1>8, <1>10, <1>11, <1>14, <3>3, <3>4, <3>5, <3>6 DEF MadeBy
    <2>4. CASE vault.phrase # 0 /\ vault.phrase # load.phrase
        <3>1. tab = now
            BY <2>2, <2>4 DEF FinishRecovery
        <3>2. Good(tab)
            BY <1>3, <1>4, <1>5, <3>1 DEF Good
        <3> QED BY <1>6, <1>8, <1>10, <1>11, <1>14, <3>1, <3>2 DEF MadeBy
    <2>5. CASE vault.phrase # 0 /\ vault.phrase = load.phrase
        <3> DEFINE new == [vault EXCEPT !.password = load.password]
        <3>1. /\ new \in BackupRow /\ new.password = load.password /\ new.master = vault.master
              /\ new.phrase = vault.phrase /\ new.linked = vault.linked
            BY <1>2 DEF BackupRow
        <3>2. tab = [now EXCEPT !.rewrapped = new]
            BY <2>2, <2>5 DEF FinishRecovery
        <3> HIDE DEF new
        <3>3. /\ tab \in Tab /\ tab.session = issued + 1 /\ tab.held = now.held /\ tab.local = now.local
              /\ tab.rewrapped = new
            BY <1>3, <3>1, <3>2 DEF Tab
        <3>4. vault # NoBackup /\ Copy(new)
            BY <1>0, <2>5, <3>1, NoBackupRow DEF Copy
        <3>5. OneOwner => Ours(new)
            BY <1>4, <3>1 DEF Ours
        <3>6. ~q.overlap => WrapNow(new)
            BY <1>2, <2>1, <3>1 DEF WrapNow
        <3>7. vault.phrase = secret.phrase => PhraseOf(new)
            BY <3>1 DEF PhraseOf
        <3>8. Good(tab)
            BY <1>4, <1>5, <1>6, <1>11, <1>14, <3>3, <3>4, <3>5 DEF Good
        <3> QED BY <1>6, <1>8, <1>10, <1>11, <1>14, <3>3, <3>6, <3>7, <3>8 DEF MadeBy
    <2> QED BY <2>3, <2>4, <2>5
<1>15. CASE q.route = "password"
    <2>1. tab = [now EXCEPT !.local = load.backup]
        BY <1>15 DEF AfterMint, Changed, now
    <2>2. /\ tab \in Tab /\ tab.session = issued + 1 /\ tab.held = now.held /\ tab.local = load.backup
          /\ tab.rewrapped = now.rewrapped
        BY <1>2, <1>3, <2>1 DEF Tab
    <2>3. load.backup.master > 0
        BY <1>0, <1>1, <1>15 DEF RoutesOk, RouteOk
    <2>4. Good(tab)
        BY <1>4, <1>5, <2>2, <2>3 DEF Good, Copy, OursOrLinked
    <2>5. now.rewrapped = NoBackup
        BY <1>0, <1>1, <1>3, <1>5, <1>15 DEF AskerOk
    <2>6. ~q.overlap => WrapNow(now.held)
        <3> SUFFICES ASSUME ~q.overlap PROVE WrapNow(now.held)
            OBVIOUS
        <3>1. load.password = secret.password /\ now.held.password >= load.password
            BY <1>0, <1>1, <1>3, <1>15 DEF SecretOk
        <3> QED BY <3>1 DEF WrapNow
    <2> QED BY <1>3, <1>8, <1>9, <1>15, <2>2, <2>4, <2>5, <2>6 DEF MadeBy
<1> QED BY <1>1, <1>12, <1>13, <1>14, <1>15 DEF SignIns

LEMMA MintStep ==
    ASSUME TypeInv, TypeInv', TheVault, NEW c \in Requests, SignedIn(c)
    PROVE  TheVault'
<1> DEFINE q == requests[c]
           b == carried[c].browser
           new == [id |-> issued + 1, under |-> q.under, overlap |-> q.overlap]
           lost == (b = None \/ "lose" \in mix.features) /\ browsers' = browsers /\ made' = made
           moved == b \in mix.browsers /\ MadeBy(c, b, browsers'[b]) /\ made' = made + 1
                    /\ browsers' \in [mix.browsers -> Tab]
                    /\ \A a \in mix.browsers \ {b} : browsers'[a] = browsers[a]
<1>0. /\ VaultTyped /\ RoutesOk /\ SessionsOk /\ TabsOk /\ SecretsOk /\ KeysInv /\ PasswordInv /\ PhraseInv
    BY DEF TheVault
<1>1. /\ At(c, "mint") /\ issued < MaxIssued /\ issued' = issued + 1 /\ sessions' = sessions \cup {new}
      /\ Goes(c, Idle) /\ Drop /\ UNCHANGED <<mix, torn, secret, vault, late>>
    BY DEF SignedIn, Mint, bounds, account
<1>2. /\ q # Idle /\ ~At(c, "revoke") /\ q.route \in SignIns \cup {"password"}
      /\ (AsksFor(c, SignIns) <=> q.route # "password") /\ (AsksFor(c, {"password"}) <=> q.route = "password")
      /\ AsksFor(c, {"password", "phrase"}) <=> q.route = "password"
      /\ AsksFor(c, {"save", "password"}) <=> q.route = "password"
    BY <1>0, <1>1 DEF RoutesOk, RouteOk, At, Idle, AsksFor, SignIns
<1>3. /\ requests'[c] = Idle /\ carried'[c] = Nothing
      /\ \A d \in Requests \ {c} : requests'[d] = requests[d]
      /\ \A d \in Requests : Keeps(d)
      /\ carried' = [d \in Requests |-> carried'[d]]
      /\ Unrevoked
    BY <1>1, <1>2, GoneKeeps
<1>4. /\ b \in mix.browsers \cup {None} /\ issued \in Nat /\ MaxIssued \in Nat /\ NoSession = MaxIssued + 1
      /\ made \in Nat /\ made + 1 \in Nat
    BY <1>0, LoadRow, NumbersOk DEF VaultTyped
<1>5. moved \/ lost
    <2>1. CASE lost
        BY <2>1
    <2>2. CASE ~lost
        <3>1. /\ b # None /\ made' = made + 1
              /\ \E tab \in AfterMint(q.route, [browsers[b] EXCEPT !.session = issued + 1], carried[c]) :
                     browsers' = [browsers EXCEPT ![b] = tab]
            BY <2>2 DEF SignedIn, Becomes
        <3>2. PICK tab \in AfterMint(q.route, [browsers[b] EXCEPT !.session = issued + 1], carried[c]) :
                     browsers' = [browsers EXCEPT ![b] = tab]
            BY <3>1
        <3>3. b \in mix.browsers /\ From(c, b) /\ browsers \in [mix.browsers -> Tab]
            BY <1>0, <1>4, <3>1 DEF From, VaultTyped
        <3>4. MadeBy(c, b, tab)
            BY <1>1, <3>3, MintTab
        <3>5. tab \in Tab
            BY <3>4 DEF MadeBy, Good
        <3>6. browsers'[b] = tab /\ browsers' \in [mix.browsers -> Tab]
              /\ \A a \in mix.browsers \ {b} : browsers'[a] = browsers[a]
            BY <3>2, <3>3, <3>5
        <3> QED BY <3>1, <3>3, <3>4, <3>6
    <2> QED BY <2>1, <2>2
<1>6. moved => From(c, b)
    BY DEF From
<1> HIDE DEF moved, lost
<1>7. \A a \in mix.browsers : (lost \/ a # b) => browsers'[a] = browsers[a]
    BY <1>5 DEF lost, moved
<1>8. moved => /\ b \in mix.browsers /\ MadeBy(c, b, browsers'[b]) /\ Good(browsers'[b])
               /\ browsers'[b].session = issued + 1
    BY DEF moved, MadeBy, Good
<1>9. browsers' \in [mix.browsers -> Tab] /\ made' \in {made, made + 1}
    BY <1>0, <1>5 DEF lost, moved, VaultTyped
\* The tab that signs in asks for nothing else, and the one that changed its
\* password is as it was.
<1>10. ASSUME moved, NEW d \in Requests, d # c, From(d, b)
       PROVE  /\ ~AsksFor(d, SignIns)
              /\ AsksFor(d, {"save", "password", "phrase"}) =>
                     q.route = "password" /\ browsers'[b].held = browsers[b].held
                                          /\ browsers'[b].rewrapped = browsers[b].rewrapped
    <2>1. AskerOk(c, b) /\ AskerOk(d, b) /\ OneSignIn(b) /\ b \in mix.browsers
        BY <1>0, <1>8, <1>10 DEF TabsOk
    <2>2. From(c, b)
        BY <1>6, <1>10
    <2>3. CASE q.route # "password"
        <3>1. AsksFor(c, SignIns) /\ Blank(b)
            BY <1>2, <2>1, <2>2, <2>3 DEF AskerOk
        <3>2. ~AsksFor(d, SignIns)
            BY <1>10, <2>1, <2>2, <3>1 DEF OneSignIn, SignsIn
        <3>3. ~AsksFor(d, {"save"}) /\ ~AsksFor(d, {"password", "phrase"})
            BY <1>10, <2>1, <3>1 DEF AskerOk, Blank
        <3> QED BY <3>2, <3>3 DEF AsksFor
    <2>4. CASE q.route = "password"
        <3>1. ~Blank(b)
            BY <1>2, <2>1, <2>2, <2>4 DEF AskerOk, Blank
        <3>2. ~AsksFor(d, SignIns)
            BY <1>10, <2>1, <3>1 DEF AskerOk
        <3>3. browsers'[b].held = browsers[b].held /\ browsers'[b].rewrapped = browsers[b].rewrapped
            BY <1>2, <1>8, <1>10, <2>4 DEF MadeBy
        <3> QED BY <2>4, <3>2, <3>3
    <2> QED BY <2>3, <2>4
<1>11. moved => Fresh(b)
    <2> SUFFICES ASSUME moved PROVE Fresh(b)
        OBVIOUS
    <2>1. \A s \in sessions : s.id # issued + 1
        BY <1>0, <1>4, NumbersOk DEF SessionsOk
    <2>2. ASSUME NEW d \in Requests, requests[d] # Idle PROVE requests[d].session # issued + 1
        <3>1. requests[d].session <= issued /\ requests[d].session \in Nat
            BY <1>0, <2>2, RequestRow DEF SessionsOk
        <3> QED BY <1>4, <3>1
    <2> QED BY <1>8, <2>1, <2>2 DEF Fresh
<1>12. VaultTyped'
    BY <1>0, <1>1, <1>3, <1>9, KeptTyped DEF VaultTyped
<1>13. RoutesOk'
    BY <1>0, <1>1, <1>3, KeptRoutes
<1>14. SessionsOk'
    <2>1. MaxIssued' = MaxIssued /\ NoSession' = NoSession
        BY <1>1 DEF MaxIssued, NoSession
    <2>2. issued' \in Nat /\ issued <= issued' /\ issued' <= MaxIssued /\ issued' # NoSession
        BY <1>1, <1>4
    <2>3. \A s \in sessions' : s.id <= issued'
        BY <1>0, <1>1, <1>4, <2>2, NumbersOk DEF SessionsOk
    <2>4. ASSUME NEW d \in Requests, requests'[d] # Idle PROVE requests'[d].session <= issued'
        <3>1. requests'[d] = requests[d] /\ requests[d].session <= issued /\ requests[d].session \in Nat
            BY <1>0, <1>3, <2>4, RequestRow DEF SessionsOk
        <3> QED BY <1>4, <2>2, <3>1
    <2>5. ASSUME NEW a \in mix.browsers
          PROVE  browsers'[a].session <= issued' \/ browsers'[a].session = NoSession
        <3>1. CASE moved /\ a = b
            BY <1>1, <1>4, <1>8, <3>1
        <3>2. CASE lost \/ a # b
            <4>1. browsers'[a] = browsers[a] /\ browsers[a].session \in Nat
                  /\ (browsers[a].session <= issued \/ browsers[a].session = NoSession)
                BY <1>0, <1>7, <3>2, TabRow DEF SessionsOk
            <4> QED BY <1>4, <2>2, <4>1
        <3> QED BY <1>5, <3>1, <3>2
    <2>6. ASSUME NEW a \in mix.browsers, moved, a # b PROVE browsers'[a].session # browsers'[b].session
        <3>1. browsers'[a] = browsers[a] /\ browsers[a].session \in Nat
              /\ (browsers[a].session <= issued \/ browsers[a].session = NoSession)
            BY <1>0, <1>7, <2>6, TabRow DEF SessionsOk
        <3> QED BY <1>1, <1>4, <1>8, <2>2, <2>6, <3>1
    <2>7. \A a, e \in mix.browsers : browsers'[a].session = browsers'[e].session /\ a # e =>
              browsers'[a].session = NoSession
        BY <1>0, <1>5, <1>7, <2>6 DEF SessionsOk
    <2> QED BY <1>1, <2>1, <2>2, <2>3, <2>4, <2>5, <2>7 DEF SessionsOk
<1>15. TabsOk'
    <2>1. ASSUME NEW a \in mix.browsers, NEW d \in Requests PROVE AskerOk(d, a)'
        <3>1. CASE d = c
            BY <1>3, <3>1 DEF AskerOk, AsksFor
        <3>2. CASE d # c /\ (lost \/ a # b)
            <4>1. AskerOk(d, a) /\ TabStays(a)
                BY <1>0, <1>7, <3>2 DEF TabsOk, TabStays
            <4>2. From(d, a) /\ requests'[d] # Idle => From(d, a)'
                BY <1>0, <1>1, DropFrom
            <4> QED BY <1>0, <1>1, <1>3, <4>1, <4>2, KeptAsker
        <3>3. CASE d # c /\ moved /\ a = b
            <4>1. /\ AsksFor(d, SignIns)' => AsksFor(d, SignIns)
                  /\ AsksFor(d, {"save"})' => AsksFor(d, {"save"})
                  /\ AsksFor(d, {"phrase"})' => requests[d] # Idle
                  /\ AsksFor(d, {"password", "phrase"})' => AsksFor(d, {"password", "phrase"})
                  /\ From(d, a)' => From(d, a)
                BY <1>0, <1>1, <1>3, KeepsFacts DEF AsksFor
            <4>2. From(d, a) => ~AsksFor(d, SignIns)
                BY <1>10, <3>3
            <4>3. From(d, a) /\ AsksFor(d, {"save"}) => ~Blank(a)'
                <5> SUFFICES ASSUME From(d, a), AsksFor(d, {"save"}) PROVE ~Blank(a)'
                    OBVIOUS
                <5>1. AsksFor(d, {"save", "password", "phrase"}) /\ ~Blank(a)
                    BY <1>0 DEF AsksFor, TabsOk, AskerOk
                <5> QED BY <1>10, <3>3, <5>1 DEF Blank
            <4>4. From(d, a) /\ AsksFor(d, {"password", "phrase"}) => browsers'[a].held # NoBackup
                <5> SUFFICES ASSUME From(d, a), AsksFor(d, {"password", "phrase"}) PROVE browsers'[a].held # NoBackup
                    OBVIOUS
                <5>1. AsksFor(d, {"save", "password", "phrase"}) /\ browsers[a].held # NoBackup
                    BY <1>0 DEF AsksFor, TabsOk, AskerOk
                <5> QED BY <1>10, <3>3, <5>1
            <4>5. AsksFor(d, {"phrase"})' => browsers'[a].session # requests'[d].session
                BY <1>3, <1>11, <3>3, <4>1 DEF Fresh
            <4> QED BY <4>1, <4>2, <4>3, <4>4, <4>5 DEF AskerOk
        <3> QED BY <1>5, <3>1, <3>2, <3>3
    <2>2. ASSUME NEW a \in mix.browsers, NEW d \in Requests, SignsIn(d, a)' PROVE SignsIn(d, a)
        BY <1>0, <1>1, <1>3, <2>2, KeepsFacts DEF SignsIn
    <2>3. \A a \in mix.browsers : OneSignIn(a)'
        BY <1>0, <1>1, <2>2 DEF OneSignIn, TabsOk
    <2>4. ASSUME NEW a \in mix.browsers PROVE TabOk(a)'
        <3>1. CASE moved /\ a = b
            BY <1>8, <3>1 DEF TabOk, Copy, Good
        <3>2. CASE lost \/ a # b
            BY <1>0, <1>7, <3>2 DEF TabsOk, TabOk, Copy
        <3> QED BY <1>5, <3>1, <3>2
    <2>5. Copy(vault)'
        BY <1>0, <1>1 DEF Copy, TabsOk
    <2> QED BY <1>1, <2>1, <2>3, <2>4, <2>5 DEF TabsOk
<1>16. SecretsOk'
    <2>1. ASSUME NEW d \in Requests PROVE HeldGrows(d)
        <3> SUFFICES ASSUME NEW a \in mix.browsers, From(d, a)', AsksFor(d, {"password"})
                     PROVE  browsers'[a].held.password >= carried[d].password
            BY DEF HeldGrows
        <3>1. From(d, a) /\ d # c
            BY <1>0, <1>1, <1>3, KeepsFacts
        <3>2. browsers[a].held.password >= carried[d].password
            BY <1>0, <3>1 DEF SecretsOk, SecretOk
        <3>3. AsksFor(d, {"save", "password", "phrase"})
            BY DEF AsksFor
        <3>4. browsers'[a].held = browsers[a].held
            BY <1>5, <1>7, <1>10, <3>1, <3>3
        <3> QED BY <3>2, <3>4
    <2> QED BY <1>0, <1>1, <1>3, <2>1, KeptSecrets
<1>17. KeysInv'
    <2> SUFFICES ASSUME OneOwner PROVE KeysInv'
        BY <1>1 DEF KeysInv, OneOwner
    <2>2. \A d \in Requests : Ours(carried'[d].backup)
        BY <1>0, <1>1, <1>3, KeepsFacts DEF KeysInv
    <2>4. ASSUME NEW a \in mix.browsers
          PROVE  OursOrLinked(browsers'[a].held) /\ OursOrLinked(browsers'[a].local) /\ Ours(browsers'[a].rewrapped)
        <3>1. CASE moved /\ a = b
            BY <1>8, <3>1 DEF Good
        <3>2. CASE lost \/ a # b
            BY <1>0, <1>7, <3>2 DEF KeysInv
        <3> QED BY <1>5, <3>1, <3>2
    <2> QED BY <1>0, <1>1, <2>2, <2>4 DEF KeysInv, Ours, OursOrLinked
<1>18. OthersQuiet(c) => Quiet
    BY <1>2 DEF OthersQuiet, Quiet
<1>19. Quiet' => Quiet /\ OthersQuiet(c)
    BY <1>0, <1>1, <1>3, KeptQuiet DEF Quiet, OthersQuiet
<1>20. ASSUME NEW a \in mix.browsers, browsers'[a].session = issued + 1 PROVE moved /\ a = b
    <2>1. lost \/ a # b => browsers[a].session = issued + 1
        BY <1>7, <1>20
    <2>2. browsers[a].session # issued + 1
        BY <1>0, <1>1, <1>4, TabRow DEF SessionsOk
    <2> QED BY <1>5, <2>1, <2>2
<1>21. PasswordInv'
    <2> SUFFICES ASSUME ~late', ~torn' PROVE PasswordNow'
        BY DEF PasswordInv
    <2>1. PasswordNow
        BY <1>0, <1>1 DEF PasswordInv
    <2>2. ASSUME NEW a \in mix.browsers, moved, a = b, ~q.overlap PROVE TabNow(a)'
        BY <1>1, <1>8, <2>2 DEF MadeBy, TabNow, WrapNow
    <2>3. ASSUME NEW s \in sessions', s \notin sessions PROVE SessionNow(s)'
        <3>1. s.id = issued + 1 /\ s.overlap = q.overlap
            BY <1>1, <2>3
        <3> QED BY <1>1, <1>20, <2>2, <3>1 DEF SessionNow
    <2>4. ASSUME NEW a \in mix.browsers PROVE TabKeepsNow(a)
        <3>1. CASE moved /\ a = b
            <4>1. ASSUME NEW d \in Requests, From(d, a)', AsksFor(d, {"save", "phrase"}) PROVE TabNow(a) => TabNow(a)'
                <5>1. From(d, a) /\ d # c /\ AsksFor(d, {"save", "password", "phrase"})
                    BY <1>0, <1>1, <1>3, <4>1, KeepsFacts DEF AsksFor
                <5>2. browsers'[b].held = browsers[b].held /\ browsers'[b].rewrapped = browsers[b].rewrapped
                    BY <1>10, <3>1, <5>1
                <5> QED BY <1>1, <3>1, <5>2 DEF TabNow, WrapNow
            <4> QED BY <1>11, <3>1, <4>1 DEF TabKeepsNow
        <3>2. CASE lost \/ a # b
            BY <1>1, <1>7, <3>2 DEF TabKeepsNow, TabNow, WrapNow
        <3> QED BY <1>5, <3>1, <3>2
    <2>5. \A s \in sessions' : s \in sessions \/ (Quiet' => SessionNow(s)')
        BY <2>3
    <2> QED BY <1>0, <1>1, <1>3, <2>1, <2>4, <2>5, KeptPassword
<1>22. PhraseInv'
    <2> SUFFICES ASSUME ~late', ~torn', InHand PROVE PhraseNow'
        BY <1>1 DEF PhraseInv, InHand, OneOwner
    <2>1. PhraseNow /\ PasswordNow /\ vault.phrase = secret.phrase
        BY <1>0, <1>1 DEF PhraseInv, PasswordInv, PhraseNow
    <2>2. ASSUME NEW a \in mix.browsers, moved, a = b, Quiet', ~q.overlap PROVE TabPhrase(a)'
        <3>1. CASE q.route # "password"
            <4>1. PhraseOf(browsers'[b].held) /\ PhraseOf(browsers'[b].rewrapped)
                BY <1>2, <1>8, <2>1, <2>2, <3>1 DEF MadeBy
            <4> QED BY <1>1, <2>2, <4>1 DEF TabPhrase, PhraseOf
        <3>2. CASE q.route = "password"
            <4>1. ~carried[c].overlap
                BY <1>1, <1>2, <2>1, <3>2 DEF PasswordNow, LateKnown
            <4>2. Undisturbed(c)
                BY <1>2, <1>19, <2>2, <4>1 DEF Undisturbed
            <4>3. TabPhrase(b)
                BY <1>2, <1>6, <1>8, <2>1, <2>2, <3>2, <4>2 DEF PhraseNow, SlotPhrase, InSession
            <4>4. browsers'[b].held = browsers[b].held /\ browsers'[b].rewrapped = browsers[b].rewrapped
                BY <1>2, <1>8, <2>2, <3>2 DEF MadeBy
            <4> QED BY <1>1, <2>2, <4>3, <4>4 DEF TabPhrase, PhraseOf
        <3> QED BY <3>1, <3>2
    <2>3. ASSUME Quiet', NEW s \in sessions', s \notin sessions PROVE SessionPhrase(s)'
        <3>1. s.id = issued + 1 /\ s.overlap = q.overlap
            BY <1>1, <2>3
        <3> QED BY <1>1, <1>20, <2>2, <2>3, <3>1 DEF SessionPhrase
    <2>4. ASSUME NEW a \in mix.browsers PROVE TabKeepsPhrase(a)
        <3>1. CASE moved /\ a = b
            <4>1. ASSUME NEW d \in Requests, From(d, a)', AsksFor(d, {"save", "password", "phrase"})
                  PROVE  TabPhrase(a) => TabPhrase(a)'
                <5>1. From(d, a) /\ d # c
                    BY <1>0, <1>1, <1>3, <4>1, KeepsFacts
                <5>2. browsers'[b].held = browsers[b].held /\ browsers'[b].rewrapped = browsers[b].rewrapped
                    BY <1>10, <3>1, <4>1, <5>1
                <5> QED BY <1>1, <3>1, <5>2 DEF TabPhrase, PhraseOf
            <4> QED BY <1>11, <3>1, <4>1 DEF TabKeepsPhrase
        <3>2. CASE lost \/ a # b
            BY <1>1, <1>7, <3>2 DEF TabKeepsPhrase, TabPhrase, PhraseOf
        <3> QED BY <1>5, <3>1, <3>2
    <2>5. \A s \in sessions' : s \in sessions \/ (Quiet' => SessionPhrase(s)')
        BY <2>3
    <2>6. vault'.phrase = secret.phrase
        BY <1>1, <2>1
    <2> QED BY <1>0, <1>1, <1>3, <2>1, <2>4, <2>5, <2>6, KeptPhrase
<1> QED BY <1>12, <1>13, <1>14, <1>15, <1>16, <1>17, <1>21, <1>22 DEF TheVault

-----------------------------------------------------------------------------
(* Vault: sessions are revoked, and the phrase is answered *)

LEMMA RevokesKeep ==
    ASSUME TypeInv, TheVault, NEW c \in Requests, RevokeAndAnswer(c)
    PROVE  /\ requests[c] \in Request /\ requests[c] # Idle /\ At(c, "revoke") /\ Drop
           /\ UNCHANGED <<mix, issued, torn, secret, vault, late, made>>
           /\ carried' = [d \in Requests |-> carried'[d]]
           /\ \A d \in Requests \ {c} :
                 /\ Keeps(d) /\ carried'[d] = carried[d] /\ (requests'[d] = Idle \/ requests'[d].overlap)
                 /\ \A step : At(d, step)' <=> At(d, step)
           /\ \/ /\ requests[c].route \in {"password", "recover"} /\ sessions' = {} /\ browsers' = browsers
                 /\ requests'[c] \in Request /\ requests'[c] # Idle /\ At(c, "mint")'
                 /\ requests'[c].route = requests[c].route /\ requests'[c].session = requests[c].session
                 /\ requests'[c].overlap = requests[c].overlap /\ carried'[c] = carried[c]
              \/ /\ requests[c].route = "phrase" /\ requests'[c] = Idle /\ carried'[c] = Nothing
                 /\ \A s \in sessions' : /\ \E t \in sessions : s.id = t.id
                                         /\ s.id = requests[c].session /\ s.overlap = requests[c].overlap
<1> DEFINE q == requests[c]
<1>1. /\ q.step = "revoke" /\ At(c, "revoke") /\ Drop /\ carried' = [d \in Requests |-> carried'[d]]
      /\ UNCHANGED <<mix, issued, torn, secret, vault, late, made>> /\ Revoke(c)
    BY DEF RevokeAndAnswer, Revoke, At, bounds, account, Drop
<1>2. q \in Request /\ q # Idle /\ q.route \in VaultRoutes
    BY <1>1, RequestType, RequestSteps, SlotRoutes
<1>3. \E r : requests' = Overlapped(c, r)
    BY <1>1 DEF Revoke, RevokeAllCredentials, RevokeOtherCredentials
<1>4. ASSUME NEW d \in Requests \ {c}
      PROVE  /\ Keeps(d) /\ carried'[d] = carried[d] /\ (requests'[d] = Idle \/ requests'[d].overlap)
             /\ \A step : At(d, step)' <=> At(d, step)
    <2>1. carried'[d] = IF requests'[d] = Idle THEN Nothing ELSE carried[d]
        BY <1>1 DEF Drop
    <2> QED BY <1>3, <2>1, OverlappedKeeps
<1>5. CASE RevokeAllCredentials(c)
    <2> DEFINE r == [q EXCEPT !.step = "mint", !.ticket = 0]
    <2>1. r \in Request /\ r.step = "mint" /\ r.route = q.route /\ r.session = q.session /\ r.overlap = q.overlap
        BY <1>2 DEF Request, Steps
    <2>2. requests' = Overlapped(c, r) /\ sessions' = {} /\ q.route \in {"password", "recover"}
        BY <1>5 DEF RevokeAllCredentials
    <2> HIDE DEF r
    <2>3. requests'[c] = r
        BY <2>2 DEF Overlapped
    <2>4. requests'[c] # Idle
        BY <2>1, <2>3, RequestSteps
    <2>5. carried'[c] = carried[c]
        BY <1>1, <2>4 DEF Drop
    <2>6. browsers' = browsers
        BY <2>2 DEF RevokeAndAnswer
    <2> QED BY <1>1, <1>2, <1>4, <2>1, <2>2, <2>3, <2>4, <2>5, <2>6 DEF At
<1>6. CASE RevokeOtherCredentials(c)
    <2>1. /\ q.route = "phrase" /\ requests' = Overlapped(c, Idle)
          /\ sessions' = {[s EXCEPT !.under = q.under, !.overlap = q.overlap] : s \in {s \in sessions : s.id = q.session}}
        BY <1>2, <1>6 DEF RevokeOtherCredentials, VaultRoutes, SignIns
    <2>2. requests'[c] = Idle
        BY <2>1 DEF Overlapped
    <2>3. carried'[c] = Nothing
        BY <1>1, <2>2 DEF Drop
    <2>4. ASSUME NEW s \in sessions'
          PROVE  (\E t \in sessions : s.id = t.id) /\ s.id = q.session /\ s.overlap = q.overlap
        <3>1. PICK t \in sessions : t.id = q.session /\ s = [t EXCEPT !.under = q.under, !.overlap = q.overlap]
            BY <2>1
        <3>2. t \in Row
            BY DEF TypeInv
        <3>3. s.id = t.id /\ s.overlap = q.overlap
            BY <3>1, <3>2 DEF Row
        <3> QED BY <3>1, <3>3
    <2> QED BY <1>1, <1>2, <1>4, <2>1, <2>2, <2>3, <2>4
<1> QED BY <1>1, <1>5, <1>6 DEF Revoke

LEMMA RevokeAllStep ==
    ASSUME TypeInv, TypeInv', TheVault, NEW c \in Requests, RevokeAndAnswer(c), requests[c].route # "phrase"
    PROVE  TheVault'
<1> DEFINE q == requests[c]
<1>0. /\ VaultTyped /\ RoutesOk /\ SessionsOk /\ TabsOk /\ SecretsOk /\ KeysInv /\ PasswordInv /\ PhraseInv
    BY DEF TheVault
<1>1. /\ q \in Request /\ q # Idle /\ At(c, "revoke") /\ Drop /\ q.route \in {"password", "recover"}
      /\ UNCHANGED <<mix, issued, torn, secret, vault, late, made, browsers>> /\ sessions' = {}
      /\ carried' = [d \in Requests |-> carried'[d]]
      /\ requests'[c] \in Request /\ requests'[c] # Idle /\ At(c, "mint")'
      /\ requests'[c].route = q.route /\ requests'[c].session = q.session
      /\ requests'[c].overlap = q.overlap /\ carried'[c] = carried[c]
    BY RevokesKeep
<1>2. ASSUME NEW d \in Requests \ {c}
      PROVE  /\ Keeps(d) /\ carried'[d] = carried[d] /\ (requests'[d] = Idle \/ requests'[d].overlap)
             /\ \A step : At(d, step)' <=> At(d, step)
    BY RevokesKeep
<1>3. carried' = carried
    BY <1>0, <1>1, <1>2 DEF VaultTyped
<1>4. \A d \in Requests : \A routes : AsksFor(d, routes)' => AsksFor(d, routes)
    <2>1. \A routes : AsksFor(c, routes)' <=> AsksFor(c, routes)
        BY <1>1 DEF AsksFor
    <2>2. \A d \in Requests \ {c} : \A routes : AsksFor(d, routes)' => AsksFor(d, routes)
        BY <1>0, <1>1, <1>2, KeepsFacts
    <2> QED BY <2>1, <2>2
<1>5. /\ ~AsksFor(c, {"save"}) /\ ~AsksFor(c, {"save", "phrase"}) /\ ~AsksFor(c, {"phrase"}) /\ ~AsksFor(c, {"login", "claim"})
      /\ AsksFor(c, {"password", "recover"})
      /\ RouteOk(c) /\ SecretOk(c)
    BY <1>0, <1>1 DEF AsksFor, RoutesOk, SecretsOk
<1>6. \A d \in Requests, b \in mix.browsers : From(d, b)' <=> From(d, b)
    BY <1>3 DEF From
<1>7. VaultTyped'
    BY <1>0, <1>1, <1>3 DEF VaultTyped, Load
<1>8. RoutesOk'
    <2>1. AsksFor(c, {"save", "password", "phrase"})' => AsksFor(c, {"save", "password", "phrase"})
        BY <1>4
    <2>2. ~AsksFor(c, {"phrase"})'
        BY <1>4, <1>5
    <2>3. RouteOk(c)'
        BY <1>1, <1>5, <2>1, <2>2 DEF RouteOk, At, SignIns
    <2> QED BY <1>0, <1>1, <1>2, <2>3, KeptRoutes
<1>9. SessionsOk'
    <2>1. issued \in Nat /\ issued <= issued' /\ issued' <= MaxIssued /\ \A s \in sessions' : s.id <= issued'
        BY <1>0, <1>1 DEF TypeInv, SessionsOk
    <2>2. requests'[c].session <= issued'
        BY <1>0, <1>1 DEF SessionsOk
    <2>3. \A d \in Requests : Keeps(d) \/ requests'[d].session <= issued'
        BY <1>2, <2>2
    <2> QED BY <1>0, <1>1, <2>1, <2>3, KeptSessions
<1>10. TabsOk'
    <2>1. ASSUME NEW b \in mix.browsers, NEW d \in Requests PROVE AskerOk(d, b)'
        <3>1. requests'[d] # Idle => requests'[d].session = requests[d].session
            BY <1>0, <1>1, <1>2, KeepsFacts DEF GoesOn
        <3>2. AskerOk(d, b)
            BY <1>0 DEF TabsOk
        <3>3. Blank(b)' <=> Blank(b)
            BY <1>1 DEF Blank
        <3>4. requests'[d] = Idle => ~AsksFor(d, {"phrase"})'
            BY DEF AsksFor
        <3> QED BY <1>1, <1>4, <1>6, <3>1, <3>2, <3>3, <3>4 DEF AskerOk
    <2>2. ASSUME NEW b \in mix.browsers PROVE OneSignIn(b)' /\ TabOk(b)'
        BY <1>0, <1>1, <1>4, <1>6 DEF OneSignIn, SignsIn, TabsOk, TabOk, Copy
    <2>3. Copy(vault)'
        BY <1>0, <1>1 DEF TabsOk, Copy
    <2> QED BY <1>1, <2>1, <2>2, <2>3 DEF TabsOk
<1>11. SecretsOk'
    <2>1. AsksFor(c, {"password"})' => AsksFor(c, {"password"})
        BY <1>4
    <2>2. ~AsksFor(c, {"login", "claim"})' /\ ~AsksFor(c, {"phrase"})'
        BY <1>4, <1>5
    <2>3. SecretOk(c)'
        BY <1>1, <1>5, <1>6, <2>1, <2>2 DEF SecretOk
    <2>4. ASSUME NEW d \in Requests PROVE HeldGrows(d)
        BY <1>0, <1>1, <1>6 DEF HeldGrows, SecretsOk, SecretOk
    <2> QED BY <1>0, <1>1, <1>2, <2>3, <2>4, KeptSecrets
<1>12. KeysInv'
    BY <1>0, <1>1, <1>3 DEF KeysInv, OneOwner, Ours, OursOrLinked
<1>13. \A d \in Requests \ {c} : ~Undisturbed(d)'
    BY <1>2 DEF Undisturbed
<1>14. PasswordInv'
    <2> SUFFICES ASSUME ~late', ~torn' PROVE PasswordNow'
        BY DEF PasswordInv
    <2>1. PasswordNow
        BY <1>0, <1>1 DEF PasswordInv
    <2>2. (WrapNow(vault) \/ secret.by = "recover")'
        BY <1>1, <2>1 DEF PasswordNow, WrapNow
    <2>3. ASSUME NEW d \in Requests PROVE SlotNow(d)'
        <3>1. ~AsksFor(c, {"save", "phrase"})'
            BY <1>4, <1>5
        <3> QED BY <1>13, <3>1 DEF SlotNow
    <2>4. LateKnown'
        <3> SUFFICES ASSUME NEW d \in Requests, AsksFor(d, {"password", "phrase"})', (At(d, "revoke") \/ At(d, "mint"))'
                     PROVE  ~carried'[d].overlap
            BY DEF LateKnown
        <3>1. AsksFor(d, {"password", "phrase"}) /\ (At(d, "revoke") \/ At(d, "mint"))
            BY <1>1, <1>2, <1>4
        <3> QED BY <1>3, <2>1, <3>1 DEF PasswordNow, LateKnown
    <2> QED BY <1>1, <2>2, <2>3, <2>4 DEF PasswordNow
<1>15. PhraseInv'
    <2> SUFFICES ASSUME ~late', ~torn', InHand PROVE PhraseNow'
        BY <1>1 DEF PhraseInv, InHand, OneOwner
    <2>1. PhraseNow
        BY <1>0, <1>1 DEF PhraseInv
    <2>3. ASSUME NEW d \in Requests PROVE SlotPhrase(d)'
        <3> SUFFICES ASSUME (AsksFor(d, {"save", "password"}) \/ (AsksFor(d, {"phrase"}) /\ At(d, "commit")))',
                            Undisturbed(d)'
                     PROVE  SlotPhrase(d)'
            BY DEF SlotPhrase
        <3>1. d = c
            BY <1>13
        <3>2. ~AsksFor(c, {"phrase"})'
            BY <1>4, <1>5
        <3>3. AsksFor(c, {"save", "password"})
            BY <1>4, <3>1, <3>2
        <3>4. Undisturbed(c)
            BY <1>1, <1>2, <3>1 DEF Undisturbed, OthersQuiet
        <3>5. PhraseOf(carried[c].backup) /\ \A b \in mix.browsers : InSession(c, b) => TabPhrase(b)
            BY <2>1, <3>3, <3>4 DEF PhraseNow, SlotPhrase
        <3>6. PhraseOf(carried[c].backup)'
            BY <1>1, <3>5 DEF PhraseOf
        <3>7. \A b \in mix.browsers : TabPhrase(b) => TabPhrase(b)'
            BY <1>1 DEF TabPhrase, PhraseOf
        <3>8. \A b \in mix.browsers : InSession(c, b)' => InSession(c, b)
            BY <1>1, <1>6 DEF InSession
        <3> QED BY <1>1, <3>1, <3>5, <3>6, <3>7, <3>8 DEF SlotPhrase
    <2> QED BY <1>1, <2>1, <2>3 DEF PhraseNow
<1> QED BY <1>7, <1>8, <1>9, <1>10, <1>11, <1>12, <1>14, <1>15 DEF TheVault

LEMMA RevokeOthersStep ==
    ASSUME TypeInv, TypeInv', TheVault, NEW c \in Requests, RevokeAndAnswer(c), requests[c].route = "phrase"
    PROVE  TheVault'
<1> DEFINE q == requests[c]
           load == carried[c]
           b == load.browser
           lost == (b = None \/ "lose" \in mix.features) /\ browsers' = browsers
           moved == /\ b \in mix.browsers /\ From(c, b)
                    /\ browsers'[b].held.phrase = load.phrase
                    /\ browsers'[b].held.master = browsers[b].held.master
                    /\ browsers'[b].held.password = browsers[b].held.password
                    /\ browsers'[b].held.linked = browsers[b].held.linked
                    /\ browsers'[b].session = browsers[b].session /\ browsers'[b].local = browsers[b].local
                    /\ browsers'[b].rewrapped = browsers[b].rewrapped
                    /\ browsers' \in [mix.browsers -> Tab]
                    /\ \A a \in mix.browsers \ {b} : browsers'[a] = browsers[a]
<1>0. /\ VaultTyped /\ RoutesOk /\ SessionsOk /\ TabsOk /\ SecretsOk /\ KeysInv /\ PasswordInv /\ PhraseInv
    BY DEF TheVault
<1>1. /\ q \in Request /\ q # Idle /\ At(c, "revoke") /\ Drop
      /\ UNCHANGED <<mix, issued, torn, secret, vault, late, made>>
      /\ carried' = [d \in Requests |-> carried'[d]]
      /\ requests'[c] = Idle /\ carried'[c] = Nothing
      /\ \A s \in sessions' : /\ \E t \in sessions : s.id = t.id
                              /\ s.id = q.session /\ s.overlap = q.overlap
    BY RevokesKeep
<1>2. ASSUME NEW d \in Requests \ {c}
      PROVE  /\ Keeps(d) /\ carried'[d] = carried[d] /\ (requests'[d] = Idle \/ requests'[d].overlap)
             /\ \A step : At(d, step)' <=> At(d, step)
    BY RevokesKeep
<1>3. \A d \in Requests : Keeps(d)
    BY <1>1, <1>2 DEF Keeps
<1>4. /\ AsksFor(c, {"phrase"}) /\ AsksFor(c, {"password", "phrase"}) /\ AsksFor(c, {"save", "phrase"})
      /\ RouteOk(c) /\ SecretOk(c) /\ load.phrase > 0
      /\ load \in Load /\ load.phrase \in Nat /\ b \in mix.browsers \cup {None} /\ None \notin mix.browsers
    BY <1>0, <1>1, LoadRow, NumbersOk DEF AsksFor, RoutesOk, SecretsOk, RouteOk
<1>5. moved \/ lost
    <2>1. CASE lost
        BY <2>1
    <2>2. CASE ~lost
        <3>1. b # None /\ browsers' = [browsers EXCEPT ![b] = PhraseSet(browsers[b], load)]
            BY <2>2 DEF RevokeAndAnswer, Becomes
        <3>2. b \in mix.browsers /\ From(c, b) /\ browsers \in [mix.browsers -> Tab] /\ browsers[b] \in Tab
            BY <1>0, <1>4, <3>1, TabRow DEF From, VaultTyped
        <3> DEFINE held == [browsers[b].held EXCEPT !.phrase = load.phrase]
                   tab == [browsers[b] EXCEPT !.held = held]
        <3>3. /\ held \in BackupRow /\ held.phrase = load.phrase /\ held.master = browsers[b].held.master
              /\ held.password = browsers[b].held.password /\ held.linked = browsers[b].held.linked
            BY <1>4, <3>2 DEF Tab, BackupRow
        <3>4. PhraseSet(browsers[b], load) = tab
            BY <3>2 DEF PhraseSet, Tab
        <3> HIDE DEF held
        <3>5. /\ tab \in Tab /\ tab.held = held /\ tab.session = browsers[b].session
              /\ tab.local = browsers[b].local /\ tab.rewrapped = browsers[b].rewrapped
            BY <3>2, <3>3 DEF Tab
        <3> HIDE DEF tab
        <3>6. browsers'[b] = tab /\ browsers' \in [mix.browsers -> Tab]
              /\ \A a \in mix.browsers \ {b} : browsers'[a] = browsers[a]
            BY <3>1, <3>2, <3>4, <3>5
        <3> QED BY <3>2, <3>3, <3>5, <3>6
    <2> QED BY <2>1, <2>2
<1>6. \A a \in mix.browsers : lost \/ (moved /\ a # b) => browsers'[a] = browsers[a]
    BY DEF lost, moved
\* The tab that set the phrase holds keys, and goes on holding them.
<1>7. moved => /\ b \in mix.browsers /\ From(c, b) /\ browsers[b].held # NoBackup /\ browsers[b].held.master > 0
               /\ browsers'[b].held # NoBackup /\ browsers[b].rewrapped = NoBackup
               /\ browsers'[b].rewrapped = NoBackup
    <2> SUFFICES ASSUME moved
                 PROVE  /\ b \in mix.browsers /\ From(c, b) /\ browsers[b].held # NoBackup
                        /\ browsers[b].held.master > 0
                        /\ browsers'[b].held # NoBackup /\ browsers[b].rewrapped = NoBackup
                        /\ browsers'[b].rewrapped = NoBackup
        OBVIOUS
    <2>1. AskerOk(c, b) /\ TabOk(b) /\ From(c, b) /\ b \in mix.browsers
        BY <1>0 DEF TabsOk, moved
    <2>2. browsers[b].held # NoBackup /\ browsers[b].held.master > 0 /\ browsers[b].rewrapped = NoBackup
        BY <1>4, <2>1 DEF AskerOk, TabOk, Copy
    <2>3. browsers'[b].held.master > 0 /\ browsers'[b].rewrapped = NoBackup
        BY <2>2 DEF moved
    <2> QED BY <2>1, <2>2, <2>3, NoBackupRow
<1>8. moved => /\ browsers'[b].held.phrase = load.phrase
               /\ browsers'[b].held.master = browsers[b].held.master
               /\ browsers'[b].held.password = browsers[b].held.password
               /\ browsers'[b].held.linked = browsers[b].held.linked
               /\ browsers'[b].session = browsers[b].session /\ browsers'[b].local = browsers[b].local
    BY DEF moved
<1>9. browsers' \in [mix.browsers -> Tab]
    BY <1>0, <1>5 DEF lost, moved, VaultTyped
<1> HIDE DEF lost, moved
<1>10. \A a \in mix.browsers : TabStays(a)
    <2> SUFFICES ASSUME NEW a \in mix.browsers PROVE TabStays(a)
        OBVIOUS
    <2>1. CASE moved /\ a = b
        BY <1>7, <1>8, <2>1 DEF TabStays, Blank
    <2>2. CASE lost \/ (moved /\ a # b)
        BY <1>6, <2>2 DEF TabStays
    <2> QED BY <1>5, <2>1, <2>2
<1>11. VaultTyped'
    BY <1>0, <1>1, <1>3, <1>9, KeptTyped DEF VaultTyped
<1>12. RoutesOk'
    BY <1>0, <1>1, <1>3, KeptRoutes
<1>13. SessionsOk'
    <2>1. issued \in Nat /\ issued <= issued' /\ issued' <= MaxIssued /\ \A s \in sessions' : s.id <= issued'
        BY <1>0, <1>1 DEF TypeInv, SessionsOk
    <2>2. \A a \in mix.browsers : browsers'[a].session = browsers[a].session
        BY <1>10 DEF TabStays
    <2> QED BY <1>0, <1>1, <1>3, <2>1, <2>2, KeptSessions
<1>14. TabsOk'
    <2>1. ASSUME NEW a \in mix.browsers, NEW d \in Requests PROVE AskerOk(d, a)'
        <3>1. AskerOk(d, a) /\ TabStays(a)
            BY <1>0, <1>10 DEF TabsOk
        <3>2. From(d, a) /\ requests'[d] # Idle => From(d, a)'
            BY <1>0, <1>1, DropFrom
        <3> QED BY <1>0, <1>1, <1>3, <3>1, <3>2, KeptAsker
    <2>2. ASSUME NEW a \in mix.browsers, NEW d \in Requests, SignsIn(d, a)' PROVE SignsIn(d, a)
        BY <1>0, <1>1, <1>3, <2>2, KeepsFacts DEF SignsIn
    <2>3. \A a \in mix.browsers : OneSignIn(a)'
        BY <1>0, <1>1, <2>2 DEF OneSignIn, TabsOk
    <2>4. ASSUME NEW a \in mix.browsers PROVE TabOk(a)'
        <3>1. CASE moved /\ a = b
            BY <1>0, <1>7, <1>8, <3>1 DEF TabsOk, TabOk, Copy
        <3>2. CASE lost \/ (moved /\ a # b)
            BY <1>0, <1>6, <3>2 DEF TabsOk, TabOk, Copy
        <3> QED BY <1>5, <3>1, <3>2
    <2>5. Copy(vault)'
        BY <1>0, <1>1 DEF Copy, TabsOk
    <2> QED BY <1>1, <2>1, <2>3, <2>4, <2>5 DEF TabsOk
<1>15. SecretsOk'
    <2>1. ASSUME NEW d \in Requests PROVE HeldGrows(d)
        <3> SUFFICES ASSUME NEW a \in mix.browsers, From(d, a)', AsksFor(d, {"password"})
                     PROVE  browsers'[a].held.password >= carried[d].password
            BY DEF HeldGrows
        <3>1. From(d, a)
            BY <1>0, <1>1, <1>3, KeepsFacts
        <3>2. browsers[a].held.password >= carried[d].password
            BY <1>0, <3>1 DEF SecretsOk, SecretOk
        <3>3. browsers'[a].held.password = browsers[a].held.password
            BY <1>5, <1>6, <1>8
        <3> QED BY <3>2, <3>3
    <2> QED BY <1>0, <1>1, <1>3, <2>1, KeptSecrets
<1>16. KeysInv'
    <2> SUFFICES ASSUME OneOwner PROVE KeysInv'
        BY <1>1 DEF KeysInv, OneOwner
    <2>2. \A d \in Requests : Ours(carried'[d].backup)
        BY <1>0, <1>1, <1>3, KeepsFacts DEF KeysInv
    <2>4. ASSUME NEW a \in mix.browsers
          PROVE  OursOrLinked(browsers'[a].held) /\ OursOrLinked(browsers'[a].local) /\ Ours(browsers'[a].rewrapped)
        <3>1. CASE moved /\ a = b
            BY <1>0, <1>4, <1>7, <1>8, <3>1 DEF KeysInv, OursOrLinked, Ours
        <3>2. CASE lost \/ (moved /\ a # b)
            BY <1>0, <1>6, <3>2 DEF KeysInv
        <3> QED BY <1>5, <3>1, <3>2
    <2> QED BY <1>0, <1>1, <2>2, <2>4 DEF KeysInv, Ours, OursOrLinked
<1>17. \A d \in Requests : ~Undisturbed(d)'
    BY <1>1, <1>2 DEF Undisturbed
<1>18. Quiet' => OthersQuiet(c)
    BY <1>2 DEF Quiet, OthersQuiet
<1>19. ASSUME ~late, ~torn, Quiet', ~q.overlap PROVE Undisturbed(c)
    BY <1>0, <1>1, <1>4, <1>18, <1>19 DEF PasswordInv, PasswordNow, LateKnown, Undisturbed
<1>20. PasswordInv'
    <2> SUFFICES ASSUME ~late', ~torn' PROVE PasswordNow'
        BY DEF PasswordInv
    <2>1. PasswordNow
        BY <1>0, <1>1 DEF PasswordInv
    <2>2. (WrapNow(vault) \/ secret.by = "recover")'
        BY <1>1, <2>1 DEF PasswordNow, WrapNow
    <2>3. ASSUME Quiet', NEW s \in sessions' PROVE SessionNow(s)'
        <3> SUFFICES ASSUME ~s.overlap, NEW a \in mix.browsers, browsers'[a].session = s.id PROVE TabNow(a)'
            BY <1>1 DEF SessionNow
        <3>1. browsers[a].session = q.session /\ ~q.overlap
            BY <1>1, <1>10 DEF TabStays
        <3>2. TabNow(a)
            BY <1>1, <1>4, <1>19, <2>1, <2>3, <3>1 DEF PasswordNow, SlotNow, InSession
        <3>3. CASE moved /\ a = b
            BY <1>1, <1>7, <1>8, <3>2, <3>3 DEF TabNow, WrapNow
        <3>4. CASE lost \/ (moved /\ a # b)
            BY <1>1, <1>6, <3>2, <3>4 DEF TabNow, WrapNow
        <3> QED BY <1>5, <3>3, <3>4
    <2>4. \A d \in Requests : SlotNow(d)'
        BY <1>17 DEF SlotNow
    <2>5. LateKnown'
        BY <1>0, <1>1, <1>3, <2>1, KeptLate DEF PasswordNow
    <2> QED BY <2>2, <2>3, <2>4, <2>5 DEF PasswordNow
<1>21. PhraseInv'
    <2> SUFFICES ASSUME ~late', ~torn', InHand PROVE PhraseNow'
        BY <1>1 DEF PhraseInv, InHand, OneOwner
    <2>1. vault'.phrase = secret'.phrase
        BY <1>0, <1>1 DEF PhraseInv, PhraseNow
    <2>2. ASSUME Quiet', NEW s \in sessions' PROVE SessionPhrase(s)'
        <3> SUFFICES ASSUME ~s.overlap, NEW a \in mix.browsers, browsers'[a].session = s.id PROVE TabPhrase(a)'
            BY <1>1 DEF SessionPhrase
        <3>1. browsers[a].session = q.session /\ ~q.overlap
            BY <1>1, <1>10 DEF TabStays
        <3>2. CASE From(c, a)
            <4>1. moved /\ a = b
                BY <1>4, <1>5, <3>2 DEF From, lost, InHand
            <4>2. load.phrase = secret.phrase
                BY <1>1, <1>4, <3>1 DEF SecretOk
            <4> QED BY <1>1, <1>7, <1>8, <4>1, <4>2 DEF TabPhrase, PhraseOf
        <3>3. CASE ~From(c, a)
            <4>1. Blank(a)
                BY <1>0, <1>4, <3>1, <3>3 DEF TabsOk, AskerOk
            <4>2. browsers'[a].held = NoBackup /\ browsers'[a].rewrapped = NoBackup
                BY <1>10, <4>1 DEF TabStays, Blank
            <4> QED BY <4>2 DEF TabPhrase, PhraseOf
        <3> QED BY <3>2, <3>3
    <2>3. \A d \in Requests : SlotPhrase(d)'
        BY <1>17 DEF SlotPhrase
    <2> QED BY <2>1, <2>2, <2>3 DEF PhraseNow
<1> QED BY <1>11, <1>12, <1>13, <1>14, <1>15, <1>16, <1>20, <1>21 DEF TheVault

-----------------------------------------------------------------------------
(* Vault: what browsers do, and ask *)

\* A tab is closed, or goes on with the keys it holds, or puts its new password
\* under them.
Closed(a) ==
    /\ Blank(a)' /\ browsers'[a].session \in {browsers[a].session, NoSession}
    /\ browsers'[a].local \in {browsers[a].local, NoBackup}
    /\ \A d \in Requests : ~From(d, a)'
NewWrap(a) ==
    /\ browsers[a].held # NoBackup
    /\ browsers'[a].held.master = browsers[a].held.master
    /\ browsers'[a].held.phrase = browsers[a].held.phrase
    /\ browsers'[a].held.linked = browsers[a].held.linked
    /\ browsers'[a].held.password = made + 1
Works(a) ==
    /\ TabStays(a)
    /\ browsers'[a].rewrapped = browsers[a].rewrapped
    /\ browsers'[a].held = browsers[a].held \/ NewWrap(a)
    /\ browsers'[a].local \in {browsers[a].local, browsers[a].held}

\* A request that has just been asked for.
Newly(c) ==
    /\ requests[c] = Idle /\ carried'[c] \in Load /\ carried'[c].password <= made'
    /\ requests'[c].session <= issued
    /\ RouteOk(c)' /\ SecretOk(c)' /\ \A a \in mix.browsers : AskerOk(c, a)'
    /\ \A a \in mix.browsers : SignsIn(c, a)' => \A d \in Requests : From(d, a)' => d = c
    /\ OneOwner => Ours(carried'[c].backup)
    /\ AsksFor(c, {"password", "phrase"})' => ~At(c, "revoke")' /\ ~At(c, "mint")'
    /\ PasswordNow => SlotNow(c)'
    /\ InHand /\ PhraseNow => SlotPhrase(c)'

LEMMA TendStep ==
    ASSUME TypeInv, TypeInv', TheVault, NEW N \in SUBSET Requests,
           UNCHANGED <<mix, sessions, issued, torn, secret, vault, late>>, made' \in {made, made + 1},
           browsers' \in [mix.browsers -> Tab], carried' = [d \in Requests |-> carried'[d]],
           \A a \in mix.browsers : Closed(a) \/ Works(a),
           \A d \in Requests \ N : /\ Keeps(d) /\ requests'[d] = requests[d]
                                   /\ \A a \in mix.browsers : From(d, a) /\ requests[d] # Idle /\ ~From(d, a)' => Blank(a)',
           \A d \in N : Newly(d)
    PROVE  TheVault'
<1>0. /\ VaultTyped /\ RoutesOk /\ SessionsOk /\ TabsOk /\ SecretsOk /\ KeysInv /\ PasswordInv /\ PhraseInv
      /\ mix' = mix /\ secret' = secret /\ vault' = vault /\ late' = late
      /\ \A d \in Requests : d \in N \/ Keeps(d)
    BY DEF TheVault
<1>1. /\ made \in Nat /\ made + 1 \in Nat /\ made' \in Nat /\ made <= made' /\ secret.password \in Nat
      /\ secret.password <= made /\ \A d \in Requests : carried[d].password \in Nat /\ carried[d].password <= made
    BY <1>0, LoadRow DEF VaultTyped
<1>2. \A a \in mix.browsers : browsers'[a] \in Tab /\ browsers'[a].held.password \in Nat
    BY DEF Tab, BackupRow
<1>3. \A a \in mix.browsers : NewWrap(a) => browsers'[a].held.master > 0 /\ browsers'[a].held # NoBackup
    BY <1>0, NoBackupRow DEF NewWrap, TabsOk, TabOk, Copy
<1>4. VaultTyped'
    <2>1. ASSUME NEW d \in Requests PROVE carried'[d] \in Load /\ carried'[d].password <= made'
        <3>1. CASE d \in N
            BY <3>1 DEF Newly
        <3>2. CASE d \notin N
            <4>1. carried'[d] \in Load /\ (carried'[d].password = carried[d].password \/ carried'[d].password = 0)
                BY <1>0, <3>2, KeepsFacts
            <4> QED BY <1>1, <4>1
        <3> QED BY <3>1, <3>2
    <2>2. carried' \in [Requests -> Load] /\ Load' = Load
        BY <1>0, <2>1 DEF Load
    <2> QED BY <1>0, <1>1, <2>1, <2>2 DEF VaultTyped
<1>5. RoutesOk'
    <2>1. \A d \in Requests : Keeps(d) \/ RouteOk(d)'
        BY <1>0 DEF Newly
    <2> QED BY <1>0, <2>1, KeptRoutes
<1>6. SessionsOk'
    <2>1. issued \in Nat /\ issued <= issued' /\ issued' <= MaxIssued /\ \A s \in sessions' : s.id <= issued'
        BY <1>0 DEF TypeInv, SessionsOk
    <2>2. \A d \in Requests : Keeps(d) \/ requests'[d].session <= issued'
        BY <1>0 DEF Newly
    <2>3. \A a \in mix.browsers : browsers'[a].session \in {browsers[a].session, NoSession}
        BY DEF Closed, Works, TabStays
    <2> QED BY <1>0, <2>1, <2>2, <2>3, KeptSessions
<1>7. TabsOk'
    <2>1. ASSUME NEW a \in mix.browsers, NEW d \in Requests PROVE AskerOk(d, a)'
        <3>1. CASE d \in N
            BY <3>1 DEF Newly
        <3>2. CASE d \notin N /\ Blank(a)' /\ ~From(d, a)'
            BY <3>2 DEF AskerOk
        <3>3. CASE d \notin N /\ ~(Blank(a)' /\ ~From(d, a)')
            <4>1. AskerOk(d, a) /\ TabStays(a) /\ (From(d, a) /\ requests'[d] # Idle => From(d, a)')
                BY <1>0, <3>3 DEF TabsOk, Closed, Works
            <4> QED BY <1>0, <3>3, <4>1, KeptAsker
        <3> QED BY <3>1, <3>2, <3>3
    <2>2. ASSUME NEW a \in mix.browsers PROVE OneSignIn(a)'
        <3> SUFFICES ASSUME NEW d \in Requests, NEW e \in Requests, SignsIn(d, a)', SignsIn(e, a)' PROVE d = e
            BY DEF OneSignIn
        <3>1. CASE d \in N \/ e \in N
            BY <3>1 DEF Newly, SignsIn
        <3>2. CASE d \notin N /\ e \notin N
            <4>1. SignsIn(d, a) /\ SignsIn(e, a)
                BY <1>0, <3>2, KeepsFacts DEF SignsIn
            <4> QED BY <1>0, <4>1 DEF TabsOk, OneSignIn
        <3> QED BY <3>1, <3>2
    <2>3. ASSUME NEW a \in mix.browsers PROVE TabOk(a)'
        <3>1. CASE Closed(a)
            BY <1>0, <3>1 DEF Closed, TabsOk, TabOk, Copy, Blank
        <3>2. CASE Works(a)
            <4>1. Copy(browsers'[a].held)
                BY <1>0, <1>3, <3>2 DEF Works, TabsOk, TabOk, Copy
            <4>2. Copy(browsers'[a].local) /\ Copy(browsers'[a].rewrapped)
                BY <1>0, <3>2 DEF Works, TabsOk, TabOk, Copy
            <4>3. browsers'[a].held = NoBackup \/ browsers'[a].rewrapped = NoBackup
                BY <1>0, <3>2 DEF Works, TabStays, TabsOk, TabOk
            <4> QED BY <4>1, <4>2, <4>3 DEF TabOk, Copy
        <3> QED BY <3>1, <3>2
    <2>4. Copy(vault)'
        BY <1>0 DEF TabsOk, Copy
    <2> QED BY <1>0, <2>1, <2>2, <2>3, <2>4 DEF TabsOk
<1>8. SecretsOk'
    <2>1. ASSUME NEW d \in Requests, d \notin N PROVE HeldGrows(d)
        <3> SUFFICES ASSUME NEW a \in mix.browsers, From(d, a)', AsksFor(d, {"password"})
                     PROVE  browsers'[a].held.password >= carried[d].password
            BY DEF HeldGrows
        <3>1. From(d, a) /\ Works(a)
            BY <1>0, <2>1, KeepsFacts DEF Closed
        <3>2. browsers[a].held.password >= carried[d].password
            BY <1>0, <3>1 DEF SecretsOk, SecretOk
        <3>3. browsers'[a].held = browsers[a].held \/ browsers'[a].held.password = made + 1
            BY <3>1 DEF Works, NewWrap
        <3> QED BY <1>1, <3>2, <3>3
    <2>2. \A d \in N : SecretOk(d)'
        BY DEF Newly
    <2> QED BY <1>0, <2>1, <2>2, KeptSecrets
<1>9. KeysInv'
    <2> SUFFICES ASSUME OneOwner PROVE KeysInv'
        BY <1>0 DEF KeysInv, OneOwner
    <2>1. ASSUME NEW d \in Requests PROVE Ours(carried'[d].backup)
        <3>1. CASE d \in N
            BY <3>1 DEF Newly
        <3>2. CASE d \notin N
            BY <1>0, <3>2, KeepsFacts DEF KeysInv
        <3> QED BY <3>1, <3>2
    <2>2. ASSUME NEW a \in mix.browsers
          PROVE  OursOrLinked(browsers'[a].held) /\ OursOrLinked(browsers'[a].local) /\ Ours(browsers'[a].rewrapped)
        <3>0. OursOrLinked(browsers[a].held) /\ OursOrLinked(browsers[a].local) /\ Ours(browsers[a].rewrapped)
            BY <1>0 DEF KeysInv
        <3>1. CASE Closed(a)
            <4>1. browsers'[a].held = NoBackup /\ browsers'[a].rewrapped = NoBackup
                  /\ browsers'[a].local \in {browsers[a].local, NoBackup}
                BY <3>1 DEF Closed, Blank
            <4> QED BY <3>0, <4>1 DEF OursOrLinked, Ours
        <3>2. CASE Works(a)
            <4>1. OursOrLinked(browsers'[a].held)
                BY <3>0, <3>2 DEF Works, NewWrap, OursOrLinked, Ours
            <4> QED BY <3>0, <3>2, <4>1 DEF Works
        <3> QED BY <3>1, <3>2
    <2> QED BY <1>0, <2>1, <2>2 DEF KeysInv, Ours, OursOrLinked
<1>10. Unrevoked
    <2> SUFFICES ASSUME NEW d \in Requests, At(d, "revoke") PROVE At(d, "revoke")'
        BY DEF Unrevoked
    <2>1. d \notin N
        BY DEF Newly, At, Idle
    <2> QED BY <2>1 DEF At
<1>11. PasswordInv'
    <2> SUFFICES ASSUME ~late', ~torn' PROVE PasswordNow'
        BY DEF PasswordInv
    <2>1. PasswordNow
        BY <1>0 DEF PasswordInv
    <2>2. ASSUME NEW a \in mix.browsers PROVE TabKeepsNow(a)
        <3>1. CASE Closed(a)
            BY <3>1 DEF Closed, Blank, TabKeepsNow, TabNow, WrapNow
        <3>2. CASE Works(a)
            <4>1. WrapNow(browsers[a].held) => WrapNow(browsers[a].held)'
                <5>1. CASE browsers'[a].held = browsers[a].held
                    BY <1>0, <5>1 DEF WrapNow
                <5>2. CASE browsers'[a].held.password = made + 1
                    <6>1. made + 1 >= secret.password
                        BY <1>1
                    <6> QED BY <1>0, <5>2, <6>1 DEF WrapNow
                <5> QED BY <3>2, <5>1, <5>2 DEF Works, NewWrap
            <4>2. WrapNow(browsers[a].rewrapped) => WrapNow(browsers[a].rewrapped)'
                BY <1>0, <3>2 DEF WrapNow, Works
            <4> QED BY <3>2, <4>1, <4>2 DEF TabKeepsNow, TabNow, Works, TabStays
        <3> QED BY <3>1, <3>2
    <2>3. \A d \in Requests :
              Keeps(d) \/ (SlotNow(d)' /\ (AsksFor(d, {"password", "phrase"})' => ~At(d, "revoke")' /\ ~At(d, "mint")'))
        BY <1>0, <2>1 DEF Newly
    <2> QED BY <1>0, <1>10, <2>1, <2>2, <2>3, KeptPassword
<1>12. PhraseInv'
    <2> SUFFICES ASSUME ~late', ~torn', InHand PROVE PhraseNow'
        BY <1>0 DEF PhraseInv, InHand, OneOwner
    <2>1. PhraseNow
        BY <1>0 DEF PhraseInv
    <2>2. ASSUME NEW a \in mix.browsers PROVE TabKeepsPhrase(a)
        <3>1. CASE Closed(a)
            BY <3>1 DEF Closed, Blank, TabKeepsPhrase, TabPhrase, PhraseOf
        <3>2. CASE Works(a)
            <4>1. PhraseOf(browsers[a].held) => PhraseOf(browsers[a].held)'
                BY <1>0, <3>2 DEF Works, NewWrap, PhraseOf
            <4>2. PhraseOf(browsers[a].rewrapped) => PhraseOf(browsers[a].rewrapped)'
                BY <1>0, <3>2 DEF PhraseOf, Works
            <4> QED BY <3>2, <4>1, <4>2 DEF TabKeepsPhrase, TabPhrase, Works, TabStays
        <3> QED BY <3>1, <3>2
    <2>3. \A d \in Requests : Keeps(d) \/ SlotPhrase(d)'
        BY <1>0, <2>1 DEF Newly
    <2>4. vault'.phrase = secret.phrase
        BY <1>0, <2>1 DEF PhraseNow
    <2> QED BY <1>0, <1>10, <2>1, <2>2, <2>3, <2>4, KeptPhrase
<1> QED BY <1>4, <1>5, <1>6, <1>7, <1>8, <1>9, <1>11, <1>12 DEF TheVault

LEMMA SameKeeps ==
    ASSUME TypeInv, TheVault, NEW c \in Requests, requests'[c] = requests[c],
           carried'[c] = carried[c] \/ carried'[c] = [carried[c] EXCEPT !.browser = None]
    PROVE  Keeps(c)
<1>1. CASE requests[c] = Idle
    <2>1. carried[c] = Nothing
        BY <1>1 DEF TheVault, RoutesOk, RouteOk
    <2>2. Nothing \in Load /\ Nothing.browser = None
        BY NumbersOk, NothingCarried
    <2>3. [Nothing EXCEPT !.browser = None] = Nothing
        BY <2>2 DEF Load
    <2> QED BY <1>1, <2>1, <2>3 DEF Keeps
<1>2. CASE requests[c] # Idle
    <2>1. requests[c] \in Request
        BY <1>2 DEF TypeInv
    <2> QED BY <2>1, SelfGoesOn DEF Keeps
<1> QED BY <1>1, <1>2

\* One tab changes.
LEMMA OneTab ==
    ASSUME TheVault, NEW b \in mix.browsers, NEW tab \in Tab, Becomes(b, tab)
    PROVE  /\ browsers'[b] = tab /\ browsers' \in [mix.browsers -> Tab]
           /\ \A a \in mix.browsers \ {b} : browsers'[a] = browsers[a]
BY DEF TheVault, VaultTyped, Becomes

LEMMA SameWorks ==
    ASSUME NEW a \in mix.browsers, browsers'[a] = browsers[a]
    PROVE  Works(a)
BY DEF Works, TabStays

\* The new password goes under the keys the tab holds.
LEMMA WrapWorks ==
    ASSUME TypeInv, TheVault, NEW b \in mix.browsers, browsers[b].held # NoBackup, Becomes(b, Holds(b, NewPassword(b)))
    PROVE  /\ browsers' \in [mix.browsers -> Tab] /\ \A a \in mix.browsers : Works(a)
           /\ NewPassword(b) \in BackupRow /\ NewPassword(b).master = browsers[b].held.master
           /\ NewPassword(b).phrase = browsers[b].held.phrase /\ NewPassword(b).linked = browsers[b].held.linked
           /\ NewPassword(b).password = made + 1
           /\ browsers'[b].held = NewPassword(b) /\ browsers'[b].held # NoBackup
           /\ browsers'[b].session = browsers[b].session /\ browsers'[b].rewrapped = browsers[b].rewrapped
<1>0. VaultTyped /\ made + 1 \in Nat /\ browsers[b] \in Tab /\ browsers[b].held \in BackupRow /\ TabOk(b)
    BY TabRow DEF TheVault, VaultTyped, TabsOk
<1>1. /\ NewPassword(b) \in BackupRow /\ NewPassword(b).master = browsers[b].held.master
      /\ NewPassword(b).phrase = browsers[b].held.phrase /\ NewPassword(b).linked = browsers[b].held.linked
      /\ NewPassword(b).password = made + 1
    BY <1>0 DEF NewPassword, BackupRow
<1> DEFINE tab == Holds(b, NewPassword(b))
<1>2. tab \in Tab /\ tab.held = NewPassword(b) /\ tab.session = browsers[b].session
      /\ tab.local = browsers[b].local /\ tab.rewrapped = browsers[b].rewrapped
    BY <1>0, <1>1 DEF Holds, Tab
<1> HIDE DEF tab
<1>3. browsers'[b] = tab /\ browsers' \in [mix.browsers -> Tab]
      /\ \A a \in mix.browsers \ {b} : browsers'[a] = browsers[a]
    BY <1>2, OneTab DEF tab
<1>4. browsers'[b].held # NoBackup
    BY <1>0, <1>1, <1>2, <1>3, NoBackupRow DEF TabOk, Copy
<1>5. Works(b)
    BY <1>1, <1>2, <1>3, <1>4 DEF Works, TabStays, NewWrap, Blank
<1>6. \A a \in mix.browsers : Works(a)
    BY <1>3, <1>5, SameWorks
<1> QED BY <1>1, <1>2, <1>3, <1>4, <1>6

LEMMA TendAlone ==
    ASSUME TypeInv, TypeInv', TheVault,
           UNCHANGED <<mix, sessions, issued, torn, secret, vault, late>>, made' \in {made, made + 1},
           browsers' \in [mix.browsers -> Tab], carried' = [d \in Requests |-> carried'[d]],
           \A a \in mix.browsers : Closed(a) \/ Works(a),
           \A d \in Requests : /\ Keeps(d) /\ requests'[d] = requests[d]
                               /\ \A a \in mix.browsers : From(d, a) /\ requests[d] # Idle /\ ~From(d, a)' => Blank(a)'
    PROVE  TheVault'
<1>1. PICK N \in SUBSET Requests : N = {}
    OBVIOUS
<1> QED BY <1>1, TendStep

LEMMA AloneStep ==
    ASSUME TypeInv, TypeInv', TheVault, Alone
    PROVE  TheVault'
<1>0. /\ UNCHANGED <<mix, sessions, issued, torn, secret, vault, late, requests>>
      /\ VaultTyped /\ None \notin mix.browsers
    BY NumbersOk DEF Alone, vars, TheVault
<1>1. PICK b \in mix.browsers : Close(b) \/ SaveLocally(b) \/ ChangeRefused(b)
    BY DEF Alone
<1>2. browsers[b] \in Tab /\ NoBackup \in BackupRow /\ NoSession \in Nat
    BY <1>0, TabRow, NoBackupRow, NumbersOk DEF NoSession
<1>3. CASE Close(b)
    <2>1. PICK tab : /\ Becomes(b, tab)
                     /\ tab \in {[browsers[b] EXCEPT !.held = NoBackup, !.rewrapped = NoBackup], Empty}
        BY <1>3 DEF Close
    <2>2. /\ tab \in Tab /\ tab.held = NoBackup /\ tab.rewrapped = NoBackup
          /\ tab.session \in {browsers[b].session, NoSession} /\ tab.local \in {browsers[b].local, NoBackup}
        <3>1. CASE tab = [browsers[b] EXCEPT !.held = NoBackup, !.rewrapped = NoBackup]
            BY <1>2, <3>1 DEF Tab
        <3>2. CASE tab = Empty
            BY <1>2, <3>2 DEF Empty, Tab
        <3> QED BY <2>1, <3>1, <3>2
    <2>3. browsers'[b] = tab /\ browsers' \in [mix.browsers -> Tab]
          /\ \A a \in mix.browsers \ {b} : browsers'[a] = browsers[a]
        BY <2>1, <2>2, OneTab
    <2>4. carried' = [c \in Requests |-> IF carried[c].browser = b THEN [carried[c] EXCEPT !.browser = None]
                                         ELSE carried[c]] /\ made' = made
        BY <1>3 DEF Close
    <2>5. ASSUME NEW d \in Requests
          PROVE  /\ carried'[d] = carried[d] \/ carried'[d] = [carried[d] EXCEPT !.browser = None]
                 /\ ~From(d, b)'
                 /\ \A a \in mix.browsers \ {b} : From(d, a) => From(d, a)'
        <3>1. carried[d] \in Load
            BY <1>0, LoadRow
        <3> QED BY <1>0, <2>4, <3>1 DEF From, Load
    <2>6. Closed(b)
        BY <2>2, <2>3, <2>5 DEF Closed, Blank
    <2>7. \A a \in mix.browsers : Closed(a) \/ Works(a)
        BY <2>3, <2>6, SameWorks
    <2>8. ASSUME NEW d \in Requests
          PROVE  /\ Keeps(d) /\ requests'[d] = requests[d]
                 /\ \A a \in mix.browsers : From(d, a) /\ requests[d] # Idle /\ ~From(d, a)' => Blank(a)'
        BY <1>0, <2>5, <2>6, SameKeeps DEF Closed
    <2>9. carried' = [d \in Requests |-> carried'[d]]
        BY <2>4
    <2> QED BY <1>0, <2>3, <2>4, <2>7, <2>8, <2>9, TendAlone
<1>4. CASE SaveLocally(b) \/ ChangeRefused(b)
    <2>1. carried' = carried
        BY <1>4 DEF SaveLocally, ChangeRefused
    <2>2. \A d \in Requests : /\ Keeps(d) /\ requests'[d] = requests[d]
                              /\ \A a \in mix.browsers : From(d, a) /\ ~From(d, a)' => Blank(a)'
        BY <1>0, <2>1, SameKeeps DEF From
    <2>3. carried' = [d \in Requests |-> carried'[d]]
        BY <1>0, <2>1 DEF VaultTyped
    <2>4. CASE SaveLocally(b)
        <3> DEFINE tab == [browsers[b] EXCEPT !.local = browsers[b].held]
        <3>1. Becomes(b, tab) /\ browsers[b].held # NoBackup /\ made' = made
            BY <2>4 DEF SaveLocally
        <3>2. /\ tab \in Tab /\ tab.held = browsers[b].held /\ tab.local = browsers[b].held
              /\ tab.session = browsers[b].session /\ tab.rewrapped = browsers[b].rewrapped
            BY <1>2 DEF Tab
        <3> HIDE DEF tab
        <3>3. browsers'[b] = tab /\ browsers' \in [mix.browsers -> Tab]
              /\ \A a \in mix.browsers \ {b} : browsers'[a] = browsers[a]
            BY <3>1, <3>2, OneTab
        <3>4. Works(b)
            BY <3>1, <3>2, <3>3 DEF Works, TabStays, Blank
        <3>5. \A a \in mix.browsers : Works(a)
            BY <3>3, <3>4, SameWorks
        <3> QED BY <1>0, <2>2, <2>3, <3>1, <3>3, <3>5, TendAlone
    <2>5. CASE ChangeRefused(b)
        <3>1. browsers[b].held # NoBackup /\ Becomes(b, Holds(b, NewPassword(b))) /\ made' = made + 1
            BY <2>5 DEF ChangeRefused
        <3>2. browsers' \in [mix.browsers -> Tab] /\ \A a \in mix.browsers : Works(a)
            BY <3>1, WrapWorks
        <3> QED BY <1>0, <2>2, <2>3, <3>1, <3>2, TendAlone
    <2> QED BY <1>4, <2>4, <2>5
<1> QED BY <1>1, <1>3, <1>4

\* What a request is when it comes in.
Incoming(r) ==
    /\ r \in Request /\ r.route \in mix.routes
    /\ r.step \in {"mint", "issue", "take", "commit", "read", "write"}
    /\ r.step = "mint" => r.route = "login"
    /\ r.step = "write" => r.route = "save"
    /\ r.route \in {"password", "phrase"} => r.step = "commit"
    /\ r.route \in {"password", "phrase", "save"} => ~r.overlap
    /\ r.route \in SignIns \cup {"recovery", "complete"} => r.session = 0 /\ ~r.overlap
    /\ r.session = 0 \/ \E s \in sessions : r.session = s.id

LEMMA BeginRow ==
    ASSUME TypeInv, NEW c \in Requests, Begin(c)
    PROVE  /\ requests[c] = Idle /\ Incoming(requests'[c])
           /\ \A d \in Requests \ {c} : requests'[d] = requests[d]
           /\ UNCHANGED <<mix, sessions, issued, torn>>
<1>1. requests[c] = Idle /\ epoch \in Nat /\ UNCHANGED <<mix, sessions, issued, torn>>
    BY IdleSlot DEF Begin, At, TypeInv, account
<1>2. "login" \in mix.routes => Incoming(Login)
    BY <1>1 DEF Incoming, Login, Start, Request, Routes, Steps, Kinds
<1>3. "recovery" \in mix.routes => Incoming(AskRecovery)
    BY <1>1 DEF Incoming, AskRecovery, Start, Request, Routes, Steps, Kinds
<1>4. ASSUME NEW route \in {"complete", "claim", "recover"}, route \in mix.routes PROVE Incoming(Answer(route))
    BY <1>1, <1>4 DEF Incoming, Answer, Start, Request, Routes, Steps, Kinds
<1>5. ASSUME NEW s \in sessions, NEW r, WithSession(c, s), requests' = [requests EXCEPT ![c] = r],
             r = requests'[c]
      PROVE  Incoming(r)
    <2>1. s.id \in Nat /\ s.under \in Nat /\ s.overlap \in BOOLEAN
        BY DEF TypeInv, Row
    <2>2. ASSUME NEW route \in {"password", "phrase"}, route \in mix.routes, r = AskChange(s, route, "commit")
          PROVE  Incoming(r)
        BY <1>1, <2>1, <2>2 DEF Incoming, AskChange, Start, Request, Routes, Steps, Kinds, SignIns
    <2>3. ASSUME NEW route \in {"key", "remove"}, route \in mix.routes, r = AskChange(s, route, "read")
          PROVE  Incoming(r)
        BY <1>1, <2>1, <2>3 DEF Incoming, AskChange, Start, Request, Routes, Steps, Kinds, SignIns
    <2>4. ASSUME "save" \in mix.routes, r = AskChange(s, "save", "write") PROVE Incoming(r)
        BY <1>1, <2>1, <2>4 DEF Incoming, AskChange, Start, Request, Routes, Steps, Kinds, SignIns
    <2>5. ASSUME "link" \in mix.routes, r = AskLink(s) PROVE Incoming(r)
        BY <2>1, <2>5 DEF Incoming, AskLink, Start, Request, Routes, Steps, Kinds, SignIns
    <2>6. ASSUME "challenge" \in mix.routes, r = AskKey(s, "key") PROVE Incoming(r)
        BY <2>1, <2>6 DEF Incoming, AskKey, Start, Request, Routes, Steps, Kinds, SignIns
    <2>7. ASSUME "challenge" \in mix.routes, r = AskKey(s, "remove") PROVE Incoming(r)
        BY <2>1, <2>7 DEF Incoming, AskKey, Start, Request, Routes, Steps, Kinds, SignIns
    <2>8. \A x : Goes(c, x) => r = x
        BY <1>5 DEF Goes, TypeInv
    <2> QED BY <1>5, <2>2, <2>3, <2>4, <2>5, <2>6, <2>7, <2>8 DEF WithSession, Needs
<1>6. CASE WithoutSession(c)
    <2>1. \A x : Goes(c, x) => requests'[c] = x
        BY DEF Goes, TypeInv
    <2>2. Incoming(requests'[c])
        BY <1>2, <1>3, <1>4, <1>6, <2>1 DEF WithoutSession, Needs
    <2>3. \A d \in Requests \ {c} : requests'[d] = requests[d]
        BY <1>6 DEF WithoutSession, Goes, TypeInv
    <2> QED BY <1>1, <2>2, <2>3
<1>7. ASSUME NEW s \in sessions, WithSession(c, s)
      PROVE  /\ requests[c] = Idle /\ Incoming(requests'[c])
             /\ \A d \in Requests \ {c} : requests'[d] = requests[d]
    <2>1. \E r : requests' = [requests EXCEPT ![c] = r] /\ r = requests'[c]
        BY <1>7 DEF WithSession, Goes, TypeInv
    <2>2. PICK r : requests' = [requests EXCEPT ![c] = r] /\ r = requests'[c]
        BY <2>1
    <2>3. Incoming(r)
        BY <1>5, <1>7, <2>2
    <2>4. \A d \in Requests \ {c} : requests'[d] = requests[d]
        BY <2>2 DEF TypeInv
    <2> QED BY <1>1, <2>2, <2>3, <2>4
<1> QED BY <1>1, <1>6, <1>7 DEF Begin

LEMMA CarriesRow ==
    ASSUME NEW b \in mix.browsers \cup {None}, NEW backup \in BackupRow, NEW password \in Nat, NEW phrase \in Nat,
           NEW overlap \in BOOLEAN
    PROVE  /\ Carries(b, backup, password, phrase, overlap) \in Load
           /\ Carries(b, backup, password, phrase, overlap).browser = b
           /\ Carries(b, backup, password, phrase, overlap).backup = backup
           /\ Carries(b, backup, password, phrase, overlap).password = password
           /\ Carries(b, backup, password, phrase, overlap).phrase = phrase
           /\ Carries(b, backup, password, phrase, overlap).overlap = overlap
BY DEF Carries, Load

\* A slot begins with what its browser sends.
Sends(c, load) ==
    /\ Begin(c) /\ load \in Load /\ carried' = [carried EXCEPT ![c] = load]
    /\ UNCHANGED <<secret, vault, late>> /\ made' \in {made, made + 1} /\ load.password <= made'
    /\ browsers' \in [mix.browsers -> Tab] /\ \A a \in mix.browsers : Works(a)

LEMMA SendsFacts ==
    ASSUME TypeInv, TheVault, NEW c \in Requests, NEW load, Sends(c, load)
    PROVE  /\ carried'[c] = load /\ \A d \in Requests \ {c} : carried'[d] = carried[d]
           /\ requests[c] = Idle /\ Incoming(requests'[c]) /\ requests'[c] # Idle
           /\ \A d \in Requests \ {c} : requests'[d] = requests[d]
           /\ UNCHANGED <<mix, sessions, issued, torn>>
           /\ carried' = [d \in Requests |-> carried'[d]]
           /\ \A d \in Requests \ {c}, a \in mix.browsers : From(d, a)' <=> From(d, a)
           /\ \A a \in mix.browsers : From(c, a)' <=> a = load.browser
           /\ \A routes : AsksFor(c, routes)' <=> requests'[c].route \in routes
           /\ requests'[c].session <= issued /\ ~At(c, "revoke")'
           /\ \A a \in mix.browsers : browsers'[a].session = browsers[a].session
           /\ OthersQuiet(c)' <=> Quiet
<1>1. /\ requests[c] = Idle /\ Incoming(requests'[c]) /\ UNCHANGED <<mix, sessions, issued, torn>>
      /\ \A d \in Requests \ {c} : requests'[d] = requests[d]
    BY BeginRow DEF Sends
<1>2. /\ carried'[c] = load /\ \A d \in Requests \ {c} : carried'[d] = carried[d]
      /\ carried' = [d \in Requests |-> carried'[d]]
    BY DEF Sends, TheVault, VaultTyped
<1>3. requests'[c] # Idle
    BY <1>1, RequestSteps DEF Incoming
<1>4. requests'[c].session <= issued
    <2>1. issued \in Nat
        BY DEF TypeInv
    <2> QED BY <1>1, <2>1 DEF Incoming, TheVault, SessionsOk
<1>5. ~At(c, "revoke")' /\ ~At(c, "revoke")
    BY <1>1 DEF Incoming, At, Idle
<1>6. OthersQuiet(c)' <=> Quiet
    BY <1>1, <1>5 DEF OthersQuiet, Quiet, At
<1>7. \A a \in mix.browsers : browsers'[a].session = browsers[a].session
    BY DEF Sends, Works, TabStays
<1> QED BY <1>1, <1>2, <1>3, <1>4, <1>5, <1>6, <1>7 DEF From, AsksFor

LEMMA SendsStep ==
    ASSUME TypeInv, TypeInv', TheVault, NEW c \in Requests, NEW load, Sends(c, load), Newly(c)
    PROVE  TheVault'
<1>1. PICK N \in SUBSET Requests : N = {c}
    OBVIOUS
<1>2. UNCHANGED <<mix, sessions, issued, torn, secret, vault, late>> /\ carried' = [d \in Requests |-> carried'[d]]
    BY SendsFacts DEF Sends
<1>3. ASSUME NEW d \in Requests \ N
      PROVE  /\ Keeps(d) /\ requests'[d] = requests[d]
             /\ \A a \in mix.browsers : From(d, a) /\ requests[d] # Idle /\ ~From(d, a)' => Blank(a)'
    <2>1. requests'[d] = requests[d] /\ carried'[d] = carried[d]
        BY <1>1, SendsFacts
    <2> QED BY <2>1, SameKeeps DEF From
<1>4. \A d \in N : Newly(d)
    BY <1>1
<1>5. \A a \in mix.browsers : Closed(a) \/ Works(a)
    BY DEF Sends
<1> QED BY <1>2, <1>3, <1>4, <1>5, TendStep DEF Sends

\* A request that brings neither keys nor a new phrase.
LEMMA PlainNewly ==
    ASSUME TypeInv, TheVault, NEW c \in Requests, NEW load, Sends(c, load), load.backup = NoBackup,
           requests'[c].route \in SignIns \cup {"recovery", "link"},
           requests'[c].route \in {"login", "claim"} => load.password = secret.password,
           requests'[c].route \in SignIns =>
               \A a \in mix.browsers : a = load.browser =>
                   /\ browsers' = browsers /\ Locked(a)
                   /\ "reload" \in mix.features \/ browsers[a].local = NoBackup
    PROVE  Newly(c)
<1> DEFINE r == requests'[c]
<1>0. /\ carried'[c] = load /\ requests[c] = Idle /\ Incoming(r) /\ r # Idle /\ mix' = mix /\ r.session <= issued
      /\ \A d \in Requests \ {c} : carried'[d] = carried[d]
      /\ \A a \in mix.browsers : From(c, a)' <=> a = load.browser
      /\ \A routes : AsksFor(c, routes)' <=> r.route \in routes
      /\ load \in Load /\ load.password <= made' /\ secret' = secret
    BY SendsFacts DEF Sends
<1>1. /\ ~AsksFor(c, {"save"})' /\ ~AsksFor(c, {"phrase"})' /\ ~AsksFor(c, {"password"})' /\ ~AsksFor(c, {"password", "phrase"})'
      /\ ~AsksFor(c, {"save", "phrase"})' /\ ~AsksFor(c, {"save", "password"})' /\ ~AsksFor(c, {"save", "password", "phrase"})'
    BY <1>0 DEF SignIns
<1>2. r.step # "write" /\ (r.step = "mint" => r.route = "login") /\ r.step # "revoke"
      /\ r.route \in mix.routes \cap VaultRoutes
    BY <1>0 DEF Incoming, SignIns, VaultRoutes
<1>3. RouteOk(c)'
    BY <1>0, <1>1, <1>2 DEF RouteOk, At, SignIns
<1>4. SecretOk(c)'
    BY <1>0, <1>1, <1>2 DEF SecretOk, At
<1>5. ASSUME NEW a \in mix.browsers PROVE AskerOk(c, a)'
    <2>1. CASE From(c, a)' /\ AsksFor(c, SignIns)'
        <3>1. browsers' = browsers /\ Locked(a) /\ ("reload" \in mix.features \/ browsers[a].local = NoBackup)
            BY <1>0, <2>1
        <3> QED BY <1>0, <1>1, <3>1 DEF AskerOk, Locked, Blank
    <2>2. CASE ~(From(c, a)' /\ AsksFor(c, SignIns)')
        BY <1>1, <2>2 DEF AskerOk
    <2> QED BY <2>1, <2>2
<1>6. ASSUME NEW a \in mix.browsers, SignsIn(c, a)', NEW d \in Requests, From(d, a)' PROVE d = c
    <2>1. Locked(a)
        BY <1>0, <1>6 DEF SignsIn
    <2>2. d # c => carried[d].browser = a
        BY <1>0, <1>6 DEF From
    <2> QED BY <2>1, <2>2 DEF Locked
<1>7. SlotNow(c)' /\ SlotPhrase(c)'
    BY <1>1 DEF SlotNow, SlotPhrase
<1>8. Ours(carried'[c].backup)
    BY <1>0 DEF Ours
<1> QED BY <1>0, <1>1, <1>3, <1>4, <1>5, <1>6, <1>7, <1>8 DEF Newly

\* The tab, under the session it has, sends the keys it holds or has to upload.
LEMMA KeysNewly ==
    ASSUME TypeInv, TheVault, NEW c \in Requests, NEW load, Sends(c, load),
           NEW b \in mix.browsers, NEW s \in sessions, s.id = browsers[b].session, s.id = requests'[c].session,
           load.browser = b, load.overlap = s.overlap,
           requests'[c].route \in {"save", "password", "phrase"}, ~requests'[c].overlap,
           load.backup.master > 0, OneOwner => Ours(load.backup),
           requests'[c].route \in {"save", "phrase"} /\ TabNow(b) => WrapNow(load.backup),
           requests'[c].route = "save" => ~Blank(b) /\ browsers'[b].held = browsers[b].held,
           requests'[c].route \in {"password", "phrase"} => browsers[b].held # NoBackup,
           requests'[c].route \in {"save", "password"} /\ TabPhrase(b) => PhraseOf(load.backup),
           requests'[c].route = "phrase" => /\ load.phrase > 0 /\ load.backup.phrase = load.phrase
                                            /\ browsers'[b].held = browsers[b].held,
           requests'[c].route = "password" => /\ load.backup.password = load.password
                                              /\ browsers'[b].held.password >= load.password
    PROVE  Newly(c)
<1> DEFINE r == requests'[c]
<1>0. /\ carried'[c] = load /\ requests[c] = Idle /\ Incoming(r) /\ r # Idle /\ mix' = mix /\ r.session <= issued
      /\ \A d \in Requests \ {c} : carried'[d] = carried[d]
      /\ \A a \in mix.browsers : From(c, a)' <=> a = b
      /\ \A routes : AsksFor(c, routes)' <=> r.route \in routes
      /\ load \in Load /\ load.password <= made' /\ secret' = secret /\ vault' = vault
      /\ \A a \in mix.browsers : Works(a) /\ browsers'[a].session = browsers[a].session
      /\ OthersQuiet(c)' <=> Quiet
      /\ ~At(c, "revoke")'
    <2>1. /\ carried'[c] = load /\ requests[c] = Idle /\ Incoming(r) /\ r # Idle /\ mix' = mix /\ r.session <= issued
          /\ \A d \in Requests \ {c} : carried'[d] = carried[d]
          /\ \A routes : AsksFor(c, routes)' <=> r.route \in routes
          /\ \A a \in mix.browsers : browsers'[a].session = browsers[a].session
          /\ OthersQuiet(c)' <=> Quiet
          /\ ~At(c, "revoke")'
        BY SendsFacts
    <2>2. \A a \in mix.browsers : From(c, a)' <=> a = b
        BY <2>1 DEF From
    <2>3. /\ load \in Load /\ load.password <= made' /\ secret' = secret /\ vault' = vault
          /\ \A a \in mix.browsers : Works(a)
        BY DEF Sends
    <2> QED BY <2>1, <2>2, <2>3
<1>1. /\ r.step # "mint" /\ (r.step = "write" => r.route = "save") /\ ~At(c, "mint")'
      /\ ~AsksFor(c, SignIns)' /\ ~AsksFor(c, {"login", "claim"})' /\ (~AsksFor(c, {"password", "recover"})' \/ r.route = "password")
      /\ r.route \in mix.routes \cap VaultRoutes
    BY <1>0 DEF Incoming, SignIns, VaultRoutes, At
<1>2. RouteOk(c)'
    BY <1>0, <1>1 DEF RouteOk, At
<1>3. SecretOk(c)'
    BY <1>0, <1>1 DEF SecretOk
<1>4. \A a \in mix.browsers : Blank(a)' <=> Blank(a)
    BY <1>0 DEF Works, TabStays, Blank
<1>5. \A a \in mix.browsers : browsers[a].session = r.session => a = b
    <2>1. issued \in Nat /\ MaxIssued \in Nat /\ NoSession = MaxIssued + 1 /\ issued <= MaxIssued
          /\ r.session \in Nat
        BY <1>0, NumbersOk, RequestRow DEF TheVault, SessionsOk, Incoming, Request
    <2>2. r.session # NoSession
        BY <1>0, <2>1
    <2> QED BY <2>2 DEF TheVault, SessionsOk
<1>6. ASSUME NEW a \in mix.browsers PROVE AskerOk(c, a)'
    <2>1. AsksFor(c, {"phrase"})' /\ browsers'[a].session = r.session => From(c, a)'
        BY <1>0, <1>5
    <2>2. From(c, a)' /\ AsksFor(c, {"save"})' => ~Blank(a)'
        BY <1>0, <1>4
    <2>3. From(c, a)' /\ AsksFor(c, {"password", "phrase"})' => browsers'[a].held # NoBackup
        BY <1>0 DEF Works, TabStays
    <2>4. ~AsksFor(c, SignIns)'
        BY <1>0 DEF SignIns
    <2> QED BY <2>1, <2>2, <2>3, <2>4 DEF AskerOk
<1>7. ASSUME NEW a \in mix.browsers, InSession(c, a)' PROVE a = b
    BY <1>0, <1>5, <1>7 DEF InSession
<1>8. Undisturbed(c)' => Quiet /\ ~s.overlap
    BY <1>0 DEF Undisturbed
<1>9. ASSUME PasswordNow PROVE SlotNow(c)'
    <2> SUFFICES ASSUME AsksFor(c, {"save", "phrase"})', Undisturbed(c)'
                 PROVE  (WrapNow(carried[c].backup) /\ \A a \in mix.browsers : InSession(c, a) => TabNow(a))'
        BY DEF SlotNow
    <2>1. TabNow(b)
        BY <1>8, <1>9 DEF PasswordNow, SessionNow
    <2>2. WrapNow(carried[c].backup)'
        BY <1>0, <2>1 DEF WrapNow
    <2>3. browsers'[b].held = browsers[b].held /\ browsers'[b].rewrapped = browsers[b].rewrapped
        BY <1>0 DEF Works
    <2>4. TabNow(b)'
        BY <1>0, <2>1, <2>3 DEF TabNow, WrapNow
    <2> QED BY <1>0, <1>7, <2>2, <2>4
<1>10. ASSUME PhraseNow PROVE SlotPhrase(c)'
    <2> SUFFICES ASSUME Undisturbed(c)'
                 PROVE  (/\ \A a \in mix.browsers : InSession(c, a) => TabPhrase(a)
                         /\ AsksFor(c, {"save", "password"}) => PhraseOf(carried[c].backup))'
        BY DEF SlotPhrase
    <2>1. TabPhrase(b)
        BY <1>8, <1>10 DEF PhraseNow, SessionPhrase
    <2>2. AsksFor(c, {"save", "password"})' => PhraseOf(carried[c].backup)'
        BY <1>0, <2>1 DEF PhraseOf
    <2>3. browsers'[b].rewrapped = browsers[b].rewrapped /\ (browsers'[b].held = browsers[b].held \/ NewWrap(b))
        BY <1>0 DEF Works
    <2>4. TabPhrase(b)'
        BY <1>0, <2>1, <2>3 DEF TabPhrase, PhraseOf, NewWrap
    <2> QED BY <1>0, <1>7, <2>2, <2>4
<1>11. \A a \in mix.browsers : ~SignsIn(c, a)'
    BY <1>0 DEF SignsIn, SignIns
<1>12. AsksFor(c, {"password", "phrase"})' => ~At(c, "revoke")' /\ ~At(c, "mint")'
    BY <1>0, <1>1
<1> QED BY <1>0, <1>2, <1>3, <1>6, <1>9, <1>10, <1>11, <1>12 DEF Newly

LEMMA SendSignsIn ==
    ASSUME TypeInv, TypeInv', TheVault, NEW c \in Requests, Begin(c), UNCHANGED <<secret, vault, late>>,
           NEW b \in mix.browsers, SignIn(b, c) \/ Recover(b, c)
    PROVE  TheVault'
<1> DEFINE password == IF SignIn(b, c) THEN secret.password ELSE made + 1
           phrase == IF SignIn(b, c) THEN 0 ELSE secret.phrase
           load == Carries(b, NoBackup, password, phrase, FALSE)
<1>0. /\ VaultTyped /\ secret.password \in Nat /\ secret.phrase \in Nat /\ made \in Nat /\ made + 1 \in Nat
      /\ secret.password <= made /\ browsers \in [mix.browsers -> Tab] /\ NoBackup \in BackupRow
    BY NoBackupRow DEF TheVault, VaultTyped
<1>1. /\ requests'[c].route \in SignIns /\ Locked(b) /\ ("reload" \in mix.features \/ browsers[b].local = NoBackup)
      /\ Brings(c, load) /\ browsers' = browsers
      /\ SignIn(b, c) => made' = made
      /\ ~SignIn(b, c) => made' = made + 1 /\ requests'[c].route = "recover"
    BY DEF SignIn, Recover, SignIns
<1>2. password \in Nat /\ phrase \in Nat /\ password <= made'
    BY <1>0, <1>1
<1> HIDE DEF password, phrase
<1>3. /\ load \in Load /\ load.browser = b /\ load.backup = NoBackup /\ load.password = password
    <2>1. b \in mix.browsers \cup {None} /\ FALSE \in BOOLEAN /\ NoBackup \in BackupRow
        BY <1>0
    <2> QED BY <1>2, <2>1 DEF Carries, Load
<1>4. requests'[c].route \in {"login", "claim"} => load.password = secret.password
    BY <1>1, <1>3 DEF password
<1> HIDE DEF load
<1>5. Sends(c, load)
    <2>1. \A a \in mix.browsers : Works(a)
        BY <1>1, SameWorks
    <2>2. browsers' \in [mix.browsers -> Tab] /\ made' \in {made, made + 1} /\ load.password <= made'
        BY <1>0, <1>1, <1>2, <1>3
    <2> QED BY <1>1, <1>3, <2>1, <2>2 DEF Sends, Brings
<1>6. Newly(c)
    <2>1. requests'[c].route \in SignIns \cup {"recovery", "link"}
        BY <1>1
    <2>2. \A a \in mix.browsers : a = load.browser =>
              /\ browsers' = browsers /\ Locked(a)
              /\ "reload" \in mix.features \/ browsers[a].local = NoBackup
        BY <1>1, <1>3
    <2> QED BY <1>3, <1>4, <1>5, <2>1, <2>2, PlainNewly
<1> QED BY <1>5, <1>6, SendsStep

LEMMA SendPlain ==
    ASSUME TypeInv, TypeInv', TheVault, NEW c \in Requests, Begin(c), UNCHANGED <<secret, vault, late, browsers, made>>,
           NEW load \in Load, load.backup = NoBackup, load.password = 0,
           requests'[c].route \in {"recovery", "link"}, carried' = [carried EXCEPT ![c] = load]
    PROVE  TheVault'
<1>0. made \in Nat /\ browsers \in [mix.browsers -> Tab]
    BY DEF TheVault, VaultTyped
<1>1. \A a \in mix.browsers : Works(a)
    BY SameWorks
<1>2. Sends(c, load)
    BY <1>0, <1>1 DEF Sends
<1>3. Newly(c)
    <2>1. /\ requests'[c].route \in SignIns \cup {"recovery", "link"} /\ requests'[c].route \notin SignIns
          /\ requests'[c].route \notin {"login", "claim"}
        BY DEF SignIns
    <2> QED BY <1>2, <2>1, PlainNewly
<1> QED BY <1>2, <1>3, SendsStep

LEMMA SendSaves ==
    ASSUME TypeInv, TypeInv', TheVault, NEW c \in Requests, Begin(c), UNCHANGED <<secret, vault, late>>,
           NEW b \in mix.browsers, NEW s \in sessions, s.id = browsers[b].session, s.id = requests'[c].session,
           PersistVault(b, c, s)
    PROVE  TheVault'
<1> DEFINE up == Uploads(b)
           load == Carries(b, up, 0, 0, s.overlap)
           tab == [browsers[b] EXCEPT !.local = IF browsers[b].rewrapped = NoBackup THEN browsers[b].held ELSE @]
<1>0. /\ VaultTyped /\ made \in Nat /\ browsers[b] \in Tab /\ TabOk(b) /\ s.overlap \in BOOLEAN
      /\ browsers[b].held \in BackupRow /\ browsers[b].rewrapped \in BackupRow
    BY TabRow, NumbersOk DEF TheVault, VaultTyped, TabsOk
<1>1. requests'[c].route = "save" /\ up # NoBackup /\ Brings(c, load) /\ Becomes(b, tab) /\ made' = made
    BY DEF PersistVault
<1>2. up = browsers[b].rewrapped \/ (up = browsers[b].held /\ ~browsers[b].held.linked)
    BY <1>1 DEF Uploads
<1> HIDE DEF up
<1>3. up \in BackupRow /\ up.master > 0 /\ ~Blank(b)
    BY <1>0, <1>1, <1>2 DEF TabOk, Copy, Blank
<1>4. OneOwner => Ours(up)
    BY <1>2 DEF TheVault, KeysInv, OursOrLinked, Ours
<1>5. /\ load \in Load /\ load.browser = b /\ load.backup = up /\ load.password = 0 /\ load.overlap = s.overlap
    BY <1>0, <1>3, CarriesRow
<1>6. /\ tab \in Tab /\ tab.held = browsers[b].held /\ tab.session = browsers[b].session
      /\ tab.rewrapped = browsers[b].rewrapped /\ tab.local \in {browsers[b].local, browsers[b].held}
    BY <1>0 DEF Tab
<1> HIDE DEF tab, load
<1>7. browsers'[b] = tab /\ browsers' \in [mix.browsers -> Tab]
      /\ \A a \in mix.browsers \ {b} : browsers'[a] = browsers[a]
    BY <1>1, <1>6, OneTab
<1>8. Sends(c, load)
    <2>1. Works(b)
        BY <1>3, <1>6, <1>7 DEF Works, TabStays
    <2>2. \A a \in mix.browsers : Works(a)
        BY <1>7, <2>1, SameWorks
    <2> QED BY <1>0, <1>1, <1>5, <1>7, <2>2 DEF Sends, Brings
<1>9. ~requests'[c].overlap
    BY <1>1, <1>8, SendsFacts DEF Incoming
<1>10. (TabNow(b) => WrapNow(load.backup)) /\ (TabPhrase(b) => PhraseOf(load.backup))
    BY <1>2, <1>5 DEF TabNow, TabPhrase
<1>11. browsers'[b].held = browsers[b].held
    BY <1>6, <1>7
<1>12. Newly(c)
    BY <1>1, <1>3, <1>4, <1>5, <1>8, <1>9, <1>10, <1>11, KeysNewly
<1> QED BY <1>8, <1>12, SendsStep

\* Who has one owner's keys changes a password or a phrase with them only.
LEMMA OursToChange ==
    ASSUME TheVault, OneOwner, NEW b \in mix.browsers, browsers[b].held # NoBackup,
           NEW route \in {"password", "phrase"}, route \in mix.routes
    PROVE  browsers[b].held.master = 1 /\ ~browsers[b].held.linked /\ browsers[b].held.phrase > 0
BY DEF TheVault, KeysInv, OneOwner, OursOrLinked, Ours

LEMMA SendPassword ==
    ASSUME TypeInv, TypeInv', TheVault, NEW c \in Requests, Begin(c), UNCHANGED <<secret, vault, late>>,
           NEW b \in mix.browsers, NEW s \in sessions, s.id = browsers[b].session, s.id = requests'[c].session,
           browsers[b].held # NoBackup, ChangePassword(b, c, s)
    PROVE  TheVault'
<1> DEFINE new == NewPassword(b)
           load == Carries(b, new, made + 1, 0, s.overlap)
<1>0. /\ VaultTyped /\ made \in Nat /\ made + 1 \in Nat /\ TabOk(b) /\ s.overlap \in BOOLEAN
    BY NumbersOk DEF TheVault, VaultTyped, TabsOk
<1>1. requests'[c].route = "password" /\ made' = made + 1 /\ Becomes(b, Holds(b, new)) /\ Brings(c, load)
    BY DEF ChangePassword
<1>2. /\ browsers' \in [mix.browsers -> Tab] /\ \A a \in mix.browsers : Works(a)
      /\ new \in BackupRow /\ new.master = browsers[b].held.master
      /\ new.phrase = browsers[b].held.phrase /\ new.linked = browsers[b].held.linked
      /\ new.password = made + 1
      /\ browsers'[b].held = new
    BY <1>1, WrapWorks
<1> HIDE DEF new
<1>3. /\ load \in Load /\ load.browser = b /\ load.backup = new /\ load.password = made + 1 /\ load.overlap = s.overlap
    BY <1>0, <1>2, CarriesRow
<1> HIDE DEF load
<1>4. Sends(c, load)
    BY <1>0, <1>1, <1>2, <1>3 DEF Sends, Brings
<1>5. ~requests'[c].overlap /\ "password" \in mix.routes
    BY <1>1, <1>4, SendsFacts DEF Incoming
<1>6. new.master > 0
    BY <1>0, <1>2 DEF TabOk, Copy
<1>7. OneOwner => Ours(new)
    BY <1>2, <1>5, OursToChange DEF Ours
<1>8. TabPhrase(b) => PhraseOf(load.backup)
    BY <1>2, <1>3 DEF TabPhrase, PhraseOf
<1>9. browsers'[b].held.password >= load.password
    BY <1>0, <1>2, <1>3
<1>10. /\ requests'[c].route \in {"save", "password", "phrase"} /\ requests'[c].route \notin {"save", "phrase"}
       /\ requests'[c].route # "save" /\ requests'[c].route # "phrase"
       /\ load.backup.master > 0 /\ (OneOwner => Ours(load.backup)) /\ load.backup.password = load.password
    BY <1>1, <1>2, <1>3, <1>6, <1>7
<1>11. Newly(c)
    BY <1>3, <1>4, <1>5, <1>8, <1>9, <1>10, KeysNewly
<1> QED BY <1>4, <1>11, SendsStep

LEMMA SendPhrase ==
    ASSUME TypeInv, TypeInv', TheVault, NEW c \in Requests, Begin(c), UNCHANGED <<secret, vault, late>>,
           NEW b \in mix.browsers, NEW s \in sessions, s.id = browsers[b].session, s.id = requests'[c].session,
           browsers[b].held # NoBackup, SetRecoveryPhrase(b, c, s)
    PROVE  TheVault'
<1> DEFINE new == [browsers[b].held EXCEPT !.phrase = made + 1]
           load == Carries(b, new, 0, made + 1, s.overlap)
<1>0. /\ VaultTyped /\ made \in Nat /\ made + 1 \in Nat /\ made + 1 > 0 /\ TabOk(b) /\ s.overlap \in BOOLEAN
      /\ browsers[b].held \in BackupRow /\ browsers \in [mix.browsers -> Tab]
    BY NumbersOk, TabRow DEF TheVault, VaultTyped, TabsOk
<1>1. requests'[c].route = "phrase" /\ made' = made + 1 /\ browsers' = browsers /\ Brings(c, load)
    BY DEF SetRecoveryPhrase
<1>2. /\ new \in BackupRow /\ new.master = browsers[b].held.master /\ new.phrase = made + 1
      /\ new.linked = browsers[b].held.linked /\ new.password = browsers[b].held.password
    BY <1>0 DEF BackupRow
<1> HIDE DEF new
<1>3. /\ load \in Load /\ load.browser = b /\ load.backup = new /\ load.password = 0 /\ load.phrase = made + 1
      /\ load.overlap = s.overlap
    <2>1. b \in mix.browsers \cup {None} /\ s.overlap \in BOOLEAN /\ 0 \in Nat /\ made + 1 \in Nat
        BY <1>0
    <2> QED BY <1>2, <2>1 DEF Carries, Load
<1> HIDE DEF load
<1>4. Sends(c, load)
    <2>1. \A a \in mix.browsers : Works(a)
        BY <1>1, SameWorks
    <2> QED BY <1>0, <1>1, <1>3, <2>1 DEF Sends, Brings
<1>5. ~requests'[c].overlap /\ "phrase" \in mix.routes
    BY <1>1, <1>4, SendsFacts DEF Incoming
<1>6. new.master > 0
    BY <1>0, <1>2 DEF TabOk, Copy
<1>7. OneOwner => Ours(new)
    BY <1>0, <1>2, <1>5, OursToChange DEF Ours
<1>8. TabNow(b) => WrapNow(load.backup)
    BY <1>2, <1>3 DEF TabNow, WrapNow
<1>9. load.phrase > 0 /\ load.backup.phrase = load.phrase /\ browsers'[b].held = browsers[b].held
    BY <1>0, <1>1, <1>2, <1>3
<1>10. Newly(c)
    BY <1>1, <1>3, <1>4, <1>5, <1>6, <1>7, <1>8, <1>9, KeysNewly
<1> QED BY <1>4, <1>10, SendsStep

LEMMA SendStep ==
    ASSUME TypeInv, TypeInv', TheVault, mix.browsers # {}, NEW c \in Requests, Send(c)
    PROVE  TheVault'
<1>1. /\ Begin(c) /\ UNCHANGED <<secret, vault, late>>
      /\ \/ \E b \in mix.browsers : SignIn(b, c) \/ Recover(b, c)
         \/ requests'[c].route = "recovery" /\ UNCHANGED <<browsers, carried, made>>
         \/ \E b \in mix.browsers, s \in sessions :
                /\ s.id = browsers[b].session
                /\ s.id = requests'[c].session
                /\ \/ PersistVault(b, c, s)
                   \/ /\ browsers[b].held # NoBackup
                      /\ \/ ChangePassword(b, c, s)
                         \/ SetRecoveryPhrase(b, c, s)
                         \/ AuthoriseDevice(b, c)
    BY DEF Send
<1>2. None \notin mix.browsers /\ NoBackup \in BackupRow
    BY NumbersOk, NoBackupRow
<1>3. ASSUME NEW b \in mix.browsers, SignIn(b, c) \/ Recover(b, c) PROVE TheVault'
    BY <1>1, <1>3, SendSignsIn
<1>4. CASE requests'[c].route = "recovery" /\ UNCHANGED <<browsers, carried, made>>
    <2>1. Nothing \in Load /\ Nothing.backup = NoBackup /\ Nothing.password = 0
        BY <1>2, NothingCarried
    <2>2. carried[c] = Nothing
        BY <1>1, BeginRow DEF TheVault, RoutesOk, RouteOk
    <2>3. carried' = [carried EXCEPT ![c] = Nothing]
        BY <1>4, <2>2 DEF TheVault, VaultTyped
    <2> QED BY <1>1, <1>4, <2>1, <2>3, SendPlain
<1>5. ASSUME NEW b \in mix.browsers, NEW s \in sessions, s.id = browsers[b].session, s.id = requests'[c].session,
             \/ PersistVault(b, c, s)
             \/ /\ browsers[b].held # NoBackup
                /\ \/ ChangePassword(b, c, s)
                   \/ SetRecoveryPhrase(b, c, s)
                   \/ AuthoriseDevice(b, c)
      PROVE  TheVault'
    <2>1. CASE PersistVault(b, c, s)
        BY <1>1, <1>5, <2>1, SendSaves
    <2>2. CASE browsers[b].held # NoBackup /\ ChangePassword(b, c, s)
        BY <1>1, <1>5, <2>2, SendPassword
    <2>3. CASE browsers[b].held # NoBackup /\ SetRecoveryPhrase(b, c, s)
        BY <1>1, <1>5, <2>3, SendPhrase
    <2>4. CASE AuthoriseDevice(b, c)
        <3> DEFINE load == Carries(b, NoBackup, 0, 0, FALSE)
        <3>1. load \in Load /\ load.backup = NoBackup /\ load.password = 0
            <4>1. b \in mix.browsers \cup {None} /\ FALSE \in BOOLEAN /\ 0 \in Nat
                OBVIOUS
            <4> QED BY <1>2, <4>1 DEF Carries, Load
        <3>2. requests'[c].route = "link" /\ carried' = [carried EXCEPT ![c] = load] /\ UNCHANGED <<browsers, made>>
            BY <2>4 DEF AuthoriseDevice, Brings
        <3> HIDE DEF load
        <3> QED BY <1>1, <3>1, <3>2, SendPlain
    <2> QED BY <1>5, <2>1, <2>2, <2>3, <2>4
<1> QED BY <1>1, <1>3, <1>4, <1>5

-----------------------------------------------------------------------------
(* Vault: the steps together *)

\* No request that writes a backup appears, but one that came in as such.
NoWriter == \A d \in Requests : At(d, "write")' => At(d, "write")

LEMMA OneWriter ==
    ASSUME TypeInv, NEW c \in Requests, NEW r, Goes(c, r), r.step # "write"
    PROVE  NoWriter
BY DEF NoWriter, TypeInv, Goes, At

LEMMA AllWriters ==
    ASSUME TypeInv, NEW c \in Requests, NEW r, requests' = Overlapped(c, r), r.step # "write"
    PROVE  NoWriter
<1>1. requests'[c] = r
    BY OverlappedEffect
<1>2. ASSUME NEW d \in Requests \ {c}, requests'[d].step = "write" PROVE requests[d].step = "write"
    <2>1. (requests[d] = Idle /\ requests'[d] = Idle) \/ requests'[d].step = requests[d].step
        BY OverlappedEffect
    <2> QED BY <1>2, <2>1
<1> QED BY <1>1, <1>2 DEF NoWriter, At

LEMMA MovesWriter ==
    ASSUME TypeInv, NEW c \in Requests, Issue(c) \/ ReadKey(c) \/ Take(c) \/ CommitTake(c) \/ Check(c)
    PROVE  NoWriter /\ mix' = mix
<1>0. Idle.step # "write"
    BY DEF Idle
<1>1. CASE Issue(c)
    BY <1>0, <1>1, OneWriter DEF Issue, bounds
<1>2. CASE ReadKey(c)
    <2>1. requests[c] \in Request
        BY <1>2, RequestType DEF ReadKey, At
    <2>2. PICK r : r = [requests[c] EXCEPT !.step = "take", !.key = pgp]
        OBVIOUS
    <2>3. r.step # "write" /\ Goes(c, r) /\ mix' = mix
        BY <1>2, <2>1, <2>2 DEF ReadKey, Request, bounds
    <2> QED BY <2>3, OneWriter
<1>3. CASE Take(c)
    <2>1. mix' = mix
        BY <1>3 DEF Take, bounds
    <2>2. PICK r : requests' = [requests EXCEPT ![c] = r] /\ r.step # "write"
        BY <1>0, <1>3, TakeEffect DEF Takes
    <2> QED BY <2>1, <2>2, OneWriter DEF Goes
<1>4. CASE CommitTake(c)
    <2>1. requests[c] \in Request
        BY <1>4, RequestType DEF CommitTake, At
    <2>2. PICK next \in {"check", "commit", "refuse"} : Goes(c, [requests[c] EXCEPT !.step = next])
        BY <1>4 DEF CommitTake
    <2>3. PICK r : r = [requests[c] EXCEPT !.step = next]
        OBVIOUS
    <2>4. r.step # "write" /\ Goes(c, r) /\ mix' = mix
        BY <1>4, <2>1, <2>2, <2>3 DEF CommitTake, Request, bounds
    <2> QED BY <2>4, OneWriter
<1>5. CASE Check(c)
    <2>1. requests[c] \in Request /\ mix' = mix
        BY <1>5, RequestType DEF Check, At, bounds
    <2>2. CASE Goes(c, Idle)
        BY <1>0, <2>1, <2>2, OneWriter
    <2>3. CASE CheckLogin(c) \/ CheckLink(c)
        <3>1. PICK r : r = [requests[c] EXCEPT !.step = "mint"]
            OBVIOUS
        <3>2. r.step # "write" /\ Goes(c, r)
            BY <2>1, <2>3, <3>1 DEF CheckLogin, CheckLink, Request
        <3> QED BY <2>1, <3>2, OneWriter
    <2>4. CASE CheckRecovery(c)
        <3>1. PICK r : r = [requests[c] EXCEPT !.step = "commit", !.under = epoch]
            OBVIOUS
        <3>2. r.step # "write" /\ Goes(c, r)
            BY <2>1, <2>4, <3>1 DEF CheckRecovery, Request
        <3> QED BY <2>1, <3>2, OneWriter
    <2> QED BY <1>5, <2>2, <2>3, <2>4 DEF Check
<1> QED BY <1>1, <1>2, <1>3, <1>4, <1>5

LEMMA ChangeWriter ==
    ASSUME TypeInv, NEW c \in Requests, Commit(c) \/ Revoke(c) \/ Mint(c)
    PROVE  NoWriter /\ mix' = mix
<1>0. Idle.step # "write"
    BY DEF Idle
<1>1. CASE Commit(c)
    <2>1. requests[c] \in Request /\ mix' = mix
        BY <1>1, CommitAt DEF Commit, bounds
    <2>2. PICK r : r = [requests[c] EXCEPT !.step = "revoke", !.under = epoch + 1]
        OBVIOUS
    <2>3. r.step # "write" /\ requests' = Overlapped(c, r)
        BY <1>1, <2>1, <2>2 DEF Commit, Request
    <2> QED BY <2>1, <2>3, AllWriters
<1>2. CASE Revoke(c)
    <2>1. requests[c] \in Request /\ mix' = mix
        BY <1>2, RequestType DEF Revoke, At, bounds
    <2>2. CASE RevokeAllCredentials(c)
        <3>1. PICK r : r = [requests[c] EXCEPT !.step = "mint", !.ticket = 0]
            OBVIOUS
        <3>2. r.step # "write" /\ requests' = Overlapped(c, r)
            BY <2>1, <2>2, <3>1 DEF RevokeAllCredentials, Request
        <3> QED BY <2>1, <3>2, AllWriters
    <2>3. CASE RevokeOtherCredentials(c)
        BY <1>0, <2>1, <2>3, AllWriters DEF RevokeOtherCredentials
    <2> QED BY <1>2, <2>2, <2>3 DEF Revoke
<1>3. CASE Mint(c)
    BY <1>0, <1>3, OneWriter DEF Mint, bounds
<1> QED BY <1>1, <1>2, <1>3

\* Where no browser is followed nothing is written.
LEMMA DropsNothing ==
    ASSUME TypeInv, Untouched, NoWriter, mix' = mix, secret' = secret, vault' = vault,
           carried' = carried \/ Drop
    PROVE  Untouched'
<1>1. \A c \in Requests : carried[c] = Nothing
    BY DEF Untouched
<1>2. carried' \in [Requests -> {Nothing}]
    <2>1. CASE carried' = carried
        BY <2>1 DEF Untouched
    <2>2. CASE Drop
        BY <1>1, <2>2 DEF Drop
    <2> QED BY <2>1, <2>2
<1>3. \A c \in Requests : ~At(c, "write")'
    BY DEF NoWriter, Untouched
<1>4. vault' = IF mix'.saved THEN First ELSE NoBackup
    BY DEF Untouched
<1> QED BY <1>2, <1>3, <1>4 DEF Untouched

LEMMA UntouchedStep ==
    ASSUME TypeInv, mix.browsers = {}, Untouched, VaultNext
    PROVE  Untouched' /\ mix' = mix
<1>1. ASSUME NEW c \in Requests, Send(c) PROVE Untouched' /\ mix' = mix
    <2>1. Begin(c) /\ UNCHANGED copies
        BY <1>1 DEF Send
    <2>2. "save" \notin mix.routes
        BY BrowsersAssumption DEF TypeInv
    <2>3. NoWriter /\ mix' = mix
        BY <2>1, <2>2, BeginRow DEF NoWriter, Incoming, At
    <2> QED BY <2>1, <2>3, DropsNothing DEF copies
<1>2. ASSUME NEW c \in Requests, CommitSecrets(c) PROVE Untouched' /\ mix' = mix
    <2>1. Commit(c) /\ UNCHANGED copies
        BY <1>2 DEF CommitSecrets
    <2> QED BY <2>1, ChangeWriter, DropsNothing DEF copies
<1>3. ASSUME NEW c \in Requests PROVE ~WriteBackup(c)
    BY DEF WriteBackup, Untouched
<1>4. ASSUME NEW c \in Requests, SignedIn(c) PROVE Untouched' /\ mix' = mix
    <2>1. Mint(c) /\ Drop /\ UNCHANGED <<secret, vault>>
        BY <1>4 DEF SignedIn
    <2> QED BY <2>1, ChangeWriter, DropsNothing
<1>5. ASSUME NEW c \in Requests, RevokeAndAnswer(c) PROVE Untouched' /\ mix' = mix
    <2>1. Revoke(c) /\ Drop /\ UNCHANGED <<secret, vault>>
        BY <1>5 DEF RevokeAndAnswer
    <2> QED BY <2>1, ChangeWriter, DropsNothing
<1>6. ASSUME NEW c \in Requests, Issue(c) \/ ReadKey(c) \/ Take(c) \/ CommitTake(c) \/ Check(c), Drop, UNCHANGED others
      PROVE  Untouched' /\ mix' = mix
    BY <1>6, MovesWriter, DropsNothing DEF others
<1>7. CASE (EndSessions \/ Expire \/ Stop) /\ Drop /\ UNCHANGED others
    <2>1. mix' = mix /\ (requests' = requests \/ requests' = [c \in Requests |-> Idle])
        BY <1>7 DEF EndSessions, Expire, Stop, bounds
    <2>2. NoWriter
        BY <2>1 DEF NoWriter, At, Idle
    <2> QED BY <1>7, <2>1, <2>2, DropsNothing DEF others
<1>8. ~Alone
    BY DEF Alone
<1> QED BY <1>1, <1>2, <1>3, <1>4, <1>5, <1>6, <1>7, <1>8 DEF VaultNext

LEMMA VaultTypes == TypeInv /\ [VaultNext]_allVars => TypeInv'
<1> SUFFICES ASSUME TypeInv, [VaultNext]_allVars PROVE TypeInv'
    OBVIOUS
<1>1. ASSUME NEW c \in Requests, WriteBackup(c) PROVE TypeInv'
    <2>1. /\ UNCHANGED <<bounds, account, sessions, tickets, issued, answered>> /\ Goes(c, Idle)
        BY <1>1 DEF WriteBackup
    <2>2. requests' \in [Requests -> {Idle} \cup Request]
        BY <2>1, OneRequest
    <2>3. UNCHANGED <<mix, calls, pgp, keys, epoch, sessions, tickets, issued, answered>> /\ MaxIssued' = MaxIssued
        BY <2>1 DEF bounds, account, MaxIssued
    <2> QED BY <2>2, <2>3 DEF TypeInv
<1>2. CASE Alone \/ UNCHANGED allVars
    <2>1. UNCHANGED vars
        BY <1>2 DEF Alone, allVars
    <2> QED BY <2>1, StepType
<1>3. CASE VaultNext /\ ~Alone /\ \A c \in Requests : ~WriteBackup(c)
    <2>1. Next
        BY <1>3 DEF VaultNext, Next, Send, CommitSecrets, SignedIn, RevokeAndAnswer
    <2> QED BY <2>1, StepType
<1> QED BY <1>1, <1>2, <1>3

LEMMA TheVaultStep ==
    ASSUME TypeInv, TypeInv', TheVault, mix.browsers # {}, VaultNext
    PROVE  TheVault' /\ mix' = mix
<1>1. ASSUME NEW c \in Requests, Send(c) PROVE TheVault' /\ mix' = mix
    <2>1. mix' = mix
        BY <1>1, BeginRow DEF Send
    <2> QED BY <1>1, <2>1, SendStep
<1>2. ASSUME NEW c \in Requests, CommitSecrets(c) PROVE TheVault' /\ mix' = mix
    <2>1. mix' = mix
        BY <1>2, ChangeWriter DEF CommitSecrets
    <2> QED BY <1>2, <2>1, CommitStep
<1>3. ASSUME NEW c \in Requests, WriteBackup(c) PROVE TheVault' /\ mix' = mix
    <2>1. mix' = mix
        BY <1>3 DEF WriteBackup, bounds
    <2> QED BY <1>3, <2>1, WriteStep
<1>4. ASSUME NEW c \in Requests, SignedIn(c) PROVE TheVault' /\ mix' = mix
    <2>1. mix' = mix
        BY <1>4, ChangeWriter DEF SignedIn
    <2> QED BY <1>4, <2>1, MintStep
<1>5. ASSUME NEW c \in Requests, RevokeAndAnswer(c) PROVE TheVault' /\ mix' = mix
    <2>1. mix' = mix
        BY <1>5, ChangeWriter DEF RevokeAndAnswer
    <2> QED BY <1>5, <2>1, RevokeAllStep, RevokeOthersStep
<1>6. ASSUME NEW c \in Requests, Issue(c) \/ ReadKey(c) \/ Take(c) \/ CommitTake(c) \/ Check(c), Drop, UNCHANGED others
      PROVE  TheVault' /\ mix' = mix
    <2>1. mix' = mix /\ Calm
        BY <1>6, MovesWriter, MovesCalm
    <2> QED BY <2>1, CalmStep
<1>7. CASE (EndSessions \/ Expire \/ Stop) /\ Drop /\ UNCHANGED others
    <2>1. mix' = mix
        BY <1>7 DEF EndSessions, Expire, Stop, bounds
    <2>2. Calm
        BY <1>7, EndsCalm
    <2> QED BY <2>1, <2>2, CalmStep
<1>8. CASE Alone
    <2>1. mix' = mix
        BY <1>8 DEF Alone, vars
    <2> QED BY <1>8, <2>1, AloneStep
<1> QED BY <1>1, <1>2, <1>3, <1>4, <1>5, <1>6, <1>7, <1>8 DEF VaultNext

LEMMA VaultStart == VaultInit => VaultInv
<1> SUFFICES ASSUME VaultInit PROVE VaultInv
    OBVIOUS
<1>0. TypeInv /\ Init /\ None \notin mix.browsers /\ mix.saved \in BOOLEAN
    <2>1. Init
        BY DEF VaultInit
    <2> QED BY <2>1, InitType, BrowsersAssumption DEF TypeInv
<1>1. /\ secret = [password |-> 1, phrase |-> 1, by |-> "password"] /\ late = FALSE /\ made = 1
      /\ vault = (IF mix.saved THEN First ELSE NoBackup) /\ carried = [c \in Requests |-> Nothing]
    BY DEF VaultInit
<1>2. \A c \in Requests : requests[c] = Idle /\ carried[c] = Nothing
    BY <1>0, <1>1 DEF Init
<1>3. \A c \in Requests : \A step : step # "idle" => ~At(c, step)
    BY <1>2 DEF At, Idle
<1>4. CASE mix.browsers = {}
    BY <1>1, <1>3, <1>4 DEF VaultInv, Untouched
<1>5. CASE mix.browsers # {}
    <2>1. PICK first \in mix.browsers :
              browsers = [b \in mix.browsers |->
                              IF b = first THEN [Empty EXCEPT !.session = 0, !.held = First, !.local = First]
                              ELSE Empty]
        BY <1>0, <1>5 DEF VaultInit
    <2>2. /\ NoBackup \in BackupRow /\ First \in BackupRow /\ First # NoBackup
          /\ NoBackup.master = 0 /\ First.master = 1 /\ First.password = 1 /\ First.phrase = 1 /\ ~First.linked
        BY NoBackupRow
    <2>3. NoSession \in Nat /\ NoSession # 0 /\ issued = 0 /\ MaxIssued \in Nat
        BY <1>0, NumbersOk DEF Init
    <2>4. Empty \in Tab /\ [Empty EXCEPT !.session = 0, !.held = First, !.local = First] \in Tab
        BY <2>2, <2>3 DEF Empty, Tab
    <2>5. ASSUME NEW b \in mix.browsers
          PROVE  /\ browsers[b].held \in {First, NoBackup} /\ browsers[b].local \in {First, NoBackup}
                 /\ browsers[b].rewrapped = NoBackup
                 /\ browsers[b].session = IF b = first THEN 0 ELSE NoSession
        BY <2>1 DEF Empty
    <2>6. VaultTyped
        <3>1. Nothing \in Load /\ Nothing.password = 0
            BY <1>0, NothingCarried
        <3>2. browsers \in [mix.browsers -> Tab]
            BY <2>1, <2>4
        <3>3. carried \in [Requests -> Load] /\ \A c \in Requests : carried[c].password <= made
            BY <1>1, <3>1
        <3>4. secret \in [password : Nat, phrase : Nat, by : {"password", "recover"}] /\ secret.password = 1
            BY <1>1
        <3>5. vault \in BackupRow
            BY <1>1, <2>2
        <3>6. made \in Nat /\ secret.password <= made
            BY <1>1, <3>4
        <3>7. late \in BOOLEAN
            <4>1. late = FALSE
                BY <1>1, Zenon
            <4> QED BY <4>1, Zenon
        <3> QED BY <3>2, <3>3, <3>4, <3>5, <3>6, <3>7 DEF VaultTyped
    <2>7. RoutesOk
        BY <1>2, <1>3 DEF RoutesOk, RouteOk, AsksFor
    <2>8. SessionsOk
        <3>1. \A s \in sessions : s.id = 0
            BY <1>0 DEF Init
        <3> QED BY <1>2, <2>3, <2>5, <3>1 DEF SessionsOk
    <2>9. TabsOk
        <3>1. Copy(First) /\ Copy(NoBackup) /\ Copy(vault)
            BY <1>1, <2>2 DEF Copy
        <3>2. \A b \in mix.browsers : OneSignIn(b) /\ TabOk(b)
            BY <1>2, <2>5, <3>1 DEF OneSignIn, SignsIn, AsksFor, TabOk
        <3>3. \A b \in mix.browsers, c \in Requests : AskerOk(c, b)
            BY <1>2 DEF AskerOk, AsksFor
        <3> QED BY <3>1, <3>2, <3>3 DEF TabsOk
    <2>10. SecretsOk
        BY <1>2 DEF SecretsOk, SecretOk, AsksFor
    <2>11. KeysInv
        <3>1. Ours(First) /\ Ours(NoBackup)
            BY <2>2 DEF Ours
        <3>2. OneOwner => vault = First
            BY <1>1 DEF OneOwner
        <3>3. \A c \in Requests : carried[c].backup = NoBackup
            BY <1>0, <1>2, NothingCarried
        <3>4. \A b \in mix.browsers :
                  OursOrLinked(browsers[b].held) /\ OursOrLinked(browsers[b].local) /\ Ours(browsers[b].rewrapped)
            BY <2>5, <3>1 DEF OursOrLinked
        <3>5. \A c \in Requests : Ours(carried[c].backup)
            BY <3>1, <3>3
        <3> QED BY <2>2, <3>1, <3>2, <3>4, <3>5 DEF KeysInv
    <2>12. PasswordNow
        <3>1. WrapNow(First) /\ WrapNow(NoBackup) /\ WrapNow(vault)
            BY <1>1, <2>2 DEF WrapNow
        <3>2. \A b \in mix.browsers : TabNow(b)
            BY <2>5, <3>1 DEF TabNow
        <3>3. \A c \in Requests : SlotNow(c)
            BY <1>2 DEF SlotNow, AsksFor
        <3>4. LateKnown
            BY <1>2 DEF LateKnown, AsksFor
        <3> QED BY <3>1, <3>2, <3>3, <3>4 DEF PasswordNow, SessionNow
    <2>13. InHand => PhraseNow
        <3> SUFFICES ASSUME InHand PROVE PhraseNow
            OBVIOUS
        <3>1. vault = First /\ secret.phrase = 1
            BY <1>1 DEF InHand, OneOwner
        <3>2. PhraseOf(First) /\ PhraseOf(NoBackup)
            BY <2>2, <3>1 DEF PhraseOf
        <3>3. \A b \in mix.browsers : TabPhrase(b)
            BY <2>5, <3>2 DEF TabPhrase
        <3>4. \A c \in Requests : SlotPhrase(c)
            BY <1>2 DEF SlotPhrase, AsksFor, Undisturbed
        <3> QED BY <2>2, <3>1, <3>3, <3>4 DEF PhraseNow, SessionPhrase
    <2> QED BY <1>5, <2>6, <2>7, <2>8, <2>9, <2>10, <2>11, <2>12, <2>13 DEF VaultInv, TheVault, PasswordInv, PhraseInv
<1> QED BY <1>4, <1>5

LEMMA VaultStep == TypeInv /\ VaultInv /\ [VaultNext]_allVars => VaultInv'
<1> SUFFICES ASSUME TypeInv, VaultInv, [VaultNext]_allVars PROVE VaultInv'
    OBVIOUS
<1>1. TypeInv'
    BY VaultTypes
<1>2. CASE VaultNext /\ mix.browsers = {}
    <2>1. Untouched' /\ mix' = mix
        BY <1>2, UntouchedStep DEF VaultInv
    <2> QED BY <1>2, <2>1 DEF VaultInv
<1>3. CASE VaultNext /\ mix.browsers # {}
    <2>1. TheVault' /\ mix' = mix
        BY <1>1, <1>3, TheVaultStep DEF VaultInv
    <2> QED BY <1>3, <2>1 DEF VaultInv
<1>4. CASE UNCHANGED allVars
    <2>1. UNCHANGED <<mix, sessions, requests, issued, torn, secret, vault, late, browsers, carried, made>>
        BY <1>4 DEF allVars, vars, copies
    <2>2. CASE mix.browsers = {}
        BY <2>1, <2>2 DEF VaultInv, Untouched, At
    <2>3. CASE mix.browsers # {}
        <3>1. \A c \in Requests : Keeps(c) /\ (requests'[c] = Idle \/ carried'[c] = carried[c])
            <4> SUFFICES ASSUME NEW c \in Requests PROVE Keeps(c) /\ carried'[c] = carried[c]
                OBVIOUS
            <4> QED BY <2>1, <2>3, SameKeeps DEF VaultInv
        <3>2. carried' = [c \in Requests |-> carried'[c]]
            BY <2>1, <2>3 DEF VaultInv, TheVault, VaultTyped
        <3>3. issued \in Nat /\ issued <= issued /\ issued <= MaxIssued
            BY <2>3 DEF VaultInv, TheVault, SessionsOk, TypeInv
        <3>4. Calm
            BY <2>1, <3>1, <3>2, <3>3 DEF Calm, Unrevoked, At
        <3>5. TheVault'
            BY <1>1, <2>3, <3>4, CalmStep DEF VaultInv
        <3> QED BY <2>1, <2>3, <3>5 DEF VaultInv
    <2> QED BY <2>2, <2>3
<1> QED BY <1>2, <1>3, <1>4

LEMMA VaultHolds == TypeInv /\ VaultInv => BackupFollowsItsOwner
<1> SUFFICES ASSUME TypeInv, VaultInv PROVE BackupFollowsItsOwner
    OBVIOUS
<1>1. NoBackup.master = 0 /\ First.master = 1 /\ First.password = 1 /\ First.phrase = 1 /\ NoBackup.password = 0
    BY NoBackupRow
<1>2. CASE mix.browsers = {}
    <2>1. Untouched
        BY <1>2 DEF VaultInv
    <2>2. secret.password = 1 /\ secret.phrase = 1 /\ vault = (IF mix.saved THEN First ELSE NoBackup)
        BY <2>1 DEF Untouched
    <2>3. OneOwner => vault = First
        BY <2>2 DEF OneOwner
    <2>4. vault # NoBackup => vault = First
        BY <2>2
    <2> QED BY <1>1, <2>2, <2>3, <2>4 DEF BackupFollowsItsOwner
<1>3. CASE mix.browsers # {}
    <2>1. TheVault
        BY <1>3 DEF VaultInv
    <2>2. OneOwner => vault.master = 1
        BY <2>1 DEF TheVault, KeysInv, Ours
    <2>3. vault # NoBackup /\ vault.password < secret.password => late \/ torn \/ secret.by = "recover"
        <3>1. vault.password \in Nat /\ secret.password \in Nat
            BY <2>1 DEF TheVault, VaultTyped, BackupRow
        <3> QED BY <2>1, <3>1 DEF TheVault, PasswordInv, PasswordNow, WrapNow
    <2>4. InHand => vault.phrase = secret.phrase \/ late \/ torn
        BY <2>1 DEF TheVault, PhraseInv, PhraseNow
    <2> QED BY <2>2, <2>3, <2>4 DEF BackupFollowsItsOwner, InHand
<1> QED BY <1>2, <1>3

\* The backup of the keys follows their owner, for any number of browsers and any
\* sequence of saves, sign-ins, changes, recoveries and lost answers: as long as the
\* first browser's backup can be found and no linked one changes a password or sets a
\* phrase, no other keys are put over them.  Their wrap for the password is the
\* account's, but for the requests that overlapped a change, a recovery not yet
\* uploaded and a server stopped in between; and so is that for the phrase when
\* moreover no answer was lost and no tab reopened on a local copy.  (state.ts: persistVault, unlockBackup,
\* changePassword; views/auth.ts: finishLogin; client/recovery.ts: setRecoveryPhrase;
\* auth.ts, recovery.ts)
THEOREM VaultFollows == VaultSpec => []BackupFollowsItsOwner
<1>1. VaultInit => TypeInv
    BY InitType DEF VaultInit
<1>2. TypeInv /\ VaultInv /\ [VaultNext]_allVars => TypeInv' /\ VaultInv'
    BY VaultTypes, VaultStep
<1> QED BY <1>1, <1>2, VaultStart, VaultHolds, PTL DEF VaultSpec

=============================================================================
