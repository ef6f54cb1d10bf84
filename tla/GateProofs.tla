----------------------------- MODULE GateProofs -----------------------------
(***************************************************************************)
(* What holds of Gate for every number of requests in flight, any traffic  *)
(* and any clock, bucket, cache and ceiling.                               *)
(***************************************************************************)
EXTENDS Gate, TLAPS, FiniteSetTheorems

-----------------------------------------------------------------------------
(* Types *)

Routes == {"read", "enter", "logout", "upload", "mint", "send"}
Plain == {"sent", "cookie", "handler", "worked", "limit", "work", "space", "room"}
Pcs == Plain \cup {"frozen?", "rotate", "space?", "counted", "store", "epoch", "epoch?", "minting", "spending"}

Maybe(S) == S \cup {Nil}
Cookie == Maybe(Nat)
Token == [epoch : Nat, expires : Nat]
Answers ==
    {<<>>} \cup [on : BOOLEAN] \cup [day : Nat] \cup [full : BOOLEAN, up : BOOLEAN]
           \cup [rows : Nat, stored : Nat] \cup [min : Nat, read : BOOLEAN] \cup [min : Nat]

Busy ==
    [pc : Pcs, route : Routes, cookie : Cookie, proof : Maybe(Nat), token : Maybe(Token), user : BOOLEAN,
     began : Nat, stamp : Nat, answer : Answers, carries : Cookie]
Leaving == [pc : {"reply"}, route : Routes, began : Nat, carries : Cookie]

\* A request holds the answer its step waited for, and its times are in order.
Holds(r) ==
    /\ r.pc = "frozen?" => r.answer \in [on : BOOLEAN]
    /\ r.pc = "space?" => r.answer \in [full : BOOLEAN, up : BOOLEAN]
    /\ r.pc = "counted" => r.answer \in [rows : Nat, stored : Nat]
    /\ r.pc = "epoch?" => r.answer \in [min : Nat, read : BOOLEAN]
    /\ r.pc \in {"minting", "spending"} => r.answer \in [min : Nat]
    /\ r.route = "enter" => r.proof \in Nat
    /\ r.route = "send" => r.token \in Token
    /\ r.pc = "work" => r.proof \in Nat

Slots == {Unused} \cup {r \in Busy : Holds(r)} \cup Leaving

\* A request ends within its patience.
InTime(r, t) == r \in Busy => r.began <= r.stamp /\ r.stamp <= t /\ t <= r.began + Patience

Session == [token : Nat, previous : Cookie, rotatedAt : Nat, day : Nat, expires : Nat]
Space == [cached : Maybe([at : Nat, full : BOOLEAN]), failures : Nat, answered : BOOLEAN,
          overlooked : Nat, blind : Nat]

TypeInv ==
    /\ now \in Nat /\ sent \in Nat /\ cookies \in Nat /\ ignored \in Nat
    /\ traffic \in Traffics
    /\ frozen \in Maybe(Nat) /\ engaged \in Maybe([at : Nat, on : BOOLEAN])
    /\ session \in Maybe(Session) /\ jar \in Cookie
    /\ \A k \in DOMAIN buckets : buckets[k] \in [tokens : Nat, updated_at : Nat]
    /\ \A k \in DOMAIN spent : spent[k] \in [total : Nat, from : Nat, till : Nat]
    /\ proofs \subseteq Nat /\ redeemed \in [0..MaxTime -> Nat]
    /\ disk \in [full : Maybe(Nat), up : BOOLEAN, changes : Nat] /\ space \in Space
    /\ blobs \in SUBSET [upload : Nat, expires : Nat] /\ IsFiniteSet(blobs)
    /\ counted \in Maybe([at : Nat, rows : Nat])
    /\ admitted \in [past : Nat, stored : Nat, unseen : Nat]
    /\ raises \in Seq(Nat) /\ floor \in Maybe([at : Nat, min : Nat, read : BOOLEAN]) /\ tokens \in SUBSET Token
    /\ requests \in [Requests -> Slots]
    /\ \A c \in Requests : InTime(requests[c], now)

LEMMA Constants ==
    /\ MaxTime \in Nat /\ GraceTicks \in Nat /\ LifeTicks \in Nat /\ IdleDays \in Nat /\ Burst \in Nat
    /\ PerTick \in Nat /\ PowTicks \in Nat /\ MaxRows \in Nat /\ CountTicks \in Nat /\ KeepTicks \in Nat
    /\ DayTicks \in Nat \ {0} /\ CacheTicks \in Nat \ {0} /\ SpaceTicks \in Nat \ {0}
    /\ UploadCost \in Nat \ {0} /\ FailuresBeforeUnavailable \in Nat \ {0}
    /\ Patience \in Nat /\ Patience <= DayTicks /\ IsFiniteSet(Requests) /\ Nil \notin Nat
BY TicksAssumption

LEMMA DayType == ASSUME NEW t \in Nat PROVE Day(t) \in Nat
<1>1. DayTicks \in Nat /\ DayTicks > 0
    BY Constants
<1> QED BY <1>1 DEF Day

LEMMA BusyIs ==
    ASSUME TypeInv, NEW c \in Requests, requests[c].pc \in Pcs
    PROVE  requests[c] \in Busy /\ Holds(requests[c]) /\ InTime(requests[c], now) /\ requests[c] # Unused
<1>1. requests[c] \in Slots /\ InTime(requests[c], now)
    BY DEF TypeInv
<1>2. requests[c] # Unused /\ requests[c] \notin Leaving
    BY DEF Unused, Leaving, Pcs, Plain
<1> QED BY <1>1, <1>2 DEF Slots

LEMMA ReplyIs ==
    ASSUME TypeInv, NEW c \in Requests, At(c, "reply")
    PROVE  requests[c] \in Leaving /\ requests[c] # Unused
<1>1. requests[c] \in Slots
    BY DEF TypeInv
<1>2. requests[c] # Unused /\ requests[c] \notin Busy
    BY DEF Unused, Busy, Pcs, Plain, At
<1> QED BY <1>1, <1>2 DEF Slots

LEMMA BusyIsNot == ASSUME NEW r \in Busy PROVE r # Unused /\ r \notin Leaving
BY DEF Busy, Unused, Leaving, Pcs, Plain

-----------------------------------------------------------------------------
(* What a step makes of a request *)

Moved(c, r) == requests' = [requests EXCEPT ![c] = r]

\* It goes on as what it was, or it is answered and its reply carries what it did.
Stays(c, r) ==
    /\ r \in Busy /\ Holds(r) /\ InTime(r, now)
    /\ r.route = requests[c].route /\ r.cookie = requests[c].cookie /\ r.token = requests[c].token
    /\ r.began = requests[c].began
Ends(c, r) == r \in Leaving

LEMMA GoEffect ==
    ASSUME TypeInv, NEW c \in Requests, requests[c].pc \in Pcs,
           NEW pc \in (Plain \ {"work"}) \cup {"epoch", "store"}, Go(c, pc)
    PROVE  \E r : Moved(c, r) /\ Stays(c, r) /\ r.pc = pc /\ r.carries = requests[c].carries
<1> DEFINE r == [requests[c] EXCEPT !.pc = pc, !.stamp = requests[c].began, !.answer = <<>>]
<1>1. requests[c] \in Busy /\ Holds(requests[c]) /\ InTime(requests[c], now)
    BY BusyIs
<1>2. Moved(c, r)
    BY DEF Go, Moved, TypeInv
<1>3. /\ r \in Busy /\ r.pc = pc /\ r.stamp = requests[c].began /\ r.began = requests[c].began
      /\ r.route = requests[c].route /\ r.cookie = requests[c].cookie /\ r.proof = requests[c].proof
      /\ r.token = requests[c].token /\ r.carries = requests[c].carries
    BY <1>1, ZenonT(60) DEF Busy, Answers, Pcs, Plain
<1> HIDE DEF r
<1>4. Holds(r)
    BY <1>1, <1>3 DEF Holds, Plain
<1>5. requests[c].began \in Nat /\ requests[c].stamp \in Nat /\ now \in Nat
    BY <1>1 DEF Busy, TypeInv
<1>6. InTime(r, now)
    BY <1>1, <1>3, <1>5 DEF InTime
<1> QED BY <1>2, <1>3, <1>4, <1>6 DEF Stays

\* It waits at `pc`, with what it has learnt.
Waits(c, pc, stamp, answer, user) ==
    requests' = [requests EXCEPT ![c] = [@ EXCEPT !.pc = pc, !.stamp = stamp, !.answer = answer,
                                                  !.user = user]]
Learns(c, pc, answer) ==
    /\ answer \in Answers
    /\ pc = "frozen?" => answer \in [on : BOOLEAN]
    /\ pc = "space?" => answer \in [full : BOOLEAN, up : BOOLEAN]
    /\ pc = "counted" => answer \in [rows : Nat, stored : Nat]
    /\ pc = "epoch?" => answer \in [min : Nat, read : BOOLEAN]
    /\ pc \in {"minting", "spending"} => answer \in [min : Nat]
    /\ pc = "work" => requests[c].proof \in Nat

LEMMA AskEffect ==
    ASSUME TypeInv, NEW c \in Requests, requests[c].pc \in Pcs,
           NEW pc \in Pcs, NEW answer, NEW stamp \in {now, requests[c].stamp}, NEW user \in BOOLEAN,
           Learns(c, pc, answer), Waits(c, pc, stamp, answer, user)
    PROVE  \E r : /\ Moved(c, r) /\ Stays(c, r) /\ r.pc = pc /\ r.carries = requests[c].carries
                  /\ r.stamp = stamp /\ r.answer = answer
<1> DEFINE r == [requests[c] EXCEPT !.pc = pc, !.stamp = stamp, !.answer = answer, !.user = user]
<1>1. requests[c] \in Busy /\ Holds(requests[c]) /\ InTime(requests[c], now)
    BY BusyIs
<1>2. Moved(c, r)
    BY DEF Moved, Waits, TypeInv
<1>3. requests[c].began \in Nat /\ requests[c].stamp \in Nat /\ now \in Nat
    BY <1>1 DEF Busy, TypeInv
<1>4. /\ r \in Busy /\ r.pc = pc /\ r.stamp = stamp /\ r.began = requests[c].began
      /\ r.route = requests[c].route /\ r.cookie = requests[c].cookie /\ r.proof = requests[c].proof
      /\ r.token = requests[c].token /\ r.carries = requests[c].carries /\ r.answer = answer
    BY <1>1, <1>3 DEF Busy, Learns
<1> HIDE DEF r
<1>5. Holds(r)
    BY <1>1, <1>4 DEF Holds, Learns
<1>6. InTime(r, now)
    BY <1>1, <1>3, <1>4 DEF InTime
<1> QED BY <1>2, <1>4, <1>5, <1>6 DEF Stays

LEMMA EndEffect ==
    ASSUME TypeInv, NEW c \in Requests, requests[c].pc \in Pcs, NEW carries \in Cookie, Reply(c, carries)
    PROVE  \E r : Moved(c, r) /\ Ends(c, r) /\ r.carries = carries
<1> DEFINE r == [pc |-> "reply", route |-> requests[c].route, began |-> requests[c].began, carries |-> carries]
<1>1. requests[c] \in Busy
    BY BusyIs
<1>2. r \in Leaving /\ r.carries = carries
    BY <1>1 DEF Busy, Leaving
<1>3. Moved(c, r)
    BY DEF Reply, Moved, TypeInv
<1> QED BY <1>2, <1>3 DEF Ends

\* What every step of a request has in common.
Serves(c, r) ==
    /\ Moved(c, r)
    /\ \/ r = Unused /\ requests[c] \in Leaving
       \/ requests[c] \in Busy /\ (Stays(c, r) \/ Ends(c, r))
    /\ r # Unused /\ ~Rotate(c) /\ ~Logout(c) => r.carries = requests[c].carries
    /\ r.pc = "frozen?" => AskFreeze(c)
    /\ r.pc = "space?" => AskSpace(c)
    /\ r.pc = "counted" => AskCount(c)
    /\ r.pc = "epoch?" => AskEpoch(c)
    /\ r.pc = "store" => HeadroomFromCache(c) \/ KeepCount(c)

Asks == {"frozen?", "space?", "counted", "epoch?", "store"}

LEMMA OnServes ==
    ASSUME TypeInv, NEW c \in Requests, requests[c].pc \in Pcs, NEW r, Moved(c, r), Stays(c, r),
           r.pc \notin Asks, r.carries = requests[c].carries
    PROVE  Serves(c, r)
<1>1. requests[c] \in Busy
    BY BusyIs
<1> QED BY <1>1 DEF Serves, Asks

LEMMA EndServes ==
    ASSUME TypeInv, NEW c \in Requests, requests[c].pc \in Pcs, End(c)
    PROVE  \E r : Serves(c, r)
<1>1. requests[c] \in Busy /\ requests[c].carries \in Cookie
    BY BusyIs DEF Busy
<1>2. PICK r : Moved(c, r) /\ Ends(c, r) /\ r.carries = requests[c].carries
    BY <1>1, EndEffect DEF End
<1>3. r.pc = "reply"
    BY <1>2 DEF Ends, Leaving
<1>4. Serves(c, r)
    BY <1>1, <1>2, <1>3 DEF Serves
<1> QED BY <1>4

LEMMA GoServes ==
    ASSUME TypeInv, NEW c \in Requests, requests[c].pc \in Pcs, NEW pc \in (Plain \ {"work"}) \cup {"epoch"},
           Go(c, pc)
    PROVE  \E r : Serves(c, r)
<1>1. PICK r : Moved(c, r) /\ Stays(c, r) /\ r.pc = pc /\ r.carries = requests[c].carries
    BY GoEffect
<1>2. r.pc \notin Asks
    BY <1>1 DEF Asks, Plain
<1>3. Serves(c, r)
    BY <1>1, <1>2, OnServes
<1> QED BY <1>3

\* The answer to a question, and the time it was asked.
LEMMA AskServes ==
    ASSUME TypeInv, NEW c \in Requests, requests[c].pc \in Pcs,
           NEW pc \in {"frozen?", "space?", "counted", "epoch?"}, NEW answer, Ask(c, pc, answer),
           Learns(c, pc, answer)
    PROVE  \E r : /\ Moved(c, r) /\ Stays(c, r) /\ r.pc = pc /\ r.carries = requests[c].carries
                  /\ r.stamp = now /\ r.answer = answer
<1>1. requests[c] \in Busy
    BY BusyIs
<1>2. Waits(c, pc, now, answer, requests[c].user)
    BY <1>1 DEF Ask, Busy, Waits
<1>3. requests[c].user \in BOOLEAN /\ pc \in Pcs
    BY <1>1 DEF Busy, Pcs
<1> QED BY <1>2, <1>3, AskEffect

LEMMA NowServes ==
    ASSUME TypeInv, NEW c \in Requests, requests[c].pc \in Pcs, NEW pc \in {"limit", "work"}, Now(c, pc),
           pc = "work" => requests[c].proof \in Nat
    PROVE  \E r : Serves(c, r)
<1>1. requests[c] \in Busy
    BY BusyIs
<1>2. Waits(c, pc, now, <<>>, requests[c].user)
    BY <1>1 DEF Now, Busy, Waits
<1>3. Learns(c, pc, <<>>) /\ requests[c].user \in BOOLEAN /\ pc \in Pcs
    BY <1>1 DEF Answers, Busy, Pcs, Plain, Learns
<1>4. PICK r : /\ Moved(c, r) /\ Stays(c, r) /\ r.pc = pc /\ r.carries = requests[c].carries
               /\ r.stamp = now /\ r.answer = <<>>
    BY <1>2, <1>3, AskEffect
<1>5. r.pc \notin Asks
    BY <1>4 DEF Asks
<1> QED BY <1>4, <1>5, OnServes

LEMMA WithEpochServes ==
    ASSUME TypeInv, NEW c \in Requests, requests[c].pc \in Pcs, NEW epoch \in Nat,
           NEW looked \in {now, requests[c].stamp}, WithEpoch(c, epoch, looked)
    PROVE  \E r : Serves(c, r)
<1>1. requests[c] \in Busy
    BY BusyIs
<1>2. CASE requests[c].route = "send" /\ requests[c].token.epoch < epoch
    BY <1>2, EndServes DEF WithEpoch
<1>3. CASE ~(requests[c].route = "send" /\ requests[c].token.epoch < epoch)
    <2> DEFINE pc == IF requests[c].route = "mint" THEN "minting" ELSE "spending"
    <2>1. Waits(c, pc, looked, [min |-> epoch], requests[c].user)
        BY <1>1, <1>3, ZenonT(60) DEF WithEpoch, Busy, Waits
    <2>2. pc \in {"minting", "spending"}
        OBVIOUS
    <2> HIDE DEF pc
    <2>3. Learns(c, pc, [min |-> epoch]) /\ requests[c].user \in BOOLEAN /\ pc \in Pcs
        BY <1>1, <2>2 DEF Answers, Busy, Pcs, Plain, Learns
    <2>4. PICK r : /\ Moved(c, r) /\ Stays(c, r) /\ r.pc = pc /\ r.carries = requests[c].carries
                   /\ r.stamp = looked /\ r.answer = [min |-> epoch]
        BY <2>1, <2>3, AskEffect
    <2>5. r.pc \notin Asks
        BY <2>2, <2>4 DEF Asks
    <2> QED BY <2>4, <2>5, OnServes
<1> QED BY <1>2, <1>3

LEMMA ServeEffect ==
    ASSUME TypeInv, NEW c \in Requests, Serve(c)
    PROVE  \E r : Serves(c, r)
<1>1. CASE ReadsAnyway(c) \/ FreezeFromCache(c) \/ WithoutSession(c) \/ EndSession(c)
    <2>1. requests[c].pc \in Pcs /\ \E pc \in {"cookie", "handler"} : Go(c, pc)
        BY <1>1 DEF ReadsAnyway, FreezeFromCache, WithoutSession, EndSession, At, Pcs, Plain
    <2> QED BY <2>1, GoServes DEF Plain
<1>2. CASE AskFreeze(c)
    <2>1. At(c, "frozen?") \/ At(c, "sent")
        BY <1>2 DEF AskFreeze
    <2>2. Learns(c, "frozen?", [on |-> frozen # Nil])
        BY DEF Learns, Answers
    <2>3. PICK r : Moved(c, r) /\ Stays(c, r) /\ r.pc = "frozen?" /\ r.carries = requests[c].carries
        BY <1>2, <2>1, <2>2, AskServes DEF AskFreeze, At, Pcs, Plain
    <2>4. requests[c] \in Busy
        BY <2>1, BusyIs DEF At, Pcs, Plain
    <2>5. Serves(c, r)
        BY <1>2, <2>3, <2>4 DEF Serves
    <2> QED BY <2>5
<1>3. CASE KeepFreeze(c)
    <2>1. requests[c].pc \in Pcs /\ (End(c) \/ Go(c, "cookie"))
        BY <1>3 DEF KeepFreeze, At, Pcs
    <2> QED BY <2>1, GoServes, EndServes DEF Plain
<1>4. CASE Resolve(c)
    <2> DEFINE user == TRUE
    <2>1. requests[c] \in Busy /\ requests[c].pc = "cookie" /\ requests[c].pc \in Pcs /\ Holds(requests[c])
        BY <1>4, BusyIs DEF Resolve, At, Pcs, Plain
    <2>2. CASE session.day = Day(now)
        <3>1. Waits(c, "handler", requests[c].stamp, requests[c].answer, user)
            BY <1>4, <2>1, <2>2 DEF Resolve, Waits, Busy
        <3> HIDE DEF user
        <3>2. Learns(c, "handler", requests[c].answer) /\ "handler" \in Pcs /\ user \in BOOLEAN
            BY <2>1 DEF Learns, Busy, Pcs, Plain, user
        <3>3. PICK r : Moved(c, r) /\ Stays(c, r) /\ r.pc = "handler" /\ r.carries = requests[c].carries
            BY <2>1, <3>1, <3>2, AskEffect
        <3>4. r.pc \notin Asks
            BY <3>3 DEF Asks
        <3> QED BY <2>1, <3>3, <3>4, OnServes
    <2>3. CASE session.day # Day(now)
        <3>1. Waits(c, "rotate", now, [day |-> session.day], user)
            BY <1>4, <2>1, <2>3 DEF Resolve, Waits, Busy
        <3> HIDE DEF user
        <3>2. session.day \in Nat
            BY <1>4 DEF Resolve, Matches, TypeInv, Session, Maybe
        <3>3. Learns(c, "rotate", [day |-> session.day]) /\ "rotate" \in Pcs /\ user \in BOOLEAN
            BY <3>2 DEF Learns, Answers, Pcs, user
        <3>4. PICK r : Moved(c, r) /\ Stays(c, r) /\ r.pc = "rotate" /\ r.carries = requests[c].carries
            BY <2>1, <3>1, <3>3, AskEffect
        <3>5. r.pc \notin Asks
            BY <3>4 DEF Asks
        <3> QED BY <2>1, <3>4, <3>5, OnServes
    <2> QED BY <2>2, <2>3
<1>5. CASE Rotate(c)
    <2>1. /\ requests[c] \in Busy /\ requests[c].pc \in Pcs /\ Holds(requests[c])
          /\ InTime(requests[c], now) /\ requests[c].began \in Nat
        BY <1>5, BusyIs DEF Rotate, At, Pcs, Busy
    <2>2. CASE Rotates(c)
        <3> DEFINE r == [requests[c] EXCEPT !.pc = "handler", !.carries = cookies + 1,
                                            !.stamp = requests[c].began, !.answer = <<>>]
        <3>1. Moved(c, r)
            BY <1>5, <2>2 DEF Rotate, Moved, TypeInv
        <3>2. /\ r \in Busy /\ r.pc = "handler" /\ r.stamp = requests[c].began /\ r.began = requests[c].began
              /\ r.route = requests[c].route /\ r.cookie = requests[c].cookie
              /\ r.proof = requests[c].proof /\ r.token = requests[c].token
            <4>1. cookies + 1 \in Cookie
                BY DEF Cookie, Maybe, TypeInv
            <4>2. <<>> \in Answers /\ "handler" \in Pcs
                BY DEF Answers, Pcs, Plain
            <4> QED BY <2>1, <4>1, <4>2 DEF Busy
        <3> HIDE DEF r
        <3>3. Holds(r)
            BY <2>1, <3>2 DEF Holds
        <3>4. requests[c].stamp \in Nat /\ now \in Nat /\ InTime(r, now)
            BY <2>1, <3>2 DEF InTime, Busy, TypeInv
        <3>5. Serves(c, r)
            BY <1>5, <2>1, <3>1, <3>2, <3>3, <3>4 DEF Serves, Stays
        <3> QED BY <3>5
    <2>3. CASE ~Rotates(c)
        BY <1>5, <2>1, <2>3, GoServes DEF Rotate, Plain
    <2> QED BY <2>2, <2>3
<1>6. CASE Logout(c)
    <2>1. requests[c] \in Busy /\ requests[c].pc \in Pcs /\ Cleared \in Cookie
        BY <1>6, BusyIs DEF Logout, At, Pcs, Plain, Cleared, Cookie, Maybe
    <2>2. PICK r : Moved(c, r) /\ Ends(c, r)
        BY <1>6, <2>1, EndEffect DEF Logout
    <2>3. Serves(c, r)
        BY <1>6, <2>1, <2>2 DEF Serves, Ends, Leaving
    <2> QED BY <2>3
<1>7. CASE TakeTicket(c)
    BY <1>7, NowServes DEF TakeTicket, At, Pcs, Plain
<1>8. CASE Spend(c)
    <2>1. requests[c].pc \in Pcs /\ (End(c) \/ \E pc \in {"space", "room", "epoch"} : Go(c, pc))
        BY <1>8 DEF Spend, After, At, Pcs, Plain
    <2> QED BY <2>1, GoServes, EndServes DEF Plain
<1>9. CASE RequireWork(c)
    <2>1. requests[c].pc \in Pcs /\ Now(c, "work") /\ requests[c].route = "enter"
        BY <1>9 DEF RequireWork, At, Pcs, Plain
    <2>2. requests[c].proof \in Nat
        BY <2>1, BusyIs DEF Holds
    <2> QED BY <2>1, <2>2, NowServes
<1>10. CASE RedeemWork(c)
    BY <1>10, GoServes DEF RedeemWork, At, Pcs, Plain
<1>11. CASE SpaceFromCache(c) \/ KeepSpace(c) \/ NoSpaceAnswer(c)
    <2>1. requests[c].pc \in Pcs /\ (End(c) \/ Go(c, "room"))
        BY <1>11 DEF SpaceFromCache, KeepSpace, NoSpaceAnswer, Onward, At, Pcs, Plain
    <2> QED BY <2>1, GoServes, EndServes DEF Plain
<1>12. CASE AskSpace(c)
    <2>1. Learns(c, "space?", [full |-> disk.full # Nil, up |-> disk.up]) /\ requests[c].pc \in Pcs
        BY <1>12 DEF Learns, Answers, AskSpace, At, Pcs, Plain, TypeInv
    <2>2. PICK r : Moved(c, r) /\ Stays(c, r) /\ r.pc = "space?" /\ r.carries = requests[c].carries
        BY <1>12, <2>1, AskServes DEF AskSpace
    <2>3. requests[c] \in Busy
        BY <2>1, BusyIs
    <2>4. Serves(c, r)
        BY <1>12, <2>2, <2>3 DEF Serves
    <2> QED BY <2>4
<1>13. CASE AskCount(c)
    <2>1. Cardinality(blobs) \in Nat
        BY FS_CardinalityType DEF TypeInv
    <2>2. Learns(c, "counted", [rows |-> Cardinality(blobs), stored |-> admitted.stored])
          /\ requests[c].pc \in Pcs
        BY <1>13, <2>1 DEF Learns, Answers, AskCount, At, Pcs, Plain, TypeInv
    <2>3. PICK r : Moved(c, r) /\ Stays(c, r) /\ r.pc = "counted" /\ r.carries = requests[c].carries
        BY <1>13, <2>2, AskServes DEF AskCount
    <2>4. requests[c] \in Busy
        BY <2>2, BusyIs
    <2>5. Serves(c, r)
        BY <1>13, <2>3, <2>4 DEF Serves
    <2> QED BY <2>5
<1>14. CASE HeadroomFromCache(c) \/ KeepCount(c)
    <2>1. requests[c].pc \in Pcs /\ (End(c) \/ Go(c, "store"))
        BY <1>14 DEF HeadroomFromCache, KeepCount, Admit, At, Pcs, Plain
    <2>2. CASE Go(c, "store")
        <3>1. PICK r : Moved(c, r) /\ Stays(c, r) /\ r.pc = "store" /\ r.carries = requests[c].carries
            BY <2>1, <2>2, GoEffect
        <3>2. requests[c] \in Busy
            BY <2>1, BusyIs
        <3>3. Serves(c, r)
            BY <1>14, <3>1, <3>2 DEF Serves
        <3> QED BY <3>3
    <2> QED BY <2>1, <2>2, EndServes
<1>15. CASE StoreBlob(c) \/ Mint(c) \/ SpendToken(c) \/ Answer(c) \/ Refuse(c)
    <2>1. End(c)
        BY <1>15 DEF StoreBlob, Mint, SpendToken, Answer, Refuse
    <2>2. requests[c].pc \in Pcs
        <3>1. CASE Refuse(c)
            BY <3>1 DEF Refuse, TypeInv, Slots, Unused, Leaving, Busy
        <3>2. CASE ~Refuse(c)
            BY <1>15, <3>2 DEF StoreBlob, Mint, SpendToken, Answer, At, Pcs, Plain
        <3> QED BY <3>1, <3>2
    <2> QED BY <2>1, <2>2, EndServes
<1>16. CASE EpochFromCache(c)
    <2>1. requests[c].pc \in Pcs /\ floor.min \in Nat /\ WithEpoch(c, floor.min, now)
        BY <1>16 DEF EpochFromCache, NeedsEpoch, Fresh, At, Pcs, Plain, TypeInv, Maybe
    <2> QED BY <2>1, WithEpochServes
<1>17. CASE AskEpoch(c)
    <2>0. PICK a \in [min : Nat, read : BOOLEAN] : Ask(c, "epoch?", a)
        <3>1. MinEpoch \in Nat
            BY DEF MinEpoch, TypeInv
        <3> QED BY <1>17, <3>1 DEF AskEpoch
    <2>1. Learns(c, "epoch?", a) /\ requests[c].pc \in Pcs
        BY <1>17 DEF Learns, Answers, AskEpoch, NeedsEpoch, At, Pcs, Plain
    <2>2. PICK r : Moved(c, r) /\ Stays(c, r) /\ r.pc = "epoch?" /\ r.carries = requests[c].carries
        BY <2>0, <2>1, AskServes
    <2>3. requests[c] \in Busy
        BY <2>1, BusyIs
    <2>4. Serves(c, r)
        BY <1>17, <2>2, <2>3 DEF Serves
    <2> QED BY <2>4
<1>18. CASE KeepEpoch(c)
    <2>1. requests[c].pc \in Pcs /\ requests[c].pc = "epoch?"
        BY <1>18 DEF KeepEpoch, At, Pcs
    <2>2. requests[c].answer.min \in Nat
        BY <2>1, BusyIs DEF Holds
    <2> QED BY <1>18, <2>1, <2>2, WithEpochServes DEF KeepEpoch
<1>19. CASE Deliver(c) \/ LoseReply(c)
    <2>1. Moved(c, Unused) /\ requests[c] \in Leaving
        BY <1>19, ReplyIs DEF Deliver, LoseReply, Moved
    <2>2. Serves(c, Unused)
        BY <2>1 DEF Serves, Unused
    <2> QED BY <2>2
<1> QED BY <1>1, <1>2, <1>3, <1>4, <1>5, <1>6, <1>7, <1>8, <1>9, <1>10, <1>11, <1>12, <1>13, <1>14, <1>15,
           <1>16, <1>17, <1>18, <1>19 DEF Serve

-----------------------------------------------------------------------------
(* The types hold *)

FreezeTypes ==
    frozen \in Maybe(Nat) /\ engaged \in Maybe([at : Nat, on : BOOLEAN]) /\ ignored \in Nat
LoginTypes == session \in Maybe(Session) /\ cookies \in Nat /\ jar \in Cookie
LimitTypes ==
    /\ \A k \in DOMAIN buckets : buckets[k] \in [tokens : Nat, updated_at : Nat]
    /\ \A k \in DOMAIN spent : spent[k] \in [total : Nat, from : Nat, till : Nat]
WorkTypes == proofs \subseteq Nat /\ redeemed \in [0..MaxTime -> Nat]
UploadTypes ==
    /\ disk \in [full : Maybe(Nat), up : BOOLEAN, changes : Nat] /\ space \in Space
    /\ blobs \in SUBSET [upload : Nat, expires : Nat] /\ IsFiniteSet(blobs)
    /\ counted \in Maybe([at : Nat, rows : Nat])
    /\ admitted \in [past : Nat, stored : Nat, unseen : Nat]
SealedTypes ==
    raises \in Seq(Nat) /\ floor \in Maybe([at : Nat, min : Nat, read : BOOLEAN]) /\ tokens \in SUBSET Token
RequestTypes ==
    requests \in [Requests -> Slots] /\ \A c \in Requests : InTime(requests[c], now)

LEMMA TypeParts ==
    /\ TypeInv => /\ FreezeTypes /\ LoginTypes /\ LimitTypes /\ WorkTypes /\ UploadTypes /\ SealedTypes
                  /\ RequestTypes
    /\ /\ now \in Nat /\ sent \in Nat /\ traffic \in Traffics
       /\ FreezeTypes /\ LoginTypes /\ LimitTypes /\ WorkTypes /\ UploadTypes /\ SealedTypes /\ RequestTypes
       => TypeInv
BY DEF TypeInv, FreezeTypes, LoginTypes, LimitTypes, WorkTypes, UploadTypes, SealedTypes, RequestTypes

\* Each group of variables is left alone or keeps its types.
LEMMA TypeFrame ==
    ASSUME TypeInv, now' \in Nat, sent' \in Nat, traffic' = traffic, RequestTypes',
           UNCHANGED freeze \/ FreezeTypes', UNCHANGED login \/ LoginTypes', UNCHANGED limits \/ LimitTypes',
           UNCHANGED work \/ WorkTypes', UNCHANGED uploads \/ UploadTypes', UNCHANGED sealed \/ SealedTypes'
    PROVE  TypeInv'
<1>1. FreezeTypes'
    BY TypeParts DEF FreezeTypes, freeze
<1>2. LoginTypes'
    BY TypeParts DEF LoginTypes, login
<1>3. LimitTypes'
    BY TypeParts DEF LimitTypes, limits
<1>4. WorkTypes'
    BY TypeParts DEF WorkTypes, work
<1>5. UploadTypes'
    BY TypeParts DEF UploadTypes, uploads, storage
<1>6. SealedTypes'
    BY TypeParts DEF SealedTypes, sealed
<1>7. traffic' \in Traffics
    BY DEF TypeInv
<1> QED BY <1>1, <1>2, <1>3, <1>4, <1>5, <1>6, <1>7
    DEF TypeInv, FreezeTypes, LoginTypes, LimitTypes, WorkTypes, UploadTypes, SealedTypes, RequestTypes

LEMMA SlotTypes ==
    ASSUME TypeInv, NEW c \in Requests, NEW r \in Slots, InTime(r, now), Moved(c, r), now' = now
    PROVE  RequestTypes'
<1>1. /\ requests'[c] = r /\ \A d \in Requests \ {c} : requests'[d] = requests[d]
      /\ requests' \in [Requests -> Slots]
    BY DEF Moved, TypeInv
<1>2. \A d \in Requests : InTime(requests'[d], now)
    BY <1>1 DEF TypeInv
<1> QED BY <1>1, <1>2 DEF RequestTypes, InTime

LEMMA ServeTypes ==
    ASSUME TypeInv, NEW c \in Requests, Serve(c)
    PROVE  RequestTypes' /\ now' = now
<1>1. now' = now
    BY DEF Serve, ReadsAnyway, FreezeFromCache, AskFreeze, KeepFreeze, WithoutSession, EndSession, Resolve,
           Rotate, Logout, TakeTicket, Spend, RequireWork, RedeemWork, SpaceFromCache, AskSpace, KeepSpace,
           NoSpaceAnswer, HeadroomFromCache, AskCount, KeepCount, StoreBlob, EpochFromCache, AskEpoch,
           KeepEpoch, Mint, SpendToken, Answer, Refuse, Deliver, LoseReply
<1>2. PICK r : Serves(c, r)
    BY ServeEffect
<1>3. r \in Slots /\ InTime(r, now) /\ Moved(c, r)
    <2>1. CASE r = Unused
        BY <1>2, <2>1, BusyIsNot DEF Serves, Slots, InTime
    <2>2. CASE Stays(c, r)
        BY <1>2, <2>2 DEF Serves, Stays, Slots
    <2>3. CASE Ends(c, r)
        BY <1>2, <2>3, BusyIsNot DEF Serves, Ends, Slots, InTime
    <2> QED BY <1>2, <2>1, <2>2, <2>3 DEF Serves
<1> QED BY <1>1, <1>3, SlotTypes

LEMMA InitType == GateInit => TypeInv
<1> SUFFICES ASSUME GateInit PROVE TypeInv
    OBVIOUS
<1>1. FreezeTypes /\ LoginTypes
    BY DEF GateInit, FreezeTypes, LoginTypes, Maybe, Cookie
<1>2. LimitTypes /\ WorkTypes
    BY DEF GateInit, LimitTypes, WorkTypes
<1>3. UploadTypes
    BY FS_EmptySet DEF GateInit, UploadTypes, Maybe, Space
<1>4. SealedTypes
    BY DEF GateInit, SealedTypes, Maybe
<1>5. RequestTypes
    BY BusyIsNot DEF GateInit, RequestTypes, Slots, InTime
<1> QED BY <1>1, <1>2, <1>3, <1>4, <1>5, TypeParts DEF GateInit

LEMMA LargerType ==
    ASSUME NEW a \in Nat, NEW b \in Nat, NEW d \in Nat
    PROVE  Larger(a, b - d) \in Nat /\ Larger(a, b) \in Nat
BY DEF Larger

LEMMA IgnoresType ==
    ASSUME TypeInv, NEW thrown \in Maybe(Nat), Ignores(thrown)
    PROVE  ignored' \in Nat
<1>1. now \in Nat /\ ignored \in Nat
    BY DEF TypeInv
<1>2. thrown # Nil => Larger(ignored, now - thrown) \in Nat
    BY <1>1, LargerType DEF Maybe
<1> QED BY <1>1, <1>2 DEF Ignores

LEMMA SessionGone == ASSUME TypeInv, session' = Nil, UNCHANGED <<cookies, jar>> PROVE LoginTypes'
BY DEF TypeInv, LoginTypes, Maybe

LEMMA StepType == TypeInv /\ [GateNext]_gateVars => TypeInv'
<1> SUFFICES ASSUME TypeInv, [GateNext]_gateVars PROVE TypeInv'
    OBVIOUS
<1>1. now \in Nat /\ sent \in Nat /\ cookies \in Nat
    BY DEF TypeInv
<1>2. ASSUME NEW c \in Requests, Serve(c) PROVE TypeInv'
    <2>1. RequestTypes' /\ now' = now
        BY <1>2, ServeTypes
    <2>2. CASE ReadsAnyway(c) \/ AskFreeze(c) \/ WithoutSession(c) \/ Resolve(c) \/ TakeTicket(c)
               \/ AskSpace(c) \/ AskCount(c) \/ AskEpoch(c) \/ Answer(c) \/ Refuse(c)
        BY <1>1, <2>1, <2>2, TypeFrame
        DEF ReadsAnyway, AskFreeze, WithoutSession, Resolve, TakeTicket, AskSpace, AskCount, AskEpoch, Answer,
            Refuse
    <2>3. CASE FreezeFromCache(c)
        <3>1. ignored' \in Nat
            BY <2>3, IgnoresType DEF FreezeFromCache, TypeInv
        <3>2. FreezeTypes'
            BY <2>3, <3>1 DEF FreezeFromCache, FreezeTypes, TypeInv
        <3> QED BY <1>1, <2>1, <2>3, <3>2, TypeFrame DEF FreezeFromCache
    <2>4. CASE KeepFreeze(c)
        <3>1. requests[c] \in Busy /\ requests[c].answer \in [on : BOOLEAN]
            BY <2>4, BusyIs DEF KeepFreeze, At, Pcs, Holds
        <3>2. engaged' \in [at : Nat, on : BOOLEAN]
            BY <2>4, <3>1 DEF KeepFreeze, Busy
        <3>3. FreezeTypes'
            BY <2>4, <3>2 DEF KeepFreeze, FreezeTypes, TypeInv, Maybe
        <3> QED BY <1>1, <2>1, <2>4, <3>3, TypeFrame DEF KeepFreeze
    <2>5. CASE EndSession(c) \/ Logout(c)
        <3>1. LoginTypes'
            BY <2>5, SessionGone DEF EndSession, Logout
        <3> QED BY <1>1, <2>1, <2>5, <3>1, TypeFrame DEF EndSession, Logout
    <2>6. CASE Rotate(c)
        <3>1. requests[c] \in Busy
            BY <2>6, BusyIs DEF Rotate, At, Pcs
        <3>2. requests[c].stamp \in Nat /\ requests[c].cookie \in Cookie
            BY <3>1 DEF Busy
        <3>3. Day(requests[c].stamp) \in Nat /\ cookies + 1 \in Nat
            BY <1>1, <3>2, DayType
        <3>4. CASE Rotates(c)
            <4>1. session \in Session
                BY <3>4 DEF Rotates, TypeInv, Maybe
            <4>2. [session EXCEPT !.token = cookies + 1, !.previous = requests[c].cookie,
                                  !.rotatedAt = requests[c].stamp, !.day = Day(requests[c].stamp)] \in Session
                BY <3>2, <3>3, <4>1 DEF Session
            <4>3. LoginTypes'
                BY <2>6, <3>3, <3>4, <4>2 DEF Rotate, LoginTypes, Maybe, TypeInv
            <4> QED BY <1>1, <2>1, <2>6, <4>3, TypeFrame DEF Rotate
        <3>5. CASE ~Rotates(c)
            <4>1. UNCHANGED login
                BY <2>6, <3>5 DEF Rotate, login
            <4> QED BY <1>1, <2>1, <2>6, <4>1, TypeFrame DEF Rotate
        <3> QED BY <3>4, <3>5
    <2>7. CASE Spend(c)
        <3> DEFINE r == requests[c]
                   key == <<r.route, Day(r.stamp)>>
                   bucket == IF key \in DOMAIN buckets THEN buckets[key]
                             ELSE [tokens |-> Burst, updated_at |-> r.stamp]
                   so_far == IF key \in DOMAIN spent THEN spent[key]
                             ELSE [total |-> 0, from |-> r.stamp, till |-> r.stamp]
                   cost == Cost(r.route)
        <3>1. r.stamp \in Nat /\ cost \in Nat \ {0}
            BY <2>7, BusyIs, Constants DEF Spend, At, Pcs, Plain, Busy, Cost
        <3>2. bucket \in [tokens : Nat, updated_at : Nat] /\ so_far \in [total : Nat, from : Nat, till : Nat]
            BY <3>1, Constants DEF TypeInv
        <3>3. Level(bucket, r.stamp) \in Nat
            <4>1. /\ PerTick * r.stamp \in Nat /\ PerTick * bucket.updated_at \in Nat
                  /\ bucket.tokens \in Nat /\ Burst \in Nat
                BY <3>1, <3>2, Constants
            <4> HIDE DEF bucket
            <4> QED BY <4>1 DEF Level
        <3> DEFINE charged == Charged(bucket, cost, r.stamp)
                   more == [total |-> so_far.total + cost, from |-> so_far.from,
                            till |-> IF r.stamp > so_far.till THEN r.stamp ELSE so_far.till]
        <3>4. /\ Level(bucket, r.stamp) >= cost
              /\ buckets' = [k \in DOMAIN buckets \cup {key} |-> IF k = key THEN charged ELSE buckets[k]]
              /\ spent' = [k \in DOMAIN spent \cup {key} |-> IF k = key THEN more ELSE spent[k]]
            BY <2>7 DEF Spend
        <3>5. charged \in [tokens : Nat, updated_at : Nat]
            BY <3>1, <3>3, <3>4 DEF Charged
        <3>6. more \in [total : Nat, from : Nat, till : Nat]
            BY <3>1, <3>2
        <3> HIDE DEF charged, more, key
        <3>7. LimitTypes'
            BY <3>4, <3>5, <3>6 DEF LimitTypes, TypeInv
        <3> QED BY <1>1, <2>1, <2>7, <3>7, TypeFrame DEF Spend
    <2>8. CASE RequireWork(c)
        <3>1. WorkTypes'
            BY <2>8 DEF RequireWork, WorkTypes, Receipts, TypeInv
        <3> QED BY <1>1, <2>1, <2>8, <3>1, TypeFrame DEF RequireWork
    <2>9. CASE RedeemWork(c)
        <3>1. requests[c].proof \in Nat
            BY <2>9, BusyIs DEF RedeemWork, At, Pcs, Plain, Holds
        <3> DEFINE p == requests[c].proof
        <3>2. proofs' \subseteq Nat
            BY <2>9, <3>1 DEF RedeemWork, TypeInv
        <3>3. redeemed \in [0..MaxTime -> Nat]
            BY DEF TypeInv
        <3>4. redeemed' = redeemed \/ redeemed' = [redeemed EXCEPT ![p] = redeemed[p] + 1]
            BY <2>9 DEF RedeemWork
        <3> HIDE DEF p
        <3>5. redeemed' \in [0..MaxTime -> Nat]
            <4>1. CASE p \in 0..MaxTime
                <5>1. redeemed[p] + 1 \in Nat
                    BY <3>3, <4>1
                <5> QED BY <3>3, <3>4, <5>1
            <4>2. CASE p \notin 0..MaxTime
                BY <3>3, <3>4, <4>2
            <4> QED BY <4>1, <4>2
        <3>6. WorkTypes'
            BY <3>2, <3>5 DEF WorkTypes
        <3> QED BY <1>1, <2>1, <2>9, <3>6, TypeFrame DEF RedeemWork
    <2>10. CASE SpaceFromCache(c)
        <3>1. space' \in Space
            <4>1. space \in Space /\ disk.full \in Maybe(Nat)
                BY DEF TypeInv
            <4>2. disk.full # Nil => Larger(space.overlooked, now - disk.full) \in Nat
                BY <1>1, <4>1, LargerType DEF Maybe, Space
            <4> QED BY <2>10, <4>1, <4>2 DEF SpaceFromCache, Space
        <3>2. UploadTypes'
            BY <2>10, <3>1 DEF SpaceFromCache, UploadTypes, TypeInv
        <3> QED BY <1>1, <2>1, <2>10, <3>2, TypeFrame DEF SpaceFromCache
    <2>11. CASE KeepSpace(c)
        <3>1. requests[c].stamp \in Nat /\ requests[c].answer \in [full : BOOLEAN, up : BOOLEAN]
            BY <2>11, BusyIs DEF KeepSpace, At, Pcs, Holds, Busy
        <3>2. space' \in Space
            BY <2>11, <3>1 DEF KeepSpace, Space, Maybe, TypeInv
        <3>3. UploadTypes'
            BY <2>11, <3>2 DEF KeepSpace, UploadTypes, TypeInv
        <3> QED BY <1>1, <2>1, <2>11, <3>3, TypeFrame DEF KeepSpace
    <2>12. CASE NoSpaceAnswer(c)
        <3>1. space' \in Space
            <4>1. space \in Space /\ space.failures + 1 \in Nat /\ space.blind + 1 \in Nat
                BY DEF TypeInv, Space
            <4> DEFINE failed == [space EXCEPT !.failures = space.failures + 1, !.cached = Nil]
            <4>2. failed \in Space /\ failed.blind = space.blind
                BY <4>1 DEF Space, Maybe
            <4>3. space' = failed \/ space' = [failed EXCEPT !.blind = failed.blind + 1]
                BY <2>12 DEF NoSpaceAnswer
            <4> HIDE DEF failed
            <4> QED BY <4>1, <4>2, <4>3 DEF Space
        <3>2. UploadTypes'
            BY <2>12, <3>1 DEF NoSpaceAnswer, UploadTypes, TypeInv
        <3> QED BY <1>1, <2>1, <2>12, <3>2, TypeFrame DEF NoSpaceAnswer
    <2>13. CASE HeadroomFromCache(c)
        <3>1. counted \in [at : Nat, rows : Nat] /\ counted.rows + 1 \in Nat
              /\ admitted \in [past : Nat, stored : Nat, unseen : Nat] /\ admitted.past + 1 \in Nat
            BY <2>13 DEF HeadroomFromCache, Fresh, TypeInv, Maybe
        <3>2. counted' \in [at : Nat, rows : Nat] /\ admitted' \in [past : Nat, stored : Nat, unseen : Nat]
            BY <2>13, <3>1 DEF HeadroomFromCache, Admit
        <3>3. UploadTypes'
            BY <2>13, <3>2 DEF HeadroomFromCache, UploadTypes, Maybe, TypeInv, storage
        <3> QED BY <1>1, <2>1, <2>13, <3>3, TypeFrame DEF HeadroomFromCache
    <2>14. CASE KeepCount(c)
        <3>1. requests[c].stamp \in Nat /\ requests[c].answer \in [rows : Nat, stored : Nat]
            BY <2>14, BusyIs DEF KeepCount, At, Pcs, Holds, Busy
        <3>2. Larger(admitted.unseen, admitted.past - requests[c].answer.stored) \in Nat
            BY <3>1, LargerType DEF TypeInv
        <3>3. admitted' \in [past : Nat, stored : Nat, unseen : Nat]
            <4>1. admitted \in [past : Nat, stored : Nat, unseen : Nat] /\ admitted.past + 1 \in Nat
                BY DEF TypeInv
            <4> QED BY <2>14, <3>2, <4>1 DEF KeepCount
        <3>4. counted' \in [at : Nat, rows : Nat]
            BY <2>14, <3>1 DEF KeepCount, Admit
        <3>5. UploadTypes'
            BY <2>14, <3>3, <3>4 DEF KeepCount, UploadTypes, Maybe, TypeInv, storage
        <3> QED BY <1>1, <2>1, <2>14, <3>5, TypeFrame DEF KeepCount
    <2>15. CASE StoreBlob(c)
        <3>1. [upload |-> admitted.stored, expires |-> now + KeepTicks] \in [upload : Nat, expires : Nat]
            BY <1>1, Constants DEF TypeInv
        <3>2. blobs' \in SUBSET [upload : Nat, expires : Nat] /\ IsFiniteSet(blobs')
            BY <2>15, <3>1, FS_AddElement DEF StoreBlob, TypeInv
        <3>3. admitted' \in [past : Nat, stored : Nat, unseen : Nat]
            <4>1. admitted \in [past : Nat, stored : Nat, unseen : Nat] /\ admitted.stored + 1 \in Nat
                BY DEF TypeInv
            <4> QED BY <2>15, <4>1 DEF StoreBlob
        <3>4. UploadTypes'
            BY <2>15, <3>2, <3>3 DEF StoreBlob, UploadTypes, TypeInv, storage
        <3> QED BY <1>1, <2>1, <2>15, <3>4, TypeFrame DEF StoreBlob
    <2>16. CASE EpochFromCache(c)
        <3>1. requests[c].pc \in Pcs
            BY <2>16 DEF EpochFromCache, NeedsEpoch, At, Pcs, Plain
        <3>2. requests[c].token \in Maybe(Token) /\ floor \in [at : Nat, min : Nat, read : BOOLEAN]
            BY <2>16, <3>1, BusyIs DEF Busy, EpochFromCache, Fresh, TypeInv, Maybe
        <3>3. RevokedAt(requests[c].token) \in Maybe(Nat)
            <4>1. CASE requests[c].token = Nil
                BY <4>1 DEF RevokedAt, Maybe
            <4>2. CASE requests[c].token \in Token /\ requests[c].token.epoch < Len(raises)
                <5>1. requests[c].token.epoch + 1 \in 1..Len(raises)
                    BY <4>2 DEF Token, TypeInv
                <5>2. raises[requests[c].token.epoch + 1] \in Nat
                    BY <5>1 DEF TypeInv
                <5>3. Larger(raises[requests[c].token.epoch + 1], floor.at) \in Nat
                    BY <3>2, <5>2 DEF Larger
                <5> QED BY <5>2, <5>3 DEF RevokedAt, Maybe
            <4>3. CASE ~(requests[c].token.epoch < Len(raises))
                BY <4>3 DEF RevokedAt, Maybe, MinEpoch
            <4> QED BY <3>2, <4>1, <4>2, <4>3 DEF Maybe
        <3>4. ignored' \in Nat
            BY <2>16, <3>3, IgnoresType DEF EpochFromCache
        <3>5. FreezeTypes'
            BY <2>16, <3>4 DEF EpochFromCache, FreezeTypes, TypeInv
        <3> QED BY <1>1, <2>1, <2>16, <3>5, TypeFrame DEF EpochFromCache
    <2>17. CASE KeepEpoch(c)
        <3>1. requests[c].stamp \in Nat /\ requests[c].answer \in [min : Nat, read : BOOLEAN]
            BY <2>17, BusyIs DEF KeepEpoch, At, Pcs, Holds, Busy
        <3>2. SealedTypes'
            BY <2>17, <3>1 DEF KeepEpoch, SealedTypes, Maybe, TypeInv
        <3> QED BY <1>1, <2>1, <2>17, <3>2, TypeFrame DEF KeepEpoch
    <2>18. CASE Mint(c)
        <3>1. requests[c].answer \in [min : Nat]
            BY <2>18, BusyIs DEF Mint, At, Pcs, Holds
        <3>2. [epoch |-> requests[c].answer.min, expires |-> now + KeepTicks] \in Token
            BY <1>1, <3>1, Constants DEF Token
        <3>3. SealedTypes'
            BY <2>18, <3>2 DEF Mint, SealedTypes, TypeInv
        <3> QED BY <1>1, <2>1, <2>18, <3>3, TypeFrame DEF Mint
    <2>19. CASE SpendToken(c)
        <3>1. SealedTypes'
            BY <2>19 DEF SpendToken, SealedTypes, TypeInv
        <3> QED BY <1>1, <2>1, <2>19, <3>1, TypeFrame DEF SpendToken
    <2>20. CASE Deliver(c) \/ LoseReply(c)
        <3>1. requests[c].carries \in Cookie
            BY <2>20, ReplyIs DEF Deliver, LoseReply, Leaving
        <3>2. LoginTypes'
            BY <2>20, <3>1 DEF Deliver, LoseReply, LoginTypes, TypeInv, Cookie, Maybe
        <3> QED BY <1>1, <2>1, <2>20, <3>2, TypeFrame DEF Deliver, LoseReply
    <2> QED BY <1>2, <2>2, <2>3, <2>4, <2>5, <2>6, <2>7, <2>8, <2>9, <2>10, <2>11, <2>12, <2>13, <2>14, <2>15,
               <2>16, <2>17, <2>18, <2>19, <2>20 DEF Serve
<1>3. ASSUME NEW c \in Requests, NEW route \in traffic.routes, NEW proof \in (0..now) \cup {Nil},
             NEW token \in tokens \cup {Nil}, Send(c, route, proof, token)
      PROVE  TypeInv'
    <2> DEFINE r == Request(route, IF route \in {"send", "enter"} THEN Nil ELSE jar, proof, token)
    <2>1. route \in Routes
        BY MixesAssumption DEF TypeInv, Routes
    <2>2. proof \in Maybe(Nat) /\ token \in Maybe(Token) /\ jar \in Cookie
        BY <1>1 DEF Maybe, TypeInv
    <2>3. r \in Busy
        BY <1>1, <2>1, <2>2 DEF Request, Busy, Pcs, Plain, Answers, Cookie, Maybe
    <2>4. Holds(r)
        BY <1>3, <2>2 DEF Request, Holds, Send, Maybe
    <2>5. InTime(r, now) /\ Moved(c, r)
        BY <1>1, <1>3, Constants DEF Request, InTime, Moved, Send
    <2> HIDE DEF r
    <2>6. RequestTypes' /\ sent' \in Nat
        BY <1>1, <1>3, <2>3, <2>4, <2>5, SlotTypes DEF Send, Slots
    <2> QED BY <1>1, <1>3, <2>6, TypeFrame DEF Send
<1>4. ASSUME UNCHANGED <<now, requests>> PROVE RequestTypes'
    BY <1>4, TypeParts DEF RequestTypes
<1>5. CASE SignIn
    <2>1. Day(now) \in Nat
        BY <1>1, DayType
    <2>2. LoginTypes'
        BY <1>1, <1>5, <2>1, Constants DEF SignIn, LoginTypes, Session, Cookie, Maybe
    <2> QED BY <1>1, <1>4, <1>5, <2>2, TypeFrame DEF SignIn
<1>6. CASE Freeze \/ Thaw
    <2>1. FreezeTypes'
        BY <1>1, <1>6 DEF Freeze, Thaw, FreezeTypes, Maybe, TypeInv
    <2> QED BY <1>1, <1>4, <1>6, <2>1, TypeFrame DEF Freeze, Thaw
<1>7. CASE RevokeSendTokens
    <2>1. SealedTypes'
        BY <1>1, <1>7 DEF RevokeSendTokens, SealedTypes, TypeInv
    <2> QED BY <1>1, <1>4, <1>7, <2>1, TypeFrame DEF RevokeSendTokens
<1>8. CASE DiskChanges
    <2>1. disk' \in [full : Maybe(Nat), up : BOOLEAN, changes : Nat]
        <3>1. disk \in [full : Maybe(Nat), up : BOOLEAN, changes : Nat] /\ disk.changes + 1 \in Nat
            BY DEF TypeInv
        <3> QED BY <1>1, <1>8, <3>1 DEF DiskChanges, Maybe
    <2>2. UploadTypes'
        BY <1>8, <2>1 DEF DiskChanges, UploadTypes, TypeInv
    <2> QED BY <1>1, <1>4, <1>8, <2>2, TypeFrame DEF DiskChanges
<1>9. CASE PruneSessions
    BY <1>1, <1>4, <1>9, SessionGone, TypeFrame DEF PruneSessions
<1>10. CASE PruneRateLimits
    <2>1. LimitTypes'
        BY <1>10 DEF PruneRateLimits, LimitTypes, TypeInv
    <2> QED BY <1>1, <1>4, <1>10, <2>1, TypeFrame DEF PruneRateLimits
<1>11. CASE PruneBlobs
    <2>1. blobs' \subseteq blobs /\ IsFiniteSet(blobs')
        BY <1>11, FS_Subset DEF PruneBlobs, TypeInv
    <2>2. UploadTypes'
        BY <1>11, <2>1 DEF PruneBlobs, UploadTypes, TypeInv, storage
    <2> QED BY <1>1, <1>4, <1>11, <2>2, TypeFrame DEF PruneBlobs
<1>12. CASE PruneSendTokens
    <2>1. SealedTypes'
        BY <1>12 DEF PruneSendTokens, SealedTypes, TypeInv
    <2> QED BY <1>1, <1>4, <1>12, <2>1, TypeFrame DEF PruneSendTokens
<1>13. CASE Tick
    <2>1. now' = now + 1 /\ requests' = requests
        BY <1>13 DEF Tick
    <2>2. ASSUME NEW c \in Requests PROVE InTime(requests[c], now + 1)
        <3>1. CASE requests[c] \notin Busy
            BY <3>1 DEF InTime
        <3>2. CASE requests[c] \in Busy
            <4>1. InTime(requests[c], now) /\ requests[c] # Unused
                BY <3>2, BusyIsNot DEF TypeInv
            <4>2. now < requests[c].began + Patience
                BY <1>13, <4>1 DEF Tick, InFlight
            <4>3. requests[c].began \in Nat /\ requests[c].stamp \in Nat /\ Patience \in Nat
                BY <3>2, Constants DEF Busy
            <4> QED BY <1>1, <3>2, <4>1, <4>2, <4>3 DEF InTime
        <3> QED BY <3>1, <3>2
    <2>3. RequestTypes'
        BY <2>1, <2>2 DEF RequestTypes, TypeInv, InTime
    <2> QED BY <1>1, <1>13, <2>1, <2>3, TypeFrame DEF Tick
<1>14. CASE UNCHANGED gateVars
    BY <1>1, <1>4, <1>14, TypeFrame DEF gateVars
<1> QED BY <1>2, <1>3, <1>5, <1>6, <1>7, <1>8, <1>9, <1>10, <1>11, <1>12, <1>13, <1>14
    DEF GateNext, Housekeeping

\* Every variable keeps its type, and a request its answer and its patience.
THEOREM TypeCorrect == GateSpec => []TypeInv
BY InitType, StepType, PTL DEF GateSpec

-----------------------------------------------------------------------------
(* The cookie a browser holds *)

Carried(r) == IF r.pc = "idle" THEN Nil ELSE r.carries
Shown(r) == IF r.pc \in {"idle", "reply"} THEN Nil ELSE r.cookie

\* A session lives under the last token made; nobody knows a later one.
LastToken == session # Nil => session.token = cookies
Made(t) == t = Nil \/ t <= cookies
NoneAhead == Made(jar) /\ \A c \in Requests : Made(Carried(requests[c])) /\ Made(Shown(requests[c]))

\* A reply on its way brings the last token, and until it arrives nobody else
\* has it: no request can rotate that one.
Ahead(c) ==
    /\ Carried(requests[c]) = cookies /\ jar # cookies
    /\ \A d \in Requests : Shown(requests[d]) # cookies /\ (d # c => Carried(requests[d]) # cookies)
OneAhead == \A c \in Requests : Carried(requests[c]) \notin {Nil, Cleared} => Ahead(c)

\* A reply that clears the cookie leaves after its session.
ClearedLast == session # Nil => \A c \in Requests : Carried(requests[c]) # Cleared

LastReaches ==
    session # Nil => \/ jar = cookies \/ cookies \in lost
                     \/ \E c \in Requests : Carried(requests[c]) = cookies

CookieInv == LastToken /\ NoneAhead /\ OneAhead /\ ClearedLast /\ LastReaches

LEMMA SlotIs ==
    ASSUME NEW r \in Slots
    PROVE  /\ Carried(r) \in Cookie /\ Shown(r) \in Cookie
           /\ r \in Busy => Carried(r) = r.carries /\ Shown(r) = r.cookie
           /\ r \in Leaving => Carried(r) = r.carries /\ Shown(r) = Nil
           /\ r = Unused => Carried(r) = Nil /\ Shown(r) = Nil
BY DEF Slots, Busy, Leaving, Unused, Carried, Shown, Cookie, Maybe, Pcs, Plain

LEMMA SlotsBefore == TypeInv => \A c \in Requests : requests[c] \in Slots
BY DEF TypeInv

LEMMA CookieTypes ==
    TypeInv => /\ cookies \in Nat /\ cookies # Nil /\ cookies + 1 # Nil /\ cookies + 1 # Cleared
               /\ jar \in Cookie /\ Cleared # Nil /\ Cleared \in Cookie
<1>1. Nil \notin Nat
    BY Constants
<1> QED BY <1>1 DEF TypeInv, Cleared, Cookie, Maybe

LEMMA MovedIs ==
    ASSUME TypeInv, NEW c \in Requests, NEW r, Moved(c, r)
    PROVE  requests'[c] = r /\ \A d \in Requests : d # c => requests'[d] = requests[d]
BY DEF Moved, TypeInv

\* Requests that go on as they were, or leave with the cookie they carried.
LEMMA CookieFrame ==
    ASSUME TypeInv, CookieInv, session' \in {session, Nil}, UNCHANGED <<cookies, jar, lost>>,
           \A d \in Requests : /\ Carried(requests'[d]) = Carried(requests[d])
                               /\ Shown(requests'[d]) \in {Shown(requests[d]), Nil}
    PROVE  CookieInv'
<1>1. cookies # Nil
    BY Constants DEF TypeInv
<1>2. LastToken' /\ ClearedLast' /\ LastReaches'
    BY DEF CookieInv, LastToken, ClearedLast, LastReaches
<1>3. NoneAhead'
    BY DEF CookieInv, NoneAhead, Made
<1>4. OneAhead'
    BY <1>1 DEF CookieInv, OneAhead, Ahead
<1> QED BY <1>2, <1>3, <1>4 DEF CookieInv

\* Any other step of a request.
LEMMA QuietStep ==
    ASSUME TypeInv, TypeInv', CookieInv, NEW c \in Requests, Serve(c), ~Rotate(c), ~Logout(c), ~Deliver(c),
           ~LoseReply(c)
    PROVE  CookieInv'
<1>1. session' \in {session, Nil} /\ UNCHANGED <<cookies, jar, lost>>
    BY DEF Serve, ReadsAnyway, FreezeFromCache, AskFreeze, KeepFreeze, WithoutSession, EndSession, Resolve,
           TakeTicket, Spend, RequireWork, RedeemWork, SpaceFromCache, AskSpace, KeepSpace,
           NoSpaceAnswer, HeadroomFromCache, AskCount, KeepCount, StoreBlob, EpochFromCache, AskEpoch,
           KeepEpoch, Mint, SpendToken, Answer, Refuse, login
<1>2. requests[c].pc # "reply"
    BY DEF Serve, ReadsAnyway, FreezeFromCache, AskFreeze, KeepFreeze, WithoutSession, EndSession, Resolve,
           TakeTicket, Spend, RequireWork, RedeemWork, SpaceFromCache, AskSpace, KeepSpace,
           NoSpaceAnswer, HeadroomFromCache, AskCount, KeepCount, StoreBlob, EpochFromCache, AskEpoch,
           KeepEpoch, Mint, SpendToken, Answer, Refuse, At, NeedsEpoch
<1>3. PICK r : Serves(c, r)
    BY ServeEffect
<1>4. requests[c] \in Busy /\ (Stays(c, r) \/ Ends(c, r)) /\ r # Unused
    BY <1>2, <1>3, BusyIsNot DEF Serves, Leaving, Stays, Ends, Unused
<1>5. r.carries = requests[c].carries
    BY <1>3, <1>4 DEF Serves
<1>6. requests'[c] = r /\ \A d \in Requests : d # c => requests'[d] = requests[d]
    BY <1>3, MovedIs DEF Serves
<1>7. Carried(r) = Carried(requests[c]) /\ Shown(r) \in {Shown(requests[c]), Nil}
    <2>1. requests[c] \in Slots
        BY SlotsBefore
    <2>2. CASE Stays(c, r)
        <3>1. r \in Busy /\ r \in Slots /\ r.cookie = requests[c].cookie
            BY <2>2 DEF Stays, Slots
        <3> QED BY <1>4, <1>5, <2>1, <3>1, SlotIs
    <2>3. CASE Ends(c, r)
        <3>1. r \in Leaving /\ r \in Slots
            BY <2>3 DEF Ends, Slots
        <3> QED BY <1>4, <1>5, <2>1, <3>1, SlotIs
    <2> QED BY <1>4, <2>2, <2>3
<1>8. \A d \in Requests : /\ Carried(requests'[d]) = Carried(requests[d])
                          /\ Shown(requests'[d]) \in {Shown(requests[d]), Nil}
    BY <1>6, <1>7
<1> QED BY <1>1, <1>8, CookieFrame

LEMMA RotateCookie ==
    ASSUME TypeInv, TypeInv', CookieInv, NEW c \in Requests, Rotate(c)
    PROVE  CookieInv'
<1>1. /\ requests[c] \in Busy /\ requests[c].pc \in Pcs /\ requests[c] \in Slots
      /\ cookies \in Nat /\ cookies # Nil /\ cookies + 1 # Nil /\ cookies + 1 # Cleared /\ Cleared # Nil
    BY BusyIs, SlotsBefore, CookieTypes DEF Rotate, At, Pcs
<1>2. CASE Rotates(c)
    <2>1. /\ Shown(requests[c]) = cookies /\ session # Nil
        BY <1>1, <1>2, SlotIs DEF Rotates, CookieInv, LastToken
    <2>2. \A d \in Requests : Carried(requests[d]) = Nil
        <3>1. \A d \in Requests : Carried(requests[d]) \in {Nil, Cleared}
            BY <2>1 DEF CookieInv, OneAhead, Ahead
        <3> QED BY <2>1, <3>1 DEF CookieInv, ClearedLast
    <2> DEFINE r == [requests[c] EXCEPT !.pc = "handler", !.carries = cookies + 1,
                                        !.stamp = requests[c].began, !.answer = <<>>]
    <2>3. Moved(c, r)
        BY <1>2 DEF Rotate, Moved
    <2>4. Carried(r) = cookies + 1 /\ Shown(r) = requests[c].cookie
        BY <1>1 DEF Carried, Shown, Busy
    <2> HIDE DEF r
    <2>5. /\ Carried(requests'[c]) = cookies + 1 /\ Shown(requests'[c]) = cookies
          /\ \A d \in Requests : d # c => requests'[d] = requests[d]
        BY <1>1, <2>1, <2>3, <2>4, MovedIs, SlotIs
    <2>6. cookies' = cookies + 1 /\ UNCHANGED <<jar, lost>> /\ session'.token = cookies + 1
        <3>1. session \in Session
            BY <2>1 DEF TypeInv, Maybe
        <3>2. session' = [session EXCEPT !.token = cookies + 1, !.previous = requests[c].cookie,
                                         !.rotatedAt = requests[c].stamp, !.day = Day(requests[c].stamp)]
              /\ cookies' = cookies + 1 /\ UNCHANGED <<jar, lost>>
            BY <1>2 DEF Rotate
        <3>3. session'.token = cookies + 1
            BY <3>1, <3>2 DEF Session
        <3> QED BY <3>2, <3>3
    <2>7. Made(jar) /\ \A d \in Requests : Made(Shown(requests[d])) /\ Shown(requests[d]) \in Cookie
        BY SlotsBefore, SlotIs DEF CookieInv, NoneAhead
    <2>8. /\ jar # cookies + 1 /\ Made(jar)'
          /\ \A d \in Requests : Shown(requests[d]) # cookies + 1
                                 /\ (Shown(requests[d]) # Nil => Shown(requests[d]) <= cookies + 1)
        <3>1. jar \in Nat \cup {Nil}
            BY CookieTypes DEF Cookie, Maybe
        <3>2. jar # cookies + 1 /\ Made(jar)'
            BY <1>1, <2>6, <2>7, <3>1 DEF Made
        <3>3. ASSUME NEW d \in Requests
              PROVE  Shown(requests[d]) # cookies + 1
                     /\ (Shown(requests[d]) # Nil => Shown(requests[d]) <= cookies + 1)
            <4>1. Shown(requests[d]) \in Nat \cup {Nil} /\ Made(Shown(requests[d]))
                BY <2>7 DEF Cookie, Maybe
            <4> QED BY <1>1, <4>1 DEF Made
        <3> QED BY <3>2, <3>3
    <2>9. LastToken' /\ ClearedLast' /\ LastReaches'
        <3>1. \A d \in Requests : Carried(requests'[d]) # Cleared
            BY <1>1, <2>2, <2>5
        <3> QED BY <2>5, <2>6, <3>1 DEF LastToken, ClearedLast, LastReaches
    <2>10. NoneAhead'
        BY <1>1, <2>1, <2>2, <2>5, <2>6, <2>8 DEF NoneAhead, Made
    <2>11. OneAhead'
        <3>1. \A d \in Requests : d # c => Carried(requests'[d]) = Nil
            BY <2>2, <2>5
        <3>2. \A d \in Requests : Shown(requests'[d]) # cookies'
            BY <1>1, <2>1, <2>5, <2>6, <2>8
        <3>3. jar' # cookies' /\ Carried(requests'[c]) = cookies'
            BY <2>5, <2>6, <2>8
        <3> QED BY <1>1, <2>6, <3>1, <3>2, <3>3 DEF OneAhead, Ahead
    <2> QED BY <2>9, <2>10, <2>11 DEF CookieInv
<1>3. CASE ~Rotates(c)
    <2>1. Go(c, "handler") /\ UNCHANGED <<session, cookies, jar, lost>>
        BY <1>3 DEF Rotate
    <2>2. PICK r : Moved(c, r) /\ Stays(c, r) /\ r.pc = "handler" /\ r.carries = requests[c].carries
        BY <1>1, <2>1, GoEffect DEF Plain
    <2>3. /\ r \in Busy /\ r \in Slots /\ r.cookie = requests[c].cookie
        BY <2>2 DEF Stays, Slots
    <2>4. Carried(r) = Carried(requests[c]) /\ Shown(r) = Shown(requests[c])
        BY <1>1, <2>2, <2>3, SlotIs
    <2>5. requests'[c] = r /\ \A d \in Requests : d # c => requests'[d] = requests[d]
        BY <2>2, MovedIs
    <2>6. \A d \in Requests : /\ Carried(requests'[d]) = Carried(requests[d])
                              /\ Shown(requests'[d]) \in {Shown(requests[d]), Nil}
        BY <2>4, <2>5
    <2> QED BY <2>1, <2>6, CookieFrame
<1> QED BY <1>2, <1>3

LEMMA LogoutCookie ==
    ASSUME TypeInv, TypeInv', CookieInv, NEW c \in Requests, Logout(c)
    PROVE  CookieInv'
<1>1. /\ requests[c].pc \in Pcs /\ Cleared \in Cookie /\ cookies # Nil /\ cookies \in Nat
      /\ Nil # Cleared
    BY CookieTypes DEF Logout, At, Pcs, Plain
<1>2. PICK r : Moved(c, r) /\ Ends(c, r) /\ r.carries = Cleared
    BY <1>1, EndEffect DEF Logout
<1>3. Carried(r) = Cleared /\ Shown(r) = Nil
    BY <1>2, SlotIs DEF Ends, Slots
<1>4. /\ Carried(requests'[c]) = Cleared /\ Shown(requests'[c]) = Nil
      /\ \A d \in Requests : d # c => requests'[d] = requests[d]
    BY <1>2, <1>3, MovedIs
<1>5. session' = Nil /\ UNCHANGED <<cookies, jar, lost>>
    BY DEF Logout
<1>6. LastToken' /\ ClearedLast' /\ LastReaches'
    BY <1>5 DEF LastToken, ClearedLast, LastReaches
<1>7. NoneAhead'
    BY <1>1, <1>4, <1>5 DEF CookieInv, NoneAhead, Made, Cleared
<1>8. OneAhead'
    <2> SUFFICES ASSUME NEW d \in Requests, Carried(requests'[d]) \notin {Nil, Cleared}
                 PROVE  Ahead(d)'
        BY DEF OneAhead
    <2>1. d # c /\ Carried(requests[d]) \notin {Nil, Cleared} /\ requests'[d] = requests[d]
        BY <1>4
    <2>2. Ahead(d)
        BY <2>1 DEF CookieInv, OneAhead
    <2>3. cookies # Cleared
        BY <2>1, <2>2 DEF Ahead
    <2> QED BY <1>1, <1>4, <1>5, <2>1, <2>2, <2>3 DEF Ahead
<1> QED BY <1>6, <1>7, <1>8 DEF CookieInv

\* A reply arrives, or never does.
LEMMA ArriveCookie ==
    ASSUME TypeInv, TypeInv', CookieInv, NEW c \in Requests, Deliver(c) \/ LoseReply(c)
    PROVE  CookieInv'
<1> DEFINE carried == requests[c].carries
<1>1. /\ requests[c] \in Leaving /\ requests[c] \in Slots /\ carried \in Cookie /\ cookies # Nil
      /\ cookies \in Nat /\ Nil # Cleared
    BY ReplyIs, SlotsBefore, CookieTypes DEF Deliver, LoseReply, Leaving
<1>2. Carried(requests[c]) = carried
    BY <1>1, SlotIs
<1>3. Moved(c, Unused) /\ UNCHANGED <<session, cookies>>
    BY DEF Deliver, LoseReply, Moved
<1>4. /\ Carried(requests'[c]) = Nil /\ Shown(requests'[c]) = Nil
      /\ \A d \in Requests : d # c => requests'[d] = requests[d]
    BY <1>3, MovedIs, SlotIs DEF Slots
<1>5. /\ jar' \in {jar, Nil, carried} /\ lost \subseteq lost'
      /\ \/ jar' = carried /\ carried \notin {Nil, Cleared}
         \/ carried \in lost' \/ carried = Cleared
         \/ jar' = jar /\ carried = Nil
      /\ (jar' # jar => carried # Nil /\ (carried = Cleared => jar' = Nil))
    <2>1. CASE Deliver(c)
        BY <1>1, <2>1 DEF Deliver
    <2>2. CASE LoseReply(c)
        BY <1>1, <2>2 DEF LoseReply
    <2> QED BY <2>1, <2>2
<1> HIDE DEF carried
<1>6. LastToken' /\ ClearedLast'
    BY <1>1, <1>3, <1>4 DEF CookieInv, LastToken, ClearedLast
<1>7. NoneAhead'
    BY <1>1, <1>2, <1>3, <1>4, <1>5 DEF CookieInv, NoneAhead, Made
<1>8. OneAhead'
    <2> SUFFICES ASSUME NEW d \in Requests, Carried(requests'[d]) \notin {Nil, Cleared}
                 PROVE  Ahead(d)'
        BY DEF OneAhead
    <2>1. d # c /\ Carried(requests[d]) \notin {Nil, Cleared} /\ requests'[d] = requests[d]
        BY <1>4
    <2>2. Ahead(d)
        BY <2>1 DEF CookieInv, OneAhead
    <2>3. carried \in {Nil, Cleared}
        <3> SUFFICES ASSUME carried \notin {Nil, Cleared} PROVE FALSE
            OBVIOUS
        <3>1. Ahead(c)
            BY <1>2 DEF CookieInv, OneAhead
        <3> QED BY <2>1, <2>2, <3>1 DEF Ahead
    <2>4. jar' # cookies'
        BY <1>1, <1>3, <1>5, <2>2, <2>3 DEF Ahead
    <2> QED BY <1>1, <1>3, <1>4, <2>1, <2>2, <2>4 DEF Ahead
<1>9. LastReaches'
    <2> SUFFICES ASSUME session # Nil
                 PROVE  (jar = cookies \/ cookies \in lost
                         \/ \E d \in Requests : Carried(requests[d]) = cookies)'
        BY <1>3 DEF LastReaches
    <2>1. carried # Cleared /\ (carried # Nil => carried = cookies)
        BY <1>2 DEF CookieInv, ClearedLast, OneAhead, Ahead
    <2>2. CASE carried # Nil
        BY <1>3, <1>5, <2>1, <2>2
    <2>3. CASE carried = Nil
        BY <1>1, <1>2, <1>3, <1>4, <1>5, <2>3 DEF CookieInv, LastReaches
    <2> QED BY <2>2, <2>3
<1> QED BY <1>6, <1>7, <1>8, <1>9 DEF CookieInv

LEMMA SendCookie ==
    ASSUME TypeInv, TypeInv', CookieInv, NEW c \in Requests, NEW route, NEW proof, NEW token,
           Send(c, route, proof, token)
    PROVE  CookieInv'
<1> DEFINE r == Request(route, IF route \in {"send", "enter"} THEN Nil ELSE jar, proof, token)
<1>1. Moved(c, r) /\ UNCHANGED <<session, cookies, jar, lost>>
    BY DEF Send, Moved, login
<1>2. Carried(r) = Nil /\ Shown(r) \in {Nil, jar}
    BY DEF Request, Carried, Shown
<1> HIDE DEF r
<1>3. /\ Carried(requests'[c]) = Nil /\ Shown(requests'[c]) \in {Nil, jar}
      /\ \A d \in Requests : d # c => requests'[d] = requests[d]
    BY <1>1, <1>2, MovedIs
<1>4. requests[c] = Unused /\ Carried(requests[c]) = Nil /\ cookies # Nil
    BY SlotsBefore, SlotIs, BusyIsNot, Constants DEF Send, At, Slots, Busy, Leaving, Pcs, Plain, TypeInv
<1>5. LastToken' /\ ClearedLast' /\ LastReaches'
    BY <1>1, <1>3, <1>4, Constants DEF CookieInv, LastToken, ClearedLast, LastReaches, Cleared
<1>6. NoneAhead'
    BY <1>1, <1>3 DEF CookieInv, NoneAhead, Made
<1>7. OneAhead'
    BY <1>1, <1>3, <1>4 DEF CookieInv, OneAhead, Ahead
<1> QED BY <1>5, <1>6, <1>7 DEF CookieInv

LEMMA SignInCookie == ASSUME TypeInv, TypeInv', CookieInv, SignIn PROVE CookieInv'
<1>1. /\ session' = [token |-> cookies + 1, previous |-> Nil, rotatedAt |-> now,
                     day |-> Day(now), expires |-> now + LifeTicks]
      /\ cookies' = cookies + 1 /\ jar' = cookies + 1 /\ requests' = requests
      /\ InFlight = {} /\ cookies \in Nat /\ cookies + 1 # Nil
    BY Constants DEF SignIn, TypeInv
<1>2. session'.token = cookies + 1
    BY <1>1
<1>3. \A d \in Requests : requests[d] = Unused
    BY <1>1 DEF InFlight
<1>4. \A d \in Requests : Carried(requests'[d]) = Nil /\ Shown(requests'[d]) = Nil
    BY <1>1, <1>3, SlotIs DEF Slots
<1>5. LastToken' /\ ClearedLast' /\ LastReaches' /\ NoneAhead' /\ OneAhead'
    BY <1>1, <1>2, <1>4, Constants
    DEF LastToken, ClearedLast, LastReaches, NoneAhead, OneAhead, Made, Cleared
<1> QED BY <1>5 DEF CookieInv

LEMMA CookieStep == TypeInv /\ TypeInv' /\ CookieInv /\ [GateNext]_gateVars => CookieInv'
<1> SUFFICES ASSUME TypeInv, TypeInv', CookieInv, [GateNext]_gateVars PROVE CookieInv'
    OBVIOUS
<1>1. ASSUME NEW c \in Requests, Serve(c) PROVE CookieInv'
    BY <1>1, QuietStep, RotateCookie, LogoutCookie, ArriveCookie
<1>2. ASSUME NEW c \in Requests, NEW route \in traffic.routes, NEW proof \in (0..now) \cup {Nil},
             NEW token \in tokens \cup {Nil}, Send(c, route, proof, token)
      PROVE  CookieInv'
    BY <1>2, SendCookie
<1>3. CASE \/ Freeze \/ Thaw \/ RevokeSendTokens \/ DiskChanges \/ Housekeeping \/ Tick
           \/ UNCHANGED gateVars
    <2>1. session' \in {session, Nil} /\ UNCHANGED <<cookies, jar, lost, requests>>
        BY <1>3 DEF Freeze, Thaw, RevokeSendTokens, DiskChanges, Housekeeping, PruneSessions, PruneRateLimits,
                    PruneBlobs, PruneSendTokens, Tick, gateVars, login
    <2>2. \A d \in Requests : /\ Carried(requests'[d]) = Carried(requests[d])
                              /\ Shown(requests'[d]) \in {Shown(requests[d]), Nil}
        BY <2>1
    <2> QED BY <2>1, <2>2, CookieFrame
<1> QED BY <1>1, <1>2, <1>3, SignInCookie DEF GateNext

\* A browser whose session lives holds its current token, unless the reply that
\* brings it is on its way or was lost, whatever crosses midnight together.
THEOREM CookieHolds == GateSpec => []CookieStaysGood
<1>1. GateInit => CookieInv
    <2> SUFFICES ASSUME GateInit PROVE CookieInv
        OBVIOUS
    <2>1. \A c \in Requests : Carried(requests[c]) = Nil /\ Shown(requests[c]) = Nil
        BY SlotIs DEF GateInit, Slots
    <2> QED BY <2>1 DEF GateInit, CookieInv, LastToken, NoneAhead, Made, OneAhead, ClearedLast, LastReaches
<1>2. TypeInv /\ CookieInv => CookieStaysGood
    <2> SUFFICES ASSUME TypeInv, CookieInv, session # Nil PROVE CookieStaysGood
        BY DEF CookieStaysGood
    <2>1. session.token = cookies
        BY DEF CookieInv, LastToken
    <2>2. ASSUME NEW c \in Requests, Carried(requests[c]) = cookies
          PROVE  c \in Replies /\ requests[c].carries \in {session.token, Cleared}
        <3>1. cookies # Nil
            BY CookieTypes
        <3>2. requests[c].pc # "idle" /\ requests[c].carries = cookies
            BY <2>2, <3>1 DEF Carried
        <3> QED BY <2>1, <3>1, <3>2 DEF Replies, InFlight, Unused
    <2> QED BY <2>1, <2>2 DEF CookieInv, LastReaches, CookieStaysGood
<1> QED BY <1>1, <1>2, InitType, StepType, CookieStep, PTL DEF GateSpec

-----------------------------------------------------------------------------
(* The switches *)

\* An answer of `at` that says a switch is off was given before it was thrown.
AskedBefore(at, thrown) == at <= now /\ (thrown # Nil => at <= thrown)

FreezeSeen ==
    /\ frozen # Nil => frozen <= now
    /\ engaged # Nil => engaged.at <= now /\ (~engaged.on => AskedBefore(engaged.at, frozen))
    /\ \A c \in Requests : At(c, "frozen?") /\ ~requests[c].answer.on =>
           AskedBefore(requests[c].stamp, frozen)

\* Every raise an answer that was read does not know of came after the question.
KnewOf(at, kept) == at <= now /\ (kept.read => \A i \in DOMAIN raises : i > kept.min => at <= raises[i])

RaisesSeen ==
    /\ \A i \in DOMAIN raises : raises[i] <= now
    /\ floor # Nil => KnewOf(floor.at, floor)
    /\ \A c \in Requests : At(c, "epoch?") => KnewOf(requests[c].stamp, requests[c].answer)

SwitchInv == FreezeSeen /\ RaisesSeen /\ SwitchesHold

\* Only a step that asks leaves a request waiting for an answer.
LEMMA WaitingIs ==
    ASSUME TypeInv, NEW c \in Requests, Serve(c)
    PROVE  /\ \A d \in Requests : d # c => requests'[d] = requests[d]
           /\ requests'[c].pc = "frozen?" => AskFreeze(c)
           /\ requests'[c].pc = "space?" => AskSpace(c)
           /\ requests'[c].pc = "counted" => AskCount(c)
           /\ requests'[c].pc = "epoch?" => AskEpoch(c)
           /\ requests'[c].pc = "store" => HeadroomFromCache(c) \/ KeepCount(c)
<1>1. PICK r : Serves(c, r)
    BY ServeEffect
<1>2. requests'[c] = r /\ \A d \in Requests : d # c => requests'[d] = requests[d]
    BY <1>1, MovedIs DEF Serves
<1> QED BY <1>1, <1>2 DEF Serves

\* What is kept, and what was asked, stays true while nothing is thrown.
LEMMA FreezeFrame ==
    ASSUME TypeInv, FreezeSeen, UNCHANGED now, frozen' \in {frozen, Nil}, UNCHANGED engaged,
           \A d \in Requests : requests'[d].pc = "frozen?" => requests'[d] = requests[d]
    PROVE  FreezeSeen'
<1>1. frozen' # Nil => frozen' = frozen
    OBVIOUS
<1>2. \A at : AskedBefore(at, frozen) => AskedBefore(at, frozen)'
    BY DEF AskedBefore
<1>3. (frozen # Nil => frozen <= now)'
    BY DEF FreezeSeen
<1>4. (engaged # Nil => engaged.at <= now /\ (~engaged.on => AskedBefore(engaged.at, frozen)))'
    BY DEF FreezeSeen, AskedBefore
<1>5. (\A c \in Requests : At(c, "frozen?") /\ ~requests[c].answer.on =>
           AskedBefore(requests[c].stamp, frozen))'
    BY DEF FreezeSeen, AskedBefore, At
<1> QED BY <1>3, <1>4, <1>5 DEF FreezeSeen

LEMMA RaisesFrame ==
    ASSUME TypeInv, RaisesSeen, UNCHANGED <<now, raises, floor>>,
           \A d \in Requests : requests'[d].pc = "epoch?" => requests'[d] = requests[d]
    PROVE  RaisesSeen'
<1>1. (\A i \in DOMAIN raises : raises[i] <= now)' /\ (floor # Nil => KnewOf(floor.at, floor))'
    BY DEF RaisesSeen, KnewOf
<1>2. (\A c \in Requests : At(c, "epoch?") => KnewOf(requests[c].stamp, requests[c].answer))'
    BY DEF RaisesSeen, KnewOf, At
<1> QED BY <1>1, <1>2 DEF RaisesSeen

\* An answer kept for less than the cache's lifetime ignores a switch for less.
LEMMA IgnoredBriefly ==
    ASSUME TypeInv, SwitchesHold, NEW at \in Nat, NEW thrown \in Maybe(Nat), at <= now, thrown # Nil => at <= thrown,
           thrown # Nil => thrown <= now, now < at + CacheTicks, Ignores(thrown)
    PROVE  SwitchesHold'
<1>1. now \in Nat /\ ignored \in Nat /\ CacheTicks \in Nat /\ ignored < CacheTicks
    BY Constants DEF TypeInv, SwitchesHold
<1>2. CASE thrown = Nil
    BY <1>1, <1>2 DEF Ignores, SwitchesHold
<1>3. CASE thrown # Nil
    <2>1. thrown \in Nat /\ at <= thrown /\ thrown <= now
        BY <1>3 DEF Maybe
    <2>2. now - thrown < CacheTicks
        BY <1>1, <2>1
    <2> QED BY <1>1, <1>3, <2>1, <2>2 DEF Ignores, Larger, SwitchesHold
<1> QED BY <1>2, <1>3

\* What the steps that concern neither switch leave.
LEMMA OtherSwitch ==
    ASSUME TypeInv, NEW c \in Requests, Serve(c)
    PROVE  /\ UNCHANGED now /\ UNCHANGED frozen /\ UNCHANGED raises
           /\ ~KeepFreeze(c) => UNCHANGED engaged
           /\ ~KeepEpoch(c) => UNCHANGED floor
           /\ ~FreezeFromCache(c) /\ ~EpochFromCache(c) => UNCHANGED ignored
           /\ ~AskFreeze(c) =>
                \A d \in Requests : requests'[d].pc = "frozen?" => requests'[d] = requests[d]
           /\ ~AskEpoch(c) =>
                \A d \in Requests : requests'[d].pc = "epoch?" => requests'[d] = requests[d]
<1>1. UNCHANGED now /\ UNCHANGED frozen /\ UNCHANGED raises
    BY DEF Serve, ReadsAnyway, FreezeFromCache, AskFreeze, KeepFreeze, WithoutSession, EndSession, Resolve,
           Rotate, Logout, TakeTicket, Spend, RequireWork, RedeemWork, SpaceFromCache, AskSpace, KeepSpace,
           NoSpaceAnswer, HeadroomFromCache, AskCount, KeepCount, StoreBlob, EpochFromCache, AskEpoch,
           KeepEpoch, Mint, SpendToken, Answer, Refuse, Deliver, LoseReply, freeze, sealed
<1>2. ~KeepFreeze(c) => UNCHANGED engaged
    BY DEF Serve, ReadsAnyway, FreezeFromCache, AskFreeze, WithoutSession, EndSession, Resolve,
           Rotate, Logout, TakeTicket, Spend, RequireWork, RedeemWork, SpaceFromCache, AskSpace, KeepSpace,
           NoSpaceAnswer, HeadroomFromCache, AskCount, KeepCount, StoreBlob, EpochFromCache, AskEpoch,
           KeepEpoch, Mint, SpendToken, Answer, Refuse, Deliver, LoseReply, freeze
<1>3. ~KeepEpoch(c) => UNCHANGED floor
    BY DEF Serve, ReadsAnyway, FreezeFromCache, AskFreeze, KeepFreeze, WithoutSession, EndSession, Resolve,
           Rotate, Logout, TakeTicket, Spend, RequireWork, RedeemWork, SpaceFromCache, AskSpace, KeepSpace,
           NoSpaceAnswer, HeadroomFromCache, AskCount, KeepCount, StoreBlob, EpochFromCache, AskEpoch,
           Mint, SpendToken, Answer, Refuse, Deliver, LoseReply, sealed
<1>4. ~FreezeFromCache(c) /\ ~EpochFromCache(c) => UNCHANGED ignored
    BY DEF Serve, ReadsAnyway, AskFreeze, KeepFreeze, WithoutSession, EndSession, Resolve,
           Rotate, Logout, TakeTicket, Spend, RequireWork, RedeemWork, SpaceFromCache, AskSpace, KeepSpace,
           NoSpaceAnswer, HeadroomFromCache, AskCount, KeepCount, StoreBlob, AskEpoch,
           KeepEpoch, Mint, SpendToken, Answer, Refuse, Deliver, LoseReply, freeze
<1> QED BY <1>1, <1>2, <1>3, <1>4, WaitingIs

LEMMA FreezeServed ==
    ASSUME TypeInv, TypeInv', FreezeSeen, NEW c \in Requests, Serve(c)
    PROVE  FreezeSeen'
<1>1. CASE ~AskFreeze(c) /\ ~KeepFreeze(c)
    BY <1>1, OtherSwitch, FreezeFrame
<1>2. CASE AskFreeze(c)
    <2>1. UNCHANGED <<now, frozen, engaged>>
        BY <1>2, OtherSwitch DEF AskFreeze, freeze
    <2>2. requests[c] \in Busy /\ requests \in [Requests -> Slots] /\ now \in Nat
        BY <1>2, BusyIs DEF AskFreeze, At, Pcs, Plain, TypeInv
    <2>3. requests' = [requests EXCEPT ![c] = [requests[c] EXCEPT !.pc = "frozen?", !.stamp = now,
                                                                 !.answer = [on |-> frozen # Nil]]]
        BY <1>2, <2>2 DEF AskFreeze, Ask
    <2>4. requests'[c].stamp = now /\ requests'[c].answer = [on |-> frozen # Nil]
        BY <2>2, <2>3 DEF Busy
    <2>5. \A d \in Requests : d # c => requests'[d] = requests[d]
        BY <1>2, WaitingIs
    <2>6. (~requests[c].answer.on => AskedBefore(requests[c].stamp, frozen))'
        <3>1. frozen # Nil => requests'[c].answer.on
            <4> DEFINE yes == frozen # Nil
            <4>1. requests'[c].answer = [on |-> yes]
                BY <2>4
            <4> HIDE DEF yes
            <4>2. requests'[c].answer.on = yes
                BY <4>1
            <4> QED BY <4>2 DEF yes
        <3>2. ASSUME frozen' = Nil PROVE AskedBefore(requests[c].stamp, frozen)'
            BY <2>1, <2>2, <2>4, <3>2 DEF AskedBefore
        <3> QED BY <2>1, <3>1, <3>2
    <2>7. (\A d \in Requests : At(d, "frozen?") /\ ~requests[d].answer.on =>
               AskedBefore(requests[d].stamp, frozen))'
        BY <2>1, <2>5, <2>6 DEF FreezeSeen, AskedBefore, At
    <2> QED BY <2>1, <2>7 DEF FreezeSeen, AskedBefore
<1>3. CASE KeepFreeze(c)
    <2>1. UNCHANGED <<now, frozen>> /\ ~AskFreeze(c)
        BY <1>3, OtherSwitch DEF KeepFreeze, AskFreeze, At
    <2>2. \A d \in Requests : requests'[d].pc = "frozen?" => requests'[d] = requests[d]
        BY <2>1, OtherSwitch
    <2>3. /\ engaged' = [at |-> requests[c].stamp, on |-> requests[c].answer.on]
          /\ requests[c].stamp \in Nat /\ requests[c].stamp <= now
        BY <1>3, BusyIs DEF KeepFreeze, At, Pcs, Busy, InTime
    <2>4. ~requests[c].answer.on => AskedBefore(requests[c].stamp, frozen)
        BY <1>3 DEF FreezeSeen, KeepFreeze
    <2>5. (engaged # Nil => engaged.at <= now /\ (~engaged.on => AskedBefore(engaged.at, frozen)))'
        BY <2>1, <2>3, <2>4 DEF AskedBefore
    <2>6. (\A d \in Requests : At(d, "frozen?") /\ ~requests[d].answer.on =>
               AskedBefore(requests[d].stamp, frozen))'
        BY <2>1, <2>2 DEF FreezeSeen, AskedBefore, At
    <2> QED BY <2>1, <2>5, <2>6 DEF FreezeSeen
<1> QED BY <1>1, <1>2, <1>3

LEMMA RaisesServed ==
    ASSUME TypeInv, TypeInv', RaisesSeen, NEW c \in Requests, Serve(c)
    PROVE  RaisesSeen'
<1>1. CASE ~AskEpoch(c) /\ ~KeepEpoch(c)
    BY <1>1, OtherSwitch, RaisesFrame
<1>2. CASE AskEpoch(c)
    <2>1. UNCHANGED <<now, raises, floor>>
        BY <1>2, OtherSwitch DEF AskEpoch, sealed
    <2>2. /\ requests[c] \in Busy /\ requests \in [Requests -> Slots] /\ now \in Nat
          /\ raises \in Seq(Nat)
        BY <1>2, BusyIs DEF AskEpoch, NeedsEpoch, At, Pcs, Plain, TypeInv
    <2>0. PICK a : Ask(c, "epoch?", a) /\ (a.read => a.min = Len(raises))
        BY <1>2 DEF AskEpoch, MinEpoch
    <2>3. requests' = [requests EXCEPT ![c] = [requests[c] EXCEPT !.pc = "epoch?", !.stamp = now, !.answer = a]]
        BY <2>0, <2>2 DEF Ask
    <2>4. requests'[c].stamp = now /\ requests'[c].answer = a
        BY <2>2, <2>3 DEF Busy
    <2>5. \A d \in Requests : d # c => requests'[d] = requests[d]
        BY <1>2, WaitingIs
    <2>6. KnewOf(requests[c].stamp, requests[c].answer)'
        BY <2>0, <2>1, <2>2, <2>4 DEF KnewOf
    <2>7. (\A d \in Requests : At(d, "epoch?") => KnewOf(requests[d].stamp, requests[d].answer))'
        BY <2>1, <2>5, <2>6 DEF RaisesSeen, KnewOf, At
    <2> QED BY <2>1, <2>7 DEF RaisesSeen, KnewOf
<1>3. CASE KeepEpoch(c)
    <2>1. UNCHANGED <<now, raises>> /\ ~AskEpoch(c)
        BY <1>3, OtherSwitch DEF KeepEpoch, AskEpoch, NeedsEpoch, At
    <2>2. \A d \in Requests : requests'[d].pc = "epoch?" => requests'[d] = requests[d]
        BY <2>1, OtherSwitch
    <2>3. floor' = [at |-> requests[c].stamp, min |-> requests[c].answer.min, read |-> requests[c].answer.read]
        BY <1>3 DEF KeepEpoch
    <2>4. KnewOf(requests[c].stamp, requests[c].answer)
        BY <1>3 DEF RaisesSeen, KeepEpoch
    <2>5. (floor # Nil => KnewOf(floor.at, floor))'
        BY <2>1, <2>3, <2>4 DEF KnewOf
    <2>6. (\A d \in Requests : At(d, "epoch?") => KnewOf(requests[d].stamp, requests[d].answer))'
        BY <2>1, <2>2 DEF RaisesSeen, KnewOf, At
    <2> QED BY <2>1, <2>5, <2>6 DEF RaisesSeen
<1> QED BY <1>1, <1>2, <1>3

LEMMA IgnoredServed ==
    ASSUME TypeInv, TypeInv', SwitchInv, NEW c \in Requests, Serve(c)
    PROVE  SwitchesHold'
<1>1. CASE FreezeFromCache(c)
    <2>1. /\ engaged \in [at : Nat, on : BOOLEAN] /\ now < engaged.at + CacheTicks /\ ~engaged.on
          /\ Ignores(frozen) /\ engaged # Nil /\ frozen \in Maybe(Nat)
        BY <1>1 DEF FreezeFromCache, Fresh, TypeInv, Maybe
    <2>2. /\ engaged.at \in Nat /\ engaged.at <= now /\ (frozen # Nil => engaged.at <= frozen)
          /\ (frozen # Nil => frozen <= now)
        BY <2>1 DEF SwitchInv, FreezeSeen, AskedBefore
    <2> QED BY <2>1, <2>2, IgnoredBriefly DEF SwitchInv
<1>2. CASE EpochFromCache(c)
    <2> DEFINE t == requests[c].token
    <2>1. /\ floor \in [at : Nat, min : Nat, read : BOOLEAN] /\ now < floor.at + CacheTicks /\ floor # Nil
          /\ Ignores(RevokedAt(t)) /\ raises \in Seq(Nat)
        BY <1>2 DEF EpochFromCache, Fresh, TypeInv, Maybe
    <2>2. t \in Maybe(Token)
        BY <1>2, BusyIs DEF EpochFromCache, NeedsEpoch, At, Pcs, Plain, Busy
    <2>3. KnewOf(floor.at, floor)
        BY <2>1 DEF SwitchInv, RaisesSeen
    <2> HIDE DEF t
    <2>4. /\ RevokedAt(t) \in Maybe(Nat)
          /\ RevokedAt(t) # Nil => floor.at <= RevokedAt(t) /\ RevokedAt(t) <= now
        <3>1. CASE t = Nil \/ ~(floor.min <= t.epoch /\ t.epoch < Len(raises))
            BY <3>1 DEF RevokedAt, Maybe, MinEpoch
        <3>2. CASE t \in Token /\ floor.min <= t.epoch /\ t.epoch < Len(raises) /\ t # Nil
            <4>1. /\ t.epoch + 1 \in DOMAIN raises /\ t.epoch + 1 > floor.min
                  /\ raises[t.epoch + 1] \in Nat
                BY <2>1, <3>2 DEF Token
            <4>2. raises[t.epoch + 1] <= now /\ floor.at <= now /\ floor.at \in Nat /\ now \in Nat
                BY <2>1, <2>3, <4>1 DEF KnewOf, SwitchInv, RaisesSeen, TypeInv
            <4>3. CASE floor.read
                <5>1. RevokedAt(t) = raises[t.epoch + 1] /\ floor.at <= raises[t.epoch + 1]
                    BY <2>3, <3>2, <4>1, <4>3 DEF RevokedAt, MinEpoch, KnewOf
                <5> QED BY <4>1, <4>2, <5>1 DEF Maybe
            <4>4. CASE ~floor.read
                <5>1. RevokedAt(t) = Larger(raises[t.epoch + 1], floor.at)
                    BY <3>2, <4>4 DEF RevokedAt, MinEpoch
                <5> QED BY <4>1, <4>2, <5>1 DEF Larger, Maybe
            <4> QED BY <4>3, <4>4
        <3> QED BY <2>2, <3>1, <3>2 DEF Maybe
    <2>5. floor.at \in Nat /\ floor.at <= now
        BY <2>1, <2>3 DEF KnewOf
    <2> DEFINE thrown == RevokedAt(t)
    <2>6. /\ thrown \in Maybe(Nat) /\ (thrown # Nil => floor.at <= thrown)
          /\ (thrown # Nil => thrown <= now) /\ Ignores(thrown)
        BY <2>1, <2>4
    <2> HIDE DEF thrown
    <2> QED BY <2>1, <2>5, <2>6, IgnoredBriefly DEF SwitchInv
<1>3. CASE ~FreezeFromCache(c) /\ ~EpochFromCache(c)
    BY <1>3, OtherSwitch DEF SwitchInv, SwitchesHold
<1> QED BY <1>1, <1>2, <1>3

LEMMA FreezeLater ==
    ASSUME TypeInv, FreezeSeen, now' = now + 1, UNCHANGED <<frozen, engaged, requests>>
    PROVE  FreezeSeen'
<1>1. now \in Nat /\ (frozen # Nil => frozen \in Nat) /\ (engaged # Nil => engaged.at \in Nat)
    BY DEF TypeInv, Maybe
<1>2. (frozen # Nil => frozen <= now)'
    BY <1>1 DEF FreezeSeen
<1>3. (engaged # Nil => engaged.at <= now /\ (~engaged.on => AskedBefore(engaged.at, frozen)))'
    BY <1>1 DEF FreezeSeen, AskedBefore
<1>4. ASSUME NEW c \in Requests, At(c, "frozen?")', ~requests'[c].answer.on
      PROVE  AskedBefore(requests[c].stamp, frozen)'
    <2>1. AskedBefore(requests[c].stamp, frozen) /\ requests[c].stamp \in Nat
        BY <1>4, BusyIs DEF FreezeSeen, At, Pcs, Busy
    <2> QED BY <1>1, <2>1 DEF AskedBefore
<1> QED BY <1>2, <1>3, <1>4 DEF FreezeSeen

LEMMA RaisesLater ==
    ASSUME TypeInv, RaisesSeen, now' = now + 1, UNCHANGED <<raises, floor, requests>>
    PROVE  RaisesSeen'
<1>1. now \in Nat /\ raises \in Seq(Nat) /\ (floor # Nil => floor.at \in Nat)
    BY DEF TypeInv, Maybe
<1>2. \A i \in DOMAIN raises : raises[i] \in Nat
    BY <1>1
<1>3. (\A i \in DOMAIN raises : raises[i] <= now)'
    BY <1>1, <1>2 DEF RaisesSeen
<1>4. (floor # Nil => KnewOf(floor.at, floor))'
    BY <1>1 DEF RaisesSeen, KnewOf
<1>5. ASSUME NEW c \in Requests, At(c, "epoch?")'
      PROVE  KnewOf(requests[c].stamp, requests[c].answer)'
    <2>1. KnewOf(requests[c].stamp, requests[c].answer) /\ requests[c].stamp \in Nat
        BY <1>5, BusyIs DEF RaisesSeen, At, Pcs, Busy
    <2> QED BY <1>1, <2>1 DEF KnewOf
<1> QED BY <1>3, <1>4, <1>5 DEF RaisesSeen

LEMMA ThrownNow ==
    ASSUME TypeInv, FreezeSeen, UNCHANGED <<now, engaged, requests>>, frozen' = now
    PROVE  FreezeSeen'
<1>1. now \in Nat
    BY DEF TypeInv
<1> QED BY <1>1 DEF FreezeSeen, AskedBefore, At

LEMMA RaisedNow ==
    ASSUME TypeInv, RaisesSeen, UNCHANGED <<now, floor, requests>>, raises' = Append(raises, now)
    PROVE  RaisesSeen'
<1>1. now \in Nat /\ raises \in Seq(Nat)
    BY DEF TypeInv
<1>2. \A i \in DOMAIN raises' : (i \in DOMAIN raises /\ raises'[i] = raises[i]) \/ raises'[i] = now
    BY <1>1
<1>3. (\A i \in DOMAIN raises : raises[i] <= now)'
    BY <1>1, <1>2 DEF RaisesSeen
<1>4. \A at, kept : KnewOf(at, kept) => KnewOf(at, kept)'
    BY <1>2 DEF KnewOf
<1>5. (floor # Nil => KnewOf(floor.at, floor))'
    BY <1>4 DEF RaisesSeen, KnewOf
<1>6. (\A c \in Requests : At(c, "epoch?") => KnewOf(requests[c].stamp, requests[c].answer))'
    BY <1>4 DEF RaisesSeen, At, KnewOf
<1> QED BY <1>3, <1>5, <1>6 DEF RaisesSeen

LEMMA SentIs ==
    ASSUME TypeInv, NEW c \in Requests, NEW route, NEW proof, NEW token, Send(c, route, proof, token)
    PROVE  /\ requests[c] = Unused
           /\ requests'[c].pc = "sent" /\ \A d \in Requests : d # c => requests'[d] = requests[d]
<1> DEFINE r == Request(route, IF route \in {"send", "enter"} THEN Nil ELSE jar, proof, token)
<1>1. Moved(c, r) /\ r.pc = "sent"
    BY DEF Send, Moved, Request
<1> HIDE DEF r
<1>2. requests[c] = Unused
    BY SlotsBefore DEF Send, At, Slots, Busy, Leaving, Pcs, Plain
<1> QED BY <1>1, <1>2, MovedIs

LEMMA SwitchStep == TypeInv /\ TypeInv' /\ SwitchInv /\ [GateNext]_gateVars => SwitchInv'
<1> SUFFICES ASSUME TypeInv, TypeInv', SwitchInv, [GateNext]_gateVars PROVE SwitchInv'
    OBVIOUS
<1>1. ASSUME NEW c \in Requests, Serve(c) PROVE SwitchInv'
    BY <1>1, FreezeServed, RaisesServed, IgnoredServed DEF SwitchInv
<1>2. ASSUME NEW c \in Requests, NEW route \in traffic.routes, NEW proof \in (0..now) \cup {Nil},
             NEW token \in tokens \cup {Nil}, Send(c, route, proof, token)
      PROVE  SwitchInv'
    <2>1. UNCHANGED <<now, frozen, engaged, ignored, raises, floor>>
        BY <1>2 DEF Send, freeze, sealed
    <2>2. /\ \A d \in Requests : requests'[d].pc = "frozen?" => requests'[d] = requests[d]
          /\ \A d \in Requests : requests'[d].pc = "epoch?" => requests'[d] = requests[d]
        BY <1>2, SentIs
    <2> QED BY <2>1, <2>2, FreezeFrame, RaisesFrame DEF SwitchInv, SwitchesHold
<1>3. CASE \/ SignIn \/ Thaw \/ DiskChanges \/ Housekeeping \/ UNCHANGED gateVars
    <2>1. /\ UNCHANGED <<now, engaged, ignored, raises, floor, requests>> /\ frozen' \in {frozen, Nil}
        BY <1>3 DEF SignIn, Thaw, DiskChanges, Housekeeping, PruneSessions, PruneRateLimits, PruneBlobs,
                    PruneSendTokens, gateVars, freeze, sealed
    <2> QED BY <2>1, FreezeFrame, RaisesFrame DEF SwitchInv, SwitchesHold
<1>4. CASE Freeze
    <2>1. UNCHANGED <<now, engaged, ignored, raises, floor, requests>> /\ frozen' = now
        BY <1>4 DEF Freeze, sealed
    <2> QED BY <2>1, ThrownNow, RaisesFrame DEF SwitchInv, SwitchesHold
<1>5. CASE RevokeSendTokens
    <2>1. UNCHANGED <<now, frozen, engaged, ignored, floor, requests>> /\ raises' = Append(raises, now)
        BY <1>5 DEF RevokeSendTokens, freeze
    <2> QED BY <2>1, FreezeFrame, RaisedNow DEF SwitchInv, SwitchesHold
<1>6. CASE Tick
    <2>1. now' = now + 1 /\ UNCHANGED <<frozen, engaged, ignored, raises, floor, requests>>
        BY <1>6 DEF Tick, freeze, sealed
    <2> QED BY <2>1, FreezeLater, RaisesLater DEF SwitchInv, SwitchesHold
<1> QED BY <1>1, <1>2, <1>3, <1>4, <1>5, <1>6 DEF GateNext

\* A freeze, or an epoch of send tokens revoked, is ignored for less than the
\* time an answer is kept, whichever questions were under way when it came.
THEOREM SwitchesTakeEffect == GateSpec => []SwitchesHold
<1>1. GateInit => SwitchInv
    BY Constants DEF GateInit, SwitchInv, FreezeSeen, RaisesSeen, SwitchesHold, At, Unused
<1>2. SwitchInv => SwitchesHold
    BY DEF SwitchInv
<1> QED BY <1>1, <1>2, InitType, StepType, SwitchStep, PTL DEF GateSpec

-----------------------------------------------------------------------------
(* The rate limits *)

\* What a bucket still holds was not yet spent.
Balanced(b, s) ==
    /\ s.from <= s.till /\ b.updated_at <= s.till
    /\ b.tokens + s.total + PerTick * s.from <= Burst + PerTick * b.updated_at

\* A bucket that was dropped is full again for every request still under way.
Dropped(s) ==
    /\ s.from <= s.till
    /\ s.total + PerTick * s.from <= Burst + PerTick * s.till
    /\ \A t \in Nat : t + Patience >= now => s.total + PerTick * s.from <= PerTick * t

BucketInv ==
    /\ DOMAIN buckets \subseteq DOMAIN spent
    /\ \A k \in DOMAIN buckets : Balanced(buckets[k], spent[k])
    /\ \A k \in DOMAIN spent : k \notin DOMAIN buckets => Dropped(spent[k])

LEMMA Refill ==
    ASSUME NEW a \in Nat, NEW b \in Nat, a <= b
    PROVE  /\ PerTick * a \in Nat /\ PerTick * b \in Nat /\ PerTick * a <= PerTick * b
           /\ PerTick * (b - a) = PerTick * b - PerTick * a
<1>1. PerTick \in Nat
    BY Constants
<1>2. PICK d \in Nat : b = a + d
    <2>1. b - a \in Nat /\ b = a + (b - a)
        OBVIOUS
    <2> QED BY <2>1
<1>3. PerTick * (a + d) = PerTick * a + PerTick * d /\ PerTick * a \in Nat /\ PerTick * d \in Nat
    BY <1>1
<1>4. b - a = d
    BY <1>2
<1> QED BY <1>2, <1>3, <1>4

\* What the later of two charges leaves, whichever was recorded first.
Longer(s, cost, t) ==
    [total |-> s.total + cost, from |-> s.from, till |-> IF t > s.till THEN t ELSE s.till]

LEMMA ChargeBalances ==
    ASSUME NEW b \in [tokens : Nat, updated_at : Nat], NEW s \in [total : Nat, from : Nat, till : Nat],
           NEW t \in Nat, NEW cost \in Nat, cost > 0, Balanced(b, s), Level(b, t) >= cost
    PROVE  Balanced(Charged(b, cost, t), Longer(s, cost, t))
<1> DEFINE pf == PerTick * s.from
           pt == PerTick * t
           pu == PerTick * b.updated_at
<1>1. pf \in Nat /\ pt \in Nat /\ pu \in Nat /\ Burst \in Nat
    BY Constants
<1>2. b.tokens + s.total + pf <= Burst + pu /\ s.from <= s.till
    BY DEF Balanced
<1>3. /\ Level(b, t) = IF b.tokens + pt > Burst + pu THEN Burst
                       ELSE IF b.tokens + pt >= pu THEN b.tokens + pt - pu ELSE 0
    BY <1>1 DEF Level
<1> DEFINE level == Level(b, t)
           later == IF t > s.till THEN t ELSE s.till
<1> HIDE DEF pf, pt, pu, level
<1>4. level \in Nat /\ level >= cost /\ level + s.total + pf <= Burst + pt
    <2>1. CASE b.tokens + pt > Burst + pu
        BY <1>1, <1>2, <1>3, <2>1 DEF level
    <2>2. CASE ~(b.tokens + pt > Burst + pu) /\ b.tokens + pt >= pu
        BY <1>1, <1>2, <1>3, <2>2 DEF level
    <2>3. CASE ~(b.tokens + pt > Burst + pu) /\ ~(b.tokens + pt >= pu)
        BY <1>3, <2>3 DEF level
    <2> QED BY <2>1, <2>2, <2>3
<1>5. (level - cost) + (s.total + cost) + pf <= Burst + pt
    BY <1>1, <1>4
<1>6. t <= later /\ s.from <= later
    BY <1>2
<1> HIDE DEF later
<1>7. /\ Charged(b, cost, t).tokens = level - cost /\ Charged(b, cost, t).updated_at = t
      /\ Longer(s, cost, t).total = s.total + cost /\ Longer(s, cost, t).from = s.from
      /\ Longer(s, cost, t).till = later
    BY DEF Charged, Longer, level, later
<1> QED BY <1>5, <1>6, <1>7 DEF Balanced, pf, pt

\* A bucket that had been dropped starts full again.
LEMMA RefillBalances ==
    ASSUME NEW s \in [total : Nat, from : Nat, till : Nat], NEW t \in Nat, NEW cost \in Nat, cost > 0,
           s.from <= s.till, s.total + PerTick * s.from <= PerTick * t,
           Level([tokens |-> Burst, updated_at |-> t], t) >= cost
    PROVE  Balanced(Charged([tokens |-> Burst, updated_at |-> t], cost, t), Longer(s, cost, t))
<1> DEFINE pf == PerTick * s.from
           pt == PerTick * t
           later == IF t > s.till THEN t ELSE s.till
           b == [tokens |-> Burst, updated_at |-> t]
<1>1. pf \in Nat /\ pt \in Nat /\ Burst \in Nat
    BY Constants
<1>2. s.total + pf <= pt
    OBVIOUS
<1>3. /\ Level(b, t) = IF Burst + pt > Burst + pt THEN Burst
                       ELSE IF Burst + pt >= pt THEN Burst + pt - pt ELSE 0
    BY <1>1 DEF Level
<1> HIDE DEF pf, pt
<1>4. Level(b, t) = Burst
    BY <1>1, <1>3
<1>5. (Burst - cost) + (s.total + cost) + pf <= Burst + pt
    BY <1>1, <1>2
<1>6. t <= later /\ s.from <= later
    OBVIOUS
<1> HIDE DEF later
<1>7. /\ Charged(b, cost, t).tokens = Burst - cost /\ Charged(b, cost, t).updated_at = t
      /\ Longer(s, cost, t).total = s.total + cost /\ Longer(s, cost, t).from = s.from
      /\ Longer(s, cost, t).till = later
    BY <1>4 DEF Charged, Longer, later
<1> QED BY <1>5, <1>6, <1>7 DEF Balanced, pf, pt

\* A day without a charge fills a bucket, whatever is still under way.
LEMMA DropBalances ==
    ASSUME TypeInv, NEW b \in [tokens : Nat, updated_at : Nat],
           NEW s \in [total : Nat, from : Nat, till : Nat], Balanced(b, s), b.updated_at + DayTicks < now
    PROVE  Dropped(s)
<1> DEFINE pf == PerTick * s.from
           pu == PerTick * b.updated_at
           d == DayTicks + 1 - Patience
<1>1. /\ pf \in Nat /\ pu \in Nat /\ Burst \in Nat /\ now \in Nat /\ d \in Nat
      /\ DayTicks \in Nat /\ Patience \in Nat /\ Patience <= DayTicks /\ PerTick \in Nat
    <2>1. /\ Burst \in Nat /\ DayTicks \in Nat /\ Patience \in Nat /\ Patience <= DayTicks
          /\ PerTick \in Nat
        BY Constants
    <2>2. now \in Nat
        BY DEF TypeInv
    <2>3. pf \in Nat /\ pu \in Nat
        BY <2>1
    <2>4. d \in Nat
        BY <2>1
    <2> QED BY <2>1, <2>2, <2>3, <2>4
<1>2. b.tokens + s.total + pf <= Burst + pu
    BY DEF Balanced
<1>3. Burst <= PerTick * d
    BY BucketAssumption
<1>4. pu <= PerTick * s.till /\ PerTick * s.till \in Nat
    BY Refill DEF Balanced
<1> HIDE DEF pf
<1>5. s.total + pf <= Burst + pu
    BY <1>1, <1>2
<1>6. s.total + pf <= Burst + PerTick * s.till
    BY <1>1, <1>4, <1>5
<1>7. ASSUME NEW t \in Nat, t + Patience >= now PROVE s.total + pf <= PerTick * t
    <2>1. b.updated_at + d <= t
        BY <1>1, <1>7
    <2> HIDE DEF d
    <2>2. PerTick * (b.updated_at + d) <= PerTick * t /\ PerTick * t \in Nat
        BY <1>1, <2>1, Refill
    <2>3. PerTick * (b.updated_at + d) = pu + PerTick * d /\ PerTick * d \in Nat
        BY <1>1
    <2> HIDE DEF pu
    <2> QED BY <1>1, <1>3, <1>5, <2>2, <2>3
<1> QED BY <1>6, <1>7 DEF Dropped, Balanced, pf

LEMMA BucketSpend ==
    ASSUME TypeInv, BucketInv, NEW c \in Requests, Spend(c)
    PROVE  BucketInv'
<1> DEFINE r == requests[c]
           key == <<r.route, Day(r.stamp)>>
           t == r.stamp
           cost == Cost(r.route)
           bucket == IF key \in DOMAIN buckets THEN buckets[key] ELSE [tokens |-> Burst, updated_at |-> t]
           so_far == IF key \in DOMAIN spent THEN spent[key] ELSE [total |-> 0, from |-> t, till |-> t]
           charged == Charged(bucket, cost, t)
           more == Longer(so_far, cost, t)
<1>1. /\ t \in Nat /\ t + Patience >= now /\ cost \in Nat /\ cost > 0 /\ UNCHANGED now
    <2>1. r \in Busy /\ InTime(r, now)
        BY BusyIs DEF Spend, At, Pcs, Plain
    <2>2. r.began \in Nat /\ r.stamp \in Nat /\ r.began <= r.stamp /\ now <= r.began + Patience
        BY <2>1 DEF Busy, InTime
    <2>3. Patience \in Nat /\ now \in Nat /\ UNCHANGED now
        BY Constants DEF TypeInv, Spend
    <2>4. cost \in Nat /\ cost > 0
        BY Constants DEF Cost
    <2> HIDE DEF r, cost
    <2> QED BY <2>2, <2>3, <2>4
<1>2. /\ Level(bucket, t) >= cost
      /\ buckets' = [k \in DOMAIN buckets \cup {key} |-> IF k = key THEN charged ELSE buckets[k]]
      /\ spent' = [k \in DOMAIN spent \cup {key} |-> IF k # key THEN spent[k] ELSE more]
    BY DEF Spend, Longer
<1>3. Balanced(charged, more)
    <2>1. CASE key \in DOMAIN buckets
        <3>1. /\ bucket = buckets[key] /\ so_far = spent[key] /\ Balanced(bucket, so_far)
              /\ bucket \in [tokens : Nat, updated_at : Nat]
              /\ so_far \in [total : Nat, from : Nat, till : Nat]
            BY <2>1 DEF BucketInv, TypeInv
        <3> HIDE DEF bucket, so_far, cost, t
        <3> QED BY <1>1, <1>2, <3>1, ChargeBalances
    <2>2. CASE key \notin DOMAIN buckets
        <3>1. bucket = [tokens |-> Burst, updated_at |-> t]
            BY <2>2
        <3>2. /\ so_far \in [total : Nat, from : Nat, till : Nat]
              /\ so_far.from <= so_far.till /\ so_far.total + PerTick * so_far.from <= PerTick * t
            <4>1. CASE key \in DOMAIN spent
                <5>1. so_far = spent[key] /\ Dropped(so_far) /\ so_far \in [total : Nat, from : Nat, till : Nat]
                    BY <2>2, <4>1 DEF BucketInv, TypeInv
                <5> HIDE DEF so_far, t
                <5> QED BY <1>1, <5>1 DEF Dropped
            <4>2. CASE key \notin DOMAIN spent
                <5>1. so_far = [total |-> 0, from |-> t, till |-> t]
                    BY <4>2
                <5> HIDE DEF so_far, t
                <5>2. PerTick * t \in Nat
                    BY <1>1, Constants
                <5> QED BY <1>1, <5>1, <5>2
            <4> QED BY <4>1, <4>2
        <3> HIDE DEF so_far, cost, t, bucket
        <3> QED BY <1>1, <1>2, <3>1, <3>2, RefillBalances
    <2> QED BY <2>1, <2>2
<1> HIDE DEF key, charged, more
<1>4. /\ DOMAIN buckets' = DOMAIN buckets \cup {key} /\ DOMAIN spent' = DOMAIN spent \cup {key}
      /\ buckets'[key] = charged /\ spent'[key] = more
      /\ \A k \in DOMAIN buckets : k # key => buckets'[k] = buckets[k]
      /\ \A k \in DOMAIN spent : k # key => spent'[k] = spent[k]
    BY <1>2
<1>5. (DOMAIN buckets \subseteq DOMAIN spent)'
    BY <1>4 DEF BucketInv
<1>6. ASSUME NEW k \in DOMAIN buckets' PROVE Balanced(buckets[k], spent[k])'
    <2>1. CASE k = key
        BY <1>3, <1>4, <2>1 DEF Balanced
    <2>2. CASE k # key
        BY <1>4, <2>2 DEF BucketInv, Balanced
    <2> QED BY <2>1, <2>2
<1>7. ASSUME NEW k \in DOMAIN spent', k \notin DOMAIN buckets' PROVE Dropped(spent[k])'
    <2>1. k # key /\ Dropped(spent[k]) /\ spent'[k] = spent[k]
        BY <1>4, <1>7 DEF BucketInv
    <2> QED BY <1>1, <2>1 DEF Dropped
<1> QED BY <1>5, <1>6, <1>7 DEF BucketInv

LEMMA BucketPrune == ASSUME TypeInv, BucketInv, PruneRateLimits PROVE BucketInv'
<1> DEFINE old == {k \in DOMAIN buckets : buckets[k].updated_at + DayTicks < now}
<1>1. buckets' = [k \in DOMAIN buckets \ old |-> buckets[k]] /\ UNCHANGED <<now, spent>>
    BY DEF PruneRateLimits
<1>2. (DOMAIN buckets \subseteq DOMAIN spent)'
    BY <1>1 DEF BucketInv
<1>3. ASSUME NEW k \in DOMAIN buckets' PROVE Balanced(buckets[k], spent[k])'
    BY <1>1, <1>3 DEF BucketInv, Balanced
<1>4. ASSUME NEW k \in DOMAIN spent', k \notin DOMAIN buckets' PROVE Dropped(spent[k])'
    <2>1. CASE k \in DOMAIN buckets
        <3>1. buckets[k].updated_at + DayTicks < now /\ Balanced(buckets[k], spent[k])
            BY <1>1, <1>4, <2>1 DEF BucketInv
        <3>2. buckets[k] \in [tokens : Nat, updated_at : Nat] /\ spent[k] \in [total : Nat, from : Nat, till : Nat]
            BY <1>1, <1>4, <2>1 DEF TypeInv
        <3>3. Dropped(spent[k])
            BY <3>1, <3>2, DropBalances
        <3> QED BY <1>1, <3>3 DEF Dropped
    <2>2. CASE k \notin DOMAIN buckets
        BY <1>1, <1>4, <2>2 DEF BucketInv, Dropped
    <2> QED BY <2>1, <2>2
<1> QED BY <1>2, <1>3, <1>4 DEF BucketInv

LEMMA BucketFrame ==
    ASSUME TypeInv, BucketInv, UNCHANGED <<buckets, spent>>, now' \in {now, now + 1}
    PROVE  BucketInv'
<1>1. \A t \in Nat : t + Patience >= now' => t + Patience >= now
    BY Constants DEF TypeInv
<1>2. \A s : Dropped(s) => Dropped(s)'
    BY <1>1 DEF Dropped
<1>3. (\A k \in DOMAIN spent : k \notin DOMAIN buckets => Dropped(spent[k]))'
    BY <1>2 DEF BucketInv, Dropped
<1>4. (\A k \in DOMAIN buckets : Balanced(buckets[k], spent[k]))'
    BY DEF BucketInv, Balanced
<1> QED BY <1>3, <1>4 DEF BucketInv

LEMMA BucketStep == TypeInv /\ BucketInv /\ [GateNext]_gateVars => BucketInv'
<1> SUFFICES ASSUME TypeInv, BucketInv, [GateNext]_gateVars PROVE BucketInv'
    OBVIOUS
<1>1. ASSUME NEW c \in Requests, Serve(c) PROVE BucketInv'
    <2>1. CASE ~Spend(c)
        <3>1. UNCHANGED <<now, buckets, spent>>
            BY <1>1, <2>1
            DEF Serve, ReadsAnyway, FreezeFromCache, AskFreeze, KeepFreeze, WithoutSession, EndSession, Resolve,
                Rotate, Logout, TakeTicket, RequireWork, RedeemWork, SpaceFromCache, AskSpace, KeepSpace,
                NoSpaceAnswer, HeadroomFromCache, AskCount, KeepCount, StoreBlob, EpochFromCache, AskEpoch,
                KeepEpoch, Mint, SpendToken, Answer, Refuse, Deliver, LoseReply, limits
        <3> QED BY <3>1, BucketFrame
    <2> QED BY <2>1, BucketSpend
<1>2. CASE ~(\E c \in Requests : Serve(c)) /\ ~PruneRateLimits
    <2>1. UNCHANGED <<buckets, spent>> /\ now' \in {now, now + 1}
        BY <1>2 DEF GateNext, Send, SignIn, Freeze, Thaw, RevokeSendTokens, DiskChanges, Housekeeping,
                    PruneSessions, PruneBlobs, PruneSendTokens, Tick, gateVars, limits
    <2> QED BY <2>1, BucketFrame
<1> QED BY <1>1, <1>2, BucketPrune DEF GateNext

LEMMA BucketsBound ==
    ASSUME TypeInv, BucketInv, NEW k \in DOMAIN spent
    PROVE  spent[k].total <= Burst + PerTick * (spent[k].till - spent[k].from)
<1> DEFINE s == spent[k]
           pf == PerTick * s.from
           pt == PerTick * s.till
<1>1. s \in [total : Nat, from : Nat, till : Nat] /\ Burst \in Nat
    BY Constants DEF TypeInv
<1>2. s.from <= s.till
    BY DEF BucketInv, Balanced, Dropped
<1>3. pf \in Nat /\ pt \in Nat /\ PerTick * (s.till - s.from) = pt - pf
    BY <1>1, <1>2, Refill
<1>4. s.total + pf <= Burst + pt
    <2>1. CASE k \in DOMAIN buckets
        <3> DEFINE b == buckets[k]
                   pu == PerTick * b.updated_at
        <3>1. /\ b \in [tokens : Nat, updated_at : Nat] /\ b.updated_at <= s.till
              /\ b.tokens + s.total + pf <= Burst + pu
            BY <2>1 DEF BucketInv, Balanced, TypeInv
        <3>2. pu \in Nat /\ pu <= pt
            BY <1>1, <3>1, Refill
        <3> HIDE DEF pu, pf, pt, b, s
        <3> QED BY <1>1, <1>3, <3>1, <3>2
    <2>2. CASE k \notin DOMAIN buckets
        BY <2>2 DEF BucketInv, Dropped
    <2> QED BY <2>1, <2>2
<1> HIDE DEF s, pf, pt
<1> QED BY <1>1, <1>3, <1>4 DEF s

-----------------------------------------------------------------------------
(* Proof of work *)

\* A challenge that was accepted has its receipt for as long as it is valid.
WorkInv ==
    \A p \in DOMAIN redeemed :
        redeemed[p] <= 1 /\ (redeemed[p] = 1 => p \in proofs \/ p + PowTicks < now)

LEMMA WorkRequired == ASSUME TypeInv, WorkInv, NEW c \in Requests, RequireWork(c) PROVE WorkInv'
<1>1. UNCHANGED <<now, redeemed>> /\ proofs' = {p \in proofs : p + PowTicks >= now}
    BY DEF RequireWork, Receipts
<1>2. now \in Nat /\ PowTicks \in Nat /\ redeemed \in [0..MaxTime -> Nat] /\ MaxTime \in Nat
    BY Constants DEF TypeInv
<1>3. ASSUME NEW p \in DOMAIN redeemed, redeemed[p] = 1 PROVE p \in proofs' \/ p + PowTicks < now
    <2>1. p \in Nat
        BY <1>2, <1>3
    <2>2. p \in proofs \/ p + PowTicks < now
        BY <1>3 DEF WorkInv
    <2> QED BY <1>1, <1>2, <2>1, <2>2
<1> QED BY <1>1, <1>3 DEF WorkInv

LEMMA WorkRedeemed == ASSUME TypeInv, WorkInv, NEW c \in Requests, RedeemWork(c) PROVE WorkInv'
<1> DEFINE p == requests[c].proof
<1>1. /\ p \notin proofs /\ proofs' = proofs \cup {p} /\ UNCHANGED now
      /\ redeemed' = IF now <= p + PowTicks THEN [redeemed EXCEPT ![p] = redeemed[p] + 1] ELSE redeemed
    BY DEF RedeemWork
<1>2. now \in Nat /\ PowTicks \in Nat /\ redeemed \in [0..MaxTime -> Nat] /\ p \in Nat
    BY Constants, BusyIs DEF TypeInv, RedeemWork, At, Pcs, Plain, Holds
<1> HIDE DEF p
<1>3. ASSUME NEW q \in DOMAIN redeemed'
      PROVE  redeemed'[q] <= 1 /\ (redeemed'[q] = 1 => q \in proofs' \/ q + PowTicks < now)
    <2>1. q \in DOMAIN redeemed /\ redeemed[q] \in Nat
        BY <1>1, <1>2
    <2>2. redeemed[q] <= 1 /\ (redeemed[q] = 1 => q \in proofs \/ q + PowTicks < now)
        BY <2>1 DEF WorkInv
    <2>3. CASE q = p /\ now <= p + PowTicks
        <3>1. redeemed[q] = 0
            BY <1>1, <1>2, <2>1, <2>2, <2>3
        <3> QED BY <1>1, <1>2, <2>1, <2>3, <3>1
    <2>4. CASE ~(q = p /\ now <= p + PowTicks)
        <3>1. redeemed'[q] = redeemed[q]
            BY <1>1, <1>2, <2>1, <2>4
        <3> QED BY <1>1, <2>2, <3>1
    <2> QED BY <2>3, <2>4
<1> QED BY <1>1, <1>3 DEF WorkInv

LEMMA WorkFrame ==
    ASSUME TypeInv, WorkInv, UNCHANGED <<proofs, redeemed>>, now' \in {now, now + 1}
    PROVE  WorkInv'
<1>1. now \in Nat /\ PowTicks \in Nat /\ redeemed \in [0..MaxTime -> Nat] /\ MaxTime \in Nat
    BY Constants DEF TypeInv
<1>2. ASSUME NEW p \in DOMAIN redeemed PROVE p + PowTicks < now => p + PowTicks < now'
    <2>1. p \in Nat
        BY <1>1
    <2> QED BY <1>1, <2>1
<1> QED BY <1>2 DEF WorkInv

LEMMA WorkStep == TypeInv /\ WorkInv /\ [GateNext]_gateVars => WorkInv'
<1> SUFFICES ASSUME TypeInv, WorkInv, [GateNext]_gateVars PROVE WorkInv'
    OBVIOUS
<1>1. ASSUME NEW c \in Requests, Serve(c) PROVE WorkInv'
    <2>1. CASE ~RequireWork(c) /\ ~RedeemWork(c)
        <3>1. UNCHANGED <<now, proofs, redeemed>>
            BY <1>1, <2>1
            DEF Serve, ReadsAnyway, FreezeFromCache, AskFreeze, KeepFreeze, WithoutSession, EndSession, Resolve,
                Rotate, Logout, TakeTicket, Spend, SpaceFromCache, AskSpace, KeepSpace,
                NoSpaceAnswer, HeadroomFromCache, AskCount, KeepCount, StoreBlob, EpochFromCache, AskEpoch,
                KeepEpoch, Mint, SpendToken, Answer, Refuse, Deliver, LoseReply, work
        <3> QED BY <3>1, WorkFrame
    <2> QED BY <2>1, WorkRequired, WorkRedeemed
<1>2. CASE ~(\E c \in Requests : Serve(c))
    <2>1. UNCHANGED <<proofs, redeemed>> /\ now' \in {now, now + 1}
        BY <1>2 DEF GateNext, Send, SignIn, Freeze, Thaw, RevokeSendTokens, DiskChanges, Housekeeping,
                    PruneSessions, PruneRateLimits, PruneBlobs, PruneSendTokens, Tick, gateVars, work
    <2> QED BY <2>1, WorkFrame
<1> QED BY <1>1, <1>2

-----------------------------------------------------------------------------
(* The floor under free space *)

SpaceInv ==
    /\ disk.full # Nil => disk.full <= now
    /\ space.cached # Nil => /\ space.cached.at <= now
                             /\ ~space.cached.full => AskedBefore(space.cached.at, disk.full)
    /\ \A c \in Requests : At(c, "space?") /\ ~requests[c].answer.full =>
           AskedBefore(requests[c].stamp, disk.full)
    /\ space.overlooked < SpaceTicks
    /\ space.blind <= space.failures /\ space.blind < FailuresBeforeUnavailable

\* The disk is as it was, or has room again.
LEMMA SpaceFrame ==
    ASSUME TypeInv, SpaceInv, UNCHANGED <<now, space>>, disk'.full \in {disk.full, Nil},
           \A d \in Requests : requests'[d].pc = "space?" => requests'[d] = requests[d]
    PROVE  SpaceInv'
<1>1. \A at : AskedBefore(at, disk.full) => AskedBefore(at, disk.full)'
    BY DEF AskedBefore
<1>2. (disk.full # Nil => disk.full <= now)'
    BY DEF SpaceInv
<1>3. (space.cached # Nil => /\ space.cached.at <= now
                             /\ ~space.cached.full => AskedBefore(space.cached.at, disk.full))'
    BY DEF SpaceInv, AskedBefore
<1>4. (\A c \in Requests : At(c, "space?") /\ ~requests[c].answer.full =>
           AskedBefore(requests[c].stamp, disk.full))'
    BY DEF SpaceInv, AskedBefore, At
<1>5. (/\ space.overlooked < SpaceTicks
       /\ space.blind <= space.failures /\ space.blind < FailuresBeforeUnavailable)'
    BY DEF SpaceInv
<1> QED BY <1>2, <1>3, <1>4, <1>5 DEF SpaceInv

LEMMA SpaceCached == ASSUME TypeInv, SpaceInv, NEW c \in Requests, Serve(c), SpaceFromCache(c) PROVE SpaceInv'
<1>1. /\ UNCHANGED <<now, disk>>
      /\ \A d \in Requests : requests'[d].pc = "space?" => requests'[d] = requests[d]
    BY WaitingIs DEF SpaceFromCache, AskSpace, Fresh
<1>2. CASE UNCHANGED space
    BY <1>1, <1>2, SpaceFrame
<1>3. CASE disk.full # Nil /\ ~space.cached.full
    <2> DEFINE at == space.cached.at
               full == disk.full
    <2>1. /\ space.cached \in [at : Nat, full : BOOLEAN] /\ space.cached # Nil /\ now < at + SpaceTicks
          /\ at \in Nat /\ full \in Nat /\ now \in Nat /\ SpaceTicks \in Nat /\ space \in Space
          /\ space.overlooked \in Nat
        BY <1>3, Constants DEF SpaceFromCache, Fresh, TypeInv, Space, Maybe
    <2>2. at <= full /\ full <= now /\ space.overlooked < SpaceTicks
        BY <1>3, <2>1 DEF SpaceInv, AskedBefore
    <2>3. space' = [space EXCEPT !.overlooked = Larger(space.overlooked, now - full)]
        BY <1>3 DEF SpaceFromCache
    <2> HIDE DEF at, full
    <2>4. Larger(space.overlooked, now - full) < SpaceTicks
        BY <2>1, <2>2 DEF Larger
    <2>5. /\ space'.overlooked < SpaceTicks /\ space'.cached = space.cached
          /\ space'.failures = space.failures /\ space'.blind = space.blind
        BY <2>1, <2>3, <2>4 DEF Space
    <2>6. (\A d \in Requests : At(d, "space?") /\ ~requests[d].answer.full =>
               AskedBefore(requests[d].stamp, disk.full))'
        BY <1>1 DEF SpaceInv, AskedBefore, At
    <2> QED BY <1>1, <2>5, <2>6 DEF SpaceInv, AskedBefore
<1> QED BY <1>2, <1>3 DEF SpaceFromCache

LEMMA SpaceKept == ASSUME TypeInv, SpaceInv, NEW c \in Requests, Serve(c), KeepSpace(c) PROVE SpaceInv'
<1>1. /\ UNCHANGED <<now, disk>>
      /\ \A d \in Requests : requests'[d].pc = "space?" => requests'[d] = requests[d]
    BY WaitingIs DEF KeepSpace, AskSpace, At
<1>2. /\ requests[c].stamp \in Nat /\ requests[c].stamp <= now /\ space \in Space
      /\ FailuresBeforeUnavailable \in Nat /\ FailuresBeforeUnavailable > 0
    <2>1. requests[c] \in Busy /\ InTime(requests[c], now)
        BY BusyIs DEF KeepSpace, At, Pcs
    <2>2. space \in Space
        BY DEF TypeInv
    <2> QED BY <2>1, <2>2, Constants DEF Busy, InTime
<1>3. space' = [space EXCEPT !.failures = 0, !.answered = TRUE, !.blind = 0,
                    !.cached = [at |-> requests[c].stamp, full |-> requests[c].answer.full]]
    BY DEF KeepSpace
<1>4. /\ space'.overlooked = space.overlooked /\ space'.failures = 0 /\ space'.blind = 0
      /\ space'.cached = [at |-> requests[c].stamp, full |-> requests[c].answer.full]
    BY <1>2, <1>3 DEF Space
<1>5. ~requests[c].answer.full => AskedBefore(requests[c].stamp, disk.full)
    BY DEF SpaceInv, KeepSpace
<1>6. (space.cached # Nil => /\ space.cached.at <= now
                             /\ ~space.cached.full => AskedBefore(space.cached.at, disk.full))'
    BY <1>1, <1>2, <1>4, <1>5 DEF AskedBefore
<1>7. (\A d \in Requests : At(d, "space?") /\ ~requests[d].answer.full =>
           AskedBefore(requests[d].stamp, disk.full))'
    BY <1>1 DEF SpaceInv, AskedBefore, At
<1> QED BY <1>1, <1>2, <1>4, <1>6, <1>7 DEF SpaceInv

\* A failed probe lets an upload past only while it is not yet a fault.
LEMMA SpaceUnanswered ==
    ASSUME TypeInv, SpaceInv, NEW c \in Requests, Serve(c), NoSpaceAnswer(c)
    PROVE  SpaceInv'
<1>1. /\ UNCHANGED <<now, disk>>
      /\ \A d \in Requests : requests'[d].pc = "space?" => requests'[d] = requests[d]
    BY WaitingIs DEF NoSpaceAnswer, AskSpace, At
<1> DEFINE failed == [space EXCEPT !.failures = space.failures + 1, !.cached = Nil]
<1>2. space \in Space /\ space.failures \in Nat /\ space.blind \in Nat /\ space.failures + 1 \in Nat
    BY DEF TypeInv, Space
<1>3. /\ failed \in Space /\ failed.failures = space.failures + 1 /\ failed.blind = space.blind
      /\ failed.cached = Nil /\ failed.overlooked = space.overlooked /\ failed.answered = space.answered
    BY <1>2 DEF Space, Maybe
<1>4. space' = IF Gone(failed) \/ ~space.answered THEN failed ELSE [failed EXCEPT !.blind = failed.blind + 1]
    BY DEF NoSpaceAnswer
<1>5. FailuresBeforeUnavailable \in Nat
    BY Constants
<1> HIDE DEF failed
<1>6. /\ space'.cached = Nil /\ space'.overlooked = space.overlooked
      /\ space'.blind <= space'.failures /\ space'.blind < FailuresBeforeUnavailable
    <2>1. CASE Gone(failed) \/ ~space.answered
        BY <1>2, <1>3, <1>4, <2>1 DEF SpaceInv
    <2>2. CASE ~(Gone(failed) \/ ~space.answered)
        <3>1. space.failures + 1 < FailuresBeforeUnavailable
            BY <1>2, <1>3, <1>5, <2>2 DEF Gone
        <3>2. space' = [failed EXCEPT !.blind = failed.blind + 1]
            BY <1>4, <2>2
        <3>3. /\ space'.cached = Nil /\ space'.overlooked = space.overlooked
              /\ space'.failures = space.failures + 1 /\ space'.blind = space.blind + 1
            BY <1>3, <3>2 DEF Space
        <3> QED BY <1>2, <1>5, <3>1, <3>3 DEF SpaceInv
    <2> QED BY <2>1, <2>2
<1>7. (\A d \in Requests : At(d, "space?") /\ ~requests[d].answer.full =>
           AskedBefore(requests[d].stamp, disk.full))'
    BY <1>1 DEF SpaceInv, AskedBefore, At
<1> QED BY <1>1, <1>6, <1>7 DEF SpaceInv

LEMMA SpaceAsked == ASSUME TypeInv, SpaceInv, NEW c \in Requests, Serve(c), AskSpace(c) PROVE SpaceInv'
<1>1. UNCHANGED <<now, disk, space>> /\ \A d \in Requests : d # c => requests'[d] = requests[d]
    BY WaitingIs DEF AskSpace, uploads, storage
<1> DEFINE yes == disk.full # Nil
<1>2. requests[c] \in Busy /\ requests \in [Requests -> Slots] /\ now \in Nat
    BY BusyIs DEF AskSpace, At, Pcs, Plain, TypeInv
<1>3. requests' = [requests EXCEPT ![c] = [requests[c] EXCEPT !.pc = "space?", !.stamp = now,
                                                !.answer = [full |-> yes, up |-> disk.up]]]
    BY <1>2 DEF AskSpace, Ask
<1> HIDE DEF yes
<1>4. requests'[c].stamp = now /\ requests'[c].answer.full = yes
    BY <1>2, <1>3 DEF Busy
<1>5. (~requests[c].answer.full => AskedBefore(requests[c].stamp, disk.full))'
    <2>1. disk.full # Nil => requests'[c].answer.full
        BY <1>4 DEF yes
    <2>2. ASSUME disk'.full = Nil PROVE AskedBefore(requests[c].stamp, disk.full)'
        BY <1>1, <1>2, <1>4, <2>2 DEF AskedBefore
    <2> QED BY <1>1, <2>1, <2>2
<1>6. (\A d \in Requests : At(d, "space?") /\ ~requests[d].answer.full =>
           AskedBefore(requests[d].stamp, disk.full))'
    BY <1>1, <1>5 DEF SpaceInv, AskedBefore, At
<1> QED BY <1>1, <1>6 DEF SpaceInv, AskedBefore

LEMMA SpaceLater ==
    ASSUME TypeInv, SpaceInv, now' = now + 1, UNCHANGED <<disk, space, requests>>
    PROVE  SpaceInv'
<1>1. /\ now \in Nat /\ (disk.full # Nil => disk.full \in Nat)
      /\ (space.cached # Nil => space.cached.at \in Nat)
    BY DEF TypeInv, Maybe, Space
<1>2. (disk.full # Nil => disk.full <= now)'
    BY <1>1 DEF SpaceInv
<1>3. (space.cached # Nil => /\ space.cached.at <= now
                             /\ ~space.cached.full => AskedBefore(space.cached.at, disk.full))'
    BY <1>1 DEF SpaceInv, AskedBefore
<1>4. ASSUME NEW c \in Requests, At(c, "space?")', ~requests'[c].answer.full
      PROVE  AskedBefore(requests[c].stamp, disk.full)'
    <2>1. AskedBefore(requests[c].stamp, disk.full) /\ requests[c].stamp \in Nat
        BY <1>4, BusyIs DEF SpaceInv, At, Pcs, Busy
    <2> QED BY <1>1, <2>1 DEF AskedBefore
<1> QED BY <1>2, <1>3, <1>4 DEF SpaceInv

LEMMA DiskFills ==
    ASSUME TypeInv, SpaceInv, disk'.full = now, UNCHANGED <<now, space, requests>>
    PROVE  SpaceInv'
<1>1. now \in Nat
    BY DEF TypeInv
<1> QED BY <1>1 DEF SpaceInv, AskedBefore, At

LEMMA SpaceStep == TypeInv /\ SpaceInv /\ [GateNext]_gateVars => SpaceInv'
<1> SUFFICES ASSUME TypeInv, SpaceInv, [GateNext]_gateVars PROVE SpaceInv'
    OBVIOUS
<1>1. ASSUME NEW c \in Requests, Serve(c) PROVE SpaceInv'
    <2>1. CASE ~SpaceFromCache(c) /\ ~KeepSpace(c) /\ ~NoSpaceAnswer(c) /\ ~AskSpace(c)
        <3>1. UNCHANGED <<now, disk, space>>
            BY <1>1, <2>1
            DEF Serve, ReadsAnyway, FreezeFromCache, AskFreeze, KeepFreeze, WithoutSession, EndSession, Resolve,
                Rotate, Logout, TakeTicket, Spend, RequireWork, RedeemWork, HeadroomFromCache, AskCount,
                KeepCount, StoreBlob, EpochFromCache, AskEpoch, KeepEpoch, Mint, SpendToken, Answer, Refuse,
                Deliver, LoseReply, uploads, storage
        <3>2. \A d \in Requests : requests'[d].pc = "space?" => requests'[d] = requests[d]
            BY <1>1, <2>1, WaitingIs
        <3> QED BY <3>1, <3>2, SpaceFrame
    <2> QED BY <1>1, <2>1, SpaceCached, SpaceKept, SpaceUnanswered, SpaceAsked
<1>2. ASSUME NEW c \in Requests, NEW route \in traffic.routes, NEW proof \in (0..now) \cup {Nil},
             NEW token \in tokens \cup {Nil}, Send(c, route, proof, token)
      PROVE  SpaceInv'
    <2>1. UNCHANGED <<now, disk, space>>
        BY <1>2 DEF Send, uploads, storage
    <2>2. \A d \in Requests : requests'[d].pc = "space?" => requests'[d] = requests[d]
        BY <1>2, SentIs
    <2> QED BY <2>1, <2>2, SpaceFrame
<1>3. CASE \/ SignIn \/ Freeze \/ Thaw \/ RevokeSendTokens \/ Housekeeping \/ UNCHANGED gateVars
    <2>1. UNCHANGED <<now, disk, space, requests>>
        BY <1>3 DEF SignIn, Freeze, Thaw, RevokeSendTokens, Housekeeping, PruneSessions, PruneRateLimits,
                    PruneBlobs, PruneSendTokens, gateVars, uploads, storage
    <2> QED BY <2>1, SpaceFrame
<1>4. CASE DiskChanges
    <2>1. disk \in [full : Maybe(Nat), up : BOOLEAN, changes : Nat] /\ UNCHANGED <<now, space, requests>>
        BY <1>4 DEF DiskChanges, TypeInv
    <2>2. disk'.full \in {disk.full, Nil, now}
        BY <1>4, <2>1 DEF DiskChanges
    <2> QED BY <2>1, <2>2, SpaceFrame, DiskFills
<1>5. CASE Tick
    BY <1>5, SpaceLater DEF Tick, uploads, storage
<1> QED BY <1>1, <1>2, <1>3, <1>4, <1>5 DEF GateNext

-----------------------------------------------------------------------------
(* The ceiling on stored blobs *)

Storing == {c \in Requests : At(c, "store")}
Rows == Cardinality(blobs)

\* A count knows of every row there is but those of the uploads stored since.
Counts(answer) ==
    answer.stored <= admitted.stored /\ Rows + answer.stored <= answer.rows + admitted.stored

\* The uploads let past and not stored yet have their places; only those a kept
\* count missed may take one too many.
BlobInv ==
    /\ Cardinality(Storing) + admitted.stored <= admitted.past
    /\ Rows + admitted.past <= MaxRows + admitted.unseen + admitted.stored
    /\ counted # Nil /\ counted.rows < MaxRows =>
           Rows + admitted.past <= counted.rows + admitted.unseen + admitted.stored
    /\ \A c \in Requests : At(c, "counted") => Counts(requests[c].answer)

LEMMA OneMore ==
    ASSUME NEW S, IsFiniteSet(S), NEW x
    PROVE  /\ IsFiniteSet(S \cup {x}) /\ Cardinality(S \cup {x}) \in Nat
           /\ Cardinality(S) \in Nat /\ Cardinality(S \cup {x}) <= Cardinality(S) + 1
<1>1. IsFiniteSet(S \cup {x}) /\ Cardinality(S) \in Nat
    BY FS_AddElement, FS_CardinalityType
<1>2. Cardinality(S \cup {x}) = Cardinality(S) \/ Cardinality(S \cup {x}) = Cardinality(S) + 1
    BY FS_AddElement
<1> QED BY <1>1, <1>2

LEMMA StoringIs == IsFiniteSet(Storing) /\ Cardinality(Storing) \in Nat
<1>1. Storing \subseteq Requests /\ IsFiniteSet(Requests)
    BY Constants DEF Storing
<1> QED BY <1>1, FS_Subset, FS_CardinalityType

LEMMA RowsType == TypeInv => Rows \in Nat
BY FS_CardinalityType DEF TypeInv, Rows

LEMMA StoringKept ==
    ASSUME \A d \in Requests : requests'[d].pc = "store" => requests'[d] = requests[d]
    PROVE  Cardinality(Storing)' <= Cardinality(Storing) /\ Cardinality(Storing)' \in Nat
<1>1. Storing' \subseteq Storing
    BY DEF Storing, At
<1> QED BY <1>1, StoringIs, FS_Subset, FS_CardinalityType

LEMMA StoringMore ==
    ASSUME NEW c \in Requests, \A d \in Requests : d # c => requests'[d] = requests[d]
    PROVE  Cardinality(Storing)' <= Cardinality(Storing) + 1 /\ Cardinality(Storing)' \in Nat
<1>1. Storing' \subseteq Storing \cup {c}
    BY DEF Storing, At
<1>2. /\ IsFiniteSet(Storing \cup {c})
      /\ Cardinality(Storing \cup {c}) <= Cardinality(Storing) + 1
      /\ Cardinality(Storing \cup {c}) \in Nat
    BY StoringIs, OneMore
<1>3. Cardinality(Storing') <= Cardinality(Storing \cup {c}) /\ Cardinality(Storing') \in Nat
    BY <1>1, <1>2, FS_Subset, FS_CardinalityType
<1> QED BY <1>2, <1>3, StoringIs

LEMMA StoringDone ==
    ASSUME NEW c \in Requests, At(c, "store"), requests'[c].pc # "store",
           \A d \in Requests : d # c => requests'[d] = requests[d]
    PROVE  Cardinality(Storing)' + 1 <= Cardinality(Storing) /\ Cardinality(Storing)' \in Nat
<1>1. Storing' \subseteq Storing \ {c} /\ c \in Storing
    BY DEF Storing, At
<1>2. /\ IsFiniteSet(Storing \ {c}) /\ Cardinality(Storing \ {c}) = Cardinality(Storing) - 1
      /\ Cardinality(Storing \ {c}) \in Nat
    BY <1>1, StoringIs, FS_RemoveElement, FS_CardinalityType
<1>3. Cardinality(Storing') <= Cardinality(Storing \ {c}) /\ Cardinality(Storing') \in Nat
    BY <1>1, <1>2, FS_Subset, FS_CardinalityType
<1> QED BY <1>2, <1>3, StoringIs

LEMMA BlobTypes ==
    TypeInv => /\ Rows \in Nat /\ MaxRows \in Nat /\ Cardinality(Storing) \in Nat
               /\ admitted \in [past : Nat, stored : Nat, unseen : Nat]
               /\ admitted.past \in Nat /\ admitted.stored \in Nat /\ admitted.unseen \in Nat
               /\ counted # Nil => counted \in [at : Nat, rows : Nat] /\ counted.rows \in Nat
<1> SUFFICES ASSUME TypeInv
             PROVE  /\ Rows \in Nat /\ MaxRows \in Nat /\ Cardinality(Storing) \in Nat
                    /\ admitted \in [past : Nat, stored : Nat, unseen : Nat]
                    /\ admitted.past \in Nat /\ admitted.stored \in Nat /\ admitted.unseen \in Nat
                    /\ counted # Nil => counted \in [at : Nat, rows : Nat] /\ counted.rows \in Nat
    OBVIOUS
<1>1. /\ admitted \in [past : Nat, stored : Nat, unseen : Nat]
      /\ counted # Nil => counted \in [at : Nat, rows : Nat]
    BY DEF TypeInv, Maybe
<1> QED BY <1>1, RowsType, StoringIs, Constants

\* Rows only go, and no request is let past.
LEMMA BlobFrame ==
    ASSUME TypeInv, BlobInv, UNCHANGED <<counted, admitted>>, blobs' \subseteq blobs,
           \A d \in Requests : requests'[d].pc = "store" => requests'[d] = requests[d],
           \A d \in Requests : requests'[d].pc = "counted" => requests'[d] = requests[d]
    PROVE  BlobInv'
<1>1. Rows' \in Nat /\ Rows' <= Rows
    BY FS_Subset, FS_CardinalityType DEF TypeInv, Rows
<1>2. Cardinality(Storing)' <= Cardinality(Storing) /\ Cardinality(Storing)' \in Nat
    BY StoringKept
<1>3. (Cardinality(Storing) + admitted.stored <= admitted.past)'
    BY <1>2, BlobTypes DEF BlobInv
<1>4. (Rows + admitted.past <= MaxRows + admitted.unseen + admitted.stored)'
    BY <1>1, BlobTypes DEF BlobInv
<1>5. (counted # Nil /\ counted.rows < MaxRows =>
           Rows + admitted.past <= counted.rows + admitted.unseen + admitted.stored)'
    BY <1>1, BlobTypes DEF BlobInv
<1>6. ASSUME NEW c \in Requests, At(c, "counted")' PROVE Counts(requests[c].answer)'
    <2>1. Counts(requests[c].answer) /\ requests'[c] = requests[c]
        BY <1>6 DEF BlobInv, At
    <2>2. requests[c].answer \in [rows : Nat, stored : Nat]
        BY <1>6, <2>1, BusyIs DEF At, Pcs, Holds
    <2> QED BY <1>1, <2>1, <2>2, BlobTypes DEF Counts
<1> QED BY <1>3, <1>4, <1>5, <1>6 DEF BlobInv

\* The answers under way, when no row is added.
LEMMA CountsKept ==
    ASSUME TypeInv, BlobInv, UNCHANGED blobs, admitted'.stored = admitted.stored,
           \A d \in Requests : requests'[d].pc = "counted" => requests'[d] = requests[d]
    PROVE  (\A d \in Requests : At(d, "counted") => Counts(requests[d].answer))'
BY DEF BlobInv, Counts, Rows, At

LEMMA BlobCached == ASSUME TypeInv, BlobInv, NEW c \in Requests, Serve(c), HeadroomFromCache(c) PROVE BlobInv'
<1>1. /\ counted # Nil /\ counted.rows < MaxRows /\ UNCHANGED blobs
      /\ counted' = [counted EXCEPT !.rows = counted.rows + 1]
      /\ admitted' = [admitted EXCEPT !.past = admitted.past + 1]
    BY DEF HeadroomFromCache, Fresh, Admit
<1>2. /\ counted'.rows = counted.rows + 1 /\ admitted'.past = admitted.past + 1
      /\ admitted'.stored = admitted.stored /\ admitted'.unseen = admitted.unseen /\ Rows' = Rows
    BY <1>1, BlobTypes DEF Rows
<1>3. Cardinality(Storing)' <= Cardinality(Storing) + 1 /\ Cardinality(Storing)' \in Nat
    BY WaitingIs, StoringMore
<1>4. \A d \in Requests : requests'[d].pc = "counted" => requests'[d] = requests[d]
    BY WaitingIs DEF HeadroomFromCache, AskCount
<1>5. (\A d \in Requests : At(d, "counted") => Counts(requests[d].answer))'
    BY <1>1, <1>2, <1>4, CountsKept
<1>6. Rows + admitted.past <= counted.rows + admitted.unseen + admitted.stored
    BY <1>1 DEF BlobInv
<1>7. (Cardinality(Storing) + admitted.stored <= admitted.past)'
    BY <1>2, <1>3, BlobTypes DEF BlobInv
<1>8. (Rows + admitted.past <= MaxRows + admitted.unseen + admitted.stored)'
    BY <1>1, <1>2, <1>6, BlobTypes
<1>9. (counted # Nil /\ counted.rows < MaxRows =>
           Rows + admitted.past <= counted.rows + admitted.unseen + admitted.stored)'
    BY <1>1, <1>2, <1>6, BlobTypes
<1> QED BY <1>5, <1>7, <1>8, <1>9 DEF BlobInv

\* The count that is kept may miss what was let past since it was taken.
LEMMA BlobCounted == ASSUME TypeInv, BlobInv, NEW c \in Requests, Serve(c), KeepCount(c) PROVE BlobInv'
<1> DEFINE rows == requests[c].answer.rows
           stored == requests[c].answer.stored
<1>1. requests[c].answer \in [rows : Nat, stored : Nat] /\ rows \in Nat /\ stored \in Nat
    BY BusyIs DEF KeepCount, At, Pcs, Holds
<1>2. stored <= admitted.stored /\ Rows + stored <= rows + admitted.stored
    BY DEF BlobInv, KeepCount, Counts
<1>3. UNCHANGED blobs /\ Rows' = Rows
    BY DEF KeepCount, Rows
<1>4. \A d \in Requests : requests'[d].pc = "counted" => requests'[d] = requests[d]
    BY WaitingIs DEF KeepCount, AskCount, At
<1>5. CASE rows < MaxRows
    <2>1. /\ counted' = [[at |-> requests[c].stamp, rows |-> rows] EXCEPT !.rows = rows + 1]
          /\ admitted' = [admitted EXCEPT !.past = admitted.past + 1,
                              !.unseen = Larger(admitted.unseen, admitted.past - stored)]
        BY <1>5 DEF KeepCount, Admit
    <2> HIDE DEF rows, stored
    <2>2. /\ counted'.rows = rows + 1 /\ admitted'.past = admitted.past + 1
          /\ admitted'.stored = admitted.stored
          /\ admitted'.unseen = Larger(admitted.unseen, admitted.past - stored)
        BY <2>1, BlobTypes
    <2>3. /\ Larger(admitted.unseen, admitted.past - stored) \in Nat
          /\ Larger(admitted.unseen, admitted.past - stored) >= admitted.past - stored
        BY <1>1, BlobTypes DEF Larger
    <2> DEFINE unseen == Larger(admitted.unseen, admitted.past - stored)
    <2> HIDE DEF unseen
    <2>4. unseen \in Nat /\ unseen >= admitted.past - stored /\ admitted'.unseen = unseen
        BY <2>2, <2>3 DEF unseen
    <2>5. Rows + admitted.past <= rows + unseen + admitted.stored
        BY <1>1, <1>2, <2>4, BlobTypes
    <2>6. Cardinality(Storing)' <= Cardinality(Storing) + 1 /\ Cardinality(Storing)' \in Nat
        BY WaitingIs, StoringMore
    <2>7. (Cardinality(Storing) + admitted.stored <= admitted.past)'
        BY <2>2, <2>6, BlobTypes DEF BlobInv
    <2>8. (Rows + admitted.past <= MaxRows + admitted.unseen + admitted.stored)'
        BY <1>1, <1>3, <1>5, <2>2, <2>4, <2>5, BlobTypes
    <2>9. (counted # Nil /\ counted.rows < MaxRows =>
               Rows + admitted.past <= counted.rows + admitted.unseen + admitted.stored)'
        BY <1>1, <1>3, <2>2, <2>4, <2>5, BlobTypes
    <2>10. (\A d \in Requests : At(d, "counted") => Counts(requests[d].answer))'
        BY <1>3, <1>4, <2>2, CountsKept
    <2> QED BY <2>7, <2>8, <2>9, <2>10 DEF BlobInv
<1>6. CASE ~(rows < MaxRows)
    <2>1. counted' = [at |-> requests[c].stamp, rows |-> rows] /\ UNCHANGED admitted /\ End(c)
        BY <1>6 DEF KeepCount
    <2>2. \A d \in Requests : requests'[d].pc = "store" => requests'[d] = requests[d]
        <3>1. requests[c].pc \in Pcs /\ requests[c].carries \in Cookie
            BY BusyIs DEF KeepCount, At, Pcs, Busy
        <3>2. PICK r : Moved(c, r) /\ Ends(c, r)
            BY <2>1, <3>1, EndEffect DEF End
        <3>3. requests'[c].pc = "reply" /\ \A d \in Requests : d # c => requests'[d] = requests[d]
            BY <3>2, MovedIs DEF Ends, Leaving
        <3> QED BY <3>3
    <2>3. Cardinality(Storing)' <= Cardinality(Storing) /\ Cardinality(Storing)' \in Nat
        BY <2>2, StoringKept
    <2>4. (Cardinality(Storing) + admitted.stored <= admitted.past)'
        BY <2>1, <2>3, BlobTypes DEF BlobInv
    <2>5. counted'.rows = rows
        BY <2>1
    <2>6. (\A d \in Requests : At(d, "counted") => Counts(requests[d].answer))'
        BY <1>3, <1>4, <2>1, CountsKept
    <2> QED BY <1>3, <1>6, <2>1, <2>4, <2>5, <2>6 DEF BlobInv
<1> QED BY <1>5, <1>6

LEMMA BlobStored == ASSUME TypeInv, BlobInv, NEW c \in Requests, Serve(c), StoreBlob(c) PROVE BlobInv'
<1> DEFINE row == [upload |-> admitted.stored, expires |-> now + KeepTicks]
<1>1. /\ blobs' = blobs \cup {row} /\ UNCHANGED counted /\ At(c, "store") /\ End(c)
      /\ admitted' = [admitted EXCEPT !.stored = admitted.stored + 1]
    BY DEF StoreBlob
<1> HIDE DEF row
<1>2. /\ admitted'.stored = admitted.stored + 1 /\ admitted'.past = admitted.past
      /\ admitted'.unseen = admitted.unseen
    BY <1>1, BlobTypes
<1>3. Rows' \in Nat /\ Rows' <= Rows + 1
    <2>1. IsFiniteSet(blobs)
        BY DEF TypeInv
    <2> QED BY <1>1, <2>1, OneMore DEF Rows
<1>4. requests'[c].pc = "reply" /\ \A d \in Requests : d # c => requests'[d] = requests[d]
    <2>1. requests[c].pc \in Pcs /\ requests[c].carries \in Cookie
        BY BusyIs DEF StoreBlob, At, Pcs, Busy
    <2>2. PICK r : Moved(c, r) /\ Ends(c, r)
        BY <1>1, <2>1, EndEffect DEF End
    <2> QED BY <2>2, MovedIs DEF Ends, Leaving
<1>5. Cardinality(Storing)' + 1 <= Cardinality(Storing) /\ Cardinality(Storing)' \in Nat
    BY <1>1, <1>4, StoringDone
<1>6. (Cardinality(Storing) + admitted.stored <= admitted.past)'
    BY <1>2, <1>5, BlobTypes DEF BlobInv
<1>7. (Rows + admitted.past <= MaxRows + admitted.unseen + admitted.stored)'
    BY <1>2, <1>3, BlobTypes DEF BlobInv
<1>8. (counted # Nil /\ counted.rows < MaxRows =>
           Rows + admitted.past <= counted.rows + admitted.unseen + admitted.stored)'
    BY <1>1, <1>2, <1>3, BlobTypes DEF BlobInv
<1>9. ASSUME NEW d \in Requests, At(d, "counted")' PROVE Counts(requests[d].answer)'
    <2>1. requests'[d] = requests[d] /\ At(d, "counted")
        BY <1>4, <1>9 DEF At
    <2>2. Counts(requests[d].answer) /\ requests[d].answer \in [rows : Nat, stored : Nat]
        BY <2>1, BusyIs DEF BlobInv, At, Pcs, Holds
    <2> QED BY <1>2, <1>3, <2>1, <2>2, BlobTypes DEF Counts
<1> QED BY <1>6, <1>7, <1>8, <1>9 DEF BlobInv

LEMMA BlobAsked == ASSUME TypeInv, BlobInv, NEW c \in Requests, Serve(c), AskCount(c) PROVE BlobInv'
<1>1. UNCHANGED <<blobs, counted, admitted>> /\ \A d \in Requests : d # c => requests'[d] = requests[d]
    BY WaitingIs DEF AskCount, uploads
<1>2. requests[c] \in Busy /\ requests \in [Requests -> Slots]
    BY BusyIs DEF AskCount, At, Pcs, Plain, TypeInv
<1>3. requests' = [requests EXCEPT ![c] = [requests[c] EXCEPT !.pc = "counted", !.stamp = now,
                                              !.answer = [rows |-> Rows, stored |-> admitted.stored]]]
    BY <1>2 DEF AskCount, Ask, Rows
<1>4. /\ requests'[c].pc = "counted" /\ requests'[c].answer.rows = Rows
      /\ requests'[c].answer.stored = admitted.stored
    BY <1>2, <1>3 DEF Busy
<1>5. Counts(requests[c].answer)'
    BY <1>1, <1>4, BlobTypes DEF Counts, Rows
<1>6. (\A d \in Requests : At(d, "counted") => Counts(requests[d].answer))'
    BY <1>1, <1>5 DEF BlobInv, Counts, Rows, At
<1>7. \A d \in Requests : requests'[d].pc = "store" => requests'[d] = requests[d]
    BY <1>1, <1>4
<1>8. Cardinality(Storing)' <= Cardinality(Storing) /\ Cardinality(Storing)' \in Nat
    BY <1>7, StoringKept
<1>9. (Cardinality(Storing) + admitted.stored <= admitted.past)'
    BY <1>1, <1>8, BlobTypes DEF BlobInv
<1> QED BY <1>1, <1>6, <1>9 DEF BlobInv, Rows

LEMMA BlobStep == TypeInv /\ BlobInv /\ [GateNext]_gateVars => BlobInv'
<1> SUFFICES ASSUME TypeInv, BlobInv, [GateNext]_gateVars PROVE BlobInv'
    OBVIOUS
<1>1. ASSUME NEW c \in Requests, Serve(c) PROVE BlobInv'
    <2>1. CASE ~HeadroomFromCache(c) /\ ~KeepCount(c) /\ ~StoreBlob(c) /\ ~AskCount(c)
        <3>1. UNCHANGED <<blobs, counted, admitted>>
            BY <1>1, <2>1
            DEF Serve, ReadsAnyway, FreezeFromCache, AskFreeze, KeepFreeze, WithoutSession, EndSession, Resolve,
                Rotate, Logout, TakeTicket, Spend, RequireWork, RedeemWork, SpaceFromCache, AskSpace, KeepSpace,
                NoSpaceAnswer, EpochFromCache, AskEpoch, KeepEpoch, Mint, SpendToken, Answer, Refuse,
                Deliver, LoseReply, uploads
        <3>2. /\ \A d \in Requests : requests'[d].pc = "store" => requests'[d] = requests[d]
              /\ \A d \in Requests : requests'[d].pc = "counted" => requests'[d] = requests[d]
            BY <1>1, <2>1, WaitingIs
        <3> QED BY <3>1, <3>2, BlobFrame
    <2> QED BY <1>1, <2>1, BlobCached, BlobCounted, BlobStored, BlobAsked
<1>2. ASSUME NEW c \in Requests, NEW route \in traffic.routes, NEW proof \in (0..now) \cup {Nil},
             NEW token \in tokens \cup {Nil}, Send(c, route, proof, token)
      PROVE  BlobInv'
    <2>1. UNCHANGED <<blobs, counted, admitted>>
        BY <1>2 DEF Send, uploads
    <2>2. /\ \A d \in Requests : requests'[d].pc = "store" => requests'[d] = requests[d]
          /\ \A d \in Requests : requests'[d].pc = "counted" => requests'[d] = requests[d]
        BY <1>2, SentIs
    <2> QED BY <2>1, <2>2, BlobFrame
<1>3. CASE \/ SignIn \/ Freeze \/ Thaw \/ RevokeSendTokens \/ DiskChanges \/ Housekeeping \/ Tick
           \/ UNCHANGED gateVars
    <2>1. UNCHANGED <<counted, admitted, requests>> /\ blobs' \subseteq blobs
        BY <1>3 DEF SignIn, Freeze, Thaw, RevokeSendTokens, DiskChanges, Housekeeping, PruneSessions,
                    PruneRateLimits, PruneBlobs, PruneSendTokens, Tick, gateVars, uploads
    <2> QED BY <2>1, BlobFrame
<1> QED BY <1>1, <1>2, <1>3 DEF GateNext

-----------------------------------------------------------------------------
(* Together *)

LimitInv == BucketInv /\ WorkInv /\ SpaceInv /\ BlobInv

\* Concurrent requests, charged out of order and admitted on kept answers, take
\* no more of a bucket, of a challenge, of the ceiling on blobs and of a disk
\* that is full or gone than the limits say.
THEOREM LimitsHoldTogether == GateSpec => []LimitsHold
<1>1. GateInit => LimitInv
    <2> SUFFICES ASSUME GateInit PROVE LimitInv
        OBVIOUS
    <2>1. BucketInv /\ WorkInv
        BY Constants DEF GateInit, BucketInv, WorkInv
    <2>2. SpaceInv
        BY Constants DEF GateInit, SpaceInv, At, Unused
    <2>3. Storing = {} /\ \A c \in Requests : ~At(c, "counted")
        BY DEF GateInit, Storing, At, Unused
    <2>4. Cardinality(Storing) = 0 /\ Rows = 0
        BY <2>3, FS_EmptySet DEF GateInit, Rows
    <2>5. BlobInv
        BY <2>3, <2>4, Constants DEF GateInit, BlobInv
    <2> QED BY <2>1, <2>2, <2>5 DEF LimitInv
<1>2. TypeInv /\ LimitInv /\ [GateNext]_gateVars => LimitInv'
    BY BucketStep, WorkStep, SpaceStep, BlobStep DEF LimitInv
<1>3. TypeInv /\ LimitInv => LimitsHold
    <2> SUFFICES ASSUME TypeInv, LimitInv PROVE LimitsHold
        OBVIOUS
    <2>1. \A k \in DOMAIN spent : spent[k].total <= Burst + PerTick * (spent[k].till - spent[k].from)
        BY BucketsBound DEF LimitInv
    <2>2. \A p \in DOMAIN redeemed : redeemed[p] <= 1
        BY DEF LimitInv, WorkInv
    <2>3. Cardinality(blobs) <= MaxRows + admitted.unseen
        BY BlobTypes DEF LimitInv, BlobInv, Rows
    <2> QED BY <2>1, <2>2, <2>3 DEF LimitInv, SpaceInv, LimitsHold
<1> QED BY <1>1, <1>2, <1>3, InitType, StepType, PTL DEF GateSpec

=============================================================================
