----------------------------- MODULE WireProofs -----------------------------
(***************************************************************************)
(* What holds of Chat for every number of devices, notes and timers, and   *)
(* every scene: the screen keeps up with the vault, a bubble marked as     *)
(* read was delivered, and a change of a contact's devices is announced.   *)
(* And of Mailbox for every number of messages, polls and faults: what was *)
(* used up or revoked stays out, and what was delivered is delivered once. *)
(***************************************************************************)
EXTENDS Mailbox, Chat, FiniteSetTheorems, WellFoundedInduction, TLAPS

-----------------------------------------------------------------------------
(* Numbers *)

\* The naturals' order, as a relation: of any of them some one is least.
Below == {pair \in Nat \X Nat : pair[1] < pair[2]}

LEMMA Least ==
    ASSUME NEW S \in SUBSET Nat, S # {}
    PROVE  \E n \in S : \A m \in S : n <= m
<1>1. IsWellFoundedOn(Below, Nat)
    BY NatLessThanWellFounded DEF OpToRel, Below
<1>2. PICK x \in S : \A y \in S : <<y, x>> \notin Below
    BY <1>1, WFMin
<1>3. \A y \in S : x <= y
    <2> TAKE y \in S
    <2>1. x \in Nat /\ y \in Nat
        OBVIOUS
    <2>2. ~(y < x)
        BY <1>2, <2>1 DEF Below
    <2> QED BY <2>1, <2>2
<1> QED BY <1>3

LEMMA MinIsLeast ==
    ASSUME NEW S \in SUBSET Nat, S # {}
    PROVE  Min(S) \in S /\ \A m \in S : Min(S) <= m
BY Least DEF Min

-----------------------------------------------------------------------------
(* The panel: types *)

ChangeRow == [kind : {"none", "added", "replaced"}, keys : SUBSET Devices]
TalkRow ==
    [named : BOOLEAN, keys : SUBSET Devices, known : SUBSET Devices, first : SUBSET Devices,
     change : ChangeRow, dismissed : SUBSET Devices, shown : SUBSET Notes, read : SUBSET Notes,
     hours : {0, 1}]
NoteRow ==
    [kind : {"none", "text", "read"}, mine : BOOLEAN, by : Devices, until : Nat, invite : BOOLEAN,
     upTo : Nat]
PollRow ==
    [step : {"idle", "fetching", "handling", "asking"}, left : SUBSET Notes, handled : SUBSET Notes, count : Nat,
     talk : {0, 1, 2}, asked : SUBSET Devices, silent : BOOLEAN]
SendRow == [step : {"idle", "posted", "stored"}, n : Nat, talk : {0, 1, 2}]

ChatType ==
    /\ scene \in Scenes /\ events \in Nat /\ moment \in Nat
    /\ listed \subseteq Devices /\ installs \in [Devices -> Nat] /\ paired \subseteq Devices
    /\ notes \in [Notes -> NoteRow] /\ waiting \subseteq Notes
    /\ talks \in [{1, 2} -> TalkRow] /\ open \in {0, 1, 2} /\ selected \in BOOLEAN
    /\ blocked \in BOOLEAN /\ opened \subseteq Notes
    /\ timers \in [Timers -> PollRow] /\ sending \in SendRow
    /\ onWay \subseteq Nat /\ theirs \in Seq(Nat) /\ receipted \in Nat
    /\ signalled \in BOOLEAN /\ overtaken \in BOOLEAN

\* What Noted does to a conversation, part by part.
LEMMA NotedType ==
    ASSUME NEW talk \in TalkRow, NEW keys \in SUBSET Devices, NEW listing
    PROVE  /\ Noted(talk, keys, listing) \in TalkRow
           /\ \/ /\ talk.known = {}
                 /\ Noted(talk, keys, listing) = [talk EXCEPT !.known = keys, !.first = keys]
              \/ keys \subseteq talk.known /\ Noted(talk, keys, listing) = talk
              \/ /\ talk.known # {} /\ ~(keys \subseteq talk.known)
                 /\ Noted(talk, keys, listing) =
                        [talk EXCEPT !.known = @ \cup keys, !.change = Changed(talk, keys, listing)]
                 /\ Changed(talk, keys, listing) \in ChangeRow
<1>1. Changed(talk, keys, listing) \in ChangeRow
    BY DEF Changed, TalkRow, ChangeRow
<1>2. \A change \in ChangeRow :
          [talk EXCEPT !.known = talk.known \cup keys, !.change = change] \in TalkRow
    BY DEF TalkRow
<1>3. [talk EXCEPT !.known = keys, !.first = keys] \in TalkRow
    BY DEF TalkRow
<1> QED BY <1>1, <1>2, <1>3 DEF Noted

\* The conversation after the keys are noted, `change` being what is then announced.
NotedAs(talk, keys, change, next) ==
    /\ next.named = talk.named /\ next.keys = talk.keys /\ next.dismissed = talk.dismissed
    /\ next.shown = talk.shown /\ next.read = talk.read /\ next.hours = talk.hours
    /\ next.known = talk.known \cup keys
    /\ next.first = IF talk.known = {} THEN keys ELSE talk.first
    /\ next.change = IF talk.known = {} \/ keys \subseteq talk.known THEN talk.change ELSE change

LEMMA NotedParts ==
    ASSUME NEW talk \in TalkRow, NEW keys \in SUBSET Devices, NEW listing
    PROVE  NotedAs(talk, keys, Changed(talk, keys, listing), Noted(talk, keys, listing))
<1> DEFINE next == Noted(talk, keys, listing)
<1>1. CASE talk.known = {}
    <2>1. next = [talk EXCEPT !.known = keys, !.first = keys]
        BY <1>1 DEF Noted
    <2> HIDE DEF next
    <2>2. talk.known \cup keys = keys
        BY <1>1
    <2>3. /\ next.named = talk.named /\ next.keys = talk.keys /\ next.dismissed = talk.dismissed
          /\ next.shown = talk.shown /\ next.read = talk.read /\ next.hours = talk.hours
          /\ next.known = keys /\ next.first = keys /\ next.change = talk.change
        BY <2>1 DEF TalkRow
    <2> QED BY <1>1, <2>2, <2>3 DEF next, NotedAs
<1>2. CASE talk.known # {} /\ keys \subseteq talk.known
    <2>1. next = talk
        BY <1>2 DEF Noted
    <2>2. talk.known \cup keys = talk.known
        BY <1>2
    <2> QED BY <1>2, <2>1, <2>2 DEF NotedAs
<1>3. CASE talk.known # {} /\ ~(keys \subseteq talk.known)
    <2> DEFINE change == Changed(talk, keys, listing)
    <2>1. next = [talk EXCEPT !.known = talk.known \cup keys, !.change = change]
        BY <1>3 DEF Noted
    <2> HIDE DEF next, change
    <2>2. /\ next.named = talk.named /\ next.keys = talk.keys /\ next.dismissed = talk.dismissed
          /\ next.shown = talk.shown /\ next.read = talk.read /\ next.hours = talk.hours
          /\ next.known = talk.known \cup keys /\ next.first = talk.first /\ next.change = change
        BY <2>1 DEF TalkRow
    <2> QED BY <1>3, <2>2 DEF next, change, NotedAs
<1> QED BY <1>1, <1>2, <1>3

\* With the keys of the directory, and with the key of an envelope.
LEMMA DirectoryNoted ==
    ASSUME NEW talk \in TalkRow, NEW keys \in SUBSET Devices
    PROVE  /\ Noted(talk, keys, TRUE) \in TalkRow
           /\ NotedAs(talk, keys, Changed(talk, keys, TRUE), Noted(talk, keys, TRUE))
BY NotedType, NotedParts, Zenon

LEMMA EnvelopeNoted ==
    ASSUME NEW talk \in TalkRow, NEW keys \in SUBSET Devices
    PROVE  /\ Noted(talk, keys, FALSE) \in TalkRow
           /\ NotedAs(talk, keys, Changed(talk, keys, FALSE), Noted(talk, keys, FALSE))
BY NotedType, NotedParts, Zenon

-----------------------------------------------------------------------------
(* A poll, part by part *)

Taken(before, i, n, asked, c) ==
    [before EXCEPT ![i].step = "handling", ![i].left = @ \ {n}, ![i].handled = @ \cup {n},
                   ![i].asked = asked, ![i].count = @ + c]
Passed(before, i, n, asked) ==
    [before EXCEPT ![i].step = "handling", ![i].left = @ \ {n}, ![i].handled = @ \cup {n}, ![i].asked = asked]

\* What has become of a timer's poll, and of the other's.
Polled(before, after, i, left, asked, count) ==
    /\ after \in [Timers -> PollRow] /\ \A j \in Timers \ {i} : after[j] = before[j]
    /\ after[i].step = "handling" /\ after[i].left = left
    /\ after[i].asked = asked /\ after[i].count = count

LEMMA PollTakes ==
    ASSUME NEW before \in [Timers -> PollRow], NEW i \in Timers, NEW n \in Notes, NEW asked \in SUBSET Devices,
           NEW c \in Nat
    PROVE  Polled(before, Taken(before, i, n, asked, c), i, before[i].left \ {n}, asked, before[i].count + c)
<1> DEFINE f1 == [before EXCEPT ![i].step = "handling"]
           f2 == [f1 EXCEPT ![i].left = @ \ {n}]
           f3 == [f2 EXCEPT ![i].handled = @ \cup {n}]
           f4 == [f3 EXCEPT ![i].asked = asked]
           f5 == [f4 EXCEPT ![i].count = @ + c]
<1>0. Taken(before, i, n, asked, c) = f5
    BY DEF Taken
<1>1. /\ f1 \in [Timers -> PollRow] /\ \A j \in Timers \ {i} : f1[j] = before[j]
      /\ f1[i].step = "handling" /\ f1[i].left = before[i].left /\ f1[i].asked = before[i].asked
      /\ f1[i].count = before[i].count /\ f1[i].talk = before[i].talk
    BY DEF PollRow
<1> HIDE DEF f1
<1>2. /\ f2 \in [Timers -> PollRow] /\ \A j \in Timers \ {i} : f2[j] = f1[j]
      /\ f2[i].step = f1[i].step /\ f2[i].left = f1[i].left \ {n} /\ f2[i].asked = f1[i].asked
      /\ f2[i].count = f1[i].count /\ f2[i].talk = f1[i].talk
    BY <1>1 DEF PollRow
<1> HIDE DEF f2
<1>3. /\ f3 \in [Timers -> PollRow] /\ \A j \in Timers \ {i} : f3[j] = f2[j]
      /\ f3[i].step = f2[i].step /\ f3[i].left = f2[i].left /\ f3[i].asked = f2[i].asked
      /\ f3[i].count = f2[i].count /\ f3[i].talk = f2[i].talk
    BY <1>2 DEF PollRow
<1> HIDE DEF f3
<1>4. /\ f4 \in [Timers -> PollRow] /\ \A j \in Timers \ {i} : f4[j] = f3[j]
      /\ f4[i].step = f3[i].step /\ f4[i].left = f3[i].left /\ f4[i].asked = asked
      /\ f4[i].count = f3[i].count /\ f4[i].talk = f3[i].talk
    BY <1>3 DEF PollRow
<1> HIDE DEF f4
<1>5. /\ f5 \in [Timers -> PollRow] /\ \A j \in Timers \ {i} : f5[j] = f4[j]
      /\ f5[i].step = f4[i].step /\ f5[i].left = f4[i].left /\ f5[i].asked = f4[i].asked
      /\ f5[i].count = f4[i].count + c /\ f5[i].talk = f4[i].talk
    BY <1>4 DEF PollRow
<1> HIDE DEF f5
<1>6. /\ f5 \in [Timers -> PollRow] /\ \A j \in Timers \ {i} : f5[j] = before[j]
      /\ f5[i].step = "handling" /\ f5[i].left = before[i].left \ {n}
      /\ f5[i].asked = asked /\ f5[i].count = before[i].count + c /\ f5[i].talk = before[i].talk
    BY <1>1, <1>2, <1>3, <1>4, <1>5
<1>7. Polled(before, f5, i, before[i].left \ {n}, asked, before[i].count + c)
    BY <1>6 DEF Polled
<1> QED BY ONLY <1>0, <1>7, Zenon

LEMMA PollRefuses ==
    ASSUME NEW before \in [Timers -> PollRow], NEW i \in Timers, NEW n \in Notes, NEW asked \in SUBSET Devices
    PROVE  LET after == Passed(before, i, n, asked)
           IN  /\ after \in [Timers -> PollRow]
               /\ \A j \in Timers \ {i} : after[j] = before[j]
               /\ after[i].step = "handling" /\ after[i].left = before[i].left \ {n}
               /\ after[i].asked = asked /\ after[i].count = before[i].count
               /\ after[i].talk = before[i].talk
<1> DEFINE f1 == [before EXCEPT ![i].step = "handling"]
           f2 == [f1 EXCEPT ![i].left = @ \ {n}]
           f3 == [f2 EXCEPT ![i].handled = @ \cup {n}]
           f4 == [f3 EXCEPT ![i].asked = asked]
<1>0. Passed(before, i, n, asked) = f4
    BY DEF Passed
<1>1. /\ f1 \in [Timers -> PollRow] /\ \A j \in Timers \ {i} : f1[j] = before[j]
      /\ f1[i].step = "handling" /\ f1[i].left = before[i].left /\ f1[i].asked = before[i].asked
      /\ f1[i].count = before[i].count /\ f1[i].talk = before[i].talk
    BY DEF PollRow
<1> HIDE DEF f1
<1>2. /\ f2 \in [Timers -> PollRow] /\ \A j \in Timers \ {i} : f2[j] = f1[j]
      /\ f2[i].step = f1[i].step /\ f2[i].left = f1[i].left \ {n} /\ f2[i].asked = f1[i].asked
      /\ f2[i].count = f1[i].count /\ f2[i].talk = f1[i].talk
    BY <1>1 DEF PollRow
<1> HIDE DEF f2
<1>3. /\ f3 \in [Timers -> PollRow] /\ \A j \in Timers \ {i} : f3[j] = f2[j]
      /\ f3[i].step = f2[i].step /\ f3[i].left = f2[i].left /\ f3[i].asked = f2[i].asked
      /\ f3[i].count = f2[i].count /\ f3[i].talk = f2[i].talk
    BY <1>2 DEF PollRow
<1> HIDE DEF f3
<1>4. /\ f4 \in [Timers -> PollRow] /\ \A j \in Timers \ {i} : f4[j] = f3[j]
      /\ f4[i].step = f3[i].step /\ f4[i].left = f3[i].left /\ f4[i].asked = asked
      /\ f4[i].count = f3[i].count /\ f4[i].talk = f3[i].talk
    BY <1>3 DEF PollRow
<1> HIDE DEF f4
<1>5. /\ f4 \in [Timers -> PollRow] /\ \A j \in Timers \ {i} : f4[j] = before[j]
      /\ f4[i].step = "handling" /\ f4[i].left = before[i].left \ {n}
      /\ f4[i].asked = asked /\ f4[i].count = before[i].count /\ f4[i].talk = before[i].talk
    BY <1>1, <1>2, <1>3, <1>4
<1> QED BY ONLY <1>0, <1>5, Zenon

\* The poll leaves the envelope, waits for the directory, or goes on without it.
Left(before, i, n) == [before EXCEPT ![i].left = @ \ {n}]
Asked(before, i, t) == [before EXCEPT ![i].step = "asking", ![i].talk = t]
Unanswered(before, i, n) == [before EXCEPT ![i].step = "handling", ![i].left = @ \ {n}, ![i].silent = TRUE]

LEMMA PollLeaves ==
    ASSUME NEW before \in [Timers -> PollRow], NEW i \in Timers, NEW n \in Notes
    PROVE  LET after == Left(before, i, n)
           IN  /\ after \in [Timers -> PollRow]
               /\ \A j \in Timers \ {i} : after[j] = before[j]
               /\ after[i].step = before[i].step /\ after[i].left = before[i].left \ {n}
               /\ after[i].asked = before[i].asked /\ after[i].count = before[i].count
BY DEF PollRow, Left

LEMMA PollAsks ==
    ASSUME NEW before \in [Timers -> PollRow], NEW i \in Timers, NEW t \in {1, 2}
    PROVE  LET after == Asked(before, i, t)
           IN  /\ after \in [Timers -> PollRow]
               /\ \A j \in Timers \ {i} : after[j] = before[j]
               /\ after[i].step = "asking" /\ after[i].talk = t /\ after[i].left = before[i].left
               /\ after[i].asked = before[i].asked /\ after[i].count = before[i].count
<1> DEFINE f1 == [before EXCEPT ![i].step = "asking"]
           f2 == [f1 EXCEPT ![i].talk = t]
<1>1. Asked(before, i, t) = f2
    BY DEF Asked
<1>2. /\ f1 \in [Timers -> PollRow] /\ \A j \in Timers \ {i} : f1[j] = before[j]
      /\ f1[i].step = "asking" /\ f1[i].left = before[i].left /\ f1[i].asked = before[i].asked
      /\ f1[i].count = before[i].count
    BY DEF PollRow
<1> HIDE DEF f1
<1>3. /\ f2 \in [Timers -> PollRow] /\ \A j \in Timers \ {i} : f2[j] = f1[j]
      /\ f2[i].step = f1[i].step /\ f2[i].left = f1[i].left /\ f2[i].asked = f1[i].asked
      /\ f2[i].count = f1[i].count /\ f2[i].talk = t
    BY <1>2 DEF PollRow
<1> HIDE DEF f2
<1> QED BY <1>1, <1>2, <1>3

LEMMA PollGoesOn ==
    ASSUME NEW before \in [Timers -> PollRow], NEW i \in Timers, NEW n \in Notes
    PROVE  LET after == Unanswered(before, i, n)
           IN  /\ after \in [Timers -> PollRow]
               /\ \A j \in Timers \ {i} : after[j] = before[j]
               /\ after[i].step = "handling" /\ after[i].left = before[i].left \ {n}
               /\ after[i].asked = before[i].asked /\ after[i].count = before[i].count
<1> DEFINE f1 == [before EXCEPT ![i].step = "handling"]
           f2 == [f1 EXCEPT ![i].left = @ \ {n}]
           f3 == [f2 EXCEPT ![i].silent = TRUE]
<1>1. Unanswered(before, i, n) = f3
    BY DEF Unanswered
<1>2. /\ f1 \in [Timers -> PollRow] /\ \A j \in Timers \ {i} : f1[j] = before[j]
      /\ f1[i].step = "handling" /\ f1[i].left = before[i].left /\ f1[i].asked = before[i].asked /\ f1[i].count = before[i].count
    BY DEF PollRow
<1> HIDE DEF f1
<1>3. /\ f2 \in [Timers -> PollRow] /\ \A j \in Timers \ {i} : f2[j] = f1[j]
      /\ f2[i].step = f1[i].step /\ f2[i].left = f1[i].left \ {n} /\ f2[i].asked = f1[i].asked /\ f2[i].count = f1[i].count
    BY <1>2 DEF PollRow
<1> HIDE DEF f2
<1>4. /\ f3 \in [Timers -> PollRow] /\ \A j \in Timers \ {i} : f3[j] = f2[j]
      /\ f3[i].step = f2[i].step /\ f3[i].left = f2[i].left /\ f3[i].asked = f2[i].asked /\ f3[i].count = f2[i].count
    <2>1. f2[i] \in PollRow /\ f3 = [f2 EXCEPT ![i] = [f2[i] EXCEPT !.silent = TRUE]]
        BY <1>3
    <2>2. \A poll \in PollRow, yes \in BOOLEAN :
              LET next == [poll EXCEPT !.silent = yes]
              IN  next \in PollRow /\ next.step = poll.step /\ next.left = poll.left /\ next.asked = poll.asked /\ next.count = poll.count
        BY DEF PollRow
    <2> QED BY <1>3, <2>1, <2>2
<1> HIDE DEF f3
<1> QED BY <1>1, <1>2, <1>3, <1>4

LEMMA PollBegins ==
    /\ NotPolling \in PollRow /\ NotPolling.step = "idle" /\ NotPolling.asked = {} /\ NotPolling.count = 0
    /\ \A due \in SUBSET Notes :
           LET poll == [NotPolling EXCEPT !.step = "handling", !.left = due]
           IN  poll \in PollRow /\ poll.step = "handling" /\ poll.asked = {} /\ poll.count = 0 /\ poll.left = due
    /\ LET poll == [NotPolling EXCEPT !.step = "fetching"]
       IN  poll \in PollRow /\ poll.step = "fetching" /\ poll.asked = {} /\ poll.count = 0 /\ poll.left = {}
BY DEF NotPolling, PollRow

-----------------------------------------------------------------------------
(* Receiving, part by part *)

Opens(talk, n) == n \notin opened /\ (notes[n].by \in talk.keys \/ notes[n].invite)
IsText(talk, n) == Opens(talk, n) /\ ~blocked /\ notes[n].kind = "text"
IsReceipt(talk, n) == Opens(talk, n) /\ ~blocked /\ notes[n].kind = "read"
Session(talk, n) == [Noted(talk, {notes[n].by}, FALSE) EXCEPT !.keys = @ \cup {notes[n].by}, !.named = TRUE]
Received(talk, n) ==
    CASE IsText(talk, n)    -> [Session(talk, n) EXCEPT !.shown = @ \cup {n}]
      [] IsReceipt(talk, n) -> [Session(talk, n) EXCEPT !.read = @ \cup ReadBy(Session(talk, n), notes[n].upTo)]
      [] OTHER              -> IF Opens(talk, n) THEN Session(talk, n) ELSE talk

Receives(i, t, talk, n, asked) ==
    /\ talks' = [talks EXCEPT ![t] = Received(talk, n)]
    /\ opened' = IF Opens(talk, n) THEN opened \cup {n} ELSE opened
    /\ notes' = IF IsText(talk, n) THEN [notes EXCEPT ![n].until = Soonest(talk, n)] ELSE notes
    /\ signalled' = (signalled \/ IsReceipt(talk, n))
    /\ timers' = Taken(timers, i, n, asked, IF IsText(talk, n) THEN 1 ELSE 0)
    /\ owed' = IF Received(talk, n) = talks[t] THEN owed
               ELSE IF i = "shell" THEN owed \cup {"shell"}
               ELSE IF IsText(talk, n) \/ IsReceipt(talk, n) \/ Received(talk, n).change = talks[t].change
                    THEN owed
               ELSE owed \cup {"quiet"}

LEMMA ReceiveDoes ==
    ASSUME NEW i, NEW t, NEW talk, NEW n, NEW asked, Receive(i, t, talk, n, asked)
    PROVE  Receives(i, t, talk, n, asked)
BY DEF Receive, Receives, Taken, Opens, IsText, IsReceipt, Session, Received

LEMMA SessionParts ==
    ASSUME ChatType, NEW talk \in TalkRow, NEW n \in Notes
    PROVE  LET next == Session(talk, n)
               by == notes[n].by
           IN  /\ next \in TalkRow
               /\ next.named = TRUE /\ next.keys = talk.keys \cup {by} /\ next.dismissed = talk.dismissed
               /\ next.shown = talk.shown /\ next.read = talk.read /\ next.hours = talk.hours
               /\ next.known = talk.known \cup {by}
               /\ next.first = IF talk.known = {} THEN {by} ELSE talk.first
               /\ next.change = IF talk.known = {} \/ by \in talk.known THEN talk.change
                                ELSE Changed(talk, {by}, FALSE)
<1> DEFINE by == notes[n].by
           noted == Noted(talk, {by}, FALSE)
<1>1. by \in Devices
    BY DEF ChatType, NoteRow
<1>2. noted \in TalkRow
    BY <1>1, EnvelopeNoted
<1>3. /\ noted.named = talk.named /\ noted.keys = talk.keys /\ noted.dismissed = talk.dismissed
      /\ noted.shown = talk.shown /\ noted.read = talk.read /\ noted.hours = talk.hours
      /\ noted.known = talk.known \cup {by}
      /\ noted.first = IF talk.known = {} THEN {by} ELSE talk.first
      /\ noted.change = IF talk.known = {} \/ {by} \subseteq talk.known THEN talk.change
                        ELSE Changed(talk, {by}, FALSE)
    <2>1. {by} \in SUBSET Devices /\ FALSE \in BOOLEAN
        BY <1>1
    <2> HIDE DEF by
    <2>2. NotedAs(talk, {by}, Changed(talk, {by}, FALSE), Noted(talk, {by}, FALSE))
        BY <2>1, EnvelopeNoted
    <2> QED BY <2>2 DEF NotedAs
<1>4. {by} \subseteq talk.known <=> by \in talk.known
    OBVIOUS
<1>5. Session(talk, n) = [noted EXCEPT !.keys = @ \cup {by}, !.named = TRUE]
    BY DEF Session
<1> DEFINE change == Changed(talk, {by}, FALSE)
<1> HIDE DEF noted, by, change
<1>6. LET next == [noted EXCEPT !.keys = @ \cup {by}, !.named = TRUE]
      IN  /\ next \in TalkRow
          /\ next.named = TRUE /\ next.keys = noted.keys \cup {by} /\ next.dismissed = noted.dismissed
          /\ next.shown = noted.shown /\ next.read = noted.read /\ next.hours = noted.hours
          /\ next.known = noted.known /\ next.first = noted.first /\ next.change = noted.change
    BY <1>1, <1>2 DEF TalkRow, by
<1> QED BY <1>3, <1>4, <1>5, <1>6 DEF by, change

LEMMA ReceivedParts ==
    ASSUME ChatType, NEW talk \in TalkRow, NEW n \in Notes
    PROVE  LET next == Received(talk, n)
               by == notes[n].by
           IN  /\ next \in TalkRow
               /\ ~Opens(talk, n) => next = talk
               /\ Opens(talk, n) =>
                    /\ next.named = TRUE /\ next.keys = talk.keys \cup {by} /\ next.dismissed = talk.dismissed
                    /\ next.known = talk.known \cup {by}
                    /\ next.first = IF talk.known = {} THEN {by} ELSE talk.first
                    /\ next.change = IF talk.known = {} \/ by \in talk.known THEN talk.change
                                     ELSE Changed(talk, {by}, FALSE)
               /\ next.shown = IF IsText(talk, n) THEN talk.shown \cup {n} ELSE talk.shown
               /\ next.read = IF IsReceipt(talk, n) THEN talk.read \cup ReadBy(talk, notes[n].upTo) ELSE talk.read
               /\ next.hours = talk.hours
<1> DEFINE session == Session(talk, n)
           by == notes[n].by
           change == Changed(talk, {by}, FALSE)
<1>1. /\ session \in TalkRow
      /\ session.named = TRUE /\ session.keys = talk.keys \cup {by} /\ session.dismissed = talk.dismissed
      /\ session.shown = talk.shown /\ session.read = talk.read /\ session.hours = talk.hours
      /\ session.known = talk.known \cup {by}
      /\ session.first = IF talk.known = {} THEN {by} ELSE talk.first
      /\ session.change = IF talk.known = {} \/ by \in talk.known THEN talk.change ELSE change
    BY SessionParts
<1>2. ReadBy(session, notes[n].upTo) = ReadBy(talk, notes[n].upTo) /\ ReadBy(talk, notes[n].upTo) \subseteq Notes
    BY <1>1 DEF ReadBy, TalkRow
<1> HIDE DEF session, by, change
<1>3. ASSUME NEW more \in SUBSET Notes
      PROVE  LET next == [session EXCEPT !.read = @ \cup more]
             IN  /\ next \in TalkRow
                 /\ next.named = session.named /\ next.keys = session.keys /\ next.dismissed = session.dismissed
                 /\ next.shown = session.shown /\ next.read = session.read \cup more /\ next.hours = session.hours
                 /\ next.known = session.known /\ next.first = session.first /\ next.change = session.change
    BY <1>1 DEF TalkRow
<1>4. LET next == [session EXCEPT !.shown = @ \cup {n}]
      IN  /\ next \in TalkRow
          /\ next.named = session.named /\ next.keys = session.keys /\ next.dismissed = session.dismissed
          /\ next.shown = session.shown \cup {n} /\ next.read = session.read /\ next.hours = session.hours
          /\ next.known = session.known /\ next.first = session.first /\ next.change = session.change
    BY <1>1 DEF TalkRow
<1>5. CASE IsText(talk, n)
    <2>1. Opens(talk, n) /\ ~IsReceipt(talk, n) /\ Received(talk, n) = [session EXCEPT !.shown = @ \cup {n}]
        BY <1>5 DEF Received, session, IsText, IsReceipt
    <2> QED BY <1>1, <1>4, <1>5, <2>1 DEF by, change
<1>6. CASE IsReceipt(talk, n)
    <2>1. /\ Opens(talk, n) /\ ~IsText(talk, n)
          /\ Received(talk, n) = [session EXCEPT !.read = @ \cup ReadBy(session, notes[n].upTo)]
        BY <1>6 DEF Received, session, IsText, IsReceipt
    <2> DEFINE more == ReadBy(session, notes[n].upTo)
    <2>2. more \in SUBSET Notes /\ more = ReadBy(talk, notes[n].upTo)
        BY <1>2
    <2>3. Received(talk, n) = [session EXCEPT !.read = @ \cup more]
        BY <2>1
    <2> HIDE DEF more
    <2>4. LET next == Received(talk, n)
          IN  /\ next \in TalkRow
              /\ next.named = session.named /\ next.keys = session.keys /\ next.dismissed = session.dismissed
              /\ next.shown = session.shown /\ next.read = session.read \cup more /\ next.hours = session.hours
              /\ next.known = session.known /\ next.first = session.first /\ next.change = session.change
        BY <1>3, <2>2, <2>3
    <2> QED BY <1>1, <1>6, <2>1, <2>2, <2>4 DEF by, change
<1>7. CASE ~IsText(talk, n) /\ ~IsReceipt(talk, n)
    <2>1. Received(talk, n) = IF Opens(talk, n) THEN session ELSE talk
        BY <1>7 DEF Received, session
    <2> QED BY <1>1, <1>7, <2>1 DEF by, change
<1> QED BY <1>5, <1>6, <1>7

-----------------------------------------------------------------------------
(* What else changes a conversation *)

\* The keys it uses and knows are as they were.
KeysSame(old, new) ==
    /\ new.named = old.named /\ new.keys = old.keys /\ new.known = old.known /\ new.first = old.first
    /\ new.dismissed = old.dismissed /\ new.change = old.change

LEMMA ShownParts ==
    ASSUME NEW talk \in TalkRow, NEW more \in SUBSET Notes, NEW h \in {0, 1}
    PROVE  /\ LET next == [talk EXCEPT !.shown = more]
              IN  next \in TalkRow /\ KeysSame(talk, next) /\ next.shown = more /\ next.read = talk.read
           /\ LET next == [talk EXCEPT !.hours = h]
              IN  next \in TalkRow /\ KeysSame(talk, next) /\ next.shown = talk.shown /\ next.read = talk.read
BY DEF TalkRow, KeysSame

LEMMA KeysParts ==
    ASSUME NEW talk \in TalkRow, NEW keys \in SUBSET Devices
    PROVE  LET next == [talk EXCEPT !.keys = keys]
           IN  /\ next \in TalkRow /\ next.keys = keys
               /\ next.named = talk.named /\ next.known = talk.known /\ next.first = talk.first
               /\ next.dismissed = talk.dismissed /\ next.change = talk.change
               /\ next.shown = talk.shown /\ next.read = talk.read
BY DEF TalkRow

LEMMA NoChangeRow == NoChange \in ChangeRow /\ NoChange.keys = {} /\ NoChange.kind = "none"
BY DEF NoChange, ChangeRow

LEMMA SoonestType ==
    ASSUME ChatType, NEW talk \in TalkRow, NEW n \in Notes
    PROVE  Soonest(talk, n) \in Nat
<1>1. talk.hours \in Nat /\ notes[n].until \in Nat /\ moment \in Nat
    BY DEF ChatType, TalkRow, NoteRow
<1>2. Until(talk.hours) \in Nat
    BY <1>1 DEF Until
<1> DEFINE both == {notes[n].until, Until(talk.hours)} \ {0}
<1>3. both \in SUBSET Nat
    BY <1>1, <1>2
<1>4. Soonest(talk, n) = IF both = {} THEN 0 ELSE Min(both)
    BY DEF Soonest
<1> HIDE DEF both
<1>5. both # {} => Min(both) \in Nat
    BY <1>3, MinIsLeast
<1> QED BY <1>4, <1>5

\* Notes are numbered as they are written.
Numbered == IsFiniteSet(Written) /\ Written = 1..Cardinality(Written)

LEMMA AddsNote ==
    ASSUME ChatType, Numbered, NEW note \in NoteRow, note.kind # "none", Adds(note)
    PROVE  /\ NextNote \in Notes /\ NextNote \notin Written
           /\ notes' \in [Notes -> NoteRow] /\ notes'[NextNote] = note
           /\ \A m \in Notes \ {NextNote} : notes'[m] = notes[m]
           /\ Written' = Written \cup {NextNote}
           /\ \A m \in Written : m < NextNote
           /\ Numbered'
<1>1. Cardinality(Written) \in Nat /\ NextNote \in Nat /\ NextNote >= 1
    BY FS_CardinalityType DEF Numbered, NextNote
<1>2. NextNote \in Notes
    <2>1. scene.notes \in Nat /\ 1..scene.notes \subseteq Notes
        BY ChatAssumption DEF ChatType
    <2>2. NextNote <= scene.notes
        BY DEF Adds
    <2>3. NextNote \in 1..scene.notes
        BY <1>1, <2>1, <2>2
    <2> QED BY <2>1, <2>3
<1>3. \A m \in Written : m < NextNote
    BY <1>1 DEF Numbered, NextNote
<1>4. NextNote \notin Written
    BY <1>1, <1>3
<1>5. /\ notes' \in [Notes -> NoteRow] /\ notes'[NextNote] = note
      /\ \A m \in Notes \ {NextNote} : notes'[m] = notes[m]
    BY <1>2 DEF Adds, ChatType
<1>6. Written' = Written \cup {NextNote}
    BY <1>2, <1>5 DEF Written
<1>7. IsFiniteSet(Written') /\ Cardinality(Written') = NextNote
    BY <1>4, <1>6, FS_AddElement DEF Numbered, NextNote
<1>8. Written' = 1..NextNote
    BY <1>1, <1>6 DEF Numbered, NextNote
<1> QED BY <1>2, <1>3, <1>4, <1>5, <1>6, <1>7, <1>8 DEF Numbered

-----------------------------------------------------------------------------
(* What an envelope does *)

PollsOk ==
    \A i \in Timers :
        /\ timers[i].step = "idle" => timers[i] = NotPolling
        /\ timers[i].step = "asking" =>
               timers[i].left # {} /\ timers[i].talk \in {1, 2} /\ talks[timers[i].talk].named
SendingOk ==
    sending.step # "idle" => sending.talk \in {1, 2} /\ sending.n \in Written /\ notes[sending.n].mine
\* The directory lists devices of the newest installation.
DirectoryOk ==
    listed # {} /\ \A k \in listed : installs[k] # 0 /\ \A d \in Devices : installs[d] <= installs[k]
Base == ChatType /\ Numbered /\ PollsOk /\ SendingOk /\ DirectoryOk /\ (open = 0 => ~selected)

\* Handled with the keys at hand, or with those the directory has named.
OnItsOwn(i, t, n) ==
    /\ Receive(i, t, talks[t], n, timers[i].asked)
    /\ notes[n].invite /\ talks[t].named => notes[n].by \in talks[t].keys \cup talks[t].known
Vouched(i, t, n, keys) ==
    /\ talks[t].named /\ notes[n].by \in keys
    /\ Receive(i, t, Noted(talks[t], keys, TRUE), n, keys)
Refused(i, t, n, keys) ==
    /\ talks[t].named
    /\ talks' = [talks EXCEPT ![t] = Noted(talks[t], keys, TRUE)]
    /\ timers' = Passed(timers, i, n, keys)
    /\ owed' = owed \cup (IF Noted(talks[t], keys, TRUE) = talks[t] THEN {} ELSE {"quiet"})
    /\ UNCHANGED <<opened, notes, signalled>>
Postponed(i, t, n) ==
    /\ \/ timers' = Left(timers, i, n) /\ timers[i].step = "handling"
       \/ timers' = Asked(timers, i, t) /\ talks[t].named
       \/ timers' = Unanswered(timers, i, n)
    /\ UNCHANGED <<talks, opened, notes, signalled, owed>>

LEMMA JudgeKinds ==
    ASSUME NEW i, NEW t, NEW n, NEW keys, talks[t].named, Judge(i, t, n, keys)
    PROVE  Vouched(i, t, n, keys) \/ Refused(i, t, n, keys)
BY DEF Judge, Vouched, Refused, Passed

LEMMA EnvelopeKinds ==
    ASSUME Base, NEW i \in Timers, Handle(i) \/ DirectoryAnswers(i)
    PROVE  /\ timers[i].step # "idle" /\ timers[i].left # {}
           /\ \E t \in {1, 2}, n \in timers[i].left :
                  \/ OnItsOwn(i, t, n)
                  \/ \E keys \in {timers[i].asked, listed} : Vouched(i, t, n, keys) \/ Refused(i, t, n, keys)
                  \/ Postponed(i, t, n)
           /\ open' = open \/ (open = 0 /\ open' = 2)
           /\ events' \in Nat
           /\ UNCHANGED <<scene, moment, sending, selected, blocked, screen, peerVars>>
<1> USE DEF Base
<1>0. timers[i].left \subseteq Nat
    BY ChatAssumption DEF ChatType, PollRow
<1>1. CASE Handle(i)
    <2> DEFINE n == Min(timers[i].left)
               t == IF open = 0 THEN 2 ELSE open
               asks == notes[n].invite /\ talks[t].named /\ notes[n].by \notin talks[t].keys \cup talks[t].known
    <2>1. timers[i].step = "handling" /\ timers[i].left # {} /\ open' = t
          /\ UNCHANGED <<scene, events, moment, sending, selected, blocked, screen, peerVars>>
        BY <1>1 DEF Handle
    <2>2. n \in timers[i].left /\ t \in {1, 2}
        BY <1>0, <2>1, MinIsLeast DEF ChatType
    <2>3. CASE ~asks
        <3>1. Receive(i, t, talks[t], n, timers[i].asked)
            BY <1>1, <2>3 DEF Handle
        <3>2. OnItsOwn(i, t, n)
            BY <2>3, <3>1 DEF OnItsOwn
        <3> QED BY <2>1, <2>2, <3>2 DEF ChatType
    <2>4. CASE asks /\ timers[i].asked # {}
        <3>1. Judge(i, t, n, timers[i].asked)
            BY <1>1, <2>4 DEF Handle
        <3>2. Vouched(i, t, n, timers[i].asked) \/ Refused(i, t, n, timers[i].asked)
            BY <2>4, <3>1, JudgeKinds
        <3> QED BY <2>1, <2>2, <3>2 DEF ChatType
    <2>5. CASE asks /\ timers[i].asked = {}
        <3>1. Postponed(i, t, n)
            BY <1>1, <2>5 DEF Handle, Postponed, Left, Asked
        <3> QED BY <2>1, <2>2, <3>1 DEF ChatType
    <2> QED BY <2>3, <2>4, <2>5
<1>2. CASE DirectoryAnswers(i)
    <2> DEFINE n == Min(timers[i].left)
               t == timers[i].talk
    <2>1. timers[i].step = "asking"
          /\ UNCHANGED <<scene, moment, sending, open, selected, blocked, screen, peerVars>>
        BY <1>2 DEF DirectoryAnswers
    <2>2. timers[i].left # {} /\ t \in {1, 2} /\ talks[t].named
        BY <2>1 DEF PollsOk
    <2>3. n \in timers[i].left
        BY <1>0, <2>2, MinIsLeast
    <2>4. events' \in Nat
        BY <1>2 DEF DirectoryAnswers, Event, ChatType
    <2>5. CASE Judge(i, t, n, listed)
        <3>1. Vouched(i, t, n, listed) \/ Refused(i, t, n, listed)
            BY <2>2, <2>5, JudgeKinds
        <3> QED BY <2>1, <2>2, <2>3, <2>4, <3>1
    <2>6. CASE ~Judge(i, t, n, listed)
        <3>1. Postponed(i, t, n)
            BY <1>2, <2>6 DEF DirectoryAnswers, Postponed, Unanswered
        <3> QED BY <2>1, <2>2, <2>3, <2>4, <3>1
    <2> QED BY <2>5, <2>6
<1> QED BY <1>1, <1>2

\* The conversation after an envelope, and the poll.
LEMMA EnvelopeTalk ==
    ASSUME Base, NEW i \in Timers, NEW t \in {1, 2}, NEW n \in timers[i].left,
           NEW base \in TalkRow, NEW asked \in SUBSET Devices, Receive(i, t, base, n, asked)
    PROVE  /\ talks' \in [{1, 2} -> TalkRow] /\ talks'[t] = Received(base, n)
           /\ \A u \in {1, 2} \ {t} : talks'[u] = talks[u]
           /\ timers' \in [Timers -> PollRow] /\ \A j \in Timers \ {i} : timers'[j] = timers[j]
           /\ timers'[i].step = "handling" /\ timers'[i].left = timers[i].left \ {n} /\ timers'[i].asked = asked
           /\ timers'[i].count = timers[i].count + (IF IsText(base, n) THEN 1 ELSE 0)
           /\ notes' \in [Notes -> NoteRow] /\ opened' \subseteq Notes /\ signalled' \in BOOLEAN
           /\ \A m \in Notes : /\ notes'[m].kind = notes[m].kind /\ notes'[m].mine = notes[m].mine
                               /\ notes'[m].by = notes[m].by /\ notes'[m].upTo = notes[m].upTo
<1> USE DEF Base
<1>0. n \in Notes
    BY DEF ChatType, PollRow
<1>1. Received(base, n) \in TalkRow
    BY <1>0, ReceivedParts
<1>2. talks' = [talks EXCEPT ![t] = Received(base, n)]
    BY ReceiveDoes DEF Receives
<1>3. /\ talks' \in [{1, 2} -> TalkRow] /\ talks'[t] = Received(base, n)
      /\ \A u \in {1, 2} \ {t} : talks'[u] = talks[u]
    BY <1>1, <1>2 DEF ChatType
<1>e. PICK c \in Nat : c = IF IsText(base, n) THEN 1 ELSE 0
    OBVIOUS
<1>4. timers' = Taken(timers, i, n, asked, c)
    BY <1>e, ReceiveDoes DEF Receives
<1>5. c \in Nat /\ timers \in [Timers -> PollRow] /\ i \in Timers /\ asked \in SUBSET Devices
    BY DEF ChatType
<1>b. /\ Taken(timers, i, n, asked, c) \in [Timers -> PollRow]
      /\ \A j \in Timers \ {i} : Taken(timers, i, n, asked, c)[j] = timers[j]
      /\ Taken(timers, i, n, asked, c)[i].step = "handling"
      /\ Taken(timers, i, n, asked, c)[i].left = timers[i].left \ {n}
      /\ Taken(timers, i, n, asked, c)[i].asked = asked
      /\ Taken(timers, i, n, asked, c)[i].count = timers[i].count + c
    <2>1. Polled(timers, Taken(timers, i, n, asked, c), i, timers[i].left \ {n}, asked, timers[i].count + c)
        BY ONLY <1>0, <1>5, PollTakes
    <2> QED BY ONLY <2>1 DEF Polled
<1>6. /\ timers' \in [Timers -> PollRow] /\ \A j \in Timers \ {i} : timers'[j] = timers[j]
      /\ timers'[i].step = "handling" /\ timers'[i].left = timers[i].left \ {n}
      /\ timers'[i].asked = asked /\ timers'[i].count = timers[i].count + c
    BY ONLY <1>4, <1>b
<1>7. notes' = IF IsText(base, n) THEN [notes EXCEPT ![n].until = Soonest(base, n)] ELSE notes
    BY ReceiveDoes DEF Receives
<1>8. Soonest(base, n) \in Nat
    BY <1>0, SoonestType
<1>9. /\ notes' \in [Notes -> NoteRow]
      /\ \A m \in Notes : /\ notes'[m].kind = notes[m].kind /\ notes'[m].mine = notes[m].mine
                          /\ notes'[m].by = notes[m].by /\ notes'[m].upTo = notes[m].upTo
    <2> DEFINE until == Soonest(base, n)
    <2>1. notes \in [Notes -> NoteRow] /\ notes' \in {notes, [notes EXCEPT ![n].until = until]}
        BY <1>7 DEF ChatType
    <2>2. until \in Nat
        BY <1>8
    <2> HIDE DEF until
    <2>3. CASE notes' = [notes EXCEPT ![n].until = until]
        <3>1. LET row == [notes[n] EXCEPT !.until = until]
              IN  /\ row \in NoteRow /\ row.kind = notes[n].kind /\ row.mine = notes[n].mine
                  /\ row.by = notes[n].by /\ row.upTo = notes[n].upTo
            BY <1>0, <2>1, <2>2 DEF NoteRow
        <3> QED BY <1>0, <2>1, <2>3, <3>1
    <2>4. CASE notes' = notes
        BY <2>1, <2>4
    <2> QED BY <2>1, <2>3, <2>4
<1>c. /\ opened' = IF Opens(base, n) THEN opened \cup {n} ELSE opened
      /\ signalled' = (signalled \/ IsReceipt(base, n))
    BY ReceiveDoes DEF Receives
<1>d. opened' \subseteq Notes
    BY <1>0, <1>c DEF ChatType
<1>10. opened' \subseteq Notes /\ signalled' \in BOOLEAN
    BY <1>c, <1>d, Zenon
<1> QED BY <1>3, <1>6, <1>9, <1>10, <1>e

LEMMA EnvelopeEffect ==
    ASSUME Base, NEW i \in Timers, Handle(i) \/ DirectoryAnswers(i)
    PROVE  /\ talks' \in [{1, 2} -> TalkRow] /\ timers' \in [Timers -> PollRow]
           /\ notes' \in [Notes -> NoteRow] /\ opened' \subseteq Notes /\ signalled' \in BOOLEAN
           /\ \A m \in Notes : /\ notes'[m].kind = notes[m].kind /\ notes'[m].mine = notes[m].mine
                               /\ notes'[m].by = notes[m].by /\ notes'[m].upTo = notes[m].upTo
           /\ \A t \in {1, 2} : talks[t].named => talks'[t].named
           /\ \A j \in Timers \ {i} : timers'[j] = timers[j]
           /\ timers'[i].step \in {"handling", "asking"}
           /\ timers'[i].step = "asking" =>
                  timers'[i].left # {} /\ timers'[i].talk \in {1, 2} /\ talks'[timers'[i].talk].named
           /\ timers'[i].asked \in {timers[i].asked, listed}
<1> USE DEF Base
<1>1. PICK t \in {1, 2}, n \in timers[i].left :
          \/ OnItsOwn(i, t, n)
          \/ \E keys \in {timers[i].asked, listed} : Vouched(i, t, n, keys) \/ Refused(i, t, n, keys)
          \/ Postponed(i, t, n)
    BY EnvelopeKinds
<1>2. n \in Notes /\ talks[t] \in TalkRow /\ \A keys \in {timers[i].asked, listed} : keys \in SUBSET Devices
    BY DEF ChatType, PollRow
<1>a. ASSUME NEW keys \in {timers[i].asked, listed}
      PROVE  Noted(talks[t], keys, TRUE) \in TalkRow /\ Noted(talks[t], keys, TRUE).named = talks[t].named
    <2>1. keys \in SUBSET Devices /\ TRUE \in BOOLEAN
        BY <1>2
    <2>2. Noted(talks[t], keys, TRUE) \in TalkRow
        BY <1>2, <2>1, DirectoryNoted
    <2>3. Noted(talks[t], keys, TRUE).named = talks[t].named
        <3>1. NotedAs(talks[t], keys, Changed(talks[t], keys, TRUE), Noted(talks[t], keys, TRUE))
            BY <1>2, <2>1, DirectoryNoted
        <3> QED BY <3>1 DEF NotedAs
    <2> QED BY <2>2, <2>3
<1>3. ASSUME NEW base \in TalkRow, NEW asked \in {timers[i].asked, listed}, Receive(i, t, base, n, asked),
             base.named = talks[t].named
      PROVE  /\ talks' \in [{1, 2} -> TalkRow] /\ timers' \in [Timers -> PollRow]
             /\ notes' \in [Notes -> NoteRow] /\ opened' \subseteq Notes /\ signalled' \in BOOLEAN
             /\ \A m \in Notes : /\ notes'[m].kind = notes[m].kind /\ notes'[m].mine = notes[m].mine
                                 /\ notes'[m].by = notes[m].by /\ notes'[m].upTo = notes[m].upTo
             /\ \A u \in {1, 2} : talks[u].named => talks'[u].named
             /\ \A j \in Timers \ {i} : timers'[j] = timers[j]
             /\ timers'[i].step = "handling" /\ timers'[i].asked \in {timers[i].asked, listed}
    <2>1. talks[t].named => Received(base, n).named
        <3>1. Opens(base, n) => Received(base, n).named
            BY <1>2, ReceivedParts
        <3>2. ~Opens(base, n) => Received(base, n) = base
            BY <1>2, ReceivedParts
        <3> QED BY <1>3, <3>1, <3>2
    <2> QED BY <1>2, <1>3, <2>1, EnvelopeTalk
<1>4. CASE OnItsOwn(i, t, n)
    BY <1>2, <1>3, <1>4 DEF OnItsOwn
<1>5. ASSUME NEW keys \in {timers[i].asked, listed}, Vouched(i, t, n, keys)
      PROVE  /\ talks' \in [{1, 2} -> TalkRow] /\ timers' \in [Timers -> PollRow]
             /\ notes' \in [Notes -> NoteRow] /\ opened' \subseteq Notes /\ signalled' \in BOOLEAN
             /\ \A m \in Notes : /\ notes'[m].kind = notes[m].kind /\ notes'[m].mine = notes[m].mine
                                 /\ notes'[m].by = notes[m].by /\ notes'[m].upTo = notes[m].upTo
             /\ \A u \in {1, 2} : talks[u].named => talks'[u].named
             /\ \A j \in Timers \ {i} : timers'[j] = timers[j]
             /\ timers'[i].step = "handling" /\ timers'[i].asked \in {timers[i].asked, listed}
    <2>1. Noted(talks[t], keys, TRUE) \in TalkRow /\ Noted(talks[t], keys, TRUE).named = talks[t].named
        BY <1>a
    <2> QED BY <1>3, <1>5, <2>1 DEF Vouched
<1>6. ASSUME NEW keys \in {timers[i].asked, listed}, Refused(i, t, n, keys)
      PROVE  /\ talks' \in [{1, 2} -> TalkRow] /\ timers' \in [Timers -> PollRow]
             /\ UNCHANGED <<notes, opened, signalled>>
             /\ \A u \in {1, 2} : talks[u].named => talks'[u].named
             /\ \A j \in Timers \ {i} : timers'[j] = timers[j]
             /\ timers'[i].step = "handling" /\ timers'[i].asked \in {timers[i].asked, listed}
    <2>1. Noted(talks[t], keys, TRUE) \in TalkRow /\ Noted(talks[t], keys, TRUE).named = talks[t].named
        BY <1>a
    <2>2. /\ talks' = [talks EXCEPT ![t] = Noted(talks[t], keys, TRUE)]
          /\ timers' = Passed(timers, i, n, keys)
          /\ UNCHANGED <<notes, opened, signalled>>
        BY <1>6 DEF Refused
    <2>3. timers \in [Timers -> PollRow] /\ keys \in SUBSET Devices
        BY <1>2 DEF ChatType
    <2>4. /\ timers' \in [Timers -> PollRow] /\ \A j \in Timers \ {i} : timers'[j] = timers[j]
          /\ timers'[i].step = "handling" /\ timers'[i].asked = keys
        BY <1>2, <2>2, <2>3, PollRefuses
    <2>5. talks' \in [{1, 2} -> TalkRow] /\ \A u \in {1, 2} : talks[u].named => talks'[u].named
        BY <2>1, <2>2 DEF ChatType
    <2> QED BY <2>2, <2>4, <2>5
<1>7. CASE Postponed(i, t, n)
    <2>1. UNCHANGED <<talks, opened, notes, signalled>>
        BY <1>7 DEF Postponed
    <2>2. timers \in [Timers -> PollRow]
        BY DEF ChatType
    <2>3. timers[i].step # "idle" /\ timers[i].left # {}
        BY EnvelopeKinds
    <2>4. CASE timers' = Left(timers, i, n) /\ timers[i].step = "handling"
        BY <1>2, <2>1, <2>2, <2>4, PollLeaves DEF ChatType
    <2>5. CASE timers' = Asked(timers, i, t) /\ talks[t].named
        <3>1. i \in Timers /\ t \in {1, 2}
            OBVIOUS
        <3>2. /\ timers' \in [Timers -> PollRow] /\ \A j \in Timers \ {i} : timers'[j] = timers[j]
              /\ timers'[i].step = "asking" /\ timers'[i].talk = t /\ timers'[i].left = timers[i].left
              /\ timers'[i].asked = timers[i].asked /\ timers'[i].count = timers[i].count
            BY ONLY <2>2, <2>5, <3>1, PollAsks
        <3> QED BY <1>2, <2>1, <2>3, <2>5, <3>2 DEF ChatType
    <2>6. CASE timers' = Unanswered(timers, i, n)
        BY <1>2, <2>1, <2>2, <2>6, PollGoesOn DEF ChatType
    <2> QED BY <1>7, <2>4, <2>5, <2>6 DEF Postponed
<1> QED BY <1>1, <1>4, <1>5, <1>6, <1>7 DEF ChatType

-----------------------------------------------------------------------------
(* What the other actions do to the conversations *)

\* A conversation whose keys and reading are left alone, and which shows no more.
Quieter(old, new) == KeysSame(old, new) /\ new.read = old.read /\ new.shown \subseteq old.shown

LEMMA PrunedParts ==
    ASSUME ChatType
    PROVE  Pruned \in [{1, 2} -> TalkRow] /\ \A t \in {1, 2} : Quieter(talks[t], Pruned[t])
<1>0. talks \in [{1, 2} -> TalkRow] /\ open \in {0, 1, 2}
    BY DEF ChatType
<1>1. CASE open = 0
    BY <1>0, <1>1 DEF Pruned, Quieter, KeysSame
<1>2. CASE open # 0
    <2> DEFINE more == {n \in talks[open].shown : ~Gone(n)}
               next == [talks[open] EXCEPT !.shown = more]
    <2>1. open \in {1, 2} /\ talks[open] \in TalkRow
        BY <1>0, <1>2
    <2>2. more \in SUBSET Notes /\ more \subseteq talks[open].shown /\ 0 \in {0, 1}
        BY <2>1 DEF TalkRow
    <2>3. Pruned = [talks EXCEPT ![open] = next]
        BY <1>0, <1>2 DEF Pruned
    <2> HIDE DEF more
    <2>4. next \in TalkRow /\ KeysSame(talks[open], next) /\ next.shown = more /\ next.read = talks[open].read
        BY <2>1, <2>2, ShownParts
    <2> HIDE DEF next
    <2>5. Pruned \in [{1, 2} -> TalkRow] /\ Pruned[open] = next
          /\ \A t \in {1, 2} \ {open} : Pruned[t] = talks[t]
        BY <1>0, <2>1, <2>3, <2>4
    <2>6. \A t \in {1, 2} : Quieter(talks[t], Pruned[t])
        BY <2>2, <2>4, <2>5 DEF Quieter, KeysSame
    <2> QED BY <2>5, <2>6
<1> QED BY <1>1, <1>2

\* The conversation a message is sent in.
Addressed(talk) == [Noted(talk, listed, TRUE) EXCEPT !.keys = @ \cup listed]

LEMMA AddressedParts ==
    ASSUME ChatType, NEW talk \in TalkRow
    PROVE  /\ Addressed(talk) \in TalkRow
           /\ Addressed(talk).keys = talk.keys \cup listed
           /\ Addressed(talk).named = talk.named /\ Addressed(talk).known = Noted(talk, listed, TRUE).known
           /\ Addressed(talk).first = Noted(talk, listed, TRUE).first
           /\ Addressed(talk).dismissed = talk.dismissed
           /\ Addressed(talk).change = Noted(talk, listed, TRUE).change
           /\ Addressed(talk).shown = talk.shown /\ Addressed(talk).read = talk.read
<1> DEFINE noted == Noted(talk, listed, TRUE)
           more == noted.keys \cup listed
<1>1. listed \in SUBSET Devices /\ TRUE \in BOOLEAN
    BY DEF ChatType
<1>2. noted \in TalkRow
    BY <1>1, DirectoryNoted
<1>3. /\ noted.named = talk.named /\ noted.keys = talk.keys /\ noted.dismissed = talk.dismissed
      /\ noted.shown = talk.shown /\ noted.read = talk.read
    <2>1. NotedAs(talk, listed, Changed(talk, listed, TRUE), Noted(talk, listed, TRUE))
        BY <1>1, DirectoryNoted
    <2> QED BY <2>1 DEF NotedAs
<1>4. more \in SUBSET Devices /\ Addressed(talk) = [noted EXCEPT !.keys = more]
    BY <1>1, <1>2 DEF Addressed, TalkRow
<1> HIDE DEF noted, more
<1>5. LET next == [noted EXCEPT !.keys = more]
      IN  /\ next \in TalkRow /\ next.keys = more
          /\ next.named = noted.named /\ next.known = noted.known /\ next.first = noted.first
          /\ next.dismissed = noted.dismissed /\ next.change = noted.change
          /\ next.shown = noted.shown /\ next.read = noted.read
    BY <1>2, <1>4, KeysParts
<1> QED BY <1>3, <1>4, <1>5 DEF noted, more

LEMMA SendParts ==
    ASSUME ChatType, Numbered, SendNote
    PROVE  /\ open \in {1, 2} /\ talks[open].named
           /\ talks' \in [{1, 2} -> TalkRow] /\ talks'[open] = Addressed(talks[open])
           /\ \A t \in {1, 2} \ {open} : talks'[t] = talks[t]
           /\ NextNote \in Notes /\ NextNote \notin Written
           /\ notes' \in [Notes -> NoteRow] /\ notes'[NextNote].kind = "text" /\ notes'[NextNote].mine
           /\ notes'[NextNote].by = First
           /\ \A m \in Notes \ {NextNote} : notes'[m] = notes[m]
           /\ Written' = Written \cup {NextNote}
           /\ \A m \in Written : m < NextNote
           /\ Numbered'
           /\ sending' = [step |-> "posted", n |-> NextNote, talk |-> open] /\ sending.step = "idle"
           /\ owed' # {}
<1>1. open \in {1, 2} /\ talks[open].named /\ talks[open] \in TalkRow /\ sending = NotSending
    BY DEF SendNote, ChatType
<1>2. talks' = [talks EXCEPT ![open] = Addressed(talks[open])]
    BY DEF SendNote, Addressed
<1>3. Addressed(talks[open]) \in TalkRow
    BY <1>1, AddressedParts
<1>4. /\ talks' \in [{1, 2} -> TalkRow] /\ talks'[open] = Addressed(talks[open])
      /\ \A t \in {1, 2} \ {open} : talks'[t] = talks[t]
    BY <1>1, <1>2, <1>3 DEF ChatType
<1> DEFINE until == Until(talks[open].hours)
           note == [NoNote EXCEPT !.kind = "text", !.mine = TRUE, !.until = until]
<1>5. until \in Nat
    BY <1>1 DEF Until, TalkRow, ChatType
<1>6. Adds(note)
    BY DEF SendNote
<1> HIDE DEF until
<1>7. note \in NoteRow /\ note.kind = "text" /\ note.mine /\ note.by = First
    <2>1. NoNote \in NoteRow /\ NoNote.by = First
        BY ChatAssumption DEF NoNote, NoteRow
    <2>2. \A row \in NoteRow, yes \in BOOLEAN :
              LET next == [row EXCEPT !.kind = "text", !.mine = yes, !.until = until]
              IN  next \in NoteRow /\ next.kind = "text" /\ next.mine = yes /\ next.by = row.by
        BY <1>5 DEF NoteRow
    <2>3. TRUE \in BOOLEAN
        OBVIOUS
    <2> HIDE DEF until
    <2> QED BY <2>1, <2>2, <2>3
<1>a. note.kind # "none"
    BY <1>7
<1> HIDE DEF note
<1>8. /\ NextNote \in Notes /\ NextNote \notin Written
      /\ notes' \in [Notes -> NoteRow] /\ notes'[NextNote] = note
      /\ \A m \in Notes \ {NextNote} : notes'[m] = notes[m]
      /\ Written' = Written \cup {NextNote} /\ \A m \in Written : m < NextNote
      /\ Numbered'
    BY <1>6, <1>7, <1>a, AddsNote
<1>9. sending' = [step |-> "posted", n |-> NextNote, talk |-> open] /\ owed' = owed \cup {"send"}
    BY DEF SendNote
<1>10. sending.step = "idle"
    BY <1>1 DEF NotSending
<1> QED BY <1>1, <1>4, <1>7, <1>8, <1>9, <1>10

\* What the peer posts, and with what device.
LEMMA PostsParts ==
    ASSUME ChatType, Numbered, NEW kind \in {"text", "read"}, NEW hours \in Nat, NEW upTo \in Nat,
           Posts(kind, hours, upTo)
    PROVE  /\ NextNote \in Notes /\ NextNote \notin Written
           /\ notes' \in [Notes -> NoteRow] /\ notes'[NextNote].kind = kind /\ ~notes'[NextNote].mine
           /\ notes'[NextNote].by \in listed /\ notes'[NextNote].upTo = upTo
           /\ \A m \in Notes \ {NextNote} : notes'[m] = notes[m]
           /\ Written' = Written \cup {NextNote}
           /\ \A m \in Written : m < NextNote
           /\ Numbered'
           /\ waiting' = waiting \cup {NextNote} /\ waiting' \subseteq Notes /\ paired' \subseteq Devices
<1> DEFINE Note(k) == [kind |-> kind, mine |-> FALSE, by |-> k, until |-> Until(hours),
                       invite |-> k \notin paired, upTo |-> upTo]
<1>1. PICK k \in listed : Adds(Note(k)) /\ waiting' = waiting \cup {NextNote} /\ paired' = paired \cup {k}
    BY DEF Posts
<1> DEFINE note == Note(k)
<1>2. Until(hours) \in Nat /\ k \in Devices /\ (k \notin paired) \in BOOLEAN
    BY DEF Until, ChatType
<1>3. note \in NoteRow /\ note.kind # "none"
    BY <1>2 DEF NoteRow
<1>4. note.kind = kind /\ ~note.mine /\ note.by = k /\ note.upTo = upTo /\ Adds(note)
    BY <1>1
<1> HIDE DEF note
<1>5. /\ NextNote \in Notes /\ NextNote \notin Written
      /\ notes' \in [Notes -> NoteRow] /\ notes'[NextNote] = note
      /\ \A m \in Notes \ {NextNote} : notes'[m] = notes[m]
      /\ Written' = Written \cup {NextNote} /\ \A m \in Written : m < NextNote
      /\ Numbered'
    BY <1>3, <1>4, AddsNote
<1>6. waiting' \subseteq Notes /\ paired' \subseteq Devices
    BY <1>1, <1>2, <1>5 DEF ChatType
<1> QED BY <1>1, <1>4, <1>5, <1>6

LEMMA AnsweredParts ==
    ASSUME Base, Answered
    PROVE  /\ talks' \in [{1, 2} -> TalkRow] /\ sending.step = "stored" /\ sending.n \in Written
           /\ \A t \in {1, 2} : /\ KeysSame(talks[t], talks'[t]) /\ talks'[t].read = talks[t].read
                                /\ talks'[t].shown \subseteq talks[t].shown \cup {sending.n}
           /\ sending' = NotSending /\ events' \in Nat
           /\ UNCHANGED <<scene, moment, notes, timers, open, selected, blocked, opened, signalled, peerVars>>
           /\ Draw \/ UNCHANGED <<talks, screen, owed>>
<1>1. /\ sending.step = "stored" /\ sending' = NotSending
      /\ UNCHANGED <<scene, moment, notes, timers, open, selected, blocked, opened, signalled, peerVars>>
      /\ Draw \/ UNCHANGED <<talks, screen, owed>>
    BY DEF Answered
<1> DEFINE t == sending.talk
           more == talks[t].shown \cup {sending.n}
           next == [talks[t] EXCEPT !.shown = more]
<1>2. t \in {1, 2} /\ sending.n \in Written /\ sending.n \in Notes
    BY <1>1 DEF Base, SendingOk, Written
<1>3. talks \in [{1, 2} -> TalkRow] /\ talks[t] \in TalkRow
    BY <1>2 DEF Base, ChatType
<1>4. more \in SUBSET Notes /\ 0 \in {0, 1}
    BY <1>2, <1>3 DEF TalkRow
<1>5. events' \in Nat
    BY DEF Answered, Event, Base, ChatType
<1>6. CASE talks' = [talks EXCEPT ![t] = next]
    <2> HIDE DEF more
    <2>1. next \in TalkRow /\ KeysSame(talks[t], next) /\ next.shown = more /\ next.read = talks[t].read
        BY <1>3, <1>4, ShownParts
    <2> HIDE DEF next
    <2>2. talks' \in [{1, 2} -> TalkRow] /\ talks'[t] = next /\ \A u \in {1, 2} \ {t} : talks'[u] = talks[u]
        BY <1>2, <1>3, <1>6, <2>1
    <2>3. \A u \in {1, 2} : /\ KeysSame(talks[u], talks'[u]) /\ talks'[u].read = talks[u].read
                            /\ talks'[u].shown \subseteq talks[u].shown \cup {sending.n}
        BY <2>1, <2>2 DEF KeysSame, more
    <2> QED BY <1>1, <1>2, <1>5, <2>2, <2>3
<1>7. CASE talks' = talks
    BY <1>1, <1>2, <1>3, <1>5, <1>7 DEF KeysSame
<1>8. talks' = [talks EXCEPT ![t] = next] \/ talks' = talks
    BY DEF Answered
<1> QED BY <1>6, <1>7, <1>8

\* What a banner announced is dismissed with it.
Dismissed(old, new) ==
    /\ new.named = old.named /\ new.keys = old.keys /\ new.known = old.known /\ new.first = old.first
    /\ new.dismissed = old.dismissed \cup old.change.keys /\ new.change.keys = {}
    /\ new.shown = old.shown /\ new.read = old.read

LEMMA DismissingParts ==
    ASSUME Base, AcknowledgeKeyChange
    PROVE  /\ talks' \in [{1, 2} -> TalkRow] /\ events' \in Nat
           /\ \A t \in {1, 2} : talks'[t] = talks[t] \/ Dismissed(talks[t], talks'[t])
           /\ UNCHANGED <<scene, moment, notes, timers, sending, open, selected, blocked, opened, signalled, peerVars>>
           /\ Draw
<1> DEFINE After(talk) == [talk EXCEPT !.change = NoChange, !.dismissed = @ \cup talk.change.keys]
<1>1. /\ UNCHANGED <<scene, moment, notes, timers, sending, open, selected, blocked, opened, signalled, peerVars>>
      /\ Draw /\ events' \in Nat
    BY DEF AcknowledgeKeyChange, Event, Base, ChatType
<1>2. talks' = [talks EXCEPT ![open] = After(talks[open])]
    BY DEF AcknowledgeKeyChange
<1>3. ASSUME NEW talk \in TalkRow
      PROVE  After(talk) \in TalkRow /\ Dismissed(talk, After(talk))
    <2> DEFINE keys == talk.dismissed \cup talk.change.keys
    <2>1. keys \in SUBSET Devices /\ NoChange \in ChangeRow /\ After(talk) = [talk EXCEPT !.change = NoChange, !.dismissed = keys]
        BY NoChangeRow DEF TalkRow, ChangeRow
    <2> HIDE DEF keys
    <2> HIDE DEF After
    <2>2. LET next == [talk EXCEPT !.change = NoChange, !.dismissed = keys]
          IN  /\ next \in TalkRow /\ next.keys = talk.keys
              /\ next.named = talk.named /\ next.known = talk.known /\ next.first = talk.first
              /\ next.dismissed = keys /\ next.change = NoChange
              /\ next.shown = talk.shown /\ next.read = talk.read
        BY <2>1 DEF TalkRow
    <2> QED BY <2>1, <2>2, NoChangeRow DEF Dismissed, keys
<1> HIDE DEF After
<1>4. talks \in [{1, 2} -> TalkRow] /\ open \in {0, 1, 2}
    BY DEF Base, ChatType
<1>5. CASE open = 0
    <2>1. talks' = talks
        BY <1>2, <1>4, <1>5
    <2> QED BY <1>1, <1>4, <2>1
<1>6. CASE open # 0
    <2>1. open \in {1, 2} /\ talks[open] \in TalkRow
        BY <1>4, <1>6
    <2>2. After(talks[open]) \in TalkRow /\ Dismissed(talks[open], After(talks[open]))
        BY <1>3, <2>1
    <2>3. /\ talks' \in [{1, 2} -> TalkRow] /\ talks'[open] = After(talks[open])
          /\ \A t \in {1, 2} \ {open} : talks'[t] = talks[t]
        BY <1>2, <1>4, <2>1, <2>2
    <2> QED BY <1>1, <2>2, <2>3
<1> QED BY <1>5, <1>6

\* A conversation that is deleted.
Deleted(old, new) ==
    /\ new.named = old.named /\ new.keys = {} /\ new.known = old.known /\ new.first = old.first
    /\ new.dismissed = old.dismissed /\ new.change = old.change /\ new.shown = {} /\ new.read = old.read

LEMMA ReaderParts ==
    ASSUME Base, Reader
    PROVE  /\ talks' \in [{1, 2} -> TalkRow] /\ events' \in Nat
           /\ \A t \in {1, 2} : Quieter(talks[t], talks'[t]) \/ Deleted(talks[t], talks'[t])
           /\ open' \in {0, 1, 2} /\ selected' \in BOOLEAN /\ blocked' \in BOOLEAN /\ (open' = 0 => ~selected')
           /\ UNCHANGED <<scene, moment, notes, timers, sending, opened, signalled, peerVars>>
           /\ Draw
<1>1. /\ open # 0 /\ selected
      /\ UNCHANGED <<scene, moment, notes, timers, sending, opened, signalled, peerVars>>
      /\ Draw
    BY DEF Reader
<1>b. events' \in Nat
    <2>1. events' = events + 1
        BY DEF Reader, Event
    <2> QED BY <2>1 DEF Base, ChatType
<1>2. open \in {1, 2} /\ talks \in [{1, 2} -> TalkRow] /\ talks[open] \in TalkRow
    BY <1>1 DEF Base, ChatType
<1>3. open' \in {0, 1, 2} /\ selected' \in BOOLEAN /\ blocked' \in BOOLEAN /\ (open' = 0 => ~selected')
    <2>1. \/ UNCHANGED <<open, selected, blocked>>
          \/ UNCHANGED <<open, selected>> /\ blocked' = ~blocked
          \/ open' = 0 /\ selected' = FALSE /\ UNCHANGED blocked
        BY DEF Reader
    <2>2. selected \in BOOLEAN /\ blocked \in BOOLEAN
        BY DEF Base, ChatType
    <2> QED BY <1>1, <1>2, <2>1, <2>2
<1>a. ASSUME NEW next \in TalkRow, Quieter(talks[open], next) \/ Deleted(talks[open], next),
             talks' = [talks EXCEPT ![open] = next]
      PROVE  /\ talks' \in [{1, 2} -> TalkRow]
             /\ \A t \in {1, 2} : Quieter(talks[t], talks'[t]) \/ Deleted(talks[t], talks'[t])
    <2>1. talks' \in [{1, 2} -> TalkRow] /\ talks'[open] = next /\ \A t \in {1, 2} \ {open} : talks'[t] = talks[t]
        BY <1>2, <1>a
    <2>2. \A t \in {1, 2} : Quieter(talks[t], talks[t])
        BY DEF Quieter, KeysSame
    <2> QED BY <1>a, <2>1, <2>2
<1>4. CASE talks' = [talks EXCEPT ![open] = SetDisappearing(talks[open])]
    <2> DEFINE h == 1 - talks[open].hours
    <2>1. h \in {0, 1} /\ {} \in SUBSET Notes /\ SetDisappearing(talks[open]) = [talks[open] EXCEPT !.hours = h]
        BY <1>2 DEF TalkRow, SetDisappearing
    <2> HIDE DEF h
    <2> DEFINE next == [talks[open] EXCEPT !.hours = h]
    <2>2. next \in TalkRow /\ KeysSame(talks[open], next) /\ next.shown = talks[open].shown /\ next.read = talks[open].read
        BY <1>2, <2>1, ShownParts
    <2> HIDE DEF next
    <2>3. Quieter(talks[open], next) /\ talks' = [talks EXCEPT ![open] = next]
        BY <1>4, <2>1, <2>2 DEF Quieter, next
    <2> QED BY <1>1, <1>b, <1>3, <1>a, <2>2, <2>3
<1>5. CASE \E n \in screen.shown : talks' = [talks EXCEPT ![open] = DeleteMessage(talks[open], n)]
    <2>1. PICK n : talks' = [talks EXCEPT ![open] = DeleteMessage(talks[open], n)]
        BY <1>5
    <2> DEFINE more == talks[open].shown \ {n}
               next == [talks[open] EXCEPT !.shown = more]
    <2>2. more \in SUBSET Notes /\ 0 \in {0, 1}
        BY <1>2 DEF TalkRow
    <2>3. talks' = [talks EXCEPT ![open] = next]
        BY <2>1 DEF DeleteMessage
    <2> HIDE DEF more
    <2>4. next \in TalkRow /\ KeysSame(talks[open], next) /\ next.shown = more /\ next.read = talks[open].read
        BY <1>2, <2>2, ShownParts
    <2> HIDE DEF next
    <2>5. Quieter(talks[open], next)
        BY <2>4 DEF Quieter, more
    <2> QED BY <1>1, <1>b, <1>3, <1>a, <2>3, <2>4, <2>5
<1>6. CASE talks' = [talks EXCEPT ![open].shown = {}, ![open].keys = {}]
    <2> DEFINE next == [talks[open] EXCEPT !.shown = {}, !.keys = {}]
    <2>2. /\ next \in TalkRow /\ next.keys = {}
          /\ next.named = talks[open].named /\ next.known = talks[open].known /\ next.first = talks[open].first
          /\ next.dismissed = talks[open].dismissed /\ next.change = talks[open].change
          /\ next.shown = {} /\ next.read = talks[open].read
        BY <1>2 DEF TalkRow
    <2>4. Deleted(talks[open], next)
        BY <2>2 DEF Deleted
    <2>3. talks' = [talks EXCEPT ![open] = next]
        BY <1>2, <1>6
    <2> HIDE DEF next
    <2> QED BY <1>1, <1>b, <1>3, <1>a, <2>2, <2>3, <2>4
<1>7. CASE talks' = talks
    <2>1. \A t \in {1, 2} : Quieter(talks[t], talks[t])
        BY DEF Quieter, KeysSame
    <2> QED BY <1>1, <1>b, <1>2, <1>3, <1>7, <2>1
<1>8. \/ talks' = [talks EXCEPT ![open] = SetDisappearing(talks[open])]
      \/ \E n \in screen.shown : talks' = [talks EXCEPT ![open] = DeleteMessage(talks[open], n)]
      \/ talks' = [talks EXCEPT ![open].shown = {}, ![open].keys = {}]
      \/ talks' = talks
    BY DEF Reader
<1> QED BY <1>4, <1>5, <1>6, <1>7, <1>8

-----------------------------------------------------------------------------
(* What every step keeps of the conversation's shape *)

LEMMA NewestInstalled ==
    ASSUME Base, NEW k \in listed
    PROVE  Max(Range(installs)) = installs[k]
<1>1. installs \in [Devices -> Nat] /\ k \in Devices /\ \A d \in Devices : installs[d] <= installs[k]
    BY DEF Base, ChatType, DirectoryOk
<1>2. installs[k] \in Range(installs) /\ \A x \in Range(installs) : x \in Nat /\ installs[k] >= x
    BY <1>1 DEF Range
<1>3. \A x \in Range(installs) : (\A y \in Range(installs) : x >= y) => x = installs[k]
    BY <1>1, <1>2
<1> QED BY <1>2, <1>3 DEF Max

LEMMA SameNotes ==
    ASSUME \A m \in Notes : notes'[m].kind = notes[m].kind
    PROVE  Written' = Written
BY DEF Written

\* Another device of the peer, of the installation it has or of a new one.
LEMMA DevicesKept ==
    ASSUME Base, PeerAddsDevice \/ PeerIsReplaced
    PROVE  /\ Base'
           /\ listed' \subseteq Devices
           /\ \A d \in Devices : installs[d] # 0 => installs'[d] = installs[d]
           /\ UNCHANGED <<talks, notes, timers, sending, onWay, theirs, overtaken, waiting, readerVars>>
<1>0. UNCHANGED <<talks, notes, timers, sending, onWay, theirs, overtaken, waiting, readerVars>>
    BY DEF PeerAddsDevice, PeerIsReplaced, readerVars
<1>1. PICK k \in {d \in Devices : installs[d] = 0} :
          \/ listed' = listed \cup {k} /\ installs' = [installs EXCEPT ![k] = Max(Range(installs))]
          \/ listed' = {k} /\ installs' = [installs EXCEPT ![k] = Max(Range(installs)) + 1]
    BY DEF PeerAddsDevice, PeerIsReplaced
<1>2. PICK l \in listed : Max(Range(installs)) = installs[l]
    BY NewestInstalled DEF Base, DirectoryOk
<1>3. /\ installs \in [Devices -> Nat] /\ l \in Devices /\ listed \subseteq Devices /\ installs[l] \in Nat
      /\ installs[l] # 0 /\ \A d \in Devices : installs[d] <= installs[l]
      /\ \A a \in listed : installs[a] # 0 /\ \A d \in Devices : installs[d] <= installs[a]
    BY DEF Base, ChatType, DirectoryOk
<1>4. \A a \in listed : installs[a] = installs[l]
    BY <1>3
<1>5. k \in Devices /\ k \notin listed
    BY <1>3
<1>6. ASSUME listed' = listed \cup {k}, installs' = [installs EXCEPT ![k] = installs[l]]
      PROVE  installs' \in [Devices -> Nat] /\ listed' \subseteq Devices /\ DirectoryOk'
    <2>1. /\ installs' \in [Devices -> Nat] /\ installs'[k] = installs[l]
          /\ \A d \in Devices \ {k} : installs'[d] = installs[d]
        BY <1>3, <1>5, <1>6
    <2>2. listed' \subseteq Devices /\ DirectoryOk'
        BY <1>3, <1>4, <1>5, <1>6, <2>1 DEF DirectoryOk
    <2> QED BY <2>1, <2>2
<1>7. ASSUME listed' = {k}, installs' = [installs EXCEPT ![k] = installs[l] + 1]
      PROVE  installs' \in [Devices -> Nat] /\ listed' \subseteq Devices /\ DirectoryOk'
    <2>1. /\ installs' \in [Devices -> Nat] /\ installs'[k] = installs[l] + 1
          /\ \A d \in Devices \ {k} : installs'[d] = installs[d]
        BY <1>3, <1>5, <1>7
    <2>2. listed' \subseteq Devices /\ DirectoryOk'
        BY <1>3, <1>5, <1>7, <2>1 DEF DirectoryOk
    <2> QED BY <2>1, <2>2
<1>8. installs' \in [Devices -> Nat] /\ listed' \subseteq Devices /\ DirectoryOk'
    BY <1>1, <1>2, <1>6, <1>7
<1>9. \A d \in Devices : installs[d] # 0 => installs'[d] = installs[d]
    BY <1>1, <1>3
<1>10. paired' \subseteq Devices /\ events' \in Nat /\ UNCHANGED <<scene, moment, receipted>>
    BY DEF PeerAddsDevice, PeerIsReplaced, Event, Base, ChatType
<1>11. ChatType'
    BY <1>0, <1>8, <1>10 DEF Base, ChatType, readerVars
<1>12. Numbered' /\ PollsOk' /\ SendingOk' /\ (open' = 0 => ~selected')
    BY <1>0 DEF Base, Numbered, Written, PollsOk, SendingOk, readerVars
<1> QED BY <1>0, <1>8, <1>9, <1>11, <1>12 DEF Base

\* What the peer writes, or a receipt it sends.
LEMMA PeerPostsParts ==
    ASSUME Base, PeerWrites \/ PeerReads
    PROVE  /\ Base'
           /\ NextNote \in Notes /\ NextNote \notin Written /\ ~notes'[NextNote].mine
           /\ notes'[NextNote].kind \in {"text", "read"}
           /\ notes'[NextNote].by \in listed
           /\ notes'[NextNote].kind = "read" => notes'[NextNote].upTo \in Range(theirs)
           /\ \A m \in Notes \ {NextNote} : notes'[m] = notes[m]
           /\ Written' = Written \cup {NextNote} /\ \A m \in Written : m < NextNote
           /\ waiting' = waiting \cup {NextNote}
           /\ UNCHANGED <<listed, installs, talks, timers, sending, onWay, theirs, overtaken, readerVars>>
<1>0. UNCHANGED <<scene, events, moment, listed, installs, talks, timers, sending, onWay, theirs, overtaken, readerVars>>
    BY DEF PeerWrites, PeerReads, readerVars
<1>1. \E kind \in {"text", "read"}, hours \in Nat, upTo \in Nat :
          Posts(kind, hours, upTo) /\ (kind = "read" => upTo \in Range(theirs))
    <2>1. CASE PeerWrites
        <3>1. PICK hours \in Nat : Posts("text", hours, 0)
            BY <2>1 DEF PeerWrites
        <3> QED BY <3>1
    <2>2. CASE PeerReads
        <3>1. theirs # <<>> /\ Posts("read", 0, Last(theirs)) /\ theirs \in Seq(Nat)
            BY <2>2 DEF PeerReads, Base, ChatType
        <3>2. Last(theirs) = theirs[Len(theirs)] /\ Len(theirs) \in DOMAIN theirs /\ theirs[Len(theirs)] \in Nat
            BY <3>1 DEF Last
        <3>3. Last(theirs) \in Range(theirs) /\ Last(theirs) \in Nat
            BY <3>2 DEF Range
        <3> QED BY <3>1, <3>3
    <2> QED BY <2>1, <2>2
<1>2. PICK kind \in {"text", "read"}, hours \in Nat, upTo \in Nat :
          Posts(kind, hours, upTo) /\ (kind = "read" => upTo \in Range(theirs))
    BY <1>1
<1>3. /\ NextNote \in Notes /\ NextNote \notin Written
      /\ notes' \in [Notes -> NoteRow] /\ notes'[NextNote].kind = kind /\ ~notes'[NextNote].mine
      /\ notes'[NextNote].by \in listed /\ notes'[NextNote].upTo = upTo
      /\ \A m \in Notes \ {NextNote} : notes'[m] = notes[m]
      /\ Written' = Written \cup {NextNote}
      /\ \A m \in Written : m < NextNote
      /\ Numbered'
      /\ waiting' = waiting \cup {NextNote} /\ waiting' \subseteq Notes /\ paired' \subseteq Devices
    BY <1>2, PostsParts DEF Base
<1>4. receipted' \in Nat
    <2>1. CASE PeerWrites
        BY <2>1 DEF PeerWrites, Base, ChatType
    <2>2. CASE PeerReads
        <3>1. theirs # <<>> /\ receipted' = Last(theirs) /\ theirs \in Seq(Nat)
            BY <2>2 DEF PeerReads, Base, ChatType
        <3> QED BY <3>1 DEF Last
    <2> QED BY <2>1, <2>2
<1>5. ChatType'
    BY <1>0, <1>3, <1>4 DEF Base, ChatType, readerVars
<1>6. SendingOk'
    BY <1>0, <1>3 DEF Base, SendingOk, Written, ChatType
<1>7. PollsOk' /\ DirectoryOk' /\ (open' = 0 => ~selected')
    BY <1>0 DEF Base, PollsOk, DirectoryOk, readerVars
<1> QED BY <1>0, <1>2, <1>3, <1>5, <1>6, <1>7 DEF Base

\* What the peer takes from the server.
LEMMA GetsParts ==
    ASSUME Base, PeerGets
    PROVE  /\ Base'
           /\ \E n \in onWay : /\ onWay' = onWay \ {n} /\ Range(theirs') = Range(theirs) \cup {n}
                               /\ ~overtaken' => \A m \in onWay' : n < m
           /\ overtaken => overtaken'
           /\ UNCHANGED <<listed, installs, talks, notes, timers, sending, waiting, readerVars>>
<1>0. UNCHANGED <<scene, events, moment, listed, installs, talks, notes, timers, sending, waiting, receipted, readerVars>>
    BY DEF PeerGets, readerVars
<1>1. PICK n \in onWay : /\ onWay' = onWay \ {n} /\ theirs' = Append(theirs, n)
                         /\ overtaken' = (overtaken \/ n # Min(onWay))
    BY DEF PeerGets
<1>2. onWay \subseteq Nat /\ theirs \in Seq(Nat) /\ n \in Nat /\ overtaken \in BOOLEAN
    BY DEF Base, ChatType
<1>3. theirs' \in Seq(Nat) /\ onWay' \subseteq Nat /\ overtaken' \in BOOLEAN /\ (overtaken => overtaken')
    BY <1>1, <1>2
<1>4. Range(theirs') = Range(theirs) \cup {n}
    <2>1. /\ DOMAIN theirs = 1..Len(theirs) /\ DOMAIN theirs' = 1..(Len(theirs) + 1) /\ Len(theirs) \in Nat
          /\ \A x \in 1..Len(theirs) : theirs'[x] = theirs[x]
          /\ theirs'[Len(theirs) + 1] = n
        BY <1>1, <1>2
    <2>2. DOMAIN theirs' = DOMAIN theirs \cup {Len(theirs) + 1}
        BY <2>1
    <2>3. \A x \in DOMAIN theirs : theirs'[x] = theirs[x]
        BY <2>1
    <2> QED BY ONLY <2>1, <2>2, <2>3 DEF Range
<1>5. ~overtaken' => \A m \in onWay' : n < m
    <2>1. \A m \in onWay : Min(onWay) <= m
        BY <1>2, MinIsLeast
    <2>2. ~overtaken' => n = Min(onWay)
        BY <1>1, <1>2, Zenon
    <2> SUFFICES ASSUME ~overtaken', NEW m \in onWay' PROVE n < m
        OBVIOUS
    <2>3. n <= m /\ m # n /\ m \in Nat
        BY <1>1, <1>2, <2>1, <2>2
    <2> QED BY <1>2, <2>3
<1>6. paired' \subseteq Devices
    BY DEF PeerGets, Base, ChatType
<1>7. ChatType'
    BY <1>0, <1>3, <1>6 DEF Base, ChatType, readerVars
<1>8. Numbered' /\ PollsOk' /\ SendingOk' /\ DirectoryOk' /\ (open' = 0 => ~selected')
    BY <1>0 DEF Base, Numbered, Written, PollsOk, SendingOk, DirectoryOk, readerVars
<1> QED BY <1>0, <1>1, <1>3, <1>4, <1>5, <1>7, <1>8 DEF Base

\* A poll begins.
LEMMA FetchParts ==
    ASSUME Base, NEW i \in Timers, Fetch(i)
    PROVE  /\ Base' /\ timers[i].step = "idle" /\ timers' \in [Timers -> PollRow]
           /\ timers'[i].step = "fetching" /\ timers'[i].left = {} /\ timers'[i].asked = {}
           /\ \A j \in Timers \ {i} : timers'[j] = timers[j]
           /\ \A t \in {1, 2} : Quieter(talks[t], talks'[t])
           /\ i = "view" => talks' = Pruned
           /\ i # "view" => talks' = talks
           /\ waiting' = waiting
           /\ UNCHANGED <<moment, listed, installs, notes, sending, onWay, theirs, overtaken, open, selected,
                          signalled>>
           /\ IF talks' = talks THEN UNCHANGED <<screen, owed>> ELSE Draw
<1> DEFINE poll == [NotPolling EXCEPT !.step = "fetching"]
<1>0. /\ timers[i] = NotPolling /\ timers' = [timers EXCEPT ![i].step = "fetching"]
      /\ talks' = IF i = "view" THEN Pruned ELSE talks
      /\ UNCHANGED <<scene, events, moment, listed, installs, paired, notes, waiting, sending, onWay, theirs,
                     receipted, overtaken, open, selected, blocked, opened, signalled>>
      /\ IF talks' = talks THEN UNCHANGED <<screen, owed>> ELSE Draw
    BY DEF Fetch, peerVars
<1>1. timers' = [timers EXCEPT ![i] = poll]
    BY <1>0 DEF Base, ChatType
<1>2. /\ poll \in PollRow /\ poll.step = "fetching" /\ poll.asked = {} /\ poll.left = {}
      /\ NotPolling.step = "idle"
    BY PollBegins
<1> HIDE DEF poll
<1>3. /\ timers' \in [Timers -> PollRow] /\ timers'[i] = poll
      /\ \A j \in Timers \ {i} : timers'[j] = timers[j]
    BY <1>1, <1>2 DEF Base, ChatType
<1>4. talks' \in [{1, 2} -> TalkRow] /\ \A t \in {1, 2} : Quieter(talks[t], talks'[t])
    <2>1. CASE i = "view"
        BY <1>0, <2>1, PrunedParts DEF Base
    <2>2. CASE i # "view"
        BY <1>0, <2>2 DEF Base, ChatType, Quieter, KeysSame
    <2> QED BY <2>1, <2>2
<1>5. ChatType'
    BY <1>0, <1>3, <1>4 DEF Base, ChatType
<1>6. PollsOk'
    <2>1. \A t \in {1, 2} : talks[t].named => talks'[t].named
        BY <1>4 DEF Quieter, KeysSame
    <2> QED BY <1>2, <1>3, <2>1 DEF Base, PollsOk
<1>7. Numbered' /\ SendingOk' /\ DirectoryOk' /\ (open' = 0 => ~selected')
    BY <1>0 DEF Base, Numbered, Written, SendingOk, DirectoryOk
<1> QED BY <1>0, <1>2, <1>3, <1>4, <1>5, <1>6, <1>7 DEF Base

\* Its answer comes, or none.
LEMMA EnvelopesComeParts ==
    ASSUME Base, NEW i \in Timers, EnvelopesCome(i)
    PROVE  /\ Base' /\ timers[i].step = "fetching" /\ timers' \in [Timers -> PollRow]
           /\ timers'[i].left \subseteq waiting /\ timers'[i].asked = {}
           /\ timers'[i].step = "handling" \/ timers'[i] = NotPolling
           /\ \A j \in Timers \ {i} : timers'[j] = timers[j]
           /\ \A t \in {1, 2} : Quieter(talks[t], talks'[t])
           /\ waiting' \subseteq waiting
           /\ \/ talks' = talks /\ owed' = owed
              \/ owed' # {}
           /\ timers'[i] = NotPolling => talks' = talks
           /\ UNCHANGED <<listed, installs, notes, sending, onWay, theirs, overtaken, open, selected, signalled,
                          screen>>
<1> DEFINE due == {n \in waiting : ~Gone(n)}
           poll == [NotPolling EXCEPT !.step = "handling", !.left = due]
<1>0. /\ timers[i].step = "fetching"
      /\ UNCHANGED <<scene, moment, listed, installs, paired, notes, sending, onWay, theirs, receipted,
                     overtaken, open, selected, blocked, opened, signalled, screen>>
      /\ \/ /\ timers' = [timers EXCEPT ![i] = poll] /\ waiting' = due /\ talks' = Pruned
            /\ owed' = (IF Pruned = talks THEN owed ELSE owed \cup {i}) /\ events' = events
         \/ /\ timers' = [timers EXCEPT ![i] = NotPolling] /\ UNCHANGED <<waiting, talks, owed>>
            /\ events' = events + 1
    BY DEF EnvelopesCome, Event
<1>1. due \subseteq waiting /\ due \in SUBSET Notes
    BY DEF Base, ChatType
<1> HIDE DEF due
<1>2. /\ poll \in PollRow /\ poll.step = "handling" /\ poll.asked = {} /\ poll.left = due
      /\ NotPolling \in PollRow /\ NotPolling.step = "idle" /\ NotPolling.asked = {} /\ NotPolling.left = {}
    BY <1>1, PollBegins DEF NotPolling
<1> HIDE DEF poll
<1>3. /\ timers' \in [Timers -> PollRow]
      /\ \A j \in Timers \ {i} : timers'[j] = timers[j]
      /\ \/ timers'[i] = poll /\ waiting' = due /\ talks' = Pruned
         \/ timers'[i] = NotPolling /\ UNCHANGED <<waiting, talks, owed>>
    BY <1>0, <1>2 DEF Base, ChatType
<1>4. talks' \in [{1, 2} -> TalkRow] /\ \A t \in {1, 2} : Quieter(talks[t], talks'[t])
    <2>1. CASE talks' = Pruned
        BY <2>1, PrunedParts DEF Base
    <2>2. CASE talks' = talks
        BY <2>2 DEF Base, ChatType, Quieter, KeysSame
    <2> QED BY <1>0, <2>1, <2>2
<1>5. ChatType'
    <2>1. waiting' \subseteq Notes /\ events' \in Nat
        BY <1>0, <1>1 DEF Base, ChatType
    <2> QED BY <1>0, <1>3, <1>4, <2>1 DEF Base, ChatType
<1>6. PollsOk'
    <2>1. \A t \in {1, 2} : talks[t].named => talks'[t].named
        BY <1>4 DEF Quieter, KeysSame
    <2> QED BY <1>2, <1>3, <2>1 DEF Base, PollsOk
<1>7. Numbered' /\ SendingOk' /\ DirectoryOk' /\ (open' = 0 => ~selected')
    BY <1>0 DEF Base, Numbered, Written, SendingOk, DirectoryOk
<1>8. waiting' \subseteq waiting
    BY <1>0, <1>1
<1>9. \/ talks' = talks /\ owed' = owed
      \/ owed' # {}
    BY <1>0
<1>10. timers'[i].left \subseteq waiting /\ timers'[i].asked = {}
    BY <1>1, <1>2, <1>3
<1>11. timers'[i].step = "handling" \/ timers'[i] = NotPolling
    BY <1>2, <1>3
<1>12. timers'[i] = NotPolling => talks' = talks
    BY <1>2, <1>3
<1> QED BY <1>0, <1>3, <1>4, <1>5, <1>6, <1>7, <1>8, <1>9, <1>10, <1>11, <1>12 DEF Base

\* A poll ends, whether or not what it did was saved and acknowledged.
LEMMA PollOverParts ==
    ASSUME Base, NEW i \in Timers, PollOver(i), waiting' \in SUBSET waiting, signalled' \in BOOLEAN,
           events' \in Nat
    PROVE  /\ Base' /\ timers[i].step = "handling" /\ timers' \in [Timers -> PollRow]
           /\ timers'[i] = NotPolling /\ timers'[i].step = "idle" /\ timers'[i].left = {} /\ timers'[i].asked = {}
           /\ \A j \in Timers \ {i} : timers'[j] = timers[j]
           /\ waiting' \subseteq waiting
           /\ UNCHANGED <<listed, installs, notes, sending, onWay, theirs, overtaken, talks, open, selected>>
<1>0. /\ timers[i].step = "handling" /\ timers' = [timers EXCEPT ![i] = NotPolling]
      /\ UNCHANGED <<scene, moment, listed, installs, paired, notes, sending, onWay, theirs, receipted,
                     overtaken, talks, open, selected, blocked, opened>>
    BY DEF PollOver
<1>1. NotPolling \in PollRow /\ NotPolling.step = "idle" /\ NotPolling.asked = {} /\ NotPolling.left = {}
    BY PollBegins DEF NotPolling
<1>2. /\ timers' \in [Timers -> PollRow] /\ timers'[i] = NotPolling
      /\ \A j \in Timers \ {i} : timers'[j] = timers[j]
    BY <1>0, <1>1 DEF Base, ChatType
<1>4. ChatType'
    BY <1>0, <1>2 DEF Base, ChatType
<1>5. PollsOk'
    BY <1>0, <1>1, <1>2 DEF Base, PollsOk
<1>6. Numbered' /\ SendingOk' /\ DirectoryOk' /\ (open' = 0 => ~selected')
    BY <1>0 DEF Base, Numbered, Written, SendingOk, DirectoryOk
<1> QED BY <1>0, <1>1, <1>2, <1>4, <1>5, <1>6 DEF Base

LEMMA FinishParts ==
    ASSUME Base, NEW i \in Timers, Finish(i) \/ FinishFails(i)
    PROVE  /\ Base' /\ timers[i].step = "handling" /\ timers' \in [Timers -> PollRow]
           /\ timers'[i] = NotPolling /\ timers'[i].step = "idle" /\ timers'[i].left = {} /\ timers'[i].asked = {}
           /\ \A j \in Timers \ {i} : timers'[j] = timers[j]
           /\ waiting' \subseteq waiting
           /\ UNCHANGED <<listed, installs, notes, sending, onWay, theirs, overtaken, talks, open, selected>>
           /\ IF Redraws(i) THEN Draw \/ owed' # {}
              ELSE UNCHANGED <<screen, owed>> /\ signalled' = signalled
<1>1. signalled \in BOOLEAN /\ events \in Nat
    BY DEF Base, ChatType
<1>2. /\ PollOver(i) /\ waiting' \in SUBSET waiting /\ signalled' \in BOOLEAN /\ events' \in Nat
      /\ IF Redraws(i) THEN Draw \/ owed' # {}
         ELSE UNCHANGED <<screen, owed>> /\ signalled' = signalled
    <2>1. CASE Finish(i)
        <3>1. /\ PollOver(i) /\ waiting' = waiting \ timers[i].handled
              /\ signalled' = (signalled /\ ~Redraws(i)) /\ events' = events
              /\ IF Redraws(i) THEN Draw ELSE UNCHANGED <<screen, owed>>
            BY <2>1 DEF Finish
        <3>2. signalled' \in BOOLEAN /\ (~Redraws(i) => signalled' = signalled)
            BY <1>1, <3>1, Zenon
        <3> QED BY <1>1, <3>1, <3>2
    <2>2. CASE FinishFails(i)
        <3>1. /\ PollOver(i) /\ events' = events + 1
              /\ waiting' \in {waiting, waiting \ timers[i].handled}
              /\ owed' = (IF Redraws(i) THEN owed \cup {i} ELSE owed)
              /\ UNCHANGED <<signalled, screen>>
            BY <2>2 DEF FinishFails, Event
        <3> QED BY <1>1, <3>1
    <2> QED BY <2>1, <2>2
<1> QED BY <1>2, PollOverParts

LEMMA EnvelopeKeepsBase ==
    ASSUME Base, NEW i \in Timers, Handle(i) \/ DirectoryAnswers(i)
    PROVE  Base'
<1>1. /\ talks' \in [{1, 2} -> TalkRow] /\ timers' \in [Timers -> PollRow]
      /\ notes' \in [Notes -> NoteRow] /\ opened' \subseteq Notes /\ signalled' \in BOOLEAN
      /\ \A m \in Notes : notes'[m].kind = notes[m].kind /\ notes'[m].mine = notes[m].mine
      /\ \A t \in {1, 2} : talks[t].named => talks'[t].named
      /\ \A j \in Timers \ {i} : timers'[j] = timers[j]
      /\ timers'[i].step \in {"handling", "asking"}
      /\ timers'[i].step = "asking" =>
             timers'[i].left # {} /\ timers'[i].talk \in {1, 2} /\ talks'[timers'[i].talk].named
    BY EnvelopeEffect
<1>2. /\ open' = open \/ (open = 0 /\ open' = 2)
      /\ events' \in Nat
      /\ UNCHANGED <<scene, moment, sending, selected, blocked, screen, peerVars>>
    BY EnvelopeKinds
<1>3. ChatType'
    BY <1>1, <1>2 DEF Base, ChatType, peerVars
<1>4. Written' = Written
    BY <1>1, SameNotes
<1>5. Numbered'
    BY <1>4 DEF Base, Numbered
<1>6. SendingOk'
    BY <1>1, <1>2, <1>4 DEF Base, SendingOk, Written
<1>7. PollsOk'
    BY <1>1 DEF Base, PollsOk
<1>8. DirectoryOk' /\ (open' = 0 => ~selected')
    BY <1>2 DEF Base, DirectoryOk, peerVars
<1> QED BY <1>3, <1>5, <1>6, <1>7, <1>8 DEF Base

\* An answer to the composer, or what the reader does to the conversation.
LEMMA PanelKeepsBase ==
    ASSUME Base, Answered \/ AcknowledgeKeyChange \/ Reader
    PROVE  Base'
<1>1. /\ talks' \in [{1, 2} -> TalkRow] /\ events' \in Nat
      /\ \A t \in {1, 2} : talks'[t].named = talks[t].named
      /\ open' \in {0, 1, 2} /\ selected' \in BOOLEAN /\ blocked' \in BOOLEAN /\ (open' = 0 => ~selected')
      /\ sending' \in {sending, NotSending}
      /\ UNCHANGED <<scene, moment, notes, timers, opened, signalled, peerVars>>
    <2>0. open \in {0, 1, 2} /\ selected \in BOOLEAN /\ blocked \in BOOLEAN /\ (open = 0 => ~selected)
        BY DEF Base, ChatType
    <2>1. CASE Answered
        BY <2>0, <2>1, AnsweredParts DEF KeysSame
    <2>2. CASE AcknowledgeKeyChange
        BY <2>0, <2>2, DismissingParts DEF Dismissed
    <2>3. CASE Reader
        BY <2>0, <2>3, ReaderParts DEF Quieter, KeysSame, Deleted
    <2> QED BY <2>1, <2>2, <2>3
<1>2. NotSending \in SendRow /\ NotSending.step = "idle"
    BY DEF NotSending, SendRow
<1>3. ChatType'
    BY <1>1, <1>2 DEF Base, ChatType, peerVars
<1>4. Numbered' /\ DirectoryOk'
    BY <1>1 DEF Base, Numbered, Written, DirectoryOk, peerVars
<1>5. SendingOk'
    BY <1>1, <1>2 DEF Base, SendingOk, Written
<1>6. PollsOk'
    BY <1>1 DEF Base, PollsOk
<1> QED BY <1>1, <1>3, <1>4, <1>5, <1>6 DEF Base

LEMMA SendKeepsBase ==
    ASSUME Base, SendNote
    PROVE  Base'
<1> DEFINE more == [step |-> "posted", n |-> NextNote, talk |-> open]
<1>1. /\ open \in {1, 2} /\ talks[open].named
      /\ talks' \in [{1, 2} -> TalkRow] /\ talks'[open] = Addressed(talks[open])
      /\ \A t \in {1, 2} \ {open} : talks'[t] = talks[t]
      /\ NextNote \in Notes
      /\ notes' \in [Notes -> NoteRow] /\ notes'[NextNote].kind = "text" /\ notes'[NextNote].mine
      /\ Written' = Written \cup {NextNote}
      /\ Numbered'
      /\ sending' = more
    BY SendParts DEF Base
<1>2. UNCHANGED <<scene, events, moment, timers, open, selected, blocked, opened, signalled, screen, peerVars>>
    BY DEF SendNote
<1>3. NextNote \in Nat
    BY <1>1, ChatAssumption
<1>4. more \in SendRow /\ more.step = "posted" /\ more.n = NextNote /\ more.talk = open
    BY <1>1, <1>3 DEF SendRow
<1> HIDE DEF more
<1>5. ChatType'
    BY <1>1, <1>2, <1>4 DEF Base, ChatType, peerVars
<1>6. SendingOk'
    BY <1>1, <1>2, <1>4 DEF SendingOk
<1>7. PollsOk'
    <2>1. talks[open] \in TalkRow
        BY <1>1 DEF Base, ChatType
    <2>2. Addressed(talks[open]).named = talks[open].named
        BY <2>1, AddressedParts DEF Base
    <2>3. \A t \in {1, 2} : talks'[t].named = talks[t].named
        BY <1>1, <2>2
    <2> QED BY <1>2, <2>3 DEF Base, PollsOk
<1>8. DirectoryOk' /\ (open' = 0 => ~selected')
    BY <1>2 DEF Base, DirectoryOk, peerVars
<1> QED BY <1>1, <1>5, <1>6, <1>7, <1>8 DEF Base

\* The server's side of a send.
LEMMA TakesParts ==
    ASSUME Base, ServerTakes
    PROVE  /\ Base' /\ sending.step = "posted"
           /\ \/ sending'.step = "stored" /\ sending'.n = sending.n /\ onWay' = onWay \cup {sending.n}
              \/ sending' = NotSending /\ sending'.step = "idle" /\ onWay' = onWay
           /\ UNCHANGED <<listed, installs, notes, waiting, theirs, overtaken, timers, readerVars>>
<1>0. /\ sending.step = "posted"
      /\ UNCHANGED <<scene, moment, listed, installs, paired, notes, waiting, theirs, receipted, overtaken,
                     timers, readerVars>>
    BY DEF ServerTakes
<1>1. \/ sending' = [sending EXCEPT !.step = "stored"] /\ onWay' = onWay \cup {sending.n}
      \/ sending' = NotSending /\ onWay' = onWay
    BY DEF ServerTakes
<1>2. events' \in Nat
    BY DEF ServerTakes, Event, Base, ChatType
<1>3. /\ \/ sending'.step = "stored" /\ sending'.n = sending.n /\ onWay' = onWay \cup {sending.n}
         \/ sending' = NotSending /\ sending'.step = "idle" /\ onWay' = onWay
      /\ sending' \in SendRow
      /\ sending'.step # "idle" => sending'.n = sending.n /\ sending'.talk = sending.talk
    BY <1>1 DEF Base, ChatType, SendRow, NotSending
<1>4. sending.n \in Nat
    BY DEF Base, ChatType, SendRow
<1>5. ChatType'
    BY <1>0, <1>2, <1>3, <1>4 DEF Base, ChatType, readerVars
<1>6. SendingOk'
    BY <1>0, <1>3 DEF Base, SendingOk, Written
<1>7. Numbered' /\ PollsOk' /\ DirectoryOk' /\ (open' = 0 => ~selected')
    BY <1>0 DEF Base, Numbered, Written, PollsOk, DirectoryOk, readerVars
<1> QED BY <1>0, <1>3, <1>5, <1>6, <1>7 DEF Base

LEMMA StillParts ==
    ASSUME Base, Select \/ HourPasses
    PROVE  /\ Base'
           /\ UNCHANGED <<notes, timers, sending, talks, open, signalled, peerVars>>
           /\ Draw \/ UNCHANGED <<selected, screen, owed>>
<1>1. /\ UNCHANGED <<scene, events, notes, timers, sending, talks, open, blocked, opened, signalled, peerVars>>
      /\ Draw \/ UNCHANGED <<selected, screen, owed>>
      /\ selected' = selected \/ (selected' = TRUE /\ open # 0)
      /\ moment' = moment \/ moment' = moment + 1
    BY DEF Select, HourPasses, readerVars
<1>2. selected' \in BOOLEAN /\ moment' \in Nat /\ (open' = 0 => ~selected')
    <2>1. selected \in BOOLEAN /\ moment \in Nat /\ (open = 0 => ~selected)
        BY DEF Base, ChatType
    <2>2. CASE selected' = selected
        BY <1>1, <2>1, <2>2
    <2>3. CASE selected' = TRUE /\ open # 0
        BY <1>1, <2>1, <2>3
    <2> QED BY <1>1, <2>2, <2>3
<1>a. ChatType'
    BY <1>1, <1>2 DEF Base, ChatType, peerVars
<1>3. Numbered' /\ PollsOk' /\ SendingOk' /\ DirectoryOk'
    BY <1>1 DEF Base, Numbered, Written, PollsOk, SendingOk, DirectoryOk, peerVars
<1> QED BY <1>1, <1>a, <1>2, <1>3 DEF Base

LEMMA BaseInit == ChatInit => Base
<1> SUFFICES ASSUME ChatInit PROVE Base
    OBVIOUS
<1>1. NewTalk(TRUE) \in TalkRow /\ NewTalk(FALSE) \in TalkRow
    BY NoChangeRow DEF NewTalk, TalkRow
<1>2. NoNote \in NoteRow /\ NoNote.kind = "none"
    BY ChatAssumption DEF NoNote, NoteRow
<1>3. NotSending \in SendRow /\ NotSending.step = "idle"
    BY DEF NotSending, SendRow
<1>4. NotPolling \in PollRow /\ NotPolling.step = "idle"
    BY PollBegins
<1>5. installs \in [Devices -> Nat] /\ listed = {First} /\ installs[First] = 1 /\ First \in Devices
      /\ \A d \in Devices : installs[d] <= 1
    BY ChatAssumption DEF ChatInit
<1>6. talks \in [{1, 2} -> TalkRow]
    <2>1. talks = <<NewTalk(TRUE), NewTalk(FALSE)>>
        BY DEF ChatInit
    <2>2. DOMAIN talks = 1..2 /\ talks[1] = NewTalk(TRUE) /\ talks[2] = NewTalk(FALSE)
        BY <2>1
    <2>3. talks = [t \in DOMAIN talks |-> talks[t]]
        BY <2>1
    <2>4. DOMAIN talks = {1, 2}
        BY <2>2
    <2> QED BY ONLY <1>1, <2>2, <2>3, <2>4
<1>7. ChatType
    <2>1. /\ notes \in [Notes -> NoteRow] /\ timers \in [Timers -> PollRow] /\ sending \in SendRow
          /\ theirs \in Seq(Nat) /\ listed \subseteq Devices
        BY <1>2, <1>3, <1>4, <1>5 DEF ChatInit
    <2>2. /\ scene \in Scenes /\ events \in Nat /\ moment \in Nat /\ paired \subseteq Devices
          /\ waiting \subseteq Notes /\ open \in {0, 1, 2} /\ selected \in BOOLEAN
          /\ blocked \in BOOLEAN /\ opened \subseteq Notes /\ onWay \subseteq Nat /\ receipted \in Nat
          /\ signalled \in BOOLEAN /\ overtaken \in BOOLEAN
        BY DEF ChatInit
    <2> QED BY <1>5, <1>6, <2>1, <2>2 DEF ChatType
<1>8. Written = {}
    BY <1>2 DEF ChatInit, Written
<1>9. Numbered
    BY <1>8, FS_EmptySet DEF Numbered
<1>10. PollsOk /\ SendingOk /\ (open = 0 => ~selected)
    BY <1>3, <1>4 DEF PollsOk, SendingOk, ChatInit
<1>11. DirectoryOk
    BY <1>5 DEF DirectoryOk
<1> QED BY <1>7, <1>9, <1>10, <1>11 DEF Base

LEMMA BaseKept == Base /\ [ChatNext]_chatVars => Base'
<1> SUFFICES ASSUME Base, [ChatNext]_chatVars PROVE Base'
    OBVIOUS
<1>1. CASE PeerAddsDevice \/ PeerIsReplaced
    BY <1>1, DevicesKept
<1>2. CASE PeerWrites \/ PeerReads
    BY <1>2, PeerPostsParts
<1>3. CASE PeerGets
    BY <1>3, GetsParts
<1>4. CASE \E i \in Timers : \/ Fetch(i) \/ EnvelopesCome(i) \/ Handle(i) \/ DirectoryAnswers(i)
                           \/ Finish(i) \/ FinishFails(i)
    BY <1>4, FetchParts, EnvelopesComeParts, FinishParts, EnvelopeKeepsBase
<1>5. CASE SendNote
    BY <1>5, SendKeepsBase
<1>6. CASE ServerTakes
    BY <1>6, TakesParts
<1>7. CASE Answered \/ AcknowledgeKeyChange \/ Reader
    BY <1>7, PanelKeepsBase
<1>8. CASE Select \/ HourPasses
    BY <1>8, StillParts
<1>9. CASE UNCHANGED chatVars
    BY <1>9 DEF chatVars, Base, ChatType, Numbered, Written, PollsOk, SendingOk, DirectoryOk
<1> QED BY <1>1, <1>2, <1>3, <1>4, <1>5, <1>6, <1>7, <1>8, <1>9 DEF ChatNext

-----------------------------------------------------------------------------
(* The panel *)

\* With nothing owed the panel is up to date, or the view's poll will redraw it.
ScreenInv ==
    owed = {} => \/ screen = Panel(talks, open, selected)
                 \/ /\ timers["view"].step \in {"handling", "asking"}
                    /\ timers["view"].count > 0 \/ signalled

LEMMA DrawDoes == Draw => ScreenInv' /\ screen' = Panel(talks', open', selected')
BY DEF Draw, ScreenInv

\* The panel is the same when what is drawn of the open conversation is.
SameDrawing(old, new) == new.shown = old.shown /\ new.read = old.read /\ new.change = old.change

LEMMA SamePanel ==
    ASSUME Base, open' = open \/ (open = 0 /\ open' = 2), selected' = selected,
           \A t \in {1, 2} : SameDrawing(talks[t], talks'[t])
    PROVE  Panel(talks', open', selected') = Panel(talks, open, selected)
<1>1. CASE selected /\ open # 0
    <2>1. open \in {1, 2} /\ open' = open /\ selected'
        BY <1>1 DEF Base, ChatType
    <2> QED BY <1>1, <2>1 DEF Panel, Drawn, SameDrawing
<1>2. CASE ~(selected /\ open # 0)
    <2>1. ~(selected' /\ open' # 0)
        BY <1>2 DEF Base
    <2> QED BY <1>2, <2>1 DEF Panel
<1> QED BY <1>1, <1>2

\* What an envelope changes on the panel is owed, or the poll knows of it.
EnvelopeShows(i) ==
    \/ owed' # {}
    \/ owed' = owed /\ \A t \in {1, 2} : SameDrawing(talks[t], talks'[t])
    \/ i = "view" /\ (timers'[i].count > 0 \/ signalled')

LEMMA ReceiveShows ==
    ASSUME Base, NEW i \in Timers, NEW t \in {1, 2}, NEW n \in timers[i].left, NEW base \in TalkRow,
           NEW asked \in SUBSET Devices, Receive(i, t, base, n, asked),
           base.shown = talks[t].shown, base.read = talks[t].read
    PROVE  /\ EnvelopeShows(i)
           /\ timers'[i].count >= timers[i].count /\ (signalled => signalled')
<1> DEFINE next == Received(base, n)
<1>0. n \in Notes /\ talks[t] \in TalkRow
    BY DEF Base, ChatType, PollRow
<1>1. /\ talks'[t] = next /\ \A u \in {1, 2} \ {t} : talks'[u] = talks[u]
      /\ timers'[i].count = timers[i].count + (IF IsText(base, n) THEN 1 ELSE 0)
    BY EnvelopeTalk
<1>2. timers[i].count \in Nat /\ signalled \in BOOLEAN
    BY DEF Base, ChatType, PollRow
<1>3. /\ signalled' = (signalled \/ IsReceipt(base, n))
      /\ owed' = IF next = talks[t] THEN owed
                 ELSE IF i = "shell" THEN owed \cup {"shell"}
                 ELSE IF IsText(base, n) \/ IsReceipt(base, n) \/ next.change = talks[t].change THEN owed
                 ELSE owed \cup {"quiet"}
    BY ReceiveDoes DEF Receives
<1>4. /\ next.shown = IF IsText(base, n) THEN base.shown \cup {n} ELSE base.shown
      /\ next.read = IF IsReceipt(base, n) THEN base.read \cup ReadBy(base, notes[n].upTo) ELSE base.read
    BY <1>0, ReceivedParts DEF Base
<1> HIDE DEF next
<1>5. timers'[i].count >= timers[i].count /\ (signalled => signalled')
    BY <1>1, <1>2, <1>3
<1>6. CASE next = talks[t]
    <2>1. \A u \in {1, 2} : SameDrawing(talks[u], talks'[u])
        BY <1>1, <1>6 DEF SameDrawing
    <2> QED BY <1>3, <1>5, <1>6, <2>1 DEF EnvelopeShows
<1>7. CASE next # talks[t] /\ i = "shell"
    BY <1>3, <1>5, <1>7 DEF EnvelopeShows
<1>8. CASE next # talks[t] /\ i = "view" /\ IsText(base, n)
    <2>1. timers'[i].count > 0
        BY <1>1, <1>2, <1>8
    <2> QED BY <1>5, <1>8, <2>1 DEF EnvelopeShows
<1>9. CASE next # talks[t] /\ i = "view" /\ IsReceipt(base, n)
    <2>1. signalled'
        BY <1>3, <1>9
    <2> QED BY <1>5, <1>9, <2>1 DEF EnvelopeShows
<1>10. CASE next # talks[t] /\ i = "view" /\ ~IsText(base, n) /\ ~IsReceipt(base, n)
    <2>1. next.shown = talks[t].shown /\ next.read = talks[t].read
        BY <1>4, <1>10
    <2>2. CASE next.change = talks[t].change
        <3>1. owed' = owed
            BY <1>3, <1>10, <2>2
        <3>2. \A u \in {1, 2} : SameDrawing(talks[u], talks'[u])
            BY <1>1, <2>1, <2>2 DEF SameDrawing
        <3> QED BY <1>5, <3>1, <3>2 DEF EnvelopeShows
    <2>3. CASE next.change # talks[t].change
        <3>1. owed' = owed \cup {"quiet"}
            BY <1>3, <1>10, <2>3
        <3> QED BY <1>5, <3>1 DEF EnvelopeShows
    <2> QED BY <2>2, <2>3
<1> QED BY <1>6, <1>7, <1>8, <1>9, <1>10 DEF Timers

LEMMA EnvelopePanel ==
    ASSUME Base, NEW i \in Timers, Handle(i) \/ DirectoryAnswers(i)
    PROVE  /\ EnvelopeShows(i)
           /\ timers'[i].count >= timers[i].count /\ (signalled => signalled')
<1>1. PICK t \in {1, 2}, n \in timers[i].left :
          \/ OnItsOwn(i, t, n)
          \/ \E keys \in {timers[i].asked, listed} : Vouched(i, t, n, keys) \/ Refused(i, t, n, keys)
          \/ Postponed(i, t, n)
    BY EnvelopeKinds
<1>2. /\ n \in Notes /\ talks[t] \in TalkRow /\ timers \in [Timers -> PollRow]
      /\ \A keys \in {timers[i].asked, listed} : keys \in SUBSET Devices
      /\ timers[i].count \in Nat /\ signalled \in BOOLEAN
    BY DEF Base, ChatType, PollRow
<1>3. CASE OnItsOwn(i, t, n)
    <2>1. Receive(i, t, talks[t], n, timers[i].asked) /\ timers[i].asked \in SUBSET Devices
        BY <1>2, <1>3 DEF OnItsOwn
    <2> QED BY <1>2, <2>1, ReceiveShows
<1>4. ASSUME NEW keys \in {timers[i].asked, listed}, Vouched(i, t, n, keys)
      PROVE  /\ EnvelopeShows(i)
             /\ timers'[i].count >= timers[i].count /\ (signalled => signalled')
    <2> DEFINE base == Noted(talks[t], keys, TRUE)
    <2>1. keys \in SUBSET Devices /\ TRUE \in BOOLEAN
        BY <1>2
    <2>2. base \in TalkRow
        BY <1>2, <2>1, DirectoryNoted
    <2>a. Noted(talks[t], keys, TRUE).shown = talks[t].shown
        <3>1. NotedAs(talks[t], keys, Changed(talks[t], keys, TRUE), Noted(talks[t], keys, TRUE))
            BY <1>2, <2>1, DirectoryNoted
        <3> QED BY <3>1 DEF NotedAs
    <2>b. Noted(talks[t], keys, TRUE).read = talks[t].read
        BY <1>2, <2>1, DirectoryNoted DEF NotedAs
    <2>3. base.shown = talks[t].shown /\ base.read = talks[t].read
        BY <2>a, <2>b
    <2>4. Receive(i, t, base, n, keys)
        BY <1>4 DEF Vouched
    <2> HIDE DEF base
    <2> QED BY <2>1, <2>2, <2>3, <2>4, ReceiveShows
<1>5. ASSUME NEW keys \in {timers[i].asked, listed}, Refused(i, t, n, keys)
      PROVE  /\ EnvelopeShows(i)
             /\ timers'[i].count >= timers[i].count /\ (signalled => signalled')
    <2> DEFINE base == Noted(talks[t], keys, TRUE)
    <2>1. keys \in SUBSET Devices /\ TRUE \in BOOLEAN
        BY <1>2
    <2>2. base \in TalkRow
        BY <1>2, <2>1, DirectoryNoted
    <2>4. /\ talks' = [talks EXCEPT ![t] = base]
          /\ timers' = Passed(timers, i, n, keys)
          /\ owed' = owed \cup (IF base = talks[t] THEN {} ELSE {"quiet"})
          /\ signalled' = signalled
        BY <1>5 DEF Refused
    <2> HIDE DEF base
    <2>5. timers'[i].count = timers[i].count
        BY <1>2, <2>1, <2>4, PollRefuses
    <2>6. CASE base = talks[t]
        <3>1. talks' = talks /\ owed' = owed
            BY <2>4, <2>6 DEF Base, ChatType
        <3> QED BY <1>2, <2>4, <2>5, <3>1 DEF EnvelopeShows, SameDrawing
    <2>7. CASE base # talks[t]
        BY <1>2, <2>4, <2>5, <2>7 DEF EnvelopeShows
    <2> QED BY <2>6, <2>7
<1>6. CASE Postponed(i, t, n)
    <2>1. UNCHANGED <<talks, signalled, owed>>
        BY <1>6 DEF Postponed
    <2>2. timers'[i].count = timers[i].count
        <3>1. CASE timers' = Left(timers, i, n)
            BY <1>2, <3>1, PollLeaves
        <3>2. CASE timers' = Asked(timers, i, t)
            BY <1>2, <3>2, PollAsks
        <3>3. CASE timers' = Unanswered(timers, i, n)
            BY <1>2, <3>3, PollGoesOn
        <3> QED BY <1>6, <3>1, <3>2, <3>3 DEF Postponed
    <2> QED BY <1>2, <2>1, <2>2 DEF EnvelopeShows, SameDrawing
<1> QED BY <1>1, <1>3, <1>4, <1>5, <1>6

LEMMA EnvelopeScreen ==
    ASSUME Base, ScreenInv, NEW i \in Timers, Handle(i) \/ DirectoryAnswers(i)
    PROVE  ScreenInv' /\ \A j \in Timers : (timers[j] = NotPolling) <=> (timers'[j] = NotPolling)
<1>1. /\ timers[i].step # "idle" /\ timers'[i].step \in {"handling", "asking"}
      /\ \A j \in Timers \ {i} : timers'[j] = timers[j]
    BY EnvelopeEffect, EnvelopeKinds
<1>2. \A j \in Timers : (timers[j] = NotPolling) <=> (timers'[j] = NotPolling)
    BY <1>1, PollBegins
<1>3. EnvelopeShows(i) /\ timers'[i].count >= timers[i].count /\ (signalled => signalled')
    BY EnvelopePanel
<1>4. (open' = open \/ (open = 0 /\ open' = 2)) /\ UNCHANGED <<selected, screen>>
    BY EnvelopeKinds
<1>5. timers[i].count \in Nat /\ timers'[i].count \in Nat /\ "view" \in Timers
    BY EnvelopeEffect DEF Base, ChatType, PollRow, Timers
<1>6. ASSUME timers["view"].step \in {"handling", "asking"} /\ (timers["view"].count > 0 \/ signalled)
      PROVE  timers'["view"].step \in {"handling", "asking"} /\ (timers'["view"].count > 0 \/ signalled')
    <2>1. CASE i = "view"
        BY <1>1, <1>3, <1>5, <1>6, <2>1
    <2>2. CASE i # "view"
        BY <1>1, <1>3, <1>5, <1>6, <2>2
    <2> QED BY <2>1, <2>2
<1>7. ScreenInv'
    <2> SUFFICES ASSUME owed' = {}
                 PROVE  \/ screen' = Panel(talks', open', selected')
                        \/ /\ timers'["view"].step \in {"handling", "asking"}
                           /\ timers'["view"].count > 0 \/ signalled'
        BY DEF ScreenInv
    <2>1. CASE i = "view" /\ (timers'[i].count > 0 \/ signalled')
        BY <1>1, <2>1
    <2>2. CASE owed' = owed /\ \A t \in {1, 2} : SameDrawing(talks[t], talks'[t])
        <3>1. Panel(talks', open', selected') = Panel(talks, open, selected)
            BY <1>4, <2>2, SamePanel
        <3> QED BY <1>4, <1>6, <2>2, <3>1 DEF ScreenInv
    <2> QED BY <1>3, <2>1, <2>2 DEF EnvelopeShows
<1> QED BY <1>2, <1>7

\* What the property asks of a step.
KeepsUp ==
    owed' = {} =>
        /\ TimerGoesOff \/ PollEnds => screen' = Panel(talks', open', selected')
        /\ TimerGoesOff => \A n \in screen'.shown : ~Gone(n)

LEMMA NothingGoesOff ==
    ASSUME (timers["view"] = NotPolling) <=> (timers'["view"] = NotPolling)
    PROVE  KeepsUp
BY DEF KeepsUp, TimerGoesOff, PollEnds

\* What the timer prunes is not on the panel.
LEMMA PrunedPanel ==
    ASSUME Base, talks' = Pruned, UNCHANGED <<open, selected>>
    PROVE  \A n \in Panel(talks', open', selected').shown : ~Gone(n)
<1>1. CASE open \in {1, 2}
    <2>1. talks'[open].shown = {n \in talks[open].shown : ~Gone(n)}
        BY <1>1 DEF Pruned, Base, ChatType, TalkRow
    <2>2. Panel(talks', open', selected').shown \subseteq talks'[open].shown
        BY DEF Panel, Drawn, Blank
    <2> QED BY <2>1, <2>2
<1>2. CASE open = 0
    BY <1>2 DEF Panel, Blank
<1> QED BY <1>1, <1>2 DEF Base, ChatType

LEMMA ScreenKept == Base /\ ScreenInv /\ [ChatNext]_chatVars => ScreenInv' /\ KeepsUp
<1> SUFFICES ASSUME Base, ScreenInv, [ChatNext]_chatVars PROVE ScreenInv' /\ KeepsUp
    OBVIOUS
<1>1. CASE \/ PeerAddsDevice \/ PeerIsReplaced \/ PeerWrites \/ PeerReads \/ PeerGets \/ ServerTakes
    <2>1. UNCHANGED <<talks, timers, open, selected, screen, owed, signalled>>
        BY <1>1, DevicesKept, PeerPostsParts, GetsParts, TakesParts DEF readerVars
    <2> QED BY <2>1, NothingGoesOff DEF ScreenInv
<1>2. CASE Select \/ HourPasses
    <2>1. /\ UNCHANGED <<timers, talks, open, signalled>>
          /\ Draw \/ UNCHANGED <<selected, screen, owed>>
        BY <1>2, StillParts
    <2>2. CASE Draw
        BY <2>1, <2>2, DrawDoes, NothingGoesOff
    <2>3. CASE UNCHANGED <<selected, screen, owed>>
        BY <2>1, <2>3, NothingGoesOff DEF ScreenInv
    <2> QED BY <2>1, <2>2, <2>3
<1>3. CASE AcknowledgeKeyChange \/ Reader
    <2>1. Draw /\ UNCHANGED timers
        BY <1>3, DismissingParts, ReaderParts
    <2> QED BY <2>1, DrawDoes, NothingGoesOff
<1>4. CASE Answered
    <2>1. /\ UNCHANGED <<timers, open, selected, signalled>>
          /\ Draw \/ UNCHANGED <<talks, screen, owed>>
        BY <1>4, AnsweredParts
    <2>2. CASE Draw
        BY <2>1, <2>2, DrawDoes, NothingGoesOff
    <2>3. CASE UNCHANGED <<talks, screen, owed>>
        BY <2>1, <2>3, NothingGoesOff DEF ScreenInv
    <2> QED BY <2>1, <2>2, <2>3
<1>5. CASE SendNote
    <2>1. owed' # {}
        BY <1>5, SendParts DEF Base
    <2> QED BY <2>1 DEF ScreenInv, KeepsUp
<1>6. ASSUME NEW i \in Timers, Handle(i) \/ DirectoryAnswers(i) PROVE ScreenInv' /\ KeepsUp
    BY <1>6, EnvelopeScreen, NothingGoesOff DEF Timers
<1>7. ASSUME NEW i \in Timers, Fetch(i) PROVE ScreenInv' /\ KeepsUp
    <2>1. /\ timers[i].step = "idle" /\ timers'[i].step = "fetching"
          /\ \A j \in Timers \ {i} : timers'[j] = timers[j]
          /\ UNCHANGED <<open, selected, signalled>>
          /\ i = "view" => talks' = Pruned
          /\ i # "view" => talks' = talks
          /\ IF talks' = talks THEN UNCHANGED <<screen, owed>> ELSE Draw
        BY <1>7, FetchParts
    <2>2. CASE i = "view"
        <3>1. owed' = {} => screen' = Panel(talks', open', selected')
            <4>1. CASE talks' = talks
                BY <2>1, <2>2, <4>1 DEF ScreenInv
            <4>2. CASE talks' # talks
                BY <2>1, <4>2, DrawDoes
            <4> QED BY <4>1, <4>2
        <3>2. \A n \in Panel(talks', open', selected').shown : ~Gone(n)
            BY <2>1, <2>2, PrunedPanel
        <3> QED BY <3>1, <3>2 DEF ScreenInv, KeepsUp
    <2>3. CASE i # "view"
        <3>1. timers'["view"] = timers["view"] /\ UNCHANGED <<talks, screen, owed, open, selected, signalled>>
            BY <2>1, <2>3 DEF Timers
        <3> QED BY <3>1, NothingGoesOff DEF ScreenInv
    <2> QED BY <2>2, <2>3
<1>10. ASSUME NEW i \in Timers, EnvelopesCome(i) PROVE ScreenInv' /\ KeepsUp
    <2>1. /\ timers[i].step = "fetching"
          /\ \A j \in Timers \ {i} : timers'[j] = timers[j]
          /\ \/ talks' = talks /\ owed' = owed
             \/ owed' # {}
          /\ UNCHANGED <<open, selected, signalled, screen>>
        BY <1>10, EnvelopesComeParts
    <2>2. CASE owed' # {}
        BY <2>2 DEF ScreenInv, KeepsUp
    <2>3. CASE i = "view" /\ talks' = talks /\ owed' = owed
        <3>1. owed' = {} => screen' = Panel(talks', open', selected')
            BY <2>1, <2>3 DEF ScreenInv
        <3>2. ~TimerGoesOff
            BY <2>1, <2>3, PollBegins DEF TimerGoesOff
        <3> QED BY <3>1, <3>2 DEF ScreenInv, KeepsUp
    <2>4. CASE i # "view" /\ talks' = talks /\ owed' = owed
        <3>1. timers'["view"] = timers["view"]
            BY <2>1, <2>4 DEF Timers
        <3> QED BY <2>1, <2>4, <3>1, NothingGoesOff DEF ScreenInv
    <2> QED BY <2>1, <2>2, <2>3, <2>4
<1>8. ASSUME NEW i \in Timers, Finish(i) \/ FinishFails(i) PROVE ScreenInv' /\ KeepsUp
    <2>1. /\ timers[i].step = "handling" /\ \A j \in Timers \ {i} : timers'[j] = timers[j]
          /\ UNCHANGED <<talks, open, selected>>
          /\ IF Redraws(i) THEN Draw \/ owed' # {}
             ELSE UNCHANGED <<screen, owed>> /\ signalled' = signalled
        BY <1>8, FinishParts
    <2>2. CASE i = "view"
        <3>1. owed' = {} => screen' = Panel(talks', open', selected')
            <4>1. CASE Redraws(i)
                BY <2>1, <4>1, DrawDoes
            <4>2. CASE ~Redraws(i)
                <5>1. ~(timers["view"].count > 0 \/ signalled)
                    BY <2>2, <4>2 DEF Redraws
                <5> QED BY <2>1, <4>2, <5>1 DEF ScreenInv
            <4> QED BY <4>1, <4>2
        <3>2. ~TimerGoesOff
            BY <2>1, <2>2, PollBegins DEF TimerGoesOff
        <3> QED BY <3>1, <3>2 DEF ScreenInv, KeepsUp
    <2>3. CASE i # "view"
        <3>1. timers'["view"] = timers["view"]
            BY <2>1, <2>3 DEF Timers
        <3>2. ~Redraws(i)
            BY <2>3 DEF Redraws
        <3> QED BY <2>1, <3>1, <3>2, NothingGoesOff DEF ScreenInv
    <2> QED BY <2>2, <2>3
<1>9. CASE UNCHANGED chatVars
    BY <1>9, NothingGoesOff DEF chatVars, ScreenInv
<1> QED BY <1>1, <1>2, <1>3, <1>4, <1>5, <1>6, <1>7, <1>8, <1>9, <1>10 DEF ChatNext

\* Whenever the view's timer goes off no expired message stays on the panel, and
\* then and when its poll has ended the panel is what the vault makes of the
\* conversation, for every number of devices, notes and hours, but for the
\* changes that ScreenKeepsUp names as drawn by nobody.
THEOREM PanelKeepsUp == ChatSpec => ScreenKeepsUp
<1>1. ChatInit => Base /\ ScreenInv
    <2>1. ChatInit => ScreenInv
        <3> SUFFICES ASSUME ChatInit PROVE screen = Panel(talks, open, selected)
            BY DEF ScreenInv
        <3>1. talks[1] = NewTalk(TRUE) /\ open = 1 /\ selected /\ screen = Blank
            BY DEF ChatInit
        <3>2. NewTalk(TRUE).shown = {} /\ NewTalk(TRUE).read = {} /\ NewTalk(TRUE).change = NoChange
            BY DEF NewTalk
        <3>3. Panel(talks, open, selected) = [shown |-> {}, read |-> {} \cap {}, change |-> NoChange]
            <4>1. Panel(talks, open, selected) = Drawn(talks, open)
                BY <3>1 DEF Panel
            <4>2. talks[open].shown = {} /\ talks[open].read = {} /\ talks[open].change = NoChange
                BY <3>1, <3>2, Zenon
            <4> QED BY <4>1, <4>2 DEF Drawn
        <3>4. {} \cap {} = {}
            OBVIOUS
        <3> QED BY <3>1, <3>3, <3>4 DEF Blank
    <2> QED BY <2>1, BaseInit
<1>2. Base /\ ScreenInv /\ [ChatNext]_chatVars => (Base /\ ScreenInv)' /\ KeepsUp
    BY BaseKept, ScreenKept
<1>3. KeepsUp => [KeepsUp]_chatVars
    OBVIOUS
<1> QED BY <1>1, <1>2, <1>3, PTL DEF ChatSpec, ScreenKeepsUp, KeepsUp

-----------------------------------------------------------------------------
(* What is marked as read *)

Sent == onWay \cup Range(theirs)
FromPeer(n) == n \in Written /\ ~notes[n].mine

\* A note that is read was sent before one the peer has had, unless that one
\* came before its turn.
ReadInv ==
    /\ \A n \in waiting : FromPeer(n)
    /\ \A i \in Timers : \A n \in timers[i].left : FromPeer(n)
    /\ Sent \subseteq Written
    /\ sending.step = "posted" => \A u \in Sent : u < sending.n
    /\ sending.step = "stored" => sending.n \in Sent
    /\ \A n \in Written : notes[n].kind = "read" => notes[n].upTo \in Range(theirs)
    /\ \A t \in {1, 2} : \A m \in talks[t].shown : m \in Written /\ (notes[m].mine => m \in Sent)
    /\ ~overtaken => /\ \A u \in Range(theirs), m \in onWay : u < m
                     /\ \A t \in {1, 2} : talks[t].read \subseteq Range(theirs)

\* What an envelope shows or marks.
Marks(n, old, new) ==
    /\ new.shown \subseteq old.shown \cup {n}
    /\ \/ new.read = old.read
       \/ notes[n].kind = "read" /\ new.read = old.read \cup ReadBy(old, notes[n].upTo)

LEMMA ReceiveMarks ==
    ASSUME Base, NEW i \in Timers, NEW t \in {1, 2}, NEW n \in timers[i].left, NEW base \in TalkRow,
           NEW asked \in SUBSET Devices, Receive(i, t, base, n, asked),
           base.shown = talks[t].shown, base.read = talks[t].read
    PROVE  timers'[i].left \subseteq timers[i].left /\ \A u \in {1, 2} : Marks(n, talks[u], talks'[u])
<1>0. n \in Notes
    BY DEF Base, ChatType, PollRow
<1>1. /\ talks'[t] = Received(base, n) /\ \A u \in {1, 2} \ {t} : talks'[u] = talks[u]
      /\ timers'[i].left = timers[i].left \ {n}
    BY EnvelopeTalk
<1>2. /\ Received(base, n).shown = IF IsText(base, n) THEN base.shown \cup {n} ELSE base.shown
      /\ Received(base, n).read = IF IsReceipt(base, n) THEN base.read \cup ReadBy(base, notes[n].upTo) ELSE base.read
    BY <1>0, ReceivedParts DEF Base
<1>3. ReadBy(base, notes[n].upTo) = ReadBy(talks[t], notes[n].upTo)
    BY DEF ReadBy
<1>4. IsReceipt(base, n) => notes[n].kind = "read"
    BY DEF IsReceipt
<1>5. Marks(n, talks[t], talks'[t])
    BY <1>1, <1>2, <1>3, <1>4 DEF Marks
<1>6. \A u \in {1, 2} \ {t} : Marks(n, talks[u], talks'[u])
    BY <1>1 DEF Marks
<1> QED BY <1>1, <1>5, <1>6

LEMMA EnvelopeMarks ==
    ASSUME Base, NEW i \in Timers, Handle(i) \/ DirectoryAnswers(i)
    PROVE  \E n \in timers[i].left :
               timers'[i].left \subseteq timers[i].left /\ \A u \in {1, 2} : Marks(n, talks[u], talks'[u])
<1>1. PICK t \in {1, 2}, n \in timers[i].left :
          \/ OnItsOwn(i, t, n)
          \/ \E keys \in {timers[i].asked, listed} : Vouched(i, t, n, keys) \/ Refused(i, t, n, keys)
          \/ Postponed(i, t, n)
    BY EnvelopeKinds
<1>2. /\ n \in Notes /\ talks[t] \in TalkRow /\ timers \in [Timers -> PollRow] /\ talks \in [{1, 2} -> TalkRow]
      /\ \A keys \in {timers[i].asked, listed} : keys \in SUBSET Devices
    BY DEF Base, ChatType, PollRow
<1>a. ASSUME NEW keys \in {timers[i].asked, listed}
      PROVE  /\ Noted(talks[t], keys, TRUE) \in TalkRow /\ Noted(talks[t], keys, TRUE).shown = talks[t].shown
             /\ Noted(talks[t], keys, TRUE).read = talks[t].read
    <2>1. keys \in SUBSET Devices /\ TRUE \in BOOLEAN
        BY <1>2
    <2>2. Noted(talks[t], keys, TRUE) \in TalkRow
        BY <1>2, <2>1, DirectoryNoted
    <2>3. Noted(talks[t], keys, TRUE).shown = talks[t].shown
        <3>1. NotedAs(talks[t], keys, Changed(talks[t], keys, TRUE), Noted(talks[t], keys, TRUE))
            BY <1>2, <2>1, DirectoryNoted
        <3> QED BY <3>1 DEF NotedAs
    <2>4. Noted(talks[t], keys, TRUE).read = talks[t].read
        BY <1>2, <2>1, DirectoryNoted DEF NotedAs
    <2> QED BY <2>2, <2>3, <2>4
<1>3. CASE OnItsOwn(i, t, n)
    <2>1. Receive(i, t, talks[t], n, timers[i].asked) /\ timers[i].asked \in SUBSET Devices
        BY <1>2, <1>3 DEF OnItsOwn
    <2> QED BY <1>2, <2>1, ReceiveMarks
<1>4. ASSUME NEW keys \in {timers[i].asked, listed}, Vouched(i, t, n, keys)
      PROVE  timers'[i].left \subseteq timers[i].left /\ \A u \in {1, 2} : Marks(n, talks[u], talks'[u])
    <2> DEFINE base == Noted(talks[t], keys, TRUE)
    <2>1. base \in TalkRow /\ base.shown = talks[t].shown /\ base.read = talks[t].read
        BY <1>a
    <2>2. Receive(i, t, base, n, keys) /\ keys \in SUBSET Devices
        BY <1>2, <1>4 DEF Vouched
    <2> HIDE DEF base
    <2> QED BY <2>1, <2>2, ReceiveMarks
<1>5. ASSUME NEW keys \in {timers[i].asked, listed}, Refused(i, t, n, keys)
      PROVE  timers'[i].left \subseteq timers[i].left /\ \A u \in {1, 2} : Marks(n, talks[u], talks'[u])
    <2> DEFINE base == Noted(talks[t], keys, TRUE)
    <2>1. base \in TalkRow /\ base.shown = talks[t].shown /\ base.read = talks[t].read
        BY <1>a
    <2>2. talks' = [talks EXCEPT ![t] = base] /\ timers' = Passed(timers, i, n, keys) /\ keys \in SUBSET Devices
        BY <1>2, <1>5 DEF Refused
    <2> HIDE DEF base
    <2>3. timers'[i].left = timers[i].left \ {n}
        BY <1>2, <2>2, PollRefuses
    <2>4. talks'[t] = base /\ \A u \in {1, 2} \ {t} : talks'[u] = talks[u]
        BY <1>2, <2>2
    <2>5. \A u \in {1, 2} : Marks(n, talks[u], talks'[u])
        BY <2>1, <2>4 DEF Marks
    <2> QED BY <2>3, <2>5
<1>6. CASE Postponed(i, t, n)
    <2>1. talks' = talks
        BY <1>6 DEF Postponed
    <2>2. timers'[i].left \subseteq timers[i].left
        <3>1. CASE timers' = Left(timers, i, n)
            BY <1>2, <3>1, PollLeaves
        <3>2. CASE timers' = Asked(timers, i, t)
            BY <1>2, <3>2, PollAsks
        <3>3. CASE timers' = Unanswered(timers, i, n)
            BY <1>2, <3>3, PollGoesOn
        <3> QED BY <1>6, <3>1, <3>2, <3>3 DEF Postponed
    <2> QED BY <2>1, <2>2 DEF Marks
<1> QED BY <1>1, <1>3, <1>4, <1>5, <1>6

LEMMA EnvelopeRead ==
    ASSUME Base, ReadInv, NEW i \in Timers, Handle(i) \/ DirectoryAnswers(i)
    PROVE  ReadInv'
<1>1. PICK n \in timers[i].left :
          timers'[i].left \subseteq timers[i].left /\ \A u \in {1, 2} : Marks(n, talks[u], talks'[u])
    BY EnvelopeMarks
<1>2. /\ \A m \in Notes : /\ notes'[m].kind = notes[m].kind /\ notes'[m].mine = notes[m].mine
                          /\ notes'[m].upTo = notes[m].upTo
      /\ \A j \in Timers \ {i} : timers'[j] = timers[j]
    BY EnvelopeEffect
<1>3. UNCHANGED <<sending, waiting, onWay, theirs, overtaken>>
    BY EnvelopeKinds DEF peerVars
<1>4. Written' = Written /\ Sent' = Sent /\ Written \subseteq Notes /\ Written \subseteq Nat
    BY <1>2, <1>3, SameNotes, ChatAssumption DEF Sent, Written
<1>5. FromPeer(n) /\ \A m : FromPeer(m) => FromPeer(m)'
    BY <1>2, <1>4 DEF ReadInv, FromPeer
<1>6. (\A m \in waiting' : FromPeer(m)') /\ \A j \in Timers : \A m \in timers'[j].left : FromPeer(m)'
    BY <1>1, <1>2, <1>3, <1>5 DEF ReadInv
<1>7. \A m \in Written' : notes'[m].kind = "read" => notes'[m].upTo \in Range(theirs')
    BY <1>2, <1>3, <1>4 DEF ReadInv
<1>8. \A t \in {1, 2} : \A m \in talks'[t].shown : m \in Written' /\ (notes'[m].mine => m \in Sent')
    <2> SUFFICES ASSUME NEW t \in {1, 2}, NEW m \in talks'[t].shown
                 PROVE  m \in Written' /\ (notes'[m].mine => m \in Sent')
        OBVIOUS
    <2>1. m \in talks[t].shown \/ m = n
        BY <1>1 DEF Marks
    <2> QED BY <1>2, <1>4, <1>5, <2>1 DEF ReadInv, FromPeer
<1>9. ~overtaken' => \A t \in {1, 2} : talks'[t].read \subseteq Range(theirs')
    <2> SUFFICES ASSUME ~overtaken, NEW t \in {1, 2} PROVE talks'[t].read \subseteq Range(theirs)
        BY <1>3
    <2>1. talks[t].read \subseteq Range(theirs)
        BY DEF ReadInv
    <2>2. ASSUME notes[n].kind = "read" PROVE ReadBy(talks[t], notes[n].upTo) \subseteq Range(theirs)
        <3>1. notes[n].upTo \in Range(theirs)
            BY <1>5, <2>2 DEF ReadInv, FromPeer
        <3> SUFFICES ASSUME NEW m \in talks[t].shown, notes[m].mine, m <= notes[n].upTo PROVE m \in Range(theirs)
            BY DEF ReadBy
        <3>2. m \in Sent /\ m \in Written
            BY DEF ReadInv
        <3>3. m \in onWay => notes[n].upTo < m
            BY <3>1 DEF ReadInv
        <3>4. m \in Nat /\ notes[n].upTo \in Nat
            BY <1>4, <3>1, <3>2 DEF ReadInv, Sent
        <3> QED BY <3>2, <3>3, <3>4 DEF Sent
    <2> QED BY <1>1, <2>1, <2>2 DEF Marks
<1> QED BY <1>3, <1>4, <1>6, <1>7, <1>8, <1>9 DEF ReadInv

LEMMA ReadKept == Base /\ ReadInv /\ [ChatNext]_chatVars => ReadInv'
<1> SUFFICES ASSUME Base, ReadInv, [ChatNext]_chatVars PROVE ReadInv'
    OBVIOUS
<1>0. Written \subseteq Notes /\ Notes \subseteq Nat
    BY ChatAssumption DEF Written
<1>1. CASE PeerAddsDevice \/ PeerIsReplaced
    <2>1. UNCHANGED <<talks, notes, timers, sending, onWay, theirs, overtaken, waiting>>
        BY <1>1, DevicesKept
    <2> QED BY <2>1 DEF ReadInv, Sent, FromPeer, Written
<1>2. CASE PeerWrites \/ PeerReads
    <2>1. /\ NextNote \in Notes /\ NextNote \notin Written /\ ~notes'[NextNote].mine
          /\ notes'[NextNote].kind = "read" => notes'[NextNote].upTo \in Range(theirs)
          /\ \A m \in Notes \ {NextNote} : notes'[m] = notes[m]
          /\ Written' = Written \cup {NextNote}
          /\ waiting' = waiting \cup {NextNote}
          /\ UNCHANGED <<talks, timers, sending, onWay, theirs, overtaken>>
        BY <1>2, PeerPostsParts DEF readerVars
    <2>2. \A m \in Written : m \in Written' /\ notes'[m] = notes[m]
        BY <1>0, <2>1
    <2>3. \A m : FromPeer(m) => FromPeer(m)'
        BY <2>2 DEF FromPeer
    <2>4. \A m : m = NextNote => FromPeer(m)'
        BY <2>1 DEF FromPeer
    <2>5. Sent' = Sent
        BY <2>1 DEF Sent
    <2>6. \A m \in Written' : notes'[m].kind = "read" => notes'[m].upTo \in Range(theirs')
        BY <2>1, <2>2 DEF ReadInv
    <2>7. \A t \in {1, 2} : \A m \in talks'[t].shown : m \in Written' /\ (notes'[m].mine => m \in Sent')
        BY <2>1, <2>2, <2>5 DEF ReadInv
    <2>8. (\A m \in waiting' : FromPeer(m)') /\ \A j \in Timers : \A m \in timers'[j].left : FromPeer(m)'
        BY <2>1, <2>3, <2>4 DEF ReadInv
    <2> QED BY <2>1, <2>5, <2>6, <2>7, <2>8 DEF ReadInv
<1>3. CASE PeerGets
    <2>1. PICK n \in onWay : /\ onWay' = onWay \ {n} /\ Range(theirs') = Range(theirs) \cup {n}
                             /\ ~overtaken' => \A m \in onWay' : n < m
        BY <1>3, GetsParts
    <2>2. (overtaken => overtaken') /\ UNCHANGED <<talks, notes, timers, sending, waiting>>
        BY <1>3, GetsParts
    <2>3. Sent' = Sent /\ Range(theirs) \subseteq Range(theirs')
        BY <2>1 DEF Sent
    <2>4. ~overtaken' => \A u \in Range(theirs'), m \in onWay' : u < m
        BY <2>1, <2>2 DEF ReadInv
    <2>5. ~overtaken' => \A t \in {1, 2} : talks'[t].read \subseteq Range(theirs')
        BY <2>2, <2>3 DEF ReadInv
    <2>6. Written' = Written /\ \A m : FromPeer(m)' <=> FromPeer(m)
        BY <2>2 DEF Written, FromPeer
    <2> QED BY <2>2, <2>3, <2>4, <2>5, <2>6 DEF ReadInv
<1>4. ASSUME NEW i \in Timers, Fetch(i) \/ EnvelopesCome(i) PROVE ReadInv'
    <2>1. /\ timers'[i].left \subseteq waiting /\ \A j \in Timers \ {i} : timers'[j] = timers[j]
          /\ \A t \in {1, 2} : Quieter(talks[t], talks'[t])
          /\ waiting' \subseteq waiting
          /\ UNCHANGED <<notes, sending, onWay, theirs, overtaken>>
        BY <1>4, FetchParts, EnvelopesComeParts
    <2>2. Written' = Written /\ Sent' = Sent /\ \A m : FromPeer(m)' <=> FromPeer(m)
        BY <2>1 DEF Written, Sent, FromPeer
    <2>3. (\A m \in waiting' : FromPeer(m)') /\ \A j \in Timers : \A m \in timers'[j].left : FromPeer(m)'
        BY <2>1, <2>2 DEF ReadInv
    <2>4. \A t \in {1, 2} : talks'[t].shown \subseteq talks[t].shown /\ talks'[t].read = talks[t].read
        BY <2>1 DEF Quieter
    <2> QED BY <2>1, <2>2, <2>3, <2>4 DEF ReadInv
<1>5. ASSUME NEW i \in Timers, Handle(i) \/ DirectoryAnswers(i) PROVE ReadInv'
    BY <1>5, EnvelopeRead
<1>6. ASSUME NEW i \in Timers, Finish(i) \/ FinishFails(i) PROVE ReadInv'
    <2>1. /\ timers'[i].left = {} /\ \A j \in Timers \ {i} : timers'[j] = timers[j]
          /\ waiting' \subseteq waiting
          /\ UNCHANGED <<notes, sending, onWay, theirs, overtaken, talks>>
        BY <1>6, FinishParts
    <2>2. Written' = Written /\ Sent' = Sent /\ \A m : FromPeer(m)' <=> FromPeer(m)
        BY <2>1 DEF Written, Sent, FromPeer
    <2> QED BY <2>1, <2>2 DEF ReadInv
<1>7. CASE SendNote
    <2>1. /\ NextNote \in Notes /\ NextNote \notin Written
          /\ notes'[NextNote].kind = "text"
          /\ \A m \in Notes \ {NextNote} : notes'[m] = notes[m]
          /\ Written' = Written \cup {NextNote} /\ \A m \in Written : m < NextNote
          /\ sending' = [step |-> "posted", n |-> NextNote, talk |-> open]
          /\ open \in {1, 2} /\ talks'[open] = Addressed(talks[open])
          /\ \A t \in {1, 2} \ {open} : talks'[t] = talks[t]
        BY <1>7, SendParts DEF Base
    <2>2. UNCHANGED <<timers, waiting, onWay, theirs, overtaken>>
        BY <1>7 DEF SendNote, peerVars
    <2>3. \A m \in Written : m \in Written' /\ notes'[m] = notes[m]
        BY <1>0, <2>1
    <2>4. Sent' = Sent /\ \A m : FromPeer(m) => FromPeer(m)'
        BY <2>2, <2>3 DEF Sent, FromPeer
    <2>5. talks[open] \in TalkRow
        BY <2>1 DEF Base, ChatType
    <2>6. Addressed(talks[open]).shown = talks[open].shown
        BY <2>5, AddressedParts DEF Base
    <2>7. Addressed(talks[open]).read = talks[open].read
        BY <2>5, AddressedParts DEF Base
    <2>8. \A t \in {1, 2} : talks'[t].shown = talks[t].shown /\ talks'[t].read = talks[t].read
        BY <2>1, <2>6, <2>7
    <2>9. (\A m \in waiting' : FromPeer(m)') /\ \A j \in Timers : \A m \in timers'[j].left : FromPeer(m)'
        BY <2>2, <2>4 DEF ReadInv
    <2>10. \A t \in {1, 2} : \A m \in talks'[t].shown : m \in Written' /\ (notes'[m].mine => m \in Sent')
        BY <2>3, <2>4, <2>8 DEF ReadInv
    <2>11. \A m \in Written' : notes'[m].kind = "read" => notes'[m].upTo \in Range(theirs')
        BY <2>1, <2>2, <2>3 DEF ReadInv
    <2>12. sending'.step = "posted" /\ sending'.n = NextNote /\ \A u \in Sent' : u < sending'.n
        BY <2>1, <2>4 DEF ReadInv
    <2> QED BY <2>1, <2>2, <2>4, <2>8, <2>9, <2>10, <2>11, <2>12 DEF ReadInv
<1>8. CASE ServerTakes
    <2>1. /\ sending.step = "posted"
          /\ \/ sending'.step = "stored" /\ sending'.n = sending.n /\ onWay' = onWay \cup {sending.n}
             \/ sending'.step = "idle" /\ onWay' = onWay
          /\ UNCHANGED <<notes, waiting, theirs, overtaken, timers, talks>>
        BY <1>8, TakesParts DEF readerVars
    <2>2. sending.n \in Written /\ \A u \in Sent : u < sending.n
        BY <2>1 DEF Base, SendingOk, ReadInv
    <2>3. Written' = Written /\ Sent \subseteq Sent' /\ Sent' \subseteq Written' /\ \A m : FromPeer(m)' <=> FromPeer(m)
        BY <2>1, <2>2 DEF Written, Sent, FromPeer, ReadInv
    <2>4. ~overtaken' => \A u \in Range(theirs'), m \in onWay' : u < m
        BY <2>1, <2>2 DEF ReadInv, Sent
    <2>5. sending'.step # "posted" /\ (sending'.step = "stored" => sending'.n \in Sent')
        BY <2>1 DEF Sent
    <2>6. \A t \in {1, 2} : \A m \in talks'[t].shown : m \in Written' /\ (notes'[m].mine => m \in Sent')
        BY <2>1, <2>3 DEF ReadInv
    <2> QED BY <2>1, <2>3, <2>4, <2>5, <2>6 DEF ReadInv
<1>9. CASE Answered
    <2>1. /\ sending.step = "stored" /\ sending.n \in Written
          /\ \A t \in {1, 2} : /\ talks'[t].read = talks[t].read
                               /\ talks'[t].shown \subseteq talks[t].shown \cup {sending.n}
          /\ sending' = NotSending /\ UNCHANGED <<notes, timers, waiting, onWay, theirs, overtaken>>
        BY <1>9, AnsweredParts DEF peerVars
    <2>2. Written' = Written /\ Sent' = Sent /\ sending.n \in Sent /\ \A m : FromPeer(m)' <=> FromPeer(m)
        BY <2>1 DEF Written, Sent, FromPeer, ReadInv
    <2>3. NotSending.step = "idle"
        BY DEF NotSending
    <2>4. \A t \in {1, 2} : \A m \in talks'[t].shown : m \in Written' /\ (notes'[m].mine => m \in Sent')
        BY <2>1, <2>2 DEF ReadInv
    <2> QED BY <2>1, <2>2, <2>3, <2>4 DEF ReadInv
<1>10. CASE AcknowledgeKeyChange \/ Reader
    <2>1. /\ \A t \in {1, 2} : talks'[t].read = talks[t].read /\ talks'[t].shown \subseteq talks[t].shown
          /\ UNCHANGED <<notes, timers, sending, waiting, onWay, theirs, overtaken>>
        BY <1>10, DismissingParts, ReaderParts DEF peerVars, Dismissed, Quieter, Deleted
    <2>2. Written' = Written /\ Sent' = Sent /\ \A m : FromPeer(m)' <=> FromPeer(m)
        BY <2>1 DEF Written, Sent, FromPeer
    <2> QED BY <2>1, <2>2 DEF ReadInv
<1>11. CASE Select \/ HourPasses
    <2>1. UNCHANGED <<talks, notes, timers, sending, waiting, onWay, theirs, overtaken>>
        BY <1>11, StillParts DEF peerVars
    <2> QED BY <2>1 DEF ReadInv, Sent, FromPeer, Written
<1>12. CASE UNCHANGED chatVars
    BY <1>12 DEF chatVars, ReadInv, Sent, FromPeer, Written
<1> QED BY <1>1, <1>2, <1>3, <1>4, <1>5, <1>6, <1>7, <1>8, <1>9, <1>10, <1>11, <1>12 DEF ChatNext

LEMMA ReadInit == ChatInit => ReadInv
<1> SUFFICES ASSUME ChatInit PROVE ReadInv
    OBVIOUS
<1>1. NoNote.kind = "none" /\ NotPolling.left = {} /\ NotSending.step = "idle"
    BY DEF NoNote, NotPolling, NotSending
<1>2. Written = {}
    BY <1>1 DEF ChatInit, Written
<1>3. Range(theirs) = {} /\ onWay = {} /\ Sent = {}
    BY DEF ChatInit, Range, Sent
<1>4. talks[1] = NewTalk(TRUE) /\ talks[2] = NewTalk(FALSE)
    BY DEF ChatInit
<1>5. \A t \in {1, 2} : talks[t].shown = {} /\ talks[t].read = {}
    BY <1>4 DEF NewTalk
<1>6. waiting = {} /\ \A i \in Timers : timers[i] = NotPolling
    BY DEF ChatInit
<1>7. sending = NotSending
    BY DEF ChatInit
<1> QED BY <1>1, <1>2, <1>3, <1>5, <1>6, <1>7 DEF ReadInv

\* A bubble marked as read stands for a message that arrived, or that a later one
\* overtook: for every scene, with notices lost, repeated and out of order.
THEOREM ReadIsDelivered == ChatSpec => []ReadWasDelivered
<1>1. ChatInit => Base /\ ReadInv
    BY BaseInit, ReadInit
<1>2. Base /\ ReadInv /\ [ChatNext]_chatVars => (Base /\ ReadInv)'
    BY BaseKept, ReadKept
<1>3. Base /\ ReadInv => ReadWasDelivered
    BY DEF Base, ChatType, ReadInv, ReadWasDelivered
<1> QED BY <1>1, <1>2, <1>3, PTL DEF ChatSpec

-----------------------------------------------------------------------------
(* What is announced *)

\* Keys of one installation of the peer.
Alike(keys, inst) == \A a \in keys : inst[a] # 0 /\ \A b \in keys : inst[a] = inst[b]

\* What a conversation uses it knows; what it knows it met first, or the reader
\* dismissed, or is announced, and as a replacement if it is newer than those.
TalkKeys(talk, inst) ==
    /\ talk.keys \subseteq talk.known
    /\ talk.known = talk.first \cup talk.dismissed \cup talk.change.keys
    /\ \A k \in talk.known : inst[k] # 0
    /\ talk.named \/ talk.known = {}
    /\ \A k \in talk.change.keys :
           (\A d \in talk.first \cup talk.dismissed : inst[k] > inst[d]) => talk.change.kind = "replaced"

KeysInv ==
    /\ \A n \in Notes : installs[notes[n].by] # 0
    /\ installs[First] # 0
    /\ \A i \in Timers : Alike(timers[i].asked, installs)
    /\ \A t \in {1, 2} : TalkKeys(talks[t], installs)

LEMMA TalkKeysSame ==
    ASSUME NEW old, NEW new, NEW inst, TalkKeys(old, inst),
           KeysSame(old, new) \/ Deleted(old, new) \/ Dismissed(old, new)
    PROVE  TalkKeys(new, inst)
<1>1. CASE KeysSame(old, new)
    BY <1>1 DEF TalkKeys, KeysSame
<1>2. CASE Deleted(old, new)
    BY <1>2 DEF TalkKeys, Deleted
<1>3. CASE Dismissed(old, new)
    BY <1>3 DEF TalkKeys, Dismissed
<1> QED BY <1>1, <1>2, <1>3

LEMMA TalkKeysStay ==
    ASSUME NEW talk \in TalkRow, NEW inst, NEW later, TalkKeys(talk, inst),
           \A d \in Devices : inst[d] # 0 => later[d] = inst[d]
    PROVE  TalkKeys(talk, later)
<1>1. talk.known \subseteq Devices
    BY DEF TalkRow
<1>2. \A k \in talk.known : later[k] = inst[k] /\ later[k] # 0
    BY <1>1 DEF TalkKeys
<1>3. /\ talk.keys \subseteq talk.known /\ talk.first \subseteq talk.known /\ talk.dismissed \subseteq talk.known
      /\ talk.change.keys \subseteq talk.known
    BY DEF TalkKeys
<1>4. ASSUME NEW k \in talk.change.keys, \A d \in talk.first \cup talk.dismissed : later[k] > later[d]
      PROVE  talk.change.kind = "replaced"
    <2>1. \A d \in talk.first \cup talk.dismissed : inst[k] > inst[d]
        BY <1>2, <1>3, <1>4
    <2> QED BY <2>1 DEF TalkKeys
<1> QED BY <1>2, <1>4 DEF TalkKeys

\* The directory's keys, met by a conversation that knows some of them or none.
LEMMA TalkKeysNoted ==
    ASSUME NEW talk \in TalkRow, NEW keys \in SUBSET Devices, NEW inst \in [Devices -> Nat], TalkKeys(talk, inst),
           Alike(keys, inst), talk.named
    PROVE  TalkKeys(Noted(talk, keys, TRUE), inst)
<1> DEFINE next == Noted(talk, keys, TRUE)
           changed == Changed(talk, keys, TRUE)
<1>0. TRUE \in BOOLEAN
    OBVIOUS
<1>1. /\ next.named = talk.named /\ next.keys = talk.keys /\ next.dismissed = talk.dismissed
      /\ next.known = talk.known \cup keys
      /\ next.first = IF talk.known = {} THEN keys ELSE talk.first
      /\ next.change = IF talk.known = {} \/ keys \subseteq talk.known THEN talk.change ELSE changed
    <2>1. NotedAs(talk, keys, Changed(talk, keys, TRUE), Noted(talk, keys, TRUE))
        BY <1>0, DirectoryNoted
    <2> QED BY <2>1 DEF NotedAs
<1>2. /\ changed.keys = talk.change.keys \cup (keys \ talk.known)
      /\ keys \cap talk.known = {} \/ talk.change.kind = "replaced" => changed.kind = "replaced"
    BY DEF Changed
<1> HIDE DEF next, changed
<1>3. talk.known = talk.first \cup talk.dismissed \cup talk.change.keys /\ talk.keys \subseteq talk.known
    BY DEF TalkKeys
<1>4. next.keys \subseteq next.known
    BY <1>1, <1>3
<1>5. \A k \in next.known : inst[k] # 0
    BY <1>1 DEF TalkKeys, Alike
<1>6. CASE talk.known = {}
    <2>1. talk.first = {} /\ talk.dismissed = {} /\ talk.change.keys = {}
        BY <1>3, <1>6
    <2> QED BY <1>1, <1>4, <1>5, <1>6, <2>1 DEF TalkKeys, next
<1>7. CASE talk.known # {} /\ keys \subseteq talk.known
    <2>1. next.known = talk.known /\ next.first = talk.first /\ next.change = talk.change
        BY <1>1, <1>7
    <2> QED BY <1>1, <1>4, <1>5, <2>1 DEF TalkKeys, next
<1>8. CASE talk.known # {} /\ ~(keys \subseteq talk.known)
    <2>1. next.known = talk.known \cup keys /\ next.first = talk.first /\ next.change = changed
        BY <1>1, <1>8
    <2>2. next.known = next.first \cup next.dismissed \cup next.change.keys
        BY <1>1, <1>2, <1>3, <2>1
    <2>3. ASSUME NEW k \in changed.keys, \A d \in talk.first \cup talk.dismissed : inst[k] > inst[d]
          PROVE  changed.kind = "replaced"
        <3>1. CASE k \in talk.change.keys
            BY <1>2, <2>3, <3>1 DEF TalkKeys
        <3>2. CASE k \in keys /\ keys \cap talk.known # {}
            <4>1. PICK c \in keys : c \in talk.known
                BY <3>2
            <4>2. inst[c] = inst[k] /\ inst[c] \in Nat
                BY <3>2, <4>1 DEF Alike
            <4>3. c \notin talk.first \cup talk.dismissed
                BY <2>3, <4>2
            <4>4. c \in talk.change.keys
                BY <1>3, <4>1, <4>3
            <4>5. \A d \in talk.first \cup talk.dismissed : inst[c] > inst[d]
                BY <2>3, <4>2
            <4> QED BY <1>2, <4>4, <4>5 DEF TalkKeys
        <3>3. CASE keys \cap talk.known = {}
            BY <1>2, <3>3
        <3> QED BY <1>2, <3>1, <3>2, <3>3
    <2> QED BY <1>1, <1>4, <1>5, <2>1, <2>2, <2>3 DEF TalkKeys, next
<1> QED BY <1>6, <1>7, <1>8 DEF next

\* A key the conversation has met, or the first one it meets.
LEMMA TalkKeysReceived ==
    ASSUME ChatType, NEW talk \in TalkRow, NEW n \in Notes, NEW inst, TalkKeys(talk, inst), inst[notes[n].by] # 0,
           Opens(talk, n) => notes[n].by \in talk.known \/ talk.known = {}
    PROVE  TalkKeys(Received(talk, n), inst)
<1> DEFINE next == Received(talk, n)
           by == notes[n].by
<1>1. CASE ~Opens(talk, n)
    <2>1. next = talk
        BY <1>1, ReceivedParts
    <2> QED BY <2>1
<1>2. CASE Opens(talk, n)
    <2>1. /\ next.named = TRUE /\ next.keys = talk.keys \cup {by} /\ next.dismissed = talk.dismissed
          /\ next.known = talk.known \cup {by}
          /\ next.first = IF talk.known = {} THEN {by} ELSE talk.first
          /\ next.change = IF talk.known = {} \/ by \in talk.known THEN talk.change
                           ELSE Changed(talk, {by}, FALSE)
        BY <1>2, ReceivedParts
    <2>2. next.change = talk.change
        BY <1>2, <2>1
    <2> HIDE DEF next
    <2>3. /\ talk.known = talk.first \cup talk.dismissed \cup talk.change.keys /\ talk.keys \subseteq talk.known
          /\ \A k \in talk.known : inst[k] # 0
        BY DEF TalkKeys
    <2>4. CASE talk.known = {}
        <3>1. talk.first = {} /\ talk.dismissed = {} /\ talk.change.keys = {} /\ talk.keys = {}
            BY <2>3, <2>4
        <3>2. next.keys = {by} /\ next.known = {by} /\ next.first = {by} /\ next.dismissed = {} /\ next.change.keys = {}
            BY <2>1, <2>2, <2>4, <3>1
        <3> QED BY <2>1, <3>2 DEF TalkKeys, next
    <2>5. CASE talk.known # {}
        <3>1. by \in talk.known
            BY <1>2, <2>5
        <3>2. next.known = talk.known /\ next.first = talk.first /\ next.keys \subseteq talk.known
            BY <2>1, <2>3, <2>5, <3>1
        <3> QED BY <2>1, <2>2, <3>2 DEF TalkKeys, next
    <2> QED BY <2>4, <2>5
<1> QED BY <1>1, <1>2

LEMMA EnvelopeTalkKeys ==
    ASSUME Base, KeysInv, NEW i \in Timers, Handle(i) \/ DirectoryAnswers(i)
    PROVE  \A u \in {1, 2} : TalkKeys(talks'[u], installs)
<1>1. PICK t \in {1, 2}, n \in timers[i].left :
          \/ OnItsOwn(i, t, n)
          \/ \E keys \in {timers[i].asked, listed} : Vouched(i, t, n, keys) \/ Refused(i, t, n, keys)
          \/ Postponed(i, t, n)
    BY EnvelopeKinds
<1>2. /\ n \in Notes /\ talks[t] \in TalkRow /\ talks \in [{1, 2} -> TalkRow] /\ installs \in [Devices -> Nat]
      /\ \A keys \in {timers[i].asked, listed} : keys \in SUBSET Devices
    BY DEF Base, ChatType, PollRow
<1>3. /\ \A u \in {1, 2} : TalkKeys(talks[u], installs)
      /\ installs[notes[n].by] # 0
    BY <1>2 DEF KeysInv
<1>4. Alike(listed, installs)
    <2> SUFFICES ASSUME NEW a \in listed, NEW b \in listed PROVE installs[a] # 0 /\ installs[a] = installs[b]
        BY DEF Alike
    <2>1. a \in Devices /\ b \in Devices /\ installs[a] <= installs[b] /\ installs[b] <= installs[a] /\ installs[a] # 0
        BY DEF Base, ChatType, DirectoryOk
    <2> QED BY <1>2, <2>1
<1>5. ASSUME NEW keys \in {timers[i].asked, listed}, talks[t].named
      PROVE  /\ Noted(talks[t], keys, TRUE) \in TalkRow /\ TalkKeys(Noted(talks[t], keys, TRUE), installs)
             /\ keys \subseteq Noted(talks[t], keys, TRUE).known
    <2>1. keys \in SUBSET Devices /\ TRUE \in BOOLEAN
        BY <1>2
    <2>2. Noted(talks[t], keys, TRUE) \in TalkRow
        BY <1>2, <2>1, DirectoryNoted
    <2>3. Alike(keys, installs)
        BY <1>4 DEF KeysInv
    <2>4. TalkKeys(Noted(talks[t], keys, TRUE), installs)
        BY <1>2, <1>3, <1>5, <2>1, <2>3, TalkKeysNoted
    <2>5. Noted(talks[t], keys, TRUE).known = talks[t].known \cup keys
        <3>1. NotedAs(talks[t], keys, Changed(talks[t], keys, TRUE), Noted(talks[t], keys, TRUE))
            BY <1>2, <2>1, DirectoryNoted
        <3> QED BY <3>1 DEF NotedAs
    <2> QED BY <2>2, <2>4, <2>5
<1>a. ASSUME NEW base \in TalkRow, NEW asked \in SUBSET Devices, Receive(i, t, base, n, asked),
             TalkKeys(base, installs), Opens(base, n) => notes[n].by \in base.known \/ base.known = {}
      PROVE  \A u \in {1, 2} : TalkKeys(talks'[u], installs)
    <2>1. TalkKeys(Received(base, n), installs)
        BY <1>2, <1>3, <1>a, TalkKeysReceived DEF Base
    <2>2. talks'[t] = Received(base, n)
        BY <1>a, EnvelopeTalk
    <2>3. \A u \in {1, 2} \ {t} : talks'[u] = talks[u]
        BY <1>a, EnvelopeTalk
    <2> QED BY <1>3, <2>1, <2>2, <2>3
<1>6. CASE OnItsOwn(i, t, n)
    <2>1. Receive(i, t, talks[t], n, timers[i].asked) /\ timers[i].asked \in SUBSET Devices
        BY <1>2, <1>6 DEF OnItsOwn
    <2>2. TalkKeys(talks[t], installs)
        BY <1>3
    <2>3. Opens(talks[t], n) => notes[n].by \in talks[t].known \/ talks[t].known = {}
        BY <1>6, <2>2 DEF OnItsOwn, Opens, TalkKeys
    <2> QED BY <1>2, <1>a, <2>1, <2>2, <2>3
<1>7. ASSUME NEW keys \in {timers[i].asked, listed}, Vouched(i, t, n, keys)
      PROVE  \A u \in {1, 2} : TalkKeys(talks'[u], installs)
    <2> DEFINE base == Noted(talks[t], keys, TRUE)
    <2>1. base \in TalkRow /\ TalkKeys(base, installs) /\ keys \subseteq base.known
        BY <1>5, <1>7 DEF Vouched
    <2>2. Receive(i, t, base, n, keys) /\ notes[n].by \in keys /\ keys \in SUBSET Devices
        BY <1>2, <1>7 DEF Vouched
    <2> HIDE DEF base
    <2>3. notes[n].by \in base.known
        BY <2>1, <2>2
    <2> QED BY <1>a, <2>1, <2>2, <2>3
<1>8. ASSUME NEW keys \in {timers[i].asked, listed}, Refused(i, t, n, keys)
      PROVE  \A u \in {1, 2} : TalkKeys(talks'[u], installs)
    <2> DEFINE base == Noted(talks[t], keys, TRUE)
    <2>1. base \in TalkRow /\ TalkKeys(base, installs)
        BY <1>5, <1>8 DEF Refused
    <2>2. talks' = [talks EXCEPT ![t] = base]
        BY <1>8 DEF Refused
    <2> HIDE DEF base
    <2>3. talks'[t] = base /\ \A u \in {1, 2} \ {t} : talks'[u] = talks[u]
        BY <1>2, <2>2
    <2> QED BY <1>3, <2>1, <2>3
<1>9. CASE Postponed(i, t, n)
    BY <1>3, <1>9 DEF Postponed
<1> QED BY <1>1, <1>6, <1>7, <1>8, <1>9

LEMMA KeysKept == Base /\ KeysInv /\ [ChatNext]_chatVars => KeysInv'
<1> SUFFICES ASSUME Base, KeysInv, [ChatNext]_chatVars PROVE KeysInv'
    OBVIOUS
<1>0. /\ notes \in [Notes -> NoteRow] /\ timers \in [Timers -> PollRow] /\ talks \in [{1, 2} -> TalkRow]
      /\ listed \subseteq Devices /\ First \in Devices
    BY ChatAssumption DEF Base, ChatType
<1>a. Alike(listed, installs)
    <2> SUFFICES ASSUME NEW a \in listed, NEW b \in listed PROVE installs[a] # 0 /\ installs[a] = installs[b]
        BY DEF Alike
    <2>1. a \in Devices /\ b \in Devices /\ installs[a] <= installs[b] /\ installs[b] <= installs[a] /\ installs[a] # 0
        BY DEF Base, ChatType, DirectoryOk
    <2> QED BY <2>1 DEF Base, ChatType
<1>1. CASE PeerAddsDevice \/ PeerIsReplaced
    <2>1. /\ \A d \in Devices : installs[d] # 0 => installs'[d] = installs[d]
          /\ UNCHANGED <<talks, notes, timers>>
        BY <1>1, DevicesKept
    <2>2. \A t \in {1, 2} : TalkKeys(talks'[t], installs')
        BY <1>0, <2>1, TalkKeysStay DEF KeysInv
    <2>3. \A n \in Notes : notes[n].by \in Devices
        BY <1>0 DEF NoteRow
    <2>4. \A n \in Notes : installs'[notes'[n].by] # 0
        BY <2>1, <2>3 DEF KeysInv
    <2>5. \A i \in Timers : timers[i].asked \subseteq Devices
        BY <1>0 DEF PollRow
    <2>6. \A i \in Timers : Alike(timers'[i].asked, installs')
        BY <2>1, <2>5 DEF KeysInv, Alike
    <2>7. installs'[First] # 0
        BY <1>0, <2>1 DEF KeysInv
    <2> QED BY <2>2, <2>4, <2>6, <2>7 DEF KeysInv
<1>2. CASE PeerWrites \/ PeerReads
    <2>1. /\ NextNote \in Notes /\ notes'[NextNote].by \in listed
          /\ \A m \in Notes \ {NextNote} : notes'[m] = notes[m]
          /\ UNCHANGED <<installs, talks, timers>>
        BY <1>2, PeerPostsParts
    <2>2. \A n \in Notes : installs'[notes'[n].by] # 0
        BY <1>a, <2>1 DEF KeysInv, Alike
    <2> QED BY <2>1, <2>2 DEF KeysInv
<1>3. CASE PeerGets
    <2>1. UNCHANGED <<installs, talks, notes, timers>>
        BY <1>3, GetsParts
    <2> QED BY <2>1 DEF KeysInv
<1>4. ASSUME NEW i \in Timers, Fetch(i) \/ EnvelopesCome(i) PROVE KeysInv'
    <2>1. /\ timers'[i].asked = {} /\ \A j \in Timers \ {i} : timers'[j] = timers[j]
          /\ \A t \in {1, 2} : Quieter(talks[t], talks'[t])
          /\ UNCHANGED <<installs, notes>>
        BY <1>4, FetchParts, EnvelopesComeParts
    <2>2. \A t \in {1, 2} : TalkKeys(talks'[t], installs)
        BY <2>1, TalkKeysSame DEF KeysInv, Quieter
    <2>3. \A j \in Timers : Alike(timers'[j].asked, installs)
        BY <2>1 DEF KeysInv, Alike
    <2> QED BY <2>1, <2>2, <2>3 DEF KeysInv
<1>5. ASSUME NEW i \in Timers, Handle(i) \/ DirectoryAnswers(i) PROVE KeysInv'
    <2>1. /\ \A m \in Notes : notes'[m].by = notes[m].by
          /\ \A j \in Timers \ {i} : timers'[j] = timers[j]
          /\ timers'[i].asked \in {timers[i].asked, listed}
        BY <1>5, EnvelopeEffect
    <2>2. installs' = installs
        BY <1>5, EnvelopeKinds DEF peerVars
    <2>3. \A t \in {1, 2} : TalkKeys(talks'[t], installs)
        BY <1>5, EnvelopeTalkKeys
    <2>4. \A j \in Timers : Alike(timers'[j].asked, installs)
        BY <1>a, <2>1 DEF KeysInv
    <2> QED BY <2>1, <2>2, <2>3, <2>4 DEF KeysInv
<1>6. ASSUME NEW i \in Timers, Finish(i) \/ FinishFails(i) PROVE KeysInv'
    <2>1. /\ timers'[i].asked = {} /\ \A j \in Timers \ {i} : timers'[j] = timers[j]
          /\ UNCHANGED <<installs, notes, talks>>
        BY <1>6, FinishParts
    <2>3. \A j \in Timers : Alike(timers'[j].asked, installs)
        BY <2>1 DEF KeysInv, Alike
    <2> QED BY <2>1, <2>3 DEF KeysInv
<1>7. CASE SendNote
    <2>1. /\ open \in {1, 2} /\ talks[open].named
          /\ talks'[open] = Addressed(talks[open]) /\ \A t \in {1, 2} \ {open} : talks'[t] = talks[t]
          /\ NextNote \in Notes /\ notes'[NextNote].by = First
          /\ \A m \in Notes \ {NextNote} : notes'[m] = notes[m]
        BY <1>7, SendParts DEF Base
    <2>2. UNCHANGED <<timers, installs>>
        BY <1>7 DEF SendNote, peerVars
    <2>3. \A n \in Notes : installs'[notes'[n].by] # 0
        BY <2>1, <2>2 DEF KeysInv
    <2> DEFINE talk == talks[open]
               noted == Noted(talk, listed, TRUE)
    <2>4. talk \in TalkRow /\ listed \in SUBSET Devices /\ TRUE \in BOOLEAN /\ installs \in [Devices -> Nat]
        BY <1>0, <2>1 DEF Base, ChatType
    <2>5. TalkKeys(talk, installs)
        BY <2>1 DEF KeysInv
    <2>6. TalkKeys(noted, installs)
        BY <1>a, <2>1, <2>4, <2>5, TalkKeysNoted
    <2>7. noted.known = talk.known \cup listed
        BY <2>4 DEF Noted, TalkRow
    <2>8. noted.keys = talk.keys
        <3>1. NotedAs(talk, listed, Changed(talk, listed, TRUE), Noted(talk, listed, TRUE))
            BY <2>4, DirectoryNoted
        <3> QED BY <3>1 DEF NotedAs
    <2>9. noted.named = talk.named
        <3>1. NotedAs(talk, listed, Changed(talk, listed, TRUE), Noted(talk, listed, TRUE))
            BY <2>4, DirectoryNoted
        <3> QED BY <3>1 DEF NotedAs
    <2>10. noted.dismissed = talk.dismissed
        BY DEF Noted, TalkRow
    <2>11. /\ Addressed(talk).keys = talk.keys \cup listed
           /\ Addressed(talk).named = talk.named /\ Addressed(talk).known = noted.known
           /\ Addressed(talk).first = noted.first /\ Addressed(talk).dismissed = talk.dismissed
           /\ Addressed(talk).change = noted.change
        BY <2>4, AddressedParts DEF Base
    <2> HIDE DEF noted, talk
    <2>12. TalkKeys(Addressed(talk), installs)
        BY <2>6, <2>7, <2>8, <2>9, <2>10, <2>11 DEF TalkKeys
    <2>13. \A t \in {1, 2} : TalkKeys(talks'[t], installs)
        BY <2>1, <2>12 DEF KeysInv, talk
    <2> QED BY <2>2, <2>3, <2>13 DEF KeysInv
<1>8. CASE ServerTakes
    <2>1. UNCHANGED <<installs, notes, timers, talks>>
        BY <1>8, TakesParts DEF readerVars
    <2> QED BY <2>1 DEF KeysInv
<1>9. CASE Answered \/ AcknowledgeKeyChange \/ Reader
    <2>1. UNCHANGED <<notes, timers, installs>>
        BY <1>9, AnsweredParts, DismissingParts, ReaderParts DEF peerVars
    <2>2. \A t \in {1, 2} : \/ KeysSame(talks[t], talks'[t]) \/ Deleted(talks[t], talks'[t])
                            \/ Dismissed(talks[t], talks'[t])
        <3>1. CASE Answered
            BY <3>1, AnsweredParts
        <3>2. CASE AcknowledgeKeyChange
            BY <3>2, DismissingParts DEF KeysSame
        <3>3. CASE Reader
            BY <3>3, ReaderParts DEF Quieter
        <3> QED BY <1>9, <3>1, <3>2, <3>3
    <2>3. \A t \in {1, 2} : TalkKeys(talks'[t], installs)
        BY <2>2, TalkKeysSame DEF KeysInv
    <2> QED BY <2>1, <2>3 DEF KeysInv
<1>10. CASE Select \/ HourPasses
    <2>1. UNCHANGED <<talks, notes, timers, installs>>
        BY <1>10, StillParts DEF peerVars
    <2> QED BY <2>1 DEF KeysInv
<1>11. CASE UNCHANGED chatVars
    BY <1>11 DEF chatVars, KeysInv
<1> QED BY <1>1, <1>2, <1>3, <1>4, <1>5, <1>6, <1>7, <1>8, <1>9, <1>10, <1>11 DEF ChatNext

LEMMA KeysInit == ChatInit => KeysInv
<1> SUFFICES ASSUME ChatInit PROVE KeysInv
    OBVIOUS
<1>1. NoNote.by = First /\ NotPolling.asked = {} /\ First \in Devices
    BY ChatAssumption DEF NoNote, NotPolling
<1>2. installs[First] = 1 /\ \A n \in Notes : notes[n] = NoNote
    BY <1>1 DEF ChatInit
<1>3. talks[1] = NewTalk(TRUE) /\ talks[2] = NewTalk(FALSE)
    BY DEF ChatInit
<1>4. \A t \in {1, 2} : /\ talks[t].keys = {} /\ talks[t].known = {} /\ talks[t].first = {}
                        /\ talks[t].dismissed = {} /\ talks[t].change = NoChange
    BY <1>3 DEF NewTalk
<1>5. \A t \in {1, 2} : TalkKeys(talks[t], installs)
    BY <1>4, NoChangeRow DEF TalkKeys
<1>6. \A i \in Timers : timers[i] = NotPolling
    BY DEF ChatInit
<1> QED BY <1>1, <1>2, <1>5, <1>6 DEF KeysInv, Alike

\* What a conversation's device keys became after the first contact is announced
\* until the reader dismisses it, and as a replacement when an installation is
\* newer: for every number of devices and order of notes, lists and sends.
THEOREM ChangesAnnounced == ChatSpec => []ChangesAreAnnounced
<1>1. ChatInit => Base /\ KeysInv
    BY BaseInit, KeysInit
<1>2. Base /\ KeysInv /\ [ChatNext]_chatVars => (Base /\ KeysInv)'
    BY BaseKept, KeysKept
<1>3. Base /\ KeysInv => ChangesAreAnnounced
    <2> SUFFICES ASSUME Base, KeysInv, NEW t \in DOMAIN talks
                 PROVE  LET talk == talks[t]
                            known == talk.first \cup talk.dismissed
                        IN  /\ talk.keys \subseteq known \cup talk.change.keys
                            /\ (\E k \in talk.change.keys : \A d \in known : installs[k] > installs[d])
                                   => talk.change.kind = "replaced"
        BY DEF ChangesAreAnnounced
    <2>1. TalkKeys(talks[t], installs)
        BY DEF Base, ChatType, KeysInv
    <2> QED BY <2>1 DEF TalkKeys
<1> QED BY <1>1, <1>2, <1>3, PTL DEF ChatSpec

-----------------------------------------------------------------------------
(* Mail: what holds of the browsers and the server, whatever happens *)

\* The messages whose senders have their answer.
Done == {m \in Messages : sends[m].step = "done"}

\* No opening envelope has taken the place of a session held.
Calm == "reset" \notin accidents

\* A session is named by the message that opened it, and is of two ends' keys.
Named(s, L, made) ==
    /\ L[s.first] # None /\ L[s.first].opening /\ L[s.first].session = s
    /\ s.otp <= made[Peer(s.by)]

\* What end e keeps, in memory or in its vault, where L are the letters, `done`
\* the messages that were answered and `made` the one-time prekeys made.
KeepsOk(e, kept, L, done, made, calm) ==
    /\ \A k \in kept.otps : 1 <= k /\ k <= made[e]
    /\ kept.session # None =>
           /\ Named(kept.session, L, made)
           /\ kept.session.by # e /\ kept.session.otp # 0 => kept.session.otp \notin kept.otps
    /\ \A m \in Messages : kept.history[m] > 0 =>
           L[m] # None /\ (L[m].to # e => m \in done /\ kept.history[m] = 1)
    /\ \A m \in Messages : L[m] # None /\ L[m].to = e /\ kept.history[m] > 0 =>
           /\ L[m].session.otp # 0 =>
                  /\ kept.history[m] = 1
                  /\ L[m].session.by # e => L[m].session.otp \notin kept.otps
                  /\ kept.session = L[m].session => L[m].at \in kept.read
           /\ calm => kept.history[m] = 1 /\ kept.session = L[m].session /\ L[m].at \in kept.read

Made == [e \in Ends |-> directory[e].made]

\* How far sendPayload is tells whether there is a letter, and to whom; a letter
\* is in a session that an opening letter started.
MailLetters ==
    /\ \A m \in Messages : sends[m].step \in {"new", "bundle"} => letters[m] = None
    /\ \A m \in Messages : sends[m].step \in {"bundle", "posted", "checked", "stored"} =>
           sends[m].by \in Ends
    /\ \A m \in Messages : sends[m].step = "bundle" => sends[m].otp <= Made[Peer(sends[m].by)]
    /\ \A m \in Messages : sends[m].step \in {"posted", "checked", "stored"} =>
           letters[m] # None /\ letters[m].to = Peer(sends[m].by)
    /\ \A m \in Messages : letters[m] # None => Named(letters[m].session, letters, Made)
    /\ \A m \in Messages : letters[m] # None /\ letters[m].opening =>
           letters[m].session.by # letters[m].to /\ letters[m].session.first = m

ForIn(L, e, m) == L[m] # None /\ L[m].to = e
For(e, m) == ForIn(letters, e, m)

\* What is in an inbox or a poll is for its owner.
MailOnItsWay ==
    \A e \in Ends :
        /\ \A j \in DOMAIN inbox[e] : For(e, inbox[e][j].m)
        /\ \A i \in 1..mix.polls :
               /\ \A j \in DOMAIN polls[e][i].left : For(e, polls[e][i].left[j])
               /\ \A m \in polls[e][i].handled : For(e, m)

\* The directory and a publication hold keys that were made.
KeysMade ==
    \A e \in Ends :
        /\ \A k \in directory[e].otps : 1 <= k /\ k <= directory[e].made
        /\ publishing[e] # None => \A k \in publishing[e].otps : 1 <= k /\ k <= directory[e].made

\* A one-time prekey that opened a session is held no more; one prekey opened
\* one session, and the session in memory is among those ever held.
Held(s, e, kept) == s.by # e /\ s.otp # 0 => s.otp \notin kept.otps
AcceptedOk ==
    /\ \A s \in accepted : Named(s, letters, Made)
    /\ \A s \in accepted, e \in Ends : Held(s, e, mem[e]) /\ Held(s, e, vault[e])
    /\ \A e \in Ends : vault[e].session # None /\ vault[e].session.by # e => vault[e].session \in accepted
    /\ \A s \in accepted, e \in Ends :
           mem[e].session # None /\ mem[e].session.by # e /\ mem[e].session.by = s.by
               /\ mem[e].session.otp = s.otp /\ s.otp # 0 => mem[e].session = s
    /\ \A s, t \in accepted : s.by = t.by /\ s.otp = t.otp /\ s.otp # 0 => s = t

\* Nothing new waits for a revoked device, nor is past the check of its devices.
RevokedOk ==
    \A e \in Ends : directory[e].revoked =>
        /\ Waiting(e) \subseteq late[e]
        /\ \A m \in Messages : sends[m].step = "checked" /\ letters[m].to = e => m \in late[e]

MailInv ==
    /\ \A e \in Ends : KeepsOk(e, mem[e], letters, Done, Made, Calm)
    /\ \A e \in Ends : KeepsOk(e, vault[e], letters, Done, Made, Calm)
    /\ MailLetters /\ MailOnItsWay /\ KeysMade

-----------------------------------------------------------------------------
(* Mail: what holds as long as no accident happened *)

Quiet == accidents = {}
Arrived(m) == sends[m].step \in {"stored", "done"}

\* One session, opened with the keys both devices had at first.
OneOpening == \A m, n \in Messages :
    letters[m] # None /\ letters[m].opening /\ letters[n] # None /\ letters[n].opening => m = n
NothingChanged ==
    /\ \A e \in Ends : ~mem[e].blocked /\ ~vault[e].blocked /\ ~directory[e].revoked
                       /\ mem[e].spk = 1 /\ vault[e].spk = 1 /\ directory[e].spk = 1
                       /\ (publishing[e] # None => publishing[e].spk = 1)
    /\ \A m \in Messages : /\ sends[m].step = "bundle" => sends[m].spk = 1
                           /\ letters[m] # None => letters[m].session.spk = 1

\* Who wrote holds the session, and memory is not behind the vault.
SendersSession ==
    \A e \in Ends :
        /\ mem[e].session = None => mem[e].next = 0 /\ mem[e].read = {} /\ \A m \in Messages : ~For(Peer(e), m)
        /\ vault[e].session # None => mem[e].session = vault[e].session
        /\ vault[e].session = None => vault[e].next = 0 /\ vault[e].read = {}

\* The letters to one end have places of their own, up to the writer's.
Positions ==
    \A p \in Ends :
        /\ \A m \in Messages : For(p, m) => letters[m].at >= 1 /\ letters[m].at <= mem[Peer(p)].next
        /\ \A m, n \in Messages : For(p, m) /\ For(p, n) /\ letters[m].at = letters[n].at => m = n

\* A place that was read is that of a message in the history.
ReadShown(L, e, kept) ==
    \A r \in kept.read : \E m \in Messages : ForIn(L, e, m) /\ L[m].at = r /\ kept.history[m] > 0
ReadWasShown == \A e \in Ends : ReadShown(letters, e, mem[e]) /\ ReadShown(letters, e, vault[e])

\* The vault knows no message that memory does not.
VaultBehind ==
    \A e \in Ends : /\ \A m \in Messages : vault[e].history[m] > 0 => mem[e].history[m] > 0
                    /\ mem[e].otps \subseteq vault[e].otps

\* Who has no session yet holds every one-time prekey that the directory, a
\* publication, a bundle or an opening letter names.
Pool(e, kept, d, row, S, L) ==
    kept.session = None =>
        /\ d.otps \subseteq kept.otps
        /\ row # None => row.otps \subseteq kept.otps
        /\ \A m \in Messages : S[m].step = "bundle" /\ S[m].by # e => S[m].otp \in kept.otps \cup {0}
        /\ \A m \in Messages : ForIn(L, e, m) /\ L[m].opening => L[m].session.otp \in kept.otps \cup {0}
Pools ==
    \A e \in Ends : /\ Pool(e, mem[e], directory[e], publishing[e], sends, letters)
                    /\ Pool(e, vault[e], directory[e], publishing[e], sends, letters)

\* The opening letter is the first to arrive, and stays until the vault has it.
OpeningFirst ==
    \A m \in Messages : letters[m] # None /\ letters[m].opening =>
        /\ sends[m].step \in {"posted", "checked", "stored", "done"}
        /\ sends[m].step \in {"posted", "checked"} => DOMAIN inbox[letters[m].to] = {}
InboxInOrder ==
    \A m \in Messages : letters[m] # None /\ letters[m].opening =>
        LET box == inbox[letters[m].to]
            i == Min(DOMAIN box)
        IN  vault[letters[m].to].session = None /\ DOMAIN box # {} =>
                box[i].m = m /\ (box[i].held => DOMAIN box = {i})

\* A poll of somebody without a session starts with the opening letter.
PollsInOrder ==
    \A e \in Ends : \A i \in 1..mix.polls :
        mem[e].session = None /\ DOMAIN polls[e][i].left # {} =>
            letters[polls[e][i].left[Min(DOMAIN polls[e][i].left)]].opening

\* What arrived waits or is in the vault; what a poll handled is in the history.
NothingLost ==
    /\ \A m \in Messages : letters[m] # None /\ Arrived(m) =>
           m \in Waiting(letters[m].to) \/ vault[letters[m].to].history[m] > 0
    /\ \A e \in Ends : \A i \in 1..mix.polls :
           /\ polls[e][i].step = "reading" => \A m \in polls[e][i].handled : mem[e].history[m] > 0
           /\ polls[e][i].step = "acking" => \A m \in polls[e][i].handled : vault[e].history[m] > 0

QuietParts ==
    /\ OneOpening /\ NothingChanged /\ SendersSession /\ Positions /\ ReadWasShown /\ VaultBehind /\ Pools
    /\ OpeningFirst /\ InboxInOrder /\ PollsInOrder /\ NothingLost
QuietInv == Quiet => QuietParts

-----------------------------------------------------------------------------
(* Mail: types *)

Sessions == [first : Messages, by : Ends, spk : Nat, otp : Nat]
BrowserRow ==
    [session : Sessions \cup {None}, next : Nat, read : SUBSET Nat, known : BOOLEAN, blocked : BOOLEAN,
     history : [Messages -> Nat], spk : Nat, otps : SUBSET Nat]
KeysRow == [spk : Nat, otps : SUBSET Nat, made : Nat, revoked : BOOLEAN]
MailRow == [m : Messages, held : BOOLEAN]
Boxes == {b \in UNION {[D -> MailRow] : D \in SUBSET Nat} : \E n \in Nat : \A i \in DOMAIN b : i <= n}
LetterRow == [to : Ends, session : Sessions, at : Nat, opening : BOOLEAN]
LetterStep ==
    [step : {"new", "bundle", "posted", "checked", "stored", "done", "failed"}, by : Ends \cup {None},
     live : BOOLEAN, spk : Nat, otp : Nat]
Fetched == UNION {[D -> Messages] : D \in SUBSET Nat}
InboxPoll == [step : {"idle", "reading", "acking"}, left : Fetched, handled : SUBSET Messages]
Publication == [step : {"sent", "stored"}, live : BOOLEAN, spk : Nat, otps : SUBSET Nat]

MailType ==
    /\ mix \in Mixes /\ faults \in Nat
    /\ mem \in [Ends -> BrowserRow] /\ vault \in [Ends -> BrowserRow]
    /\ directory \in [Ends -> KeysRow]
    /\ inbox \in [Ends -> Boxes]
    /\ sends \in [Messages -> LetterStep] /\ letters \in [Messages -> LetterRow \cup {None}]
    /\ polls \in [Ends -> [1..mix.polls -> InboxPoll]]
    /\ publishing \in [Ends -> Publication \cup {None}]
    /\ accepted \in SUBSET Sessions /\ late \in [Ends -> SUBSET Messages]

LEMMA PeerOther ==
    ASSUME NEW e \in Ends
    PROVE  /\ Peer(e) \in Ends /\ Peer(e) # e /\ Peer(Peer(e)) = e
           /\ \A p \in Ends : p # e => p = Peer(e)
<1>1. PICK a, b \in Ends : a # b /\ Ends = {a, b}
    BY EndsAssumption
<1>2. \A x \in Ends : \E p \in Ends : p # x
    BY <1>1
<1>3. \A x \in Ends : Peer(x) \in Ends /\ Peer(x) # x
    BY <1>2 DEF Peer
<1> QED BY <1>1, <1>3

LEMMA Largest ==
    ASSUME NEW S \in SUBSET Nat, NEW n \in Nat, \A i \in S : i <= n
    PROVE  LET most == Max(S \cup {0}) IN most \in Nat /\ \A i \in S : i <= most
<1> DEFINE T == S \cup {0}
           Bounds == {k \in Nat : \A i \in T : i <= k}
<1>1. n \in Bounds
    OBVIOUS
<1>2. PICK k \in Bounds : \A j \in Bounds : k <= j
    BY <1>1, Least
<1>3. k \in T
    <2> SUFFICES ASSUME k \notin T PROVE FALSE
        OBVIOUS
    <2>1. k # 0 /\ k - 1 \in Nat
        BY <1>2
    <2>2. \A i \in T : i <= k - 1
        BY <1>2
    <2>3. k - 1 \in Bounds
        BY <2>1, <2>2
    <2> QED BY <1>2, <2>3
<1>4. \E x \in T : \A y \in T : x >= y
    BY <1>2, <1>3
<1>5. Max(T) \in T /\ \A y \in T : Max(T) >= y
    BY <1>4 DEF Max
<1>6. \A y \in T : y \in Nat
    OBVIOUS
<1> HIDE DEF T
<1>7. Max(T) \in Nat /\ \A y \in T : y <= Max(T)
    BY <1>5, <1>6
<1> QED BY <1>7 DEF T

\* A new row comes after all others.
LEMMA PutLast ==
    ASSUME NEW b \in Boxes, NEW v \in MailRow
    PROVE  /\ Put(b, v) \in Boxes
           /\ \E place \in Nat :
                  /\ \A i \in DOMAIN b : i < place
                  /\ DOMAIN Put(b, v) = DOMAIN b \cup {place}
                  /\ Put(b, v)[place] = v
                  /\ \A i \in DOMAIN b : Put(b, v)[i] = b[i]
<1>1. DOMAIN b \in SUBSET Nat /\ b \in [DOMAIN b -> MailRow]
    BY DEF Boxes
<1>2. PICK n \in Nat : \A i \in DOMAIN b : i <= n
    BY DEF Boxes
<1> DEFINE most == Max(DOMAIN b \cup {0})
           place == most + 1
<1>3. most \in Nat /\ \A i \in DOMAIN b : i <= most
    BY <1>1, <1>2, Largest
<1> HIDE DEF most
<1>4. place \in Nat /\ \A i \in DOMAIN b : i < place
    BY <1>1, <1>3
<1>5. Put(b, v) = [i \in DOMAIN b \cup {place} |-> IF i = place THEN v ELSE b[i]]
    BY DEF Put, most
<1> HIDE DEF place
<1>6. Put(b, v) \in [DOMAIN b \cup {place} -> MailRow]
    BY <1>1, <1>5
<1>7. \A i \in DOMAIN b : i # place
    BY <1>1, <1>4
<1>8. DOMAIN b \cup {place} \in SUBSET Nat /\ \A i \in DOMAIN Put(b, v) : i <= place
    BY <1>1, <1>4, <1>6
<1>9. Put(b, v) \in Boxes
    BY <1>4, <1>6, <1>8 DEF Boxes
<1> QED BY <1>4, <1>5, <1>6, <1>7, <1>9


-----------------------------------------------------------------------------
(* Mail: what an envelope does to the browser *)

\* What is kept of `kept` once message m, with this letter, is handled.
Took(kept, letter, m, agree, now) ==
    LET here == OpensHere(kept, letter, agree)
        new == ~here /\ Accepts(kept, letter)
    IN  /\ now.spk = kept.spk /\ now.blocked = kept.blocked
        /\ now.session = IF new THEN letter.session ELSE kept.session
        /\ now.next = IF new THEN 0 ELSE kept.next
        /\ now.read = IF here THEN kept.read \cup {letter.at} ELSE IF new THEN {letter.at} ELSE kept.read
        /\ now.otps = IF here \/ ~letter.opening THEN kept.otps ELSE kept.otps \ {letter.session.otp}
        /\ now.history = IF (here \/ new) /\ ~kept.blocked THEN [kept.history EXCEPT ![m] = @ + 1]
                         ELSE kept.history

LEMMA HistoryParts ==
    ASSUME NEW k \in BrowserRow, NEW m \in Messages
    PROVE  LET k1 == [k EXCEPT !.known = TRUE]
               now == Shown(k1, m)
           IN  /\ k1 \in BrowserRow /\ now \in BrowserRow
               /\ now.spk = k.spk /\ now.blocked = k.blocked /\ now.session = k.session
               /\ now.next = k.next /\ now.read = k.read /\ now.otps = k.otps
               /\ now.history = [k.history EXCEPT ![m] = @ + 1]
<1> DEFINE k1 == [k EXCEPT !.known = TRUE]
<1>1. /\ k1 \in BrowserRow /\ k1.spk = k.spk /\ k1.blocked = k.blocked /\ k1.session = k.session
      /\ k1.next = k.next /\ k1.read = k.read /\ k1.otps = k.otps /\ k1.history = k.history
    BY DEF BrowserRow
<1> DEFINE more == [k.history EXCEPT ![m] = @ + 1]
<1>2. Shown(k1, m) = [k1 EXCEPT !.history = more]
    BY <1>1 DEF Shown
<1>3. more \in [Messages -> Nat]
    BY DEF BrowserRow
<1> HIDE DEF k1, more
<1>4. \A h \in [Messages -> Nat] :
          LET n == [k1 EXCEPT !.history = h]
          IN  /\ n \in BrowserRow /\ n.spk = k1.spk /\ n.blocked = k1.blocked /\ n.session = k1.session
              /\ n.next = k1.next /\ n.read = k1.read /\ n.otps = k1.otps /\ n.history = h
    BY <1>1 DEF BrowserRow
<1>5. k1 = [k EXCEPT !.known = TRUE] /\ more = [k.history EXCEPT ![m] = @ + 1]
    BY DEF k1, more
<1> DEFINE shown == Shown(k1, m)
<1>6. /\ shown \in BrowserRow /\ shown.spk = k1.spk /\ shown.blocked = k1.blocked /\ shown.session = k1.session
      /\ shown.next = k1.next /\ shown.read = k1.read /\ shown.otps = k1.otps /\ shown.history = more
    BY <1>2, <1>3, <1>4
<1> HIDE DEF shown
<1>7. /\ k1 \in BrowserRow /\ shown \in BrowserRow
      /\ shown.spk = k.spk /\ shown.blocked = k.blocked /\ shown.session = k.session
      /\ shown.next = k.next /\ shown.read = k.read /\ shown.otps = k.otps /\ shown.history = more
    BY <1>1, <1>6
<1> QED BY <1>5, <1>7 DEF shown

\* The parts of Opened.
OpenedAs(kept, letter, agree, now) ==
    LET here == OpensHere(kept, letter, agree)
        new == ~here /\ Accepts(kept, letter)
    IN  /\ now \in BrowserRow
        /\ now.spk = kept.spk /\ now.blocked = kept.blocked
        /\ now.session = IF new THEN letter.session ELSE kept.session
        /\ now.next = IF new THEN 0 ELSE kept.next
        /\ now.read = IF here THEN kept.read \cup {letter.at} ELSE IF new THEN {letter.at} ELSE kept.read
        /\ now.otps = IF here \/ ~letter.opening THEN kept.otps ELSE kept.otps \ {letter.session.otp}
        /\ now.history = kept.history

LEMMA OpenedParts ==
    ASSUME NEW kept \in BrowserRow, NEW letter \in LetterRow, NEW agree \in BOOLEAN
    PROVE  OpenedAs(kept, letter, agree, Opened(kept, letter, agree))
<1> USE DEF OpenedAs
<1> DEFINE burnt == Burnt(kept, letter)
           here == OpensHere(kept, letter, agree)
<1>0. letter.session \in Sessions /\ letter.at \in Nat
    BY DEF LetterRow
<1>1. /\ burnt \in BrowserRow /\ burnt.spk = kept.spk /\ burnt.blocked = kept.blocked
      /\ burnt.session = kept.session /\ burnt.next = kept.next /\ burnt.read = kept.read
      /\ burnt.history = kept.history
      /\ burnt.otps = IF ~letter.opening THEN kept.otps ELSE kept.otps \ {letter.session.otp}
    BY DEF Burnt, BrowserRow
<1>2. CASE here
    <2>1. Opened(kept, letter, agree) = [kept EXCEPT !.read = kept.read \cup {letter.at}]
        BY <1>2 DEF Opened, Committed
    <2> QED BY <1>0, <1>2, <2>1 DEF BrowserRow
<1>3. CASE ~here /\ Accepts(kept, letter)
    <2> DEFINE b1 == [burnt EXCEPT !.session = letter.session]
               b2 == [b1 EXCEPT !.next = 0]
               b3 == [b2 EXCEPT !.read = {letter.at}]
    <2> HIDE DEF burnt
    <2>1. /\ b1 \in BrowserRow /\ b1.spk = burnt.spk /\ b1.blocked = burnt.blocked
          /\ b1.session = letter.session /\ b1.next = burnt.next /\ b1.read = burnt.read
          /\ b1.history = burnt.history /\ b1.otps = burnt.otps
        BY <1>0, <1>1 DEF BrowserRow
    <2>2. Opened(kept, letter, agree) = b3
        BY <1>1, <1>3 DEF Opened, BrowserRow, burnt
    <2> HIDE DEF b1
    <2>3. /\ b2 \in BrowserRow /\ b2.spk = b1.spk /\ b2.blocked = b1.blocked
          /\ b2.session = b1.session /\ b2.next = 0 /\ b2.read = b1.read
          /\ b2.history = b1.history /\ b2.otps = b1.otps
        BY <2>1 DEF BrowserRow
    <2> HIDE DEF b2
    <2>4. /\ b3 \in BrowserRow /\ b3.spk = b2.spk /\ b3.blocked = b2.blocked
          /\ b3.session = b2.session /\ b3.next = b2.next /\ b3.read = {letter.at}
          /\ b3.history = b2.history /\ b3.otps = b2.otps
        BY <1>0, <2>3 DEF BrowserRow
    <2> HIDE DEF b3, here
    <2> QED BY <1>1, <1>3, <2>1, <2>2, <2>3, <2>4 DEF Accepts, here
<1>4. CASE ~here /\ ~Accepts(kept, letter)
    <2>1. Opened(kept, letter, agree) = burnt
        BY <1>4 DEF Opened
    <2> HIDE DEF burnt
    <2> QED BY <1>1, <1>4, <2>1
<1> QED BY <1>2, <1>3, <1>4

LEMMA HandledParts ==
    ASSUME NEW kept \in BrowserRow, NEW m \in Messages, letters[m] \in LetterRow, NEW agree \in BOOLEAN,
           NEW asks \in BOOLEAN
    PROVE  /\ Handled(kept, m, asks, agree) \in BrowserRow
           /\ Took(kept, letters[m], m, agree, Handled(kept, m, asks, agree))
<1> DEFINE letter == letters[m]
           now == Opened(kept, letter, agree)
           here == OpensHere(kept, letter, agree)
           new == ~here /\ Accepts(kept, letter)
<1>1. /\ now \in BrowserRow
      /\ now.spk = kept.spk /\ now.blocked = kept.blocked
      /\ now.session = IF new THEN letter.session ELSE kept.session
      /\ now.next = IF new THEN 0 ELSE kept.next
      /\ now.read = IF here THEN kept.read \cup {letter.at} ELSE IF new THEN {letter.at} ELSE kept.read
      /\ now.otps = IF here \/ ~letter.opening THEN kept.otps ELSE kept.otps \ {letter.session.otp}
      /\ now.history = kept.history
    <2>1. letter \in LetterRow
        OBVIOUS
    <2> HIDE DEF letter
    <2>2. OpenedAs(kept, letter, agree, now)
        BY <2>1, OpenedParts
    <2> QED BY <2>2 DEF OpenedAs
<1> HIDE DEF now
<1>2. \A yes \in BOOLEAN :
          LET n == [now EXCEPT !.known = yes]
          IN  /\ n \in BrowserRow /\ n.spk = now.spk /\ n.blocked = now.blocked /\ n.session = now.session
              /\ n.next = now.next /\ n.read = now.read /\ n.otps = now.otps /\ n.history = now.history
    BY <1>1 DEF BrowserRow
<1>3. now.known \in BOOLEAN /\ (now.known \/ asks) \in BOOLEAN
    BY <1>1 DEF BrowserRow
<1>4. CASE ~(here \/ Accepts(kept, letter))
    <2>1. Handled(kept, m, asks, agree) = [now EXCEPT !.known = now.known \/ asks]
        BY <1>4 DEF Handled, now
    <2> HIDE DEF here
    <2> QED BY <1>1, <1>2, <1>3, <1>4, <2>1 DEF Took, here
<1>5. CASE (here \/ Accepts(kept, letter)) /\ now.blocked
    <2>1. Handled(kept, m, asks, agree) = [now EXCEPT !.known = TRUE]
        BY <1>5 DEF Handled, now
    <2> HIDE DEF here
    <2> QED BY <1>1, <1>2, <1>5, <2>1 DEF Took, here
<1>6. CASE (here \/ Accepts(kept, letter)) /\ ~now.blocked
    <2>1. Handled(kept, m, asks, agree) = Shown([now EXCEPT !.known = TRUE], m)
        BY <1>6 DEF Handled, now
    <2>2. LET n == Shown([now EXCEPT !.known = TRUE], m)
          IN  /\ n \in BrowserRow
              /\ n.spk = now.spk /\ n.blocked = now.blocked /\ n.session = now.session
              /\ n.next = now.next /\ n.read = now.read /\ n.otps = now.otps
              /\ n.history = [now.history EXCEPT ![m] = @ + 1]
        BY <1>1, HistoryParts
    <2> HIDE DEF here
    <2> QED BY <1>1, <1>6, <2>1, <2>2 DEF Took, here
<1> QED BY <1>4, <1>5, <1>6


-----------------------------------------------------------------------------
(* Mail: every variable keeps its type *)

LEMMA SavesType ==
    ASSUME MailType, NEW e \in Ends, NEW kept \in BrowserRow, Saves(e, kept)
    PROVE  /\ mem' \in [Ends -> BrowserRow] /\ vault' \in [Ends -> BrowserRow]
           /\ accepted' \in SUBSET Sessions
           /\ mem'[e] = kept /\ vault'[e] = kept
           /\ \A p \in Ends : p # e => mem'[p] = mem[p] /\ vault'[p] = vault[p]
<1>1. kept.session \in Sessions \cup {None}
    BY DEF BrowserRow
<1>2. accepted' \in SUBSET Sessions
    BY <1>1 DEF Saves, MailType
<1> QED BY <1>2 DEF Saves, MailType

LEMMA SendRows ==
    ASSUME NEW row \in LetterStep, NEW e \in Ends
    PROVE  /\ Unwritten \in LetterStep
           /\ [Unwritten EXCEPT !.step = "posted", !.by = e, !.live = TRUE] \in LetterStep
           /\ [Unwritten EXCEPT !.step = "failed"] \in LetterStep
           /\ [Unwritten EXCEPT !.step = "done"] \in LetterStep
           /\ [row EXCEPT !.step = "checked"] \in LetterStep
           /\ [row EXCEPT !.step = "stored"] \in LetterStep
           /\ [row EXCEPT !.live = FALSE] \in LetterStep
BY DEF LetterStep, Unwritten

LEMMA PollRows ==
    ASSUME NEW p \in InboxPoll, NEW l \in Fetched, NEW h \in SUBSET Messages
    PROVE  /\ Idle \in InboxPoll
           /\ [Idle EXCEPT !.step = "reading", !.left = l] \in InboxPoll
           /\ [p EXCEPT !.left = l, !.handled = h] \in InboxPoll
           /\ [p EXCEPT !.step = "acking"] \in InboxPoll
<1>1. <<>> \in Fetched
    <2>1. <<>> = [i \in {} |-> None]
        OBVIOUS
    <2>2. [i \in {} |-> None] \in [{} -> Messages]
        OBVIOUS
    <2> QED BY <2>1, <2>2 DEF Fetched
<1> QED BY <1>1 DEF InboxPoll, Idle

LEMMA FetchedRows ==
    ASSUME NEW l \in Fetched
    PROVE  /\ DOMAIN l \in SUBSET Nat
           /\ \A j \in DOMAIN l : l[j] \in Messages
           /\ \A S : Restrict(l, DOMAIN l \ S) \in Fetched
           /\ DOMAIN l # {} => Min(DOMAIN l) \in DOMAIN l /\ \A j \in DOMAIN l : Min(DOMAIN l) <= j
<1>1. DOMAIN l \in SUBSET Nat /\ l \in [DOMAIN l -> Messages]
    BY DEF Fetched
<1>2. \A S : /\ DOMAIN l \ S \in SUBSET Nat
             /\ Restrict(l, DOMAIN l \ S) \in [DOMAIN l \ S -> Messages]
    BY <1>1 DEF Restrict
<1>3. DOMAIN l # {} => Min(DOMAIN l) \in DOMAIN l /\ \A j \in DOMAIN l : Min(DOMAIN l) <= j
    BY <1>1, MinIsLeast
<1>4. \A S : Restrict(l, DOMAIN l \ S) \in Fetched
    BY <1>2 DEF Fetched
<1> QED BY <1>1, <1>3, <1>4

LEMMA BoxRows ==
    ASSUME NEW b \in Boxes
    PROVE  /\ DOMAIN b \in SUBSET Nat
           /\ \A j \in DOMAIN b : b[j] \in MailRow /\ b[j].m \in Messages
           /\ \A S : Restrict(b, DOMAIN b \cap S) \in Boxes
           /\ \A j \in DOMAIN b : [b EXCEPT ![j].held = FALSE] \in Boxes
           /\ \A S \in SUBSET DOMAIN b : [j \in S |-> b[j].m] \in Fetched
           /\ DOMAIN b # {} => Min(DOMAIN b) \in DOMAIN b /\ \A j \in DOMAIN b : Min(DOMAIN b) <= j
<1>1. DOMAIN b \in SUBSET Nat /\ b \in [DOMAIN b -> MailRow]
    BY DEF Boxes
<1>2. PICK n \in Nat : \A i \in DOMAIN b : i <= n
    BY DEF Boxes
<1>3. \A j \in DOMAIN b : b[j] \in MailRow /\ b[j].m \in Messages
    BY <1>1 DEF MailRow
<1>4. ASSUME NEW S PROVE Restrict(b, DOMAIN b \cap S) \in Boxes
    <2>1. Restrict(b, DOMAIN b \cap S) \in [DOMAIN b \cap S -> MailRow]
        BY <1>1 DEF Restrict
    <2>2. DOMAIN b \cap S \in SUBSET Nat /\ \A i \in DOMAIN b \cap S : i <= n
        BY <1>1, <1>2
    <2>3. \A i \in DOMAIN Restrict(b, DOMAIN b \cap S) : i <= n
        BY <2>1, <2>2
    <2> QED BY <2>1, <2>2, <2>3 DEF Boxes
<1>5. ASSUME NEW j \in DOMAIN b PROVE [b EXCEPT ![j].held = FALSE] \in Boxes
    <2>1. [b EXCEPT ![j].held = FALSE] \in [DOMAIN b -> MailRow]
        BY <1>1 DEF MailRow
    <2> QED BY <1>1, <1>2, <2>1 DEF Boxes
<1>6. ASSUME NEW S \in SUBSET DOMAIN b PROVE [j \in S |-> b[j].m] \in Fetched
    <2>1. S \in SUBSET Nat /\ [j \in S |-> b[j].m] \in [S -> Messages]
        BY <1>1, <1>3
    <2> QED BY <2>1 DEF Fetched
<1> QED BY <1>1, <1>3, <1>4, <1>5, <1>6, MinIsLeast

\* The steps of a browser and of the server beside it, each with its parts.
LEMMA MailInitType == Init => MailType
<1> SUFFICES ASSUME Init PROVE MailType
    OBVIOUS
<1>1. NewDevice \in BrowserRow
    BY DEF NewDevice, BrowserRow
<1>2. <<>> \in Boxes
    <2>1. <<>> = [i \in {} |-> None] /\ [i \in {} |-> None] \in [{} -> MailRow]
        OBVIOUS
    <2>2. \A i \in DOMAIN [i \in {} |-> None] : i <= 0
        OBVIOUS
    <2> QED BY <2>1, <2>2 DEF Boxes
<1>3. PICK e \in Ends : TRUE
    BY EndsAssumption
<1>4. Unwritten \in LetterStep
    BY DEF LetterStep, Unwritten
<1>5. <<>> \in Fetched
    <2>1. <<>> = [i \in {} |-> None] /\ [i \in {} |-> None] \in [{} -> Messages]
        OBVIOUS
    <2> QED BY <2>1 DEF Fetched
<1>6. Idle \in InboxPoll
    BY <1>5 DEF InboxPoll, Idle
<1>7. [spk |-> 1, otps |-> {1}, made |-> 1, revoked |-> FALSE] \in KeysRow
    BY DEF KeysRow
<1> QED BY <1>1, <1>2, <1>4, <1>6, <1>7 DEF Init, MailType


LEMMA RowFields ==
    ASSUME NEW k \in BrowserRow, NEW o \in SUBSET Nat, NEW spk \in Nat, NEW yes \in BOOLEAN
    PROVE  /\ [k EXCEPT !.otps = o] \in BrowserRow
           /\ [k EXCEPT !.spk = spk] \in BrowserRow
           /\ [k EXCEPT !.blocked = yes] \in BrowserRow
BY DEF BrowserRow

\* Writing starts or continues a session.
Writing(k, session, at) == [k EXCEPT !.session = session, !.next = at, !.known = TRUE]
LEMMA WritingParts ==
    ASSUME NEW k \in BrowserRow, NEW session \in Sessions, NEW at \in Nat
    PROVE  LET now == Writing(k, session, at)
           IN  /\ now \in BrowserRow /\ now.session = session /\ now.next = at /\ now.read = k.read
               /\ now.blocked = k.blocked /\ now.history = k.history /\ now.spk = k.spk /\ now.otps = k.otps
<1> DEFINE k1 == [k EXCEPT !.session = session]
           k2 == [k1 EXCEPT !.next = at]
           k3 == [k2 EXCEPT !.known = TRUE]
<1>1. /\ k1 \in BrowserRow /\ k1.session = session /\ k1.next = k.next /\ k1.read = k.read
      /\ k1.blocked = k.blocked /\ k1.history = k.history /\ k1.spk = k.spk /\ k1.otps = k.otps
    BY DEF BrowserRow
<1>2. Writing(k, session, at) = k3
    BY DEF Writing, BrowserRow
<1> HIDE DEF k1
<1>3. /\ k2 \in BrowserRow /\ k2.session = k1.session /\ k2.next = at /\ k2.read = k1.read
      /\ k2.blocked = k1.blocked /\ k2.history = k1.history /\ k2.spk = k1.spk /\ k2.otps = k1.otps
    BY <1>1 DEF BrowserRow
<1> HIDE DEF k2
<1>4. /\ k3 \in BrowserRow /\ k3.session = k2.session /\ k3.next = k2.next /\ k3.read = k2.read
      /\ k3.blocked = k2.blocked /\ k3.history = k2.history /\ k3.spk = k2.spk /\ k3.otps = k2.otps
    BY <1>3 DEF BrowserRow
<1> HIDE DEF k3
<1> QED BY <1>1, <1>2, <1>3, <1>4

\* Deleting a conversation forgets its session and its history.
Forgetting(k, known) ==
    [k EXCEPT !.session = None, !.next = 0, !.read = {}, !.known = known, !.history = [m \in Messages |-> 0]]
LEMMA ForgettingParts ==
    ASSUME NEW k \in BrowserRow, NEW known \in BOOLEAN
    PROVE  LET now == Forgetting(k, known)
           IN  /\ now \in BrowserRow /\ now.session = None /\ now.next = 0 /\ now.read = {}
               /\ now.blocked = k.blocked /\ now.history = [m \in Messages |-> 0]
               /\ now.spk = k.spk /\ now.otps = k.otps
<1> DEFINE none == [m \in Messages |-> 0]
           k1 == [k EXCEPT !.session = None]
           k2 == [k1 EXCEPT !.next = 0]
           k3 == [k2 EXCEPT !.read = {}]
           k4 == [k3 EXCEPT !.known = known]
           k5 == [k4 EXCEPT !.history = none]
<1>0. none \in [Messages -> Nat]
    OBVIOUS
<1>1. /\ k1 \in BrowserRow /\ k1.session = None
      /\ k1.blocked = k.blocked /\ k1.spk = k.spk /\ k1.otps = k.otps
    BY DEF BrowserRow
<1>2. Forgetting(k, known) = k5
    BY DEF Forgetting, BrowserRow
<1> HIDE DEF k1, none
<1>3. /\ k2 \in BrowserRow /\ k2.session = k1.session /\ k2.next = 0
      /\ k2.blocked = k1.blocked /\ k2.spk = k1.spk /\ k2.otps = k1.otps
    BY <1>1 DEF BrowserRow
<1> HIDE DEF k2
<1>4. /\ k3 \in BrowserRow /\ k3.session = k2.session /\ k3.next = k2.next /\ k3.read = {}
      /\ k3.blocked = k2.blocked /\ k3.spk = k2.spk /\ k3.otps = k2.otps
    BY <1>3 DEF BrowserRow
<1> HIDE DEF k3
<1>5. /\ k4 \in BrowserRow /\ k4.session = k3.session /\ k4.next = k3.next /\ k4.read = k3.read
      /\ k4.blocked = k3.blocked /\ k4.spk = k3.spk /\ k4.otps = k3.otps
    BY <1>4 DEF BrowserRow
<1> HIDE DEF k4
<1>6. /\ k5 \in BrowserRow /\ k5.session = k4.session /\ k5.next = k4.next /\ k5.read = k4.read
      /\ k5.blocked = k4.blocked /\ k5.spk = k4.spk /\ k5.otps = k4.otps /\ k5.history = none
    BY <1>0, <1>5 DEF BrowserRow
<1> HIDE DEF k5
<1> QED BY <1>1, <1>2, <1>3, <1>4, <1>5, <1>6 DEF none

LEMMA RotatedType ==
    ASSUME MailType, NEW e \in Ends
    PROVE  Rotated(e) \in Nat
<1>1. mem[e].spk \in Nat /\ directory[e].spk \in Nat
    BY DEF MailType, BrowserRow, KeysRow
<1>2. \A a, b \in Nat : Max({a, b}) \in Nat
    <2> TAKE a, b \in Nat
    <2>1. \E x \in {a, b} : \A y \in {a, b} : x >= y
        OBVIOUS
    <2> QED BY <2>1 DEF Max
<1> QED BY <1>1, <1>2 DEF Rotated

LEMMA SendType ==
    ASSUME MailType, MailLetters, NEW m \in Messages,
           \/ \E e \in Ends : AskBundle(e, m)
           \/ Encrypt(m) \/ PostFails(m) \/ LookUpDevices(m) \/ SaveSent(m)
           \/ \E held \in BOOLEAN : StoreEnvelope(m, held)
    PROVE  MailType'
<1> USE DEF MailType
<1>0. /\ sends[m] \in LetterStep
      /\ \A k \in Nat : k + 1 \in Nat
    OBVIOUS
<1>a. \A kind : Fault(kind) => faults' \in Nat
    BY DEF Fault
<1>1. ASSUME NEW e \in Ends, AskBundle(e, m) PROVE MailType'
    <2> DEFINE p == Peer(e)
               claimed == IF directory[p].otps = {} THEN 0 ELSE Min(directory[p].otps)
               row == [step |-> "bundle", by |-> e, live |-> TRUE, spk |-> directory[p].spk, otp |-> claimed]
    <2>1. p \in Ends /\ directory[p] \in KeysRow /\ directory[p].otps \in SUBSET Nat /\ directory[p].spk \in Nat
        BY PeerOther DEF KeysRow
    <2>2. claimed \in Nat
        BY <2>1, MinIsLeast
    <2> HIDE DEF claimed
    <2>3. row \in LetterStep
        BY <2>1, <2>2 DEF LetterStep
    <2>4. [directory[p] EXCEPT !.otps = directory[p].otps \ {claimed}] \in KeysRow
        BY <2>1 DEF KeysRow
    <2>5. /\ directory' = [directory EXCEPT ![p] = [directory[p] EXCEPT !.otps = directory[p].otps \ {claimed}]]
          /\ sends' = [sends EXCEPT ![m] = row]
          /\ UNCHANGED <<mix, faults, mem, vault, inbox, letters, polls, publishing, accepted, late>>
        BY <1>1, <2>1 DEF AskBundle, claimed
    <2> HIDE DEF row, p
    <2> QED BY <2>1, <2>3, <2>4, <2>5
<1>2. CASE Encrypt(m)
    <2> DEFINE e == sends[m].by
               opening == mem[e].session = None
               session == IF opening THEN Initiated(m) ELSE mem[e].session
               at == mem[e].next + 1
               row == [Unwritten EXCEPT !.step = "posted", !.by = e, !.live = TRUE]
               letter == [to |-> Peer(e), session |-> session, at |-> at, opening |-> opening]
    <2>1. e \in Ends /\ sends[m].spk \in Nat /\ sends[m].otp \in Nat /\ Peer(e) \in Ends
        BY <1>2, PeerOther DEF Encrypt, MailLetters, LetterStep
    <2>2. session \in Sessions /\ at \in Nat
        BY <2>1 DEF BrowserRow, Initiated, Sessions
    <2>3. row \in LetterStep
        BY <2>1, SendRows, <1>0
    <2>4. letter \in LetterRow
        BY <2>1, <2>2 DEF LetterRow
    <2>5. /\ mem' = [mem EXCEPT ![e] = Writing(mem[e], session, at)]
          /\ letters' = [letters EXCEPT ![m] = letter] /\ sends' = [sends EXCEPT ![m] = row]
          /\ UNCHANGED <<mix, faults, vault, directory, inbox, polls, publishing, accepted, late>>
        BY <1>2 DEF Encrypt, Writing
    <2>6. Writing(mem[e], session, at) \in BrowserRow
        BY <2>1, <2>2, WritingParts
    <2> HIDE DEF row, letter, session, at, opening, e
    <2> QED BY <2>1, <2>3, <2>4, <2>5, <2>6
<1>3. CASE PostFails(m)
    <2>1. [Unwritten EXCEPT !.step = "failed"] \in LetterStep
        BY SendRows, <1>0, EndsAssumption
    <2> QED BY <1>3, <2>1, <1>a DEF PostFails
<1>4. CASE LookUpDevices(m)
    <2>1. [Unwritten EXCEPT !.step = "failed"] \in LetterStep /\ [sends[m] EXCEPT !.step = "checked"] \in LetterStep
        BY SendRows, <1>0, EndsAssumption
    <2> QED BY <1>4, <2>1 DEF LookUpDevices
<1>5. CASE SaveSent(m)
    <2>1. [Unwritten EXCEPT !.step = "done"] \in LetterStep
        BY SendRows, <1>0, EndsAssumption
    <2> DEFINE e == sends[m].by
    <2>2. e \in Ends /\ mem[e] \in BrowserRow
        BY <1>5 DEF SaveSent, MailLetters
    <2>3. Shown(mem[e], m) \in BrowserRow
        <3> DEFINE k == mem[e]
        <3>1. k \in BrowserRow /\ k.history \in [Messages -> Nat]
            BY <2>2 DEF BrowserRow
        <3> HIDE DEF k
        <3>2. [k.history EXCEPT ![m] = @ + 1] \in [Messages -> Nat]
            BY <3>1
        <3>3. \A h \in [Messages -> Nat] : [k EXCEPT !.history = h] \in BrowserRow
            BY <3>1 DEF BrowserRow
        <3>4. Shown(k, m) \in BrowserRow
            BY <3>2, <3>3 DEF Shown
        <3> QED BY <3>4 DEF k
    <2>4. \/ Saves(e, Shown(mem[e], m)) /\ UNCHANGED faults
          \/ UNCHANGED <<mem, vault, accepted, faults>>
          \/ Fault("answer") /\ UNCHANGED <<mem, vault, accepted>>
        BY <1>5 DEF SaveSent, browser
    <2>5. /\ mem' \in [Ends -> BrowserRow] /\ vault' \in [Ends -> BrowserRow] /\ accepted' \in SUBSET Sessions
          /\ faults' \in Nat
        BY <2>2, <2>3, <2>4, <1>a, SavesType
    <2>6. /\ sends' = [sends EXCEPT ![m] = [Unwritten EXCEPT !.step = "done"]]
          /\ UNCHANGED <<mix, directory, inbox, letters, polls, publishing, late>>
        BY <1>5 DEF SaveSent
    <2> HIDE DEF e
    <2> QED BY <2>1, <2>5, <2>6
<1>6. ASSUME NEW held \in BOOLEAN, StoreEnvelope(m, held) PROVE MailType'
    <2> DEFINE p == letters[m].to
               v == [m |-> m, held |-> held]
    <2>1. p \in Ends /\ inbox[p] \in Boxes /\ v \in MailRow
        BY <1>6 DEF StoreEnvelope, MailLetters, LetterRow, MailRow
    <2>2. Put(inbox[p], v) \in Boxes
        BY <2>1, PutLast
    <2>3. [sends[m] EXCEPT !.step = "stored"] \in LetterStep
        BY SendRows, <1>0, EndsAssumption
    <2>4. /\ inbox' = [inbox EXCEPT ![p] = Put(inbox[p], v)]
          /\ sends' = [sends EXCEPT ![m] = [sends[m] EXCEPT !.step = "stored"]]
          /\ UNCHANGED <<mix, mem, vault, directory, letters, polls, publishing, accepted, late>>
        BY <1>6 DEF StoreEnvelope
    <2>5. faults' \in Nat
        BY <1>6, <1>a DEF StoreEnvelope
    <2> HIDE DEF p, v
    <2> QED BY <2>1, <2>2, <2>3, <2>4, <2>5
<1> QED BY <1>1, <1>2, <1>3, <1>4, <1>5, <1>6


\* What a step of a poll does to the row of that poll.
LEMMA PollSet ==
    ASSUME MailType, NEW e \in Ends, NEW i \in 1..mix.polls, NEW row \in InboxPoll,
           polls' = [polls EXCEPT ![e] = [polls[e] EXCEPT ![i] = row]]
    PROVE  /\ polls' \in [Ends -> [1..mix.polls -> InboxPoll]]
           /\ polls'[e][i] = row
           /\ \A p \in Ends, j \in 1..mix.polls : p # e \/ j # i => polls'[p][j] = polls[p][j]
BY DEF MailType

LEMMA OnwardParts ==
    ASSUME NEW p \in InboxPoll, NEW handled \in SUBSET Messages
    PROVE  LET now == Onward(p, handled)
               first == Min(DOMAIN p.left)
           IN  /\ now \in InboxPoll /\ now.step = p.step /\ now.handled = p.handled \cup handled
               /\ DOMAIN now.left = DOMAIN p.left \ {first}
               /\ \A j \in DOMAIN now.left : now.left[j] = p.left[j]
<1> DEFINE first == Min(DOMAIN p.left)
           l == Restrict(p.left, DOMAIN p.left \ {first})
<1>1. p.left \in Fetched /\ p.handled \in SUBSET Messages
    BY DEF InboxPoll
<1>2. l \in Fetched
    BY <1>1, FetchedRows
<1>3. DOMAIN l = DOMAIN p.left \ {first} /\ \A j \in DOMAIN l : l[j] = p.left[j]
    BY DEF Restrict
<1>4. Onward(p, handled) = [p EXCEPT !.left = l, !.handled = p.handled \cup handled]
    BY DEF Onward
<1> HIDE DEF l, first
<1>5. LET now == [p EXCEPT !.left = l, !.handled = p.handled \cup handled]
      IN  now \in InboxPoll /\ now.step = p.step /\ now.handled = p.handled \cup handled /\ now.left = l
    BY <1>1, <1>2 DEF InboxPoll
<1> QED BY <1>3, <1>4, <1>5 DEF first

\* What a poll does with its first envelope, m.
Leaves(e, i, m) ==
    /\ letters[m].opening /\ ~mem[e].known /\ Fault("directory")
    /\ accidents' = accidents \cup {"unasked"}
    /\ polls' = [polls EXCEPT ![e] = [polls[e] EXCEPT ![i] = Onward(polls[e][i], {})]]
    /\ UNCHANGED mem
Strange(e, i, m) ==
    /\ directory[Peer(e)].revoked
    /\ polls' = [polls EXCEPT ![e] = [polls[e] EXCEPT ![i] = Onward(polls[e][i], {m})]]
    /\ UNCHANGED <<mem, faults, accidents>>
Reads(e, i, m, agree) ==
    /\ agree \/ "restart" \in accidents
    /\ mem' = [mem EXCEPT ![e] = Handled(mem[e], m, letters[m].opening /\ ~mem[e].known, agree)]
    /\ accidents' = accidents \cup (IF Resets(mem[e], letters[m], agree) THEN {"reset"} ELSE {})
    /\ polls' = [polls EXCEPT ![e] = [polls[e] EXCEPT ![i] = Onward(polls[e][i], {m})]]
    /\ UNCHANGED faults

LEMMA ProcessEffect ==
    ASSUME MailType, MailOnItsWay, NEW e \in Ends, NEW i \in 1..mix.polls, ProcessEnvelope(e, i)
    PROVE  /\ polls[e][i].step = "reading" /\ DOMAIN polls[e][i].left # {}
           /\ \E m \in Messages :
                  /\ m = polls[e][i].left[Min(DOMAIN polls[e][i].left)]
                  /\ letters[m] \in LetterRow /\ letters[m].to = e
                  /\ Leaves(e, i, m) \/ Strange(e, i, m) \/ \E agree \in BOOLEAN : Reads(e, i, m, agree)
           /\ UNCHANGED <<mix, vault, directory, inbox, sends, letters, publishing, accepted, late>>
<1> DEFINE p == polls[e][i]
           first == Min(DOMAIN p.left)
           m == p.left[first]
           asks == letters[m].opening /\ ~mem[e].known
           Moved(handled) == [polls EXCEPT ![e][i] = Onward(@, handled)]
<1>1. p \in InboxPoll /\ p.left \in Fetched
    <2>1. p \in InboxPoll
        BY DEF MailType
    <2> QED BY <2>1 DEF InboxPoll
<1>2. p.step = "reading" /\ DOMAIN p.left # {}
    BY DEF ProcessEnvelope
<1>3. first \in DOMAIN p.left /\ m \in Messages
    BY <1>1, <1>2, FetchedRows
<1>4. letters[m] \in LetterRow /\ letters[m].to = e
    <2>1. For(e, m)
        BY <1>3 DEF MailOnItsWay
    <2> HIDE DEF m
    <2> QED BY <1>3, <2>1 DEF For, MailType, ForIn
<1>5. ASSUME NEW handled
      PROVE  Moved(handled) = [polls EXCEPT ![e] = [polls[e] EXCEPT ![i] = Onward(polls[e][i], handled)]]
    OBVIOUS
<1>6. /\ \/ /\ asks /\ Fault("directory")
            /\ accidents' = accidents \cup {"unasked"}
            /\ polls' = Moved({})
            /\ UNCHANGED mem
         \/ /\ asks /\ directory[Peer(e)].revoked
            /\ polls' = Moved({m})
            /\ UNCHANGED <<mem, faults, accidents>>
         \/ /\ \E agree \in (IF "restart" \in accidents THEN BOOLEAN ELSE {TRUE}) :
                   /\ mem' = [mem EXCEPT ![e] = Handled(mem[e], m, asks, agree)]
                   /\ accidents' = accidents \cup (IF Resets(mem[e], letters[m], agree) THEN {"reset"} ELSE {})
            /\ polls' = Moved({m})
            /\ UNCHANGED faults
      /\ UNCHANGED <<mix, vault, directory, inbox, sends, letters, publishing, accepted, late>>
    BY DEF ProcessEnvelope
<1>7. Leaves(e, i, m) \/ Strange(e, i, m) \/ \E agree \in BOOLEAN : Reads(e, i, m, agree)
    <2>1. CASE /\ asks /\ Fault("directory")
               /\ accidents' = accidents \cup {"unasked"}
               /\ polls' = Moved({})
               /\ UNCHANGED mem
        BY <1>5, <2>1 DEF Leaves
    <2>2. CASE /\ asks /\ directory[Peer(e)].revoked
               /\ polls' = Moved({m})
               /\ UNCHANGED <<mem, faults, accidents>>
        BY <1>5, <2>2 DEF Strange
    <2>3. CASE /\ \E agree \in (IF "restart" \in accidents THEN BOOLEAN ELSE {TRUE}) :
                      /\ mem' = [mem EXCEPT ![e] = Handled(mem[e], m, asks, agree)]
                      /\ accidents' = accidents \cup (IF Resets(mem[e], letters[m], agree) THEN {"reset"} ELSE {})
               /\ polls' = Moved({m})
               /\ UNCHANGED faults
        <3>1. polls' = [polls EXCEPT ![e] = [polls[e] EXCEPT ![i] = Onward(polls[e][i], {m})]]
            BY <1>5, <2>3
        <3>2. PICK agree \in (IF "restart" \in accidents THEN BOOLEAN ELSE {TRUE}) :
                      /\ mem' = [mem EXCEPT ![e] = Handled(mem[e], m, asks, agree)]
                      /\ accidents' = accidents \cup (IF Resets(mem[e], letters[m], agree) THEN {"reset"} ELSE {})
            BY <2>3
        <3>3. agree \in BOOLEAN /\ (agree \/ "restart" \in accidents)
            OBVIOUS
        <3>4. Reads(e, i, m, agree)
            BY <2>3, <3>1, <3>2, <3>3 DEF Reads
        <3> QED BY <3>3, <3>4
    <2> QED BY <1>6, <2>1, <2>2, <2>3
<1> HIDE DEF m, first, p
<1>8. /\ p = polls[e][i] /\ m = p.left[Min(DOMAIN p.left)]
    BY DEF m, first, p
<1> QED BY <1>2, <1>3, <1>4, <1>6, <1>7, <1>8

LEMMA PollType ==
    ASSUME MailType, MailOnItsWay, NEW e \in Ends, NEW i \in 1..mix.polls,
           FetchEnvelopes(e, i) \/ ProcessEnvelope(e, i) \/ PersistInbox(e, i) \/ Acknowledge(e, i)
    PROVE  MailType'
<1>0. mem[e] \in BrowserRow /\ inbox[e] \in Boxes /\ polls[e][i] \in InboxPoll /\ polls[e][i].left \in Fetched
    <2>1. mem[e] \in BrowserRow /\ inbox[e] \in Boxes /\ polls[e][i] \in InboxPoll
        BY DEF MailType
    <2> QED BY <2>1 DEF InboxPoll
<1>a. \A kind : Fault(kind) => faults' \in Nat
    BY DEF Fault, MailType
<1>b. Idle \in InboxPoll
    BY <1>0, PollRows
<1>1. CASE FetchEnvelopes(e, i)
    <2> DEFINE due == {j \in DOMAIN inbox[e] : ~inbox[e][j].held}
               l == [j \in due |-> inbox[e][j].m]
    <2>1. l \in Fetched
        BY <1>0, BoxRows
    <2>2. [Idle EXCEPT !.step = "reading", !.left = l] \in InboxPoll
        BY <1>0, <2>1, PollRows
    <2>3. <<>> \in Boxes
        <3>1. <<>> = [j \in {} |-> None] /\ [j \in {} |-> None] \in [{} -> MailRow]
            OBVIOUS
        <3>2. \A j \in DOMAIN [j \in {} |-> None] : j <= 0
            OBVIOUS
        <3> QED BY <3>1, <3>2 DEF Boxes
    <2>4. /\ \/ polls' = [polls EXCEPT ![e] = [polls[e] EXCEPT ![i] = [Idle EXCEPT !.step = "reading", !.left = l]]]
                /\ UNCHANGED <<inbox, faults>>
             \/ inbox' = [inbox EXCEPT ![e] = <<>>] /\ Fault("expiry") /\ UNCHANGED polls
          /\ UNCHANGED <<mix, mem, vault, directory, sends, letters, publishing, accepted, late>>
        BY <1>1 DEF FetchEnvelopes
    <2> HIDE DEF l
    <2>5. polls' \in [Ends -> [1..mix.polls -> InboxPoll]]
        BY <2>2, <2>4, PollSet DEF MailType
    <2> QED BY <1>a, <2>3, <2>4, <2>5 DEF MailType
<1>2. CASE ProcessEnvelope(e, i)
    <2>1. PICK m \in Messages :
              /\ letters[m] \in LetterRow
              /\ Leaves(e, i, m) \/ Strange(e, i, m) \/ \E agree \in BOOLEAN : Reads(e, i, m, agree)
        BY <1>2, ProcessEffect
    <2>2. UNCHANGED <<mix, vault, directory, inbox, sends, letters, publishing, accepted, late>>
        BY <1>2, ProcessEffect
    <2>3. Onward(polls[e][i], {}) \in InboxPoll /\ Onward(polls[e][i], {m}) \in InboxPoll
        BY <1>0, OnwardParts
    <2>4. polls' \in [Ends -> [1..mix.polls -> InboxPoll]]
        BY <2>1, <2>3, PollSet DEF Leaves, Strange, Reads
    <2>5. mem' \in [Ends -> BrowserRow]
        <3>1. ASSUME NEW agree \in BOOLEAN, Reads(e, i, m, agree)
              PROVE  mem' \in [Ends -> BrowserRow]
            <4> DEFINE asks == letters[m].opening /\ ~mem[e].known
            <4>0. asks \in BOOLEAN
                OBVIOUS
            <4> HIDE DEF asks
            <4>1. Handled(mem[e], m, asks, agree) \in BrowserRow
                BY <1>0, <2>1, <4>0, HandledParts
            <4>2. mem' = [mem EXCEPT ![e] = Handled(mem[e], m, asks, agree)]
                BY <3>1 DEF Reads, asks
            <4> QED BY <4>1, <4>2 DEF MailType
        <3> QED BY <2>1, <3>1 DEF Leaves, Strange, MailType
    <2>6. faults' \in Nat
        BY <2>1, <1>a DEF Leaves, Strange, Reads, MailType
    <2> QED BY <2>2, <2>4, <2>5, <2>6 DEF MailType
<1>3. CASE PersistInbox(e, i)
    <2>1. /\ mem' \in [Ends -> BrowserRow] /\ vault' \in [Ends -> BrowserRow] /\ accepted' \in SUBSET Sessions
        BY <1>0, <1>3, SavesType DEF PersistInbox
    <2>2. polls' = [polls EXCEPT ![e] = [polls[e] EXCEPT ![i] = [polls[e][i] EXCEPT !.step = "acking"]]]
        BY <1>3 DEF PersistInbox
    <2>3. [polls[e][i] EXCEPT !.step = "acking"] \in InboxPoll
        BY <1>0 DEF InboxPoll
    <2>4. polls' \in [Ends -> [1..mix.polls -> InboxPoll]]
        BY <2>2, <2>3, PollSet
    <2> QED BY <1>3, <2>1, <2>4 DEF PersistInbox, MailType
<1>4. CASE Acknowledge(e, i)
    <2> DEFINE kept == {j \in DOMAIN inbox[e] : inbox[e][j].m \notin polls[e][i].handled}
               box == IF directory[e].revoked THEN inbox[e] ELSE Restrict(inbox[e], kept)
    <2>1. kept = DOMAIN inbox[e] \cap kept
        OBVIOUS
    <2>2. box \in Boxes
        BY <1>0, <2>1, BoxRows
    <2>3. /\ polls' = [polls EXCEPT ![e] = [polls[e] EXCEPT ![i] = Idle]]
          /\ \/ inbox' = [inbox EXCEPT ![e] = box] /\ UNCHANGED faults
             \/ Fault("ack") /\ UNCHANGED inbox
          /\ UNCHANGED <<mix, mem, vault, directory, sends, letters, publishing, accepted, late>>
        BY <1>4 DEF Acknowledge
    <2> HIDE DEF box
    <2>4. polls' \in [Ends -> [1..mix.polls -> InboxPoll]]
        BY <1>b, <2>3, PollSet
    <2> QED BY <1>a, <2>2, <2>3, <2>4 DEF MailType
<1> QED BY <1>1, <1>2, <1>3, <1>4


BrowserStep(e) ==
    \/ \E stale \in BOOLEAN : PublishDevice(e, stale)
    \/ Release(e) \/ Restart(e) \/ StoreDevice(e) \/ TopUp(e)
    \/ DeleteConversation(e) \/ SetBlocked(e) \/ RevokeDevice(e)

\* What publishDevice and the routes behind it change.
PublishEffect(e, spk) ==
    /\ mem' = [mem EXCEPT ![e] = [mem[e] EXCEPT !.spk = spk]]
    /\ publishing' = [publishing EXCEPT ![e] = [step |-> "sent", live |-> TRUE, spk |-> spk, otps |-> mem[e].otps]]
    /\ UNCHANGED <<mix, vault, directory, inbox, sends, letters, polls, accepted, late>>

Fresh(e) == IF Cardinality(directory[e].otps) < LowWater THEN Generated(e) ELSE {}

LEMMA FreshKeys ==
    ASSUME MailType, NEW e \in Ends
    PROVE  /\ Fresh(e) \in SUBSET {directory[e].made + 1}
           /\ Cardinality(Fresh(e)) = IF Fresh(e) = {} THEN 0 ELSE 1
           /\ directory[e].made \in Nat
<1>1. directory[e].made \in Nat
    BY DEF MailType, KeysRow
<1>2. Fresh(e) \in SUBSET {directory[e].made + 1}
    BY <1>1 DEF Fresh, Generated
<1>3. Fresh(e) = {} \/ Fresh(e) = {directory[e].made + 1}
    BY <1>2
<1> QED BY <1>1, <1>2, <1>3, FS_EmptySet, FS_Singleton

TopUpEffect(e) ==
    /\ Saves(e, [mem[e] EXCEPT !.otps = mem[e].otps \cup Fresh(e)])
    /\ publishing' = [publishing EXCEPT ![e] = None]
    /\ \E row \in KeysRow :
          /\ directory' = [directory EXCEPT ![e] = row]
          /\ row.spk = directory[e].spk /\ row.revoked = directory[e].revoked
          /\ row.otps = IF directory[e].revoked THEN directory[e].otps ELSE directory[e].otps \cup Fresh(e)
          /\ row.made = directory[e].made + Cardinality(Fresh(e))
    /\ UNCHANGED <<mix, faults, inbox, sends, letters, polls, accidents, late>>

LEMMA TopsUp == ASSUME MailType, NEW e \in Ends, TopUp(e) PROVE TopUpEffect(e)
<1> DEFINE d == directory[e]
           otps == IF d.revoked THEN d.otps ELSE d.otps \cup Fresh(e)
           made == d.made + Cardinality(Fresh(e))
           d1 == [d EXCEPT !.otps = otps]
           d2 == [d1 EXCEPT !.made = made]
<1>1. d \in KeysRow
    BY DEF MailType
<1>2. d.made \in Nat /\ d.otps \in SUBSET Nat /\ Fresh(e) \in SUBSET Nat /\ Cardinality(Fresh(e)) \in Nat
    BY <1>1, FreshKeys DEF KeysRow
<1>3. otps \in SUBSET Nat /\ made \in Nat
    BY <1>2
<1>4. directory' = [directory EXCEPT ![e].otps = IF directory[e].revoked THEN @ ELSE @ \cup Fresh(e),
                                     ![e].made = @ + Cardinality(Fresh(e))]
    BY DEF TopUp, Fresh
<1>5. directory' = [directory EXCEPT ![e] = d2]
    <2> DEFINE g1 == [directory EXCEPT ![e] = d1]
    <2>1. g1[e] = d1 /\ d1.made = d.made
        BY <1>1 DEF MailType, KeysRow
    <2>2. directory' = [g1 EXCEPT ![e] = [g1[e] EXCEPT !.made = g1[e].made + Cardinality(Fresh(e))]]
        BY <1>4
    <2>3. directory' = [g1 EXCEPT ![e] = d2]
        BY <2>1, <2>2
    <2> HIDE DEF d1, d2
    <2> QED BY <2>3 DEF MailType
<1> HIDE DEF otps, made
<1>6. d1 \in KeysRow /\ d1.spk = d.spk /\ d1.revoked = d.revoked /\ d1.otps = otps
    BY <1>1, <1>3 DEF KeysRow
<1> HIDE DEF d1
<1>7. d2 \in KeysRow /\ d2.spk = d1.spk /\ d2.revoked = d1.revoked /\ d2.otps = d1.otps /\ d2.made = made
    BY <1>3, <1>6 DEF KeysRow
<1> HIDE DEF d2
<1>8. \E row \in KeysRow :
          /\ directory' = [directory EXCEPT ![e] = row]
          /\ row.spk = directory[e].spk /\ row.revoked = directory[e].revoked
          /\ row.otps = IF directory[e].revoked THEN directory[e].otps ELSE directory[e].otps \cup Fresh(e)
          /\ row.made = directory[e].made + Cardinality(Fresh(e))
    BY <1>5, <1>6, <1>7 DEF otps, made
<1>9. /\ Saves(e, [mem[e] EXCEPT !.otps = mem[e].otps \cup Fresh(e)])
      /\ publishing' = [publishing EXCEPT ![e] = None]
      /\ UNCHANGED <<mix, faults, inbox, sends, letters, polls, accidents, late>>
    BY DEF TopUp, Fresh
<1> QED BY <1>8, <1>9 DEF TopUpEffect

LEMMA BrowserType ==
    ASSUME MailType, NEW e \in Ends, BrowserStep(e)
    PROVE  MailType'
<1>0. /\ mem[e] \in BrowserRow /\ vault[e] \in BrowserRow /\ inbox[e] \in Boxes /\ directory[e] \in KeysRow
      /\ publishing[e] \in Publication \cup {None}
    BY DEF MailType
<1>a. \A kind : Fault(kind) => faults' \in Nat
    BY DEF Fault, MailType
<1>1. ASSUME NEW stale \in BOOLEAN, PublishDevice(e, stale) PROVE MailType'
    <2> DEFINE spk == IF stale THEN Rotated(e) ELSE mem[e].spk
               row == [step |-> "sent", live |-> TRUE, spk |-> spk, otps |-> mem[e].otps]
    <2>1. spk \in Nat
        BY <1>0, RotatedType DEF BrowserRow
    <2>2. row \in Publication
        BY <1>0, <2>1 DEF BrowserRow, Publication
    <2>3. PublishEffect(e, spk) /\ Fault("publish")
        BY <1>1 DEF PublishDevice, PublishEffect
    <2> HIDE DEF spk
    <2>4. [mem[e] EXCEPT !.spk = spk] \in BrowserRow
        BY <1>0, <2>1, RowFields
    <2> QED BY <1>a, <2>2, <2>3, <2>4 DEF PublishEffect, MailType
<1>2. CASE Release(e)
    <2>1. PICK j \in DOMAIN inbox[e] :
              /\ inbox' = [inbox EXCEPT ![e] = [inbox[e] EXCEPT ![j].held = FALSE]]
              /\ UNCHANGED <<mix, faults, mem, vault, directory, sends, letters, polls, publishing, accepted, late>>
        BY <1>2 DEF Release
    <2>2. [inbox[e] EXCEPT ![j].held = FALSE] \in Boxes
        BY <1>0, BoxRows
    <2> QED BY <2>1, <2>2 DEF MailType
<1>3. CASE Restart(e)
    <2>1. Idle \in InboxPoll
        <3>1. mix.polls \in Nat
            BY MixesAssumption DEF MailType
        <3>2. <<>> \in Fetched
            <4>1. <<>> = [i \in {} |-> None] /\ [i \in {} |-> None] \in [{} -> Messages]
                OBVIOUS
            <4> QED BY <4>1 DEF Fetched
        <3> QED BY <3>2 DEF InboxPoll, Idle
    <2>2. polls' \in [Ends -> [1..mix.polls -> InboxPoll]]
        BY <1>3, <2>1 DEF Restart, MailType
    <2>3. sends' \in [Messages -> LetterStep]
        <3>1. \A m \in Messages : sends[m] \in LetterStep
            BY DEF MailType
        <3>2. \A m \in Messages : /\ [sends[m] EXCEPT !.live = FALSE] \in LetterStep
                                  /\ [Unwritten EXCEPT !.step = "failed"] \in LetterStep
            BY <3>1, SendRows
        <3> DEFINE now(m) == IF sends[m].by # e THEN sends[m]
                             ELSE IF sends[m].step = "bundle" THEN [Unwritten EXCEPT !.step = "failed"]
                             ELSE [sends[m] EXCEPT !.live = FALSE]
        <3>3. sends' = [m \in Messages |-> now(m)]
            BY <1>3 DEF Restart
        <3>4. \A m \in Messages : now(m) \in LetterStep
            BY <3>1, <3>2
        <3> HIDE DEF now
        <3> QED BY <3>3, <3>4
    <2>4. publishing' \in [Ends -> Publication \cup {None}]
        <3> DEFINE now == IF publishing[e] # None /\ publishing[e].step = "sent"
                          THEN [publishing[e] EXCEPT !.live = FALSE] ELSE None
        <3>1. now \in Publication \cup {None}
            BY <1>0 DEF Publication
        <3>2. publishing' = [publishing EXCEPT ![e] = now]
            BY <1>3 DEF Restart
        <3> HIDE DEF now
        <3> QED BY <3>1, <3>2 DEF MailType
    <2>5. mem' = [mem EXCEPT ![e] = vault[e]] /\ Fault("restart")
          /\ UNCHANGED <<mix, vault, directory, inbox, letters, accepted, late>>
        BY <1>3 DEF Restart
    <2> QED BY <1>0, <1>a, <2>2, <2>3, <2>4, <2>5 DEF MailType
<1>4. CASE StoreDevice(e)
    <2> DEFINE d1 == [directory[e] EXCEPT !.spk = publishing[e].spk, !.otps = @ \cup publishing[e].otps]
               d == IF directory[e].revoked THEN directory[e] ELSE d1
               now == IF directory[e].revoked \/ ~publishing[e].live THEN None
                      ELSE [publishing[e] EXCEPT !.step = "stored"]
    <2>1. publishing[e] \in Publication
        BY <1>0, <1>4 DEF StoreDevice
    <2>2. d1 \in KeysRow
        BY <1>0, <2>1 DEF KeysRow, Publication
    <2>3. d \in KeysRow
        BY <1>0, <2>2
    <2>4. now \in Publication \cup {None}
        BY <2>1 DEF Publication
    <2>5. directory' = [directory EXCEPT ![e] = d] /\ publishing' = [publishing EXCEPT ![e] = now]
          /\ UNCHANGED <<mix, faults, mem, vault, accepted, inbox, sends, letters, polls, late>>
        <3>1. directory' = [directory EXCEPT ![e] = d]
            <4>1. directory' = IF directory[e].revoked THEN directory ELSE [directory EXCEPT ![e] = d1]
                BY <1>4 DEF StoreDevice
            <4>2. directory = [directory EXCEPT ![e] = directory[e]]
                BY DEF MailType
            <4> HIDE DEF d1
            <4> QED BY <4>1, <4>2
        <3>2. publishing' = [publishing EXCEPT ![e] = now]
            BY <1>4 DEF StoreDevice
        <3>3. UNCHANGED <<mix, faults, mem, vault, accepted, inbox, sends, letters, polls, late>>
            BY <1>4 DEF StoreDevice, browser
        <3> HIDE DEF d, now
        <3> QED BY <3>1, <3>2, <3>3
    <2> HIDE DEF d, now
    <2> QED BY <2>3, <2>4, <2>5 DEF MailType
<1>5. CASE TopUp(e)
    <2>1. TopUpEffect(e)
        BY <1>5, TopsUp
    <2>2. mem[e].otps \cup Fresh(e) \in SUBSET Nat
        BY <1>0, FreshKeys DEF BrowserRow
    <2>3. [mem[e] EXCEPT !.otps = mem[e].otps \cup Fresh(e)] \in BrowserRow
        BY <1>0, <2>2, RowFields DEF BrowserRow
    <2>4. mem' \in [Ends -> BrowserRow] /\ vault' \in [Ends -> BrowserRow] /\ accepted' \in SUBSET Sessions
        BY <2>1, <2>3, SavesType DEF TopUpEffect
    <2>5. directory' \in [Ends -> KeysRow] /\ publishing' \in [Ends -> Publication \cup {None}]
        BY <2>1 DEF TopUpEffect, MailType
    <2>6. UNCHANGED <<mix, faults, inbox, sends, letters, polls, late>>
        BY <2>1 DEF TopUpEffect
    <2> QED BY <2>4, <2>5, <2>6 DEF MailType
<1>6. CASE DeleteConversation(e)
    <2>1. PICK known \in BOOLEAN : Saves(e, Forgetting(mem[e], known))
        BY <1>6 DEF DeleteConversation, Forgetting
    <2>2. Forgetting(mem[e], known) \in BrowserRow
        BY <1>0, ForgettingParts
    <2>3. mem' \in [Ends -> BrowserRow] /\ vault' \in [Ends -> BrowserRow] /\ accepted' \in SUBSET Sessions
        BY <2>1, <2>2, SavesType
    <2> QED BY <1>6, <1>a, <2>3 DEF DeleteConversation, MailType
<1>7. CASE SetBlocked(e)
    <2>1. Saves(e, [mem[e] EXCEPT !.blocked = ~mem[e].blocked]) /\ Fault("block")
        BY <1>7 DEF SetBlocked
    <2>2. [mem[e] EXCEPT !.blocked = ~mem[e].blocked] \in BrowserRow
        BY <1>0, RowFields DEF BrowserRow
    <2>3. mem' \in [Ends -> BrowserRow] /\ vault' \in [Ends -> BrowserRow] /\ accepted' \in SUBSET Sessions
        BY <2>1, <2>2, SavesType
    <2> QED BY <1>7, <1>a, <2>1, <2>3 DEF SetBlocked, MailType
<1>8. CASE RevokeDevice(e)
    <2> DEFINE d == [directory[e] EXCEPT !.revoked = TRUE, !.otps = {}]
    <2>1. d \in KeysRow
        BY <1>0 DEF KeysRow
    <2>2. directory' = [directory EXCEPT ![e] = d]
        BY <1>8 DEF RevokeDevice, MailType
    <2>3. <<>> \in Boxes
        <3>1. <<>> = [j \in {} |-> None] /\ [j \in {} |-> None] \in [{} -> MailRow]
            OBVIOUS
        <3>2. \A j \in DOMAIN [j \in {} |-> None] : j <= 0
            OBVIOUS
        <3> QED BY <3>1, <3>2 DEF Boxes
    <2>4. inbox' = [inbox EXCEPT ![e] = <<>>] /\ Fault("revoke")
          /\ late' = [late EXCEPT ![e] = {m \in Messages : sends[m].step = "checked" /\ sends[m].by # e}]
          /\ UNCHANGED <<mix, mem, vault, accepted, sends, letters, polls, publishing>>
        BY <1>8 DEF RevokeDevice, Dropped, browser
    <2> HIDE DEF d
    <2> QED BY <1>a, <2>1, <2>2, <2>3, <2>4 DEF MailType
<1> QED BY <1>1, <1>2, <1>3, <1>4, <1>5, <1>6, <1>7, <1>8 DEF BrowserStep


SendStep(m) ==
    \/ \E e \in Ends : AskBundle(e, m)
    \/ Encrypt(m) \/ PostFails(m) \/ LookUpDevices(m) \/ SaveSent(m)
    \/ \E held \in BOOLEAN : StoreEnvelope(m, held)
PollStep(e, i) == FetchEnvelopes(e, i) \/ ProcessEnvelope(e, i) \/ PersistInbox(e, i) \/ Acknowledge(e, i)

LEMMA MailSteps ==
    ASSUME Next
    PROVE  \/ \E m \in Messages : SendStep(m)
           \/ \E e \in Ends : BrowserStep(e) \/ \E i \in 1..mix.polls : PollStep(e, i)
BY DEF Next, SendStep, PollStep, BrowserStep

LEMMA MailTypeStep ==
    ASSUME MailType, MailLetters, MailOnItsWay, [Next]_vars
    PROVE  MailType'
<1>1. CASE \E m \in Messages : SendStep(m)
    BY <1>1, SendType DEF SendStep
<1>2. CASE \E e \in Ends : BrowserStep(e)
    BY <1>2, BrowserType
<1>3. CASE \E e \in Ends : \E i \in 1..mix.polls : PollStep(e, i)
    BY <1>3, PollType DEF PollStep
<1>4. CASE UNCHANGED vars
    BY <1>4 DEF vars, MailType
<1> QED BY <1>1, <1>2, <1>3, <1>4, MailSteps

-----------------------------------------------------------------------------
(* Mail: what a browser keeps *)

\* Letters are written once, answers and keys only come, an accident stays.
Grows(L, done, made, calm, L2, done2, made2, calm2) ==
    /\ \A m \in Messages : L[m] # None => L2[m] = L[m]
    /\ done \subseteq done2
    /\ \A e \in Ends : made[e] <= made2[e]
    /\ calm2 => calm

LEMMA NamedGrows ==
    ASSUME NEW s \in Sessions,
           NEW L \in [Messages -> LetterRow \cup {None}], NEW L2 \in [Messages -> LetterRow \cup {None}],
           NEW made \in [Ends -> Nat], NEW made2 \in [Ends -> Nat],
           \A m \in Messages : L[m] # None => L2[m] = L[m],
           \A e \in Ends : made[e] <= made2[e],
           Named(s, L, made)
    PROVE  Named(s, L2, made2)
<1>1. s.first \in Messages /\ s.by \in Ends /\ s.otp \in Nat
    BY DEF Sessions
<1>2. Peer(s.by) \in Ends
    BY <1>1, PeerOther
<1>3. s.otp <= made[Peer(s.by)] /\ made[Peer(s.by)] <= made2[Peer(s.by)]
    BY <1>2 DEF Named
<1>4. s.otp <= made2[Peer(s.by)]
    BY <1>1, <1>2, <1>3
<1> QED BY <1>1, <1>4 DEF Named

LEMMA KeepsGrow ==
    ASSUME NEW e \in Ends, NEW kept \in BrowserRow,
           NEW L \in [Messages -> LetterRow \cup {None}], NEW L2 \in [Messages -> LetterRow \cup {None}],
           NEW made \in [Ends -> Nat], NEW made2 \in [Ends -> Nat], NEW done, NEW done2, NEW calm, NEW calm2,
           Grows(L, done, made, calm, L2, done2, made2, calm2),
           KeepsOk(e, kept, L, done, made, calm)
    PROVE  KeepsOk(e, kept, L2, done2, made2, calm2)
<1>0. /\ kept.otps \in SUBSET Nat /\ kept.session \in Sessions \cup {None}
      /\ \A m \in Messages : kept.history[m] \in Nat
    BY DEF BrowserRow
<1>1. \A k \in kept.otps : 1 <= k /\ k <= made2[e]
    BY <1>0 DEF KeepsOk, Grows
<1>2. ASSUME kept.session # None
      PROVE  /\ Named(kept.session, L2, made2)
             /\ kept.session.by # e /\ kept.session.otp # 0 => kept.session.otp \notin kept.otps
    <2>1. Named(kept.session, L, made)
        BY <1>2 DEF KeepsOk
    <2>2. kept.session \in Sessions
        BY <1>0, <1>2
    <2>3. Named(kept.session, L2, made2)
        BY <2>1, <2>2, NamedGrows DEF Grows
    <2> QED BY <1>2, <2>3 DEF KeepsOk
<1>3. ASSUME NEW m \in Messages, kept.history[m] > 0
      PROVE  /\ L2[m] # None /\ L2[m] = L[m] /\ L[m] # None
             /\ L2[m].to # e => m \in done2 /\ kept.history[m] = 1
    BY <1>3 DEF KeepsOk, Grows
<1>4. ASSUME NEW m \in Messages, L2[m].to = e, kept.history[m] > 0
      PROVE  /\ L2[m].session.otp # 0 =>
                    /\ kept.history[m] = 1
                    /\ L2[m].session.by # e => L2[m].session.otp \notin kept.otps
                    /\ kept.session = L2[m].session => L2[m].at \in kept.read
             /\ calm2 => kept.history[m] = 1 /\ kept.session = L2[m].session /\ L2[m].at \in kept.read
    <2>1. L2[m] = L[m] /\ L[m] # None
        BY <1>3, <1>4
    <2>2. calm2 => calm
        BY DEF Grows
    <2> QED BY <1>4, <2>1, <2>2 DEF KeepsOk
<1> QED BY <1>1, <1>2, <1>3, <1>4 DEF KeepsOk

\* A change of what the rules do not look at.
LEMMA KeepsAlike ==
    ASSUME NEW e, NEW kept, NEW now, NEW L, NEW done, NEW made, NEW calm,
           now.session = kept.session, now.read = kept.read, now.history = kept.history,
           now.otps = kept.otps, KeepsOk(e, kept, L, done, made, calm)
    PROVE  KeepsOk(e, now, L, done, made, calm)
BY DEF KeepsOk

LEMMA KeepsNothing ==
    ASSUME NEW e, NEW kept, NEW now, NEW L, NEW done, NEW made, NEW calm,
           now.session = None, now.history = [m \in Messages |-> 0],
           now.otps = kept.otps, KeepsOk(e, kept, L, done, made, calm)
    PROVE  KeepsOk(e, now, L, done, made, calm)
BY DEF KeepsOk

AllNamed(L, made) == \A m \in Messages : L[m] # None => Named(L[m].session, L, made)
MoreKeys(e, kept, now, fresh, made, made2) ==
    /\ \A p \in Ends : made[p] <= made2[p]
    /\ \A k \in fresh : k = made[e] + 1 /\ k <= made2[e]
    /\ now.session = kept.session /\ now.read = kept.read /\ now.history = kept.history
    /\ now.otps = kept.otps \cup fresh

\* New one-time prekeys are none that a session was opened with.
LEMMA KeepsMore ==
    ASSUME NEW e \in Ends, NEW kept \in BrowserRow, NEW now \in BrowserRow, NEW fresh,
           NEW L \in [Messages -> LetterRow \cup {None}], NEW done, NEW calm,
           NEW made \in [Ends -> Nat], NEW made2 \in [Ends -> Nat],
           AllNamed(L, made), MoreKeys(e, kept, now, fresh, made, made2), KeepsOk(e, kept, L, done, made, calm)
    PROVE  KeepsOk(e, now, L, done, made2, calm)
<1> USE DEF MoreKeys, AllNamed
<1>1. KeepsOk(e, kept, L, done, made2, calm)
    <2>1. Grows(L, done, made, calm, L, done, made2, calm)
        BY DEF Grows
    <2> QED BY <2>1, KeepsGrow
<1>0. made[e] \in Nat
    OBVIOUS
<1>2. \A s \in Sessions : Named(s, L, made) /\ s.by # e => s.otp \notin fresh
    <2> SUFFICES ASSUME NEW s \in Sessions, Named(s, L, made), s.by # e PROVE s.otp \notin fresh
        OBVIOUS
    <2>1. s.by \in Ends /\ s.otp \in Nat
        BY DEF Sessions
    <2>2. Peer(s.by) = e
        BY <2>1, PeerOther
    <2>3. s.otp <= made[e]
        BY <2>2 DEF Named
    <2> QED BY <1>0, <2>1, <2>3
<1>3. \A k \in now.otps : 1 <= k /\ k <= made2[e]
    BY <1>0, <1>1 DEF KeepsOk
<1>4. kept.session # None /\ kept.session.by # e => kept.session.otp \notin fresh
    BY <1>2 DEF KeepsOk, BrowserRow
<1>5. \A m \in Messages : L[m] # None /\ L[m].session.by # e => L[m].session.otp \notin fresh
    BY <1>2 DEF LetterRow
<1> QED BY <1>1, <1>3, <1>4, <1>5 DEF KeepsOk

\* Own message m is shown once its sender has the answer.
LEMMA KeepsShown ==
    ASSUME NEW e \in Ends, NEW kept \in BrowserRow, NEW now \in BrowserRow, NEW m \in Messages,
           NEW L \in [Messages -> LetterRow \cup {None}], NEW done, NEW calm, NEW made,
           L[m] # None, L[m].to # e, m \notin done,
           now.session = kept.session, now.read = kept.read, now.otps = kept.otps,
           now.history = [kept.history EXCEPT ![m] = @ + 1],
           KeepsOk(e, kept, L, done, made, calm)
    PROVE  KeepsOk(e, now, L, done \cup {m}, made, calm)
<1>1. \A n \in Messages : kept.history[n] \in Nat /\ now.history[n] = IF n = m THEN kept.history[n] + 1 ELSE kept.history[n]
    BY DEF BrowserRow
<1>2. kept.history[m] = 0
    BY <1>1 DEF KeepsOk
<1>3. now.history[m] = 1
    BY <1>1, <1>2
<1> QED BY <1>1, <1>3 DEF KeepsOk

\* A letter is written in the session at hand, or opens one.
WrittenOn(e, kept, now, m, L, L2, made, session) ==
    /\ L[m] = None /\ L2[m] # None /\ \A n \in Messages : n # m => L2[n] = L[n]
    /\ \/ kept.session = session
       \/ kept.session = None /\ session.by = e /\ session.first = m /\ Named(session, L2, made)
    /\ now.session = session /\ now.read = kept.read /\ now.otps = kept.otps /\ now.history = kept.history

LEMMA KeepsWriting ==
    ASSUME NEW e \in Ends, NEW kept \in BrowserRow, NEW now \in BrowserRow, NEW m \in Messages,
           NEW L \in [Messages -> LetterRow \cup {None}], NEW L2 \in [Messages -> LetterRow \cup {None}],
           NEW done, NEW calm, NEW made \in [Ends -> Nat], NEW session \in Sessions,
           AllNamed(L, made), WrittenOn(e, kept, now, m, L, L2, made, session), KeepsOk(e, kept, L, done, made, calm)
    PROVE  KeepsOk(e, now, L2, done, made, calm)
<1> USE DEF WrittenOn, AllNamed
<1>1. KeepsOk(e, kept, L2, done, made, calm)
    <2>1. Grows(L, done, made, calm, L2, done, made, calm)
        BY DEF Grows
    <2> QED BY <2>1, KeepsGrow
<1>2. CASE kept.session = session
    BY <1>1, <1>2, KeepsAlike
<1>3. CASE kept.session = None /\ session.by = e /\ session.first = m /\ Named(session, L2, made)
    <2>1. ASSUME NEW n \in Messages, kept.history[n] > 0, L2[n] # None, L2[n].to = e
          PROVE  L2[n].session # session /\ ~calm
        <3>1. n # m /\ L2[n] = L[n] /\ L[n] # None
            BY <2>1 DEF KeepsOk
        <3>2. L[n].session \in Sessions /\ L[n].session.first \in Messages /\ L[L[n].session.first] # None
            BY <3>1 DEF Named, LetterRow, Sessions
        <3>3. L[n].session # session
            BY <1>3, <3>2
        <3>4. calm => kept.session = L[n].session
            BY <2>1, <3>1 DEF KeepsOk
        <3>5. L[n].session # None
            BY <3>2, NoneAssumption DEF Sessions
        <3> QED BY <1>3, <3>1, <3>3, <3>4, <3>5
    <2>2. kept.otps = now.otps /\ now.history = kept.history
        OBVIOUS
    <2>3. now.session # None => Named(now.session, L2, made) /\ now.session.by = e
        BY <1>3
    <2> QED BY <1>1, <2>1, <2>2, <2>3 DEF KeepsOk
<1> QED BY <1>2, <1>3

-----------------------------------------------------------------------------
(* Mail: what the steps change *)

\* What asking for a bundle changes.
AskEffect(e, m, row) ==
    LET p == Peer(e)
    IN  /\ sends[m].step = "new" /\ row.step = "bundle" /\ row.by = e /\ row.spk = directory[p].spk
        /\ row.otp \in directory[p].otps \cup {0}
        /\ sends' = [sends EXCEPT ![m] = row]
        /\ ~mem[e].blocked /\ ~directory[p].revoked
        /\ directory' = [directory EXCEPT ![p] = [directory[p] EXCEPT !.otps = directory[p].otps \ {row.otp}]]
        /\ UNCHANGED <<mix, faults, mem, vault, inbox, letters, polls, publishing, accidents, accepted, late>>

LEMMA Asks ==
    ASSUME MailType, NEW e \in Ends, NEW m \in Messages, AskBundle(e, m)
    PROVE  \E row \in LetterStep : AskEffect(e, m, row)
<1> DEFINE p == Peer(e)
           claimed == IF directory[p].otps = {} THEN 0 ELSE Min(directory[p].otps)
           row == [step |-> "bundle", by |-> e, live |-> TRUE, spk |-> directory[p].spk, otp |-> claimed]
<1>1. p \in Ends /\ directory[p].otps \in SUBSET Nat /\ directory[p].spk \in Nat
    BY PeerOther DEF KeysRow, MailType
<1>2. claimed \in directory[p].otps \cup {0}
    BY <1>1, MinIsLeast
<1>3. row \in LetterStep
    BY <1>1, <1>2 DEF LetterStep
<1>4. /\ sends[m].step = "new" /\ ~mem[e].blocked /\ ~directory[p].revoked
      /\ directory' = [directory EXCEPT ![p] = [directory[p] EXCEPT !.otps = directory[p].otps \ {claimed}]]
      /\ sends' = [sends EXCEPT ![m] = row]
      /\ UNCHANGED <<mix, faults, mem, vault, inbox, letters, polls, publishing, accidents, accepted, late>>
    BY <1>1 DEF AskBundle
<1>5. row.step = "bundle" /\ row.by = e /\ row.spk = directory[p].spk /\ row.otp = claimed
    OBVIOUS
<1> HIDE DEF row, claimed
<1>6. AskEffect(e, m, row)
    BY <1>1, <1>2, <1>4, <1>5 DEF AskEffect, p
<1> QED BY <1>3, <1>6

\* What writing a message changes.
StartsSession(e) == mem[e].session = None
SessionOf(m) == IF StartsSession(sends[m].by) THEN Initiated(m) ELSE mem[sends[m].by].session
EncryptEffect(m, e, session, letter, row) ==
    /\ e = sends[m].by /\ session = SessionOf(m)
    /\ sends[m].step = "bundle" /\ letters[m] = None
    /\ letter.to = Peer(e) /\ letter.session = session /\ letter.at = mem[e].next + 1
    /\ letter.opening = StartsSession(e)
    /\ row.step = "posted" /\ row.by = e
    /\ mem' = [mem EXCEPT ![e] = Writing(mem[e], session, mem[e].next + 1)]
    /\ letters' = [letters EXCEPT ![m] = letter] /\ sends' = [sends EXCEPT ![m] = row]
    /\ accidents' = accidents \cup (IF StartsSession(e) /\ OpenedBefore THEN {"reopened"} ELSE {})
    /\ UNCHANGED <<mix, faults, vault, directory, inbox, polls, publishing, accepted, late>>

LEMMA Encrypts ==
    ASSUME MailType, MailLetters, NEW m \in Messages, Encrypt(m)
    PROVE  \E e \in Ends, session \in Sessions, letter \in LetterRow, row \in LetterStep :
               EncryptEffect(m, e, session, letter, row)
<1> DEFINE e == sends[m].by
           session == SessionOf(m)
           row == [Unwritten EXCEPT !.step = "posted", !.by = e, !.live = TRUE]
           letter == [to |-> Peer(e), session |-> session, at |-> mem[e].next + 1, opening |-> StartsSession(e)]
<1>0. sends[m] \in LetterStep
    BY DEF MailType
<1>1. e \in Ends /\ sends[m].spk \in Nat /\ sends[m].otp \in Nat /\ Peer(e) \in Ends /\ letters[m] = None
    BY <1>0, PeerOther DEF Encrypt, MailLetters, LetterStep
<1>2. session \in Sessions /\ mem[e].next + 1 \in Nat
    <2>1. mem[e] \in BrowserRow
        BY <1>1 DEF MailType
    <2>2. Initiated(m) \in Sessions
        BY <1>1 DEF Initiated, Sessions
    <2> QED BY <2>1, <2>2 DEF BrowserRow, SessionOf, StartsSession
<1>3. row \in LetterStep /\ row.step = "posted" /\ row.by = e
    BY <1>1 DEF LetterStep, Unwritten
<1>4. letter \in LetterRow
    BY <1>1, <1>2 DEF LetterRow, StartsSession
<1>5. /\ mem' = [mem EXCEPT ![e] = Writing(mem[e], session, mem[e].next + 1)]
      /\ letters' = [letters EXCEPT ![m] = letter] /\ sends' = [sends EXCEPT ![m] = row]
      /\ sends[m].step = "bundle"
      /\ accidents' = accidents \cup (IF StartsSession(e) /\ OpenedBefore THEN {"reopened"} ELSE {})
      /\ UNCHANGED <<mix, faults, vault, directory, inbox, polls, publishing, accepted, late>>
    BY DEF Encrypt, Writing, SessionOf, StartsSession
<1>6. letter.to = Peer(e) /\ letter.session = session /\ letter.at = mem[e].next + 1 /\ letter.opening = StartsSession(e)
    OBVIOUS
<1> HIDE DEF row, letter
<1>7. EncryptEffect(m, e, session, letter, row)
    BY <1>1, <1>3, <1>5, <1>6 DEF EncryptEffect
<1> HIDE DEF e, session
<1> QED BY <1>1, <1>2, <1>3, <1>4, <1>7

\* What the other steps of sending change.
MovesTo(m, step, row) ==
    /\ row.step = step
    /\ step \in {"checked", "stored"} => row.by = sends[m].by
    /\ sends' = [sends EXCEPT ![m] = row]

LEMMA Moves ==
    ASSUME MailType, NEW m \in Messages
    PROVE  /\ PostFails(m) =>
                  \E row \in LetterStep : MovesTo(m, "failed", row)
           /\ LookUpDevices(m) =>
                  \E row \in LetterStep : MovesTo(m, IF directory[letters[m].to].revoked THEN "failed" ELSE "checked", row)
           /\ SaveSent(m) => \E row \in LetterStep : MovesTo(m, "done", row)
           /\ \A held : StoreEnvelope(m, held) => \E row \in LetterStep : MovesTo(m, "stored", row)
<1> DEFINE failed == [Unwritten EXCEPT !.step = "failed"]
           done == [Unwritten EXCEPT !.step = "done"]
           checked == [sends[m] EXCEPT !.step = "checked"]
           stored == [sends[m] EXCEPT !.step = "stored"]
<1>0. sends[m] \in LetterStep
    BY DEF MailType
<1>1. /\ failed \in LetterStep /\ failed.step = "failed" /\ done \in LetterStep /\ done.step = "done"
      /\ checked \in LetterStep /\ checked.step = "checked" /\ checked.by = sends[m].by
      /\ stored \in LetterStep /\ stored.step = "stored" /\ stored.by = sends[m].by
    BY <1>0 DEF LetterStep, Unwritten
<1>2. /\ PostFails(m) => sends' = [sends EXCEPT ![m] = failed]
      /\ LookUpDevices(m) => sends' = [sends EXCEPT ![m] = IF directory[letters[m].to].revoked THEN failed ELSE checked]
      /\ SaveSent(m) => sends' = [sends EXCEPT ![m] = done]
      /\ \A held : StoreEnvelope(m, held) => sends' = [sends EXCEPT ![m] = stored]
    BY DEF PostFails, LookUpDevices, SaveSent, StoreEnvelope
<1> HIDE DEF failed, done, checked, stored
<1> QED BY <1>1, <1>2 DEF MovesTo

\* What a restart leaves of the messages under way.
LEMMA Restarts ==
    ASSUME MailType, NEW e \in Ends, Restart(e)
    PROVE  \A m \in Messages :
               \/ sends'[m] = sends[m]
               \/ sends[m].step = "bundle" /\ sends[m].by = e /\ sends'[m].step = "failed"
               \/ /\ sends[m].step # "bundle" /\ sends[m].by = e
                  /\ sends'[m].step = sends[m].step /\ sends'[m].by = e
                  /\ sends'[m].spk = sends[m].spk /\ sends'[m].otp = sends[m].otp
<1> TAKE m \in Messages
<1>1. sends[m] \in LetterStep
    BY DEF MailType
<1>2. [Unwritten EXCEPT !.step = "failed"].step = "failed"
    BY DEF Unwritten
<1>3. LET row == [sends[m] EXCEPT !.live = FALSE]
      IN  row.step = sends[m].step /\ row.by = sends[m].by /\ row.spk = sends[m].spk /\ row.otp = sends[m].otp
    BY <1>1 DEF LetterStep
<1>4. sends'[m] = IF sends[m].by # e THEN sends[m]
                  ELSE IF sends[m].step = "bundle" THEN [Unwritten EXCEPT !.step = "failed"]
                  ELSE [sends[m] EXCEPT !.live = FALSE]
    BY DEF Restart
<1> QED BY <1>2, <1>3, <1>4

\* What giving a device's keys to the server changes.
LEMMA Stores ==
    ASSUME MailType, NEW e \in Ends, StoreDevice(e)
    PROVE  /\ publishing[e] \in Publication
           /\ \E d \in KeysRow :
                 /\ directory' = [directory EXCEPT ![e] = d]
                 /\ d.made = directory[e].made /\ d.revoked = directory[e].revoked
                 /\ IF directory[e].revoked THEN d = directory[e]
                    ELSE d.spk = publishing[e].spk /\ d.otps = directory[e].otps \cup publishing[e].otps
           /\ \E now \in Publication \cup {None} :
                 /\ publishing' = [publishing EXCEPT ![e] = now]
                 /\ now # None => now.otps = publishing[e].otps /\ now.spk = publishing[e].spk /\ ~directory[e].revoked
           /\ UNCHANGED <<mix, faults, mem, vault, accepted, inbox, sends, letters, polls, accidents, late>>
<1> DEFINE d1 == [directory[e] EXCEPT !.spk = publishing[e].spk, !.otps = @ \cup publishing[e].otps]
           d == IF directory[e].revoked THEN directory[e] ELSE d1
           p1 == [publishing[e] EXCEPT !.step = "stored"]
           now == IF directory[e].revoked \/ ~publishing[e].live THEN None ELSE p1
<1>0. directory[e] \in KeysRow /\ publishing[e] \in Publication
    BY DEF StoreDevice, MailType
<1>1. d1 \in KeysRow /\ d1.made = directory[e].made /\ d1.revoked = directory[e].revoked
      /\ d1.spk = publishing[e].spk /\ d1.otps = directory[e].otps \cup publishing[e].otps
    BY <1>0 DEF KeysRow, Publication
<1>2. p1 \in Publication /\ p1.otps = publishing[e].otps /\ p1.spk = publishing[e].spk
    BY <1>0 DEF Publication
<1>3. /\ directory' = IF directory[e].revoked THEN directory ELSE [directory EXCEPT ![e] = d1]
      /\ publishing' = [publishing EXCEPT ![e] = now]
      /\ UNCHANGED <<mix, faults, mem, vault, accepted, inbox, sends, letters, polls, accidents, late>>
    BY DEF StoreDevice, browser
<1>4. directory = [directory EXCEPT ![e] = directory[e]]
    BY DEF MailType
<1> HIDE DEF d1, p1
<1>5. directory' = [directory EXCEPT ![e] = d]
    BY <1>3, <1>4
<1>6. d \in KeysRow /\ d.made = directory[e].made /\ d.revoked = directory[e].revoked
      /\ IF directory[e].revoked THEN d = directory[e]
         ELSE d.spk = publishing[e].spk /\ d.otps = directory[e].otps \cup publishing[e].otps
    BY <1>0, <1>1
<1>7. now \in Publication \cup {None}
      /\ (now # None => now.otps = publishing[e].otps /\ now.spk = publishing[e].spk /\ ~directory[e].revoked)
    BY <1>2
<1> HIDE DEF d, now
<1> QED BY <1>0, <1>3, <1>5, <1>6, <1>7

\* What KeepsTook needs to know of an envelope that is handled.
TakenUp(e, kept, now, m, agree, L, calm, calm2) ==
    /\ L[m] # None /\ L[m].to = e /\ (L[m].opening => L[m].session.by # e)
    /\ Took(kept, L[m], m, agree, now)
    /\ calm2 => calm /\ ~Resets(kept, L[m], agree)

\* What the browser keeps once an envelope is handled: a one-time prekey that
\* opened a session is gone, so its opening envelope does not come in again.
LEMMA KeepsTook ==
    ASSUME NEW e \in Ends, NEW kept \in BrowserRow, NEW now \in BrowserRow, NEW m \in Messages, NEW agree,
           NEW L \in [Messages -> LetterRow \cup {None}], NEW done, NEW made, NEW calm, NEW calm2,
           AllNamed(L, made), TakenUp(e, kept, now, m, agree, L, calm, calm2),
           KeepsOk(e, kept, L, done, made, calm)
    PROVE  KeepsOk(e, now, L, done, made, calm2)
<1> USE DEF TakenUp
<1> DEFINE here == OpensHere(kept, L[m], agree)
           new == ~here /\ Accepts(kept, L[m])
           shown == (here \/ new) /\ ~kept.blocked
<1>0. /\ kept.otps \in SUBSET Nat /\ kept.session \in Sessions \cup {None}
      /\ \A n \in Messages : kept.history[n] \in Nat
      /\ kept.history \in [Messages -> Nat]
    BY DEF BrowserRow
<1>a. \A n \in Messages : L[n] # None => L[n].session \in Sessions /\ L[n].session # None
    BY NoneAssumption DEF LetterRow, Sessions
<1>1. /\ now.session = IF new THEN L[m].session ELSE kept.session
      /\ now.read = IF here THEN kept.read \cup {L[m].at} ELSE IF new THEN {L[m].at} ELSE kept.read
      /\ now.otps = IF here \/ ~L[m].opening THEN kept.otps ELSE kept.otps \ {L[m].session.otp}
      /\ \A n \in Messages : now.history[n] = IF n = m /\ shown THEN kept.history[n] + 1 ELSE kept.history[n]
    BY <1>0 DEF Took
<1>2. new => /\ L[m].opening /\ L[m].session.by # e
             /\ L[m].session.otp \in kept.otps \cup {0} /\ L[m].session.otp \notin now.otps
    BY <1>1 DEF Accepts, SecretsMatch
<1>3. here => kept.session = L[m].session /\ L[m].at \notin kept.read
    BY DEF OpensHere
<1>4. calm2 => calm /\ (new => kept.session = None)
    BY DEF Resets
<1> HIDE DEF here, new
<1>5. now.otps \subseteq kept.otps
    BY <1>1
<1>6. \A k \in now.otps : 1 <= k /\ k <= made[e]
    BY <1>5 DEF KeepsOk
<1>7. now.session # None =>
          /\ Named(now.session, L, made)
          /\ now.session.by # e /\ now.session.otp # 0 => now.session.otp \notin now.otps
    <2>1. CASE new
        BY <1>1, <1>2, <2>1 DEF AllNamed
    <2>2. CASE ~new
        BY <1>1, <1>5, <2>2 DEF KeepsOk
    <2> QED BY <2>1, <2>2
<1>8. \A n \in Messages : now.history[n] > 0 =>
          L[n] # None /\ (L[n].to # e => n \in done /\ now.history[n] = 1)
    <2> SUFFICES ASSUME NEW n \in Messages, now.history[n] > 0
                 PROVE  L[n] # None /\ (L[n].to # e => n \in done /\ now.history[n] = 1)
        OBVIOUS
    <2>1. CASE n = m
        BY <2>1
    <2>2. CASE n # m
        BY <1>1, <2>2 DEF KeepsOk
    <2> QED BY <2>1, <2>2
<1>9. ASSUME NEW n \in Messages, L[n] # None, L[n].to = e, now.history[n] > 0
      PROVE  /\ L[n].session.otp # 0 =>
                    /\ now.history[n] = 1
                    /\ L[n].session.by # e => L[n].session.otp \notin now.otps
                    /\ now.session = L[n].session => L[n].at \in now.read
             /\ calm2 => now.history[n] = 1 /\ now.session = L[n].session /\ L[n].at \in now.read
    <2>1. kept.history[n] > 0 =>
              /\ L[n].session.otp # 0 =>
                     /\ kept.history[n] = 1
                     /\ L[n].session.by # e => L[n].session.otp \notin kept.otps
                     /\ kept.session = L[n].session => L[n].at \in kept.read
              /\ calm => kept.history[n] = 1 /\ kept.session = L[n].session /\ L[n].at \in kept.read
        BY <1>9 DEF KeepsOk
    <2>2. L[n].session # None
        BY <1>9, <1>a
    <2>3. CASE ~(n = m /\ shown)
        <3>1. now.history[n] = kept.history[n] /\ kept.history[n] > 0
            BY <1>1, <1>9, <2>3
        <3>2. CASE here
            BY <1>1, <1>2, <1>3, <1>4, <1>5, <2>1, <2>2, <3>1, <3>2
        <3>3. CASE new
            BY <1>1, <1>2, <1>4, <1>5, <2>1, <2>2, <3>1, <3>3
        <3>4. CASE ~here /\ ~new
            BY <1>1, <1>4, <1>5, <2>1, <2>2, <3>1, <3>4
        <3> QED BY <3>2, <3>3, <3>4
    <2>4. CASE n = m /\ shown
        <3>1. now.history[m] = kept.history[m] + 1 /\ (here \/ new)
            BY <1>1, <2>4
        <3>2. CASE here
            <4>1. L[m].session.otp # 0 \/ calm => kept.history[m] = 0
                BY <1>0, <1>3, <2>1, <2>4, <3>2
            <4>2. L[m].session.otp # 0 /\ L[m].session.by # e => L[m].session.otp \notin kept.otps
                BY <1>3, <2>2, <2>4, <3>2 DEF KeepsOk
            <4>3. ~new
                BY <3>2 DEF here, new
            <4>4. now.session = L[m].session /\ L[m].at \in now.read
                BY <1>1, <1>3, <3>2, <4>3
            <4> QED BY <1>4, <1>5, <2>4, <3>1, <4>1, <4>2, <4>4
        <3>3. CASE new /\ ~here
            <4>1. L[m].session.otp # 0 => kept.history[m] = 0
                BY <1>0, <1>2, <2>1, <2>4, <3>3
            <4>2. calm2 => kept.history[m] = 0
                BY <1>0, <1>4, <2>1, <2>2, <2>4, <3>3
            <4>3. now.session = L[m].session /\ L[m].at \in now.read /\ L[m].session.otp \notin now.otps
                BY <1>1, <1>2, <3>3
            <4> QED BY <2>4, <3>1, <4>1, <4>2, <4>3
        <3> QED BY <3>1, <3>2, <3>3
    <2> QED BY <2>3, <2>4
<1> QED BY <1>6, <1>7, <1>8, <1>9 DEF KeepsOk

LEMMA StepGrows ==
    ASSUME MailType, MailLetters, MailOnItsWay, [Next]_vars
    PROVE  Grows(letters, Done, Made, Calm, letters', Done', Made', Calm')
<1> DEFINE LettersKept == \A m \in Messages : letters[m] # None => letters'[m] = letters[m]
           DoneKept == Done \subseteq Done'
           MadeGrow == \A e \in Ends : directory[e].made <= directory'[e].made
           AccidentsKept == accidents \subseteq accidents'
           Kept == LettersKept /\ DoneKept /\ MadeGrow /\ AccidentsKept
<1>0. /\ directory \in [Ends -> KeysRow] /\ sends \in [Messages -> LetterStep]
      /\ \A e \in Ends : directory[e].made \in Nat
    BY DEF MailType, KeysRow
<1>a. sends' = sends => DoneKept
    BY DEF Done
<1>b. \A m \in Messages, row \in LetterStep : sends[m].step # "done" /\ sends' = [sends EXCEPT ![m] = row] => DoneKept
    BY <1>0 DEF Done
<1>c. directory' = directory => MadeGrow
    BY <1>0
<1>d. \A e \in Ends, row \in KeysRow : row.made >= directory[e].made /\ directory' = [directory EXCEPT ![e] = row] => MadeGrow
    BY <1>0
<1> HIDE DEF DoneKept, MadeGrow
<1>1. ASSUME NEW m \in Messages, SendStep(m) PROVE Kept
    <2>1. ASSUME NEW e \in Ends, AskBundle(e, m) PROVE Kept
        <3>1. PICK row \in LetterStep : AskEffect(e, m, row)
            BY <2>1, Asks
        <3>2. sends[m].step # "done" /\ sends' = [sends EXCEPT ![m] = row]
              /\ UNCHANGED <<letters, accidents>>
            BY <3>1 DEF AskEffect
        <3> DEFINE p == Peer(e)
                   d == [directory[p] EXCEPT !.otps = directory[p].otps \ {row.otp}]
        <3>3. p \in Ends /\ d \in KeysRow /\ d.made = directory[p].made
            BY <1>0, PeerOther DEF KeysRow
        <3>4. directory' = [directory EXCEPT ![p] = d]
            BY <3>1 DEF AskEffect
        <3> HIDE DEF p, d
        <3>5. d.made >= directory[p].made
            BY <1>0, <3>3
        <3>6. MadeGrow
            BY <1>d, <3>3, <3>4, <3>5
        <3> QED BY <1>b, <3>2, <3>6
    <2>2. CASE Encrypt(m)
        <3>1. PICK e \in Ends, session \in Sessions, letter \in LetterRow, row \in LetterStep :
                  EncryptEffect(m, e, session, letter, row)
            BY <2>2, Encrypts
        <3>2. /\ sends[m].step = "bundle" /\ letters[m] = None /\ letters' = [letters EXCEPT ![m] = letter]
              /\ sends' = [sends EXCEPT ![m] = row] /\ directory' = directory /\ AccidentsKept
            BY <3>1 DEF EncryptEffect
        <3>3. LettersKept
            BY <3>2 DEF MailType
        <3> QED BY <1>b, <1>c, <3>2, <3>3
    <2>3. CASE PostFails(m) \/ LookUpDevices(m) \/ SaveSent(m) \/ \E held \in BOOLEAN : StoreEnvelope(m, held)
        <3>1. sends[m].step # "done" /\ letters' = letters /\ directory' = directory /\ AccidentsKept
            BY <2>3 DEF PostFails, LookUpDevices, SaveSent, StoreEnvelope
        <3>2. \E step : \E row \in LetterStep : MovesTo(m, step, row)
            BY <2>3, Moves
        <3>3. DoneKept
            BY <1>b, <3>1, <3>2 DEF MovesTo
        <3> QED BY <1>c, <3>1, <3>3
    <2> QED BY <1>1, <2>1, <2>2, <2>3 DEF SendStep
<1>2. ASSUME NEW e \in Ends, BrowserStep(e) PROVE Kept
    <2>1. CASE Restart(e)
        <3>1. letters' = letters /\ directory' = directory /\ AccidentsKept
            BY <2>1 DEF Restart
        <3>2. DoneKept
            BY <2>1, Restarts DEF DoneKept, Done
        <3> QED BY <1>c, <3>1, <3>2
    <2>2. CASE StoreDevice(e)
        <3>1. letters' = letters /\ sends' = sends /\ AccidentsKept
            BY <2>2, Stores
        <3>2. MadeGrow
            BY <1>0, <1>d, <2>2, Stores
        <3> QED BY <1>a, <3>1, <3>2
    <2>3. CASE TopUp(e)
        <3>1. TopUpEffect(e)
            BY <2>3, TopsUp
        <3>2. letters' = letters /\ sends' = sends /\ AccidentsKept
            BY <3>1 DEF TopUpEffect
        <3>3. PICK d \in KeysRow : directory' = [directory EXCEPT ![e] = d]
                                   /\ d.made = directory[e].made + Cardinality(Fresh(e))
            BY <3>1 DEF TopUpEffect
        <3>4. Cardinality(Fresh(e)) \in {0, 1}
            BY FreshKeys
        <3>5. d.made >= directory[e].made
            BY <1>0, <3>3, <3>4
        <3>6. MadeGrow
            BY <1>d, <3>3, <3>5
        <3> QED BY <1>a, <3>2, <3>6
    <2>4. CASE RevokeDevice(e)
        <3>1. letters' = letters /\ sends' = sends /\ AccidentsKept
            BY <2>4 DEF RevokeDevice
        <3>2. directory' = [directory EXCEPT ![e] = [directory[e] EXCEPT !.revoked = TRUE, !.otps = {}]]
            BY <1>0, <2>4 DEF RevokeDevice
        <3> DEFINE d == [directory[e] EXCEPT !.revoked = TRUE, !.otps = {}]
        <3>a. d \in KeysRow /\ d.made = directory[e].made
            BY <1>0 DEF KeysRow
        <3>3. d \in KeysRow /\ d.made >= directory[e].made
            BY <1>0, <3>a
        <3> HIDE DEF d
        <3>4. MadeGrow
            BY <1>d, <3>2, <3>3 DEF d
        <3> QED BY <1>a, <3>1, <3>4
    <2>5. CASE (\E stale \in BOOLEAN : PublishDevice(e, stale)) \/ Release(e) \/ DeleteConversation(e) \/ SetBlocked(e)
        <3>1. letters' = letters /\ sends' = sends /\ AccidentsKept /\ directory' = directory
            BY <2>5 DEF PublishDevice, Release, DeleteConversation, SetBlocked
        <3> QED BY <1>a, <1>c, <3>1
    <2> QED BY <1>2, <2>1, <2>2, <2>3, <2>4, <2>5 DEF BrowserStep
<1>3. ASSUME NEW e \in Ends, NEW i \in 1..mix.polls, PollStep(e, i) PROVE Kept
    <2>1. CASE ProcessEnvelope(e, i)
        BY <1>a, <1>c, <2>1, ProcessEffect DEF Leaves, Strange, Reads
    <2>2. CASE FetchEnvelopes(e, i) \/ PersistInbox(e, i) \/ Acknowledge(e, i)
        <3>1. letters' = letters /\ sends' = sends /\ AccidentsKept /\ directory' = directory
            BY <2>2 DEF FetchEnvelopes, PersistInbox, Acknowledge
        <3> QED BY <1>a, <1>c, <3>1
    <2> QED BY <1>3, <2>1, <2>2 DEF PollStep
<1>4. ASSUME UNCHANGED vars PROVE Kept
    <2>1. letters' = letters /\ sends' = sends /\ directory' = directory /\ accidents' = accidents
        BY <1>4 DEF vars
    <2> QED BY <2>1, <1>a, <1>c
<1>5. Kept
    <2> HIDE DEF Kept
    <2>1. CASE Next
        BY <1>1, <1>2, <1>3, <2>1, MailSteps
    <2> QED BY <1>4, <2>1
<1>6. Made \in [Ends -> Nat] /\ \A e \in Ends : Made[e] = directory[e].made /\ Made'[e] = directory'[e].made
    BY <1>0 DEF Made
<1> QED BY <1>5, <1>6 DEF Grows, Calm, MadeGrow, DoneKept

-----------------------------------------------------------------------------
(* Mail: a browser keeps what is in order *)

\* What a browser keeps, in memory and in its vault, stays in order.
LEMMA KeepsStep ==
    ASSUME MailType, MailType', MailInv, [Next]_vars
    PROVE  \A e \in Ends : /\ KeepsOk(e, mem'[e], letters', Done', Made', Calm')
                           /\ KeepsOk(e, vault'[e], letters', Done', Made', Calm')
<1> DEFINE Now(e, kept) == KeepsOk(e, kept, letters', Done', Made', Calm')
           Goal == \A e \in Ends : Now(e, mem'[e]) /\ Now(e, vault'[e])
<1>0. /\ letters \in [Messages -> LetterRow \cup {None}] /\ letters' \in [Messages -> LetterRow \cup {None}]
      /\ Made \in [Ends -> Nat] /\ Made' \in [Ends -> Nat]
      /\ mem \in [Ends -> BrowserRow] /\ vault \in [Ends -> BrowserRow]
      /\ sends \in [Messages -> LetterStep]
    BY DEF MailType, Made, KeysRow
<1>1. MailLetters /\ MailOnItsWay
    BY DEF MailInv
<1>g. Grows(letters, Done, Made, Calm, letters', Done', Made', Calm')
    BY <1>1, StepGrows
<1>n. AllNamed(letters, Made)
    BY <1>1 DEF MailLetters, AllNamed
<1>2. \A e \in Ends : /\ mem[e] \in BrowserRow /\ vault[e] \in BrowserRow
                      /\ KeepsOk(e, mem[e], letters, Done, Made, Calm)
                      /\ KeepsOk(e, vault[e], letters, Done, Made, Calm)
    BY <1>0 DEF MailInv
<1>3. \A e \in Ends : Now(e, mem[e]) /\ Now(e, vault[e])
    BY <1>0, <1>2, <1>g, KeepsGrow
<1> HIDE DEF Now
<1>4. ASSUME UNCHANGED <<mem, vault>> PROVE Goal
    BY <1>3, <1>4
<1>5. ASSUME NEW e \in Ends, NEW kept, mem' = [mem EXCEPT ![e] = kept], vault' = vault, Now(e, kept) PROVE Goal
    BY <1>0, <1>3, <1>5
<1>6. ASSUME NEW e \in Ends, NEW kept, Saves(e, kept), Now(e, kept) PROVE Goal
    BY <1>0, <1>3, <1>6 DEF Saves
<1>7. ASSUME NEW m \in Messages, SendStep(m) PROVE Goal
    <2>1. CASE Encrypt(m)
        <3>1. PICK e \in Ends, session \in Sessions, letter \in LetterRow, row \in LetterStep :
                  EncryptEffect(m, e, session, letter, row)
            BY <1>1, <2>1, Encrypts
        <3> DEFINE now == Writing(mem[e], session, mem[e].next + 1)
        <3>2. /\ mem' = [mem EXCEPT ![e] = now] /\ vault' = vault
              /\ letters' = [letters EXCEPT ![m] = letter] /\ letters[m] = None
              /\ e = sends[m].by /\ session = SessionOf(m) /\ letter.session = session
              /\ letter.opening = StartsSession(e)
            BY <3>1 DEF EncryptEffect
        <3>3. mem[e] \in BrowserRow /\ mem[e].next + 1 \in Nat
            BY <1>0 DEF BrowserRow
        <3>4. /\ now \in BrowserRow /\ now.session = session /\ now.read = mem[e].read
              /\ now.otps = mem[e].otps /\ now.history = mem[e].history
            BY <3>3, WritingParts
        <3>5. letter # None
            BY NoneAssumption DEF LetterRow, Sessions
        <3>6. letters'[m] = letter /\ \A n \in Messages : n # m => letters'[n] = letters[n]
            BY <1>0, <3>2
        <3>7. \/ mem[e].session = session
              \/ mem[e].session = None /\ session.by = e /\ session.first = m /\ Named(session, letters', Made)
            <4>1. CASE ~StartsSession(e)
                BY <3>2, <4>1 DEF SessionOf, StartsSession
            <4>2. CASE StartsSession(e)
                <5>1. session = Initiated(m) /\ mem[e].session = None
                    BY <3>2, <4>2 DEF SessionOf, StartsSession
                <5>2. session.by = e /\ session.first = m /\ session.otp = sends[m].otp
                    BY <3>2, <5>1 DEF Initiated
                <5>3. sends[m].otp <= Made[Peer(e)]
                    BY <1>1, <3>1, <3>2 DEF MailLetters, EncryptEffect
                <5>4. Named(session, letters', Made)
                    BY <3>2, <3>5, <3>6, <4>2, <5>2, <5>3 DEF Named
                <5> QED BY <5>1, <5>2, <5>4
            <4> QED BY <4>1, <4>2
        <3>8. KeepsOk(e, mem[e], letters, Done, Made, Calm)
            BY <1>2
        <3> HIDE DEF now
        <3>9. KeepsOk(e, now, letters', Done, Made, Calm)
            <4>1. WrittenOn(e, mem[e], now, m, letters, letters', Made, session)
                BY <3>2, <3>4, <3>5, <3>6, <3>7 DEF WrittenOn
            <4> QED BY <1>0, <1>n, <3>3, <3>4, <3>8, <4>1, KeepsWriting
        <3>10. Grows(letters', Done, Made, Calm, letters', Done', Made', Calm')
            BY <1>g DEF Grows
        <3>11. Now(e, now)
            BY <1>0, <3>4, <3>9, <3>10, KeepsGrow DEF Now
        <3> QED BY <1>5, <3>2, <3>11
    <2>2. CASE SaveSent(m)
        <3> DEFINE e == sends[m].by
                   now == Shown(mem[e], m)
        <3>1. CASE Saves(e, now)
            <4>1. e \in Ends /\ letters[m] # None /\ letters[m].to = Peer(e) /\ m \notin Done
                BY <1>1, <2>2 DEF SaveSent, MailLetters, Done
            <4>2. letters[m].to # e /\ mem[e] \in BrowserRow
                BY <1>0, <4>1, PeerOther
            <4>3. /\ now.session = mem[e].session /\ now.read = mem[e].read /\ now.otps = mem[e].otps
                  /\ now.history = [mem[e].history EXCEPT ![m] = @ + 1]
                BY <4>2 DEF Shown, BrowserRow
            <4>4. now \in BrowserRow
                <5>1. mem'[e] = now
                    BY <1>0, <3>1, <4>1 DEF Saves
                <5> QED BY <4>1, <5>1 DEF MailType
            <4>5. KeepsOk(e, mem[e], letters, Done, Made, Calm)
                BY <1>2, <4>1
            <4> HIDE DEF now
            <4>6. KeepsOk(e, now, letters, Done \cup {m}, Made, Calm)
                BY <1>0, <4>1, <4>2, <4>3, <4>4, <4>5, KeepsShown
            <4>7. m \in Done'
                <5>1. PICK row \in LetterStep : MovesTo(m, "done", row)
                    BY <2>2, Moves
                <5> QED BY <1>0, <5>1 DEF MovesTo, Done
            <4>8. Grows(letters, Done \cup {m}, Made, Calm, letters', Done', Made', Calm')
                BY <1>g, <4>7 DEF Grows
            <4>9. Now(e, now)
                BY <1>0, <4>1, <4>4, <4>6, <4>8, KeepsGrow DEF Now
            <4> QED BY <1>6, <3>1, <4>1, <4>9
        <3>2. CASE ~Saves(e, now)
            <4>1. UNCHANGED <<mem, vault>>
                BY <2>2, <3>2 DEF SaveSent, browser
            <4> QED BY <1>4, <4>1
        <3> QED BY <3>1, <3>2
    <2>3. CASE (\E e \in Ends : AskBundle(e, m)) \/ PostFails(m) \/ LookUpDevices(m)
               \/ \E held \in BOOLEAN : StoreEnvelope(m, held)
        <3>1. UNCHANGED <<mem, vault>>
            BY <2>3 DEF AskBundle, PostFails, LookUpDevices, StoreEnvelope
        <3> QED BY <1>4, <3>1
    <2> QED BY <1>7, <2>1, <2>2, <2>3 DEF SendStep
<1>8. ASSUME NEW e \in Ends, BrowserStep(e) PROVE Goal
    <2>0. mem[e] \in BrowserRow /\ Now(e, mem[e]) /\ Now(e, vault[e])
        BY <1>0, <1>3
    <2>1. ASSUME NEW stale \in BOOLEAN, PublishDevice(e, stale) PROVE Goal
        <3>1. PICK spk \in Nat : mem' = [mem EXCEPT ![e] = [mem[e] EXCEPT !.spk = spk]] /\ vault' = vault
            <4>1. PublishEffect(e, IF stale THEN Rotated(e) ELSE mem[e].spk)
                BY <2>1 DEF PublishDevice, PublishEffect
            <4>2. (IF stale THEN Rotated(e) ELSE mem[e].spk) \in Nat
                BY <2>0, RotatedType DEF BrowserRow
            <4> QED BY <4>1, <4>2 DEF PublishEffect
        <3> DEFINE now == [mem[e] EXCEPT !.spk = spk]
        <3>2. /\ now.session = mem[e].session /\ now.read = mem[e].read /\ now.otps = mem[e].otps
              /\ now.history = mem[e].history
            BY <2>0 DEF BrowserRow
        <3> HIDE DEF now
        <3>3. Now(e, now)
            BY <2>0, <3>2, KeepsAlike DEF Now
        <3> QED BY <1>5, <3>1, <3>3 DEF now
    <2>2. CASE Release(e) \/ StoreDevice(e) \/ RevokeDevice(e)
        <3>1. UNCHANGED <<mem, vault>>
            BY <2>2 DEF Release, StoreDevice, RevokeDevice, browser
        <3> QED BY <1>4, <3>1
    <2>3. CASE Restart(e)
        <3>1. mem' = [mem EXCEPT ![e] = vault[e]] /\ vault' = vault
            BY <2>3 DEF Restart
        <3> QED BY <1>5, <2>0, <3>1
    <2>4. CASE TopUp(e)
        <3>1. TopUpEffect(e)
            BY <2>4, TopsUp
        <3> DEFINE now == [mem[e] EXCEPT !.otps = mem[e].otps \cup Fresh(e)]
        <3>2. Saves(e, now) /\ UNCHANGED <<letters, sends, accidents>>
            BY <3>1 DEF TopUpEffect
        <3>3. /\ now.session = mem[e].session /\ now.read = mem[e].read
              /\ now.history = mem[e].history /\ now.otps = mem[e].otps \cup Fresh(e)
            BY <2>0 DEF BrowserRow
        <3> HIDE DEF now
        <3>4. now \in BrowserRow
            <4>1. mem'[e] = now
                BY <1>0, <3>2 DEF Saves
            <4> QED BY <4>1 DEF MailType
        <3>5. \A k \in Fresh(e) : k = Made[e] + 1 /\ k <= Made'[e]
            <4>1. PICK d \in KeysRow : directory' = [directory EXCEPT ![e] = d]
                                       /\ d.made = directory[e].made + Cardinality(Fresh(e))
                BY <3>1 DEF TopUpEffect
            <4>2. Made[e] = directory[e].made /\ Made'[e] = directory[e].made + Cardinality(Fresh(e))
                BY <4>1 DEF Made, MailType
            <4>3. directory[e].made \in Nat /\ Fresh(e) \in SUBSET {directory[e].made + 1}
                  /\ Cardinality(Fresh(e)) = IF Fresh(e) = {} THEN 0 ELSE 1
                BY FreshKeys
            <4> QED BY <4>2, <4>3
        <3>6. KeepsOk(e, mem[e], letters, Done, Made, Calm) /\ \A p \in Ends : Made[p] <= Made'[p]
            BY <1>2, <1>g DEF Grows
        <3>7. KeepsOk(e, now, letters, Done, Made', Calm)
            <4>1. MoreKeys(e, mem[e], now, Fresh(e), Made, Made')
                BY <3>3, <3>5, <3>6 DEF MoreKeys
            <4> QED BY <1>0, <1>n, <2>0, <3>4, <3>6, <4>1, KeepsMore
        <3>8. letters' = letters /\ Done' = Done /\ Calm' = Calm
            BY <3>2 DEF Done, Calm
        <3>9. Now(e, now)
            BY <3>7, <3>8 DEF Now
        <3> QED BY <1>6, <3>2, <3>9
    <2>5. CASE DeleteConversation(e)
        <3>1. PICK known \in BOOLEAN : Saves(e, Forgetting(mem[e], known))
            BY <2>5 DEF DeleteConversation, Forgetting
        <3>2. LET now == Forgetting(mem[e], known)
              IN  now.session = None /\ now.history = [m \in Messages |-> 0] /\ now.otps = mem[e].otps
            BY <2>0, ForgettingParts
        <3>3. Now(e, Forgetting(mem[e], known))
            BY <2>0, <3>2, KeepsNothing DEF Now
        <3> QED BY <1>6, <3>1, <3>3
    <2>6. CASE SetBlocked(e)
        <3> DEFINE now == [mem[e] EXCEPT !.blocked = ~mem[e].blocked]
        <3>1. Saves(e, now)
            BY <2>6 DEF SetBlocked
        <3>2. /\ now.session = mem[e].session /\ now.read = mem[e].read /\ now.otps = mem[e].otps
              /\ now.history = mem[e].history
            BY <2>0 DEF BrowserRow
        <3> HIDE DEF now
        <3>3. Now(e, now)
            BY <2>0, <3>2, KeepsAlike DEF Now
        <3> QED BY <1>6, <3>1, <3>3
    <2> QED BY <1>8, <2>1, <2>2, <2>3, <2>4, <2>5, <2>6 DEF BrowserStep
<1>9. ASSUME NEW e \in Ends, NEW i \in 1..mix.polls, PollStep(e, i) PROVE Goal
    <2>0. mem[e] \in BrowserRow /\ Now(e, mem[e])
        BY <1>0, <1>3
    <2>1. CASE ProcessEnvelope(e, i)
        <3>1. PICK m \in Messages :
                  /\ letters[m] \in LetterRow /\ letters[m].to = e
                  /\ Leaves(e, i, m) \/ Strange(e, i, m) \/ \E agree \in BOOLEAN : Reads(e, i, m, agree)
            BY <1>1, <2>1, ProcessEffect
        <3>2. UNCHANGED <<vault, sends, letters, directory>>
            BY <1>1, <2>1, ProcessEffect
        <3>3. CASE Leaves(e, i, m) \/ Strange(e, i, m)
            BY <1>4, <3>2, <3>3 DEF Leaves, Strange
        <3>4. ASSUME NEW agree \in BOOLEAN, Reads(e, i, m, agree) PROVE Goal
            <4> DEFINE asks == letters[m].opening /\ ~mem[e].known
                       now == Handled(mem[e], m, asks, agree)
            <4>1. mem' = [mem EXCEPT ![e] = now]
                  /\ accidents' = accidents \cup (IF Resets(mem[e], letters[m], agree) THEN {"reset"} ELSE {})
                BY <3>4 DEF Reads
            <4>2. asks \in BOOLEAN
                OBVIOUS
            <4> HIDE DEF asks
            <4>3. now \in BrowserRow /\ Took(mem[e], letters[m], m, agree, now)
                BY <2>0, <3>1, <4>2, HandledParts
            <4> HIDE DEF now
            <4>4. Calm' => Calm /\ ~Resets(mem[e], letters[m], agree)
                BY <4>1 DEF Calm
            <4>5. letters[m] # None /\ (letters[m].opening => letters[m].session.by # e)
                <5>1. letters[m] # None
                    BY <3>1, NoneAssumption DEF LetterRow, Sessions
                <5> QED BY <1>1, <3>1, <5>1 DEF MailLetters
            <4>6. KeepsOk(e, mem[e], letters, Done, Made, Calm)
                BY <1>2
            <4>7. KeepsOk(e, now, letters, Done, Made, Calm')
                <5>1. TakenUp(e, mem[e], now, m, agree, letters, Calm, Calm')
                    BY <3>1, <4>3, <4>4, <4>5 DEF TakenUp
                <5> QED BY <1>0, <1>n, <2>0, <4>3, <4>6, <5>1, KeepsTook
            <4>8. letters' = letters /\ Done' = Done /\ Made' = Made
                BY <3>2 DEF Done, Made
            <4>9. Now(e, now)
                BY <4>7, <4>8 DEF Now
            <4> QED BY <1>5, <3>2, <4>1, <4>9
        <3> QED BY <3>1, <3>3, <3>4
    <2>2. CASE PersistInbox(e, i)
        <3>1. Saves(e, mem[e])
            BY <2>2 DEF PersistInbox
        <3> QED BY <1>6, <2>0, <3>1
    <2>3. CASE FetchEnvelopes(e, i) \/ Acknowledge(e, i)
        <3>1. UNCHANGED <<mem, vault>>
            BY <2>3 DEF FetchEnvelopes, Acknowledge
        <3> QED BY <1>4, <3>1
    <2> QED BY <1>9, <2>1, <2>2, <2>3 DEF PollStep
<1>10. ASSUME UNCHANGED vars PROVE Goal
    <2>1. UNCHANGED <<mem, vault>>
        BY <1>10 DEF vars
    <2> QED BY <1>4, <2>1
<1>11. Goal
    <2> HIDE DEF Goal
    <2>1. CASE Next
        BY <1>7, <1>8, <1>9, <2>1, MailSteps
    <2> QED BY <1>10, <2>1
<1> QED BY <1>11 DEF Now

-----------------------------------------------------------------------------
(* Mail: letters *)

\* How far sendPayload is with a message, and its letter.
RowOk(row, letter, made) ==
    /\ row.step \in {"new", "bundle"} => letter = None
    /\ row.step \in {"bundle", "posted", "checked", "stored"} => row.by \in Ends
    /\ row.step = "bundle" => row.otp <= made[Peer(row.by)]
    /\ row.step \in {"posted", "checked", "stored"} => letter # None /\ letter.to = Peer(row.by)
OpeningOk(m, letter) == letter # None /\ letter.opening => letter.session.by # letter.to /\ letter.session.first = m

LEMMA LettersParts ==
    /\ MailLetters <=> /\ \A m \in Messages : RowOk(sends[m], letters[m], Made) /\ OpeningOk(m, letters[m])
                       /\ AllNamed(letters, Made)
    /\ MailLetters' <=> /\ \A m \in Messages : RowOk(sends'[m], letters'[m], Made') /\ OpeningOk(m, letters'[m])
                        /\ AllNamed(letters', Made')
BY DEF MailLetters, RowOk, OpeningOk, AllNamed

LEMMA RowGrows ==
    ASSUME NEW row \in LetterStep, NEW letter, NEW made \in [Ends -> Nat], NEW made2 \in [Ends -> Nat],
           \A p \in Ends : made[p] <= made2[p], RowOk(row, letter, made)
    PROVE  RowOk(row, letter, made2)
<1>1. ASSUME row.step = "bundle" PROVE row.otp <= made2[Peer(row.by)]
    <2>1. row.by \in Ends /\ row.otp \in Nat
        BY <1>1 DEF RowOk, LetterStep
    <2>2. Peer(row.by) \in Ends
        BY <2>1, PeerOther
    <2>3. row.otp <= made[Peer(row.by)] /\ made[Peer(row.by)] <= made2[Peer(row.by)]
        BY <1>1, <2>2 DEF RowOk
    <2> QED BY <2>1, <2>2, <2>3
<1> QED BY <1>1 DEF RowOk

LEMMA AllNamedGrows ==
    ASSUME NEW L \in [Messages -> LetterRow \cup {None}],
           NEW made \in [Ends -> Nat], NEW made2 \in [Ends -> Nat],
           \A e \in Ends : made[e] <= made2[e], AllNamed(L, made)
    PROVE  AllNamed(L, made2)
<1> SUFFICES ASSUME NEW m \in Messages, L[m] # None PROVE Named(L[m].session, L, made2)
    BY DEF AllNamed
<1>1. L[m].session \in Sessions /\ Named(L[m].session, L, made)
    BY DEF AllNamed, LetterRow
<1> QED BY <1>1, NamedGrows

LEMMA LettersStep ==
    ASSUME MailType, MailType', MailInv, [Next]_vars
    PROVE  MailLetters'
<1>0. /\ letters \in [Messages -> LetterRow \cup {None}] /\ letters' \in [Messages -> LetterRow \cup {None}]
      /\ Made \in [Ends -> Nat] /\ Made' \in [Ends -> Nat]
      /\ sends \in [Messages -> LetterStep]
      /\ directory \in [Ends -> KeysRow]
    BY DEF MailType, Made, KeysRow
<1>1. MailLetters /\ MailOnItsWay /\ KeysMade
    BY DEF MailInv
<1>g. /\ Grows(letters, Done, Made, Calm, letters', Done', Made', Calm')
      /\ \A p \in Ends : Made[p] <= Made'[p]
    BY <1>1, StepGrows DEF Grows
<1>2. AllNamed(letters, Made) /\ \A m \in Messages : RowOk(sends[m], letters[m], Made) /\ OpeningOk(m, letters[m])
    BY <1>1, LettersParts
<1>3. AllNamed(letters, Made') /\ \A m \in Messages : RowOk(sends[m], letters[m], Made')
    <2>1. AllNamed(letters, Made')
        BY <1>0, <1>2, <1>g, AllNamedGrows
    <2>2. ASSUME NEW m \in Messages PROVE RowOk(sends[m], letters[m], Made')
        <3>1. sends[m] \in LetterStep /\ RowOk(sends[m], letters[m], Made)
            BY <1>0, <1>2
        <3> QED BY <1>0, <1>g, <3>1, RowGrows
    <2> QED BY <2>1, <2>2
<1>4. ASSUME letters' = letters, \A m \in Messages : RowOk(sends'[m], letters[m], Made') PROVE MailLetters'
    BY <1>2, <1>3, <1>4, LettersParts
<1>5. ASSUME letters' = letters, sends' = sends PROVE MailLetters'
    BY <1>3, <1>4, <1>5
<1>6. ASSUME NEW m \in Messages, NEW row \in LetterStep, letters' = letters, sends' = [sends EXCEPT ![m] = row],
             RowOk(row, letters[m], Made')
      PROVE  MailLetters'
    BY <1>0, <1>3, <1>4, <1>6
<1>7. ASSUME NEW m \in Messages, SendStep(m) PROVE MailLetters'
    <2>1. ASSUME NEW e \in Ends, AskBundle(e, m) PROVE MailLetters'
        <3>1. PICK row \in LetterStep : AskEffect(e, m, row)
            BY <2>1, Asks
        <3>2. /\ letters' = letters /\ sends' = [sends EXCEPT ![m] = row] /\ row.step = "bundle" /\ row.by = e
              /\ sends[m].step = "new" /\ row.otp \in directory[Peer(e)].otps \cup {0}
            BY <3>1 DEF AskEffect
        <3>3. letters[m] = None /\ Peer(e) \in Ends
            BY <1>1, <3>2, PeerOther DEF MailLetters
        <3>4. row.otp <= Made[Peer(e)] /\ row.otp \in Nat
            BY <1>0, <1>1, <3>2, <3>3 DEF KeysMade, Made, LetterStep
        <3>5. row.otp <= Made'[Peer(e)]
            BY <1>0, <1>g, <3>3, <3>4
        <3>6. RowOk(row, letters[m], Made')
            BY <3>2, <3>3, <3>5 DEF RowOk
        <3> QED BY <1>6, <3>2, <3>6
    <2>2. CASE Encrypt(m)
        <3>1. PICK e \in Ends, session \in Sessions, letter \in LetterRow, row \in LetterStep :
                  EncryptEffect(m, e, session, letter, row)
            BY <1>1, <2>2, Encrypts
        <3>2. /\ letters' = [letters EXCEPT ![m] = letter] /\ sends' = [sends EXCEPT ![m] = row]
              /\ row.step = "posted" /\ row.by = e /\ letter.to = Peer(e) /\ letter.session = session
              /\ e = sends[m].by /\ session = SessionOf(m) /\ letter.opening = StartsSession(e)
              /\ sends[m].step = "bundle" /\ directory' = directory
            BY <3>1 DEF EncryptEffect
        <3>3. letter # None
            BY NoneAssumption DEF LetterRow, Sessions
        <3>4. RowOk(row, letter, Made')
            BY <3>2, <3>3 DEF RowOk
        <3>5. \A n \in Messages : letters'[n] = (IF n = m THEN letter ELSE letters[n])
                                  /\ sends'[n] = (IF n = m THEN row ELSE sends[n])
            BY <1>0, <3>2
        <3>6. StartsSession(e) => session.by = e /\ session.first = m /\ session.otp = sends[m].otp
            BY <3>2 DEF SessionOf, Initiated
        <3>7. OpeningOk(m, letter)
            BY <3>2, <3>6, PeerOther DEF OpeningOk
        <3>8. Named(session, letters', Made')
            <4>1. CASE StartsSession(e)
                <5>1. sends[m].otp <= Made'[Peer(e)]
                    BY <1>3, <3>2 DEF RowOk
                <5> QED BY <3>2, <3>3, <3>5, <3>6, <4>1, <5>1 DEF Named
            <4>2. CASE ~StartsSession(e)
                <5>1. session = mem[e].session /\ mem[e].session # None
                    BY <3>2, <4>2 DEF SessionOf, StartsSession
                <5>2. Named(session, letters, Made)
                    BY <5>1 DEF MailInv, KeepsOk
                <5> QED BY <1>0, <1>g, <5>2, NamedGrows DEF Grows
            <4> QED BY <4>1, <4>2
        <3>9. AllNamed(letters', Made')
            <4> SUFFICES ASSUME NEW n \in Messages, letters'[n] # None PROVE Named(letters'[n].session, letters', Made')
                BY DEF AllNamed
            <4>1. CASE n = m
                BY <3>2, <3>5, <3>8, <4>1
            <4>2. CASE n # m
                <5>1. letters'[n] = letters[n] /\ letters[n].session \in Sessions /\ Named(letters[n].session, letters, Made)
                    BY <1>0, <1>2, <3>5, <4>2 DEF AllNamed, LetterRow
                <5> QED BY <1>0, <1>g, <5>1, NamedGrows DEF Grows
            <4> QED BY <4>1, <4>2
        <3> QED BY <1>2, <1>3, <3>4, <3>5, <3>7, <3>9, LettersParts
    <2>3. CASE PostFails(m) \/ LookUpDevices(m) \/ SaveSent(m) \/ \E held \in BOOLEAN : StoreEnvelope(m, held)
        <3>1. /\ letters' = letters
              /\ sends[m].step \in {"posted", "checked", "stored"}
            BY <2>3 DEF PostFails, LookUpDevices, SaveSent, StoreEnvelope
        <3>2. PICK row \in LetterStep, step \in {"failed", "checked", "done", "stored"} : MovesTo(m, step, row)
            BY <2>3, Moves
        <3>3. RowOk(row, letters[m], Made')
            BY <1>3, <3>1, <3>2 DEF MovesTo, RowOk
        <3> QED BY <1>6, <3>1, <3>2, <3>3 DEF MovesTo
    <2> QED BY <1>7, <2>1, <2>2, <2>3 DEF SendStep
<1>8. ASSUME NEW e \in Ends, BrowserStep(e) PROVE MailLetters'
    <2>1. CASE Restart(e)
        <3>1. letters' = letters
            BY <2>1 DEF Restart
        <3>2. ASSUME NEW m \in Messages PROVE RowOk(sends'[m], letters[m], Made')
            <4>1. RowOk(sends[m], letters[m], Made')
                BY <1>3
            <4>2. \/ sends'[m] = sends[m]
                  \/ sends[m].step = "bundle" /\ sends[m].by = e /\ sends'[m].step = "failed"
                  \/ /\ sends[m].step # "bundle" /\ sends[m].by = e
                     /\ sends'[m].step = sends[m].step /\ sends'[m].by = e
                     /\ sends'[m].spk = sends[m].spk /\ sends'[m].otp = sends[m].otp
                BY <2>1, Restarts
            <4> QED BY <4>1, <4>2 DEF RowOk
        <3> QED BY <1>4, <3>1, <3>2
    <2>2. CASE StoreDevice(e)
        BY <1>5, <2>2, Stores
    <2>3. CASE TopUp(e)
        BY <1>5, <2>3, TopsUp DEF TopUpEffect
    <2>4. CASE (\E stale \in BOOLEAN : PublishDevice(e, stale)) \/ Release(e) \/ DeleteConversation(e)
               \/ SetBlocked(e) \/ RevokeDevice(e)
        <3>1. letters' = letters /\ sends' = sends
            BY <2>4 DEF PublishDevice, Release, DeleteConversation, SetBlocked, RevokeDevice
        <3> QED BY <1>5, <3>1
    <2> QED BY <1>8, <2>1, <2>2, <2>3, <2>4 DEF BrowserStep
<1>9. ASSUME NEW e \in Ends, NEW i \in 1..mix.polls, PollStep(e, i) PROVE MailLetters'
    <2>1. CASE ProcessEnvelope(e, i)
        <3>1. letters' = letters /\ sends' = sends
            BY <1>1, <2>1, ProcessEffect
        <3> QED BY <1>5, <3>1
    <2>2. CASE FetchEnvelopes(e, i) \/ PersistInbox(e, i) \/ Acknowledge(e, i)
        <3>1. letters' = letters /\ sends' = sends
            BY <2>2 DEF FetchEnvelopes, PersistInbox, Acknowledge
        <3> QED BY <1>5, <3>1
    <2> QED BY <1>9, <2>1, <2>2 DEF PollStep
<1>10. ASSUME UNCHANGED vars PROVE MailLetters'
    <2>1. letters' = letters /\ sends' = sends
        BY <1>10 DEF vars
    <2> QED BY <1>5, <2>1
<1> QED
    <2>1. CASE Next
        BY <1>7, <1>8, <1>9, <2>1, MailSteps
    <2> QED BY <1>10, <2>1

-----------------------------------------------------------------------------
(* Mail: inboxes and polls *)

\* Nothing comes into an inbox but what a post brings, at the end.
Shrinks(e) ==
    /\ DOMAIN inbox'[e] \subseteq DOMAIN inbox[e]
    /\ \A j \in DOMAIN inbox'[e] : inbox'[e][j].m = inbox[e][j].m
    /\ \A p \in Ends : p # e => inbox'[p] = inbox[p]
PostEffect(m, held, place) ==
    LET p == letters[m].to
    IN  /\ sends[m].step = "checked" /\ p \in Ends
        /\ \A i \in DOMAIN inbox[p] : i < place
        /\ DOMAIN inbox'[p] = DOMAIN inbox[p] \cup {place}
        /\ inbox'[p][place] = [m |-> m, held |-> held]
        /\ \A i \in DOMAIN inbox[p] : inbox'[p][i] = inbox[p][i]
        /\ \A e \in Ends : e # p => inbox'[e] = inbox[e]
        /\ accidents' = accidents \cup (IF Overtaken(m) THEN {"overtaken"} ELSE {})
        /\ UNCHANGED <<mix, mem, vault, directory, letters, polls, publishing, accepted, late>>

LEMMA StoresEnvelope ==
    ASSUME MailType, MailLetters, NEW m \in Messages, NEW held \in BOOLEAN, StoreEnvelope(m, held)
    PROVE  \E place \in Nat : PostEffect(m, held, place)
<1> DEFINE p == letters[m].to
           v == [m |-> m, held |-> held]
<1>1. p \in Ends /\ inbox[p] \in Boxes /\ v \in MailRow /\ v.m = m /\ sends[m].step = "checked"
    BY DEF StoreEnvelope, MailLetters, LetterRow, MailRow, MailType
<1>2. /\ inbox' = [inbox EXCEPT ![p] = Put(inbox[p], v)]
      /\ accidents' = accidents \cup (IF Overtaken(m) THEN {"overtaken"} ELSE {})
      /\ UNCHANGED <<mix, mem, vault, directory, letters, polls, publishing, accepted, late>>
    BY DEF StoreEnvelope
<1>3. PICK place \in Nat : /\ \A i \in DOMAIN inbox[p] : i < place
                           /\ DOMAIN Put(inbox[p], v) = DOMAIN inbox[p] \cup {place}
                           /\ Put(inbox[p], v)[place] = v
                           /\ \A i \in DOMAIN inbox[p] : Put(inbox[p], v)[i] = inbox[p][i]
    BY <1>1, PutLast
<1>4. inbox'[p] = Put(inbox[p], v) /\ \A e \in Ends : e # p => inbox'[e] = inbox[e]
    BY <1>1, <1>2 DEF MailType
<1> QED BY <1>1, <1>2, <1>3, <1>4 DEF PostEffect

LEMMA InboxSteps ==
    ASSUME MailType, MailLetters, MailOnItsWay, [Next]_vars
    PROVE  \/ inbox' = inbox
           \/ \E m \in Messages, held \in BOOLEAN : StoreEnvelope(m, held)
           \/ \E e \in Ends : Shrinks(e)
<1> DEFINE Goal == \/ inbox' = inbox
                   \/ \E m \in Messages, held \in BOOLEAN : StoreEnvelope(m, held)
                   \/ \E e \in Ends : Shrinks(e)
<1>0. inbox \in [Ends -> Boxes]
    BY DEF MailType
<1>a. ASSUME NEW e \in Ends, inbox' = [inbox EXCEPT ![e] = <<>>] PROVE Shrinks(e)
    BY <1>0, <1>a DEF Shrinks
<1>1. ASSUME NEW m \in Messages, SendStep(m) PROVE Goal
    <2>1. ASSUME NEW e \in Ends, AskBundle(e, m) PROVE Goal
        BY <2>1 DEF AskBundle
    <2>2. CASE Encrypt(m) \/ PostFails(m) \/ LookUpDevices(m) \/ SaveSent(m)
        <3>1. inbox' = inbox
            BY <2>2 DEF Encrypt, PostFails, LookUpDevices, SaveSent
        <3> QED BY <3>1
    <2>3. CASE \E held \in BOOLEAN : StoreEnvelope(m, held)
        BY <2>3
    <2> QED BY <1>1, <2>1, <2>2, <2>3 DEF SendStep
<1>2. ASSUME NEW e \in Ends, BrowserStep(e) PROVE Goal
    <2>1. CASE Release(e)
        <3>1. PICK j \in DOMAIN inbox[e] : inbox' = [inbox EXCEPT ![e] = [inbox[e] EXCEPT ![j].held = FALSE]]
            BY <2>1 DEF Release
        <3> DEFINE b == inbox[e]
                   row == [b[j] EXCEPT !.held = FALSE]
        <3>2. b \in [DOMAIN b -> MailRow] /\ j \in DOMAIN b
            <4>1. b \in Boxes /\ j \in DOMAIN b
                BY <1>0
            <4> HIDE DEF b
            <4> QED BY <4>1 DEF Boxes
        <3>3. row.m = b[j].m
            BY <3>2 DEF MailRow
        <3>4. inbox' = [inbox EXCEPT ![e] = [b EXCEPT ![j] = row]]
            BY <3>1
        <3> HIDE DEF b, row
        <3>5. DOMAIN [b EXCEPT ![j] = row] = DOMAIN b /\ \A i \in DOMAIN b : [b EXCEPT ![j] = row][i].m = b[i].m
            BY <3>2, <3>3
        <3>6. Shrinks(e)
            BY <1>0, <3>4, <3>5 DEF Shrinks, b
        <3> QED BY <3>6
    <2>2. CASE RevokeDevice(e)
        <3>1. inbox' = [inbox EXCEPT ![e] = <<>>]
            BY <2>2 DEF RevokeDevice, Dropped
        <3> QED BY <1>a, <3>1
    <2>3. CASE (\E stale \in BOOLEAN : PublishDevice(e, stale)) \/ Restart(e) \/ DeleteConversation(e)
               \/ SetBlocked(e) \/ StoreDevice(e) \/ TopUp(e)
        <3>1. inbox' = inbox
            BY <2>3 DEF PublishDevice, Restart, DeleteConversation, SetBlocked, StoreDevice, TopUp
        <3> QED BY <3>1
    <2> QED BY <1>2, <2>1, <2>2, <2>3 DEF BrowserStep
<1>3. ASSUME NEW e \in Ends, NEW i \in 1..mix.polls, PollStep(e, i) PROVE Goal
    <2>1. CASE FetchEnvelopes(e, i)
        <3>1. inbox' = inbox \/ inbox' = [inbox EXCEPT ![e] = <<>>]
            BY <2>1 DEF FetchEnvelopes
        <3> QED BY <1>a, <3>1
    <2>2. CASE Acknowledge(e, i)
        <3> DEFINE b == inbox[e]
                   kept == {j \in DOMAIN b : b[j].m \notin polls[e][i].handled}
        <3>1. inbox' = inbox \/ inbox' = [inbox EXCEPT ![e] = IF directory[e].revoked THEN b ELSE Restrict(b, kept)]
            BY <2>2 DEF Acknowledge
        <3>2. kept \subseteq DOMAIN b /\ DOMAIN Restrict(b, kept) = kept /\ \A j \in kept : Restrict(b, kept)[j] = b[j]
            BY DEF Restrict
        <3> HIDE DEF b, kept
        <3>3. ASSUME inbox' = [inbox EXCEPT ![e] = Restrict(b, kept)] PROVE Shrinks(e)
            BY <1>0, <3>2, <3>3 DEF Shrinks, b
        <3>4. inbox' = [inbox EXCEPT ![e] = b] => inbox' = inbox
            BY <1>0 DEF b
        <3> QED BY <3>1, <3>3, <3>4
    <2>3. CASE ProcessEnvelope(e, i)
        BY <2>3, ProcessEffect
    <2>4. CASE PersistInbox(e, i)
        BY <2>4 DEF PersistInbox
    <2> QED BY <1>3, <2>1, <2>2, <2>3, <2>4 DEF PollStep
<1>4. ASSUME UNCHANGED vars PROVE Goal
    BY <1>4 DEF vars
<1>5. Goal
    <2> HIDE DEF Goal
    <2>1. CASE Next
        BY <1>1, <1>2, <1>3, <2>1, MailSteps
    <2> QED BY <1>4, <2>1
<1> QED BY <1>5

\* What a poll holds: envelopes of its inbox.
PollOk(e, row) == (\A j \in DOMAIN row.left : For(e, row.left[j])) /\ \A m \in row.handled : For(e, m)
LEMMA PollSteps ==
    ASSUME MailType, MailLetters, MailOnItsWay, [Next]_vars
    PROVE  /\ mix' = mix
           /\ \A e \in Ends : \A i \in 1..mix.polls : PollOk(e, polls'[e][i])
<1> DEFINE Goal == mix' = mix /\ \A e \in Ends : \A i \in 1..mix.polls : PollOk(e, polls'[e][i])
<1>0. /\ \A e \in Ends : inbox[e] \in Boxes
      /\ \A e \in Ends, i \in 1..mix.polls : polls[e][i] \in InboxPoll
    BY DEF MailType
<1>1. \A e \in Ends : \A i \in 1..mix.polls : PollOk(e, polls[e][i])
    BY DEF MailOnItsWay, PollOk
<1>2. \A e : PollOk(e, Idle)
    BY DEF PollOk, Idle
<1>3. ASSUME mix' = mix, polls' = polls PROVE Goal
    BY <1>1, <1>3
<1>4. ASSUME NEW e \in Ends, NEW i \in 1..mix.polls, NEW row \in InboxPoll, mix' = mix, PollOk(e, row),
             polls' = [polls EXCEPT ![e] = [polls[e] EXCEPT ![i] = row]]
      PROVE  Goal
    <2>1. polls'[e][i] = row /\ \A p \in Ends, j \in 1..mix.polls : p # e \/ j # i => polls'[p][j] = polls[p][j]
        <3>1. polls \in [Ends -> [1..mix.polls -> InboxPoll]]
            BY DEF MailType
        <3> QED BY <1>4, <3>1
    <2> QED BY <1>1, <1>4, <2>1
<1>5. ASSUME NEW m \in Messages, SendStep(m) PROVE Goal
    <2>1. ASSUME NEW e \in Ends, AskBundle(e, m) PROVE mix' = mix /\ polls' = polls
        BY <2>1 DEF AskBundle
    <2>2. ASSUME Encrypt(m) \/ PostFails(m) \/ LookUpDevices(m) \/ SaveSent(m)
                 \/ \E held \in BOOLEAN : StoreEnvelope(m, held)
          PROVE  mix' = mix /\ polls' = polls
        BY <2>2 DEF Encrypt, PostFails, LookUpDevices, SaveSent, StoreEnvelope
    <2> QED BY <1>3, <1>5, <2>1, <2>2 DEF SendStep
<1>6. ASSUME NEW e \in Ends, BrowserStep(e) PROVE Goal
    <2>1. CASE Restart(e)
        <3>1. mix' = mix /\ polls' = [polls EXCEPT ![e] = [i \in 1..mix.polls |-> Idle]]
            BY <2>1 DEF Restart
        <3>2. \A p \in Ends : \A i \in 1..mix.polls : polls'[p][i] = IF p = e THEN Idle ELSE polls[p][i]
            BY <3>1 DEF MailType
        <3> QED BY <1>1, <1>2, <3>1, <3>2
    <2>2. ASSUME (\E stale \in BOOLEAN : PublishDevice(e, stale)) \/ Release(e) \/ DeleteConversation(e)
                 \/ SetBlocked(e) \/ RevokeDevice(e) \/ StoreDevice(e) \/ TopUp(e)
          PROVE  mix' = mix /\ polls' = polls
        BY <2>2 DEF PublishDevice, Release, DeleteConversation, SetBlocked, RevokeDevice, StoreDevice, TopUp
    <2> QED BY <1>3, <1>6, <2>1, <2>2 DEF BrowserStep
<1>7. ASSUME NEW e \in Ends, NEW i \in 1..mix.polls, PollStep(e, i) PROVE Goal
    <2>0. polls[e][i] \in InboxPoll /\ PollOk(e, polls[e][i])
        BY <1>0, <1>1
    <2>1. CASE FetchEnvelopes(e, i)
        <3> DEFINE due == {j \in DOMAIN inbox[e] : ~inbox[e][j].held}
                   l == [j \in due |-> inbox[e][j].m]
                   row == [Idle EXCEPT !.step = "reading", !.left = l]
        <3>1. mix' = mix /\ (polls' = polls \/ polls' = [polls EXCEPT ![e] = [polls[e] EXCEPT ![i] = row]])
            BY <2>1 DEF FetchEnvelopes
        <3>2. row \in InboxPoll
            BY <1>0, <2>0, BoxRows, PollRows
        <3>3. row.left = l /\ row.handled = {}
            BY DEF Idle
        <3>4. PollOk(e, row)
            BY <3>3 DEF PollOk, MailOnItsWay
        <3> HIDE DEF row
        <3> QED BY <1>3, <1>4, <3>1, <3>2, <3>4
    <2>2. CASE ProcessEnvelope(e, i)
        <3>1. PICK m \in Messages :
                  /\ m = polls[e][i].left[Min(DOMAIN polls[e][i].left)]
                  /\ letters[m] \in LetterRow /\ letters[m].to = e
                  /\ Leaves(e, i, m) \/ Strange(e, i, m) \/ \E agree \in BOOLEAN : Reads(e, i, m, agree)
            BY <2>2, ProcessEffect
        <3>2. mix' = mix
            BY <2>2, ProcessEffect
        <3>3. For(e, m)
            BY <3>1, NoneAssumption DEF For, LetterRow, Sessions, ForIn
        <3>4. PICK handled \in {{}, {m}} :
                  polls' = [polls EXCEPT ![e] = [polls[e] EXCEPT ![i] = Onward(polls[e][i], handled)]]
            BY <3>1 DEF Leaves, Strange, Reads
        <3> DEFINE now == Onward(polls[e][i], handled)
        <3>5. /\ now \in InboxPoll /\ now.handled = polls[e][i].handled \cup handled
              /\ DOMAIN now.left \subseteq DOMAIN polls[e][i].left
              /\ \A j \in DOMAIN now.left : now.left[j] = polls[e][i].left[j]
            <4>1. handled \in SUBSET Messages
                OBVIOUS
            <4> QED BY <2>0, <4>1, OnwardParts
        <3> HIDE DEF now
        <3>6. PollOk(e, now)
            BY <2>0, <3>3, <3>5 DEF PollOk
        <3> QED BY <1>4, <3>2, <3>4, <3>5, <3>6 DEF now
    <2>3. CASE PersistInbox(e, i)
        <3> DEFINE now == [polls[e][i] EXCEPT !.step = "acking"]
        <3>1. mix' = mix /\ polls' = [polls EXCEPT ![e] = [polls[e] EXCEPT ![i] = now]]
            BY <2>3 DEF PersistInbox
        <3>2. now \in InboxPoll /\ now.left = polls[e][i].left /\ now.handled = polls[e][i].handled
            BY <2>0 DEF InboxPoll
        <3> HIDE DEF now
        <3>3. PollOk(e, now)
            BY <2>0, <3>2 DEF PollOk
        <3> QED BY <1>4, <3>1, <3>2, <3>3
    <2>4. CASE Acknowledge(e, i)
        <3>1. mix' = mix /\ polls' = [polls EXCEPT ![e] = [polls[e] EXCEPT ![i] = Idle]]
            BY <2>4 DEF Acknowledge
        <3>2. Idle \in InboxPoll
            BY <2>0, PollRows DEF InboxPoll
        <3> QED BY <1>2, <1>4, <3>1, <3>2
    <2> QED BY <1>7, <2>1, <2>2, <2>3, <2>4 DEF PollStep
<1>8. ASSUME UNCHANGED vars PROVE Goal
    BY <1>3, <1>8 DEF vars
<1>9. Goal
    <2> HIDE DEF Goal
    <2>1. CASE Next
        BY <1>5, <1>6, <1>7, <2>1, MailSteps
    <2> QED BY <1>8, <2>1
<1> QED BY <1>9

LEMMA OnItsWayStep ==
    ASSUME MailType, MailType', MailInv, [Next]_vars
    PROVE  MailOnItsWay'
<1>1. MailLetters /\ MailOnItsWay
    BY DEF MailInv
<1>2. \A e, m : m \in Messages /\ For(e, m) => ForIn(letters', e, m)
    BY <1>1, StepGrows DEF Grows, For, ForIn
<1>3. ASSUME NEW e \in Ends PROVE \A j \in DOMAIN inbox'[e] : ForIn(letters', e, inbox'[e][j].m)
    <2>0. \A j \in DOMAIN inbox'[e] : inbox'[e][j].m \in Messages
        <3>1. inbox'[e] \in Boxes
            BY DEF MailType
        <3> QED BY <3>1, BoxRows
    <2>1. \A j \in DOMAIN inbox[e] : inbox[e][j].m \in Messages /\ For(e, inbox[e][j].m)
        BY <1>1, BoxRows DEF MailType, MailOnItsWay
    <2>2. \A j \in DOMAIN inbox[e] : \A m : m = inbox[e][j].m => ForIn(letters', e, m)
        BY <1>2, <2>1
    <2>3. ASSUME NEW j \in DOMAIN inbox'[e], NEW m \in Messages, m = inbox'[e][j].m PROVE ForIn(letters', e, m)
        <3>1. CASE inbox' = inbox
            BY <2>2, <2>3, <3>1
        <3>2. ASSUME NEW n \in Messages, NEW held \in BOOLEAN, StoreEnvelope(n, held) PROVE ForIn(letters', e, m)
            <4>1. PICK place \in Nat : PostEffect(n, held, place)
                BY <1>1, <3>2, StoresEnvelope
            <4>2. CASE e = letters[n].to /\ j = place
                <5>1. m = n /\ letters' = letters
                    BY <2>3, <4>1, <4>2 DEF PostEffect
                <5>2. letters[n] # None
                    BY <1>1, <4>1 DEF PostEffect, MailLetters
                <5> QED BY <4>2, <5>1, <5>2 DEF ForIn
            <4>3. CASE ~(e = letters[n].to /\ j = place)
                <5>1. j \in DOMAIN inbox[e] /\ inbox'[e][j] = inbox[e][j]
                    BY <2>3, <4>1, <4>3 DEF PostEffect
                <5> QED BY <2>2, <2>3, <5>1
            <4> QED BY <4>2, <4>3
        <3>3. ASSUME NEW p \in Ends, Shrinks(p) PROVE ForIn(letters', e, m)
            <4>1. j \in DOMAIN inbox[e] /\ inbox'[e][j].m = inbox[e][j].m
                BY <2>3, <3>3 DEF Shrinks
            <4> QED BY <2>2, <2>3, <4>1
        <3> QED BY <1>1, <3>1, <3>2, <3>3, InboxSteps
    <2> QED BY <2>0, <2>3
<1>4. ASSUME NEW e \in Ends, NEW i \in 1..mix'.polls
      PROVE  /\ \A j \in DOMAIN polls'[e][i].left : ForIn(letters', e, polls'[e][i].left[j])
             /\ \A m \in polls'[e][i].handled : ForIn(letters', e, m)
    <2>1. i \in 1..mix.polls /\ PollOk(e, polls'[e][i])
        BY <1>1, PollSteps
    <2>2. polls'[e][i] \in InboxPoll
        <3>1. polls' \in [Ends -> [1..mix'.polls -> InboxPoll]]
            BY DEF MailType
        <3> QED BY <3>1
    <2>3. polls'[e][i].left \in Fetched /\ polls'[e][i].handled \in SUBSET Messages
        BY <2>2 DEF InboxPoll
    <2>4. \A j \in DOMAIN polls'[e][i].left : polls'[e][i].left[j] \in Messages
        BY <2>3, FetchedRows
    <2> QED BY <1>2, <2>1, <2>3, <2>4 DEF PollOk
<1> QED BY <1>3, <1>4 DEF MailOnItsWay, For, ForIn

-----------------------------------------------------------------------------
(* Mail: keys *)

\* Every one-time prekey the directory or a publication holds was made.
KeysOk(e, d, row) ==
    /\ \A k \in d.otps : 1 <= k /\ k <= d.made
    /\ row # None => \A k \in row.otps : 1 <= k /\ k <= d.made

LEMMA KeysStep ==
    ASSUME MailType, MailType', MailInv, [Next]_vars
    PROVE  KeysMade'
<1> DEFINE Goal == \A e \in Ends : KeysOk(e, directory'[e], publishing'[e])
<1>0. /\ directory \in [Ends -> KeysRow] /\ publishing \in [Ends -> Publication \cup {None}]
      /\ mem \in [Ends -> BrowserRow]
    BY DEF MailType
<1>m. \A e \in Ends : directory[e].made \in Nat /\ directory[e].otps \in SUBSET Nat
    BY <1>0 DEF KeysRow
<1>1. MailLetters /\ MailOnItsWay
    BY DEF MailInv
<1>2. \A e \in Ends : KeysOk(e, directory[e], publishing[e])
    BY DEF MailInv, KeysMade, KeysOk
<1>3. ASSUME directory' = directory, publishing' = publishing PROVE Goal
    BY <1>2, <1>3
<1>4. ASSUME NEW e \in Ends, NEW d, directory' = [directory EXCEPT ![e] = d],
             \A p \in Ends : p # e => publishing'[p] = publishing[p],
             KeysOk(e, d, publishing'[e])
      PROVE  Goal
    BY <1>0, <1>2, <1>4
<1>5. ASSUME NEW e \in Ends, NEW row, publishing' = [publishing EXCEPT ![e] = row], directory' = directory,
             row # None => \A k \in row.otps : 1 <= k /\ k <= directory[e].made
      PROVE  Goal
    BY <1>0, <1>2, <1>5 DEF KeysOk
<1>6. ASSUME NEW m \in Messages, SendStep(m) PROVE Goal
    <2>1. ASSUME NEW e \in Ends, AskBundle(e, m) PROVE Goal
        <3>1. PICK row \in LetterStep : AskEffect(e, m, row)
            BY <2>1, Asks
        <3> DEFINE p == Peer(e)
                   d == [directory[p] EXCEPT !.otps = directory[p].otps \ {row.otp}]
        <3>2. p \in Ends /\ directory' = [directory EXCEPT ![p] = d] /\ publishing' = publishing
            BY <3>1, PeerOther DEF AskEffect
        <3>3. d.made = directory[p].made /\ d.otps \subseteq directory[p].otps
            BY <1>0, <3>2 DEF KeysRow
        <3> HIDE DEF d, p
        <3>4. KeysOk(p, d, publishing'[p])
            BY <1>2, <3>2, <3>3 DEF KeysOk
        <3> QED BY <1>4, <3>2, <3>4
    <2>2. ASSUME Encrypt(m) \/ PostFails(m) \/ LookUpDevices(m) \/ SaveSent(m)
                 \/ \E held \in BOOLEAN : StoreEnvelope(m, held)
          PROVE  directory' = directory /\ publishing' = publishing
        BY <2>2 DEF Encrypt, PostFails, LookUpDevices, SaveSent, StoreEnvelope
    <2> QED BY <1>3, <1>6, <2>1, <2>2 DEF SendStep
<1>7. ASSUME NEW e \in Ends, BrowserStep(e) PROVE Goal
    <2>1. ASSUME NEW stale \in BOOLEAN, PublishDevice(e, stale) PROVE Goal
        <3>1. PICK spk : PublishEffect(e, spk)
            BY <2>1 DEF PublishDevice, PublishEffect
        <3> DEFINE row == [step |-> "sent", live |-> TRUE, spk |-> spk, otps |-> mem[e].otps]
        <3>2. publishing' = [publishing EXCEPT ![e] = row] /\ directory' = directory
            BY <3>1 DEF PublishEffect
        <3>3. \A k \in mem[e].otps : 1 <= k /\ k <= Made[e]
            BY DEF MailInv, KeepsOk
        <3>4. \A k \in row.otps : 1 <= k /\ k <= directory[e].made
            BY <3>3 DEF Made
        <3> HIDE DEF row
        <3> QED BY <1>5, <3>2, <3>4
    <2>2. CASE Restart(e)
        <3> DEFINE row == IF publishing[e] # None /\ publishing[e].step = "sent"
                          THEN [publishing[e] EXCEPT !.live = FALSE] ELSE None
        <3>1. publishing' = [publishing EXCEPT ![e] = row] /\ directory' = directory
            BY <2>2 DEF Restart
        <3>2. row # None => publishing[e] # None /\ row.otps = publishing[e].otps
            BY <1>0 DEF Publication
        <3> HIDE DEF row
        <3>3. row # None => \A k \in row.otps : 1 <= k /\ k <= directory[e].made
            BY <1>2, <3>2 DEF KeysOk
        <3> QED BY <1>5, <3>1, <3>3
    <2>3. CASE StoreDevice(e)
        <3>1. PICK d \in KeysRow :
                  /\ directory' = [directory EXCEPT ![e] = d]
                  /\ d.made = directory[e].made
                  /\ IF directory[e].revoked THEN d = directory[e]
                     ELSE d.otps = directory[e].otps \cup publishing[e].otps
            BY <2>3, Stores
        <3>2. PICK now \in Publication \cup {None} :
                  publishing' = [publishing EXCEPT ![e] = now] /\ (now # None => now.otps = publishing[e].otps)
            BY <2>3, Stores
        <3>3. publishing[e] # None
            BY <2>3 DEF StoreDevice
        <3>4. publishing'[e] = now /\ \A p \in Ends : p # e => publishing'[p] = publishing[p]
            BY <1>0, <3>2
        <3>5. d.otps \subseteq directory[e].otps \cup publishing[e].otps
            BY <3>1
        <3>6. KeysOk(e, d, publishing'[e])
            BY <1>2, <3>1, <3>2, <3>3, <3>4, <3>5 DEF KeysOk
        <3> QED BY <1>4, <3>1, <3>4, <3>6
    <2>4. CASE TopUp(e)
        <3>1. TopUpEffect(e)
            BY <2>4, TopsUp
        <3>2. PICK d \in KeysRow :
                  /\ directory' = [directory EXCEPT ![e] = d]
                  /\ d.otps = IF directory[e].revoked THEN directory[e].otps ELSE directory[e].otps \cup Fresh(e)
                  /\ d.made = directory[e].made + Cardinality(Fresh(e))
            BY <3>1 DEF TopUpEffect
        <3>3. /\ Fresh(e) \in SUBSET {directory[e].made + 1}
              /\ Cardinality(Fresh(e)) = IF Fresh(e) = {} THEN 0 ELSE 1
            BY FreshKeys
        <3>4. publishing'[e] = None /\ \A p \in Ends : p # e => publishing'[p] = publishing[p]
            BY <1>0, <3>1 DEF TopUpEffect
        <3>5. \A k \in d.otps : 1 <= k /\ k <= d.made
            BY <1>2, <1>m, <3>2, <3>3 DEF KeysOk
        <3>6. KeysOk(e, d, publishing'[e])
            BY <3>4, <3>5 DEF KeysOk
        <3> QED BY <1>4, <3>2, <3>4, <3>6
    <2>5. CASE RevokeDevice(e)
        <3> DEFINE d == [directory[e] EXCEPT !.revoked = TRUE, !.otps = {}]
        <3>1. directory' = [directory EXCEPT ![e] = d] /\ publishing' = publishing
            BY <1>0, <2>5 DEF RevokeDevice
        <3>2. d.made = directory[e].made /\ d.otps = {}
            BY <1>0 DEF KeysRow
        <3> HIDE DEF d
        <3>3. KeysOk(e, d, publishing'[e])
            BY <1>2, <3>1, <3>2 DEF KeysOk
        <3> QED BY <1>4, <3>1, <3>3
    <2>6. ASSUME Release(e) \/ DeleteConversation(e) \/ SetBlocked(e)
          PROVE  directory' = directory /\ publishing' = publishing
        BY <2>6 DEF Release, DeleteConversation, SetBlocked
    <2> QED BY <1>3, <1>7, <2>1, <2>2, <2>3, <2>4, <2>5, <2>6 DEF BrowserStep
<1>8. ASSUME NEW e \in Ends, NEW i \in 1..mix.polls, PollStep(e, i) PROVE Goal
    <2>1. ASSUME ProcessEnvelope(e, i) PROVE directory' = directory /\ publishing' = publishing
        BY <1>1, <2>1, ProcessEffect
    <2>2. ASSUME FetchEnvelopes(e, i) \/ PersistInbox(e, i) \/ Acknowledge(e, i)
          PROVE  directory' = directory /\ publishing' = publishing
        BY <2>2 DEF FetchEnvelopes, PersistInbox, Acknowledge
    <2> QED BY <1>3, <1>8, <2>1, <2>2 DEF PollStep
<1>9. ASSUME UNCHANGED vars PROVE Goal
    BY <1>3, <1>9 DEF vars
<1>10. Goal
    <2> HIDE DEF Goal
    <2>1. CASE Next
        BY <1>6, <1>7, <1>8, <2>1, MailSteps
    <2> QED BY <1>9, <2>1
<1> QED BY <1>10 DEF KeysMade, KeysOk

LEMMA MailInitInv == Init => MailInv
<1> SUFFICES ASSUME Init PROVE MailInv
    OBVIOUS
<1>0. MailType
    BY MailInitType
<1>1. /\ \A m \in Messages : letters[m] = None /\ sends[m] = Unwritten
      /\ \A e \in Ends : mem[e] = NewDevice /\ vault[e] = NewDevice /\ Made[e] = 1
      /\ \A e \in Ends : directory[e] = [spk |-> 1, otps |-> {1}, made |-> 1, revoked |-> FALSE]
      /\ \A e \in Ends : inbox[e] = <<>> /\ publishing[e] = None
      /\ \A e \in Ends : \A i \in 1..mix.polls : polls[e][i] = Idle
    BY DEF Init, Made
<1>2. MailLetters
    BY <1>1 DEF MailLetters, Unwritten
<1>3. MailOnItsWay
    BY <1>1 DEF MailOnItsWay, Idle
<1>4. KeysMade
    BY <1>1 DEF KeysMade
<1>5. \A e \in Ends : KeepsOk(e, NewDevice, letters, Done, Made, Calm)
    <2> TAKE e \in Ends
    <2>1. NewDevice.session = None /\ NewDevice.otps = {1} /\ NewDevice.history = [m \in Messages |-> 0]
        BY DEF NewDevice
    <2>2. \A k \in NewDevice.otps : 1 <= k /\ k <= Made[e]
        BY <1>1, <2>1
    <2>3. \A m \in Messages : ~(NewDevice.history[m] > 0)
        BY <2>1
    <2> HIDE DEF NewDevice
    <2> QED BY <2>1, <2>2, <2>3 DEF KeepsOk
<1> QED BY <1>1, <1>2, <1>3, <1>4, <1>5 DEF MailInv

MailTyped == MailType /\ MailInv

LEMMA MailInvStep == MailTyped /\ [Next]_vars => MailTyped'
<1> SUFFICES ASSUME MailTyped, [Next]_vars PROVE MailTyped'
    OBVIOUS
<1>1. MailType /\ MailInv
    BY DEF MailTyped
<1>2. MailType'
    BY <1>1, MailTypeStep DEF MailInv
<1>3. MailLetters' /\ MailOnItsWay' /\ KeysMade'
    BY <1>1, <1>2, LettersStep, OnItsWayStep, KeysStep
<1>4. \A e \in Ends : /\ KeepsOk(e, mem'[e], letters', Done', Made', Calm')
                      /\ KeepsOk(e, vault'[e], letters', Done', Made', Calm')
    BY <1>1, <1>2, KeepsStep
<1>5. MailInv'
    BY <1>3, <1>4 DEF MailInv
<1> QED BY <1>2, <1>5 DEF MailTyped

\* Letters, inboxes, polls and what a browser keeps stay in order, whatever
\* restarts, repeats, deletions and lost calls come between.
THEOREM MailInOrder == Spec => []MailTyped
<1>1. Init => MailTyped
    BY MailInitType, MailInitInv DEF MailTyped
<1> QED BY <1>1, MailInvStep, PTL DEF Spec

-----------------------------------------------------------------------------
(* Mail: the sessions a vault ever held *)

LEMMA AcceptedNamed ==
    ASSUME MailTyped, [Next]_vars
    PROVE  \A s \in Sessions : Named(s, letters, Made) => Named(s, letters', Made')
<1>1. MailType /\ MailInv /\ MailType' /\ MailInv'
    BY MailInvStep DEF MailTyped
<1>2. /\ letters \in [Messages -> LetterRow \cup {None}] /\ letters' \in [Messages -> LetterRow \cup {None}]
      /\ Made \in [Ends -> Nat] /\ Made' \in [Ends -> Nat]
    BY <1>1 DEF MailType, Made, KeysRow
<1>3. /\ \A m \in Messages : letters[m] # None => letters'[m] = letters[m]
      /\ \A e \in Ends : Made[e] <= Made'[e]
    BY <1>1, StepGrows DEF Grows, MailInv
<1> QED BY <1>2, <1>3, NamedGrows

\* A session taken up now: the one-time prekey it needs is still held.
Takes(e, t) == t \in Sessions /\ t.by # e /\ (t.otp # 0 => t.otp \in mem[e].otps)

LEMMA AcceptedFrame ==
    ASSUME MailTyped, AcceptedOk, [Next]_vars, accepted' = accepted, vault' = vault,
           \A e \in Ends : /\ mem'[e].otps \subseteq mem[e].otps
                           /\ \/ mem'[e].session = mem[e].session
                              \/ mem'[e].session = None
                              \/ mem'[e].session.by = e
                              \/ Takes(e, mem'[e].session)
    PROVE  AcceptedOk'
<1>0. accepted \in SUBSET Sessions
    BY DEF MailTyped, MailType
<1>1. \A s \in accepted : Named(s, letters', Made')
    BY <1>0, AcceptedNamed DEF AcceptedOk
<1>2. \A s \in accepted, e \in Ends : Held(s, e, mem'[e]) /\ Held(s, e, vault[e])
    BY DEF AcceptedOk, Held
<1>3. \A s \in accepted, e \in Ends :
          mem'[e].session # None /\ mem'[e].session.by # e /\ mem'[e].session.by = s.by
              /\ mem'[e].session.otp = s.otp /\ s.otp # 0 => mem'[e].session = s
    BY DEF AcceptedOk, Held, Takes
<1> QED BY <1>1, <1>2, <1>3 DEF AcceptedOk

LEMMA AcceptedSaved ==
    ASSUME MailTyped, AcceptedOk, [Next]_vars, NEW e \in Ends, NEW kept, Saves(e, kept),
           kept.session = mem[e].session \/ kept.session = None,
           \A k \in kept.otps : k \in Nat /\ (k \in mem[e].otps \/ k > Made[e])
    PROVE  AcceptedOk'
<1> DEFINE t == kept.session
           new == {s \in {t} \ {None} : s.by # e}
<1>0. /\ accepted \in SUBSET Sessions /\ mem \in [Ends -> BrowserRow] /\ vault \in [Ends -> BrowserRow]
      /\ Made \in [Ends -> Nat]
    BY DEF MailTyped, MailType, Made, KeysRow
<1>1. /\ mem'[e] = kept /\ vault'[e] = kept /\ accepted' = accepted \cup new
      /\ \A p \in Ends : p # e => mem'[p] = mem[p] /\ vault'[p] = vault[p]
    BY <1>0 DEF Saves
<1>2. KeepsOk(e, mem[e], letters, Done, Made, Calm) /\ mem[e] \in BrowserRow
    BY <1>0 DEF MailTyped, MailInv
<1>3. \A s \in new : /\ s = mem[e].session /\ s \in Sessions /\ s.by # e /\ s # None
                     /\ Named(s, letters, Made) /\ Held(s, e, mem[e])
    BY <1>2 DEF KeepsOk, Held, BrowserRow
<1>a. accepted' \in SUBSET Sessions
    BY <1>0, <1>1, <1>3
<1>4. \A s \in accepted' : Named(s, letters, Made)
    BY <1>1, <1>3 DEF AcceptedOk
<1>5. \A s \in accepted' : Named(s, letters', Made')
    BY <1>4, <1>a, AcceptedNamed
<1>6. \A s \in accepted', p \in Ends : s \in new => (s.by # p => p = e)
    <2> SUFFICES ASSUME NEW s \in new, NEW p \in Ends, s.by # p PROVE p = e
        OBVIOUS
    <2>1. s.by \in Ends /\ s.by # e
        BY <1>3 DEF Sessions
    <2> QED BY <2>1, PeerOther
<1>7. ASSUME NEW s \in accepted', NEW p \in Ends PROVE Held(s, p, mem'[p]) /\ Held(s, p, vault'[p])
    <2>1. CASE p # e
        <3>1. s \notin new \/ s.by = p
            BY <1>6, <2>1
        <3>2. mem'[p] = mem[p] /\ vault'[p] = vault[p]
            BY <1>1, <2>1
        <3>3. s \notin new => Held(s, p, mem[p]) /\ Held(s, p, vault[p])
            BY <1>1 DEF AcceptedOk
        <3>4. s.by = p => Held(s, p, mem[p]) /\ Held(s, p, vault[p])
            BY DEF Held
        <3> HIDE DEF new
        <3> QED BY <3>1, <3>2, <3>3, <3>4
    <2>2. CASE p = e
        <3>1. Held(s, e, mem[e])
            BY <1>1, <1>3 DEF AcceptedOk
        <3>2. ASSUME s.by # e PROVE s.otp \in Nat /\ s.otp <= Made[e]
            <4>1. s \in Sessions /\ Named(s, letters, Made)
                BY <1>4, <1>a
            <4>2. s.by \in Ends /\ s.otp \in Nat
                BY <4>1 DEF Sessions
            <4>3. Peer(s.by) = e
                BY <3>2, <4>2, PeerOther
            <4> QED BY <4>1, <4>2, <4>3 DEF Named
        <3>3. Made[e] \in Nat
            BY <1>0
        <3>4. ASSUME s.by # e, s.otp # 0 PROVE s.otp \notin kept.otps
            <4>1. s.otp \notin mem[e].otps
                BY <3>1, <3>4 DEF Held
            <4>2. ~(s.otp > Made[e])
                BY <3>2, <3>3, <3>4
            <4> QED BY <4>1, <4>2
        <3>5. Held(s, e, kept)
            BY <3>4 DEF Held
        <3> QED BY <1>1, <2>2, <3>5
    <2> QED BY <2>1, <2>2
<1>8. \A p \in Ends : vault'[p].session # None /\ vault'[p].session.by # p => vault'[p].session \in accepted'
    <2> SUFFICES ASSUME NEW p \in Ends, vault'[p].session # None, vault'[p].session.by # p
                 PROVE  vault'[p].session \in accepted'
        OBVIOUS
    <2>1. CASE p = e
        BY <1>1, <2>1
    <2>2. CASE p # e
        BY <1>1, <2>2 DEF AcceptedOk
    <2> QED BY <2>1, <2>2
<1>9. \A s \in accepted : mem[e].session # None /\ mem[e].session.by # e /\ mem[e].session.by = s.by
                             /\ mem[e].session.otp = s.otp /\ s.otp # 0 => mem[e].session = s
    BY DEF AcceptedOk
<1>10. ASSUME NEW s \in accepted', NEW p \in Ends,
              mem'[p].session # None, mem'[p].session.by # p, mem'[p].session.by = s.by,
              mem'[p].session.otp = s.otp, s.otp # 0
       PROVE  mem'[p].session = s
    <2>1. CASE p = e
        <3>1. mem'[p].session = mem[e].session
            BY <1>1, <1>10, <2>1
        <3>2. CASE s \in accepted
            BY <1>9, <1>10, <2>1, <3>1, <3>2
        <3>3. CASE s \in new
            BY <1>3, <3>1, <3>3
        <3> QED BY <1>1, <3>2, <3>3
    <2>2. CASE p # e
        <3>1. mem'[p] = mem[p]
            BY <1>1, <2>2
        <3>2. s \notin new
            BY <1>6, <1>10, <2>2
        <3> QED BY <1>1, <1>10, <3>1, <3>2 DEF AcceptedOk
    <2> QED BY <2>1, <2>2
<1>11. \A s, u \in accepted' : s.by = u.by /\ s.otp = u.otp /\ s.otp # 0 => s = u
    <2> SUFFICES ASSUME NEW s \in accepted', NEW u \in accepted', s.by = u.by, s.otp = u.otp, s.otp # 0
                 PROVE  s = u
        OBVIOUS
    <2>1. CASE s \in accepted /\ u \in accepted
        BY <2>1 DEF AcceptedOk
    <2>2. CASE s \in new /\ u \in accepted
        BY <1>3, <1>9, <2>2
    <2>3. CASE s \in accepted /\ u \in new
        BY <1>3, <1>9, <2>3
    <2>4. CASE s \in new /\ u \in new
        BY <1>3, <2>4
    <2> QED BY <1>1, <2>1, <2>2, <2>3, <2>4
<1> QED BY <1>5, <1>7, <1>8, <1>10, <1>11 DEF AcceptedOk

LEMMA AcceptedStep ==
    ASSUME MailTyped, AcceptedOk, [Next]_vars
    PROVE  AcceptedOk'
<1>0. /\ MailType /\ MailInv /\ MailLetters /\ MailOnItsWay
      /\ mem \in [Ends -> BrowserRow] /\ vault \in [Ends -> BrowserRow] /\ Made \in [Ends -> Nat]
    BY DEF MailTyped, MailInv, MailType, Made, KeysRow
<1>1. ASSUME mem' = mem, vault' = vault, accepted' = accepted PROVE AcceptedOk'
    BY <1>1, AcceptedFrame
<1>2. ASSUME NEW e \in Ends, NEW kept, mem' = [mem EXCEPT ![e] = kept], vault' = vault, accepted' = accepted,
             kept.otps \subseteq mem[e].otps,
             \/ kept.session = mem[e].session \/ kept.session.by = e \/ Takes(e, kept.session)
      PROVE  AcceptedOk'
    <2>1. \A p \in Ends : mem'[p] = IF p = e THEN kept ELSE mem[p]
        BY <1>0, <1>2
    <2> QED BY <1>2, <2>1, AcceptedFrame
<1>3. \A e \in Ends : mem[e] \in BrowserRow /\ mem[e].otps \in SUBSET Nat
    BY <1>0 DEF BrowserRow
<1>4. ASSUME NEW e \in Ends, NEW kept, Saves(e, kept), kept.otps = mem[e].otps,
             kept.session = mem[e].session \/ kept.session = None
      PROVE  AcceptedOk'
    BY <1>3, <1>4, AcceptedSaved
<1>5. ASSUME NEW m \in Messages, SendStep(m) PROVE AcceptedOk'
    <2>1. CASE Encrypt(m)
        <3>1. PICK e \in Ends, session \in Sessions, letter \in LetterRow, row \in LetterStep :
                  EncryptEffect(m, e, session, letter, row)
            BY <1>0, <2>1, Encrypts
        <3> DEFINE now == Writing(mem[e], session, mem[e].next + 1)
        <3>2. /\ mem' = [mem EXCEPT ![e] = now] /\ vault' = vault /\ accepted' = accepted
              /\ e = sends[m].by /\ session = SessionOf(m)
            BY <3>1 DEF EncryptEffect
        <3>3. mem[e] \in BrowserRow /\ mem[e].next + 1 \in Nat
            BY <1>0 DEF BrowserRow
        <3>4. now.session = session /\ now.otps = mem[e].otps
            BY <3>3, WritingParts
        <3>5. session = mem[e].session \/ session.by = e
            BY <3>2 DEF SessionOf, StartsSession, Initiated
        <3> HIDE DEF now
        <3> QED BY <1>2, <3>2, <3>4, <3>5
    <2>2. CASE SaveSent(m)
        <3> DEFINE e == sends[m].by
                   now == Shown(mem[e], m)
        <3>1. Saves(e, now) \/ UNCHANGED <<mem, vault, accepted>>
            BY <2>2 DEF SaveSent, browser
        <3>2. e \in Ends
            BY <1>0, <2>2 DEF SaveSent, MailLetters
        <3>3. now.session = mem[e].session /\ now.otps = mem[e].otps
            BY <1>3, <3>2 DEF Shown, BrowserRow
        <3> HIDE DEF now, e
        <3> QED BY <1>1, <1>4, <3>1, <3>2, <3>3
    <2>3. ASSUME (\E e \in Ends : AskBundle(e, m)) \/ PostFails(m) \/ LookUpDevices(m)
                 \/ \E held \in BOOLEAN : StoreEnvelope(m, held)
          PROVE  UNCHANGED <<mem, vault, accepted>>
        BY <2>3 DEF AskBundle, PostFails, LookUpDevices, StoreEnvelope
    <2> QED BY <1>1, <1>5, <2>1, <2>2, <2>3 DEF SendStep
<1>6. ASSUME NEW e \in Ends, BrowserStep(e) PROVE AcceptedOk'
    <2>0. mem[e] \in BrowserRow
        BY <1>0
    <2>1. ASSUME NEW stale \in BOOLEAN, PublishDevice(e, stale) PROVE AcceptedOk'
        <3>1. PICK spk : PublishEffect(e, spk)
            BY <2>1 DEF PublishDevice, PublishEffect
        <3> DEFINE now == [mem[e] EXCEPT !.spk = spk]
        <3>2. mem' = [mem EXCEPT ![e] = now] /\ vault' = vault /\ accepted' = accepted
            BY <3>1 DEF PublishEffect
        <3>3. now.session = mem[e].session /\ now.otps = mem[e].otps
            BY <2>0 DEF BrowserRow
        <3> HIDE DEF now
        <3> QED BY <1>2, <3>2, <3>3
    <2>2. CASE Restart(e)
        <3>1. mem' = [mem EXCEPT ![e] = vault[e]] /\ vault' = vault /\ accepted' = accepted
            BY <2>2 DEF Restart
        <3>2. \A p \in Ends : mem'[p] = IF p = e THEN vault[e] ELSE mem[p]
            BY <1>0, <3>1
        <3>3. \A s \in accepted : Named(s, letters', Made')
            <4>1. accepted \in SUBSET Sessions
                BY <1>0 DEF MailType
            <4> QED BY <4>1, AcceptedNamed DEF AcceptedOk
        <3>4. \A s \in accepted, p \in Ends : Held(s, p, mem'[p]) /\ Held(s, p, vault[p])
            BY <3>2 DEF AcceptedOk
        <3>5. \A s \in accepted, p \in Ends :
                  mem'[p].session # None /\ mem'[p].session.by # p /\ mem'[p].session.by = s.by
                      /\ mem'[p].session.otp = s.otp /\ s.otp # 0 => mem'[p].session = s
            BY <3>2 DEF AcceptedOk
        <3> QED BY <3>1, <3>3, <3>4, <3>5 DEF AcceptedOk
    <2>3. CASE TopUp(e)
        <3> DEFINE now == [mem[e] EXCEPT !.otps = mem[e].otps \cup Fresh(e)]
        <3>1. Saves(e, now)
            BY <1>0, <2>3, TopsUp DEF TopUpEffect
        <3>2. now.session = mem[e].session /\ now.otps = mem[e].otps \cup Fresh(e)
            BY <2>0 DEF BrowserRow
        <3>3. \A k \in Fresh(e) : k \in Nat /\ k > Made[e]
            BY <1>0, FreshKeys DEF Made
        <3> HIDE DEF now
        <3>4. \A k \in now.otps : k \in Nat /\ (k \in mem[e].otps \/ k > Made[e])
            BY <1>3, <3>2, <3>3
        <3> QED BY <3>1, <3>2, <3>4, AcceptedSaved
    <2>4. CASE DeleteConversation(e)
        <3>1. PICK known \in BOOLEAN : Saves(e, Forgetting(mem[e], known))
            BY <2>4 DEF DeleteConversation, Forgetting
        <3>2. LET now == Forgetting(mem[e], known) IN now.session = None /\ now.otps = mem[e].otps
            BY <2>0, ForgettingParts
        <3> QED BY <1>4, <3>1, <3>2
    <2>5. CASE SetBlocked(e)
        <3> DEFINE now == [mem[e] EXCEPT !.blocked = ~mem[e].blocked]
        <3>1. Saves(e, now)
            BY <2>5 DEF SetBlocked
        <3>2. now.session = mem[e].session /\ now.otps = mem[e].otps
            BY <2>0 DEF BrowserRow
        <3> HIDE DEF now
        <3> QED BY <1>4, <3>1, <3>2
    <2>6. ASSUME Release(e) \/ StoreDevice(e) \/ RevokeDevice(e)
          PROVE  UNCHANGED <<mem, vault, accepted>>
        BY <2>6 DEF Release, StoreDevice, RevokeDevice, browser
    <2> QED BY <1>1, <1>6, <2>1, <2>2, <2>3, <2>4, <2>5, <2>6 DEF BrowserStep
<1>7. ASSUME NEW e \in Ends, NEW i \in 1..mix.polls, PollStep(e, i) PROVE AcceptedOk'
    <2>1. CASE ProcessEnvelope(e, i)
        <3>1. PICK m \in Messages :
                  /\ letters[m] \in LetterRow /\ letters[m].to = e
                  /\ Leaves(e, i, m) \/ Strange(e, i, m) \/ \E agree \in BOOLEAN : Reads(e, i, m, agree)
            BY <1>0, <2>1, ProcessEffect
        <3>2. vault' = vault /\ accepted' = accepted
            BY <1>0, <2>1, ProcessEffect
        <3>3. CASE Leaves(e, i, m) \/ Strange(e, i, m)
            BY <1>1, <3>2, <3>3 DEF Leaves, Strange
        <3>4. ASSUME NEW agree \in BOOLEAN, Reads(e, i, m, agree) PROVE AcceptedOk'
            <4> DEFINE asks == letters[m].opening /\ ~mem[e].known
                       now == Handled(mem[e], m, asks, agree)
            <4>1. mem' = [mem EXCEPT ![e] = now]
                BY <3>4 DEF Reads
            <4>2. asks \in BOOLEAN /\ mem[e] \in BrowserRow
                BY <1>0
            <4> HIDE DEF asks
            <4>3. Took(mem[e], letters[m], m, agree, now)
                BY <3>1, <4>2, HandledParts
            <4> HIDE DEF now
            <4>4. now.otps \subseteq mem[e].otps
                BY <4>3 DEF Took
            <4>5. letters[m].session \in Sessions /\ (letters[m].opening => letters[m].session.by # e)
                BY <1>0, <3>1, NoneAssumption DEF MailLetters, LetterRow, Sessions
            <4>6. now.session = mem[e].session \/ Takes(e, now.session)
                BY <4>3, <4>5 DEF Took, Takes, Accepts, SecretsMatch
            <4> QED BY <1>2, <3>2, <4>1, <4>4, <4>6
        <3> QED BY <3>1, <3>3, <3>4
    <2>2. CASE PersistInbox(e, i)
        <3>1. Saves(e, mem[e])
            BY <2>2 DEF PersistInbox
        <3> QED BY <1>4, <3>1
    <2>3. ASSUME FetchEnvelopes(e, i) \/ Acknowledge(e, i) PROVE UNCHANGED <<mem, vault, accepted>>
        BY <2>3 DEF FetchEnvelopes, Acknowledge
    <2> QED BY <1>1, <1>7, <2>1, <2>2, <2>3 DEF PollStep
<1>8. ASSUME UNCHANGED vars PROVE AcceptedOk'
    BY <1>1, <1>8 DEF vars
<1> QED
    <2>1. CASE Next
        BY <1>0, <1>5, <1>6, <1>7, <2>1, MailSteps
    <2> QED BY <1>8, <2>1

-----------------------------------------------------------------------------
(* Mail: revoked devices, and the rules together *)

\* A message past the lookup of the devices, not yet stored.
Checked(m) == sends[m].step = "checked"
\* Nothing but the lookup of the devices lets a message past it, and nothing
\* but revokeDevice revokes one.
LEMMA ChecksKept ==
    ASSUME MailTyped, [Next]_vars, ~\E e \in Ends : RevokeDevice(e)
    PROVE  /\ late' = late /\ \A e \in Ends : directory'[e].revoked = directory[e].revoked
           /\ \A m \in Messages : Checked(m)' =>
                 /\ letters'[m] = letters[m]
                 /\ Checked(m) \/ ~directory[letters[m].to].revoked
<1> DEFINE Kept == late' = late /\ \A e \in Ends : directory'[e].revoked = directory[e].revoked
           Checks == \A m \in Messages : sends'[m].step = "checked" => sends[m].step = "checked" \/ ~directory[letters[m].to].revoked
           Goal == Kept /\ Checks
<1>0. /\ MailType /\ MailInv /\ MailLetters /\ MailOnItsWay
      /\ directory \in [Ends -> KeysRow] /\ sends \in [Messages -> LetterStep]
    BY DEF MailTyped, MailInv, MailType
<1>1. ASSUME late' = late, directory' = directory PROVE Kept
    BY <1>1
<1>2. ASSUME sends' = sends PROVE Checks
    BY <1>2
<1>3. ASSUME NEW m \in Messages, NEW row \in LetterStep, NEW step, MovesTo(m, step, row),
             step = "checked" => ~directory[letters[m].to].revoked
      PROVE  Checks
    BY <1>0, <1>3 DEF MovesTo
<1>4. ASSUME NEW e \in Ends, NEW d, late' = late, directory' = [directory EXCEPT ![e] = d],
             d.revoked = directory[e].revoked
      PROVE  Kept
    BY <1>0, <1>4
<1> HIDE DEF Kept
<1>5. ASSUME NEW m \in Messages, SendStep(m) PROVE Goal
    <2>1. ASSUME NEW e \in Ends, AskBundle(e, m) PROVE Goal
        <3>1. PICK row \in LetterStep : AskEffect(e, m, row)
            BY <1>0, <2>1, Asks
        <3> DEFINE p == Peer(e)
                   d == [directory[p] EXCEPT !.otps = directory[p].otps \ {row.otp}]
        <3>2. p \in Ends /\ directory' = [directory EXCEPT ![p] = d] /\ late' = late
              /\ sends' = [sends EXCEPT ![m] = row] /\ row.step = "bundle"
            BY <3>1, PeerOther DEF AskEffect
        <3>3. d.revoked = directory[p].revoked
            BY <1>0, <3>2 DEF KeysRow
        <3> HIDE DEF d, p
        <3>4. Kept
            BY <1>4, <3>2, <3>3
        <3>5. Checks
            BY <1>0, <3>2
        <3> QED BY <3>4, <3>5
    <2>2. CASE Encrypt(m)
        <3>1. PICK e \in Ends, session \in Sessions, letter \in LetterRow, row \in LetterStep :
                  EncryptEffect(m, e, session, letter, row)
            BY <1>0, <2>2, Encrypts
        <3>2. late' = late /\ directory' = directory /\ sends' = [sends EXCEPT ![m] = row] /\ row.step = "posted"
            BY <3>1 DEF EncryptEffect
        <3>3. Checks
            BY <1>0, <3>2
        <3> QED BY <1>1, <3>2, <3>3
    <2>3. CASE PostFails(m) \/ LookUpDevices(m) \/ SaveSent(m) \/ \E held \in BOOLEAN : StoreEnvelope(m, held)
        <3>1. late' = late /\ directory' = directory
            BY <2>3 DEF PostFails, LookUpDevices, SaveSent, StoreEnvelope
        <3>2. PICK row \in LetterStep, step \in {"failed", "done", "stored",
                         IF directory[letters[m].to].revoked THEN "failed" ELSE "checked"} : MovesTo(m, step, row)
            BY <1>0, <2>3, Moves
        <3>3. Checks
            BY <1>3, <3>2
        <3> QED BY <1>1, <3>1, <3>3
    <2> QED BY <1>5, <2>1, <2>2, <2>3 DEF SendStep
<1>6. ASSUME NEW e \in Ends, BrowserStep(e) PROVE Goal
    <2>1. CASE Restart(e)
        <3>1. late' = late /\ directory' = directory
            BY <2>1 DEF Restart
        <3>2. Checks
            BY <1>0, <2>1, Restarts
        <3> QED BY <1>1, <3>1, <3>2
    <2>2. CASE StoreDevice(e)
        <3>1. late' = late /\ sends' = sends
            BY <1>0, <2>2, Stores
        <3>2. \E d \in KeysRow : directory' = [directory EXCEPT ![e] = d] /\ d.revoked = directory[e].revoked
            BY <1>0, <2>2, Stores
        <3> QED BY <1>2, <1>4, <3>1, <3>2
    <2>3. CASE TopUp(e)
        <3>1. TopUpEffect(e)
            BY <1>0, <2>3, TopsUp
        <3>2. late' = late /\ sends' = sends
            BY <3>1 DEF TopUpEffect
        <3>3. \E d \in KeysRow : directory' = [directory EXCEPT ![e] = d] /\ d.revoked = directory[e].revoked
            BY <3>1 DEF TopUpEffect
        <3> QED BY <1>2, <1>4, <3>2, <3>3
    <2>4. ASSUME (\E stale \in BOOLEAN : PublishDevice(e, stale)) \/ Release(e) \/ DeleteConversation(e) \/ SetBlocked(e)
          PROVE  late' = late /\ sends' = sends /\ directory' = directory
        BY <2>4 DEF PublishDevice, Release, DeleteConversation, SetBlocked
    <2> QED BY <1>1, <1>2, <1>6, <2>1, <2>2, <2>3, <2>4 DEF BrowserStep
<1>7. ASSUME NEW e \in Ends, NEW i \in 1..mix.polls, PollStep(e, i) PROVE Goal
    <2>1. ASSUME ProcessEnvelope(e, i) PROVE late' = late /\ sends' = sends /\ directory' = directory
        BY <1>0, <2>1, ProcessEffect
    <2>2. ASSUME FetchEnvelopes(e, i) \/ PersistInbox(e, i) \/ Acknowledge(e, i)
          PROVE  late' = late /\ sends' = sends /\ directory' = directory
        BY <2>2 DEF FetchEnvelopes, PersistInbox, Acknowledge
    <2> QED BY <1>1, <1>2, <1>7, <2>1, <2>2 DEF PollStep
<1>8. ASSUME UNCHANGED vars PROVE Goal
    BY <1>1, <1>2, <1>8 DEF vars
<1>9. Goal
    <2> HIDE DEF Goal
    <2>1. CASE Next
        BY <1>5, <1>6, <1>7, <2>1, MailSteps
    <2> QED BY <1>8, <2>1
<1>10. ASSUME NEW m \in Messages, sends'[m].step = "checked" PROVE letters'[m] = letters[m]
    <2>1. CASE letters[m] # None
        BY <1>0, <2>1, StepGrows DEF Grows
    <2>2. CASE letters[m] = None
        <3>1. sends[m].step \notin {"posted", "checked", "stored"}
            BY <1>0, <2>2 DEF MailLetters
        <3>2. \A n \in Messages, row \in LetterStep : sends' = [sends EXCEPT ![n] = row] /\ row.step # "checked" => FALSE
            BY <1>0, <1>10, <3>1
        <3>3. sends' # sends
            BY <1>10, <3>1
        <3>4. ASSUME NEW n \in Messages, SendStep(n) PROVE letters'[m] = letters[m]
            <4>1. ASSUME Encrypt(n) PROVE FALSE
                <5>1. PICK e \in Ends, session \in Sessions, letter \in LetterRow, row \in LetterStep :
                          EncryptEffect(n, e, session, letter, row)
                    BY <1>0, <4>1, Encrypts
                <5> QED BY <3>2, <5>1 DEF EncryptEffect
            <4>2. ASSUME (\E e \in Ends : AskBundle(e, n)) \/ PostFails(n) \/ LookUpDevices(n) \/ SaveSent(n)
                         \/ \E held \in BOOLEAN : StoreEnvelope(n, held)
                  PROVE  letters' = letters
                BY <4>2 DEF AskBundle, PostFails, LookUpDevices, SaveSent, StoreEnvelope
            <4> QED BY <3>4, <4>1, <4>2 DEF SendStep
        <3>5. ASSUME NEW e \in Ends, BrowserStep(e) PROVE letters' = letters
            <4>1. ASSUME StoreDevice(e) PROVE letters' = letters
                BY <1>0, <4>1, Stores
            <4>2. ASSUME (\E stale \in BOOLEAN : PublishDevice(e, stale)) \/ Release(e) \/ DeleteConversation(e)
                         \/ SetBlocked(e) \/ RevokeDevice(e) \/ Restart(e) \/ TopUp(e)
                  PROVE  letters' = letters
                BY <4>2 DEF PublishDevice, Release, DeleteConversation, SetBlocked, RevokeDevice, Restart, TopUp
            <4> QED BY <3>5, <4>1, <4>2 DEF BrowserStep
        <3>6. ASSUME NEW e \in Ends, NEW i \in 1..mix.polls, PollStep(e, i) PROVE letters' = letters
            <4>1. ASSUME ProcessEnvelope(e, i) PROVE letters' = letters
                BY <1>0, <4>1, ProcessEffect
            <4>2. ASSUME FetchEnvelopes(e, i) \/ PersistInbox(e, i) \/ Acknowledge(e, i) PROVE letters' = letters
                BY <4>2 DEF FetchEnvelopes, PersistInbox, Acknowledge
            <4> QED BY <3>6, <4>1, <4>2 DEF PollStep
        <3>7. UNCHANGED vars => letters' = letters
            BY DEF vars
        <3>8. CASE Next
            BY <1>0, <3>4, <3>5, <3>6, <3>8, MailSteps
        <3> QED BY <3>7, <3>8
    <2> QED BY <2>1, <2>2
<1> QED BY <1>9, <1>10 DEF Checked, Kept

LEMMA RevokedStep ==
    ASSUME MailTyped, RevokedOk, [Next]_vars
    PROVE  RevokedOk'
<1>0. /\ MailType /\ MailInv /\ MailLetters /\ MailOnItsWay
      /\ directory \in [Ends -> KeysRow] /\ late \in [Ends -> SUBSET Messages] /\ inbox \in [Ends -> Boxes]
    BY DEF MailTyped, MailInv, MailType
<1>1. CASE \E e \in Ends : RevokeDevice(e)
    <2>1. PICK e \in Ends : RevokeDevice(e)
        BY <1>1
    <2>2. /\ directory' = [directory EXCEPT ![e] = [directory[e] EXCEPT !.revoked = TRUE, !.otps = {}]]
          /\ inbox' = [inbox EXCEPT ![e] = <<>>] /\ letters' = letters /\ sends' = sends
          /\ late' = [late EXCEPT ![e] = {m \in Messages : sends[m].step = "checked" /\ sends[m].by # e}]
        BY <1>0, <2>1 DEF RevokeDevice, Dropped
    <2>3. Waiting(e)' = {}
        BY <1>0, <2>2 DEF Waiting
    <2>4. \A m \in Messages : sends[m].step = "checked" /\ letters[m].to = e => m \in late'[e]
        <3>1. \A m \in Messages : sends[m].step = "checked" /\ letters[m].to = e => sends[m].by # e
            BY <1>0, PeerOther DEF MailLetters
        <3> QED BY <1>0, <2>2, <3>1
    <2>5. ASSUME NEW p \in Ends, p # e
          PROVE  directory'[p] = directory[p] /\ inbox'[p] = inbox[p] /\ late'[p] = late[p] /\ Waiting(p)' = Waiting(p)
        BY <1>0, <2>2, <2>5 DEF Waiting
    <2>6. ASSUME NEW p \in Ends, directory'[p].revoked
          PROVE  /\ Waiting(p)' \subseteq late'[p]
                 /\ \A m \in Messages : sends'[m].step = "checked" /\ letters'[m].to = p => m \in late'[p]
        <3>1. CASE p = e
            BY <2>2, <2>3, <2>4, <3>1
        <3>2. CASE p # e
            BY <2>2, <2>5, <2>6, <3>2 DEF RevokedOk
        <3> QED BY <3>1, <3>2
    <2> QED BY <2>6 DEF RevokedOk
<1>2. CASE ~\E e \in Ends : RevokeDevice(e)
    <2>1. /\ late' = late /\ \A e \in Ends : directory'[e].revoked = directory[e].revoked
          /\ \A m \in Messages : sends'[m].step = "checked" =>
                 /\ letters'[m] = letters[m]
                 /\ sends[m].step = "checked" \/ ~directory[letters[m].to].revoked
        BY <1>2, ChecksKept DEF Checked
    <2>2. ASSUME NEW p \in Ends, directory[p].revoked PROVE Waiting(p)' \subseteq late[p]
        <3>0. Waiting(p) \subseteq late[p]
            BY <2>2 DEF RevokedOk
        <3>1. CASE inbox' = inbox
            BY <3>0, <3>1 DEF Waiting
        <3>2. ASSUME NEW e \in Ends, Shrinks(e) PROVE Waiting(p)' \subseteq late[p]
            BY <3>0, <3>2 DEF Shrinks, Waiting
        <3>3. ASSUME NEW m \in Messages, NEW held \in BOOLEAN, StoreEnvelope(m, held) PROVE Waiting(p)' \subseteq late[p]
            <4>1. PICK place \in Nat : PostEffect(m, held, place)
                BY <1>0, <3>3, StoresEnvelope
            <4>2. CASE p # letters[m].to
                BY <3>0, <4>1, <4>2 DEF PostEffect, Waiting
            <4>3. CASE p = letters[m].to
                <5>1. m \in late[p]
                    BY <2>2, <4>1, <4>3 DEF PostEffect, RevokedOk
                <5>2. /\ DOMAIN inbox'[p] = DOMAIN inbox[p] \cup {place}
                      /\ inbox'[p][place].m = m /\ \A i \in DOMAIN inbox[p] : inbox'[p][i] = inbox[p][i]
                    BY <4>1, <4>3 DEF PostEffect
                <5> QED BY <3>0, <5>1, <5>2 DEF Waiting
            <4> QED BY <4>2, <4>3
        <3> QED BY <1>0, <3>1, <3>2, <3>3, InboxSteps
    <2>3. ASSUME NEW p \in Ends, directory[p].revoked, NEW m \in Messages, sends'[m].step = "checked", letters'[m].to = p
          PROVE  m \in late[p]
        BY <2>1, <2>3 DEF RevokedOk
    <2> QED BY <2>1, <2>2, <2>3 DEF RevokedOk
<1> QED BY <1>1, <1>2

MailRules == MailTyped /\ AcceptedOk /\ RevokedOk

LEMMA RulesInit == Init => AcceptedOk /\ RevokedOk
<1> SUFFICES ASSUME Init PROVE AcceptedOk /\ RevokedOk
    OBVIOUS
<1>1. accepted = {} /\ \A e \in Ends : vault[e].session = None
    BY DEF Init, NewDevice
<1>2. \A e \in Ends : ~directory[e].revoked
    BY DEF Init
<1> QED BY <1>1, <1>2 DEF AcceptedOk, RevokedOk

\* And so do the sessions a vault ever held and the inboxes of revoked devices.
THEOREM MailRulesHold == Spec => []MailRules
<1>1. Init => MailRules
    BY MailInitType, MailInitInv, RulesInit DEF MailRules, MailTyped
<1>2. MailRules /\ [Next]_vars => MailRules'
    BY MailInvStep, AcceptedStep, RevokedStep DEF MailRules
<1> QED BY <1>1, <1>2, PTL DEF Spec

\* No vault holds two sessions opened with one one-time prekey, and nothing new
\* waits for a revoked device: for any number of messages, polls and faults.
THEOREM KeysStayOut == Spec => []RetiredKeysStayOut
<1>1. MailRules => RetiredKeysStayOut
    BY DEF MailRules, AcceptedOk, RevokedOk, RetiredKeysStayOut
<1> QED BY <1>1, MailRulesHold, PTL

-----------------------------------------------------------------------------
(* Mail: a quiet conversation *)

QuietState == MailTyped /\ Quiet /\ QuietParts

\* All letters of a quiet conversation are in one session, the one the two
\* browsers hold; what is shown is in it.
LEMMA OneSession ==
    ASSUME QuietState
    PROVE  /\ Calm
           /\ \A m, n \in Messages : letters[m] # None /\ letters[n] # None => letters[m].session = letters[n].session
           /\ \A e \in Ends, m \in Messages :
                  mem[e].session # None /\ letters[m] # None => letters[m].session = mem[e].session
           /\ \A m \in Messages : letters[m] # None =>
                  /\ letters[m].session # None /\ letters[m].session.first \in Messages
                  /\ letters[letters[m].session.first] # None
                  /\ letters[letters[m].session.first].opening
                  /\ letters[letters[m].session.first].session = letters[m].session
           /\ \A e \in Ends, m \in Messages : For(e, m) /\ mem[e].history[m] > 0 => mem[e].session # None
           /\ \A e \in Ends, m \in Messages : For(e, m) /\ vault[e].history[m] > 0 => vault[e].session # None
<1>1. /\ MailType /\ MailInv /\ MailLetters /\ OneOpening
      /\ letters \in [Messages -> LetterRow \cup {None}]
    BY DEF QuietState, QuietParts, MailTyped, MailInv, MailType
<1>2. Calm
    BY DEF QuietState, Quiet, Calm
<1>3. \A s \in Sessions : s # None
    BY NoneAssumption DEF Sessions
<1>4. \A m \in Messages : letters[m] # None =>
          letters[m].session \in Sessions /\ Named(letters[m].session, letters, Made)
    BY <1>1 DEF MailLetters, LetterRow
<1>5. \A e \in Ends : mem[e].session # None => mem[e].session \in Sessions /\ Named(mem[e].session, letters, Made)
    BY <1>1 DEF MailInv, KeepsOk, MailType, BrowserRow
<1>6. \A s, t \in Sessions : Named(s, letters, Made) /\ Named(t, letters, Made) => s = t
    BY <1>1 DEF Named, OneOpening, Sessions
<1>7. \A e \in Ends, m \in Messages : For(e, m) /\ mem[e].history[m] > 0 => mem[e].session = letters[m].session
    BY <1>1, <1>2 DEF MailInv, KeepsOk, For, ForIn
<1>8. \A e \in Ends, m \in Messages : For(e, m) /\ vault[e].history[m] > 0 => vault[e].session = letters[m].session
    BY <1>1, <1>2 DEF MailInv, KeepsOk, For, ForIn
<1>9. \A m \in Messages : letters[m] # None =>
          /\ letters[m].session # None /\ letters[m].session.first \in Messages
          /\ letters[letters[m].session.first] # None
          /\ letters[letters[m].session.first].opening
          /\ letters[letters[m].session.first].session = letters[m].session
    BY <1>3, <1>4 DEF Named, Sessions
<1>10. \A e \in Ends, m \in Messages : For(e, m) /\ mem[e].history[m] > 0 => mem[e].session # None
    BY <1>7, <1>9 DEF For, ForIn
<1>11. \A e \in Ends, m \in Messages : For(e, m) /\ vault[e].history[m] > 0 => vault[e].session # None
    BY <1>8, <1>9 DEF For, ForIn
<1> QED BY <1>2, <1>4, <1>5, <1>6, <1>9, <1>10, <1>11

\* A letter to somebody without a session has an opening envelope to the same.
LEMMA OpeningToo ==
    ASSUME QuietState, NEW e \in Ends, NEW m \in Messages, For(e, m), mem[e].session = None
    PROVE  \E f \in Messages : /\ For(e, f) /\ letters[f].opening
                               /\ f = letters[m].session.first /\ letters[f].session = letters[m].session
<1> DEFINE f == letters[m].session.first
<1>1. f \in Messages /\ letters[f] # None /\ letters[f].opening /\ letters[f].session = letters[m].session
    BY OneSession DEF For, ForIn
<1>2. letters[f].to \in Ends
    BY <1>1 DEF QuietState, MailTyped, MailType, LetterRow
<1>3. ASSUME letters[f].to # e PROVE FALSE
    <2>1. letters[f].to = Peer(e)
        BY <1>2, <1>3, PeerOther
    <2>2. For(Peer(e), f)
        BY <1>1, <2>1 DEF For, ForIn
    <2> QED BY <1>1, <2>2 DEF QuietState, QuietParts, SendersSession
<1>4. For(e, f)
    BY <1>1, <1>3 DEF For, ForIn
<1> QED BY <1>1, <1>4

\* Each part only depends on the variables it names.
LEMMA QuietFrames ==
    ASSUME QuietParts
    PROVE  /\ letters' = letters => OneOpening'
           /\ letters' = letters /\ mem' = mem => Positions'
           /\ letters' = letters /\ mem' = mem /\ vault' = vault => SendersSession' /\ ReadWasShown'
           /\ mem' = mem /\ vault' = vault => VaultBehind'
           /\ letters' = letters /\ mem' = mem /\ vault' = vault /\ directory' = directory
                  /\ publishing' = publishing /\ sends' = sends => NothingChanged' /\ Pools'
           /\ letters' = letters /\ sends' = sends /\ inbox' = inbox => OpeningFirst'
           /\ letters' = letters /\ vault' = vault /\ inbox' = inbox => InboxInOrder'
           /\ mix' = mix /\ letters' = letters /\ mem' = mem /\ polls' = polls => PollsInOrder'
           /\ mix' = mix /\ letters' = letters /\ mem' = mem /\ vault' = vault /\ polls' = polls
                  /\ sends' = sends /\ inbox' = inbox => NothingLost'
<1>1. letters' = letters => OneOpening'
    BY DEF QuietParts, OneOpening
<1>2. letters' = letters /\ mem' = mem => Positions'
    BY DEF QuietParts, Positions, For, ForIn
<1>3. letters' = letters /\ mem' = mem /\ vault' = vault => SendersSession' /\ ReadWasShown'
    BY DEF QuietParts, SendersSession, ReadWasShown, For, ForIn
<1>4. mem' = mem /\ vault' = vault => VaultBehind'
    BY DEF QuietParts, VaultBehind
<1>5. letters' = letters /\ mem' = mem /\ vault' = vault /\ directory' = directory
          /\ publishing' = publishing /\ sends' = sends => NothingChanged' /\ Pools'
    BY DEF QuietParts, NothingChanged, Pools
<1>6. letters' = letters /\ sends' = sends /\ inbox' = inbox => OpeningFirst'
    BY DEF QuietParts, OpeningFirst
<1>7. letters' = letters /\ vault' = vault /\ inbox' = inbox => InboxInOrder'
    BY DEF QuietParts, InboxInOrder
<1>8. mix' = mix /\ letters' = letters /\ mem' = mem /\ polls' = polls => PollsInOrder'
    BY DEF QuietParts, PollsInOrder
<1>9. mix' = mix /\ letters' = letters /\ mem' = mem /\ vault' = vault /\ polls' = polls
          /\ sends' = sends /\ inbox' = inbox => NothingLost'
    BY DEF QuietParts, NothingLost, Waiting, Arrived
<1> QED BY <1>1, <1>2, <1>3, <1>4, <1>5, <1>6, <1>7, <1>8, <1>9

\* What a poll reads is shown, then or before.
ReadEffect(e, m, now) ==
    /\ mem' = [mem EXCEPT ![e] = now] /\ now \in BrowserRow
    /\ now.session # None /\ (mem[e].session # None => now.session = mem[e].session)
    /\ now.next = mem[e].next /\ now.spk = mem[e].spk /\ now.blocked = mem[e].blocked
    /\ now.read \subseteq mem[e].read \cup {letters[m].at}
    /\ now.history[m] > 0 /\ \A n \in Messages : mem[e].history[n] > 0 => now.history[n] > 0
    /\ now.otps \subseteq mem[e].otps

LEMMA QuietRead ==
    ASSUME QuietState, NEW e \in Ends, NEW i \in 1..mix.polls, ProcessEnvelope(e, i), accidents' = {}
    PROVE  /\ polls[e][i].step = "reading"
           /\ \E m \in Messages, now \in BrowserRow :
                  /\ For(e, m) /\ ReadEffect(e, m, now)
                  /\ polls' = [polls EXCEPT ![e] = [polls[e] EXCEPT ![i] = Onward(polls[e][i], {m})]]
           /\ UNCHANGED <<mix, vault, directory, inbox, sends, letters, publishing, accepted, late>>
<1>0. /\ MailType /\ MailInv /\ MailOnItsWay /\ QuietParts /\ accidents = {}
      /\ mem \in [Ends -> BrowserRow] /\ Calm
    BY OneSession DEF QuietState, Quiet, MailTyped, MailInv, MailType
<1>1. /\ polls[e][i].step = "reading" /\ DOMAIN polls[e][i].left # {}
      /\ UNCHANGED <<mix, vault, directory, inbox, sends, letters, publishing, accepted, late>>
    BY <1>0, ProcessEffect
<1>2. PICK m \in Messages :
          /\ m = polls[e][i].left[Min(DOMAIN polls[e][i].left)]
          /\ letters[m] \in LetterRow /\ letters[m].to = e
          /\ Leaves(e, i, m) \/ Strange(e, i, m) \/ \E agree \in BOOLEAN : Reads(e, i, m, agree)
    BY <1>0, ProcessEffect
<1>3. ~Leaves(e, i, m) /\ ~Strange(e, i, m)
    <2>1. Peer(e) \in Ends
        BY PeerOther
    <2> QED BY <1>0, <2>1 DEF Leaves, Strange, QuietParts, NothingChanged
<1>4. PICK agree \in BOOLEAN : Reads(e, i, m, agree)
    BY <1>2, <1>3
<1> DEFINE asks == letters[m].opening /\ ~mem[e].known
           now == Handled(mem[e], m, asks, agree)
<1>5. /\ agree /\ mem' = [mem EXCEPT ![e] = now] /\ ~Resets(mem[e], letters[m], agree)
      /\ polls' = [polls EXCEPT ![e] = [polls[e] EXCEPT ![i] = Onward(polls[e][i], {m})]]
    BY <1>0, <1>4 DEF Reads
<1>6. now \in BrowserRow /\ Took(mem[e], letters[m], m, agree, now)
    <2>1. asks \in BOOLEAN /\ mem[e] \in BrowserRow
        BY <1>0
    <2> HIDE DEF asks
    <2> QED BY <1>2, <2>1, HandledParts
<1> HIDE DEF now
<1>7. For(e, m) /\ letters[m] # None
    BY <1>2, NoneAssumption DEF For, ForIn, LetterRow, Sessions
<1>8. letters[m].session # None /\ (mem[e].session # None => letters[m].session = mem[e].session)
    BY <1>7, OneSession
<1>9. mem[e].session = None => Accepts(mem[e], letters[m]) /\ mem[e].next = 0 /\ mem[e].read = {}
    <2> SUFFICES ASSUME mem[e].session = None
                 PROVE  Accepts(mem[e], letters[m]) /\ mem[e].next = 0 /\ mem[e].read = {}
        OBVIOUS
    <2>1. letters[m].opening
        BY <1>0, <1>1, <1>2 DEF QuietParts, PollsInOrder
    <2>2. letters[m].session.spk = 1 /\ mem[e].spk = 1
        BY <1>0, <1>7 DEF QuietParts, NothingChanged
    <2>3. letters[m].session.otp \in mem[e].otps \cup {0}
        BY <1>0, <1>7, <2>1 DEF QuietParts, Pools, Pool, For
    <2>4. mem[e].next = 0 /\ mem[e].read = {}
        BY <1>0 DEF QuietParts, SendersSession
    <2> QED BY <2>1, <2>2, <2>3, <2>4 DEF Accepts, SecretsMatch
<1> DEFINE here == OpensHere(mem[e], letters[m], agree)
           new == ~here /\ Accepts(mem[e], letters[m])
<1>10. /\ here => mem[e].session = letters[m].session /\ letters[m].at \notin mem[e].read
       /\ new => mem[e].session = None
       /\ mem[e].session = None => new
       /\ mem[e].session # None /\ ~here => letters[m].at \in mem[e].read
    BY <1>5, <1>8, <1>9 DEF OpensHere, Resets
<1>11. letters[m].at \in mem[e].read => mem[e].history[m] > 0
    <2> SUFFICES ASSUME letters[m].at \in mem[e].read PROVE mem[e].history[m] > 0
        OBVIOUS
    <2>1. PICK n \in Messages : ForIn(letters, e, n) /\ letters[n].at = letters[m].at /\ mem[e].history[n] > 0
        BY <1>0 DEF QuietParts, ReadWasShown, ReadShown
    <2>2. n = m
        BY <1>0, <1>7, <2>1 DEF QuietParts, Positions, For
    <2> QED BY <2>1, <2>2
<1>12. ~mem[e].blocked /\ mem[e].history \in [Messages -> Nat]
    BY <1>0 DEF QuietParts, NothingChanged, BrowserRow
<1>13. /\ now.spk = mem[e].spk /\ now.blocked = mem[e].blocked
       /\ now.session = IF new THEN letters[m].session ELSE mem[e].session
       /\ now.next = IF new THEN 0 ELSE mem[e].next
       /\ now.read = IF here THEN mem[e].read \cup {letters[m].at} ELSE IF new THEN {letters[m].at} ELSE mem[e].read
       /\ now.otps \subseteq mem[e].otps
       /\ now.history = IF here \/ new THEN [mem[e].history EXCEPT ![m] = @ + 1] ELSE mem[e].history
    BY <1>6, <1>12 DEF Took
<1> HIDE DEF here, new
<1>14. now.history[m] > 0 /\ \A n \in Messages : mem[e].history[n] > 0 => now.history[n] > 0
    <2> DEFINE h == mem[e].history
    <2>1. h \in [Messages -> Nat] /\ \A n \in Messages : h[n] \in Nat
        BY <1>12
    <2>2. now.history = IF here \/ new THEN [h EXCEPT ![m] = h[m] + 1] ELSE h
        BY <1>13
    <2>3. ~(here \/ new) => h[m] > 0
        BY <1>10, <1>11
    <2> HIDE DEF h
    <2>4. \A n \in Messages : now.history[n] = IF (here \/ new) /\ n = m THEN h[n] + 1 ELSE h[n]
        BY <2>1, <2>2
    <2>5. now.history[m] > 0 /\ \A n \in Messages : h[n] > 0 => now.history[n] > 0
        BY <2>1, <2>3, <2>4
    <2> QED BY <2>5 DEF h
<1>15. ReadEffect(e, m, now)
    BY <1>5, <1>6, <1>8, <1>9, <1>10, <1>13, <1>14 DEF ReadEffect
<1> QED BY <1>1, <1>5, <1>6, <1>7, <1>15

-----------------------------------------------------------------------------
(* Mail: a quiet conversation, sending *)

LEMMA QuietFacts ==
    ASSUME QuietState
    PROVE  /\ MailType /\ MailInv /\ MailLetters /\ MailOnItsWay /\ KeysMade /\ QuietParts /\ accidents = {}
           /\ mem \in [Ends -> BrowserRow] /\ vault \in [Ends -> BrowserRow]
           /\ directory \in [Ends -> KeysRow] /\ publishing \in [Ends -> Publication \cup {None}]
           /\ inbox \in [Ends -> Boxes] /\ polls \in [Ends -> [1..mix.polls -> InboxPoll]]
           /\ sends \in [Messages -> LetterStep] /\ letters \in [Messages -> LetterRow \cup {None}]
BY DEF QuietState, Quiet, MailTyped, MailInv, MailType

\* A message moves on between its writing and its answer.
MovesOn(m, row) ==
    /\ sends' = [sends EXCEPT ![m] = row] /\ row.step # "bundle"
    /\ row.step \in {"stored", "done"} => sends[m].step \in {"stored", "done"}
    /\ letters[m] # None /\ letters[m].opening =>
           /\ row.step \in {"posted", "checked", "stored", "done"}
           /\ row.step \in {"posted", "checked"} => sends[m].step \in {"posted", "checked"}
    /\ UNCHANGED <<mix, directory, inbox, letters, polls, publishing>>

LEMMA QuietSend ==
    ASSUME QuietState, NEW m \in Messages, NEW row \in LetterStep, MovesOn(m, row)
    PROVE  /\ OneOpening' /\ OpeningFirst'
           /\ \A n \in Messages : sends'[n].step = "bundle" => sends'[n] = sends[n]
           /\ mem' = mem /\ vault' = vault => QuietParts'
<1>0. QuietParts /\ sends \in [Messages -> LetterStep]
    BY QuietFacts
<1>1. sends'[m] = row /\ \A n \in Messages : n # m => sends'[n] = sends[n]
    BY <1>0 DEF MovesOn
<1>2. OneOpening' /\ OpeningFirst'
    <2>1. OneOpening'
        BY <1>0, QuietFrames DEF MovesOn
    <2>2. OpeningFirst'
        BY <1>0, <1>1 DEF MovesOn, OpeningFirst, QuietParts
    <2> QED BY <2>1, <2>2
<1>3. \A n \in Messages : sends'[n].step = "bundle" => sends'[n] = sends[n]
    BY <1>1 DEF MovesOn
<1>4. ASSUME mem' = mem, vault' = vault PROVE QuietParts'
    <2>0. UNCHANGED <<mix, mem, vault, directory, inbox, letters, polls, publishing>>
        BY <1>4 DEF MovesOn
    <2>1. Positions' /\ SendersSession' /\ ReadWasShown' /\ VaultBehind' /\ InboxInOrder' /\ PollsInOrder'
        BY <1>0, <2>0, QuietFrames
    <2>2. NothingChanged'
        BY <1>0, <1>3, <2>0 DEF NothingChanged, QuietParts
    <2>3. Pools'
        BY <1>0, <1>3, <2>0 DEF Pools, Pool, QuietParts
    <2>4. \A n \in Messages : Arrived(n)' => Arrived(n)
        BY <1>1 DEF Arrived, MovesOn
    <2>5. NothingLost'
        BY <1>0, <2>0, <2>4 DEF NothingLost, Waiting, QuietParts
    <2> QED BY <1>2, <2>1, <2>2, <2>3, <2>5 DEF QuietParts
<1> QED BY <1>2, <1>3, <1>4

LEMMA QuietPostFails ==
    ASSUME QuietState, NEW m \in Messages, PostFails(m), accidents' = {}
    PROVE  QuietParts'
<1>0. MailType /\ accidents = {}
    BY QuietFacts
<1>1. PICK row \in LetterStep : MovesTo(m, "failed", row)
    BY <1>0, Moves
<1>2. ~letters[m].opening
    BY DEF PostFails
<1>3. UNCHANGED <<mix, mem, vault, directory, inbox, letters, polls, publishing>>
    BY DEF PostFails
<1>4. MovesOn(m, row)
    BY <1>1, <1>2, <1>3 DEF MovesTo, MovesOn
<1> QED BY <1>3, <1>4, QuietSend

LEMMA QuietLookUp ==
    ASSUME QuietState, NEW m \in Messages, LookUpDevices(m)
    PROVE  QuietParts'
<1>0. MailType /\ MailLetters /\ QuietParts /\ letters \in [Messages -> LetterRow \cup {None}]
    BY QuietFacts
<1>1. sends[m].step = "posted"
    BY DEF LookUpDevices
<1>2. letters[m].to \in Ends
    BY <1>0, <1>1 DEF MailLetters, LetterRow
<1>3. ~directory[letters[m].to].revoked
    BY <1>0, <1>2 DEF QuietParts, NothingChanged
<1>4. PICK row \in LetterStep : MovesTo(m, "checked", row)
    BY <1>0, <1>3, Moves
<1>5. UNCHANGED <<mix, mem, vault, directory, inbox, letters, polls, publishing>>
    BY DEF LookUpDevices
<1>6. MovesOn(m, row)
    BY <1>1, <1>4, <1>5 DEF MovesTo, MovesOn
<1> QED BY <1>5, <1>6, QuietSend

LEMMA QuietAsk ==
    ASSUME QuietState, NEW e \in Ends, NEW m \in Messages, AskBundle(e, m)
    PROVE  QuietParts'
<1>0. MailType /\ MailLetters /\ QuietParts /\ directory \in [Ends -> KeysRow] /\ sends \in [Messages -> LetterStep]
    BY QuietFacts
<1> DEFINE p == Peer(e)
<1>1. PICK row \in LetterStep : AskEffect(e, m, row)
    BY <1>0, Asks
<1>2. p \in Ends /\ p # e
    BY PeerOther
<1> DEFINE d == [directory[p] EXCEPT !.otps = directory[p].otps \ {row.otp}]
<1>3. /\ UNCHANGED <<mix, mem, vault, inbox, letters, polls, publishing>>
      /\ directory' = [directory EXCEPT ![p] = d]
      /\ sends' = [sends EXCEPT ![m] = row]
      /\ row.step = "bundle" /\ row.by = e /\ row.spk = directory[p].spk
      /\ row.otp \in directory[p].otps \cup {0} /\ sends[m].step = "new"
    BY <1>1 DEF AskEffect
<1>4. d.spk = directory[p].spk /\ d.revoked = directory[p].revoked /\ d.otps \subseteq directory[p].otps
    BY <1>0, <1>2 DEF KeysRow
<1> HIDE DEF d, p
<1>5. /\ directory'[p] = d /\ \A q \in Ends : q # p => directory'[q] = directory[q]
      /\ sends'[m] = row /\ \A n \in Messages : n # m => sends'[n] = sends[n]
    BY <1>0, <1>2, <1>3
<1>6. letters[m] = None
    BY <1>0, <1>3 DEF MailLetters
<1>7. OneOpening' /\ Positions' /\ SendersSession' /\ ReadWasShown' /\ VaultBehind' /\ InboxInOrder' /\ PollsInOrder'
    BY <1>0, <1>3, QuietFrames
<1>8. OpeningFirst'
    BY <1>0, <1>3, <1>5, <1>6 DEF OpeningFirst, QuietParts
<1>9. NothingLost'
    BY <1>0, <1>3, <1>5, <1>6 DEF NothingLost, Waiting, Arrived, QuietParts
<1>10. NothingChanged'
    BY <1>0, <1>2, <1>3, <1>4, <1>5 DEF NothingChanged, QuietParts
<1>11. ASSUME NEW q \in Ends, NEW kept, Pool(q, kept, directory[q], publishing[q], sends, letters)
       PROVE  Pool(q, kept, directory'[q], publishing[q], sends', letters)
    <2>1. directory'[q].otps \subseteq directory[q].otps
        BY <1>4, <1>5
    <2>2. q # e => q = p
        BY PeerOther DEF p
    <2>3. row.by # q => row.otp \in directory[q].otps \cup {0}
        BY <1>3, <2>2
    <2> QED BY <1>5, <1>11, <2>1, <2>3 DEF Pool
<1>12. Pools'
    BY <1>0, <1>3, <1>11 DEF Pools, QuietParts
<1> QED BY <1>7, <1>8, <1>9, <1>10, <1>12 DEF QuietParts

LEMMA QuietRelease ==
    ASSUME QuietState, NEW e \in Ends, Release(e)
    PROVE  QuietParts'
<1>0. QuietParts /\ inbox \in [Ends -> Boxes]
    BY QuietFacts
<1>1. PICK j \in DOMAIN inbox[e] :
          /\ inbox' = [inbox EXCEPT ![e] = [inbox[e] EXCEPT ![j].held = FALSE]]
          /\ UNCHANGED <<mix, faults, mem, vault, directory, sends, letters, polls, publishing, accidents, accepted, late>>
    BY DEF Release
<1> DEFINE b == inbox[e]
           row == [b[j] EXCEPT !.held = FALSE]
<1>2. b \in [DOMAIN b -> MailRow] /\ j \in DOMAIN b
    <2>1. b \in Boxes /\ j \in DOMAIN b
        BY <1>0
    <2> HIDE DEF b
    <2> QED BY <2>1 DEF Boxes
<1>3. row.m = b[j].m /\ row.held = FALSE
    BY <1>2 DEF MailRow
<1>4. inbox' = [inbox EXCEPT ![e] = [b EXCEPT ![j] = row]]
    BY <1>1
<1> HIDE DEF b, row
<1>5. /\ DOMAIN [b EXCEPT ![j] = row] = DOMAIN b
      /\ \A i \in DOMAIN b : [b EXCEPT ![j] = row][i].m = b[i].m /\ ([b EXCEPT ![j] = row][i].held => b[i].held)
    BY <1>2, <1>3
<1>6. \A p \in Ends : /\ DOMAIN inbox'[p] = DOMAIN inbox[p]
                      /\ \A i \in DOMAIN inbox[p] : inbox'[p][i].m = inbox[p][i].m /\ (inbox'[p][i].held => inbox[p][i].held)
    BY <1>0, <1>4, <1>5 DEF b
<1>7. \A p \in Ends : DOMAIN inbox[p] # {} => Min(DOMAIN inbox[p]) \in DOMAIN inbox[p]
    BY <1>0, BoxRows
<1>8. \A m \in Messages : letters[m] # None => letters[m].to \in Ends
    BY QuietFacts DEF LetterRow
<1>9. OneOpening' /\ Positions' /\ SendersSession' /\ ReadWasShown' /\ VaultBehind' /\ PollsInOrder'
      /\ NothingChanged' /\ Pools'
    BY <1>0, <1>1, QuietFrames
<1>10. OpeningFirst'
    BY <1>0, <1>1, <1>6, <1>8 DEF OpeningFirst, QuietParts
<1>11. InboxInOrder'
    BY <1>0, <1>1, <1>6, <1>7, <1>8 DEF InboxInOrder, QuietParts
<1>12. \A p \in Ends : Waiting(p)' = Waiting(p)
    BY <1>6 DEF Waiting
<1>13. NothingLost'
    BY <1>0, <1>1, <1>8, <1>12 DEF NothingLost, Arrived, QuietParts
<1> QED BY <1>9, <1>10, <1>11, <1>13 DEF QuietParts

-----------------------------------------------------------------------------
(* Mail: a quiet conversation, saving *)

\* What is saved is what memory held, or more.
SavedLike(e, now) ==
    /\ Saves(e, now)
    /\ now.session = mem[e].session /\ now.next = mem[e].next /\ now.read = mem[e].read
    /\ now.spk = mem[e].spk /\ now.blocked = mem[e].blocked /\ mem[e].otps \subseteq now.otps
    /\ \A n \in Messages : mem[e].history[n] > 0 => now.history[n] > 0
    /\ letters' = letters

\* The browsers after a save.
KeptThrough ==
    /\ OneOpening' /\ SendersSession' /\ Positions' /\ ReadWasShown' /\ VaultBehind'
    /\ \A p \in Ends : ~mem'[p].blocked /\ ~vault'[p].blocked /\ mem'[p].spk = 1 /\ vault'[p].spk = 1
    /\ \A p \in Ends, n \in Messages :
           (mem[p].history[n] > 0 => mem'[p].history[n] > 0) /\ (vault[p].history[n] > 0 => vault'[p].history[n] > 0)
    /\ \A p \in Ends, n \in Messages : mem'[p].history[n] > 0 /\ vault'[p] = mem'[p] => vault'[p].history[n] > 0
    /\ inbox' = inbox => InboxInOrder'
    /\ mix' = mix /\ polls' = polls => PollsInOrder'
    /\ \A p \in Ends : \A d, row, S :
           Pool(p, mem[p], d, row, S, letters) /\ Pool(p, vault[p], d, row, S, letters)
               => Pool(p, mem'[p], d, row, S, letters) /\ Pool(p, vault'[p], d, row, S, letters)

LEMMA QuietSaves ==
    ASSUME QuietState, NEW e \in Ends, NEW now \in BrowserRow, SavedLike(e, now)
    PROVE  KeptThrough
<1>0. QuietParts /\ mem \in [Ends -> BrowserRow] /\ vault \in [Ends -> BrowserRow]
    BY QuietFacts
<1>1. /\ mem'[e] = now /\ vault'[e] = now
      /\ \A p \in Ends : p # e => mem'[p] = mem[p] /\ vault'[p] = vault[p]
    BY <1>0 DEF SavedLike, Saves
<1>2. /\ now.session = mem[e].session /\ now.next = mem[e].next /\ now.read = mem[e].read
      /\ now.spk = mem[e].spk /\ now.blocked = mem[e].blocked /\ mem[e].otps \subseteq now.otps
      /\ \A n \in Messages : mem[e].history[n] > 0 => now.history[n] > 0
      /\ letters' = letters
    BY DEF SavedLike
<1>3. OneOpening'
    BY <1>0, <1>2, QuietFrames
<1>4. SendersSession'
    BY <1>0, <1>1, <1>2 DEF SendersSession, QuietParts, For, ForIn
<1>5. Positions'
    <2>1. \A p \in Ends : mem'[p].next = mem[p].next
        BY <1>1, <1>2
    <2>2. \A p \in Ends : Peer(p) \in Ends
        BY PeerOther
    <2>3. \A p \in Ends : mem'[Peer(p)].next = mem[Peer(p)].next
        BY <2>1, <2>2
    <2> QED BY <1>0, <1>2, <2>3 DEF Positions, QuietParts, For, ForIn
<1>6. ReadWasShown'
    <2>1. ReadShown(letters, e, now)
        BY <1>0, <1>2 DEF ReadWasShown, ReadShown, QuietParts
    <2> QED BY <1>0, <1>1, <1>2, <2>1 DEF ReadWasShown, QuietParts
<1>7. VaultBehind'
    BY <1>0, <1>1 DEF VaultBehind, QuietParts
<1>8. \A p \in Ends : ~mem'[p].blocked /\ ~vault'[p].blocked /\ mem'[p].spk = 1 /\ vault'[p].spk = 1
    BY <1>0, <1>1, <1>2 DEF NothingChanged, QuietParts
<1>9. \A p \in Ends, n \in Messages :
          (mem[p].history[n] > 0 => mem'[p].history[n] > 0) /\ (vault[p].history[n] > 0 => vault'[p].history[n] > 0)
    BY <1>0, <1>1, <1>2 DEF VaultBehind, QuietParts
<1>10. \A p \in Ends, n \in Messages : mem'[p].history[n] > 0 /\ vault'[p] = mem'[p] => vault'[p].history[n] > 0
    OBVIOUS
<1>11. \A p \in Ends : (mem'[p].session = None => mem[p].session = None) /\ (vault'[p].session = None => vault[p].session = None)
    BY <1>0, <1>1, <1>2 DEF SendersSession, QuietParts
<1>12. \A m \in Messages : letters[m] # None => letters[m].to \in Ends
    BY QuietFacts DEF LetterRow
<1>13. inbox' = inbox => InboxInOrder'
    BY <1>0, <1>2, <1>11, <1>12 DEF InboxInOrder, QuietParts
<1>14. mix' = mix /\ polls' = polls => PollsInOrder'
    BY <1>0, <1>2, <1>11 DEF PollsInOrder, QuietParts
<1>15. ASSUME NEW p \in Ends, NEW d, NEW row, NEW S,
              Pool(p, mem[p], d, row, S, letters), Pool(p, vault[p], d, row, S, letters)
       PROVE  Pool(p, mem'[p], d, row, S, letters) /\ Pool(p, vault'[p], d, row, S, letters)
    <2>1. CASE p = e
        <3>1. Pool(e, now, d, row, S, letters)
            BY <1>2, <1>15, <2>1 DEF Pool
        <3> QED BY <1>1, <2>1, <3>1
    <2>2. CASE p # e
        BY <1>1, <1>15, <2>2
    <2> QED BY <2>1, <2>2
<1> QED BY <1>3, <1>4, <1>5, <1>6, <1>7, <1>8, <1>9, <1>10, <1>13, <1>14, <1>15 DEF KeptThrough

LEMMA QuietSaveSent ==
    ASSUME QuietState, NEW m \in Messages, SaveSent(m)
    PROVE  QuietParts'
<1> DEFINE e == sends[m].by
           now == Shown(mem[e], m)
<1>0. /\ MailType /\ MailLetters /\ QuietParts /\ sends \in [Messages -> LetterStep]
      /\ mem \in [Ends -> BrowserRow]
    BY QuietFacts
<1>1. PICK row \in LetterStep : MovesTo(m, "done", row)
    BY <1>0, Moves
<1>2. /\ sends[m].step = "stored" /\ UNCHANGED <<mix, directory, inbox, letters, polls, publishing>>
      /\ Saves(e, now) \/ (mem' = mem /\ vault' = vault)
    BY DEF SaveSent, browser
<1>3. MovesOn(m, row)
    BY <1>1, <1>2 DEF MovesTo, MovesOn
<1>4. CASE mem' = mem /\ vault' = vault
    BY <1>3, <1>4, QuietSend
<1>5. CASE Saves(e, now)
    <2>1. e \in Ends /\ mem[e] \in BrowserRow
        BY <1>0, <1>2 DEF MailLetters
    <2>2. /\ now \in BrowserRow /\ now.session = mem[e].session /\ now.next = mem[e].next /\ now.read = mem[e].read
          /\ now.spk = mem[e].spk /\ now.blocked = mem[e].blocked /\ mem[e].otps = now.otps
          /\ now.history = [mem[e].history EXCEPT ![m] = @ + 1]
        <3> DEFINE k == mem[e]
                   h == [k.history EXCEPT ![m] = @ + 1]
        <3>1. k \in BrowserRow /\ h \in [Messages -> Nat]
            BY <2>1 DEF BrowserRow
        <3>2. now = [k EXCEPT !.history = h]
            BY <2>1 DEF Shown, BrowserRow
        <3> HIDE DEF now, k, h
        <3>3. /\ now \in BrowserRow /\ now.session = k.session /\ now.next = k.next /\ now.read = k.read
              /\ now.spk = k.spk /\ now.blocked = k.blocked /\ k.otps = now.otps /\ now.history = h
            BY <3>1, <3>2 DEF BrowserRow
        <3> QED BY <3>3 DEF k, h
    <2>3. \A n \in Messages : mem[e].history[n] > 0 => now.history[n] > 0
        <3>1. mem[e].history \in [Messages -> Nat]
            BY <2>1 DEF BrowserRow
        <3> QED BY <2>2, <3>1
    <2> HIDE DEF now, e
    <2>4. SavedLike(e, now)
        BY <1>2, <1>5, <2>2, <2>3 DEF SavedLike
    <2>5. KeptThrough
        BY <2>1, <2>2, <2>4, QuietSaves
    <2>6. /\ OpeningFirst'
          /\ \A n \in Messages : sends'[n].step = "bundle" => sends'[n] = sends[n]
        BY <1>3, QuietSend
    <2>7. NothingChanged'
        BY <1>0, <1>2, <2>5, <2>6 DEF NothingChanged, QuietParts, KeptThrough
    <2>8. Pools'
        <3>1. \A p \in Ends : Pool(p, mem[p], directory[p], publishing[p], sends', letters)
                              /\ Pool(p, vault[p], directory[p], publishing[p], sends', letters)
            BY <1>0, <2>6 DEF Pools, Pool, QuietParts
        <3>2. \A p \in Ends : Pool(p, mem'[p], directory[p], publishing[p], sends', letters)
                              /\ Pool(p, vault'[p], directory[p], publishing[p], sends', letters)
            BY <2>5, <3>1 DEF KeptThrough
        <3> QED BY <1>2, <3>2 DEF Pools
    <2>9. NothingLost'
        <3>1. \A n \in Messages : Arrived(n)' => Arrived(n)
            BY <1>0, <1>1, <1>2 DEF Arrived, MovesTo
        <3>2. \A n \in Messages : letters[n] # None => letters[n].to \in Ends
            BY QuietFacts DEF LetterRow
        <3>3. \A p \in Ends : Waiting(p)' = Waiting(p)
            BY <1>2 DEF Waiting
        <3>4. \A p \in Ends : \A i \in 1..mix.polls : polls[p][i].handled \in SUBSET Messages
            <4>0. polls \in [Ends -> [1..mix.polls -> InboxPoll]]
                BY QuietFacts
            <4>1. \A p \in Ends : \A i \in 1..mix.polls : polls[p][i] \in InboxPoll
                BY <4>0
            <4> QED BY <4>1 DEF InboxPoll
        <3> QED BY <1>0, <1>2, <2>5, <3>1, <3>2, <3>3, <3>4 DEF NothingLost, QuietParts, KeptThrough
    <2> QED BY <1>2, <2>5, <2>6, <2>7, <2>8, <2>9 DEF QuietParts, KeptThrough
<1> QED BY <1>2, <1>4, <1>5

LEMMA QuietPersist ==
    ASSUME QuietState, NEW e \in Ends, NEW i \in 1..mix.polls, PersistInbox(e, i)
    PROVE  QuietParts'
<1>0. /\ QuietParts /\ mem \in [Ends -> BrowserRow] /\ polls \in [Ends -> [1..mix.polls -> InboxPoll]]
    BY QuietFacts
<1> DEFINE row == [polls[e][i] EXCEPT !.step = "acking"]
<1>1. /\ Saves(e, mem[e]) /\ polls[e][i].step = "reading" /\ DOMAIN polls[e][i].left = {}
      /\ polls' = [polls EXCEPT ![e] = [polls[e] EXCEPT ![i] = row]]
      /\ UNCHANGED <<mix, directory, inbox, sends, letters, publishing>>
    BY DEF PersistInbox
<1>2. row.step = "acking" /\ row.left = polls[e][i].left /\ row.handled = polls[e][i].handled
    BY <1>0 DEF InboxPoll
<1> HIDE DEF row
<1>3. /\ polls'[e][i] = row
      /\ \A p \in Ends, j \in 1..mix.polls : p # e \/ j # i => polls'[p][j] = polls[p][j]
    BY <1>0, <1>1
<1>4. SavedLike(e, mem[e])
    BY <1>1 DEF SavedLike
<1>5. KeptThrough
    BY <1>0, <1>4, QuietSaves
<1>6. mem' = mem /\ vault'[e] = mem[e]
    BY <1>0, <1>1, QuietFacts DEF Saves
<1>7. OpeningFirst'
    BY <1>0, <1>1, QuietFrames
<1>8. NothingChanged'
    BY <1>0, <1>1, <1>5 DEF NothingChanged, QuietParts, KeptThrough
<1>9. Pools'
    BY <1>0, <1>1, <1>5 DEF Pools, QuietParts, KeptThrough
<1>10. PollsInOrder'
    <2>1. \A p \in Ends, j \in 1..mix.polls : polls'[p][j].left = polls[p][j].left
        BY <1>2, <1>3
    <2> QED BY <1>0, <1>1, <1>6, <2>1 DEF PollsInOrder, QuietParts
<1>11. NothingLost'
    <2>1. \A n \in Messages : letters[n] # None => letters[n].to \in Ends
        BY QuietFacts DEF LetterRow
    <2>2. \A p \in Ends : Waiting(p)' = Waiting(p)
        BY <1>1 DEF Waiting
    <2>3. \A p \in Ends : \A j \in 1..mix.polls : polls[p][j].handled \in SUBSET Messages
        <3>1. \A p \in Ends : \A j \in 1..mix.polls : polls[p][j] \in InboxPoll
            BY <1>0
        <3> QED BY <3>1 DEF InboxPoll
    <2>4. \A n \in Messages : letters[n] # None /\ Arrived(n)' =>
              n \in Waiting(letters[n].to)' \/ vault'[letters[n].to].history[n] > 0
        BY <1>0, <1>1, <1>5, <2>1, <2>2 DEF NothingLost, Arrived, QuietParts, KeptThrough
    <2>5. \A p \in Ends : \A j \in 1..mix.polls :
              polls'[p][j].step = "reading" => \A n \in polls'[p][j].handled : mem'[p].history[n] > 0
        BY <1>0, <1>2, <1>3, <1>6 DEF NothingLost, QuietParts
    <2>6. \A n \in row.handled : vault'[e].history[n] > 0
        BY <1>0, <1>1, <1>2, <1>6 DEF NothingLost, QuietParts
    <2>7. \A p \in Ends : \A j \in 1..mix.polls :
              polls'[p][j].step = "acking" => \A n \in polls'[p][j].handled : vault'[p].history[n] > 0
        BY <1>0, <1>3, <1>5, <2>3, <2>6 DEF NothingLost, QuietParts, KeptThrough
    <2> QED BY <1>1, <2>4, <2>5, <2>7 DEF NothingLost
<1> QED BY <1>1, <1>5, <1>7, <1>8, <1>9, <1>10, <1>11 DEF QuietParts, KeptThrough

LEMMA QuietTopUp ==
    ASSUME QuietState, NEW e \in Ends, TopUp(e)
    PROVE  QuietParts'
<1>0. /\ MailType /\ QuietParts /\ mem \in [Ends -> BrowserRow] /\ directory \in [Ends -> KeysRow]
      /\ publishing \in [Ends -> Publication \cup {None}]
    BY QuietFacts
<1>1. TopUpEffect(e)
    BY <1>0, TopsUp
<1> DEFINE now == [mem[e] EXCEPT !.otps = mem[e].otps \cup Fresh(e)]
<1>2. PICK d \in KeysRow :
          /\ directory' = [directory EXCEPT ![e] = d]
          /\ d.spk = directory[e].spk /\ d.revoked = directory[e].revoked
          /\ d.otps \subseteq directory[e].otps \cup Fresh(e)
    <2>1. PICK d \in KeysRow :
              /\ directory' = [directory EXCEPT ![e] = d]
              /\ d.spk = directory[e].spk /\ d.revoked = directory[e].revoked
              /\ d.otps = IF directory[e].revoked THEN directory[e].otps ELSE directory[e].otps \cup Fresh(e)
        BY <1>1 DEF TopUpEffect
    <2> QED BY <2>1
<1>3. /\ Saves(e, now) /\ publishing' = [publishing EXCEPT ![e] = None]
      /\ UNCHANGED <<mix, inbox, sends, letters, polls>>
    BY <1>1 DEF TopUpEffect
<1>4. mem[e] \in BrowserRow /\ Fresh(e) \in SUBSET Nat
    <2>1. Fresh(e) \in SUBSET {directory[e].made + 1} /\ directory[e].made \in Nat
        BY <1>0, FreshKeys
    <2> QED BY <1>0, <2>1
<1>5. /\ now \in BrowserRow /\ now.session = mem[e].session /\ now.next = mem[e].next /\ now.read = mem[e].read
      /\ now.spk = mem[e].spk /\ now.blocked = mem[e].blocked /\ now.otps = mem[e].otps \cup Fresh(e)
      /\ now.history = mem[e].history
    BY <1>4 DEF BrowserRow
<1> HIDE DEF now
<1>6. SavedLike(e, now)
    BY <1>3, <1>5 DEF SavedLike
<1>7. KeptThrough
    BY <1>5, <1>6, QuietSaves
<1>8. /\ mem'[e] = now /\ vault'[e] = now
      /\ \A p \in Ends : p # e => mem'[p] = mem[p] /\ vault'[p] = vault[p]
    BY <1>3, QuietFacts DEF Saves
<1>9. /\ directory'[e] = d /\ \A p \in Ends : p # e => directory'[p] = directory[p]
      /\ publishing'[e] = None /\ \A p \in Ends : p # e => publishing'[p] = publishing[p]
    BY <1>0, <1>2, <1>3
<1>10. OpeningFirst'
    BY <1>0, <1>3, QuietFrames
<1>11. NothingChanged'
    BY <1>0, <1>2, <1>3, <1>7, <1>9 DEF NothingChanged, QuietParts, KeptThrough
<1>12. Pools'
    <2>1. Pool(e, now, d, None, sends, letters)
        BY <1>0, <1>2, <1>5 DEF Pools, Pool, QuietParts
    <2>2. ASSUME NEW p \in Ends
          PROVE  /\ Pool(p, mem'[p], directory'[p], publishing'[p], sends, letters)
                 /\ Pool(p, vault'[p], directory'[p], publishing'[p], sends, letters)
        <3>1. CASE p = e
            BY <1>8, <1>9, <2>1, <3>1
        <3>2. CASE p # e
            BY <1>0, <1>8, <1>9, <3>2 DEF Pools, QuietParts
        <3> QED BY <3>1, <3>2
    <2> QED BY <1>3, <2>2 DEF Pools
<1>13. NothingLost'
    <2>1. \A n \in Messages : letters[n] # None => letters[n].to \in Ends
        BY QuietFacts DEF LetterRow
    <2>2. \A p \in Ends : Waiting(p)' = Waiting(p)
        BY <1>3 DEF Waiting
    <2>3. \A p \in Ends : \A j \in 1..mix.polls : polls[p][j].handled \in SUBSET Messages
        <3>0. polls \in [Ends -> [1..mix.polls -> InboxPoll]]
            BY QuietFacts
        <3>1. \A p \in Ends : \A j \in 1..mix.polls : polls[p][j] \in InboxPoll
            BY <3>0
        <3> QED BY <3>1 DEF InboxPoll
    <2> QED BY <1>0, <1>3, <1>7, <2>1, <2>2, <2>3 DEF NothingLost, Arrived, QuietParts, KeptThrough
<1> QED BY <1>3, <1>7, <1>10, <1>11, <1>12, <1>13 DEF QuietParts, KeptThrough

LEMMA QuietPublish ==
    ASSUME QuietState, NEW e \in Ends, NEW stale \in BOOLEAN, PublishDevice(e, stale), accidents' = {}
    PROVE  QuietParts'
<1>0. /\ MailType /\ QuietParts /\ mem \in [Ends -> BrowserRow] /\ directory \in [Ends -> KeysRow]
      /\ publishing \in [Ends -> Publication \cup {None}]
    BY QuietFacts
<1> DEFINE spk == mem[e].spk
           row == [step |-> "sent", live |-> TRUE, spk |-> spk, otps |-> mem[e].otps]
<1>1. /\ ~stale /\ publishing' = [publishing EXCEPT ![e] = row]
      /\ mem' = [mem EXCEPT ![e] = [mem[e] EXCEPT !.spk = mem[e].spk]]
      /\ UNCHANGED <<mix, vault, directory, inbox, sends, letters, polls>>
    BY DEF PublishDevice
<1>2. [mem[e] EXCEPT !.spk = mem[e].spk] = mem[e]
    BY <1>0 DEF BrowserRow
<1>3. mem' = mem
    BY <1>0, <1>1, <1>2
<1>4. row.spk = mem[e].spk /\ row.otps = mem[e].otps
    OBVIOUS
<1> HIDE DEF row
<1>5. publishing'[e] = row /\ \A p \in Ends : p # e => publishing'[p] = publishing[p]
    BY <1>0, <1>1
<1>6. /\ OneOpening' /\ SendersSession' /\ Positions' /\ ReadWasShown' /\ VaultBehind' /\ OpeningFirst'
      /\ InboxInOrder' /\ PollsInOrder' /\ NothingLost'
    BY <1>0, <1>1, <1>3, QuietFrames
<1>7. NothingChanged'
    BY <1>0, <1>1, <1>3, <1>4, <1>5 DEF NothingChanged, QuietParts
<1>8. Pools'
    <2>1. mem[e].otps \subseteq vault[e].otps
        BY <1>0 DEF VaultBehind, QuietParts
    <2>2. ASSUME NEW p \in Ends, NEW kept \in {mem[p], vault[p]}
          PROVE  Pool(p, kept, directory[p], publishing'[p], sends, letters)
        <3>1. Pool(p, kept, directory[p], publishing[p], sends, letters)
            BY <1>0, <2>2 DEF Pools, QuietParts
        <3>2. CASE p = e
            <4>1. row.otps \subseteq kept.otps
                BY <1>4, <2>1, <2>2, <3>2
            <4> QED BY <1>5, <3>1, <3>2, <4>1 DEF Pool
        <3>3. CASE p # e
            BY <1>5, <3>1, <3>3
        <3> QED BY <3>2, <3>3
    <2> QED BY <1>1, <1>3, <2>2 DEF Pools
<1> QED BY <1>6, <1>7, <1>8 DEF QuietParts

LEMMA QuietStoreDevice ==
    ASSUME QuietState, NEW e \in Ends, StoreDevice(e)
    PROVE  QuietParts'
<1>0. /\ MailType /\ QuietParts /\ directory \in [Ends -> KeysRow]
      /\ publishing \in [Ends -> Publication \cup {None}]
    BY QuietFacts
<1>1. publishing[e] # None
    BY DEF StoreDevice
<1>2. /\ UNCHANGED <<mix, mem, vault, inbox, sends, letters, polls>>
      /\ \E d \in KeysRow :
             /\ directory' = [directory EXCEPT ![e] = d]
             /\ d.revoked = directory[e].revoked
             /\ IF directory[e].revoked THEN d = directory[e]
                ELSE d.spk = publishing[e].spk /\ d.otps = directory[e].otps \cup publishing[e].otps
      /\ \E now \in Publication \cup {None} :
             /\ publishing' = [publishing EXCEPT ![e] = now]
             /\ now # None => now.otps = publishing[e].otps /\ now.spk = publishing[e].spk
    BY <1>0, Stores
<1>3. ~directory[e].revoked
    BY <1>0 DEF NothingChanged, QuietParts
<1>4. PICK d \in KeysRow : /\ directory' = [directory EXCEPT ![e] = d]
                           /\ d.revoked = directory[e].revoked /\ d.spk = publishing[e].spk
                           /\ d.otps = directory[e].otps \cup publishing[e].otps
    BY <1>2, <1>3
<1>5. PICK now \in Publication \cup {None} :
          /\ publishing' = [publishing EXCEPT ![e] = now]
          /\ now # None => now.otps = publishing[e].otps /\ now.spk = publishing[e].spk
    BY <1>2
<1>6. /\ directory'[e] = d /\ \A p \in Ends : p # e => directory'[p] = directory[p]
      /\ publishing'[e] = now /\ \A p \in Ends : p # e => publishing'[p] = publishing[p]
    BY <1>0, <1>4, <1>5
<1>7. /\ OneOpening' /\ SendersSession' /\ Positions' /\ ReadWasShown' /\ VaultBehind' /\ OpeningFirst'
      /\ InboxInOrder' /\ PollsInOrder' /\ NothingLost'
    BY <1>0, <1>2, QuietFrames
<1>8. NothingChanged'
    BY <1>0, <1>1, <1>2, <1>4, <1>5, <1>6 DEF NothingChanged, QuietParts
<1>9. ASSUME NEW p \in Ends, NEW kept, Pool(p, kept, directory[p], publishing[p], sends, letters)
      PROVE  Pool(p, kept, directory'[p], publishing'[p], sends, letters)
    <2>1. CASE p = e
        BY <1>1, <1>4, <1>5, <1>6, <1>9, <2>1 DEF Pool
    <2>2. CASE p # e
        BY <1>6, <1>9, <2>2
    <2> QED BY <2>1, <2>2
<1>10. Pools'
    BY <1>0, <1>2, <1>9 DEF Pools, QuietParts
<1> QED BY <1>7, <1>8, <1>10 DEF QuietParts

-----------------------------------------------------------------------------
(* Mail: a quiet conversation, the inbox *)

LEMMA QuietStore ==
    ASSUME QuietState, NEW m \in Messages, NEW held \in BOOLEAN, StoreEnvelope(m, held), accidents' = {}
    PROVE  QuietParts'
<1>0. /\ MailType /\ MailLetters /\ QuietParts /\ inbox \in [Ends -> Boxes]
      /\ sends \in [Messages -> LetterStep] /\ letters \in [Messages -> LetterRow \cup {None}]
    BY QuietFacts
<1>1. PICK row \in LetterStep : MovesTo(m, "stored", row)
    BY <1>0, Moves
<1>2. PICK place \in Nat : PostEffect(m, held, place)
    BY <1>0, StoresEnvelope
<1> DEFINE p == letters[m].to
           first == letters[m].session.first
<1>3. /\ sends[m].step = "checked" /\ p \in Ends
      /\ \A i \in DOMAIN inbox[p] : i < place
      /\ DOMAIN inbox'[p] = DOMAIN inbox[p] \cup {place}
      /\ inbox'[p][place] = [m |-> m, held |-> held]
      /\ \A i \in DOMAIN inbox[p] : inbox'[p][i] = inbox[p][i]
      /\ \A e \in Ends : e # p => inbox'[e] = inbox[e]
      /\ UNCHANGED <<mix, mem, vault, directory, letters, polls, publishing, accepted, late>>
      /\ ~Overtaken(m)
    BY <1>2 DEF PostEffect
<1>4. /\ sends'[m].step = "stored" /\ \A n \in Messages : n # m => sends'[n] = sends[n]
    BY <1>0, <1>1 DEF MovesTo
<1>5. letters[m] # None
    BY <1>0, <1>3 DEF MailLetters
<1>6. /\ first \in Messages /\ letters[first] # None /\ letters[first].opening
      /\ \A n \in Messages : letters[n] # None /\ letters[n].opening => n = first
    <2>1. first \in Messages /\ letters[first] # None /\ letters[first].opening
        BY <1>5, OneSession
    <2> HIDE DEF first
    <2> QED BY <1>0, <2>1 DEF OneOpening, QuietParts
<1>7. first # m => /\ sends[first].step \notin {"posted", "checked"}
                   /\ \A i \in DOMAIN inbox[p] : ~(inbox[p][i].m = first /\ inbox[p][i].held)
    BY <1>3 DEF Overtaken
<1> HIDE DEF p, first
<1>8. /\ OneOpening' /\ Positions' /\ SendersSession' /\ ReadWasShown' /\ VaultBehind' /\ PollsInOrder'
    BY <1>0, <1>3, QuietFrames
<1>9. NothingChanged' /\ Pools'
    <2>1. \A n \in Messages : sends'[n].step = "bundle" => sends'[n] = sends[n]
        BY <1>4
    <2>2. NothingChanged'
        BY <1>0, <1>3, <2>1 DEF NothingChanged, QuietParts
    <2>3. Pools'
        BY <1>0, <1>3, <2>1 DEF Pools, Pool, QuietParts
    <2> QED BY <2>2, <2>3
<1>10. OpeningFirst'
    <2>1. ASSUME NEW n \in Messages, letters[n] # None, letters[n].opening
          PROVE  /\ sends'[n].step \in {"posted", "checked", "stored", "done"}
                 /\ sends'[n].step \in {"posted", "checked"} => DOMAIN inbox'[letters[n].to] = {}
        <3>1. n = first
            BY <1>6, <2>1
        <3>2. sends[n].step \in {"posted", "checked", "stored", "done"}
              /\ (sends[n].step \in {"posted", "checked"} => DOMAIN inbox[letters[n].to] = {})
            BY <1>0, <2>1 DEF OpeningFirst, QuietParts
        <3>3. CASE n = m
            BY <1>4, <3>3
        <3>4. CASE n # m
            BY <1>4, <1>7, <3>1, <3>2, <3>4
        <3> QED BY <3>3, <3>4
    <2> QED BY <1>3, <2>1 DEF OpeningFirst
<1>11. DOMAIN inbox[p] \in SUBSET Nat /\ DOMAIN inbox'[p] \in SUBSET Nat
    BY <1>0, <1>3, BoxRows
<1>12. ASSUME NEW n \in Messages, letters[n] # None, letters[n].opening, letters[n].to = p,
              vault[p].session = None, DOMAIN inbox'[p] # {}
       PROVE  LET i == Min(DOMAIN inbox'[p])
              IN  inbox'[p][i].m = n /\ (inbox'[p][i].held => DOMAIN inbox'[p] = {i})
    <2> DEFINE i == Min(DOMAIN inbox'[p])
    <2>0. n = first
        BY <1>6, <1>12
    <2>1. i \in DOMAIN inbox'[p] /\ \A j \in DOMAIN inbox'[p] : i <= j
        BY <1>11, <1>12, MinIsLeast
    <2>2. CASE DOMAIN inbox[p] = {}
        <3>1. m = first
            <4> SUFFICES ASSUME m # first PROVE FALSE
                OBVIOUS
            <4>1. sends[first].step \in {"stored", "done"}
                BY <1>0, <1>6, <1>7 DEF OpeningFirst, QuietParts
            <4>2. first \notin Waiting(p)
                BY <2>2 DEF Waiting
            <4>3. vault[p].history[first] > 0
                BY <1>0, <1>6, <1>12, <2>0, <4>1, <4>2 DEF NothingLost, Arrived, QuietParts
            <4>4. For(p, first)
                BY <1>12, <2>0 DEF For, ForIn
            <4> QED BY <1>3, <1>6, <1>12, <4>3, <4>4, OneSession
        <3>2. DOMAIN inbox'[p] = {place} /\ i = place
            BY <1>3, <2>1, <2>2
        <3> HIDE DEF i
        <3> QED BY <1>3, <2>0, <3>1, <3>2 DEF i
    <2>3. CASE DOMAIN inbox[p] # {}
        <3> DEFINE k == Min(DOMAIN inbox[p])
        <3>1. k \in DOMAIN inbox[p] /\ \A j \in DOMAIN inbox[p] : k <= j
            BY <1>11, <2>3, MinIsLeast
        <3>2. inbox[p][k].m = n /\ (inbox[p][k].held => DOMAIN inbox[p] = {k})
            BY <1>0, <1>12, <2>3 DEF InboxInOrder, QuietParts
        <3> HIDE DEF k, i
        <3>3. i = k
            BY <1>3, <1>11, <2>1, <3>1
        <3>4. m # first
            <4> SUFFICES ASSUME m = first PROVE FALSE
                OBVIOUS
            <4>1. DOMAIN inbox[p] = {}
                BY <1>0, <1>3, <1>12, <2>0 DEF OpeningFirst, QuietParts
            <4> QED BY <2>3, <4>1
        <3>5. ~inbox[p][k].held
            BY <1>7, <2>0, <3>1, <3>2, <3>4
        <3>6. /\ inbox'[p][i].m = n /\ ~inbox'[p][i].held
            BY <1>3, <3>1, <3>2, <3>3, <3>5
        <3> QED BY <3>6 DEF i
    <2> QED BY <2>2, <2>3
<1>13. InboxInOrder'
    <2>1. ASSUME NEW n \in Messages, letters[n] # None, letters[n].opening,
                 vault[letters[n].to].session = None, DOMAIN inbox'[letters[n].to] # {}
          PROVE  LET box == inbox'[letters[n].to]
                     i == Min(DOMAIN box)
                 IN  box[i].m = n /\ (box[i].held => DOMAIN box = {i})
        <3>1. letters[n].to \in Ends
            BY <1>0, <2>1 DEF LetterRow
        <3>2. CASE letters[n].to = p
            BY <1>12, <2>1, <3>2
        <3>3. CASE letters[n].to # p
            <4>1. inbox'[letters[n].to] = inbox[letters[n].to]
                BY <1>3, <3>1, <3>3
            <4> QED BY <1>0, <2>1, <4>1 DEF InboxInOrder, QuietParts
        <3> QED BY <3>2, <3>3
    <2> QED BY <1>3, <2>1 DEF InboxInOrder
<1>14. NothingLost'
    <2>1. \A e \in Ends : Waiting(e) \subseteq Waiting(e)' /\ (e = p => m \in Waiting(e)')
        <3> SUFFICES ASSUME NEW e \in Ends PROVE Waiting(e) \subseteq Waiting(e)' /\ (e = p => m \in Waiting(e)')
            OBVIOUS
        <3>1. Waiting(e)' = {inbox'[e][i].m : i \in DOMAIN inbox'[e]}
            BY DEF Waiting
        <3>2. CASE e = p
            <4>1. \A i \in DOMAIN inbox[e] : i \in DOMAIN inbox'[e] /\ inbox'[e][i].m = inbox[e][i].m
                BY <1>3, <3>2
            <4>2. place \in DOMAIN inbox'[e] /\ inbox'[e][place].m = m
                BY <1>3, <3>2
            <4> QED BY <3>1, <4>1, <4>2 DEF Waiting
        <3>3. CASE e # p
            BY <1>3, <3>1, <3>3 DEF Waiting
        <3> QED BY <3>2, <3>3
    <2>2. \A n \in Messages : Arrived(n)' => n = m \/ Arrived(n)
        BY <1>4 DEF Arrived
    <2>3. \A n \in Messages : letters[n] # None => letters[n].to \in Ends
        BY <1>0 DEF LetterRow
    <2> QED BY <1>0, <1>3, <2>1, <2>2, <2>3 DEF NothingLost, QuietParts, p
<1> QED BY <1>8, <1>9, <1>10, <1>13, <1>14 DEF QuietParts

LEMMA QuietFetch ==
    ASSUME QuietState, NEW e \in Ends, NEW i \in 1..mix.polls, FetchEnvelopes(e, i), accidents' = {}
    PROVE  QuietParts'
<1>0. /\ MailType /\ MailOnItsWay /\ QuietParts /\ inbox \in [Ends -> Boxes]
      /\ polls \in [Ends -> [1..mix.polls -> InboxPoll]]
    BY QuietFacts
<1> DEFINE box == inbox[e]
           due == {j \in DOMAIN box : ~box[j].held}
           l == [j \in due |-> box[j].m]
           row == [Idle EXCEPT !.step = "reading", !.left = l]
<1>1. /\ due # {} /\ polls' = [polls EXCEPT ![e] = [polls[e] EXCEPT ![i] = row]]
      /\ UNCHANGED <<mix, mem, vault, directory, inbox, sends, letters, publishing>>
    BY DEF FetchEnvelopes
<1>2. row.step = "reading" /\ row.left = l /\ row.handled = {}
    BY DEF Idle
<1>3. box \in Boxes /\ DOMAIN box \in SUBSET Nat /\ \A j \in DOMAIN box : box[j].m \in Messages
    <2>1. box \in Boxes
        BY <1>0
    <2> HIDE DEF box
    <2> QED BY <2>1, BoxRows
<1>4. \A j \in DOMAIN box : For(e, box[j].m)
    BY <1>0 DEF MailOnItsWay
<1>5. due \subseteq DOMAIN box /\ \A j \in DOMAIN box \ due : box[j].held
    OBVIOUS
<1>6. DOMAIN l = due /\ \A j \in due : l[j] = box[j].m
    OBVIOUS
<1> HIDE DEF row, l, due
<1>7. /\ polls'[e][i] = row
      /\ \A p \in Ends, j \in 1..mix.polls : p # e \/ j # i => polls'[p][j] = polls[p][j]
    BY <1>0, <1>1
<1>8. /\ OneOpening' /\ Positions' /\ SendersSession' /\ ReadWasShown' /\ VaultBehind'
      /\ NothingChanged' /\ Pools' /\ OpeningFirst' /\ InboxInOrder'
    BY <1>0, <1>1, QuietFrames
<1>9. mem[e].session = None => letters[l[Min(due)]].opening
    <2> SUFFICES ASSUME mem[e].session = None PROVE letters[l[Min(due)]].opening
        OBVIOUS
    <2> DEFINE k == Min(due)
               first == Min(DOMAIN box)
    <2>1. k \in due /\ \A j \in due : k <= j
        BY <1>1, <1>3, <1>5, MinIsLeast
    <2>2. first \in DOMAIN box /\ \A j \in DOMAIN box : first <= j
        BY <1>3, <1>5, <2>1, MinIsLeast
    <2> HIDE DEF k, first
    <2>3. PICK f \in Messages : For(e, f) /\ letters[f].opening
        <3>1. box[k].m \in Messages /\ For(e, box[k].m)
            BY <1>3, <1>4, <1>5, <2>1
        <3> QED BY <3>1, OpeningToo
    <2>4. vault[e].session = None
        BY <1>0 DEF SendersSession, QuietParts
    <2>5. box[first].m = f /\ (box[first].held => DOMAIN box = {first})
        BY <1>0, <2>2, <2>3, <2>4 DEF InboxInOrder, QuietParts, For, ForIn, first
    <2>6. first \in due
        BY <1>5, <2>1, <2>2, <2>5 DEF due
    <2>7. first = k
        BY <1>3, <1>5, <2>1, <2>2, <2>6
    <2> QED BY <1>6, <2>1, <2>3, <2>5, <2>7 DEF k
<1>10. PollsInOrder'
    BY <1>0, <1>1, <1>2, <1>6, <1>7, <1>9 DEF PollsInOrder, QuietParts
<1>11. NothingLost'
    <2>1. \A p \in Ends : Waiting(p)' = Waiting(p)
        BY <1>1 DEF Waiting
    <2>2. \A n \in Messages : letters[n] # None => letters[n].to \in Ends
        BY QuietFacts DEF LetterRow
    <2> QED BY <1>0, <1>1, <1>2, <1>7, <2>1, <2>2 DEF NothingLost, Arrived, QuietParts
<1> QED BY <1>8, <1>10, <1>11 DEF QuietParts

LEMMA QuietProcess ==
    ASSUME QuietState, NEW e \in Ends, NEW i \in 1..mix.polls, ProcessEnvelope(e, i), accidents' = {}
    PROVE  QuietParts'
<1>0. /\ MailType /\ QuietParts /\ mem \in [Ends -> BrowserRow]
      /\ polls \in [Ends -> [1..mix.polls -> InboxPoll]] /\ letters \in [Messages -> LetterRow \cup {None}]
    BY QuietFacts
<1>1. PICK m \in Messages, now \in BrowserRow :
          /\ For(e, m) /\ ReadEffect(e, m, now)
          /\ polls' = [polls EXCEPT ![e] = [polls[e] EXCEPT ![i] = Onward(polls[e][i], {m})]]
    BY QuietRead
<1>2. /\ polls[e][i].step = "reading"
      /\ UNCHANGED <<mix, vault, directory, inbox, sends, letters, publishing, accepted, late>>
    BY QuietRead
<1> DEFINE row == Onward(polls[e][i], {m})
<1>3. row.step = "reading" /\ row.handled = polls[e][i].handled \cup {m}
    <2>1. polls[e][i] \in InboxPoll /\ {m} \in SUBSET Messages
        BY <1>0
    <2> QED BY <1>2, <2>1, OnwardParts
<1> HIDE DEF row
<1>4. /\ polls'[e][i] = row
      /\ \A p \in Ends, j \in 1..mix.polls : p # e \/ j # i => polls'[p][j] = polls[p][j]
    BY <1>0, <1>1 DEF row
<1>5. /\ now.session # None /\ (mem[e].session # None => now.session = mem[e].session)
      /\ now.next = mem[e].next /\ now.spk = mem[e].spk /\ now.blocked = mem[e].blocked
      /\ now.read \subseteq mem[e].read \cup {letters[m].at}
      /\ now.history[m] > 0 /\ \A n \in Messages : mem[e].history[n] > 0 => now.history[n] > 0
      /\ now.otps \subseteq mem[e].otps
      /\ mem'[e] = now /\ \A p \in Ends : p # e => mem'[p] = mem[p]
    BY <1>0, <1>1 DEF ReadEffect
<1>6. OneOpening' /\ OpeningFirst' /\ InboxInOrder'
    BY <1>0, <1>2, QuietFrames
<1>7. NothingChanged'
    BY <1>0, <1>2, <1>5 DEF NothingChanged, QuietParts
<1>8. SendersSession'
    BY <1>0, <1>2, <1>5 DEF SendersSession, QuietParts, For, ForIn
<1>9. Positions'
    <2>1. \A p \in Ends : mem'[p].next = mem[p].next
        BY <1>5
    <2>2. \A p \in Ends : mem'[Peer(p)].next = mem[Peer(p)].next
        BY <2>1, PeerOther
    <2> QED BY <1>0, <1>2, <2>2 DEF Positions, QuietParts, For, ForIn
<1>10. ReadWasShown'
    <2>1. ReadShown(letters, e, now)
        <3> SUFFICES ASSUME NEW r \in now.read
                     PROVE  \E n \in Messages : ForIn(letters, e, n) /\ letters[n].at = r /\ now.history[n] > 0
            BY DEF ReadShown
        <3>1. CASE r \in mem[e].read
            BY <1>0, <1>5, <3>1 DEF ReadWasShown, ReadShown, QuietParts
        <3>2. CASE r = letters[m].at
            BY <1>1, <1>5, <3>2 DEF For
        <3> QED BY <1>5, <3>1, <3>2
    <2> QED BY <1>0, <1>2, <1>5, <2>1 DEF ReadWasShown, QuietParts
<1>11. VaultBehind'
    BY <1>0, <1>2, <1>5 DEF VaultBehind, QuietParts
<1>12. Pools'
    <2>1. Pool(e, now, directory[e], publishing[e], sends, letters)
        BY <1>5 DEF Pool
    <2> QED BY <1>0, <1>2, <1>5, <2>1 DEF Pools, QuietParts
<1>13. PollsInOrder'
    <2>1. ASSUME NEW p \in Ends, NEW j \in 1..mix.polls, mem'[p].session = None, DOMAIN polls'[p][j].left # {}
          PROVE  letters[polls'[p][j].left[Min(DOMAIN polls'[p][j].left)]].opening
        <3>1. p # e
            BY <1>5, <2>1
        <3>2. mem[p].session = None /\ polls'[p][j] = polls[p][j]
            BY <1>4, <1>5, <2>1, <3>1
        <3> QED BY <1>0, <2>1, <3>2 DEF PollsInOrder, QuietParts
    <2> QED BY <1>2, <2>1 DEF PollsInOrder
<1>14. NothingLost'
    <2>1. \A p \in Ends : Waiting(p)' = Waiting(p)
        BY <1>2 DEF Waiting
    <2>2. \A n \in Messages : letters[n] # None => letters[n].to \in Ends
        BY <1>0 DEF LetterRow
    <2>3. \A p \in Ends : \A j \in 1..mix.polls : polls[p][j].handled \in SUBSET Messages
        <3>1. \A p \in Ends : \A j \in 1..mix.polls : polls[p][j] \in InboxPoll
            BY <1>0
        <3> QED BY <3>1 DEF InboxPoll
    <2>4. \A n \in Messages : letters[n] # None /\ Arrived(n)' =>
              n \in Waiting(letters[n].to)' \/ vault'[letters[n].to].history[n] > 0
        BY <1>0, <1>2, <2>1, <2>2 DEF NothingLost, Arrived, QuietParts
    <2>5. \A n \in row.handled : now.history[n] > 0
        <3>1. \A n \in polls[e][i].handled : n \in Messages /\ mem[e].history[n] > 0
            BY <1>0, <1>2, <2>3 DEF NothingLost, QuietParts
        <3> QED BY <1>3, <1>5, <3>1
    <2>6. ASSUME NEW p \in Ends, NEW j \in 1..mix.polls, NEW n \in polls'[p][j].handled
          PROVE  /\ polls'[p][j].step = "reading" => mem'[p].history[n] > 0
                 /\ polls'[p][j].step = "acking" => vault[p].history[n] > 0
        <3>1. CASE p = e /\ j = i
            BY <1>3, <1>4, <1>5, <2>5, <2>6, <3>1
        <3>2. CASE ~(p = e /\ j = i)
            <4>1. polls'[p][j] = polls[p][j] /\ n \in Messages
                BY <1>4, <2>3, <2>6, <3>2
            <4>2. /\ polls[p][j].step = "reading" => mem[p].history[n] > 0
                  /\ polls[p][j].step = "acking" => vault[p].history[n] > 0
                BY <1>0, <2>6, <4>1 DEF NothingLost, QuietParts
            <4>3. mem[p].history[n] > 0 => mem'[p].history[n] > 0
                BY <1>5, <4>1
            <4> QED BY <4>1, <4>2, <4>3
        <3> QED BY <3>1, <3>2
    <2> QED BY <1>2, <2>4, <2>6 DEF NothingLost
<1> QED BY <1>6, <1>7, <1>8, <1>9, <1>10, <1>11, <1>12, <1>13, <1>14 DEF QuietParts

LEMMA QuietAcknowledge ==
    ASSUME QuietState, NEW e \in Ends, NEW i \in 1..mix.polls, Acknowledge(e, i)
    PROVE  QuietParts'
<1>0. /\ MailType /\ MailOnItsWay /\ QuietParts /\ inbox \in [Ends -> Boxes]
      /\ polls \in [Ends -> [1..mix.polls -> InboxPoll]] /\ letters \in [Messages -> LetterRow \cup {None}]
    BY QuietFacts
<1> DEFINE p == polls[e][i]
           b == inbox[e]
           kept == {j \in DOMAIN b : b[j].m \notin p.handled}
<1>1. /\ p.step = "acking" /\ polls' = [polls EXCEPT ![e] = [polls[e] EXCEPT ![i] = Idle]]
      /\ inbox' = inbox \/ inbox' = [inbox EXCEPT ![e] = IF directory[e].revoked THEN b ELSE Restrict(b, kept)]
      /\ UNCHANGED <<mix, mem, vault, directory, sends, letters, publishing>>
    BY DEF Acknowledge, Acknowledges
<1>2. p \in InboxPoll /\ p.handled \in SUBSET Messages
    <2>1. p \in InboxPoll
        BY <1>0
    <2> QED BY <2>1 DEF InboxPoll
<1>3. \A m \in p.handled : m \in Messages /\ For(e, m) /\ vault[e].history[m] > 0
    BY <1>0, <1>1, <1>2 DEF NothingLost, MailOnItsWay, QuietParts
<1>4. kept \subseteq DOMAIN b /\ DOMAIN Restrict(b, kept) = kept /\ \A j \in kept : Restrict(b, kept)[j] = b[j]
    BY DEF Restrict
<1>5. \A j \in DOMAIN b \ kept : b[j].m \in p.handled
    OBVIOUS
<1>6. p.handled = {} => kept = DOMAIN b
    OBVIOUS
<1> HIDE DEF p, b, kept
<1>7. /\ DOMAIN inbox'[e] \subseteq DOMAIN b /\ \A j \in DOMAIN inbox'[e] : inbox'[e][j] = b[j]
      /\ \A j \in DOMAIN b : j \in DOMAIN inbox'[e] \/ b[j].m \in p.handled
      /\ p.handled = {} => DOMAIN inbox'[e] = DOMAIN b
      /\ \A q \in Ends : q # e => inbox'[q] = inbox[q]
    <2>1. inbox'[e] = b \/ inbox'[e] = Restrict(b, kept)
        BY <1>0, <1>1 DEF b
    <2>2. \A q \in Ends : q # e => inbox'[q] = inbox[q]
        BY <1>0, <1>1
    <2>3. CASE inbox'[e] = b
        BY <2>2, <2>3
    <2>4. CASE inbox'[e] = Restrict(b, kept)
        BY <1>4, <1>5, <1>6, <2>2, <2>4
    <2> QED BY <2>1, <2>3, <2>4
<1>8. /\ polls'[e][i] = Idle
      /\ \A q \in Ends, j \in 1..mix.polls : q # e \/ j # i => polls'[q][j] = polls[q][j]
    BY <1>0, <1>1
<1>9. /\ OneOpening' /\ Positions' /\ SendersSession' /\ ReadWasShown' /\ VaultBehind' /\ NothingChanged' /\ Pools'
    BY <1>0, <1>1, QuietFrames
<1>10. \A n \in Messages : letters[n] # None => letters[n].to \in Ends
    BY <1>0 DEF LetterRow
<1>11. OpeningFirst'
    <2>1. \A q \in Ends : DOMAIN inbox'[q] \subseteq DOMAIN inbox[q]
        BY <1>7 DEF b
    <2>2. ASSUME NEW n \in Messages, letters[n] # None, letters[n].opening
          PROVE  /\ sends[n].step \in {"posted", "checked", "stored", "done"}
                 /\ sends[n].step \in {"posted", "checked"} => DOMAIN inbox'[letters[n].to] = {}
        <3>1. /\ sends[n].step \in {"posted", "checked", "stored", "done"}
              /\ sends[n].step \in {"posted", "checked"} => DOMAIN inbox[letters[n].to] = {}
            BY <1>0, <2>2 DEF OpeningFirst, QuietParts
        <3> QED BY <1>10, <2>1, <2>2, <3>1
    <2> QED BY <1>1, <2>2 DEF OpeningFirst
<1>12. vault[e].session = None => p.handled = {}
    BY <1>3, OneSession
<1>13. InboxInOrder'
    <2>1. ASSUME NEW n \in Messages, letters[n] # None, letters[n].opening,
                 vault[letters[n].to].session = None, DOMAIN inbox'[letters[n].to] # {}
          PROVE  LET box == inbox'[letters[n].to]
                     k == Min(DOMAIN box)
                 IN  box[k].m = n /\ (box[k].held => DOMAIN box = {k})
        <3> DEFINE q == letters[n].to
                   D == DOMAIN inbox[q]
        <3>1. q \in Ends
            BY <1>10, <2>1
        <3>2. DOMAIN inbox'[q] = D /\ \A j \in D : inbox'[q][j] = inbox[q][j]
            BY <1>7, <1>12, <2>1, <3>1 DEF b
        <3>3. D # {} => Min(D) \in D
            BY <1>0, <3>1, BoxRows
        <3>4. D # {}
            BY <2>1, <3>2
        <3>5. inbox[q][Min(D)].m = n /\ (inbox[q][Min(D)].held => D = {Min(D)})
            BY <1>0, <2>1, <3>4 DEF InboxInOrder, QuietParts
        <3> HIDE DEF D, q
        <3>6. LET box == inbox'[q]
                  k == Min(DOMAIN box)
              IN  box[k].m = n /\ (box[k].held => DOMAIN box = {k})
            BY <3>2, <3>3, <3>4, <3>5
        <3> QED BY <3>6 DEF q
    <2> QED BY <1>1, <2>1 DEF InboxInOrder
<1>14. PollsInOrder'
    <2>1. DOMAIN Idle.left = {}
        BY DEF Idle
    <2> QED BY <1>0, <1>1, <1>8, <2>1 DEF PollsInOrder, QuietParts
<1>15. NothingLost'
    <2>1. ASSUME NEW n \in Messages, letters[n] # None, Arrived(n)
          PROVE  n \in Waiting(letters[n].to)' \/ vault[letters[n].to].history[n] > 0
        <3>1. n \in Waiting(letters[n].to) \/ vault[letters[n].to].history[n] > 0
            BY <1>0, <2>1 DEF NothingLost, QuietParts
        <3>2. ASSUME NEW q \in Ends, n \in Waiting(q) PROVE n \in Waiting(q)' \/ vault[q].history[n] > 0
            <4>1. PICK j \in DOMAIN inbox[q] : inbox[q][j].m = n
                BY <3>2 DEF Waiting
            <4>2. Waiting(q)' = {inbox'[q][k].m : k \in DOMAIN inbox'[q]}
                BY DEF Waiting
            <4>3. (j \in DOMAIN inbox'[q] /\ inbox'[q][j] = inbox[q][j]) \/ (q = e /\ n \in p.handled)
                BY <1>7, <4>1 DEF b
            <4> QED BY <1>3, <4>1, <4>2, <4>3
        <3>3. \A q \in Ends : q = letters[n].to => n \in Waiting(q)' \/ vault[q].history[n] > 0
            BY <3>1, <3>2
        <3> QED BY <1>1, <1>10, <2>1, <3>3
    <2>2. \A n : Arrived(n)' => Arrived(n)
        BY <1>1 DEF Arrived
    <2>3. Idle.step = "idle"
        BY DEF Idle
    <2>4. \A q \in Ends : \A j \in 1..mix.polls :
              /\ polls'[q][j].step = "reading" => \A m \in polls'[q][j].handled : mem[q].history[m] > 0
              /\ polls'[q][j].step = "acking" => \A m \in polls'[q][j].handled : vault[q].history[m] > 0
        BY <1>0, <1>8, <2>3 DEF NothingLost, QuietParts
    <2> QED BY <1>1, <2>1, <2>2, <2>4 DEF NothingLost
<1> QED BY <1>9, <1>11, <1>13, <1>14, <1>15 DEF QuietParts

-----------------------------------------------------------------------------
(* Mail: a quiet conversation, writing and restarting *)

LEMMA QuietRestart ==
    ASSUME QuietState, NEW e \in Ends, Restart(e), accidents' = {}
    PROVE  QuietParts'
<1>0. /\ MailType /\ MailLetters /\ QuietParts /\ mem \in [Ends -> BrowserRow] /\ vault \in [Ends -> BrowserRow]
      /\ polls \in [Ends -> [1..mix.polls -> InboxPoll]] /\ letters \in [Messages -> LetterRow \cup {None}]
      /\ publishing \in [Ends -> Publication \cup {None}]
    BY QuietFacts
<1>1. /\ mem' = [mem EXCEPT ![e] = vault[e]]
      /\ polls' = [polls EXCEPT ![e] = [i \in 1..mix.polls |-> Idle]]
      /\ mem[e].next = vault[e].next /\ mem[e].session = vault[e].session
      /\ UNCHANGED <<mix, vault, directory, inbox, letters>>
    BY DEF Restart
<1>2. mem'[e] = vault[e] /\ \A p \in Ends : p # e => mem'[p] = mem[p]
    BY <1>0, <1>1
<1>3. \A m \in Messages :
          /\ sends'[m].step = sends[m].step \/ (sends[m].step = "bundle" /\ sends'[m].step = "failed")
          /\ sends'[m].step = "bundle" => sends'[m] = sends[m]
    BY <1>0, Restarts
<1> DEFINE row == IF publishing[e] # None /\ publishing[e].step = "sent"
                  THEN [publishing[e] EXCEPT !.live = FALSE] ELSE None
<1>4. publishing' = [publishing EXCEPT ![e] = row]
    BY DEF Restart
<1>5. row # None => publishing[e] # None /\ row.otps = publishing[e].otps /\ row.spk = publishing[e].spk
    BY <1>0 DEF Publication
<1> HIDE DEF row
<1>6. publishing'[e] = row /\ \A p \in Ends : p # e => publishing'[p] = publishing[p]
    BY <1>0, <1>4
<1>7. OneOpening' /\ InboxInOrder'
    BY <1>0, <1>1, QuietFrames
<1>8. OpeningFirst'
    <2>1. \A m \in Messages : letters[m] # None => sends'[m].step = sends[m].step
        BY <1>0, <1>3 DEF MailLetters
    <2> QED BY <1>0, <1>1, <2>1 DEF OpeningFirst, QuietParts
<1>9. NothingChanged'
    <2>1. \A p \in Ends : publishing'[p] # None => publishing[p] # None /\ publishing'[p].spk = publishing[p].spk
        BY <1>5, <1>6
    <2>2. \A p \in Ends : mem'[p] \in {mem[p], vault[p]}
        BY <1>2
    <2>3. ASSUME NEW p \in Ends
          PROVE  /\ ~mem'[p].blocked /\ ~vault[p].blocked /\ ~directory[p].revoked
                 /\ mem'[p].spk = 1 /\ vault[p].spk = 1 /\ directory[p].spk = 1
                 /\ publishing'[p] # None => publishing'[p].spk = 1
        BY <1>0, <2>1, <2>2 DEF NothingChanged, QuietParts
    <2>4. \A m \in Messages : /\ sends'[m].step = "bundle" => sends'[m].spk = 1
                              /\ letters[m] # None => letters[m].session.spk = 1
        BY <1>0, <1>3 DEF NothingChanged, QuietParts
    <2> QED BY <1>1, <2>3, <2>4 DEF NothingChanged
<1>10. SendersSession'
    BY <1>0, <1>1, <1>2 DEF SendersSession, QuietParts, For, ForIn
<1>11. Positions'
    <2>1. \A p \in Ends : mem'[p].next = mem[p].next
        BY <1>1, <1>2
    <2>2. \A p \in Ends : mem'[Peer(p)].next = mem[Peer(p)].next
        BY <2>1, PeerOther
    <2> QED BY <1>0, <1>1, <2>2 DEF Positions, QuietParts, For, ForIn
<1>12. ReadWasShown'
    BY <1>0, <1>1, <1>2 DEF ReadWasShown, QuietParts
<1>13. VaultBehind'
    BY <1>0, <1>1, <1>2 DEF VaultBehind, QuietParts
<1>14. ASSUME NEW p \in Ends, NEW kept, Pool(p, kept, directory[p], publishing[p], sends, letters)
       PROVE  Pool(p, kept, directory[p], publishing'[p], sends', letters)
    <2>1. publishing'[p] # None => publishing[p] # None /\ publishing'[p].otps = publishing[p].otps
        BY <1>5, <1>6
    <2> QED BY <1>3, <1>14, <2>1 DEF Pool
<1>15. Pools'
    <2>1. \A p \in Ends : mem'[p] \in {mem[p], vault[p]}
        BY <1>2
    <2>2. \A p \in Ends : \A kept \in {mem[p], vault[p]} : Pool(p, kept, directory[p], publishing[p], sends, letters)
        BY <1>0 DEF Pools, QuietParts
    <2> QED BY <1>1, <1>14, <2>1, <2>2 DEF Pools
<1>16. \A p \in Ends, i \in 1..mix.polls : polls'[p][i] = Idle \/ (p # e /\ polls'[p][i] = polls[p][i])
    BY <1>0, <1>1
<1>17. PollsInOrder'
    <2>1. DOMAIN Idle.left = {}
        BY DEF Idle
    <2>2. ASSUME NEW p \in Ends, NEW i \in 1..mix.polls, mem'[p].session = None, DOMAIN polls'[p][i].left # {}
          PROVE  letters[polls'[p][i].left[Min(DOMAIN polls'[p][i].left)]].opening
        <3>1. p # e /\ polls'[p][i] = polls[p][i]
            BY <1>16, <2>1, <2>2
        <3> QED BY <1>0, <1>2, <2>2, <3>1 DEF PollsInOrder, QuietParts
    <2> QED BY <1>1, <2>2 DEF PollsInOrder
<1>18. NothingLost'
    <2>1. \A p \in Ends : Waiting(p)' = Waiting(p)
        BY <1>1 DEF Waiting
    <2>2. \A n \in Messages : letters[n] # None => letters[n].to \in Ends
        BY <1>0 DEF LetterRow
    <2>3. \A n \in Messages : Arrived(n)' => Arrived(n)
        BY <1>3 DEF Arrived
    <2>4. Idle.step = "idle"
        BY DEF Idle
    <2>5. ASSUME NEW p \in Ends, NEW i \in 1..mix.polls
          PROVE  /\ polls'[p][i].step = "reading" => \A m \in polls'[p][i].handled : mem'[p].history[m] > 0
                 /\ polls'[p][i].step = "acking" => \A m \in polls'[p][i].handled : vault[p].history[m] > 0
        <3>1. CASE polls'[p][i] = Idle
            BY <2>4, <3>1
        <3>2. CASE p # e /\ polls'[p][i] = polls[p][i]
            BY <1>0, <1>2, <3>2 DEF NothingLost, QuietParts
        <3> QED BY <1>16, <3>1, <3>2
    <2> QED BY <1>0, <1>1, <2>1, <2>2, <2>3, <2>5 DEF NothingLost, QuietParts
<1> QED BY <1>7, <1>8, <1>9, <1>10, <1>11, <1>12, <1>13, <1>15, <1>17, <1>18 DEF QuietParts

LEMMA QuietEncrypt ==
    ASSUME QuietState, NEW m \in Messages, Encrypt(m), accidents' = {}
    PROVE  QuietParts'
<1>0. /\ MailType /\ MailLetters /\ MailOnItsWay /\ QuietParts /\ mem \in [Ends -> BrowserRow] /\ vault \in [Ends -> BrowserRow]
      /\ polls \in [Ends -> [1..mix.polls -> InboxPoll]] /\ letters \in [Messages -> LetterRow \cup {None}]
      /\ sends \in [Messages -> LetterStep] /\ inbox \in [Ends -> Boxes]
    BY QuietFacts
<1>1. PICK e \in Ends, session \in Sessions, letter \in LetterRow, row \in LetterStep :
          EncryptEffect(m, e, session, letter, row)
    BY <1>0, Encrypts
<1> DEFINE now == Writing(mem[e], session, mem[e].next + 1)
           p == Peer(e)
<1>2. /\ e = sends[m].by /\ session = SessionOf(m)
      /\ sends[m].step = "bundle" /\ letters[m] = None
      /\ letter.to = p /\ letter.session = session /\ letter.at = mem[e].next + 1
      /\ letter.opening = StartsSession(e)
      /\ row.step = "posted" /\ row.by = e
      /\ mem' = [mem EXCEPT ![e] = now]
      /\ letters' = [letters EXCEPT ![m] = letter] /\ sends' = [sends EXCEPT ![m] = row]
      /\ StartsSession(e) => ~OpenedBefore
      /\ UNCHANGED <<mix, faults, vault, directory, inbox, polls, publishing, accepted, late>>
    BY <1>1 DEF EncryptEffect
<1>3. p \in Ends /\ p # e /\ Peer(p) = e /\ \A q \in Ends : q # e => q = p
    BY PeerOther
<1>4. mem[e] \in BrowserRow /\ mem[e].next \in Nat /\ mem[e].next + 1 \in Nat
    <2>1. mem[e] \in BrowserRow
        BY <1>0
    <2> QED BY <2>1 DEF BrowserRow
<1>5. /\ now \in BrowserRow /\ now.session = session /\ now.next = mem[e].next + 1 /\ now.read = mem[e].read
      /\ now.otps = mem[e].otps /\ now.history = mem[e].history /\ now.spk = mem[e].spk
      /\ now.blocked = mem[e].blocked
    <2> DEFINE at == mem[e].next + 1
               w == Writing(mem[e], session, at)
    <2>1. at \in Nat /\ mem[e] \in BrowserRow
        BY <1>4
    <2> HIDE DEF at, now
    <2>2. /\ w \in BrowserRow /\ w.session = session /\ w.next = at /\ w.read = mem[e].read
          /\ w.otps = mem[e].otps /\ w.history = mem[e].history /\ w.spk = mem[e].spk
          /\ w.blocked = mem[e].blocked
        BY <2>1, WritingParts
    <2>3. now = w
        BY DEF now, at
    <2> HIDE DEF w
    <2> QED BY <2>2, <2>3 DEF at
<1>6. letter # None /\ session # None
    BY NoneAssumption DEF LetterRow, Sessions
<1> HIDE DEF now, p
<1>7. /\ mem'[e] = now /\ \A q \in Ends : q # e => mem'[q] = mem[q]
      /\ letters'[m] = letter /\ \A n \in Messages : n # m => letters'[n] = letters[n]
      /\ sends'[m] = row /\ \A n \in Messages : n # m => sends'[n] = sends[n]
    BY <1>0, <1>2
<1>8. /\ StartsSession(e) => session = Initiated(m) /\ mem[e].session = None
      /\ ~StartsSession(e) => session = mem[e].session
    BY <1>2 DEF SessionOf, StartsSession
<1>9. \A n \in Messages : letters[n] # None => n # m /\ letters'[n] = letters[n]
    BY <1>2, <1>7
<1>10. OneOpening'
    <2>1. ASSUME NEW n \in Messages, letters'[n] # None, letters'[n].opening, NEW k \in Messages,
                 letters'[k] # None, letters'[k].opening, n # m
          PROVE  n = k
        <3>1. letters[n] # None /\ letters[n].opening
            BY <1>7, <2>1
        <3>2. OpenedBefore
            BY <3>1 DEF OpenedBefore
        <3>3. k # m
            BY <1>2, <1>7, <2>1, <3>2
        <3>4. letters[k] # None /\ letters[k].opening
            BY <1>7, <2>1, <3>3
        <3> QED BY <1>0, <3>1, <3>4 DEF OneOpening, QuietParts
    <2> QED BY <2>1 DEF OneOpening
<1>11. session.spk = 1
    <2>1. CASE StartsSession(e)
        <3>1. sends[m].spk = 1
            BY <1>0, <1>2 DEF NothingChanged, QuietParts
        <3> QED BY <1>8, <2>1, <3>1 DEF Initiated
    <2>2. CASE ~StartsSession(e)
        <3>1. KeepsOk(e, mem[e], letters, Done, Made, Calm)
            BY QuietFacts DEF MailInv
        <3>2. mem[e].session # None /\ Named(session, letters, Made)
            BY <1>8, <2>2, <3>1 DEF KeepsOk, StartsSession
        <3>3. session.first \in Messages /\ letters[session.first] # None /\ letters[session.first].session = session
            BY <3>2 DEF Named, Sessions
        <3> QED BY <1>0, <3>3 DEF NothingChanged, QuietParts
    <2> QED BY <2>1, <2>2
<1>12. NothingChanged'
    <2>1. \A q \in Ends : mem'[q].blocked = mem[q].blocked /\ mem'[q].spk = mem[q].spk
        BY <1>5, <1>7
    <2>2. \A n \in Messages : /\ sends'[n].step = "bundle" => sends'[n] = sends[n]
                              /\ letters'[n] # None => letters'[n].session.spk = 1
        BY <1>0, <1>2, <1>7, <1>11 DEF NothingChanged, QuietParts
    <2> QED BY <1>0, <1>2, <2>1, <2>2 DEF NothingChanged, QuietParts
<1>13. \A q \in Ends, n \in Messages : ForIn(letters', q, n) <=> (n = m /\ q = p) \/ (n # m /\ For(q, n))
    BY <1>2, <1>6, <1>7 DEF For, ForIn
<1>14. SendersSession'
    <2>1. ASSUME NEW q \in Ends, mem'[q].session = None
          PROVE  mem'[q].next = 0 /\ mem'[q].read = {} /\ \A n \in Messages : ~ForIn(letters', Peer(q), n)
        <3>1. q # e
            BY <1>5, <1>6, <1>7, <2>1
        <3>2. q = p /\ Peer(q) = e /\ mem'[q] = mem[q]
            BY <1>3, <1>7, <3>1
        <3>3. mem[q].next = 0 /\ mem[q].read = {} /\ \A n \in Messages : ~For(Peer(q), n)
            BY <1>0, <2>1, <3>2 DEF SendersSession, QuietParts
        <3> QED BY <1>3, <1>13, <3>2, <3>3
    <2>2. ASSUME NEW q \in Ends
          PROVE  /\ vault[q].session # None => mem'[q].session = vault[q].session
                 /\ vault[q].session = None => vault[q].next = 0 /\ vault[q].read = {}
        <3>1. /\ vault[q].session # None => mem[q].session = vault[q].session
              /\ vault[q].session = None => vault[q].next = 0 /\ vault[q].read = {}
            BY <1>0 DEF SendersSession, QuietParts
        <3>2. q = e /\ vault[q].session # None => mem'[q].session = vault[q].session
            BY <1>5, <1>7, <1>8, <3>1 DEF StartsSession
        <3> QED BY <1>7, <3>1, <3>2
    <2> QED BY <1>2, <2>1, <2>2 DEF SendersSession, For
<1>15. Positions'
    <2>1. \A q \in Ends, n \in Messages : For(q, n) => letters[n].at >= 1 /\ letters[n].at <= mem[Peer(q)].next
        BY <1>0 DEF Positions, QuietParts
    <2>2. \A q \in Ends, n, k \in Messages : For(q, n) /\ For(q, k) /\ letters[n].at = letters[k].at => n = k
        BY <1>0 DEF Positions, QuietParts
    <2>3. \A n \in Messages : letters[n] # None => letters[n].at \in Nat
        BY <1>0 DEF LetterRow
    <2>4. \A q \in Ends : Peer(q) \in Ends /\ (Peer(q) = e => q = p)
        BY PeerOther DEF p
    <2>5. ASSUME NEW q \in Ends, NEW n \in Messages, ForIn(letters', q, n)
          PROVE  letters'[n].at >= 1 /\ letters'[n].at <= mem'[Peer(q)].next
        <3>1. CASE n = m
            <4>1. q = p /\ Peer(q) = e
                BY <1>3, <1>13, <2>5, <3>1
            <4> QED BY <1>2, <1>4, <1>5, <1>7, <3>1, <4>1
        <3>2. CASE n # m
            <4>1. For(q, n) /\ letters'[n] = letters[n] /\ letters[n] # None
                BY <1>7, <1>13, <2>5, <3>2 DEF For, ForIn
            <4>2. letters[n].at >= 1 /\ letters[n].at <= mem[Peer(q)].next /\ letters[n].at \in Nat
                BY <2>1, <2>3, <4>1
            <4>3. CASE Peer(q) = e
                BY <1>4, <1>5, <1>7, <4>1, <4>2, <4>3
            <4>4. CASE Peer(q) # e
                BY <1>7, <2>4, <4>1, <4>2, <4>4
            <4> QED BY <4>3, <4>4
        <3> QED BY <3>1, <3>2
    <2>6. \A n \in Messages : For(p, n) => letters[n].at # mem[e].next + 1
        BY <1>3, <1>4, <2>1, <2>3 DEF For, ForIn
    <2>7. ASSUME NEW q \in Ends, NEW n \in Messages, NEW k \in Messages, ForIn(letters', q, n), ForIn(letters', q, k),
                 letters'[n].at = letters'[k].at
          PROVE  n = k
        <3>1. CASE n # m /\ k # m
            BY <1>7, <1>13, <2>2, <2>7, <3>1
        <3>2. CASE n = m /\ k # m
            BY <1>2, <1>7, <1>13, <2>6, <2>7, <3>2
        <3>3. CASE n # m /\ k = m
            BY <1>2, <1>7, <1>13, <2>6, <2>7, <3>3
        <3> QED BY <3>1, <3>2, <3>3
    <2> QED BY <2>5, <2>7 DEF Positions, For
<1>16. ReadWasShown'
    <2>1. ASSUME NEW q \in Ends, NEW kept, NEW kept2, ReadShown(letters, q, kept),
                 kept2.read = kept.read, kept2.history = kept.history
          PROVE  ReadShown(letters', q, kept2)
        <3> SUFFICES ASSUME NEW r \in kept2.read
                     PROVE  \E n \in Messages : ForIn(letters', q, n) /\ letters'[n].at = r /\ kept2.history[n] > 0
            BY DEF ReadShown
        <3>1. PICK n \in Messages : ForIn(letters, q, n) /\ letters[n].at = r /\ kept.history[n] > 0
            BY <2>1 DEF ReadShown
        <3>2. n # m /\ letters'[n] = letters[n]
            BY <1>9, <3>1 DEF ForIn
        <3> QED BY <2>1, <3>1, <3>2 DEF ForIn
    <2>2. \A q \in Ends : mem'[q].read = mem[q].read /\ mem'[q].history = mem[q].history
        BY <1>5, <1>7
    <2>3. \A q \in Ends : ReadShown(letters, q, mem[q]) /\ ReadShown(letters, q, vault[q])
        BY <1>0 DEF ReadWasShown, QuietParts
    <2>4. \A q \in Ends : ReadShown(letters', q, mem'[q]) /\ ReadShown(letters', q, vault[q])
        BY <2>1, <2>2, <2>3
    <2> QED BY <1>2, <2>4 DEF ReadWasShown
<1>17. VaultBehind'
    BY <1>0, <1>2, <1>5, <1>7 DEF VaultBehind, QuietParts
<1>18. Pools'
    <2>1. \A n \in Messages : sends'[n].step = "bundle" => sends'[n] = sends[n]
        BY <1>2, <1>7
    <2>2. ASSUME NEW q \in Ends, NEW kept, Pool(q, kept, directory[q], publishing[q], sends, letters)
          PROVE  Pool(q, kept, directory[q], publishing[q], sends', letters')
        <3>1. CASE q = e
            <4>1. \A n \in Messages : ForIn(letters', q, n) /\ letters'[n].opening =>
                      ForIn(letters, q, n) /\ letters'[n] = letters[n]
                BY <1>3, <1>7, <1>13, <3>1 DEF For
            <4> QED BY <2>1, <2>2, <4>1 DEF Pool
        <3>2. CASE q # e
            <4>1. kept.session = None /\ StartsSession(e) => session.otp \in kept.otps \cup {0}
                BY <1>2, <1>8, <2>2, <3>2 DEF Pool, Initiated
            <4>2. \A n \in Messages : n # m /\ ForIn(letters', q, n) /\ letters'[n].opening =>
                      ForIn(letters, q, n) /\ letters'[n] = letters[n]
                BY <1>7, <1>13 DEF For
            <4>3. kept.session = None /\ letters'[m].opening => letters'[m].session.otp \in kept.otps \cup {0}
                BY <1>2, <1>7, <4>1
            <4>4. kept.session = None => \A n \in Messages : ForIn(letters', q, n) /\ letters'[n].opening =>
                      letters'[n].session.otp \in kept.otps \cup {0}
                <5> SUFFICES ASSUME kept.session = None, NEW n \in Messages, ForIn(letters', q, n), letters'[n].opening
                             PROVE  letters'[n].session.otp \in kept.otps \cup {0}
                    OBVIOUS
                <5>1. CASE n = m
                    BY <4>3, <5>1
                <5>2. CASE n # m
                    <6>1. ForIn(letters, q, n) /\ letters'[n] = letters[n]
                        BY <4>2, <5>2
                    <6> QED BY <2>2, <6>1 DEF Pool
                <5> QED BY <5>1, <5>2
            <4> QED BY <2>1, <2>2, <4>4 DEF Pool
        <3> QED BY <3>1, <3>2
    <2>3. Pool(e, now, directory[e], publishing[e], sends', letters')
        BY <1>5, <1>6 DEF Pool
    <2> QED BY <1>0, <1>2, <1>7, <2>2, <2>3 DEF Pools, QuietParts
<1>19. StartsSession(e) => DOMAIN inbox[p] = {}
    <2> SUFFICES ASSUME StartsSession(e), NEW j \in DOMAIN inbox[p] PROVE FALSE
        OBVIOUS
    <2>1. For(p, inbox[p][j].m) /\ inbox[p][j].m \in Messages
        BY <1>0, <1>3, BoxRows DEF MailOnItsWay
    <2>2. \A n \in Messages : ~For(p, n)
        BY <1>0 DEF SendersSession, QuietParts, StartsSession, p
    <2> QED BY <2>1, <2>2
<1>20. OpeningFirst'
    <2>1. ASSUME NEW n \in Messages, letters'[n] # None, letters'[n].opening
          PROVE  /\ sends'[n].step \in {"posted", "checked", "stored", "done"}
                 /\ sends'[n].step \in {"posted", "checked"} => DOMAIN inbox[letters'[n].to] = {}
        <3>1. CASE n = m
            BY <1>2, <1>7, <1>19, <2>1, <3>1
        <3>2. CASE n # m
            BY <1>0, <1>7, <2>1, <3>2 DEF OpeningFirst, QuietParts
        <3> QED BY <3>1, <3>2
    <2> QED BY <1>2, <2>1 DEF OpeningFirst
<1>21. InboxInOrder'
    <2>1. ASSUME NEW n \in Messages, letters'[n] # None, letters'[n].opening,
                 vault[letters'[n].to].session = None, DOMAIN inbox[letters'[n].to] # {}
          PROVE  LET box == inbox[letters'[n].to]
                     i == Min(DOMAIN box)
                 IN  box[i].m = n /\ (box[i].held => DOMAIN box = {i})
        <3>1. n # m
            BY <1>2, <1>7, <1>19, <2>1
        <3> QED BY <1>0, <1>7, <2>1, <3>1 DEF InboxInOrder, QuietParts
    <2> QED BY <1>2, <2>1 DEF InboxInOrder
<1>22. PollsInOrder'
    <2>1. ASSUME NEW q \in Ends, NEW i \in 1..mix.polls, mem'[q].session = None, DOMAIN polls[q][i].left # {}
          PROVE  letters'[polls[q][i].left[Min(DOMAIN polls[q][i].left)]].opening
        <3>1. q # e /\ mem[q].session = None
            BY <1>5, <1>6, <1>7, <2>1
        <3> DEFINE n == polls[q][i].left[Min(DOMAIN polls[q][i].left)]
        <3>2. letters[n].opening
            BY <1>0, <2>1, <3>1 DEF PollsInOrder, QuietParts
        <3>3. polls[q][i].left \in Fetched
            <4>1. polls[q][i] \in InboxPoll
                BY <1>0
            <4> QED BY <4>1 DEF InboxPoll
        <3>4. Min(DOMAIN polls[q][i].left) \in DOMAIN polls[q][i].left /\ n \in Messages
            BY <2>1, <3>3, FetchedRows
        <3>5. For(q, n)
            BY <1>0, <3>4 DEF MailOnItsWay
        <3> HIDE DEF n
        <3>6. letters'[n] = letters[n]
            BY <1>9, <3>4, <3>5 DEF For, ForIn
        <3> QED BY <3>2, <3>6 DEF n
    <2> QED BY <1>2, <2>1 DEF PollsInOrder
<1>23. NothingLost'
    <2>1. \A n \in Messages : Arrived(n)' => n # m /\ Arrived(n)
        BY <1>2, <1>7 DEF Arrived
    <2>2. \A q \in Ends : Waiting(q)' = Waiting(q)
        BY <1>2 DEF Waiting
    <2>3. \A n \in Messages : letters[n] # None => letters[n].to \in Ends
        BY <1>0 DEF LetterRow
    <2>4. \A q \in Ends : mem'[q].history = mem[q].history
        BY <1>5, <1>7
    <2>5. ASSUME NEW n \in Messages, letters'[n] # None, Arrived(n)'
          PROVE  (n \in Waiting(letters[n].to) \/ vault[letters[n].to].history[n] > 0)'
        <3>1. n # m /\ letters'[n] = letters[n] /\ Arrived(n) /\ letters[n].to \in Ends
            BY <1>7, <2>1, <2>3, <2>5
        <3>2. n \in Waiting(letters[n].to) \/ vault[letters[n].to].history[n] > 0
            BY <1>0, <2>5, <3>1 DEF NothingLost, QuietParts
        <3>3. \A q \in Ends : q = letters[n].to => n \in Waiting(q)' \/ vault[q].history[n] > 0
            BY <2>2, <3>2
        <3> QED BY <1>2, <3>1, <3>3
    <2>6. ASSUME NEW q \in Ends, NEW i \in 1..mix.polls
          PROVE  /\ polls[q][i].step = "reading" => \A n \in polls[q][i].handled : mem'[q].history[n] > 0
                 /\ polls[q][i].step = "acking" => \A n \in polls[q][i].handled : vault[q].history[n] > 0
        BY <1>0, <2>4, <2>6 DEF NothingLost, QuietParts
    <2> QED BY <1>2, <2>5, <2>6 DEF NothingLost
<1> QED BY <1>10, <1>12, <1>14, <1>15, <1>16, <1>17, <1>18, <1>20, <1>21, <1>22, <1>23 DEF QuietParts

\* Accidents stay.
LEMMA AccidentsStay ==
    ASSUME MailTyped, [Next]_vars
    PROVE  accidents \subseteq accidents'
<1>0. MailType /\ MailOnItsWay
    BY DEF MailTyped, MailInv
<1>1. ASSUME NEW m \in Messages, SendStep(m) PROVE accidents \subseteq accidents'
    BY <1>1 DEF SendStep, AskBundle, Encrypt, PostFails, LookUpDevices, SaveSent, StoreEnvelope
<1>2. ASSUME NEW e \in Ends, BrowserStep(e) PROVE accidents \subseteq accidents'
    BY <1>2 DEF BrowserStep, PublishDevice, Release, Restart, StoreDevice, TopUp, DeleteConversation, SetBlocked, RevokeDevice
<1>3. ASSUME NEW e \in Ends, NEW i \in 1..mix.polls, PollStep(e, i) PROVE accidents \subseteq accidents'
    <2>1. CASE ProcessEnvelope(e, i)
        <3>1. PICK m \in Messages : Leaves(e, i, m) \/ Strange(e, i, m) \/ \E agree \in BOOLEAN : Reads(e, i, m, agree)
            BY <1>0, <2>1, ProcessEffect
        <3> QED BY <3>1 DEF Leaves, Strange, Reads
    <2>2. CASE FetchEnvelopes(e, i) \/ PersistInbox(e, i) \/ Acknowledge(e, i)
        BY <2>2 DEF FetchEnvelopes, PersistInbox, Acknowledge
    <2> QED BY <1>3, <2>1, <2>2 DEF PollStep
<1>4. CASE UNCHANGED vars
    BY <1>4 DEF vars
<1> QED BY <1>1, <1>2, <1>3, <1>4, MailSteps

LEMMA QuietInit == Init => QuietInv
<1> SUFFICES ASSUME Init PROVE QuietParts
    BY DEF QuietInv
<1>1. /\ \A m \in Messages : letters[m] = None /\ sends[m] = Unwritten
      /\ \A e \in Ends : mem[e] = NewDevice /\ vault[e] = NewDevice
      /\ \A e \in Ends : directory[e] = [spk |-> 1, otps |-> {1}, made |-> 1, revoked |-> FALSE]
      /\ \A e \in Ends : inbox[e] = <<>> /\ publishing[e] = None
      /\ \A e \in Ends : \A i \in 1..mix.polls : polls[e][i] = Idle
    BY DEF Init
<1>2. /\ NewDevice.session = None /\ NewDevice.next = 0 /\ NewDevice.read = {} /\ ~NewDevice.blocked
      /\ NewDevice.spk = 1 /\ NewDevice.otps = {1} /\ \A m \in Messages : NewDevice.history[m] = 0
    BY DEF NewDevice
<1>3. Unwritten.step = "new" /\ Idle.step = "idle" /\ DOMAIN Idle.left = {}
    BY DEF Unwritten, Idle
<1> HIDE DEF NewDevice, Unwritten, Idle
<1>4. OneOpening /\ OpeningFirst /\ InboxInOrder
    BY <1>1 DEF OneOpening, OpeningFirst, InboxInOrder
<1>5. NothingChanged
    BY <1>1, <1>2, <1>3 DEF NothingChanged
<1>6. SendersSession /\ Positions
    BY <1>1, <1>2 DEF SendersSession, Positions, For, ForIn
<1>7. ReadWasShown /\ VaultBehind
    BY <1>1, <1>2 DEF ReadWasShown, ReadShown, VaultBehind
<1>8. Pools
    BY <1>1, <1>2, <1>3 DEF Pools, Pool, ForIn
<1>9. PollsInOrder
    BY <1>1, <1>3 DEF PollsInOrder
<1>10. NothingLost
    BY <1>1, <1>3 DEF NothingLost
<1> QED BY <1>4, <1>5, <1>6, <1>7, <1>8, <1>9, <1>10 DEF QuietParts

LEMMA QuietStep ==
    ASSUME MailTyped, QuietInv, [Next]_vars
    PROVE  QuietInv'
<1> SUFFICES ASSUME accidents' = {} PROVE QuietParts'
    BY DEF QuietInv, Quiet
<1>1. QuietState /\ MailType /\ MailOnItsWay
    <2>1. accidents = {}
        BY AccidentsStay
    <2> QED BY <2>1 DEF QuietState, QuietInv, Quiet, MailTyped, MailInv
<1>2. ASSUME NEW m \in Messages, SendStep(m) PROVE QuietParts'
    BY <1>1, <1>2, QuietAsk, QuietEncrypt, QuietPostFails, QuietLookUp, QuietSaveSent, QuietStore DEF SendStep
<1>3. ASSUME NEW e \in Ends, BrowserStep(e) PROVE QuietParts'
    <2>1. ~DeleteConversation(e) /\ ~SetBlocked(e) /\ ~RevokeDevice(e)
        BY DEF DeleteConversation, SetBlocked, RevokeDevice
    <2> QED BY <1>1, <1>3, <2>1, QuietPublish, QuietRelease, QuietRestart, QuietStoreDevice, QuietTopUp DEF BrowserStep
<1>4. ASSUME NEW e \in Ends, NEW i \in 1..mix.polls, PollStep(e, i) PROVE QuietParts'
    BY <1>1, <1>4, QuietFetch, QuietProcess, QuietPersist, QuietAcknowledge DEF PollStep
<1>5. CASE UNCHANGED vars
    <2>1. UNCHANGED <<mix, mem, vault, directory, inbox, sends, letters, polls, publishing>>
        BY <1>5 DEF vars
    <2>2. QuietParts
        BY <1>1 DEF QuietState
    <2>3. /\ OneOpening' /\ Positions' /\ SendersSession' /\ ReadWasShown' /\ VaultBehind' /\ NothingChanged' /\ Pools'
          /\ OpeningFirst' /\ InboxInOrder' /\ PollsInOrder' /\ NothingLost'
        BY <2>1, <2>2, QuietFrames
    <2> QED BY <2>3 DEF QuietParts
<1> QED BY <1>2, <1>3, <1>4, <1>5, MailSteps

LEMMA QuietDelivers ==
    ASSUME MailTyped, QuietInv
    PROVE  DeliveredOnce
<1>1. ASSUME accidents = {}, NEW m \in Messages, Stored(m) PROVE m \in Waiting(letters[m].to) \/ Saved(m)
    <2>1. NothingLost /\ letters[m] # None /\ Arrived(m)
        BY <1>1 DEF QuietInv, Quiet, QuietParts, Stored, Arrived
    <2> QED BY <2>1 DEF NothingLost, Saved
<1>2. ASSUME NEW e \in Ends, NEW m \in Messages, mem[e].history[m] > 1
      PROVE  "reset" \in accidents /\ letters[m].session.otp = 0
    <2>1. /\ KeepsOk(e, mem[e], letters, Done, Made, Calm) /\ mem \in [Ends -> BrowserRow]
          /\ letters \in [Messages -> LetterRow \cup {None}]
        BY DEF MailTyped, MailInv, MailType
    <2>2. mem[e].history[m] \in Nat /\ mem[e].history[m] > 0 /\ mem[e].history[m] # 1
        <3>1. mem[e].history \in [Messages -> Nat]
            BY <2>1 DEF BrowserRow
        <3>2. mem[e].history[m] \in Nat
            BY <3>1
        <3> QED BY <1>2, <3>2
    <2>3. letters[m] # None /\ letters[m].to = e
        BY <2>1, <2>2 DEF KeepsOk
    <2>4. letters[m].session.otp = 0 /\ ~Calm
        BY <2>1, <2>2, <2>3 DEF KeepsOk
    <2> QED BY <2>4 DEF Calm
<1> QED BY <1>1, <1>2 DEF DeliveredOnce

\* What the server took waits or is in the reader's vault as long as no accident
\* happened, and only a session reset by its own opening envelope shows a message
\* twice: for any number of messages, polls, lost answers and lost acknowledgements.
THEOREM MailIsDelivered == Spec => []DeliveredOnce
<1>1. Init => MailTyped /\ QuietInv
    BY MailInitType, MailInitInv, QuietInit DEF MailTyped
<1>2. MailTyped /\ QuietInv /\ [Next]_vars => MailTyped' /\ QuietInv'
    BY MailInvStep, QuietStep
<1>3. MailTyped /\ QuietInv => DeliveredOnce
    BY QuietDelivers
<1> QED BY <1>1, <1>2, <1>3, PTL DEF Spec

=============================================================================
