--------------------------- MODULE RecordsProofs ----------------------------
(***************************************************************************)
(* What the server keeps on record, for any number of requests at once:    *)
(* evidence beside a dispute, the canary's statements, a seller's standing *)
(* and the decisions of staff; and what the operator's commands keep of it *)
(* in backups, for any number of them at once.                             *)
(***************************************************************************)
EXTENDS Desk, Market, Evidence, Canary, Backups, FiniteSetTheorems, WellFoundedInduction, TLAPS

-----------------------------------------------------------------------------
(* Evidence: the times a commitment and a dispute are stamped with *)

CommitmentRequest ==
    [step : {"order", "count", "insert"}, by : Parties, digest : Digests, began : Nat,
     full : {FALSE}, at : Nat]
MoveRequest ==
    [step : {"move"}, from : {"live", "disputed", "finished"}, to : {"disputed", "finished"}, at : Nat]

EvidenceTypes ==
    /\ moment \in Nat /\ moment > 0
    /\ order \in {"live", "disputed", "finished"}
    /\ events \subseteq [to : {"live", "disputed", "finished"}, at : Nat]
    /\ evidence \subseteq [by : Parties, digest : Digests, at : Nat, began : Nat, stored : Nat]
    /\ handlers \in [Handlers -> {Resting} \cup CommitmentRequest \cup MoveRequest]
    /\ disputed \in [asked : Nat, done : Nat]

\* No handler is ahead of the clock, and only a live order is disputed.
HandlerOK(request) ==
    /\ request.step \in {"order", "count", "insert"} => request.began <= moment
    /\ request.step = "insert" => request.began <= request.at /\ request.at <= moment
    /\ request.step = "move" => /\ request.at > 0 /\ request.at <= moment
                                /\ request.to = "disputed" => request.from = "live"

\* An order is disputed once, and its events say when.
EvidenceInv ==
    /\ EvidenceTypes
    /\ \A h \in Handlers : HandlerOK(handlers[h])
    /\ \A r \in evidence : r.began <= r.at /\ r.at <= r.stored
    /\ disputed = Never => DisputedAt = {}
    /\ disputed # Never => /\ DisputedAt = {disputed.asked} /\ disputed.asked <= disputed.done
                           /\ order # "live"

LEMMA RequestFields ==
    /\ \A q \in CommitmentRequest : /\ q.step \in {"order", "count", "insert"}
                                    /\ q.began \in Nat /\ q.at \in Nat
    /\ \A q \in MoveRequest : q.step = "move" /\ q.at \in Nat
    /\ Resting.step = "idle"
BY DEF CommitmentRequest, MoveRequest, Resting

LEMMA EvidenceBegins == EvidenceInit => EvidenceInv
BY DEF EvidenceInit, EvidenceInv, EvidenceTypes, HandlerOK, DisputedAt, Never, Resting

LEMMA EvidenceSteps == EvidenceInv /\ [EvidenceNext]_evidenceVars => EvidenceInv'
<1> SUFFICES ASSUME EvidenceInv, [EvidenceNext]_evidenceVars PROVE EvidenceInv'
  OBVIOUS
<1> USE DEF EvidenceInv
<1>1. ASSUME NEW h \in Handlers, NEW party \in Parties, NEW digest \in Digests,
             BeginCommitment(h, party, digest)
      PROVE  EvidenceInv'
  <2> DEFINE request == [step |-> "order", by |-> party, digest |-> digest, began |-> moment,
                         full |-> FALSE, at |-> 0]
  <2>1. /\ handlers' = [handlers EXCEPT ![h] = request]
        /\ UNCHANGED <<moment, order, events, evidence, disputed>>
    BY <1>1 DEF BeginCommitment, Arrives
  <2>2. request \in CommitmentRequest /\ HandlerOK(request)
    BY DEF EvidenceTypes, CommitmentRequest, HandlerOK
  <2> HIDE DEF request
  <2>3. EvidenceTypes'
    BY <2>1, <2>2 DEF EvidenceTypes
  <2>4. \A g \in Handlers : HandlerOK(handlers[g])'
    BY <2>1, <2>2 DEF EvidenceTypes, HandlerOK
  <2> QED
    BY <2>1, <2>3, <2>4 DEF DisputedAt, HandlerOK
<1>2. ASSUME NEW h \in Handlers, ReadOrder(h) PROVE EvidenceInv'
  <2> DEFINE request == IF Closed THEN Resting ELSE [handlers[h] EXCEPT !.step = "count"]
  <2>1. /\ handlers[h].step = "order" /\ handlers' = [handlers EXCEPT ![h] = request]
        /\ UNCHANGED <<moment, order, events, evidence, disputed>>
    BY <1>2 DEF ReadOrder
  <2>2. handlers[h] \in CommitmentRequest
    BY <2>1 DEF EvidenceTypes, MoveRequest, Resting
  <2>3. request \in {Resting} \cup CommitmentRequest /\ HandlerOK(request)
    BY <2>1, <2>2 DEF CommitmentRequest, HandlerOK, Resting
  <2> HIDE DEF request
  <2>4. EvidenceTypes'
    BY <2>1, <2>3 DEF EvidenceTypes
  <2>5. \A g \in Handlers : HandlerOK(handlers[g])'
    BY <2>1, <2>3 DEF EvidenceTypes, HandlerOK
  <2> QED
    BY <2>1, <2>4, <2>5 DEF DisputedAt, HandlerOK
<1>3. ASSUME NEW h \in Handlers, CountCommitments(h) PROVE EvidenceInv'
  <2> DEFINE request == IF Cardinality(Mine(handlers[h].by)) >= MaxPerParty THEN Resting
                        ELSE [handlers[h] EXCEPT !.step = "insert", !.at = moment]
  <2>1. /\ handlers[h].step = "count" /\ handlers' = [handlers EXCEPT ![h] = request]
        /\ UNCHANGED <<moment, order, events, evidence, disputed>>
    BY <1>3 DEF CountCommitments
  <2>2. handlers[h] \in CommitmentRequest
    BY <2>1 DEF EvidenceTypes, MoveRequest, Resting
  <2>3. request = Resting \/ request = [handlers[h] EXCEPT !.step = "insert", !.at = moment]
    OBVIOUS
  <2>4. request \in {Resting} \cup CommitmentRequest /\ HandlerOK(request)
    <3>1. CASE request = Resting
      BY <3>1 DEF HandlerOK, Resting
    <3>2. CASE request = [handlers[h] EXCEPT !.step = "insert", !.at = moment]
      <4>1. request \in CommitmentRequest /\ request.step = "insert" /\ request.at = moment
            /\ request.began = handlers[h].began
        BY <2>2, <3>2 DEF CommitmentRequest, EvidenceTypes
      <4>2. handlers[h].began <= moment
        BY <2>1 DEF HandlerOK
      <4> QED
        BY <4>1, <4>2 DEF HandlerOK, EvidenceTypes
    <3> QED
      BY <2>3, <3>1, <3>2
  <2> HIDE DEF request
  <2>5. EvidenceTypes'
    BY <2>1, <2>4 DEF EvidenceTypes
  <2>6. \A g \in Handlers : HandlerOK(handlers[g])'
    BY <2>1, <2>4 DEF EvidenceTypes, HandlerOK
  <2> QED
    BY <2>1, <2>5, <2>6 DEF DisputedAt, HandlerOK
<1>4. ASSUME NEW h \in Handlers, InsertCommitment(h) PROVE EvidenceInv'
  <2> DEFINE request == handlers[h]
             r == [by |-> request.by, digest |-> request.digest, at |-> request.at,
                   began |-> request.began, stored |-> moment]
  <2>1. /\ request.step = "insert" /\ handlers' = [handlers EXCEPT ![h] = Resting]
        /\ evidence' = evidence \/ evidence' = evidence \cup {r}
        /\ UNCHANGED <<moment, order, events, disputed>>
    BY <1>4 DEF InsertCommitment
  <2>2. request \in CommitmentRequest
    BY <2>1 DEF EvidenceTypes, MoveRequest, Resting
  <2>3. /\ r \in [by : Parties, digest : Digests, at : Nat, began : Nat, stored : Nat]
        /\ r.began <= r.at /\ r.at <= r.stored
    BY <2>1, <2>2 DEF EvidenceTypes, CommitmentRequest, HandlerOK
  <2> HIDE DEF r
  <2>4. EvidenceTypes'
    BY <2>1, <2>3 DEF EvidenceTypes
  <2>5. \A g \in Handlers : HandlerOK(handlers[g])'
    BY <2>1 DEF EvidenceTypes, HandlerOK, Resting
  <2> QED
    BY <2>1, <2>3, <2>4, <2>5 DEF DisputedAt, HandlerOK
<1>5. ASSUME NEW h \in Handlers, NEW to \in {"disputed", "finished"}, BeginMove(h, to) PROVE EvidenceInv'
  <2> DEFINE request == [step |-> "move", from |-> order, to |-> to, at |-> moment]
  <2>1. /\ to = "disputed" => order = "live"
        /\ handlers' = [handlers EXCEPT ![h] = request]
        /\ UNCHANGED <<moment, order, events, evidence, disputed>>
    BY <1>5 DEF BeginMove, Arrives
  <2>2. request \in MoveRequest /\ HandlerOK(request)
    BY <2>1 DEF EvidenceTypes, MoveRequest, HandlerOK
  <2> HIDE DEF request
  <2>3. EvidenceTypes'
    BY <2>1, <2>2 DEF EvidenceTypes
  <2>4. \A g \in Handlers : HandlerOK(handlers[g])'
    BY <2>1, <2>2 DEF EvidenceTypes, HandlerOK
  <2> QED
    BY <2>1, <2>3, <2>4 DEF DisputedAt, HandlerOK
<1>6. ASSUME NEW h \in Handlers, CommitMove(h) PROVE EvidenceInv'
  <2> DEFINE request == handlers[h]
  <2>1. /\ request.step = "move" /\ handlers' = [handlers EXCEPT ![h] = Resting]
        /\ UNCHANGED <<moment, evidence>>
    BY <1>6 DEF CommitMove
  <2>2. request \in MoveRequest /\ HandlerOK(request)
    <3>1. request \in {Resting} \cup CommitmentRequest \cup MoveRequest
      BY DEF EvidenceTypes
    <3>2. request \in MoveRequest
      BY <2>1, <3>1, RequestFields
    <3> QED
      BY <3>2
  <2>3. \A g \in Handlers : HandlerOK(handlers[g])'
    BY <2>1 DEF EvidenceTypes, HandlerOK, Resting
  <2>4. CASE order # request.from
    <3>1. UNCHANGED <<order, events, disputed>>
      BY <1>6, <2>4 DEF CommitMove
    <3> QED
      BY <2>1, <2>3, <3>1 DEF EvidenceTypes, DisputedAt, HandlerOK
  <2>5. CASE order = request.from
    <3>1. /\ order' = request.to /\ events' = events \cup {[to |-> request.to, at |-> request.at]}
          /\ disputed' = IF request.to = "disputed" THEN [asked |-> request.at, done |-> moment]
                         ELSE disputed
      BY <1>6, <2>5 DEF CommitMove
    <3>2. EvidenceTypes'
      BY <2>1, <2>2, <3>1 DEF EvidenceTypes, MoveRequest
    <3>3. CASE request.to = "disputed"
      <4>1. order = "live" /\ disputed = Never /\ DisputedAt = {}
        BY <2>1, <2>2, <2>5, <3>3 DEF HandlerOK
      <4>2. disputed' # Never /\ disputed'.asked <= disputed'.done /\ order' # "live"
        BY <2>1, <2>2, <3>1, <3>3 DEF HandlerOK, Never, MoveRequest, EvidenceTypes
      <4>3. DisputedAt' = {disputed'.asked}
        <5> DEFINE new == [to |-> "disputed", at |-> request.at]
        <5>1. events' = events \cup {new} /\ new.to = "disputed" /\ new.at = disputed'.asked
          BY <3>1, <3>3
        <5>2. ~\E v \in events : v.to = "disputed"
          BY <4>1 DEF DisputedAt
        <5> HIDE DEF new
        <5>3. {v \in events' : v.to = "disputed"} = {new}
          BY <5>1, <5>2
        <5> QED
          BY <5>1, <5>3 DEF DisputedAt
      <4> QED
        BY <2>1, <2>3, <3>2, <4>2, <4>3 DEF HandlerOK
    <3>4. CASE request.to # "disputed"
      <4>1. DisputedAt' = DisputedAt /\ disputed' = disputed /\ order' # "live"
        BY <2>2, <3>1, <3>4 DEF DisputedAt, MoveRequest
      <4> QED
        BY <2>1, <2>3, <3>2, <4>1 DEF HandlerOK
    <3> QED
      BY <3>3, <3>4
  <2> QED
    BY <2>4, <2>5
<1>7. CASE Passes1ms
  <2>1. moment' = moment + 1 /\ UNCHANGED <<order, events, evidence, handlers, disputed>>
    BY <1>7 DEF Passes1ms
  <2>2. EvidenceTypes'
    BY <2>1 DEF EvidenceTypes
  <2>3. \A h \in Handlers : HandlerOK(handlers[h])'
    <3> SUFFICES ASSUME NEW h \in Handlers PROVE HandlerOK(handlers[h])'
      OBVIOUS
    <3>1. handlers[h] \in {Resting} \cup CommitmentRequest \cup MoveRequest /\ HandlerOK(handlers[h])
      BY DEF EvidenceTypes
    <3>2. moment \in Nat
      BY DEF EvidenceTypes
    <3>3. CASE handlers[h] = Resting
      BY <2>1, <3>3 DEF HandlerOK, Resting
    <3>4. CASE handlers[h] \in CommitmentRequest
      <4>1. handlers[h].step # "move" /\ handlers[h].began \in Nat /\ handlers[h].at \in Nat
        BY <3>4, RequestFields
      <4> QED
        BY <2>1, <3>1, <3>2, <4>1 DEF HandlerOK
    <3>5. CASE handlers[h] \in MoveRequest
      BY <2>1, <3>1, <3>2, <3>5 DEF HandlerOK, MoveRequest
    <3> QED
      BY <3>1, <3>3, <3>4, <3>5
  <2> QED
    BY <2>1, <2>2, <2>3 DEF DisputedAt, HandlerOK
<1>8. CASE UNCHANGED evidenceVars
  BY <1>8 DEF evidenceVars, EvidenceTypes, HandlerOK, DisputedAt
<1> QED
  BY <1>1, <1>2, <1>3, <1>4, <1>5, <1>6, <1>7, <1>8 DEF EvidenceNext

\* BeforeDisputeIsTrue: for any number of handlers, parties' files and any clock,
\* what the moderator is told of the order of a commitment and the dispute is so
\* (evidenceForOrder, beforeDispute).
THEOREM MomentsAreTrue == EvidenceSpec => []BeforeDisputeIsTrue
<1>1. EvidenceInv => BeforeDisputeIsTrue
  <2> SUFFICES ASSUME EvidenceInv, disputed # Never, NEW r \in evidence
               PROVE  IF BeforeDispute(r) THEN r.began <= disputed.done ELSE r.stored >= disputed.asked
    BY DEF BeforeDisputeIsTrue
  <2>1. /\ DisputedAt = {disputed.asked} /\ disputed.asked <= disputed.done
        /\ r.began <= r.at /\ r.at <= r.stored
        /\ {r.began, r.at, r.stored, disputed.asked, disputed.done} \subseteq Nat
    BY DEF EvidenceInv, EvidenceTypes
  <2>2. Min(DisputedAt) = disputed.asked
    BY <2>1 DEF Min
  <2>3. BeforeDispute(r) <=> r.at <= disputed.asked
    BY <2>1, <2>2 DEF BeforeDispute
  <2> QED
    BY <2>1, <2>3
<1> QED
  BY <1>1, EvidenceBegins, EvidenceSteps, PTL DEF EvidenceSpec

-----------------------------------------------------------------------------
(* The canary: statements of the operator's key, fresh when published *)

FreshStatement(s, now) ==
    /\ s.signed <= now /\ now - s.signed <= MaxAgeDays
    /\ s.next > s.signed /\ s.next - s.signed <= MaxInterval

PublishRequest == [step : {"check", "insert"}, of : Signatures, now : Nat]

CanaryInv ==
    /\ day \in Nat
    /\ statements \subseteq [signed : Nat, next : Nat, key : Keys, published : Nat]
    /\ publishing \in [Admins -> {NotPublishing} \cup PublishRequest]
    /\ \A r \in statements : r.key = Pinned /\ FreshStatement(r, r.published)
    /\ \A a \in Admins :
         LET request == publishing[a] IN
         /\ request.step \in {"check", "insert"} => FreshStatement(request.of, request.now)
         /\ request.step = "insert" => request.of.key = Pinned

LEMMA PublishFields ==
    /\ \A q \in PublishRequest : /\ q.step \in {"check", "insert"} /\ q.now \in Nat /\ q.of \in Signatures
                                 /\ q.of.signed \in Nat /\ q.of.next \in Nat /\ q.of.key \in Keys
    /\ NotPublishing.step = "idle"
BY DEF PublishRequest, Signatures, NotPublishing

LEMMA CanaryBegins == CanaryInit => CanaryInv
BY DEF CanaryInit, CanaryInv, NotPublishing

LEMMA CanarySteps == CanaryInv /\ [CanaryNext]_canaryVars => CanaryInv'
<1> SUFFICES ASSUME CanaryInv, [CanaryNext]_canaryVars PROVE CanaryInv'
  OBVIOUS
<1> USE DEF CanaryInv
<1>1. ASSUME NEW a \in Admins, NEW s \in Signatures, BeginPublish(a, s) PROVE CanaryInv'
  <2> DEFINE request == [step |-> "check", of |-> s, now |-> day]
  <2>1. /\ publishing' = [publishing EXCEPT ![a] = request] /\ UNCHANGED <<day, enrolled, statements>>
        /\ FreshStatement(s, day)
    BY <1>1 DEF BeginPublish, ReadCanaryDates, FreshStatement
  <2>2. request \in PublishRequest /\ FreshStatement(request.of, request.now) /\ request.step = "check"
    BY <2>1 DEF PublishRequest
  <2> HIDE DEF request
  <2> QED
    BY <2>1, <2>2
<1>2. ASSUME NEW a \in Admins, CheckStatement(a) PROVE CanaryInv'
  <2> DEFINE request == IF publishing[a].of.key # Pinned
                           \/ \E r \in LatestCanary(statements) : NotNewer(publishing[a].of, r)
                        THEN NotPublishing ELSE [publishing[a] EXCEPT !.step = "insert"]
  <2>1. /\ publishing[a].step = "check" /\ publishing' = [publishing EXCEPT ![a] = request]
        /\ UNCHANGED <<day, enrolled, statements>>
    BY <1>2 DEF CheckStatement
  <2>2. publishing[a] \in PublishRequest
    BY <2>1, PublishFields
  <2>3. CASE request = NotPublishing
    BY <2>1, <2>3, PublishFields
  <2>4. CASE request # NotPublishing
    <3>1. request = [publishing[a] EXCEPT !.step = "insert"] /\ publishing[a].of.key = Pinned
      BY <2>4
    <3>2. request \in PublishRequest /\ request.of = publishing[a].of /\ request.now = publishing[a].now
      BY <2>2, <3>1 DEF PublishRequest
    <3>3. FreshStatement(publishing[a].of, publishing[a].now)
      BY <2>1
    <3> HIDE DEF request
    <3> QED
      BY <2>1, <3>1, <3>2, <3>3
  <2> QED
    BY <2>3, <2>4
<1>3. ASSUME NEW a \in Admins, InsertStatement(a) PROVE CanaryInv'
  <2> DEFINE s == publishing[a].of
             r == [signed |-> s.signed, next |-> s.next, key |-> s.key, published |-> publishing[a].now]
  <2>1. /\ publishing[a].step = "insert" /\ statements' = statements \cup {r}
        /\ publishing' = [publishing EXCEPT ![a] = NotPublishing] /\ day' = day
    BY <1>3 DEF InsertStatement
  <2>2. publishing[a] \in PublishRequest
    BY <2>1, PublishFields
  <2>3. s.key = Pinned /\ FreshStatement(s, publishing[a].now)
    BY <2>1
  <2>4. /\ r \in [signed : Nat, next : Nat, key : Keys, published : Nat]
        /\ r.key = Pinned /\ FreshStatement(r, r.published)
    BY <2>2, <2>3, PublishFields DEF FreshStatement
  <2> HIDE DEF r
  <2> QED
    BY <2>1, <2>4, PublishFields
<1>4. ASSUME NEW a \in Admins, NEW k \in Keys, Enrol(a, k) PROVE CanaryInv'
  BY <1>4 DEF Enrol
<1>5. CASE Midnight
  BY <1>5 DEF Midnight
<1>6. CASE UNCHANGED canaryVars
  BY <1>6 DEF canaryVars
<1> QED
  BY <1>1, <1>2, <1>3, <1>4, <1>5, <1>6 DEF CanaryNext

\* SilenceShows: with any number of administrators publishing at once, over any
\* time, what visitors are shown is never older than what they were shown before,
\* and is a statement of the operator's key that was fresh when it was published
\* (latestCanary, readCanaryDates, publishCanary).
THEOREM CanaryKeepsOn == CanarySpec => SilenceShows
<1> DEFINE Shows ==
             \A r \in LatestCanary(statements') :
                /\ \A o \in LatestCanary(statements) : o.signed <= r.signed
                /\ r.key = Pinned /\ r.next - r.signed <= MaxInterval
                /\ r.signed \in (r.published - MaxAgeDays)..r.published
<1>1. CanaryInv /\ CanaryInv' /\ [CanaryNext]_canaryVars => [Shows]_canaryVars
  <2> SUFFICES ASSUME CanaryInv, CanaryInv', [CanaryNext]_canaryVars, NEW r \in LatestCanary(statements')
               PROVE  /\ \A o \in LatestCanary(statements) : o.signed <= r.signed
                      /\ r.key = Pinned /\ r.next - r.signed <= MaxInterval
                      /\ r.signed \in (r.published - MaxAgeDays)..r.published
    OBVIOUS
  <2>1. statements \subseteq statements'
    BY DEF CanaryNext, BeginPublish, CheckStatement, InsertStatement, Enrol, Midnight, canaryVars
  <2>2. /\ r \in statements' /\ \A o \in statements' : o.signed < r.signed \/ o.signed = r.signed
    BY DEF LatestCanary
  <2>3. \A o \in statements' : o.signed \in Nat /\ o.published \in Nat /\ o.next \in Nat
    BY DEF CanaryInv
  <2>4. \A o \in LatestCanary(statements) : o \in statements'
    BY <2>1 DEF LatestCanary
  <2>5. \A o \in LatestCanary(statements) : o.signed <= r.signed
    BY <2>2, <2>3, <2>4
  <2>6. r.key = Pinned /\ FreshStatement(r, r.published)
    BY <2>2 DEF CanaryInv, FreshStatement
  <2>7. MaxAgeDays \in Nat
    BY DaysAssumption
  <2> QED
    BY <2>2, <2>3, <2>5, <2>6, <2>7 DEF FreshStatement
<1>2. CanaryInit => CanaryInv
  BY CanaryBegins
<1>3. CanaryInv /\ [CanaryNext]_canaryVars => CanaryInv'
  BY CanarySteps
<1> QED
  BY <1>1, <1>2, <1>3, PTL DEF CanarySpec, SilenceShows

-----------------------------------------------------------------------------
(* Levels *)

\* The naturals' order, as a relation: of any of them some one is least.
Below == {pair \in Nat \X Nat : pair[1] < pair[2]}

LEMMA Least ==
    ASSUME NEW S \in SUBSET Nat, S # {}
    PROVE  \E n \in S : \A m \in S : n <= m
<1>1. IsWellFoundedOn(Below, Nat)
  BY NatLessThanWellFounded DEF OpToRel, Below
<1>2. PICK x \in S : \A y \in S : <<y, x>> \notin Below
  BY <1>1, WFMin
<1>3. \A y \in S : x <= y
  <2> TAKE y \in S
  <2>1. x \in Nat /\ y \in Nat
    OBVIOUS
  <2>2. ~(y < x)
    BY <1>2, <2>1 DEF Below
  <2> QED
    BY <2>1, <2>2
<1> QED
  BY <1>3

LEMMA Largest ==
    ASSUME NEW top \in Nat, NEW S \in SUBSET (0..top), S # {}
    PROVE  Max(S) \in S /\ \A y \in S : y <= Max(S)
<1> DEFINE below == {n \in 0..top : top - n \in S}
<1>1. PICK s \in S : TRUE
  OBVIOUS
<1>2. top - s \in below
  BY <1>1
<1>3. below \in SUBSET Nat /\ below # {}
  BY <1>2
<1>4. PICK n \in below : \A m \in below : n <= m
  <2> HIDE DEF below
  <2> QED
    BY <1>3, Least
<1>5. \A y \in S : top - y \in below
  OBVIOUS
<1>6. top - n \in S /\ \A y \in S : top - n >= y
  BY <1>4, <1>5
<1>7. Max(S) \in S /\ \A y \in S : Max(S) >= y
  BY <1>6 DEF Max
<1> QED
  BY <1>7

LEMMA LevelGrows ==
    ASSUME NEW settled \in Nat, NEW orders \in Nat, NEW more \in Nat, NEW later \in Nat,
           settled <= more, orders <= later
    PROVE  /\ LevelFor(settled, orders) \in Nat
           /\ LevelFor(settled, orders) <= LevelFor(more, later)
<1> DEFINE Earned(s, o) == {0} \cup {n \in DOMAIN Levels : s >= Levels[n].settled /\ o >= Levels[n].orders}
           top == Cardinality(DOMAIN Levels)
<1>1. top \in Nat /\ DOMAIN Levels \subseteq 0..top
  BY LevelsAssumption, FS_CardinalityType
<1>2. \A n \in DOMAIN Levels : Levels[n].settled \in Nat /\ Levels[n].orders \in Nat
  BY LevelsAssumption
<1> HIDE DEF top
<1>3. Earned(settled, orders) \subseteq Earned(more, later)
  BY <1>2
<1>4. \A s, o : Earned(s, o) \subseteq 0..top /\ 0 \in Earned(s, o)
  BY <1>1
<1>5. /\ LevelFor(settled, orders) = Max(Earned(settled, orders))
      /\ LevelFor(more, later) = Max(Earned(more, later))
  BY DEF LevelFor
<1> HIDE DEF Earned
<1>6. /\ Max(Earned(settled, orders)) \in Earned(settled, orders)
      /\ Max(Earned(more, later)) \in Earned(more, later)
      /\ \A y \in Earned(more, later) : y <= Max(Earned(more, later))
  BY <1>1, <1>4, Largest
<1> QED
  BY <1>1, <1>3, <1>4, <1>5, <1>6

SellerRow == [settled : Nat, level : Nat, penalty : Nat, lastSettled : Nat, status : {"active", "suspended"}]

\* Dormancy and penalties only take away.
LEMMA StandingBound ==
    ASSUME NEW row \in SellerRow, NEW orders \in Nat, NEW today \in Nat
    PROVE  /\ StandingLevel(row, orders, today) \in Nat
           /\ StandingLevel(row, orders, today) <= LevelFor(row.settled, orders)
<1>1. row.settled \in Nat /\ row.penalty \in Nat /\ row.lastSettled \in Nat /\ DecayDays \in Nat \ {0}
  BY NumbersAssumption DEF SellerRow
<1>2. LevelFor(row.settled, orders) \in Nat
  <2> DEFINE settled == row.settled
  <2>1. settled \in Nat /\ settled <= settled /\ orders <= orders
    BY <1>1
  <2> HIDE DEF settled
  <2>2. LevelFor(settled, orders) \in Nat
    BY <2>1, LevelGrows
  <2> QED
    BY <2>2 DEF settled
<1>3. Minus(today, row.lastSettled) \in Nat
  BY <1>1 DEF Minus
<1>4. Minus(today, row.lastSettled) \div DecayDays \in Nat
  BY <1>1, <1>3
<1> DEFINE idle == IF row.lastSettled = 0 THEN 0 ELSE Minus(today, row.lastSettled) \div DecayDays
<1>5. idle \in Nat
  BY <1>4
<1>6. StandingLevel(row, orders, today) = Minus(LevelFor(row.settled, orders), idle + row.penalty)
  BY DEF StandingLevel
<1> HIDE DEF idle
<1> QED
  BY <1>1, <1>2, <1>5, <1>6 DEF Minus

-----------------------------------------------------------------------------
(* Standing: what a settled sale and a suspension leave behind *)

DecayTask ==
    [op : {"decay"}, step : {"count", "level", "rank"}, row : SellerRow, level : Nat, today : Nat]
StandingTask ==
    [op : {"suspend", "reinstate"}, step : {"penalty", "count", "level", "rank"},
     row : SellerRow, level : Nat]
CreateTask == [op : {"create"}, step : {"insert"}, level : Nat]
EditTask == [op : {"edit"}, step : {"edit"}, listing : Listings, overtaken : BOOLEAN]
MarketTask == {NoTask} \cup DecayTask \cup StandingTask \cup CreateTask \cup EditTask

Writes(r) == r.op \in {"decay", "suspend", "reinstate"}

MarketTypes ==
    /\ season \in Seasons /\ date \in Nat /\ completed \in Nat
    /\ seller \in SellerRow
    /\ listings \in [Listings -> [status : {"none", "active", "paused", "removed"}, rank : Nat]]
    /\ sale \in {NoSale} \cup [step : {"level", "rank"}, row : SellerRow, level : Nat]
    /\ season.database = "postgres" => sale = NoSale
    /\ tasks \in [Tasks -> MarketTask]
    /\ suspensions \in Nat /\ overlapped \in BOOLEAN

LEMMA TaskFields ==
    ASSUME NEW r \in MarketTask
    PROVE  /\ r = NoTask <=> r.op = "idle"
           /\ r.op = "idle" <=> r.step = "idle"
           /\ Writes(r) <=> r.step \in {"penalty", "count", "level", "rank"}
           /\ Writes(r) => r.row \in SellerRow /\ r.level \in Nat
           /\ r.op = "decay" => r.today \in Nat
           /\ r.op = "create" <=> r.step = "insert"
           /\ r.op = "create" => r.level \in Nat
           /\ r.op = "edit" <=> r.step = "edit"
           /\ r.op = "edit" => r.listing \in Listings /\ r.overtaken \in BOOLEAN
           /\ r.op \in {"idle", "decay", "suspend", "reinstate", "create", "edit"}
<1>1. CASE r = NoTask
  BY <1>1 DEF NoTask, Writes
<1>2. CASE r \in DecayTask
  BY <1>2 DEF DecayTask, NoTask, Writes
<1>3. CASE r \in StandingTask
  BY <1>3 DEF StandingTask, NoTask, Writes
<1>4. CASE r \in CreateTask
  BY <1>4 DEF CreateTask, NoTask, Writes
<1>5. CASE r \in EditTask
  BY <1>5 DEF EditTask, NoTask, Writes
<1> QED
  BY <1>1, <1>2, <1>3, <1>4, <1>5 DEF MarketTask

\* A writer of standing goes on to the next of its steps.
AtStep(r, step) == [r EXCEPT !.step = step]
Onward(r, step, n) == [r EXCEPT !.step = step, !.level = n]

LEMMA NextTask ==
    ASSUME NEW r \in MarketTask, Writes(r), NEW n \in Nat, NEW step \in {"count", "level", "rank"}
    PROVE  /\ Onward(r, step, n) \in MarketTask
           /\ Onward(r, step, n).op = r.op /\ Onward(r, step, n).step = step
           /\ Onward(r, step, n).level = n /\ Onward(r, step, n).row = r.row
           /\ AtStep(r, step) \in MarketTask
           /\ AtStep(r, step).op = r.op /\ AtStep(r, step).step = step
           /\ AtStep(r, step).level = r.level /\ AtStep(r, step).row = r.row
<1>1. CASE r \in DecayTask
  BY <1>1 DEF DecayTask, MarketTask, Onward, AtStep
<1>2. CASE r \in StandingTask
  BY <1>2 DEF StandingTask, MarketTask, Onward, AtStep
<1>3. r \in DecayTask \/ r \in StandingTask
  BY DEF Writes, MarketTask, NoTask, CreateTask, EditTask
<1> QED
  BY <1>1, <1>2, <1>3

Penalised(r, row) == [r EXCEPT !.step = "count", !.row = row]

LEMMA PenalisedTask ==
    ASSUME NEW r \in MarketTask, r.step = "penalty", NEW row \in SellerRow
    PROVE  /\ Penalised(r, row) \in MarketTask /\ Penalised(r, row).op = r.op
           /\ Penalised(r, row).step = "count" /\ Penalised(r, row).row = row
<1>1. r \in StandingTask
  BY DEF MarketTask, NoTask, CreateTask, EditTask, DecayTask
<1> QED
  BY <1>1 DEF StandingTask, MarketTask, Penalised

LEMMA OvertakenTask ==
    ASSUME NEW r \in MarketTask, r.op = "edit"
    PROVE  LET q == [r EXCEPT !.overtaken = TRUE]
           IN  /\ q \in MarketTask /\ q.op = "edit" /\ q.step = "edit"
               /\ q.listing = r.listing /\ q.overtaken
<1>1. r \in EditTask
  BY DEF MarketTask, NoTask, CreateTask, StandingTask, DecayTask
<1> QED
  BY <1>1 DEF EditTask, MarketTask

LEMMA CountedSale ==
    ASSUME MarketTypes
    PROVE  /\ Counted(seller) \in SellerRow
           /\ Counted(seller).settled = seller.settled + Earnings
           /\ Counted(seller).level = seller.level
           /\ Counted(seller).penalty = seller.penalty
<1>1. Earnings \in Nat /\ date \in Nat /\ seller \in SellerRow
  BY NumbersAssumption DEF MarketTypes
<1>2. Counted(seller) = [seller EXCEPT !.settled = @ + Earnings, !.lastSettled = date]
  BY DEF Counted
<1>3. seller.settled + Earnings \in Nat
  BY <1>1 DEF SellerRow
<1> QED
  BY <1>1, <1>2, <1>3 DEF SellerRow

\* The keys change, the statuses stay, and a listing that is none stays none.
LEMMA RankedListings ==
    ASSUME MarketTypes, NEW n \in Nat
    PROVE  /\ Ranked(n) \in [Listings -> [status : {"none", "active", "paused", "removed"}, rank : Nat]]
           /\ \A l \in Listings : /\ Ranked(n)[l].status = listings[l].status
                                  /\ Ranked(n)[l] = NoListing \/ Ranked(n)[l].rank = n
<1>1. ASSUME NEW l \in Listings
      PROVE  /\ Ranked(n)[l] \in [status : {"none", "active", "paused", "removed"}, rank : Nat]
             /\ Ranked(n)[l].status = listings[l].status
             /\ Ranked(n)[l] = NoListing \/ Ranked(n)[l].rank = n
  <2>1. Ranked(n)[l] = IF listings[l] = NoListing THEN NoListing ELSE [listings[l] EXCEPT !.rank = n]
    BY DEF Ranked
  <2>2. listings[l] \in [status : {"none", "active", "paused", "removed"}, rank : Nat]
    BY DEF MarketTypes
  <2> QED
    BY <2>1, <2>2 DEF NoListing
<1> QED
  BY <1>1 DEF Ranked

LEMMA MarketBegins == MarketInit => MarketTypes
<1> SUFFICES ASSUME MarketInit PROVE MarketTypes
  OBVIOUS
<1>1. seller \in SellerRow
  BY DEF MarketInit, SellerRow
<1>2. tasks \in [Tasks -> MarketTask]
  BY DEF MarketInit, MarketTask
<1>3. listings \in [Listings -> [status : {"none", "active", "paused", "removed"}, rank : Nat]]
  BY DEF MarketInit, NoListing
<1> QED
  BY <1>1, <1>2, <1>3 DEF MarketInit, MarketTypes

LEMMA MarketTyped == MarketTypes /\ [MarketNext]_marketVars => MarketTypes'
<1> SUFFICES ASSUME MarketTypes, [MarketNext]_marketVars PROVE MarketTypes'
  OBVIOUS
<1> DEFINE Row == [status : {"none", "active", "paused", "removed"}, rank : Nat]
           Under == {NoSale} \cup [step : {"level", "rank"}, row : SellerRow, level : Nat]
<1>0. /\ season \in Seasons /\ date \in Nat /\ completed \in Nat /\ completed + 1 \in Nat
      /\ seller \in SellerRow /\ listings \in [Listings -> Row] /\ sale \in Under
      /\ season.database = "postgres" => sale = NoSale
      /\ tasks \in [Tasks -> MarketTask] /\ \A t \in Tasks : tasks[t] \in MarketTask
      /\ suspensions \in Nat /\ overlapped \in BOOLEAN
  BY DEF MarketTypes
<1>a. ASSUME NEW n \in Nat PROVE [seller EXCEPT !.level = n] \in SellerRow
  BY <1>0 DEF SellerRow
<1>b. ASSUME NEW t \in Tasks, NEW r \in MarketTask, Turns(t, r)
      PROVE  tasks' \in [Tasks -> MarketTask]
  BY <1>0, <1>b DEF Turns
<1>c. NoTask \in MarketTask
  BY DEF MarketTask
<1>1. CASE SettleSale
  <2> DEFINE row == Counted(seller)
             level == StandingLevel(row, CompletedOrders + 1, date)
  <2>1. row \in SellerRow /\ level \in Nat
    BY <1>0, CountedSale, StandingBound DEF CompletedOrders
  <2>2. [row EXCEPT !.level = level] \in SellerRow
    <3> HIDE DEF row, level
    <3> QED
      BY <2>1 DEF SellerRow
  <2>3. Ranked(level) \in [Listings -> Row]
    BY <2>1, RankedListings
  <2>4. /\ completed' = completed + 1 /\ seller' = [row EXCEPT !.level = level]
        /\ listings' = IF level = seller.level THEN listings ELSE Ranked(level)
        /\ overlapped' = (overlapped \/ Writing # {})
        /\ UNCHANGED <<season, date, sale, tasks, turns, suspensions>>
    BY <1>1 DEF SettleSale
  <2> HIDE DEF row, level
  <2>5. overlapped' \in BOOLEAN /\ listings' \in [Listings -> Row] /\ seller' \in SellerRow
    BY <1>0, <2>2, <2>3, <2>4
  <2> QED
    BY <1>0, <2>4, <2>5 DEF MarketTypes
<1>2. CASE SettleRow
  <2>1. seller' \in SellerRow /\ sale' = [step |-> "level", row |-> seller', level |-> 0]
    BY <1>2, CountedSale DEF SettleRow
  <2>2. sale' \in Under
    BY <2>1
  <2>3. /\ completed' = completed + 1 /\ season.database = "sqlite"
        /\ overlapped' = (overlapped \/ Writing # {})
        /\ UNCHANGED <<season, date, listings, tasks, turns, suspensions>>
    BY <1>2 DEF SettleRow
  <2> QED
    BY <1>0, <2>1, <2>2, <2>3 DEF MarketTypes
<1>3. CASE SettleLevel
  <2> DEFINE level == StandingLevel(sale.row, CompletedOrders, sale.row.lastSettled)
  <2>1. /\ sale # NoSale
        /\ seller' = [seller EXCEPT !.level = IF level = sale.row.level THEN @ ELSE level]
        /\ sale' = IF level = sale.row.level THEN NoSale ELSE [sale EXCEPT !.step = "rank", !.level = level]
        /\ UNCHANGED <<season, date, completed, listings, tasks, turns, suspensions, overlapped>>
    BY <1>3 DEF SettleLevel
  <2>2. sale \in [step : {"level", "rank"}, row : SellerRow, level : Nat]
    BY <1>0, <2>1
  <2>3. level \in Nat
    <3>1. sale.row \in SellerRow /\ sale.row.lastSettled \in Nat
      BY <2>2 DEF SellerRow
    <3> QED
      BY <1>0, <3>1, StandingBound DEF CompletedOrders
  <2> HIDE DEF level
  <2>4. [sale EXCEPT !.step = "rank", !.level = level] \in Under
    BY <2>2, <2>3
  <2>5. seller' \in SellerRow
    <3>1. CASE level = sale.row.level
      BY <1>0, <2>1, <3>1 DEF SellerRow
    <3> QED
      BY <1>a, <2>1, <2>3, <3>1
  <2>6. sale' \in Under /\ (season'.database = "postgres" => sale' = NoSale)
    BY <1>0, <2>1, <2>4
  <2> QED
    BY <1>0, <2>1, <2>5, <2>6 DEF MarketTypes
<1>4. CASE SettleRank
  <2>1. sale.step = "rank" /\ sale # NoSale
    BY <1>4 DEF SettleRank
  <2>2. sale.level \in Nat
    BY <1>0, <2>1
  <2>3. listings' \in [Listings -> Row]
    BY <1>4, <2>2, RankedListings DEF SettleRank
  <2> QED
    BY <1>0, <1>4, <2>3 DEF SettleRank, MarketTypes
<1>5. CASE NextDay
  BY <1>0, <1>5 DEF NextDay, MarketTypes
<1>6. ASSUME NEW t \in Tasks, Decay(t) PROVE MarketTypes'
  <2>1. [op |-> "decay", step |-> "count", row |-> seller, level |-> 0, today |-> date] \in DecayTask
    BY <1>0 DEF DecayTask
  <2>2. tasks' \in [Tasks -> MarketTask]
    BY <1>6, <1>b, <2>1 DEF Decay, MarketTask
  <2> QED
    BY <1>0, <1>6, <2>2 DEF Decay, Crosses, MarketTypes
<1>7. ASSUME NEW t \in Tasks, Suspend(t) PROVE MarketTypes'
  <2>1. [op |-> "suspend", step |-> "penalty", row |-> seller, level |-> 0] \in StandingTask
    BY <1>0 DEF StandingTask
  <2>2. tasks' \in [Tasks -> MarketTask]
    BY <1>7, <1>b, <2>1 DEF Suspend, MarketTask
  <2>3. seller' \in SellerRow /\ suspensions' \in Nat
    BY <1>0, <1>7 DEF Suspend, SellerRow
  <2> QED
    BY <1>0, <1>7, <2>2, <2>3 DEF Suspend, Crosses, MarketTypes
<1>8. ASSUME NEW t \in Tasks, Penalise(t) PROVE MarketTypes'
  <2>1. Penalty(tasks[t].row) \in Nat
    BY <1>0, NumbersAssumption DEF Penalty, SellerRow
  <2>2. seller' \in SellerRow
    BY <1>0, <1>8, <2>1 DEF Penalise, Penalised, SellerRow
  <2>3. [tasks[t] EXCEPT !.step = "count", !.row = seller'] \in MarketTask
    BY <1>0, <1>8, <2>2, PenalisedTask DEF Penalise, Penalised
  <2>4. tasks' \in [Tasks -> MarketTask]
    BY <1>8, <1>b, <2>3 DEF Penalise, Penalised
  <2> QED
    BY <1>0, <1>8, <2>2, <2>4 DEF Penalise, MarketTypes
<1>9. ASSUME NEW t \in Tasks, Reinstate(t) PROVE MarketTypes'
  <2>1. seller' \in SellerRow
    BY <1>0, <1>9 DEF Reinstate, SellerRow
  <2>2. [op |-> "reinstate", step |-> "count", row |-> seller', level |-> 0] \in StandingTask
    BY <2>1 DEF StandingTask
  <2>3. tasks' \in [Tasks -> MarketTask]
    BY <1>9, <1>b, <2>2 DEF Reinstate, MarketTask
  <2> QED
    BY <1>0, <1>9, <2>1, <2>3 DEF Reinstate, Crosses, MarketTypes
<1>10. ASSUME NEW t \in Tasks, CountOrders(t) PROVE MarketTypes'
  <2> DEFINE r == tasks[t]
             today == IF r.op = "decay" THEN r.today ELSE date
             level == StandingLevel(r.row, CompletedOrders, today)
  <2>1. /\ r.step = "count"
        /\ Turns(t, IF level = r.row.level THEN NoTask ELSE [r EXCEPT !.step = "level", !.level = level])
        /\ UNCHANGED <<season, date, seller, completed, listings, sale, turns, suspensions, overlapped>>
    BY <1>10 DEF CountOrders
  <2>2. r \in MarketTask
    BY <1>0
  <2> HIDE DEF r
  <2>3. Writes(r) /\ r.row \in SellerRow /\ (r.op = "decay" => r.today \in Nat)
    BY <2>1, <2>2, TaskFields
  <2>4. level \in Nat
    BY <1>0, <2>3, StandingBound DEF CompletedOrders
  <2> HIDE DEF level
  <2>5. (IF level = r.row.level THEN NoTask ELSE [r EXCEPT !.step = "level", !.level = level]) \in MarketTask
    BY <1>c, <2>2, <2>3, <2>4, NextTask DEF Onward
  <2>6. tasks' \in [Tasks -> MarketTask]
    BY <1>b, <2>1, <2>5
  <2> QED
    BY <1>0, <2>1, <2>6 DEF MarketTypes
<1>11. ASSUME NEW t \in Tasks, WriteLevel(t) PROVE MarketTypes'
  <2>1. Writes(tasks[t]) /\ tasks[t].level \in Nat
    BY <1>0, <1>11, TaskFields DEF WriteLevel
  <2>2. seller' \in SellerRow
    BY <1>11, <1>a, <2>1 DEF WriteLevel
  <2>3. [tasks[t] EXCEPT !.step = "rank"] \in MarketTask
    BY <1>0, <2>1, NextTask DEF AtStep
  <2>4. tasks' \in [Tasks -> MarketTask]
    BY <1>11, <1>b, <2>3 DEF WriteLevel
  <2> QED
    BY <1>0, <1>11, <2>2, <2>4 DEF WriteLevel, MarketTypes
<1>12. ASSUME NEW t \in Tasks, WriteRank(t) PROVE MarketTypes'
  <2>1. tasks[t].level \in Nat
    BY <1>0, <1>12, TaskFields DEF WriteRank
  <2>2. listings' \in [Listings -> Row]
    BY <1>12, <2>1, RankedListings DEF WriteRank, Rerank
  <2>3. tasks' \in [Tasks -> MarketTask]
    BY <1>12, <1>b, <1>c DEF WriteRank
  <2> QED
    BY <1>0, <1>12, <2>2, <2>3 DEF WriteRank, MarketTypes
<1>13. ASSUME NEW t \in Tasks, BeginListing(t) PROVE MarketTypes'
  <2>1. [op |-> "create", step |-> "insert", level |-> seller.level] \in CreateTask
    BY <1>0 DEF CreateTask, SellerRow
  <2>2. tasks' \in [Tasks -> MarketTask]
    BY <1>13, <1>b, <2>1 DEF BeginListing, MarketTask
  <2> QED
    BY <1>0, <1>13, <2>2 DEF BeginListing, Crosses, MarketTypes
<1>14. ASSUME NEW t \in Tasks, InsertNewListing(t) PROVE MarketTypes'
  <2>1. tasks[t].level \in Nat /\ tasks[t].step = "insert"
    BY <1>0, <1>14, TaskFields DEF InsertNewListing
  <2>2. [status |-> "active", rank |-> tasks[t].level] \in Row
    BY <2>1
  <2>3. listings' \in [Listings -> Row]
    BY <1>0, <1>14, <2>2 DEF InsertNewListing
  <2>4. tasks' \in [Tasks -> MarketTask]
    BY <1>14, <1>b, <1>c DEF InsertNewListing
  <2> QED
    BY <1>0, <1>14, <2>3, <2>4 DEF InsertNewListing, MarketTypes
<1>15. ASSUME NEW t \in Tasks, EditListing(t) PROVE MarketTypes'
  <2>1. PICK status \in {"active", "paused"} :
            listings' = [listings EXCEPT ![tasks[t].listing].status = status]
    BY <1>15 DEF EditListing
  <2>2. \A l \in Listings : [listings[l] EXCEPT !.status = status] \in Row
    BY <1>0
  <2>3. listings' \in [Listings -> Row]
    BY <1>0, <2>1, <2>2
  <2>4. tasks' \in [Tasks -> MarketTask]
    BY <1>15, <1>b, <1>c DEF EditListing
  <2> QED
    BY <1>0, <1>15, <2>3, <2>4 DEF EditListing, MarketTypes
<1>16. ASSUME NEW t \in Tasks, NEW l \in Listings, BeginEdit(t, l) PROVE MarketTypes'
  <2>1. [op |-> "edit", step |-> "edit", listing |-> l, overtaken |-> FALSE] \in EditTask
    BY DEF EditTask
  <2>2. tasks' \in [Tasks -> MarketTask]
    BY <1>16, <1>b, <2>1 DEF BeginEdit, MarketTask
  <2> QED
    BY <1>0, <1>16, <2>2 DEF BeginEdit, MarketTypes
<1>17. ASSUME NEW l \in Listings, RemoveListing(l) PROVE MarketTypes'
  <2>1. [listings[l] EXCEPT !.status = "removed"] \in Row
    BY <1>0
  <2>2. listings' \in [Listings -> Row]
    BY <1>0, <1>17, <2>1 DEF RemoveListing
  <2>3. tasks' \in [Tasks -> MarketTask]
    BY <1>0, <1>17, OvertakenTask DEF RemoveListing
  <2> QED
    BY <1>0, <1>17, <2>2, <2>3 DEF RemoveListing, MarketTypes
<1>18. CASE UNCHANGED marketVars
  BY <1>0, <1>18 DEF marketVars, MarketTypes
<1> QED
  BY <1>1, <1>2, <1>3, <1>4, <1>5, <1>6, <1>7, <1>8, <1>9, <1>10, <1>11, <1>12,
     <1>13, <1>14, <1>15, <1>16, <1>17, <1>18 DEF MarketNext

\* The sales so far are all counted, and earn every level that is written or is
\* about to be: a request may have read the row before later sales, never after
\* fewer.
Ceiling == LevelFor(seller.settled, completed)

EarnedInv ==
    /\ seller.settled = Earnings * completed
    /\ seller.level <= Ceiling
    /\ \A t \in Tasks :
           /\ Writes(tasks[t]) => tasks[t].row.settled <= seller.settled
           /\ tasks[t].step = "level" => tasks[t].level <= Ceiling
    /\ sale # NoSale => sale.row.settled <= seller.settled

\* A level that is earned stays earned, and so does what a row read before earns.
LEMMA EarnedStays ==
    ASSUME MarketTypes, MarketTypes', seller.settled <= seller'.settled, completed <= completed'
    PROVE  /\ \A n \in Nat : n <= Ceiling => n <= Ceiling'
           /\ \A row \in SellerRow, today \in Nat :
                  row.settled <= seller'.settled =>
                      StandingLevel(row, completed', today) <= LevelFor(seller'.settled, completed')
<1>1. /\ seller.settled \in Nat /\ seller'.settled \in Nat
      /\ completed \in Nat /\ completed' \in Nat
  BY DEF MarketTypes, SellerRow
<1>2. /\ LevelFor(seller.settled, completed) \in Nat /\ LevelFor(seller'.settled, completed') \in Nat
      /\ LevelFor(seller.settled, completed) <= LevelFor(seller'.settled, completed')
  <2> DEFINE old == seller.settled
             new == seller'.settled
  <2>1. /\ old \in Nat /\ new \in Nat /\ old <= new /\ new <= new /\ completed' <= completed'
        /\ completed \in Nat /\ completed' \in Nat /\ completed <= completed'
    BY <1>1
  <2> HIDE DEF old, new
  <2>2. LevelFor(old, completed) \in Nat /\ LevelFor(old, completed) <= LevelFor(new, completed')
    BY <2>1, LevelGrows
  <2>3. LevelFor(new, completed') \in Nat
    BY <2>1, LevelGrows
  <2> QED
    BY <2>2, <2>3 DEF old, new
<1>3. ASSUME NEW row \in SellerRow, NEW today \in Nat, row.settled <= seller'.settled
      PROVE  StandingLevel(row, completed', today) <= LevelFor(seller'.settled, completed')
  <2>1. row.settled \in Nat
    BY DEF SellerRow
  <2>2. /\ LevelFor(row.settled, completed') \in Nat
        /\ LevelFor(row.settled, completed') <= LevelFor(seller'.settled, completed')
    <3> DEFINE old == row.settled
               new == seller'.settled
    <3>1. old \in Nat /\ new \in Nat /\ old <= new /\ completed' <= completed' /\ completed' \in Nat
      BY <1>1, <1>3, <2>1
    <3> HIDE DEF old, new
    <3>2. LevelFor(old, completed') \in Nat /\ LevelFor(old, completed') <= LevelFor(new, completed')
      BY <3>1, LevelGrows
    <3> QED
      BY <3>2 DEF old, new
  <2>3. /\ StandingLevel(row, completed', today) \in Nat
        /\ StandingLevel(row, completed', today) <= LevelFor(row.settled, completed')
    BY <1>1, <1>3, StandingBound
  <2> QED
    BY <1>2, <2>2, <2>3
<1>4. ASSUME NEW n \in Nat, n <= Ceiling PROVE n <= Ceiling'
  BY <1>2, <1>4 DEF Ceiling
<1> QED
  BY <1>3, <1>4

LEMMA EarnedBegins == MarketInit => EarnedInv
<1> SUFFICES ASSUME MarketInit PROVE EarnedInv
  OBVIOUS
<1>1. Earnings * 0 = 0
  BY NumbersAssumption
<1>2. LevelFor(0, 0) \in Nat
  BY LevelGrows
<1>3. \A t \in Tasks : ~Writes(tasks[t]) /\ tasks[t].step # "level"
  BY DEF MarketInit, NoTask, Writes
<1> QED
  BY <1>1, <1>2, <1>3 DEF MarketInit, EarnedInv, Ceiling

\* What holds of every request holds still when one of them changes to another
\* of which it holds.
LEMMA TurnEarned ==
    ASSUME MarketTypes, NEW t \in Tasks, NEW r \in MarketTask, Turns(t, r), EarnedInv,
           UNCHANGED <<completed, sale>>, seller'.settled = seller.settled, seller'.level <= Ceiling,
           Writes(r) => r.row.settled <= seller.settled,
           r.step = "level" => r.level <= Ceiling
    PROVE  EarnedInv'
<1>1. Ceiling' = Ceiling
  BY DEF Ceiling
<1>2. ASSUME NEW u \in Tasks
      PROVE  /\ Writes(tasks'[u]) => tasks'[u].row.settled <= seller'.settled
             /\ tasks'[u].step = "level" => tasks'[u].level <= Ceiling'
  <2>1. tasks'[u] = IF u = t THEN r ELSE tasks[u]
    BY DEF Turns, MarketTypes
  <2> QED
    BY <1>1, <2>1 DEF EarnedInv
<1> QED
  BY <1>1, <1>2 DEF EarnedInv, Writes

LEMMA EarnedSteps == MarketTypes /\ MarketTypes' /\ EarnedInv /\ [MarketNext]_marketVars => EarnedInv'
<1> SUFFICES ASSUME MarketTypes, MarketTypes', EarnedInv, [MarketNext]_marketVars PROVE EarnedInv'
  OBVIOUS
<1>0. /\ date \in Nat /\ completed \in Nat /\ seller \in SellerRow /\ seller.settled \in Nat
      /\ seller.level \in Nat /\ tasks \in [Tasks -> MarketTask] /\ \A t \in Tasks : tasks[t] \in MarketTask
      /\ seller.level <= Ceiling /\ Earnings \in Nat
      /\ Earnings * (completed + 1) = Earnings * completed + Earnings
  BY NumbersAssumption DEF MarketTypes, SellerRow, EarnedInv
<1>1. ASSUME completed' = completed + 1, UNCHANGED tasks, sale' # NoSale => sale'.row.settled <= seller'.settled,
             seller'.settled = seller.settled + Earnings, seller'.level \in Nat,
             seller'.level = seller.level \/
                 \E today \in Nat, row \in SellerRow :
                     row.settled = seller'.settled /\ seller'.level = StandingLevel(row, completed', today)
      PROVE  EarnedInv'
  <2>1. seller.settled <= seller'.settled /\ completed <= completed'
    BY <1>0, <1>1
  <2>2. \A n \in Nat : n <= Ceiling => n <= Ceiling'
    BY <2>1, EarnedStays
  <2>3. seller'.level <= Ceiling'
    <3>1. CASE seller'.level = seller.level
      BY <1>0, <2>2, <3>1
    <3>2. CASE \E today \in Nat, row \in SellerRow :
                   row.settled = seller'.settled /\ seller'.level = StandingLevel(row, completed', today)
      <4>1. PICK today \in Nat, row \in SellerRow :
                     row.settled = seller'.settled /\ seller'.level = StandingLevel(row, completed', today)
        BY <3>2
      <4>2. row.settled <= seller'.settled
        BY <1>0, <1>1, <4>1
      <4> QED
        BY <2>1, <4>1, <4>2, EarnedStays DEF Ceiling
    <3> QED
      BY <1>1, <3>1, <3>2
  <2>4. ASSUME NEW t \in Tasks
        PROVE  /\ Writes(tasks[t]) => tasks[t].row.settled <= seller'.settled
               /\ tasks[t].step = "level" => tasks[t].level <= Ceiling'
    <3>1. Writes(tasks[t]) => tasks[t].row.settled \in Nat /\ tasks[t].level \in Nat
      BY <1>0, TaskFields DEF SellerRow
    <3>2. tasks[t].step = "level" => Writes(tasks[t])
      BY <1>0, TaskFields
    <3> QED
      BY <1>0, <1>1, <2>1, <2>2, <3>1, <3>2 DEF EarnedInv
  <2>5. seller'.settled = Earnings * completed'
    BY <1>0, <1>1 DEF EarnedInv
  <2> QED
    BY <1>1, <2>3, <2>4, <2>5 DEF EarnedInv, Writes, Ceiling
<1>2. ASSUME UNCHANGED <<completed, sale>>, seller'.settled = seller.settled, seller'.level = seller.level,
             \A t \in Tasks : tasks'[t] = tasks[t] \/ tasks'[t].op = "edit"
      PROVE  EarnedInv'
  <2>1. Ceiling' = Ceiling
    BY <1>2 DEF Ceiling
  <2>2. ASSUME NEW t \in Tasks
        PROVE  /\ Writes(tasks'[t]) => tasks[t] = tasks'[t]
               /\ tasks'[t].step = "level" => tasks[t] = tasks'[t]
    <3>1. tasks'[t] \in MarketTask
      BY DEF MarketTypes
    <3> QED
      BY <1>2, <3>1, TaskFields DEF Writes
  <2> QED
    BY <1>2, <2>1, <2>2 DEF EarnedInv, Writes
<1>3. CASE SettleSale
  <2> DEFINE row == Counted(seller)
             level == StandingLevel(row, CompletedOrders + 1, date)
  <2>1. /\ completed' = completed + 1 /\ seller' = [row EXCEPT !.level = level]
        /\ UNCHANGED <<sale, tasks>>
    BY <1>3 DEF SettleSale
  <2>2. row \in SellerRow /\ row.settled = seller.settled + Earnings /\ level \in Nat
    <3>1. row \in SellerRow /\ row.settled = seller.settled + Earnings
      BY CountedSale
    <3>2. CompletedOrders + 1 \in Nat
      BY <1>0 DEF CompletedOrders
    <3> HIDE DEF row
    <3> QED
      BY <1>0, <3>1, <3>2, StandingBound
  <2>3. level = StandingLevel(row, completed', date)
    BY <2>1 DEF CompletedOrders
  <2> HIDE DEF row, level
  <2>4. seller'.settled = row.settled /\ seller'.level = level
    BY <2>1, <2>2 DEF SellerRow
  <2>5. sale # NoSale => sale.row.settled <= seller'.settled
    <3>1. sale # NoSale => sale.row.settled \in Nat
      BY DEF MarketTypes, SellerRow
    <3> QED
      BY <1>0, <2>2, <2>4, <3>1 DEF EarnedInv
  <2> QED
    BY <1>0, <1>1, <2>1, <2>2, <2>3, <2>4, <2>5
<1>4. CASE SettleRow
  <2>1. /\ completed' = completed + 1 /\ seller' = Counted(seller) /\ sale'.row = seller'
        /\ UNCHANGED tasks
    BY <1>4 DEF SettleRow
  <2>2. seller'.settled = seller.settled + Earnings /\ seller'.level = seller.level /\ seller'.settled \in Nat
    BY <1>0, <2>1, CountedSale
  <2> QED
    BY <1>0, <1>1, <2>1, <2>2
<1>5. CASE SettleLevel
  <2> DEFINE level == StandingLevel(sale.row, CompletedOrders, sale.row.lastSettled)
  <2>1. /\ sale # NoSale
        /\ seller' = [seller EXCEPT !.level = IF level = sale.row.level THEN @ ELSE level]
        /\ sale' = IF level = sale.row.level THEN NoSale ELSE [sale EXCEPT !.step = "rank", !.level = level]
        /\ UNCHANGED <<completed, tasks>>
    BY <1>5 DEF SettleLevel
  <2>2. sale \in [step : {"level", "rank"}, row : SellerRow, level : Nat]
    BY <2>1 DEF MarketTypes
  <2>3. sale.row \in SellerRow /\ sale.row.lastSettled \in Nat /\ sale.row.settled <= seller.settled
    BY <2>1, <2>2 DEF SellerRow, EarnedInv
  <2>4. seller'.settled = seller.settled
    BY <1>0, <2>1 DEF SellerRow
  <2>5. level <= Ceiling
    <3>1. seller.settled <= seller'.settled /\ completed <= completed'
      BY <1>0, <2>1, <2>4
    <3>2. StandingLevel(sale.row, completed', sale.row.lastSettled) <= LevelFor(seller'.settled, completed')
      BY <2>3, <2>4, <3>1, EarnedStays
    <3> QED
      BY <2>1, <2>4, <3>2 DEF Ceiling, CompletedOrders
  <2> HIDE DEF level
  <2>6. seller'.level = level \/ seller'.level = seller.level
    BY <1>0, <2>1 DEF SellerRow
  <2>7. sale' # NoSale => sale'.row = sale.row
    BY <2>1, <2>2
  <2>8. Ceiling' = Ceiling
    BY <2>1, <2>4 DEF Ceiling
  <2> QED
    BY <1>0, <2>1, <2>3, <2>4, <2>5, <2>6, <2>7, <2>8 DEF EarnedInv, Writes
<1>6. CASE SettleRank
  <2>1. Ceiling' = Ceiling
    BY <1>6 DEF SettleRank, Ceiling
  <2> QED
    BY <1>6, <2>1 DEF SettleRank, EarnedInv, Writes
<1>7. CASE NextDay
  BY <1>2, <1>7 DEF NextDay
<1>8. ASSUME NEW t \in Tasks, Decay(t) PROVE EarnedInv'
  <2> DEFINE r == [op |-> "decay", step |-> "count", row |-> seller, level |-> 0, today |-> date]
  <2>1. r \in MarketTask
    BY <1>0 DEF DecayTask, MarketTask
  <2>2. Turns(t, r) /\ UNCHANGED <<seller, completed, sale>>
    BY <1>8 DEF Decay
  <2> QED
    BY <1>0, <2>1, <2>2, TurnEarned
<1>9. ASSUME NEW t \in Tasks, Suspend(t) PROVE EarnedInv'
  <2> DEFINE r == [op |-> "suspend", step |-> "penalty", row |-> seller, level |-> 0]
  <2>1. r \in MarketTask
    BY <1>0 DEF StandingTask, MarketTask
  <2>2. /\ Turns(t, r) /\ UNCHANGED <<completed, sale>>
        /\ seller'.settled = seller.settled /\ seller'.level = seller.level
    BY <1>0, <1>9 DEF Suspend, SellerRow
  <2> QED
    BY <1>0, <2>1, <2>2, TurnEarned
<1>10. ASSUME NEW t \in Tasks, Penalise(t) PROVE EarnedInv'
  <2> DEFINE r == Penalised(tasks[t], seller')
  <2>1. seller' \in SellerRow /\ tasks[t].step = "penalty"
    BY <1>10 DEF MarketTypes, Penalise
  <2>2. r \in MarketTask /\ r.step = "count" /\ r.row = seller'
    BY <1>0, <2>1, PenalisedTask
  <2>3. /\ Turns(t, r) /\ UNCHANGED <<completed, sale>>
        /\ seller'.settled = seller.settled /\ seller'.level = seller.level
    BY <1>0, <1>10 DEF Penalise, Penalised, SellerRow
  <2> HIDE DEF r
  <2> QED
    BY <1>0, <2>2, <2>3, TurnEarned
<1>11. ASSUME NEW t \in Tasks, Reinstate(t) PROVE EarnedInv'
  <2> DEFINE r == [op |-> "reinstate", step |-> "count", row |-> seller', level |-> 0]
  <2>1. seller' \in SellerRow
    BY DEF MarketTypes
  <2>2. r \in MarketTask
    BY <2>1 DEF StandingTask, MarketTask
  <2>3. /\ Turns(t, r) /\ UNCHANGED <<completed, sale>>
        /\ seller'.settled = seller.settled /\ seller'.level = seller.level
    BY <1>0, <1>11 DEF Reinstate, SellerRow
  <2> QED
    BY <1>0, <2>2, <2>3, TurnEarned
<1>12. ASSUME NEW t \in Tasks, CountOrders(t) PROVE EarnedInv'
  <2> DEFINE r == tasks[t]
             today == IF r.op = "decay" THEN r.today ELSE date
             level == StandingLevel(r.row, CompletedOrders, today)
             q == IF level = r.row.level THEN NoTask ELSE [r EXCEPT !.step = "level", !.level = level]
  <2>1. r.step = "count" /\ Turns(t, q) /\ UNCHANGED <<seller, completed, sale>>
    BY <1>12 DEF CountOrders
  <2>2. r \in MarketTask
    BY <1>0
  <2> HIDE DEF r
  <2>3. Writes(r) /\ r.row \in SellerRow /\ (r.op = "decay" => r.today \in Nat)
    BY <2>1, <2>2, TaskFields
  <2>4. level \in Nat /\ today \in Nat
    BY <1>0, <2>3, StandingBound DEF CompletedOrders
  <2>5. r.row.settled <= seller.settled
    BY <2>3 DEF EarnedInv, r
  <2>6. level <= Ceiling
    <3>1. StandingLevel(r.row, completed', today) <= LevelFor(seller'.settled, completed')
      <4>1. seller.settled <= seller'.settled /\ completed <= completed' /\ r.row.settled <= seller'.settled
        BY <1>0, <2>1, <2>5
      <4> HIDE DEF today
      <4> QED
        BY <2>3, <2>4, <4>1, EarnedStays
    <3> QED
      BY <2>1, <3>1 DEF Ceiling, CompletedOrders
  <2> HIDE DEF level
  <2>7. q \in MarketTask
    BY <2>2, <2>3, <2>4, NextTask DEF MarketTask, Onward
  <2>8. CASE q = NoTask
    BY <1>0, <2>1, <2>7, <2>8, TurnEarned DEF NoTask, Writes
  <2>9. CASE q # NoTask
    <3>1. q = Onward(r, "level", level)
      BY <2>9 DEF Onward
    <3> HIDE DEF q
    <3>2. q.row = r.row /\ q.level = level
      BY <2>2, <2>3, <2>4, <3>1, NextTask
    <3> QED
      BY <1>0, <2>1, <2>5, <2>6, <2>7, <3>1, <3>2, TurnEarned
  <2> QED
    BY <2>8, <2>9
<1>13. ASSUME NEW t \in Tasks, WriteLevel(t) PROVE EarnedInv'
  <2> DEFINE r == [tasks[t] EXCEPT !.step = "rank"]
  <2>1. tasks[t].step = "level" /\ Writes(tasks[t]) /\ tasks[t].level \in Nat
    BY <1>0, <1>13, TaskFields DEF WriteLevel
  <2>2. r \in MarketTask /\ r.step = "rank" /\ r.row = tasks[t].row
    <3> DEFINE q == AtStep(tasks[t], "rank")
    <3>1. r = q
      BY DEF AtStep
    <3>2. q \in MarketTask /\ q.step = "rank" /\ q.row = tasks[t].row
      BY <1>0, <2>1, NextTask
    <3> HIDE DEF q, r
    <3> QED
      BY <3>1, <3>2
  <2>3. /\ Turns(t, r) /\ UNCHANGED <<completed, sale>>
        /\ seller'.settled = seller.settled /\ seller'.level = tasks[t].level
    BY <1>0, <1>13 DEF WriteLevel, SellerRow
  <2>4. tasks[t].level <= Ceiling /\ tasks[t].row.settled <= seller.settled
    BY <2>1 DEF EarnedInv
  <2> HIDE DEF r
  <2> QED
    BY <2>2, <2>3, <2>4, TurnEarned
<1>14. ASSUME NEW t \in Tasks, WriteRank(t) PROVE EarnedInv'
  <2>1. Turns(t, NoTask) /\ UNCHANGED <<seller, completed, sale>>
    BY <1>14 DEF WriteRank
  <2> QED
    BY <1>0, <2>1, TurnEarned DEF NoTask, MarketTask, Writes
<1>15. ASSUME NEW t \in Tasks, BeginListing(t) PROVE EarnedInv'
  <2> DEFINE r == [op |-> "create", step |-> "insert", level |-> seller.level]
  <2>1. r \in MarketTask /\ ~Writes(r) /\ r.step # "level"
    BY <1>0 DEF CreateTask, MarketTask, Writes
  <2>2. Turns(t, r) /\ UNCHANGED <<seller, completed, sale>>
    BY <1>15 DEF BeginListing
  <2> HIDE DEF r
  <2> QED
    BY <1>0, <2>1, <2>2, TurnEarned
<1>16. ASSUME NEW t \in Tasks, InsertNewListing(t) PROVE EarnedInv'
  <2>1. Turns(t, NoTask) /\ UNCHANGED <<seller, completed, sale>>
    BY <1>16 DEF InsertNewListing
  <2> QED
    BY <1>0, <2>1, TurnEarned DEF NoTask, MarketTask, Writes
<1>17. ASSUME NEW t \in Tasks, EditListing(t) PROVE EarnedInv'
  <2>1. Turns(t, NoTask) /\ UNCHANGED <<seller, completed, sale>>
    BY <1>17 DEF EditListing
  <2> QED
    BY <1>0, <2>1, TurnEarned DEF NoTask, MarketTask, Writes
<1>18. ASSUME NEW t \in Tasks, NEW l \in Listings, BeginEdit(t, l) PROVE EarnedInv'
  <2> DEFINE r == [op |-> "edit", step |-> "edit", listing |-> l, overtaken |-> FALSE]
  <2>1. r \in MarketTask /\ ~Writes(r) /\ r.step # "level"
    BY DEF EditTask, MarketTask, Writes
  <2>2. Turns(t, r) /\ UNCHANGED <<seller, completed, sale>>
    BY <1>18 DEF BeginEdit
  <2> HIDE DEF r
  <2> QED
    BY <1>0, <2>1, <2>2, TurnEarned
<1>19. ASSUME NEW l \in Listings, RemoveListing(l) PROVE EarnedInv'
  <2>1. \A t \in Tasks : tasks'[t] = tasks[t] \/ tasks'[t].op = "edit"
    BY <1>0, <1>19, OvertakenTask DEF RemoveListing
  <2> QED
    BY <1>2, <1>19, <2>1 DEF RemoveListing
<1>20. CASE UNCHANGED marketVars
  BY <1>2, <1>20 DEF marketVars
<1> QED
  BY <1>3, <1>4, <1>5, <1>6, <1>7, <1>8, <1>9, <1>10, <1>11, <1>12,
     <1>13, <1>14, <1>15, <1>16, <1>17, <1>18, <1>19, <1>20 DEF MarketNext

\* A removal marks every edit it overtakes, and only listings are edited.
RemovedInv ==
    \A t \in Tasks :
        tasks[t].step = "edit" =>
            /\ listings[tasks[t].listing].status # "none"
            /\ listings[tasks[t].listing].status = "removed" => tasks[t].overtaken

\* A count of the orders ends the request, or has it write the level that follows.
LEMMA Counting ==
    ASSUME MarketTypes, NEW t \in Tasks, CountOrders(t)
    PROVE  /\ Writes(tasks[t]) /\ tasks[t].step = "count"
           /\ UNCHANGED <<seller, completed, listings, sale, suspensions, overlapped>>
           /\ \A u \in Tasks : u # t => tasks'[u] = tasks[u]
           /\ \E today \in Nat :
                  LET level == StandingLevel(tasks[t].row, completed, today)
                  IN  /\ level \in Nat
                      /\ \/ level = tasks[t].row.level /\ tasks'[t] = NoTask
                         \/ tasks'[t] = Onward(tasks[t], "level", level)
<1> DEFINE r == tasks[t]
           today == IF r.op = "decay" THEN r.today ELSE date
           level == StandingLevel(r.row, completed, today)
<1>1. /\ r.step = "count" /\ UNCHANGED <<seller, completed, listings, sale, suspensions, overlapped>>
      /\ Turns(t, IF level = r.row.level THEN NoTask ELSE Onward(r, "level", level))
  BY DEF CountOrders, Onward, CompletedOrders
<1>2. tasks \in [Tasks -> MarketTask] /\ r \in MarketTask
  BY DEF MarketTypes
<1>3. Writes(r) /\ r.row \in SellerRow /\ today \in Nat /\ completed \in Nat
  BY <1>1, <1>2, TaskFields DEF MarketTypes
<1> HIDE DEF today
<1>4. level \in Nat
  BY <1>3, StandingBound
<1>5. \/ level = r.row.level /\ tasks'[t] = NoTask
      \/ tasks'[t] = Onward(r, "level", level)
  BY <1>1, <1>2 DEF Turns
<1>6. \A u \in Tasks : u # t => tasks'[u] = tasks[u]
  BY <1>1, <1>2 DEF Turns
<1> QED
  BY <1>1, <1>3, <1>4, <1>5, <1>6

\* Until they are removed or edited, listings keep their status.
KeepsStatus ==
    \A l \in Listings : listings'[l].status \in {listings[l].status, "active", "paused"}

LEMMA StatusKept ==
    ASSUME MarketTypes, MarketTypes',
           \/ SettleSale \/ SettleRow \/ SettleLevel \/ SettleRank \/ NextDay \/ UNCHANGED marketVars
           \/ \E t \in Tasks :
                  \/ Decay(t) \/ Suspend(t) \/ Penalise(t) \/ Reinstate(t)
                  \/ CountOrders(t) \/ WriteLevel(t) \/ WriteRank(t)
                  \/ BeginListing(t) \/ InsertNewListing(t) \/ EditListing(t)
                  \/ \E l \in Listings : BeginEdit(t, l)
    PROVE  KeepsStatus
<1>1. ASSUME NEW n \in Nat, listings' = Ranked(n) PROVE KeepsStatus
  BY <1>1, RankedListings DEF KeepsStatus
<1>2. ASSUME UNCHANGED listings PROVE KeepsStatus
  BY <1>2 DEF KeepsStatus
<1>3. CASE SettleSale
  <2> DEFINE level == StandingLevel(Counted(seller), CompletedOrders + 1, date)
  <2>1. level \in Nat
    <3>1. Counted(seller) \in SellerRow /\ CompletedOrders + 1 \in Nat /\ date \in Nat
      BY CountedSale DEF MarketTypes, CompletedOrders
    <3> QED
      BY <3>1, StandingBound
  <2>2. listings' = listings \/ listings' = Ranked(level)
    BY <1>3 DEF SettleSale
  <2> HIDE DEF level
  <2> QED
    BY <1>1, <1>2, <2>1, <2>2
<1>4. CASE SettleRank
  <2>1. sale.level \in Nat /\ listings' = Ranked(sale.level)
    BY <1>4 DEF SettleRank, MarketTypes
  <2> QED
    BY <1>1, <2>1
<1>5. CASE SettleRow \/ SettleLevel \/ NextDay \/ UNCHANGED marketVars
  BY <1>2, <1>5 DEF SettleRow, SettleLevel, NextDay, marketVars
<1>6. ASSUME NEW t \in Tasks, WriteRank(t) PROVE KeepsStatus
  <2>1. tasks[t] \in MarketTask /\ tasks[t].step = "rank" /\ listings' = Ranked(tasks[t].level)
    BY <1>6 DEF WriteRank, Rerank, MarketTypes
  <2>2. tasks[t].level \in Nat
    BY <2>1, TaskFields
  <2> QED
    BY <1>1, <2>1, <2>2
<1>7. ASSUME NEW t \in Tasks, InsertNewListing(t) PROVE KeepsStatus
  <2>1. PICK l \in Listings :
            listings' = [listings EXCEPT ![l] = [status |-> "active", rank |-> tasks[t].level]]
    BY <1>7 DEF InsertNewListing
  <2> QED
    BY <2>1 DEF KeepsStatus, MarketTypes
<1>8. ASSUME NEW t \in Tasks, EditListing(t) PROVE KeepsStatus
  <2>1. PICK status \in {"active", "paused"} :
            listings' = [listings EXCEPT ![tasks[t].listing].status = status]
    BY <1>8 DEF EditListing
  <2> QED
    BY <2>1 DEF KeepsStatus, MarketTypes
<1>9. ASSUME NEW t \in Tasks,
             \/ Decay(t) \/ Suspend(t) \/ Penalise(t) \/ Reinstate(t) \/ CountOrders(t) \/ WriteLevel(t)
             \/ BeginListing(t) \/ \E l \in Listings : BeginEdit(t, l)
      PROVE  KeepsStatus
  BY <1>2, <1>9 DEF Decay, Suspend, Penalise, Reinstate, CountOrders, WriteLevel, BeginListing, BeginEdit
<1> QED
  BY <1>3, <1>4, <1>5, <1>6, <1>7, <1>8, <1>9

LEMMA RemovedSteps == MarketTypes /\ MarketTypes' /\ RemovedInv /\ [MarketNext]_marketVars => RemovedInv'
<1> SUFFICES ASSUME MarketTypes, MarketTypes', RemovedInv, [MarketNext]_marketVars PROVE RemovedInv'
  OBVIOUS
<1>0. /\ \A t \in Tasks : tasks[t] \in MarketTask /\ tasks'[t] \in MarketTask
      /\ tasks \in [Tasks -> MarketTask]
  BY DEF MarketTypes
<1>a. ASSUME KeepsStatus, \A t \in Tasks : tasks'[t] = tasks[t] \/ tasks'[t].step # "edit"
      PROVE  RemovedInv'
  <2> SUFFICES ASSUME NEW t \in Tasks, tasks'[t].step = "edit"
               PROVE  /\ listings'[tasks'[t].listing].status # "none"
                      /\ listings'[tasks'[t].listing].status = "removed" => tasks'[t].overtaken
    BY DEF RemovedInv
  <2>1. tasks'[t] = tasks[t] /\ tasks[t].listing \in Listings
    BY <1>0, <1>a, TaskFields
  <2> QED
    BY <1>a, <2>1 DEF RemovedInv, KeepsStatus
<1>b. ASSUME NEW t \in Tasks, NEW r, Turns(t, r), r.step # "edit", KeepsStatus PROVE RemovedInv'
  BY <1>0, <1>a, <1>b DEF Turns
<1>1. CASE SettleSale \/ SettleRow \/ SettleLevel \/ SettleRank \/ NextDay \/ UNCHANGED marketVars
  <2>1. UNCHANGED tasks
    BY <1>1 DEF SettleSale, SettleRow, SettleLevel, SettleRank, NextDay, marketVars
  <2>2. KeepsStatus
    BY <1>1, StatusKept
  <2> QED
    BY <1>a, <2>1, <2>2
<1>2. ASSUME NEW t \in Tasks, Decay(t) PROVE RemovedInv'
  <2>1. KeepsStatus
    BY <1>2, StatusKept
  <2> QED
    BY <1>2, <1>b, <2>1 DEF Decay
<1>3. ASSUME NEW t \in Tasks, Suspend(t) PROVE RemovedInv'
  <2>1. KeepsStatus
    BY <1>3, StatusKept
  <2> QED
    BY <1>3, <1>b, <2>1 DEF Suspend
<1>4. ASSUME NEW t \in Tasks, Penalise(t) PROVE RemovedInv'
  <2>1. KeepsStatus
    BY <1>4, StatusKept
  <2> DEFINE r == Penalised(tasks[t], seller')
  <2>2. seller' \in SellerRow /\ tasks[t].step = "penalty"
    BY <1>4 DEF MarketTypes, Penalise
  <2>3. r.step = "count"
    BY <1>0, <2>2, PenalisedTask
  <2>4. Turns(t, r)
    BY <1>4 DEF Penalise, Penalised
  <2> HIDE DEF r
  <2> QED
    BY <1>b, <2>1, <2>3, <2>4
<1>5. ASSUME NEW t \in Tasks, Reinstate(t) PROVE RemovedInv'
  <2>1. KeepsStatus
    BY <1>5, StatusKept
  <2> QED
    BY <1>5, <1>b, <2>1 DEF Reinstate
<1>6. ASSUME NEW t \in Tasks, CountOrders(t) PROVE RemovedInv'
  <2>1. KeepsStatus
    BY <1>6, StatusKept
  <2>2. /\ Writes(tasks[t]) /\ \A u \in Tasks : u # t => tasks'[u] = tasks[u]
        /\ tasks'[t] = NoTask \/ \E n \in Nat : tasks'[t] = Onward(tasks[t], "level", n)
    BY <1>6, Counting
  <2>3. \A n \in Nat : Onward(tasks[t], "level", n).step = "level"
    BY <1>0, <2>2, NextTask
  <2> QED
    BY <1>a, <2>1, <2>2, <2>3 DEF NoTask
<1>7. ASSUME NEW t \in Tasks, WriteLevel(t) PROVE RemovedInv'
  <2>1. KeepsStatus
    BY <1>7, StatusKept
  <2>2. Writes(tasks[t]) /\ tasks[t].level \in Nat /\ Turns(t, AtStep(tasks[t], "rank"))
    BY <1>0, <1>7, TaskFields DEF WriteLevel, AtStep
  <2>3. AtStep(tasks[t], "rank").step = "rank"
    BY <1>0, <2>2, NextTask
  <2> QED
    BY <1>b, <2>1, <2>2, <2>3
<1>8. ASSUME NEW t \in Tasks, WriteRank(t) PROVE RemovedInv'
  <2>1. KeepsStatus
    BY <1>8, StatusKept
  <2> QED
    BY <1>8, <1>b, <2>1 DEF WriteRank, NoTask
<1>9. ASSUME NEW t \in Tasks, BeginListing(t) PROVE RemovedInv'
  <2>1. KeepsStatus
    BY <1>9, StatusKept
  <2> QED
    BY <1>9, <1>b, <2>1 DEF BeginListing
<1>10. ASSUME NEW t \in Tasks, InsertNewListing(t) PROVE RemovedInv'
  <2>1. KeepsStatus
    BY <1>10, StatusKept
  <2> QED
    BY <1>10, <1>b, <2>1 DEF InsertNewListing, NoTask
<1>11. ASSUME NEW t \in Tasks, EditListing(t) PROVE RemovedInv'
  <2>1. KeepsStatus
    BY <1>11, StatusKept
  <2> QED
    BY <1>11, <1>b, <2>1 DEF EditListing, NoTask
<1>12. ASSUME NEW t \in Tasks, NEW l \in Listings, BeginEdit(t, l) PROVE RemovedInv'
  <2> DEFINE r == [op |-> "edit", step |-> "edit", listing |-> l, overtaken |-> FALSE]
  <2>1. Turns(t, r) /\ UNCHANGED listings /\ listings[l].status \in {"active", "paused"}
    BY <1>12 DEF BeginEdit, Editable
  <2> SUFFICES ASSUME NEW u \in Tasks, tasks'[u].step = "edit"
               PROVE  /\ listings'[tasks'[u].listing].status # "none"
                      /\ listings'[tasks'[u].listing].status = "removed" => tasks'[u].overtaken
    BY DEF RemovedInv
  <2>2. tasks'[u] = IF u = t THEN r ELSE tasks[u]
    BY <1>0, <2>1 DEF Turns
  <2> QED
    BY <2>1, <2>2 DEF RemovedInv
<1>13. ASSUME NEW l \in Listings, RemoveListing(l) PROVE RemovedInv'
  <2> SUFFICES ASSUME NEW t \in Tasks, tasks'[t].step = "edit"
               PROVE  /\ listings'[tasks'[t].listing].status # "none"
                      /\ listings'[tasks'[t].listing].status = "removed" => tasks'[t].overtaken
    BY DEF RemovedInv
  <2>1. listings' = [listings EXCEPT ![l].status = "removed"]
    BY <1>13 DEF RemoveListing
  <2>2. \A k \in Listings : listings'[k].status = IF k = l THEN "removed" ELSE listings[k].status
    BY <2>1 DEF MarketTypes
  <2>3. CASE tasks[t].op = "edit" /\ tasks[t].listing = l
    <3>1. tasks'[t] = [tasks[t] EXCEPT !.overtaken = TRUE]
      BY <1>13, <2>3 DEF RemoveListing
    <3>2. tasks'[t].listing = l /\ tasks'[t].overtaken
      BY <1>0, <2>3, <3>1, OvertakenTask
    <3> QED
      BY <2>2, <3>2
  <2>4. CASE ~(tasks[t].op = "edit" /\ tasks[t].listing = l)
    <3>1. tasks'[t] = tasks[t]
      BY <1>13, <2>4 DEF RemoveListing
    <3>2. tasks[t].listing \in Listings /\ tasks[t].listing # l
      BY <1>0, <2>4, <3>1, TaskFields
    <3> QED
      BY <2>2, <3>1, <3>2 DEF RemovedInv
  <2> QED
    BY <2>3, <2>4
<1> QED
  BY <1>1, <1>2, <1>3, <1>4, <1>5, <1>6, <1>7, <1>8, <1>9, <1>10, <1>11, <1>12, <1>13 DEF MarketNext

\* Suspensions whose penalty is still to be written are the ones not yet counted.
Penalties == {t \in Tasks : tasks[t].step = "penalty"}

PenaltyInv ==
    /\ IsFiniteSet(Penalties)
    /\ Cardinality(Penalties) <= suspensions
    /\ seller.penalty = Min({MaxPenalty, suspensions - Cardinality(Penalties)})

LEMMA Smaller ==
    ASSUME NEW m \in Nat, NEW n \in Nat
    PROVE  Min({m, n}) = IF m <= n THEN m ELSE n
<1>1. CASE m <= n
  <2>1. Min({m, n}) \in {m, n} /\ \A y \in {m, n} : Min({m, n}) <= y
    <3>1. m \in {m, n} /\ \A y \in {m, n} : m <= y
      BY <1>1
    <3> QED
      BY <3>1 DEF Min
  <2> QED
    BY <1>1, <2>1
<1>2. CASE ~(m <= n)
  <2>1. Min({m, n}) \in {m, n} /\ \A y \in {m, n} : Min({m, n}) <= y
    <3>1. n \in {m, n} /\ \A y \in {m, n} : n <= y
      BY <1>2
    <3> QED
      BY <3>1 DEF Min
  <2> QED
    BY <1>2, <2>1
<1> QED
  BY <1>1, <1>2

LEMMA PenaltyBegins == MarketInit => PenaltyInv
<1> SUFFICES ASSUME MarketInit PROVE PenaltyInv
  OBVIOUS
<1>1. Penalties = {}
  BY DEF MarketInit, Penalties, NoTask
<1>2. IsFiniteSet(Penalties) /\ Cardinality(Penalties) = 0
  BY <1>1, FS_EmptySet
<1>3. Min({MaxPenalty, 0}) = 0
  <2>1. MaxPenalty \in Nat
    BY NumbersAssumption
  <2> QED
    BY <2>1, Smaller
<1> QED
  BY <1>2, <1>3 DEF MarketInit, PenaltyInv

\* The slots a step of no request leaves at their penalty.
LEMMA PenaltyQuiet ==
    ASSUME PenaltyInv, UNCHANGED suspensions, seller'.penalty = seller.penalty, Penalties' = Penalties
    PROVE  PenaltyInv'
  BY DEF PenaltyInv

LEMMA PenaltySteps == MarketTypes /\ MarketTypes' /\ PenaltyInv /\ [MarketNext]_marketVars => PenaltyInv'
<1> SUFFICES ASSUME MarketTypes, MarketTypes', PenaltyInv, [MarketNext]_marketVars PROVE PenaltyInv'
  OBVIOUS
<1>0. /\ \A t \in Tasks : tasks[t] \in MarketTask /\ tasks'[t] \in MarketTask
      /\ tasks \in [Tasks -> MarketTask] /\ seller \in SellerRow
  BY DEF MarketTypes
<1>a. ASSUME UNCHANGED suspensions, seller'.penalty = seller.penalty,
             \A t \in Tasks : tasks'[t] = tasks[t] \/ (tasks[t].step # "penalty" /\ tasks'[t].step # "penalty")
      PROVE  PenaltyInv'
  <2>1. Penalties' = Penalties
    BY <1>a DEF Penalties
  <2> QED
    BY <1>a, <2>1, PenaltyQuiet
<1>b. ASSUME UNCHANGED suspensions, seller'.penalty = seller.penalty, NEW t \in Tasks, NEW r, Turns(t, r),
             tasks[t].step # "penalty", r.step # "penalty"
      PROVE  PenaltyInv'
  BY <1>0, <1>a, <1>b DEF Turns
<1>1. CASE SettleSale
  <2> DEFINE row == Counted(seller)
             level == StandingLevel(row, CompletedOrders + 1, date)
  <2>1. seller' = [row EXCEPT !.level = level] /\ UNCHANGED <<tasks, suspensions>>
    BY <1>1 DEF SettleSale
  <2>2. row \in SellerRow /\ row.penalty = seller.penalty
    BY CountedSale
  <2> HIDE DEF row, level
  <2> QED
    BY <1>a, <2>1, <2>2 DEF SellerRow
<1>2. CASE SettleRow
  BY <1>a, <1>2, CountedSale DEF SettleRow
<1>3. CASE SettleLevel
  <2>1. seller' = [seller EXCEPT !.level = seller'.level] /\ UNCHANGED <<tasks, suspensions>>
    BY <1>0, <1>3 DEF SettleLevel, SellerRow
  <2> QED
    BY <1>0, <1>a, <2>1 DEF SellerRow
<1>4. CASE SettleRank \/ NextDay \/ UNCHANGED marketVars
  BY <1>a, <1>4 DEF SettleRank, NextDay, marketVars
<1>5. ASSUME NEW t \in Tasks, Decay(t) PROVE PenaltyInv'
  BY <1>5, <1>b DEF Decay, Takes, NoTask
<1>6. ASSUME NEW t \in Tasks, Suspend(t) PROVE PenaltyInv'
  <2> DEFINE r == [op |-> "suspend", step |-> "penalty", row |-> seller, level |-> 0]
  <2>1. /\ tasks[t] = NoTask /\ Turns(t, r) /\ suspensions' = suspensions + 1
        /\ seller'.penalty = seller.penalty
    BY <1>0, <1>6 DEF Suspend, Takes, SellerRow
  <2>2. t \notin Penalties /\ Penalties' = Penalties \cup {t}
    BY <1>0, <2>1 DEF Penalties, Turns, NoTask
  <2>3. IsFiniteSet(Penalties') /\ Cardinality(Penalties') = Cardinality(Penalties) + 1
    BY <2>2, FS_AddElement DEF PenaltyInv
  <2>4. Cardinality(Penalties) \in Nat /\ suspensions \in Nat
    BY FS_CardinalityType DEF PenaltyInv, MarketTypes
  <2>5. suspensions' - Cardinality(Penalties') = suspensions - Cardinality(Penalties)
    BY <2>1, <2>3, <2>4
  <2>6. seller'.penalty = Min({MaxPenalty, suspensions' - Cardinality(Penalties')})
    BY <2>1, <2>5 DEF PenaltyInv
  <2>7. Cardinality(Penalties') <= suspensions'
    BY <2>1, <2>3, <2>4 DEF PenaltyInv
  <2> QED
    BY <2>3, <2>6, <2>7 DEF PenaltyInv
<1>7. ASSUME NEW t \in Tasks, Penalise(t) PROVE PenaltyInv'
  <2> DEFINE r == Penalised(tasks[t], seller')
  <2>1. /\ tasks[t].step = "penalty" /\ Turns(t, r) /\ UNCHANGED suspensions
        /\ seller'.penalty = Penalty(tasks[t].row)
    BY <1>0, <1>7 DEF Penalise, Penalised, SellerRow
  <2>2. r.step = "count"
    <3>1. seller' \in SellerRow
      BY DEF MarketTypes
    <3> QED
      BY <1>0, <2>1, <3>1, PenalisedTask
  <2> HIDE DEF r
  <2>3. t \in Penalties /\ Penalties' = Penalties \ {t}
    BY <1>0, <2>1, <2>2 DEF Penalties, Turns
  <2>4. IsFiniteSet(Penalties') /\ Cardinality(Penalties') = Cardinality(Penalties) - 1
    BY <2>3, FS_RemoveElement DEF PenaltyInv
  <2>5. /\ Cardinality(Penalties) \in Nat /\ Cardinality(Penalties') \in Nat
        /\ suspensions \in Nat /\ MaxPenalty \in Nat /\ Cardinality(Penalties) <= suspensions
    BY <2>4, FS_CardinalityType, NumbersAssumption DEF PenaltyInv, MarketTypes
  <2> DEFINE counted == suspensions - Cardinality(Penalties)
  <2>6. counted \in Nat /\ suspensions' - Cardinality(Penalties') = counted + 1
    BY <2>1, <2>4, <2>5
  <2>7. seller.penalty = Min({MaxPenalty, counted})
    BY DEF PenaltyInv
  <2>8. Cardinality(Penalties') <= suspensions'
    BY <2>1, <2>4, <2>5
  <2> HIDE DEF counted
  <2>9. seller'.penalty = Min({MaxPenalty, counted + 1})
    BY <2>1, <2>5, <2>6, <2>7, Smaller DEF Penalty
  <2> QED
    BY <2>4, <2>6, <2>8, <2>9 DEF PenaltyInv
<1>8. ASSUME NEW t \in Tasks, Reinstate(t) PROVE PenaltyInv'
  <2>1. seller'.penalty = seller.penalty /\ UNCHANGED suspensions
    BY <1>0, <1>8 DEF Reinstate, SellerRow
  <2> QED
    BY <1>8, <1>b, <2>1 DEF Reinstate, Takes, NoTask
<1>9. ASSUME NEW t \in Tasks, CountOrders(t) PROVE PenaltyInv'
  <2>1. /\ tasks[t].step = "count" /\ UNCHANGED <<seller, suspensions>>
        /\ \A u \in Tasks : u # t => tasks'[u] = tasks[u]
        /\ tasks'[t] = NoTask \/ \E n \in Nat : tasks'[t] = Onward(tasks[t], "level", n)
    BY <1>9, Counting
  <2>2. tasks'[t].step # "penalty"
    <3>1. Writes(tasks[t])
      BY <1>0, <2>1, TaskFields
    <3>2. \A n \in Nat : Onward(tasks[t], "level", n).step = "level"
      BY <1>0, <3>1, NextTask
    <3> QED
      BY <2>1, <3>2 DEF NoTask
  <2> QED
    BY <1>a, <2>1, <2>2
<1>10. ASSUME NEW t \in Tasks, WriteLevel(t) PROVE PenaltyInv'
  <2>1. /\ tasks[t].step = "level" /\ Writes(tasks[t]) /\ Turns(t, AtStep(tasks[t], "rank"))
        /\ tasks[t].level \in Nat /\ seller'.penalty = seller.penalty /\ UNCHANGED suspensions
    BY <1>0, <1>10, TaskFields DEF WriteLevel, AtStep, SellerRow
  <2>2. AtStep(tasks[t], "rank").step = "rank"
    BY <1>0, <2>1, NextTask
  <2> QED
    BY <1>b, <2>1, <2>2
<1>11. ASSUME NEW t \in Tasks, WriteRank(t) PROVE PenaltyInv'
  BY <1>11, <1>b DEF WriteRank, NoTask
<1>12. ASSUME NEW t \in Tasks, BeginListing(t) PROVE PenaltyInv'
  BY <1>12, <1>b DEF BeginListing, Takes, NoTask
<1>13. ASSUME NEW t \in Tasks, InsertNewListing(t) PROVE PenaltyInv'
  BY <1>13, <1>b DEF InsertNewListing, NoTask
<1>14. ASSUME NEW t \in Tasks, EditListing(t) PROVE PenaltyInv'
  BY <1>14, <1>b DEF EditListing, NoTask
<1>15. ASSUME NEW t \in Tasks, NEW l \in Listings, BeginEdit(t, l) PROVE PenaltyInv'
  BY <1>15, <1>b DEF BeginEdit, Takes, NoTask
<1>16. ASSUME NEW l \in Listings, RemoveListing(l) PROVE PenaltyInv'
  <2>1. \A t \in Tasks : tasks'[t] = tasks[t] \/ (tasks[t].step = "edit" /\ tasks'[t].step = "edit")
    BY <1>0, <1>16, OvertakenTask, TaskFields DEF RemoveListing
  <2> QED
    BY <1>16, <1>a, <2>1 DEF RemoveListing
<1> QED
  BY <1>1, <1>2, <1>3, <1>4, <1>5, <1>6, <1>7, <1>8, <1>9, <1>10, <1>11, <1>12,
     <1>13, <1>14, <1>15, <1>16 DEF MarketNext

\* While no two writers of standing have been under way at once, the one there
\* is has read the level the profile shows, and the listings sort by it but for
\* the step in between.
Shown == \A l \in Listings : listings[l] # NoListing => listings[l].rank = seller.level

FreshInv ==
    ~overlapped =>
        /\ \A t, u \in Writing : t = u
        /\ Writing # {} => sale = NoSale
        /\ \A t \in Tasks :
               /\ tasks[t].step = "count" => tasks[t].row.level = seller.level
               /\ tasks[t].step \in {"insert", "rank"} => tasks[t].level = seller.level
        /\ sale.step = "level" => sale.row.level = seller.level
        /\ sale.step = "rank" => sale.level = seller.level
        /\ Shown \/ sale.step = "rank" \/ \E t \in Tasks : tasks[t].step = "rank"

LEMMA WritingTasks ==
    ASSUME NEW f \in [Tasks -> MarketTask]
    PROVE  /\ {t \in Tasks : f[t] # NoTask /\ f[t].op # "edit"} = {t \in Tasks : f[t].op \notin {"idle", "edit"}}
           /\ \A t \in Tasks : f[t].op \in {"idle", "edit"} => f[t].step \in {"idle", "edit"}
<1>1. ASSUME NEW t \in Tasks
      PROVE  /\ f[t] # NoTask <=> f[t].op # "idle"
             /\ f[t].op = "idle" <=> f[t].step = "idle"
             /\ f[t].op = "edit" <=> f[t].step = "edit"
  <2>1. f[t] \in MarketTask
    OBVIOUS
  <2> QED
    BY <2>1, TaskFields
<1> QED
  BY <1>1

LEMMA FreshBegins == MarketInit => FreshInv
<1> SUFFICES ASSUME MarketInit PROVE FreshInv
  OBVIOUS
<1>1. Writing = {} /\ \A t \in Tasks : tasks[t].step = "idle"
  BY DEF MarketInit, Writing, NoTask
<1>2. Shown /\ sale.step = "none"
  BY DEF MarketInit, Shown, NoSale
<1> QED
  BY <1>1, <1>2 DEF FreshInv

\* The only writer goes on.
LEMMA FreshGoesOn ==
    ASSUME MarketTypes, MarketTypes', FreshInv, UNCHANGED <<sale, overlapped>>,
           NEW t \in Writing, \A u \in Tasks : u # t => tasks'[u] = tasks[u],
           tasks'[t].step = "count" => tasks'[t].row.level = seller'.level,
           tasks'[t].step \in {"insert", "rank"} => tasks'[t].level = seller'.level,
           tasks'[t].step = "rank" \/ (~overlapped => Shown')
    PROVE  FreshInv'
<1> SUFFICES ASSUME ~overlapped PROVE FreshInv'
  BY DEF FreshInv
<1>1. sale = NoSale /\ sale.step = "none" /\ \A u \in Writing : u = t
  BY DEF FreshInv, NoSale
<1>2. /\ t \in Tasks
      /\ \A u \in Tasks : u # t => tasks[u].op \in {"idle", "edit"} /\ tasks[u].step \in {"idle", "edit"}
  <2>1. /\ Writing = {u \in Tasks : tasks[u].op \notin {"idle", "edit"}}
        /\ \A u \in Tasks : tasks[u].op \in {"idle", "edit"} => tasks[u].step \in {"idle", "edit"}
    BY WritingTasks DEF MarketTypes, Writing
  <2> QED
    BY <1>1, <2>1
<1>3. \A u \in Writing' : u = t
  <2>1. Writing' = {u \in Tasks : tasks'[u].op \notin {"idle", "edit"}}
    BY WritingTasks DEF MarketTypes, Writing
  <2> QED
    BY <1>2, <2>1
<1> QED
  BY <1>1, <1>2, <1>3 DEF FreshInv

\* A writer begins when there is no other, or it overlaps with one.
LEMMA FreshStarts ==
    ASSUME MarketTypes, MarketTypes', FreshInv, Crosses, UNCHANGED <<sale, listings>>,
           seller'.level = seller.level,
           NEW t \in Tasks, \A u \in Tasks : u # t => tasks'[u] = tasks[u],
           tasks'[t].step \in {"penalty", "count", "insert"},
           tasks'[t].step = "count" => tasks'[t].row.level = seller'.level,
           tasks'[t].step = "insert" => tasks'[t].level = seller'.level
    PROVE  FreshInv'
<1> SUFFICES ASSUME ~overlapped' PROVE FreshInv'
  BY DEF FreshInv
<1>1. ~overlapped /\ Writing = {} /\ sale = NoSale /\ sale.step = "none"
  <2>1. overlapped' = (overlapped \/ Writing # {} \/ sale # NoSale)
    BY DEF Crosses
  <2>2. ~(overlapped \/ Writing # {} \/ sale # NoSale)
    BY <2>1
  <2> QED
    BY <2>2 DEF NoSale
<1>2. \A u \in Tasks : tasks[u].op \in {"idle", "edit"} /\ tasks[u].step \in {"idle", "edit"}
  <2>1. /\ Writing = {u \in Tasks : tasks[u].op \notin {"idle", "edit"}}
        /\ \A u \in Tasks : tasks[u].op \in {"idle", "edit"} => tasks[u].step \in {"idle", "edit"}
    BY WritingTasks DEF MarketTypes, Writing
  <2> QED
    BY <1>1, <2>1
<1>3. Shown'
  <2>1. Shown
    BY <1>1, <1>2 DEF FreshInv
  <2> QED
    BY <2>1 DEF Shown
<1>4. \A u \in Writing' : u = t
  <2>1. Writing' = {u \in Tasks : tasks'[u].op \notin {"idle", "edit"}}
    BY WritingTasks DEF MarketTypes, Writing
  <2> QED
    BY <1>2, <2>1
<1> QED
  BY <1>1, <1>2, <1>3, <1>4 DEF FreshInv

\* Edits write no standing.
LEMMA FreshAside ==
    ASSUME MarketTypes, MarketTypes', FreshInv, UNCHANGED <<sale, seller, overlapped>>, Shown => Shown',
           \A u \in Tasks : \/ tasks'[u] = tasks[u]
                            \/ {tasks[u].op, tasks'[u].op} \subseteq {"idle", "edit"}
    PROVE  FreshInv'
<1>1. /\ Writing = {u \in Tasks : tasks[u].op \notin {"idle", "edit"}}
      /\ Writing' = {u \in Tasks : tasks'[u].op \notin {"idle", "edit"}}
      /\ \A u \in Tasks : tasks[u].op \in {"idle", "edit"} => tasks[u].step \in {"idle", "edit"}
      /\ \A u \in Tasks : tasks'[u].op \in {"idle", "edit"} => tasks'[u].step \in {"idle", "edit"}
  BY WritingTasks DEF MarketTypes, Writing
<1>2. Writing' = Writing
  BY <1>1
<1>3. \A u \in Tasks : \/ tasks'[u] = tasks[u]
                       \/ tasks[u].step \in {"idle", "edit"} /\ tasks'[u].step \in {"idle", "edit"}
  BY <1>1
<1> QED
  BY <1>2, <1>3 DEF FreshInv

\* A settling sale, when no other writer is under way.
LEMMA FreshSettles ==
    ASSUME MarketTypes, FreshInv, UNCHANGED tasks, ~overlapped' => ~overlapped /\ Writing = {},
           ~overlapped' => /\ sale'.step = "level" => sale'.row.level = seller'.level
                           /\ sale'.step = "rank" => sale'.level = seller'.level
                           /\ Shown' \/ sale'.step = "rank"
    PROVE  FreshInv'
<1> SUFFICES ASSUME ~overlapped' PROVE FreshInv'
  BY DEF FreshInv
<1>1. Writing = {} /\ Writing' = {}
  BY DEF Writing
<1>2. \A u \in Tasks : tasks[u].step \in {"idle", "edit"}
  <2>1. /\ Writing = {u \in Tasks : tasks[u].op \notin {"idle", "edit"}}
        /\ \A u \in Tasks : tasks[u].op \in {"idle", "edit"} => tasks[u].step \in {"idle", "edit"}
    BY WritingTasks DEF MarketTypes, Writing
  <2> QED
    BY <1>1, <2>1
<1> QED
  BY <1>1, <1>2 DEF FreshInv

LEMMA FreshSteps ==
    MarketTypes /\ MarketTypes' /\ RemovedInv /\ FreshInv /\ [MarketNext]_marketVars => FreshInv'
<1> SUFFICES ASSUME MarketTypes, MarketTypes', RemovedInv, FreshInv, [MarketNext]_marketVars PROVE FreshInv'
  OBVIOUS
<1>0. /\ \A t \in Tasks : tasks[t] \in MarketTask /\ tasks'[t] \in MarketTask
      /\ tasks \in [Tasks -> MarketTask] /\ seller \in SellerRow /\ seller.level \in Nat
      /\ completed \in Nat /\ date \in Nat
      /\ listings \in [Listings -> [status : {"none", "active", "paused", "removed"}, rank : Nat]]
      /\ sale = NoSale \/ (sale \in [step : {"level", "rank"}, row : SellerRow, level : Nat] /\ sale # NoSale)
  BY DEF MarketTypes, SellerRow
<1>a. ASSUME ~overlapped, Writing = {} PROVE \A u \in Tasks : tasks[u].step \in {"idle", "edit"}
  <2>1. /\ Writing = {u \in Tasks : tasks[u].op \notin {"idle", "edit"}}
        /\ \A u \in Tasks : tasks[u].op \in {"idle", "edit"} => tasks[u].step \in {"idle", "edit"}
    BY WritingTasks DEF MarketTypes, Writing
  <2> QED
    BY <1>a, <2>1
<1>b. ASSUME NEW t \in Tasks, NEW r, Turns(t, r)
      PROVE  tasks'[t] = r /\ \A u \in Tasks : u # t => tasks'[u] = tasks[u]
  BY <1>0, <1>b DEF Turns
<1>c. ASSUME NEW t \in Tasks, tasks[t].step \in {"penalty", "count", "level", "rank", "insert"} PROVE t \in Writing
  <2>1. tasks[t].op \notin {"idle", "edit"}
    BY <1>0, <1>c, TaskFields
  <2> QED
    BY <2>1, WritingTasks DEF MarketTypes, Writing
<1>d. ASSUME NEW n \in Nat, listings' = Ranked(n), seller'.level = n PROVE Shown'
  BY <1>d, RankedListings DEF Shown
<1>1. CASE SettleSale
  <2> DEFINE row == Counted(seller)
             level == StandingLevel(row, CompletedOrders + 1, date)
  <2>1. /\ season.database = "postgres" /\ seller' = [row EXCEPT !.level = level]
        /\ listings' = IF level = seller.level THEN listings ELSE Ranked(level)
        /\ overlapped' = (overlapped \/ Writing # {}) /\ UNCHANGED <<sale, tasks>>
    BY <1>1 DEF SettleSale
  <2>2. sale = NoSale /\ sale.step = "none"
    BY <2>1 DEF MarketTypes, NoSale
  <2>3. row \in SellerRow
    BY CountedSale
  <2>4. level \in Nat
    <3>1. CompletedOrders + 1 \in Nat
      BY <1>0 DEF CompletedOrders
    <3> HIDE DEF row
    <3> QED
      BY <1>0, <2>3, <3>1, StandingBound
  <2> HIDE DEF row, level
  <2>5. seller'.level = level
    BY <2>1, <2>3 DEF SellerRow
  <2>6. ~overlapped' => Shown'
    <3> SUFFICES ASSUME ~overlapped' PROVE Shown'
      OBVIOUS
    <3>1. Shown
      BY <1>a, <2>1, <2>2 DEF FreshInv
    <3>2. CASE level = seller.level
      BY <2>1, <2>5, <3>1, <3>2 DEF Shown
    <3>3. CASE level # seller.level
      BY <1>d, <2>1, <2>4, <2>5, <3>3
    <3> QED
      BY <3>2, <3>3
  <2> QED
    BY <2>1, <2>2, <2>6, FreshSettles
<1>2. CASE SettleRow
  <2>1. /\ sale = NoSale /\ seller' = Counted(seller) /\ sale' = [step |-> "level", row |-> seller', level |-> 0]
        /\ overlapped' = (overlapped \/ Writing # {}) /\ UNCHANGED <<listings, tasks>>
    BY <1>2 DEF SettleRow
  <2>2. seller'.level = seller.level /\ sale.step = "none"
    BY <2>1, CountedSale DEF NoSale
  <2>3. ~overlapped' => Shown'
    <3>1. ~overlapped' => Shown
      BY <1>a, <2>1, <2>2 DEF FreshInv
    <3> QED
      BY <2>1, <2>2, <3>1 DEF Shown
  <2> QED
    BY <2>1, <2>3, FreshSettles
<1>3. CASE SettleLevel
  <2> DEFINE level == StandingLevel(sale.row, CompletedOrders, sale.row.lastSettled)
  <2>1. /\ sale # NoSale /\ sale.step = "level"
        /\ seller' = [seller EXCEPT !.level = IF level = sale.row.level THEN @ ELSE level]
        /\ sale' = IF level = sale.row.level THEN NoSale ELSE [sale EXCEPT !.step = "rank", !.level = level]
        /\ UNCHANGED <<listings, tasks, overlapped>>
    BY <1>3 DEF SettleLevel
  <2> HIDE DEF level
  <2>2. ~overlapped => Writing = {} /\ sale.row.level = seller.level /\ Shown
    BY <1>a, <2>1 DEF FreshInv
  <2>3. CASE level = sale.row.level
    <3>1. seller'.level = seller.level /\ sale' = NoSale
      BY <1>0, <2>1, <2>3 DEF SellerRow
    <3>2. sale'.step = "none"
      BY <3>1 DEF NoSale
    <3>3. Shown => Shown'
      <4>1. UNCHANGED listings
        BY <2>1
      <4> QED
        BY <3>1, <4>1 DEF Shown
    <3> QED
      BY <2>1, <2>2, <3>2, <3>3, FreshSettles
  <2>4. CASE level # sale.row.level
    <3>1. sale' = [sale EXCEPT !.step = "rank", !.level = level] /\ seller'.level = level
      BY <1>0, <2>1, <2>4 DEF SellerRow
    <3>2. sale'.step = "rank" /\ sale'.level = level
      BY <1>0, <2>1, <3>1
    <3> QED
      BY <2>1, <2>2, <3>1, <3>2, FreshSettles
  <2> QED
    BY <2>3, <2>4
<1>4. CASE SettleRank
  <2>1. /\ sale # NoSale /\ sale.step = "rank" /\ listings' = Ranked(sale.level) /\ sale' = NoSale
        /\ UNCHANGED <<seller, tasks, overlapped>>
    BY <1>4 DEF SettleRank
  <2>2. ~overlapped => Writing = {} /\ sale.level = seller'.level
    BY <2>1 DEF FreshInv
  <2>3. ~overlapped => Shown'
    BY <1>0, <1>d, <2>1, <2>2
  <2>4. sale'.step = "none"
    BY <2>1 DEF NoSale
  <2> QED
    BY <2>1, <2>2, <2>3, <2>4, FreshSettles
<1>5. CASE NextDay \/ UNCHANGED marketVars
  <2>1. UNCHANGED <<seller, listings, sale, tasks, overlapped>>
    BY <1>5 DEF NextDay, marketVars
  <2> QED
    BY <2>1, FreshAside DEF Shown
<1>6. ASSUME NEW t \in Tasks, Decay(t) PROVE FreshInv'
  <2> DEFINE r == [op |-> "decay", step |-> "count", row |-> seller, level |-> 0, today |-> date]
  <2>1. Turns(t, r) /\ Crosses /\ UNCHANGED <<seller, listings, sale>>
    BY <1>6 DEF Decay
  <2> QED
    BY <1>b, <2>1, FreshStarts
<1>7. ASSUME NEW t \in Tasks, Suspend(t) PROVE FreshInv'
  <2> DEFINE r == [op |-> "suspend", step |-> "penalty", row |-> seller, level |-> 0]
  <2>1. Turns(t, r) /\ Crosses /\ UNCHANGED <<listings, sale>> /\ seller'.level = seller.level
    BY <1>0, <1>7 DEF Suspend, SellerRow
  <2> QED
    BY <1>b, <2>1, FreshStarts
<1>8. ASSUME NEW t \in Tasks, Penalise(t) PROVE FreshInv'
  <2> DEFINE r == Penalised(tasks[t], seller')
  <2>1. /\ tasks[t].step = "penalty" /\ Turns(t, r) /\ UNCHANGED <<listings, sale, overlapped>>
        /\ seller'.level = seller.level
    BY <1>0, <1>8 DEF Penalise, Penalised, SellerRow
  <2>2. r.step = "count" /\ r.row = seller'
    <3>1. seller' \in SellerRow
      BY DEF MarketTypes
    <3> QED
      BY <1>0, <2>1, <3>1, PenalisedTask
  <2> HIDE DEF r
  <2>3. t \in Writing
    BY <1>c, <2>1
  <2>4. ~overlapped => Shown'
    <3>1. ~overlapped => sale.step = "none" /\ \A u \in Tasks : tasks[u].step # "rank"
      BY <1>c, <2>1, <2>3 DEF FreshInv, NoSale
    <3>2. ~overlapped => Shown
      BY <3>1 DEF FreshInv
    <3> QED
      BY <2>1, <3>2 DEF Shown
  <2> QED
    BY <1>b, <2>1, <2>2, <2>3, <2>4, FreshGoesOn
<1>9. ASSUME NEW t \in Tasks, Reinstate(t) PROVE FreshInv'
  <2> DEFINE r == [op |-> "reinstate", step |-> "count", row |-> seller', level |-> 0]
  <2>1. Turns(t, r) /\ Crosses /\ UNCHANGED <<listings, sale>> /\ seller'.level = seller.level
    BY <1>0, <1>9 DEF Reinstate, SellerRow
  <2> QED
    BY <1>b, <2>1, FreshStarts
<1>10. ASSUME NEW t \in Tasks, CountOrders(t) PROVE FreshInv'
  <2>1. /\ Writes(tasks[t]) /\ tasks[t].step = "count" /\ UNCHANGED <<seller, listings, sale, overlapped>>
        /\ \A u \in Tasks : u # t => tasks'[u] = tasks[u]
        /\ tasks'[t] = NoTask \/ \E n \in Nat : tasks'[t] = Onward(tasks[t], "level", n)
    BY <1>10, Counting
  <2>2. tasks'[t].step \in {"idle", "level"}
    <3>1. \A n \in Nat : Onward(tasks[t], "level", n).step = "level"
      BY <1>0, <2>1, NextTask
    <3> QED
      BY <2>1, <3>1 DEF NoTask
  <2>3. t \in Writing
    BY <1>c, <2>1
  <2>4. ~overlapped => Shown'
    <3>1. ~overlapped => sale.step = "none" /\ \A u \in Tasks : tasks[u].step # "rank"
      BY <1>c, <2>1, <2>3 DEF FreshInv, NoSale
    <3>2. ~overlapped => Shown
      BY <3>1 DEF FreshInv
    <3> QED
      BY <2>1, <3>2 DEF Shown
  <2> QED
    BY <2>1, <2>2, <2>3, <2>4, FreshGoesOn
<1>11. ASSUME NEW t \in Tasks, WriteLevel(t) PROVE FreshInv'
  <2>1. /\ tasks[t].step = "level" /\ Writes(tasks[t]) /\ Turns(t, AtStep(tasks[t], "rank"))
        /\ tasks[t].level \in Nat /\ seller'.level = tasks[t].level /\ UNCHANGED <<sale, overlapped>>
    BY <1>0, <1>11, TaskFields DEF WriteLevel, AtStep, SellerRow
  <2>2. AtStep(tasks[t], "rank").step = "rank" /\ AtStep(tasks[t], "rank").level = tasks[t].level
    BY <1>0, <2>1, NextTask
  <2>3. t \in Writing
    BY <1>c, <2>1
  <2> QED
    BY <1>b, <2>1, <2>2, <2>3, FreshGoesOn
<1>12. ASSUME NEW t \in Tasks, WriteRank(t) PROVE FreshInv'
  <2>1. /\ tasks[t].step = "rank" /\ listings' = Ranked(tasks[t].level) /\ Turns(t, NoTask)
        /\ UNCHANGED <<seller, sale, overlapped>>
    BY <1>12 DEF WriteRank, Rerank
  <2>2. tasks[t].level \in Nat /\ t \in Writing
    BY <1>0, <1>c, <2>1, TaskFields
  <2>3. ~overlapped => Shown'
    <3>1. ~overlapped => seller'.level = tasks[t].level
      BY <2>1 DEF FreshInv
    <3> QED
      BY <1>d, <2>1, <2>2, <3>1
  <2> QED
    BY <1>b, <2>1, <2>2, <2>3, FreshGoesOn DEF NoTask
<1>13. ASSUME NEW t \in Tasks, BeginListing(t) PROVE FreshInv'
  <2> DEFINE r == [op |-> "create", step |-> "insert", level |-> seller.level]
  <2>1. Turns(t, r) /\ Crosses /\ UNCHANGED <<seller, listings, sale>>
    BY <1>13 DEF BeginListing
  <2> QED
    BY <1>b, <2>1, FreshStarts
<1>14. ASSUME NEW t \in Tasks, InsertNewListing(t) PROVE FreshInv'
  <2>1. PICK l \in Listings :
            /\ tasks[t].step = "insert" /\ Turns(t, NoTask) /\ UNCHANGED <<seller, sale, overlapped>>
            /\ listings' = [listings EXCEPT ![l] = [status |-> "active", rank |-> tasks[t].level]]
    BY <1>14 DEF InsertNewListing
  <2>2. t \in Writing
    BY <1>c, <2>1
  <2>3. ~overlapped => Shown'
    <3>1. ~overlapped => /\ sale.step = "none" /\ \A u \in Tasks : tasks[u].step # "rank"
                         /\ tasks[t].level = seller.level
      BY <1>c, <2>1, <2>2 DEF FreshInv, NoSale
    <3>2. ~overlapped => Shown
      BY <3>1 DEF FreshInv
    <3>3. \A k \in Listings : k # l => listings'[k] = listings[k]
      BY <1>0, <2>1
    <3>4. listings'[l].rank = tasks[t].level
      BY <1>0, <2>1
    <3> QED
      BY <2>1, <3>1, <3>2, <3>3, <3>4 DEF Shown
  <2> QED
    BY <1>b, <2>1, <2>2, <2>3, FreshGoesOn DEF NoTask
<1>15. ASSUME NEW t \in Tasks, EditListing(t) PROVE FreshInv'
  <2>1. PICK status \in {"active", "paused"} :
            /\ tasks[t].step = "edit" /\ Turns(t, NoTask) /\ UNCHANGED <<seller, sale, overlapped>>
            /\ listings' = [listings EXCEPT ![tasks[t].listing].status = status]
    BY <1>15 DEF EditListing
  <2>2. tasks[t].op = "edit" /\ tasks'[t] = NoTask /\ tasks'[t].op = "idle"
    BY <1>0, <1>b, <2>1, TaskFields DEF NoTask
  <2>3. listings[tasks[t].listing].status # "none"
    BY <2>1 DEF RemovedInv
  <2>4. \A k \in Listings :
            /\ listings'[k].rank = listings[k].rank
            /\ k # tasks[t].listing => listings'[k] = listings[k]
    BY <1>0, <2>1
  <2>5. Shown => Shown'
    BY <2>1, <2>3, <2>4 DEF Shown, NoListing
  <2> QED
    BY <1>b, <2>1, <2>2, <2>5, FreshAside
<1>16. ASSUME NEW t \in Tasks, NEW l \in Listings, BeginEdit(t, l) PROVE FreshInv'
  <2> DEFINE r == [op |-> "edit", step |-> "edit", listing |-> l, overtaken |-> FALSE]
  <2>1. tasks[t] = NoTask /\ Turns(t, r) /\ UNCHANGED <<seller, listings, sale, overlapped>>
    BY <1>16 DEF BeginEdit, Takes
  <2>2. tasks[t].op = "idle" /\ tasks'[t].op = "edit"
    BY <1>b, <2>1 DEF NoTask
  <2> QED
    BY <1>b, <2>1, <2>2, FreshAside DEF Shown
<1>17. ASSUME NEW l \in Listings, RemoveListing(l) PROVE FreshInv'
  <2>1. /\ listings[l] # NoListing /\ listings' = [listings EXCEPT ![l].status = "removed"]
        /\ UNCHANGED <<seller, sale, overlapped>>
        /\ \A t \in Tasks : tasks'[t] = tasks[t] \/ (tasks[t].op = "edit" /\ tasks'[t].op = "edit")
    BY <1>0, <1>17, OvertakenTask DEF RemoveListing
  <2>2. \A k \in Listings : listings'[k].rank = listings[k].rank /\ (k # l => listings'[k] = listings[k])
    BY <1>0, <2>1
  <2>3. Shown => Shown'
    BY <2>1, <2>2 DEF Shown
  <2> QED
    BY <2>1, <2>3, FreshAside
<1> QED
  BY <1>1, <1>2, <1>3, <1>4, <1>5, <1>6, <1>7, <1>8, <1>9, <1>10, <1>11, <1>12,
     <1>13, <1>14, <1>15, <1>16, <1>17 DEF MarketNext

\* StandingIsEarned: with any number of writers of standing at once, on either
\* database, every settled sale and every suspension is counted, no level is
\* above what the sales so far earn, and once writers that never overlapped are
\* done the listings sort by the level the profile shows (recordSettledSale,
\* penaliseSellerStanding, decaySellerLevels, writeLevel, POST listings).
THEOREM LevelsAreEarned == MarketSpec => []StandingIsEarned
<1> DEFINE Inv == MarketTypes /\ EarnedInv /\ PenaltyInv /\ RemovedInv /\ FreshInv
<1>1. MarketInit => Inv
  <2>1. MarketInit => RemovedInv
    BY DEF MarketInit, RemovedInv, NoTask
  <2> QED
    BY <2>1, MarketBegins, EarnedBegins, PenaltyBegins, FreshBegins
<1>2. Inv /\ [MarketNext]_marketVars => Inv'
  BY MarketTyped, EarnedSteps, PenaltySteps, RemovedSteps, FreshSteps
<1>3. Inv => StandingIsEarned
  <2> SUFFICES ASSUME MarketTypes, EarnedInv, PenaltyInv, FreshInv PROVE StandingIsEarned
    OBVIOUS
  <2>1. (~overlapped /\ Writing = {} /\ sale = NoSale) => Shown
    <3> SUFFICES ASSUME ~overlapped, Writing = {}, sale = NoSale PROVE Shown
      OBVIOUS
    <3>1. \A u \in Tasks : tasks[u].step \in {"idle", "edit"}
      <4>1. /\ Writing = {u \in Tasks : tasks[u].op \notin {"idle", "edit"}}
            /\ \A u \in Tasks : tasks[u].op \in {"idle", "edit"} => tasks[u].step \in {"idle", "edit"}
        BY WritingTasks DEF MarketTypes, Writing
      <4> QED
        BY <4>1
    <3> QED
      BY <3>1 DEF FreshInv, NoSale
  <2> QED
    BY <2>1 DEF StandingIsEarned, EarnedInv, PenaltyInv, Penalties, Ceiling, Shown
<1> QED
  BY <1>1, <1>2, <1>3, PTL DEF MarketSpec

\* RemovedStays: with any number of edits under way, a listing moderation removed
\* comes back only by an edit the removal overtook (PATCH listings, remove).
THEOREM RemovedListingsStay == MarketSpec => RemovedStays
<1> DEFINE Inv == MarketTypes /\ RemovedInv
           Stays == \A l \in Listings :
                        listings[l].status = "removed" /\ listings'[l].status # "removed" =>
                            \E t \in Tasks : tasks[t].step = "edit" /\ tasks[t].listing = l /\ tasks[t].overtaken
<1>1. MarketInit => Inv
  BY MarketBegins DEF MarketInit, RemovedInv, NoTask
<1>2. Inv /\ [MarketNext]_marketVars => Inv'
  BY MarketTyped, RemovedSteps
<1>3. Inv /\ [MarketNext]_marketVars => [Stays]_marketVars
  <2> SUFFICES ASSUME MarketTypes, RemovedInv, [MarketNext]_marketVars, NEW l \in Listings,
                      listings[l].status = "removed", listings'[l].status # "removed"
               PROVE  \E t \in Tasks : tasks[t].step = "edit" /\ tasks[t].listing = l /\ tasks[t].overtaken
    OBVIOUS
  <2>1. listings \in [Listings -> [status : {"none", "active", "paused", "removed"}, rank : Nat]]
    BY DEF MarketTypes
  <2>2. \A n \in Nat : listings' # Ranked(n)
    BY RankedListings
  <2>3. ~SettleSale
    <3> SUFFICES ASSUME SettleSale PROVE FALSE
      OBVIOUS
    <3> DEFINE level == StandingLevel(Counted(seller), CompletedOrders + 1, date)
    <3>1. Counted(seller) \in SellerRow /\ CompletedOrders + 1 \in Nat /\ date \in Nat
      BY CountedSale DEF MarketTypes, CompletedOrders
    <3>2. level \in Nat
      BY <3>1, StandingBound
    <3>3. listings' = listings \/ listings' = Ranked(level)
      BY DEF SettleSale
    <3> HIDE DEF level
    <3> QED
      BY <2>2, <3>2, <3>3
  <2>4. ~SettleRank
    BY <2>2 DEF SettleRank, MarketTypes
  <2>5. \A t \in Tasks : ~WriteRank(t)
    <3> SUFFICES ASSUME NEW t \in Tasks, WriteRank(t) PROVE FALSE
      OBVIOUS
    <3>1. tasks[t] \in MarketTask /\ tasks[t].step = "rank"
      BY DEF WriteRank, MarketTypes
    <3>2. tasks[t].level \in Nat
      BY <3>1, TaskFields
    <3> QED
      BY <2>2, <3>2 DEF WriteRank, Rerank
  <2>6. \A t \in Tasks : ~InsertNewListing(t)
    BY <2>1 DEF InsertNewListing, NoListing
  <2>7. \A k \in Listings : ~RemoveListing(k)
    BY <2>1 DEF RemoveListing
  <2>8. PICK t \in Tasks : EditListing(t)
    BY <2>3, <2>4, <2>5, <2>6, <2>7
       DEF MarketNext, marketVars, SettleRow, SettleLevel, NextDay, Decay, Suspend, Penalise, Reinstate,
           CountOrders, WriteLevel, BeginListing, BeginEdit
  <2>9. tasks[t].step = "edit" /\ tasks[t].listing = l
    BY <2>1, <2>8 DEF EditListing
  <2> QED
    BY <2>9 DEF RemovedInv
<1> QED
  BY <1>1, <1>2, <1>3, PTL DEF MarketSpec, RemovedStays

-----------------------------------------------------------------------------
(* Staff: who is who, what is filed, and the requests under way *)

DeskRoles == {"user", "moderator", "admin"}
DeskStatuses == {"active", "suspended"}
Decisions == {"decide", "resolve", "hide"}

ItemRow ==
    [kind : {"application", "report", "review"}, by : People, name : Names,
     status : {"pending", "approved", "rejected", "open", "actioned", "dismissed", "shown", "hidden"},
     decisions : SUBSET Nat]
DeskSeller == [name : Names \cup People \cup {"none"}, status : {"none", "active", "suspended"}]

DeskArgs ==
    [name : Names \cup {"none"}]
    \cup [item : Papers, limit : BOOLEAN, to : {"approved", "rejected", "actioned", "dismissed", "hidden"}]
    \cup [to : DeskRoles \cup DeskStatuses]
DeskSteps ==
    {"seller", "pending", "name", "insert", "read", "commit", "limit", "audit", "target", "users", "sellers"}
DeskCall ==
    [op : {"apply", "list", "status", "role"} \cup Decisions, step : DeskSteps, by : People, n : Nat,
     role : DeskRoles, about : People, args : DeskArgs]

DeskTypes ==
    /\ shift \in Shifts
    /\ roles \in [People -> DeskRoles] /\ users \in [People -> DeskStatuses]
    /\ sellers \in [People -> DeskSeller]
    /\ \A u \in People : sellers[u] = NoSeller \/ (sellers[u].name # "none" /\ sellers[u].status # "none")
    /\ listed \subseteq People
    /\ items \in [Papers -> {NoItem} \cup ItemRow]
    /\ calls \in [Calls -> {NotCalled} \cup DeskCall] /\ called \in Nat
    /\ crossed \subseteq People /\ chiefs \in BOOLEAN

\* What a request of each kind is given.
ArgsFit(op, args) ==
    /\ op = "apply" => args.name \in Names
    /\ op \in Decisions => args.item \in Papers
    /\ op = "decide" => args.to \in {"approved", "rejected"}
    /\ op = "resolve" => args.to \in {"actioned", "dismissed"}
    /\ op = "hide" => args.to = "hidden"
    /\ op = "status" => args.to \in DeskStatuses
    /\ op = "role" => args.to \in DeskRoles

\* A decision is about the item, and the person it is of, that it was for at first.
Fitting ==
    \A c \in UnderWay :
        /\ ArgsFit(calls[c].op, calls[c].args)
        /\ calls[c].op \in Decisions => /\ items[calls[c].args.item].kind = Deciding[calls[c].op]
                                        /\ items[calls[c].args.item].by = calls[c].about

LEMMA CallFields ==
    ASSUME DeskTypes, NEW c \in Calls
    PROVE  /\ c \in UnderWay => calls[c] \in DeskCall
           /\ c \in UnderWay <=> calls[c].op # "none"
           /\ c \in UnderWay <=> calls[c].step # "idle"
<1>1. NotCalled.op = "none" /\ NotCalled.step = "idle"
  BY DEF NotCalled
<1>2. ASSUME NEW r \in DeskCall PROVE r.op # "none" /\ r.step # "idle"
  BY DEF DeskCall, Decisions, DeskSteps
<1>3. calls[c] = NotCalled \/ calls[c] \in DeskCall
  BY DEF DeskTypes
<1> QED
  BY <1>1, <1>2, <1>3 DEF UnderWay

LEMMA ItemFields ==
    ASSUME DeskTypes, NEW i \in Papers
    PROVE  /\ items[i].decisions \in SUBSET Nat
           /\ items[i].kind # "none" => items[i] \in ItemRow
           /\ items[i].status # "none" => items[i] \in ItemRow
           /\ items[i] \in ItemRow => items[i].kind # "none" /\ items[i].status # "none"
<1>1. items[i] = NoItem \/ items[i] \in ItemRow
  BY DEF DeskTypes
<1> QED
  BY <1>1 DEF NoItem, ItemRow

-----------------------------------------------------------------------------
(* The kinds of step *)

\* A request goes on without a trace, or ends as one that was refused.
DeskFrame ==
    UNCHANGED <<shift, roles, users, sellers, listed, items, told, records, called, torn, crossed, chiefs>>
GoesOn(c, step) ==
    LET r == calls[c]
    IN  /\ DeskFrame /\ NowAt(c, step)
        /\ \/ r.op = "apply" /\ r.step = "seller" /\ step = "pending" /\ sellers[r.by] = NoSeller
           \/ r.op = "apply" /\ r.step = "pending" /\ step = "name"
           \/ r.op = "apply" /\ r.step = "name" /\ step = "insert"
           \/ r.op \in Decisions /\ r.step = "read" /\ step = "commit"
           \/ r.op = "decide" /\ r.step = "limit" /\ step = "audit"
           \/ r.op = "status" /\ r.step = "target" /\ step = "users" /\ Reaches(c)
           \/ r.op = "list" /\ r.step = "seller" /\ step = "insert" /\ sellers[r.by].status = "active"
Refused(c) == DeskFrame /\ Done(c) /\ calls[c].step \notin {"limit", "audit", "sellers"}

\* A request begins with what its route is given.
Begins(c, op, by, step, about, args) ==
    /\ Begin(c, op, by, step, about, args)
    /\ by \in People /\ about \in People /\ args \in DeskArgs /\ ArgsFit(op, args)
    /\ \/ op \in {"apply", "list"} /\ step = "seller" /\ about = by
       \/ /\ op \in Decisions /\ step = "read"
          /\ items[args.item].kind = Deciding[op] /\ items[args.item].by = about
       \/ op = "status" /\ step = "target"
       \/ op = "role" /\ step = "commit" /\ roles[by] = "admin"

Applies(c) ==
    /\ Is(c, "apply", "insert") /\ ~Pending(calls[c].by)
    /\ \E i \in Papers :
           /\ items[i] = NoItem
           /\ items' = [items EXCEPT ![i] = [kind |-> "application", by |-> calls[c].by,
                                             name |-> calls[c].args.name, status |-> "pending", decisions |-> {}]]
    /\ Done(c)
    /\ UNCHANGED <<shift, roles, users, sellers, listed, ceilings, told, records, called, torn, crossed, chiefs>>

\* A decision that is made: on an application, a report or a review.
Settles(c) ==
    LET item == items[calls[c].args.item]
    IN  /\ calls[c].op \in Decisions /\ calls[c].step = "commit" /\ items' = Settled(c)
        /\ NowAt(c, "limit") \/ NowAt(c, "audit")
        /\ UNCHANGED <<shift, roles, users, listed, records, called, torn, crossed, chiefs>>
        /\ calls[c].op = "decide" => item.status = "pending" /\ told' = told \cup {calls[c].n}
        /\ calls[c].op = "resolve" => item.status = "open"
        /\ calls[c].op # "decide" => UNCHANGED <<told, sellers>>
        /\ IF calls[c].op = "decide" /\ calls[c].args.to = "approved"
           THEN /\ ~NameTaken(item.name) /\ sellers[item.by] = NoSeller
                /\ sellers' = [sellers EXCEPT ![item.by] = [name |-> item.name, status |-> "active"]]
           ELSE UNCHANGED sellers

Promotes(c) ==
    /\ Is(c, "role", "commit") /\ calls[c].about # calls[c].by
    /\ roles' = [roles EXCEPT ![calls[c].about] = calls[c].args.to]
    /\ NowAt(c, "audit")
    /\ UNCHANGED <<shift, users, sellers, listed, items, told, records, called, torn, crossed, chiefs>>

DeskStep(c) ==
    \/ \E step \in DeskSteps : GoesOn(c, step)
    \/ Refused(c)
    \/ \E op, by, step, about, args : Begins(c, op, by, step, about, args)
    \/ Applies(c) \/ Settles(c) \/ SetUserStatus(c) \/ SetSellerStatus(c) \/ Promotes(c)
    \/ InsertListing(c) \/ BreakOff(c)
    \/ \E op : Record(c, op)

\* Every step is of one of these kinds.
LEMMA DeskKinds ==
    ASSUME DeskTypes, DeskNext
    PROVE  \E c \in Calls : DeskStep(c)
<1>0. /\ DOMAIN Deciding = Decisions /\ Deciding["decide"] = "application"
      /\ Deciding["resolve"] = "report" /\ Deciding["hide"] = "review"
      /\ Outcomes["decide"] = {"approved", "rejected"} /\ Outcomes["resolve"] = {"actioned", "dismissed"}
      /\ Outcomes["hide"] = {"hidden"}
  BY DEF Deciding, Outcomes, Decisions
<1>1. ASSUME NEW c \in Calls, NEW u \in People, NEW name \in Names,
             Begin(c, "apply", u, "seller", u, [name |-> name])
      PROVE  DeskStep(c)
  <2>1. [name |-> name] \in DeskArgs /\ ArgsFit("apply", [name |-> name])
    BY DEF DeskArgs, ArgsFit, Decisions
  <2> QED
    BY <1>1, <2>1 DEF Begins, DeskStep
<1>2. ASSUME NEW c \in Calls, NEW u \in People, Begin(c, "list", u, "seller", u, [name |-> "none"])
      PROVE  DeskStep(c)
  <2>1. [name |-> "none"] \in DeskArgs /\ ArgsFit("list", [name |-> "none"])
    BY DEF DeskArgs, ArgsFit, Decisions
  <2> QED
    BY <1>2, <2>1 DEF Begins, DeskStep
<1>3. ASSUME NEW c \in Calls, NEW op \in DOMAIN Deciding, NEW i \in Papers, NEW m \in People,
             NEW to \in Outcomes[op], NEW limit \in BOOLEAN, items[i].kind = Deciding[op],
             Begin(c, op, m, "read", items[i].by, [item |-> i, to |-> to, limit |-> limit])
      PROVE  DeskStep(c)
  <2> DEFINE args == [item |-> i, to |-> to, limit |-> limit]
  <2>1. op \in Decisions /\ items[i].kind # "none"
    BY <1>0, <1>3 DEF Decisions
  <2>2. items[i].by \in People
    BY <2>1, ItemFields DEF ItemRow
  <2>3. to \in {"approved", "rejected", "actioned", "dismissed", "hidden"}
    BY <1>0, <2>1 DEF Decisions
  <2>4. args \in DeskArgs
    BY <2>3 DEF DeskArgs
  <2>5. ArgsFit(op, args)
    BY <1>0, <2>1 DEF ArgsFit, Decisions
  <2>6. args.item = i
    OBVIOUS
  <2> HIDE DEF args
  <2>7. Begin(c, op, m, "read", items[i].by, args)
    BY <1>3 DEF args
  <2>8. Begins(c, op, m, "read", items[i].by, args)
    BY <1>3, <2>1, <2>2, <2>4, <2>5, <2>6, <2>7 DEF Begins
  <2> QED
    BY <2>8 DEF DeskStep
<1>4. ASSUME NEW c \in Calls, NEW m \in People, NEW u \in People, NEW to \in {"active", "suspended"},
             Begin(c, "status", m, "target", u, [to |-> to])
      PROVE  DeskStep(c)
  <2>1. [to |-> to] \in DeskArgs /\ ArgsFit("status", [to |-> to])
    BY DEF DeskArgs, ArgsFit, Decisions, DeskStatuses
  <2> QED
    BY <1>4, <2>1 DEF Begins, DeskStep
<1>5. ASSUME NEW c \in Calls, NEW m \in People, NEW u \in People, NEW to \in {"user", "moderator", "admin"},
             roles[m] = "admin", Begin(c, "role", m, "commit", u, [to |-> to])
      PROVE  DeskStep(c)
  <2>1. [to |-> to] \in DeskArgs /\ ArgsFit("role", [to |-> to])
    BY DEF DeskArgs, ArgsFit, Decisions, DeskRoles
  <2> QED
    BY <1>5, <2>1 DEF Begins, DeskStep
<1>6. ASSUME NEW c \in Calls, CheckApplication(c) PROVE DeskStep(c)
  <2>1. /\ calls[c].op = "apply" /\ calls[c].step \in {"seller", "pending", "name"} /\ DeskFrame
        /\ \/ Done(c)
           \/ calls[c].step = "seller" /\ sellers[calls[c].by] = NoSeller /\ NowAt(c, "pending")
           \/ calls[c].step = "pending" /\ NowAt(c, "name")
           \/ calls[c].step = "name" /\ NowAt(c, "insert")
    BY <1>6 DEF CheckApplication, DeskFrame
  <2>2. CASE Done(c)
    BY <2>1, <2>2 DEF Refused, DeskStep
  <2>3. CASE ~Done(c)
    BY <2>1, <2>3 DEF GoesOn, DeskStep, DeskSteps
  <2> QED
    BY <2>2, <2>3
<1>7. ASSUME NEW c \in Calls, InsertApplication(c) PROVE DeskStep(c)
  <2> DEFINE free == {i \in Papers : items[i] = NoItem}
             i == CHOOSE j \in free : TRUE
  <2>1. i \in Papers /\ items[i] = NoItem
    BY <1>7 DEF InsertApplication
  <2>2. CASE Pending(calls[c].by)
    BY <1>7, <2>2 DEF InsertApplication, DeskStep, Refused, DeskFrame, Is
  <2>3. CASE ~Pending(calls[c].by)
    <3>1. items' = [items EXCEPT ![i] = [kind |-> "application", by |-> calls[c].by,
                       name |-> calls[c].args.name, status |-> "pending", decisions |-> {}]]
      BY <1>7, <2>3 DEF InsertApplication
    <3> HIDE DEF i
    <3>2. Applies(c)
      BY <1>7, <2>1, <2>3, <3>1 DEF InsertApplication, Applies
    <3> QED
      BY <3>2 DEF DeskStep
  <2> QED
    BY <2>2, <2>3
<1>8. ASSUME NEW c \in Calls, ReadItem(c) PROVE DeskStep(c)
  <2>1. /\ calls[c].op \in Decisions /\ calls[c].step = "read" /\ DeskFrame
        /\ NowAt(c, "commit") \/ Done(c)
    BY <1>0, <1>8 DEF ReadItem, DeskFrame
  <2>2. CASE Done(c)
    BY <2>1, <2>2 DEF Refused, DeskStep
  <2>3. CASE ~Done(c)
    BY <2>1, <2>3 DEF GoesOn, DeskStep, DeskSteps
  <2> QED
    BY <2>2, <2>3
<1>9. ASSUME NEW c \in Calls, DecideApplication(c) PROVE DeskStep(c)
  <2> DEFINE call == calls[c]
             item == items[call.args.item]
             approved == call.args.to = "approved"
             refused == \/ ~StillPending(call.args.item)
                        \/ approved /\ (NameTaken(item.name) \/ sellers[item.by] # NoSeller)
  <2>1. CASE refused
    BY <1>9, <2>1 DEF DecideApplication, Is, Refused, DeskFrame, DeskStep
  <2>2. CASE ~refused
    <3>1. /\ call.op = "decide" /\ call.step = "commit" /\ item.status = "pending"
          /\ items' = Settled(c) /\ told' = told \cup {call.n}
          /\ NowAt(c, "limit") \/ NowAt(c, "audit")
          /\ UNCHANGED <<shift, roles, users, listed, records, called, torn, crossed, chiefs>>
          /\ sellers' = IF approved THEN [sellers EXCEPT ![item.by] = [name |-> item.name, status |-> "active"]]
                        ELSE sellers
          /\ approved => ~NameTaken(item.name) /\ sellers[item.by] = NoSeller
      BY <1>9, <2>2 DEF DecideApplication, Is, StillPending
    <3>2. Settles(c)
      BY <3>1 DEF Settles, Decisions
    <3> QED
      BY <3>2 DEF DeskStep
  <2> QED
    BY <2>1, <2>2
<1>10. ASSUME NEW c \in Calls, GiveLimit(c) PROVE DeskStep(c)
  BY <1>10 DEF GiveLimit, Is, GoesOn, DeskFrame, DeskStep, DeskSteps
<1>11. ASSUME NEW c \in Calls, ResolveReport(c) PROVE DeskStep(c)
  <2>1. CASE items[calls[c].args.item].status # "open"
    BY <1>11, <2>1 DEF ResolveReport, Is, Refused, DeskFrame, DeskStep
  <2>2. CASE items[calls[c].args.item].status = "open"
    BY <1>11, <2>2 DEF ResolveReport, Is, Settles, Decisions, DeskStep
  <2> QED
    BY <2>1, <2>2
<1>12. ASSUME NEW c \in Calls, HideReview(c) PROVE DeskStep(c)
  BY <1>12 DEF HideReview, Is, Settles, Decisions, DeskStep
<1>13. ASSUME NEW c \in Calls, ReadTarget(c) PROVE DeskStep(c)
  <2>1. /\ calls[c].op = "status" /\ calls[c].step = "target" /\ DeskFrame
        /\ (Reaches(c) /\ NowAt(c, "users")) \/ Done(c)
    BY <1>13 DEF ReadTarget, Is, DeskFrame
  <2>2. CASE Done(c)
    BY <2>1, <2>2 DEF Refused, DeskStep
  <2>3. CASE ~Done(c)
    BY <2>1, <2>3 DEF GoesOn, DeskStep, DeskSteps
  <2> QED
    BY <2>2, <2>3
<1>14. ASSUME NEW c \in Calls, SetRole(c) PROVE DeskStep(c)
  <2>1. CASE calls[c].about = calls[c].by
    BY <1>14, <2>1 DEF SetRole, Is, Refused, DeskFrame, DeskStep
  <2>2. CASE calls[c].about # calls[c].by
    BY <1>14, <2>2 DEF SetRole, Promotes, DeskStep
  <2> QED
    BY <2>1, <2>2
<1>15. ASSUME NEW c \in Calls, RequireSeller(c) PROVE DeskStep(c)
  <2>1. /\ calls[c].op = "list" /\ calls[c].step = "seller" /\ DeskFrame
        /\ (sellers[calls[c].by].status = "active" /\ NowAt(c, "insert")) \/ Done(c)
    BY <1>15 DEF RequireSeller, Is, DeskFrame
  <2>2. CASE Done(c)
    BY <2>1, <2>2 DEF Refused, DeskStep
  <2>3. CASE ~Done(c)
    BY <2>1, <2>3 DEF GoesOn, DeskStep, DeskSteps
  <2> QED
    BY <2>2, <2>3
<1>16. ASSUME NEW c \in Calls, \/ SetUserStatus(c) \/ SetSellerStatus(c) \/ InsertListing(c) \/ BreakOff(c)
                               \/ \E op \in DOMAIN Deciding \cup Changing : Record(c, op)
       PROVE  DeskStep(c)
  BY <1>16 DEF DeskStep
<1>17. PICK c \in Calls :
           \/ \E u \in People, name \in Names : Begin(c, "apply", u, "seller", u, [name |-> name])
           \/ \E u \in People : Begin(c, "list", u, "seller", u, [name |-> "none"])
           \/ \E op \in DOMAIN Deciding : \E i \in Papers, m \in People, to \in Outcomes[op], limit \in BOOLEAN :
                  /\ roles[m] \in Staff /\ items[i].kind = Deciding[op] /\ (limit => to = "approved")
                  /\ Begin(c, op, m, "read", items[i].by, [item |-> i, to |-> to, limit |-> limit])
           \/ \E m, u \in People, to \in {"active", "suspended"} :
                  roles[m] \in Staff /\ Begin(c, "status", m, "target", u, [to |-> to])
           \/ \E m, u \in People, to \in {"user", "moderator", "admin"} :
                  roles[m] = "admin" /\ Begin(c, "role", m, "commit", u, [to |-> to])
           \/ CheckApplication(c) \/ InsertApplication(c)
           \/ ReadItem(c) \/ DecideApplication(c) \/ GiveLimit(c) \/ ResolveReport(c) \/ HideReview(c)
           \/ ReadTarget(c) \/ SetUserStatus(c) \/ SetSellerStatus(c) \/ SetRole(c)
           \/ RequireSeller(c) \/ InsertListing(c)
           \/ \E op \in DOMAIN Deciding \cup Changing : Record(c, op)
           \/ BreakOff(c)
  BY DEF DeskNext
<1>18. DeskStep(c)
  <2>1. CASE \E op \in DOMAIN Deciding : \E i \in Papers, m \in People, to \in Outcomes[op], limit \in BOOLEAN :
                /\ roles[m] \in Staff /\ items[i].kind = Deciding[op] /\ (limit => to = "approved")
                /\ Begin(c, op, m, "read", items[i].by, [item |-> i, to |-> to, limit |-> limit])
    BY <1>3, <2>1
  <2>2. CASE \/ \E u \in People, name \in Names : Begin(c, "apply", u, "seller", u, [name |-> name])
             \/ \E u \in People : Begin(c, "list", u, "seller", u, [name |-> "none"])
             \/ \E m, u \in People, to \in {"active", "suspended"} :
                    roles[m] \in Staff /\ Begin(c, "status", m, "target", u, [to |-> to])
             \/ \E m, u \in People, to \in {"user", "moderator", "admin"} :
                    roles[m] = "admin" /\ Begin(c, "role", m, "commit", u, [to |-> to])
    BY <1>1, <1>2, <1>4, <1>5, <2>2
  <2>3. CASE \/ CheckApplication(c) \/ InsertApplication(c) \/ ReadItem(c) \/ DecideApplication(c) \/ GiveLimit(c)
             \/ ResolveReport(c) \/ HideReview(c) \/ ReadTarget(c) \/ SetRole(c) \/ RequireSeller(c)
             \/ SetUserStatus(c) \/ SetSellerStatus(c) \/ InsertListing(c) \/ BreakOff(c)
             \/ \E op \in DOMAIN Deciding \cup Changing : Record(c, op)
    BY <1>6, <1>7, <1>8, <1>9, <1>10, <1>11, <1>12, <1>13, <1>14, <1>15, <1>16, <2>3
  <2> QED
    BY <1>17, <2>1, <2>2, <2>3
<1> QED
  BY <1>18

-----------------------------------------------------------------------------
(* What a step does to the requests and to the items *)

SameCall(r, q) ==
    /\ q.op = r.op /\ q.by = r.by /\ q.n = r.n /\ q.role = r.role /\ q.about = r.about /\ q.args = r.args

LEMMA AfterDone ==
    ASSUME DeskTypes, NEW c \in Calls, Done(c)
    PROVE  /\ calls' \in [Calls -> {NotCalled} \cup DeskCall]
           /\ \A d \in Calls : d # c => calls'[d] = calls[d]
           /\ UnderWay' = UnderWay \ {c}
<1>1. calls \in [Calls -> {NotCalled} \cup DeskCall] /\ calls' = [calls EXCEPT ![c] = NotCalled]
  BY DEF DeskTypes, Done
<1> QED
  BY <1>1 DEF UnderWay

LEMMA AfterNow ==
    ASSUME DeskTypes, NEW c \in UnderWay, NEW step \in DeskSteps, NowAt(c, step)
    PROVE  /\ calls' \in [Calls -> {NotCalled} \cup DeskCall]
           /\ \A d \in Calls : d # c => calls'[d] = calls[d]
           /\ UnderWay' = UnderWay
           /\ SameCall(calls[c], calls'[c]) /\ calls'[c].step = step
<1>1. calls \in [Calls -> {NotCalled} \cup DeskCall] /\ calls' = [calls EXCEPT ![c].step = step]
  BY DEF DeskTypes, NowAt
<1>2. c \in Calls /\ calls[c] \in DeskCall
  BY CallFields DEF UnderWay
<1>3. [calls[c] EXCEPT !.step = step] \in DeskCall
  BY <1>2 DEF DeskCall
<1>4. calls'[c] = [calls[c] EXCEPT !.step = step]
  BY <1>1, <1>2
<1>5. SameCall(calls[c], calls'[c]) /\ calls'[c].step = step
  BY <1>2, <1>4 DEF SameCall, DeskCall
<1>6. calls' \in [Calls -> {NotCalled} \cup DeskCall] /\ \A d \in Calls : d # c => calls'[d] = calls[d]
  BY <1>1, <1>2, <1>3
<1>7. calls'[c] # NotCalled /\ calls[c] # NotCalled
  BY <1>2, <1>3, <1>4 DEF DeskCall, Decisions, NotCalled
<1> QED
  BY <1>2, <1>5, <1>6, <1>7 DEF UnderWay

LEMMA AfterBegin ==
    ASSUME DeskTypes, NEW c \in Calls, NEW op, NEW by, NEW step, NEW about, NEW args,
           Begins(c, op, by, step, about, args)
    PROVE  /\ calls' \in [Calls -> {NotCalled} \cup DeskCall]
           /\ \A d \in Calls : d # c => calls'[d] = calls[d]
           /\ c \notin UnderWay /\ UnderWay' = UnderWay \cup {c}
           /\ calls'[c].op = op /\ calls'[c].by = by /\ calls'[c].n = called + 1 /\ calls'[c].step = step
           /\ calls'[c].role = roles[by] /\ calls'[c].about = about /\ calls'[c].args = args
<1> DEFINE r == [op |-> op, step |-> step, by |-> by, n |-> called + 1, role |-> roles[by],
                 about |-> about, args |-> args]
<1>1. /\ calls \in [Calls -> {NotCalled} \cup DeskCall] /\ calls[c] = NotCalled
      /\ calls' = [calls EXCEPT ![c] = r]
  BY DEF DeskTypes, Begins, Begin
<1>2. /\ op \in {"apply", "list", "status", "role"} \cup Decisions
      /\ step \in DeskSteps /\ by \in People /\ about \in People /\ args \in DeskArgs
  BY DEF Begins, DeskSteps
<1>3. called + 1 \in Nat /\ roles[by] \in DeskRoles
  BY <1>2 DEF DeskTypes
<1>4. r \in DeskCall
  BY <1>2, <1>3 DEF DeskCall
<1>5. /\ r.op = op /\ r.by = by /\ r.n = called + 1 /\ r.step = step
      /\ r.role = roles[by] /\ r.about = about /\ r.args = args
  OBVIOUS
<1>6. r # NotCalled
  BY <1>4 DEF DeskCall, Decisions, NotCalled
<1> HIDE DEF r
<1> QED
  BY <1>1, <1>4, <1>5, <1>6 DEF UnderWay

LEMMA AfterSettled ==
    ASSUME DeskTypes, Fitting, NEW c \in UnderWay, calls[c].op \in Decisions, items' = Settled(c)
    PROVE  LET j == calls[c].args.item
           IN  /\ items' \in [Papers -> {NoItem} \cup ItemRow] /\ j \in Papers
               /\ \A i \in Papers : i # j => items'[i] = items[i]
               /\ items[j] \in ItemRow /\ items'[j] \in ItemRow
               /\ items'[j].kind = items[j].kind /\ items'[j].by = items[j].by /\ items'[j].name = items[j].name
               /\ items'[j].status = calls[c].args.to
               /\ items'[j].decisions = items[j].decisions \cup {calls[c].n}
<1> DEFINE j == calls[c].args.item
           to == calls[c].args.to
           n == calls[c].n
<1>1. c \in Calls /\ calls[c] \in DeskCall
  BY CallFields DEF UnderWay
<1>2. /\ j \in Papers /\ items[j].kind # "none" /\ n \in Nat
      /\ to \in {"approved", "rejected", "actioned", "dismissed", "hidden"}
  <2>1. ArgsFit(calls[c].op, calls[c].args) /\ items[j].kind = Deciding[calls[c].op]
    BY DEF Fitting
  <2> QED
    BY <1>1, <2>1 DEF ArgsFit, Decisions, Deciding, DeskCall
<1>3. items[j] \in ItemRow /\ items \in [Papers -> {NoItem} \cup ItemRow]
  BY <1>2, ItemFields DEF DeskTypes
<1>4. items' = [items EXCEPT ![j] = [items[j] EXCEPT !.status = to, !.decisions = items[j].decisions \cup {n}]]
  BY DEF Settled
<1> HIDE DEF j, to, n
<1> DEFINE q == [items[j] EXCEPT !.status = to, !.decisions = items[j].decisions \cup {n}]
<1>5. /\ q \in ItemRow /\ q.kind = items[j].kind /\ q.by = items[j].by /\ q.name = items[j].name
      /\ q.status = to /\ q.decisions = items[j].decisions \cup {n}
  <2> DEFINE old == items[j]
             made == old.decisions \cup {n}
  <2>1. old \in ItemRow /\ made \in SUBSET Nat
    BY <1>2, <1>3 DEF ItemRow
  <2>2. q = [old EXCEPT !.status = to, !.decisions = made]
    OBVIOUS
  <2> HIDE DEF old, made, q
  <2>3. /\ q \in ItemRow /\ q.kind = old.kind /\ q.by = old.by /\ q.name = old.name
        /\ q.status = to /\ q.decisions = made
    BY <1>2, <2>1, <2>2 DEF ItemRow
  <2> QED
    BY <2>3 DEF old, made
<1> HIDE DEF q
<1>6. items' = [items EXCEPT ![j] = q]
  BY <1>4 DEF q
<1> QED
  BY <1>2, <1>3, <1>5, <1>6 DEF j, to, n

\* What a behaviour begins with.
LEMMA FiledFields ==
    ASSUME NEW kind \in DOMAIN FiledAs, NEW u \in People, NEW name \in Names
    PROVE  /\ Filed(kind, u, name) \in ItemRow
           /\ Filed(kind, u, name).kind = kind /\ Filed(kind, u, name).by = u
           /\ Filed(kind, u, name).status = FiledAs[kind] /\ Filed(kind, u, name).decisions = {}
<1> DEFINE status == FiledAs[kind]
           none == {}
<1>1. /\ kind \in {"application", "report", "review"} /\ none \in SUBSET Nat
      /\ status \in {"pending", "approved", "rejected", "open", "actioned", "dismissed", "shown", "hidden"}
  BY DEF FiledAs
<1>2. Filed(kind, u, name) = [kind |-> kind, by |-> u, name |-> name, status |-> status, decisions |-> none]
  BY DEF Filed
<1> HIDE DEF status, none
<1>3. /\ Filed(kind, u, name) \in ItemRow
      /\ Filed(kind, u, name).kind = kind /\ Filed(kind, u, name).by = u
      /\ Filed(kind, u, name).status = status /\ Filed(kind, u, name).decisions = none
  BY <1>1, <1>2 DEF ItemRow
<1> QED
  BY <1>3 DEF status, none

LEMMA DeskBegins == DeskInit => DeskTypes /\ Fitting
<1> SUFFICES ASSUME DeskInit PROVE DeskTypes /\ Fitting
  OBVIOUS
<1>1. shift \in Shifts /\ shift.roles \in [People -> DeskRoles] /\ DOMAIN shift.filed \subseteq Papers
  BY ShiftsAssumption DEF DeskInit, DeskRoles
<1>2. items \in [Papers -> {NoItem} \cup ItemRow]
  <2>1. ASSUME NEW i \in DOMAIN shift.filed PROVE shift.filed[i] \in ItemRow
    <3>1. PICK kind \in DOMAIN FiledAs, u \in People, name \in Names : shift.filed[i] = Filed(kind, u, name)
      BY <1>1, ShiftsAssumption
    <3> QED
      BY <3>1, FiledFields
  <2>2. items = [i \in Papers |-> IF i \in DOMAIN shift.filed THEN shift.filed[i] ELSE NoItem]
    BY DEF DeskInit
  <2> QED
    BY <2>1, <2>2
<1>3. \A u \in People : /\ sellers[u] \in DeskSeller
                        /\ sellers[u] = NoSeller \/ (sellers[u].name # "none" /\ sellers[u].status # "none")
  <2> TAKE u \in People
  <2>1. sellers[u] = IF u \in shift.sellers THEN [name |-> u, status |-> "active"] ELSE NoSeller
    BY DEF DeskInit
  <2>2. u # "none"
    BY NamesAssumption
  <2> QED
    BY <2>1, <2>2 DEF DeskSeller, NoSeller
<1>4. sellers \in [People -> DeskSeller]
  BY <1>3 DEF DeskInit
<1>5. UnderWay = {} /\ calls \in [Calls -> {NotCalled} \cup DeskCall]
  BY DEF DeskInit, UnderWay
<1> QED
  BY <1>1, <1>2, <1>3, <1>4, <1>5 DEF DeskInit, DeskTypes, Fitting, DeskStatuses

LEMMA DeskTyped == DeskTypes /\ Fitting /\ [DeskNext]_deskVars => DeskTypes' /\ Fitting'
<1> SUFFICES ASSUME DeskTypes, Fitting, [DeskNext]_deskVars PROVE DeskTypes' /\ Fitting'
  OBVIOUS
<1>0. /\ shift \in Shifts /\ roles \in [People -> DeskRoles] /\ users \in [People -> DeskStatuses]
      /\ sellers \in [People -> DeskSeller]
      /\ \A u \in People : sellers[u] = NoSeller \/ (sellers[u].name # "none" /\ sellers[u].status # "none")
      /\ listed \subseteq People /\ items \in [Papers -> {NoItem} \cup ItemRow]
      /\ called \in Nat /\ crossed \subseteq People /\ chiefs \in BOOLEAN
      /\ UnderWay \subseteq Calls /\ \A c \in UnderWay : calls[c] \in DeskCall
  BY CallFields DEF DeskTypes, UnderWay
<1>a. ASSUME UNCHANGED items, NEW c \in Calls, Done(c) PROVE Fitting'
  BY <1>a, AfterDone DEF Fitting, UnderWay
<1>b. ASSUME UNCHANGED items, NEW c \in UnderWay, NEW step \in DeskSteps, NowAt(c, step) PROVE Fitting'
  <2> SUFFICES ASSUME NEW d \in UnderWay'
               PROVE  /\ ArgsFit(calls'[d].op, calls'[d].args)
                      /\ calls'[d].op \in Decisions => /\ items'[calls'[d].args.item].kind = Deciding[calls'[d].op]
                                                       /\ items'[calls'[d].args.item].by = calls'[d].about
    BY DEF Fitting
  <2>1. /\ d \in UnderWay /\ calls'[d].op = calls[d].op /\ calls'[d].args = calls[d].args
        /\ calls'[d].about = calls[d].about
    BY <1>0, <1>b, AfterNow DEF SameCall
  <2> QED
    BY <1>b, <2>1 DEF Fitting
<1>c. ASSUME UNCHANGED <<shift, roles, users, sellers, listed, items, called, crossed, chiefs>>,
             calls' \in [Calls -> {NotCalled} \cup DeskCall]
      PROVE  DeskTypes'
  BY <1>c DEF DeskTypes
<1>1. ASSUME NEW c \in Calls, NEW step \in DeskSteps, GoesOn(c, step) PROVE DeskTypes' /\ Fitting'
  <2>1. c \in UnderWay
    BY <1>1, CallFields DEF GoesOn, Decisions
  <2>2. NowAt(c, step) /\ UNCHANGED <<shift, roles, users, sellers, listed, items, called, crossed, chiefs>>
    BY <1>1 DEF GoesOn, DeskFrame
  <2> QED
    BY <1>b, <1>c, <2>1, <2>2, AfterNow
<1>2. ASSUME NEW c \in Calls, Refused(c) PROVE DeskTypes' /\ Fitting'
  <2>1. Done(c) /\ UNCHANGED <<shift, roles, users, sellers, listed, items, called, crossed, chiefs>>
    BY <1>2 DEF Refused, DeskFrame
  <2> QED
    BY <1>a, <1>c, <2>1, AfterDone
<1>3. ASSUME NEW c \in Calls, NEW op, NEW by, NEW step, NEW about, NEW args,
             Begins(c, op, by, step, about, args)
      PROVE  DeskTypes' /\ Fitting'
  <2>1. /\ called' = called + 1 /\ UNCHANGED <<shift, roles, users, sellers, listed, items>>
        /\ crossed' = crossed \/ crossed' = crossed \cup {about}
        /\ chiefs' \in BOOLEAN /\ about \in People /\ args \in DeskArgs /\ ArgsFit(op, args)
    BY <1>0, <1>3 DEF Begins, Begin
  <2>2. DeskTypes'
    BY <1>0, <1>3, <2>1, AfterBegin DEF DeskTypes
  <2>3. op \in Decisions => items[args.item].kind = Deciding[op] /\ items[args.item].by = about
    BY <1>3 DEF Begins, Decisions
  <2>4. ASSUME NEW d \in UnderWay'
        PROVE  /\ ArgsFit(calls'[d].op, calls'[d].args)
               /\ calls'[d].op \in Decisions => /\ items'[calls'[d].args.item].kind = Deciding[calls'[d].op]
                                                /\ items'[calls'[d].args.item].by = calls'[d].about
    <3>1. d = c \/ (d # c /\ d \in UnderWay /\ calls'[d] = calls[d])
      BY <1>0, <1>3, <2>4, AfterBegin
    <3>2. calls'[c].op = op /\ calls'[c].about = about /\ calls'[c].args = args
      BY <1>3, AfterBegin
    <3> QED
      BY <2>1, <2>3, <3>1, <3>2 DEF Fitting
  <2> QED
    BY <2>2, <2>4 DEF Fitting
<1>4. ASSUME NEW c \in Calls, Applies(c) PROVE DeskTypes' /\ Fitting'
  <2>1. PICK i \in Papers :
            /\ items[i] = NoItem
            /\ items' = [items EXCEPT ![i] = [kind |-> "application", by |-> calls[c].by,
                             name |-> calls[c].args.name, status |-> "pending", decisions |-> {}]]
    BY <1>4 DEF Applies
  <2>2. c \in UnderWay /\ calls[c].by \in People /\ calls[c].args.name \in Names
    <3>1. c \in UnderWay /\ calls[c].op = "apply"
      BY <1>4, CallFields DEF Applies, Is
    <3> QED
      BY <1>0, <3>1 DEF Fitting, ArgsFit, DeskCall
  <2> DEFINE none == {}
             q == [kind |-> "application", by |-> calls[c].by, name |-> calls[c].args.name,
                   status |-> "pending", decisions |-> none]
  <2>3. none \in SUBSET Nat
    OBVIOUS
  <2> HIDE DEF none
  <2>4. q \in ItemRow
    BY <2>2, <2>3 DEF ItemRow
  <2> HIDE DEF q
  <2>5. items' = [items EXCEPT ![i] = q]
    BY <2>1 DEF q, none
  <2>6. items' \in [Papers -> {NoItem} \cup ItemRow]
    BY <1>0, <2>4, <2>5
  <2>7. Done(c) /\ UNCHANGED <<shift, roles, users, sellers, listed, called, crossed, chiefs>>
    BY <1>4 DEF Applies
  <2>8. DeskTypes'
    BY <1>0, <2>6, <2>7, AfterDone DEF DeskTypes
  <2>9. ASSUME NEW d \in UnderWay'
        PROVE  /\ ArgsFit(calls'[d].op, calls'[d].args)
               /\ calls'[d].op \in Decisions => /\ items'[calls'[d].args.item].kind = Deciding[calls'[d].op]
                                                /\ items'[calls'[d].args.item].by = calls'[d].about
    <3>1. d \in UnderWay /\ calls'[d] = calls[d]
      BY <1>0, <2>7, AfterDone
    <3>2. calls[d].op \in Decisions => calls[d].args.item \in Papers /\ items[calls[d].args.item].kind # "none"
      BY <3>1 DEF Fitting, ArgsFit, Decisions, Deciding
    <3>3. calls[d].op \in Decisions => items'[calls[d].args.item] = items[calls[d].args.item]
      BY <1>0, <2>1, <2>5, <3>2 DEF NoItem
    <3> QED
      BY <3>1, <3>3 DEF Fitting
  <2> QED
    BY <2>8, <2>9 DEF Fitting
<1>5. ASSUME NEW c \in Calls, Settles(c) PROVE DeskTypes' /\ Fitting'
  <2> DEFINE j == calls[c].args.item
  <2>1. /\ calls[c].op \in Decisions /\ items' = Settled(c)
        /\ NowAt(c, "limit") \/ NowAt(c, "audit")
        /\ UNCHANGED <<shift, roles, users, listed, called, crossed, chiefs>>
    BY <1>5 DEF Settles
  <2>2. c \in UnderWay
    BY <2>1, CallFields DEF Decisions
  <2>3. /\ items' \in [Papers -> {NoItem} \cup ItemRow] /\ j \in Papers
        /\ \A i \in Papers : i # j => items'[i] = items[i]
        /\ items[j] \in ItemRow /\ items'[j].kind = items[j].kind /\ items'[j].by = items[j].by
    BY <2>1, <2>2, AfterSettled
  <2>4. PICK step \in DeskSteps : NowAt(c, step)
    BY <2>1 DEF DeskSteps
  <2>5. /\ sellers' \in [People -> DeskSeller]
        /\ \A u \in People : sellers'[u] = NoSeller \/ (sellers'[u].name # "none" /\ sellers'[u].status # "none")
    <3>1. CASE UNCHANGED sellers
      BY <1>0, <3>1
    <3>2. CASE sellers' = [sellers EXCEPT ![items[j].by] = [name |-> items[j].name, status |-> "active"]]
      <4>1. items[j].by \in People /\ items[j].name \in Names /\ items[j].name # "none"
        BY <2>3, NamesAssumption DEF ItemRow
      <4>2. [name |-> items[j].name, status |-> "active"] \in DeskSeller
        BY <4>1 DEF DeskSeller
      <4> QED
        BY <1>0, <3>2, <4>1, <4>2
    <3> QED
      BY <1>5, <3>1, <3>2 DEF Settles
  <2>6. DeskTypes'
    BY <1>0, <2>1, <2>2, <2>3, <2>4, <2>5, AfterNow DEF DeskTypes
  <2> HIDE DEF j
  <2>7. ASSUME NEW d \in UnderWay'
        PROVE  /\ ArgsFit(calls'[d].op, calls'[d].args)
               /\ calls'[d].op \in Decisions => /\ items'[calls'[d].args.item].kind = Deciding[calls'[d].op]
                                                /\ items'[calls'[d].args.item].by = calls'[d].about
    <3>1. /\ d \in UnderWay /\ calls'[d].op = calls[d].op /\ calls'[d].args = calls[d].args
          /\ calls'[d].about = calls[d].about
      BY <1>0, <2>2, <2>4, <2>7, AfterNow DEF SameCall
    <3>2. calls[d].op \in Decisions => calls[d].args.item \in Papers
      BY <3>1 DEF Fitting, ArgsFit
    <3> QED
      BY <2>3, <3>1, <3>2 DEF Fitting
  <2> QED
    BY <2>6, <2>7 DEF Fitting
<1>6. ASSUME NEW c \in Calls, SetUserStatus(c) PROVE DeskTypes' /\ Fitting'
  <2>1. /\ c \in UnderWay /\ calls[c].op = "status" /\ "sellers" \in DeskSteps
    BY <1>6, CallFields DEF SetUserStatus, Is, DeskSteps
  <2>2. calls[c].about \in People /\ calls[c].args.to \in DeskStatuses
    BY <1>0, <2>1 DEF Fitting, ArgsFit, DeskCall
  <2>3. /\ users' = [users EXCEPT ![calls[c].about] = calls[c].args.to] /\ NowAt(c, "sellers")
        /\ UNCHANGED <<shift, roles, sellers, listed, items, called, crossed, chiefs>>
    BY <1>6 DEF SetUserStatus
  <2>4. users' \in [People -> DeskStatuses]
    BY <1>0, <2>2, <2>3
  <2>5. DeskTypes'
    BY <1>0, <2>1, <2>3, <2>4, AfterNow DEF DeskTypes
  <2> QED
    BY <1>b, <2>1, <2>3, <2>5
<1>7. ASSUME NEW c \in Calls, SetSellerStatus(c) PROVE DeskTypes' /\ Fitting'
  <2> DEFINE u == calls[c].about
  <2>1. /\ c \in UnderWay /\ calls[c].op = "status" /\ "audit" \in DeskSteps
    BY <1>7, CallFields DEF SetSellerStatus, Is, DeskSteps
  <2>2. u \in People /\ calls[c].args.to \in DeskStatuses
    BY <1>0, <2>1 DEF Fitting, ArgsFit, DeskCall
  <2>3. /\ sellers' = IF sellers[u] = NoSeller THEN sellers ELSE [sellers EXCEPT ![u].status = calls[c].args.to]
        /\ NowAt(c, "audit")
        /\ UNCHANGED <<shift, roles, users, listed, items, called, crossed, chiefs>>
    BY <1>7 DEF SetSellerStatus, SellerAfter
  <2>4. sellers[u] # NoSeller =>
            /\ [sellers[u] EXCEPT !.status = calls[c].args.to] \in DeskSeller
            /\ [sellers[u] EXCEPT !.status = calls[c].args.to].name # "none"
            /\ [sellers[u] EXCEPT !.status = calls[c].args.to].status # "none"
    BY <1>0, <2>2 DEF DeskSeller, DeskStatuses
  <2>5. /\ sellers' \in [People -> DeskSeller]
        /\ \A v \in People : sellers'[v] = NoSeller \/ (sellers'[v].name # "none" /\ sellers'[v].status # "none")
    BY <1>0, <2>2, <2>3, <2>4
  <2>6. DeskTypes'
    BY <1>0, <2>1, <2>3, <2>5, AfterNow DEF DeskTypes
  <2> QED
    BY <1>b, <2>1, <2>3, <2>6
<1>8. ASSUME NEW c \in Calls, Promotes(c) PROVE DeskTypes' /\ Fitting'
  <2>1. c \in UnderWay /\ calls[c].op = "role" /\ "audit" \in DeskSteps
    BY <1>8, CallFields DEF Promotes, Is, DeskSteps
  <2>2. calls[c].about \in People /\ calls[c].args.to \in DeskRoles
    BY <1>0, <2>1 DEF Fitting, ArgsFit, DeskCall
  <2>3. /\ roles' = [roles EXCEPT ![calls[c].about] = calls[c].args.to] /\ NowAt(c, "audit")
        /\ UNCHANGED <<shift, users, sellers, listed, items, called, crossed, chiefs>>
    BY <1>8 DEF Promotes
  <2>4. roles' \in [People -> DeskRoles]
    BY <1>0, <2>2, <2>3
  <2>5. DeskTypes'
    BY <1>0, <2>1, <2>3, <2>4, AfterNow DEF DeskTypes
  <2> QED
    BY <1>b, <2>1, <2>3, <2>5
<1>9. ASSUME NEW c \in Calls, InsertListing(c) PROVE DeskTypes' /\ Fitting'
  <2>1. c \in UnderWay
    BY <1>9, CallFields DEF InsertListing, Is
  <2>2. calls[c].by \in People
    BY <1>0, <2>1 DEF DeskCall
  <2>3. /\ listed' = listed \cup {calls[c].by} /\ Done(c)
        /\ UNCHANGED <<shift, roles, users, sellers, items, called, crossed, chiefs>>
    BY <1>9 DEF InsertListing
  <2>4. DeskTypes'
    BY <1>0, <2>2, <2>3, AfterDone DEF DeskTypes
  <2> QED
    BY <1>a, <2>3, <2>4
<1>10. ASSUME NEW c \in Calls, BreakOff(c) PROVE DeskTypes' /\ Fitting'
  <2>1. c \in UnderWay /\ crossed' = crossed \cup {calls[c].about} /\ Done(c)
        /\ UNCHANGED <<shift, roles, users, sellers, listed, items, called, chiefs>>
    BY <1>10 DEF BreakOff
  <2>2. calls[c].about \in People
    BY <1>0, <2>1 DEF DeskCall
  <2>3. DeskTypes'
    BY <1>0, <2>1, <2>2, AfterDone DEF DeskTypes
  <2> QED
    BY <1>a, <2>1, <2>3
<1>11. ASSUME NEW c \in Calls, NEW op, Record(c, op) PROVE DeskTypes' /\ Fitting'
  <2>1. Done(c) /\ UNCHANGED <<shift, roles, users, sellers, listed, items, called, crossed, chiefs>>
    BY <1>11 DEF Record
  <2> QED
    BY <1>a, <1>c, <2>1, AfterDone
<1>12. CASE UNCHANGED deskVars
  BY <1>12 DEF deskVars, DeskTypes, Fitting, UnderWay
<1>13. CASE DeskNext
  <2>1. PICK c \in Calls : DeskStep(c)
    BY <1>13, DeskKinds
  <2> QED
    BY <1>1, <1>2, <1>3, <1>4, <1>5, <1>6, <1>7, <1>8, <1>9, <1>10, <1>11, <2>1 DEF DeskStep
<1> QED
  BY <1>12, <1>13

-----------------------------------------------------------------------------
(* Every request has a number of its own, and every decision is on record *)

\* A decision carries the number of the request that made it, which has only
\* its record left to write.
Numbered ==
    /\ \A c \in UnderWay : calls[c].n <= called
    /\ \A c, d \in UnderWay : calls[c].n = calls[d].n => c = d
    /\ \A i \in Papers : \A n \in items[i].decisions :
           /\ n <= called
           /\ n \in records \cup torn \/ \E c \in UnderWay : calls[c].n = n
    /\ \A i \in Papers, c \in UnderWay :
           calls[c].n \in items[i].decisions => calls[c].step \in {"limit", "audit"}

LEMMA NumberedDone ==
    ASSUME DeskTypes, Numbered, NEW c \in Calls, Done(c), UNCHANGED called,
           \A i \in Papers : items'[i].decisions \subseteq items[i].decisions,
           records \subseteq records', torn \subseteq torn',
           c \in UnderWay /\ calls[c].step \in {"limit", "audit"} => calls[c].n \in records' \cup torn'
    PROVE  Numbered'
<1>1. /\ \A d \in UnderWay' : d \in UnderWay /\ d # c /\ calls'[d] = calls[d]
      /\ \A d \in UnderWay : d # c => d \in UnderWay' /\ calls'[d] = calls[d]
  BY AfterDone DEF UnderWay
<1>2. ASSUME NEW i \in Papers, NEW n \in items'[i].decisions
      PROVE  n <= called' /\ (n \in records' \cup torn' \/ \E d \in UnderWay' : calls'[d].n = n)
  <2>1. n \in items[i].decisions /\ n <= called'
    BY <1>2 DEF Numbered
  <2>2. CASE n \in records \cup torn
    BY <2>1, <2>2
  <2>3. CASE \E d \in UnderWay : calls[d].n = n
    <3>1. PICK d \in UnderWay : calls[d].n = n
      BY <2>3
    <3>2. CASE d = c
      BY <2>1, <3>1, <3>2 DEF Numbered
    <3>3. CASE d # c
      BY <1>1, <2>1, <3>1, <3>3
    <3> QED
      BY <3>2, <3>3
  <2> QED
    BY <2>1, <2>2, <2>3 DEF Numbered
<1> QED
  BY <1>1, <1>2 DEF Numbered

LEMMA NumberedNow ==
    ASSUME DeskTypes, Numbered, NEW c \in UnderWay, NEW step \in DeskSteps, NowAt(c, step),
           UNCHANGED <<called, records, torn>>,
           calls[c].step \in {"limit", "audit"} => step \in {"limit", "audit"},
           \A i \in Papers : \A n \in items'[i].decisions :
               n \in items[i].decisions \/ (n = calls[c].n /\ step \in {"limit", "audit"})
    PROVE  Numbered'
<1>1. /\ UnderWay' = UnderWay /\ UnderWay \subseteq Calls
      /\ \A d \in UnderWay : calls'[d].n = calls[d].n /\ (d # c => calls'[d] = calls[d])
      /\ calls'[c].step = step
  BY AfterNow DEF SameCall, UnderWay
<1>2. ASSUME NEW i \in Papers, NEW n \in items'[i].decisions
      PROVE  n <= called' /\ (n \in records' \cup torn' \/ \E d \in UnderWay' : calls'[d].n = n)
  <2>1. CASE n \in items[i].decisions
    BY <1>1, <2>1 DEF Numbered
  <2>2. CASE n = calls[c].n
    BY <1>1, <2>2 DEF Numbered
  <2> QED
    BY <1>2, <2>1, <2>2
<1>3. ASSUME NEW i \in Papers, NEW d \in UnderWay, calls[d].n \in items'[i].decisions
      PROVE  calls'[d].step \in {"limit", "audit"}
  <2>1. CASE d = c
    BY <1>1, <1>3, <2>1 DEF Numbered
  <2>2. CASE d # c
    <3>1. calls[d].n # calls[c].n
      BY <2>2 DEF Numbered
    <3> QED
      BY <1>1, <1>3, <2>2, <3>1 DEF Numbered
  <2> QED
    BY <2>1, <2>2
<1> QED
  BY <1>1, <1>2, <1>3 DEF Numbered

LEMMA NumberedKept ==
    ASSUME DeskTypes, Fitting, Numbered, [DeskNext]_deskVars
    PROVE  Numbered'
<1>1. ASSUME NEW c \in Calls, NEW step \in DeskSteps, GoesOn(c, step) PROVE Numbered'
  <2>1. c \in UnderWay /\ (calls[c].step \in {"limit", "audit"} => step \in {"limit", "audit"})
    BY <1>1, CallFields DEF GoesOn, Decisions
  <2> QED
    BY <1>1, <2>1, NumberedNow DEF GoesOn, DeskFrame
<1>2. ASSUME NEW c \in Calls, Refused(c) PROVE Numbered'
  <2>1. /\ Done(c) /\ UNCHANGED <<items, called, records, torn>> /\ calls[c].step \notin {"limit", "audit"}
    BY <1>2 DEF Refused, DeskFrame
  <2> QED
    BY <2>1, NumberedDone
<1>3. ASSUME NEW c \in Calls, NEW op, NEW by, NEW step, NEW about, NEW args,
             Begins(c, op, by, step, about, args)
      PROVE  Numbered'
  <2>1. called \in Nat /\ called' = called + 1 /\ UNCHANGED <<items, records, torn>>
    BY <1>3 DEF Begins, Begin, DeskTypes
  <2>2. /\ c \notin UnderWay /\ UnderWay' = UnderWay \cup {c} /\ UnderWay \subseteq Calls
        /\ calls'[c].n = called + 1 /\ \A d \in UnderWay : calls'[d] = calls[d]
    BY <1>3, AfterBegin DEF UnderWay
  <2>3. \A d \in UnderWay : calls[d].n \in Nat
    BY <2>2, CallFields DEF DeskCall
  <2>4. \A i \in Papers : \A n \in items[i].decisions : n \in Nat
    BY ItemFields
  <2>5. ASSUME NEW i \in Papers, NEW n \in items[i].decisions
        PROVE  n <= called' /\ n # called + 1 /\ (n \in records \cup torn \/ \E d \in UnderWay' : calls'[d].n = n)
    <3>1. n <= called /\ n \in Nat /\ (n \in records \cup torn \/ \E d \in UnderWay : calls[d].n = n)
      BY <2>4 DEF Numbered
    <3> QED
      BY <2>1, <2>2, <3>1
  <2>6. /\ \A d \in UnderWay : calls[d].n <= called' /\ calls[d].n # called + 1
    BY <2>1, <2>3 DEF Numbered
  <2>7. \A i \in Papers, d \in UnderWay' :
            calls'[d].n \in items[i].decisions => calls'[d].step \in {"limit", "audit"}
    BY <2>2, <2>5 DEF Numbered
  <2>8. \A d, e \in UnderWay' : calls'[d].n = calls'[e].n => d = e
    BY <2>2, <2>6 DEF Numbered
  <2>9. \A d \in UnderWay' : calls'[d].n <= called'
    BY <2>1, <2>2, <2>6
  <2> QED
    BY <2>1, <2>5, <2>7, <2>8, <2>9 DEF Numbered
<1>4. ASSUME NEW c \in Calls, Applies(c) PROVE Numbered'
  <2>1. \A i \in Papers : items'[i].decisions \subseteq items[i].decisions
    <3> DEFINE none == {}
    <3>1. PICK i \in Papers :
              items' = [items EXCEPT ![i] = [kind |-> "application", by |-> calls[c].by,
                            name |-> calls[c].args.name, status |-> "pending", decisions |-> none]]
      BY <1>4 DEF Applies
    <3>2. none \subseteq items[i].decisions
      OBVIOUS
    <3> HIDE DEF none
    <3>3. items \in [Papers -> {NoItem} \cup ItemRow]
      BY DEF DeskTypes
    <3> QED
      BY <3>1, <3>2, <3>3
  <2>2. Done(c) /\ UNCHANGED <<called, records, torn>> /\ calls[c].step \notin {"limit", "audit"}
    BY <1>4 DEF Applies, Is
  <2> QED
    BY <2>1, <2>2, NumberedDone
<1>5. ASSUME NEW c \in Calls, Settles(c) PROVE Numbered'
  <2>1. c \in UnderWay /\ calls[c].step = "commit"
    BY <1>5, CallFields DEF Settles, Decisions
  <2>2. PICK step \in {"limit", "audit"} : NowAt(c, step)
    BY <1>5 DEF Settles
  <2>3. step \in DeskSteps /\ UNCHANGED <<called, records, torn>>
    BY <1>5 DEF DeskSteps, Settles
  <2>4. \A i \in Papers : \A n \in items'[i].decisions : n \in items[i].decisions \/ n = calls[c].n
    <3> DEFINE j == calls[c].args.item
    <3>1. calls[c].op \in Decisions /\ items' = Settled(c)
      BY <1>5 DEF Settles
    <3>2. /\ \A i \in Papers : i # j => items'[i] = items[i]
          /\ items'[j].decisions = items[j].decisions \cup {calls[c].n}
      BY <2>1, <3>1, AfterSettled
    <3> HIDE DEF j
    <3> QED
      BY <3>2
  <2> QED
    BY <2>1, <2>2, <2>3, <2>4, NumberedNow
<1>6. ASSUME NEW c \in Calls, SetUserStatus(c) \/ SetSellerStatus(c) \/ Promotes(c) PROVE Numbered'
  <2>1. c \in UnderWay /\ calls[c].step \notin {"limit", "audit"}
    BY <1>6, CallFields DEF SetUserStatus, SetSellerStatus, Promotes, Is
  <2>2. PICK step \in {"sellers", "audit"} : NowAt(c, step)
    BY <1>6 DEF SetUserStatus, SetSellerStatus, Promotes
  <2>3. step \in DeskSteps /\ UNCHANGED <<items, called, records, torn>>
    BY <1>6 DEF DeskSteps, SetUserStatus, SetSellerStatus, Promotes
  <2> QED
    BY <2>1, <2>2, <2>3, NumberedNow
<1>7. ASSUME NEW c \in Calls, InsertListing(c) PROVE Numbered'
  <2>1. /\ Done(c) /\ UNCHANGED <<items, called, records, torn>> /\ calls[c].step \notin {"limit", "audit"}
    BY <1>7 DEF InsertListing, Is
  <2> QED
    BY <2>1, NumberedDone
<1>8. ASSUME NEW c \in Calls, BreakOff(c) PROVE Numbered'
  BY <1>8, NumberedDone DEF BreakOff
<1>9. ASSUME NEW c \in Calls, NEW op, Record(c, op) PROVE Numbered'
  BY <1>9, NumberedDone DEF Record
<1>10. CASE UNCHANGED deskVars
  BY <1>10 DEF deskVars, Numbered, UnderWay
<1>11. CASE DeskNext
  <2>1. PICK c \in Calls : DeskStep(c)
    BY <1>11, DeskKinds
  <2> QED
    BY <1>1, <1>2, <1>3, <1>4, <1>5, <1>6, <1>7, <1>8, <1>9, <2>1 DEF DeskStep
<1> QED
  BY <1>10, <1>11

-----------------------------------------------------------------------------
(* What is filed is decided once *)

\* Undecided, or decided by one request, which told the applicant.
DecidedOnce ==
    /\ \A i \in Papers : items[i].kind \in {"application", "report"} =>
           IF items[i].status \in Open THEN items[i].decisions = {} ELSE \E n : items[i].decisions = {n}
    /\ \A i \in Papers : items[i].kind = "application" => items[i].decisions \subseteq told

\* Whoever is approved trades under the name he asked for, and alone under it.
NamesHold ==
    /\ \A i \in Papers : items[i].status = "approved" => sellers[items[i].by].name = items[i].name
    /\ \A u, v \in People : sellers[u] # NoSeller /\ sellers[u].name = sellers[v].name => u = v

\* A person has one application waiting.
OneWaits ==
    \A i, j \in Papers :
        items[i].status = "pending" /\ items[j].status = "pending" /\ items[i].by = items[j].by => i = j

\* The items are as they were, or one more is filed.
LEMMA ItemsUnlessSettled ==
    ASSUME DeskTypes, NEW c \in Calls, DeskStep(c), ~Settles(c)
    PROVE  /\ told' = told
           /\ \/ items' = items
              \/ /\ c \in UnderWay /\ calls[c].op = "apply" /\ calls[c].step = "insert" /\ Done(c)
                 /\ UNCHANGED <<sellers, crossed>> /\ ~Pending(calls[c].by)
                 /\ \E i \in Papers :
                        /\ \A j \in Papers : j # i => items'[j] = items[j]
                        /\ items'[i].kind = "application" /\ items'[i].by = calls[c].by
                        /\ items'[i].status = "pending" /\ items'[i].decisions = {}
<1>1. CASE Applies(c)
  <2> DEFINE none == {}
             q == [kind |-> "application", by |-> calls[c].by, name |-> calls[c].args.name,
                   status |-> "pending", decisions |-> none]
  <2>1. PICK i \in Papers : items' = [items EXCEPT ![i] = q]
    BY <1>1 DEF Applies
  <2>2. q.kind = "application" /\ q.by = calls[c].by /\ q.status = "pending" /\ q.decisions = none
    OBVIOUS
  <2> HIDE DEF q
  <2>3. items \in [Papers -> {NoItem} \cup ItemRow]
    BY DEF DeskTypes
  <2>4. items'[i] = q /\ \A j \in Papers : j # i => items'[j] = items[j]
    BY <2>1, <2>3
  <2>5. c \in UnderWay /\ calls[c].op = "apply" /\ calls[c].step = "insert"
    BY <1>1, CallFields DEF Applies, Is
  <2> QED
    BY <1>1, <2>2, <2>4, <2>5 DEF Applies
<1>2. CASE ~Applies(c)
  <2>1. ASSUME NEW op, NEW by, NEW step, NEW about, NEW args, Begins(c, op, by, step, about, args)
        PROVE  told' = told /\ items' = items
    BY <2>1 DEF Begins, Begin
  <2>2. ASSUME \A op, by, step, about, args : ~Begins(c, op, by, step, about, args)
        PROVE  told' = told /\ items' = items
    BY <1>2, <2>2 DEF DeskStep, GoesOn, Refused, DeskFrame, SetUserStatus, SetSellerStatus, Promotes,
                      InsertListing, BreakOff, Record
  <2> QED
    BY <2>1, <2>2
<1> QED
  BY <1>1, <1>2

LEMMA DecidedOnceKept ==
    ASSUME DeskTypes, Fitting, DecidedOnce, [DeskNext]_deskVars
    PROVE  DecidedOnce'
<1>1. ASSUME NEW c \in Calls, Settles(c) PROVE DecidedOnce'
  <2> DEFINE j == calls[c].args.item
  <2>1. c \in UnderWay /\ calls[c].op \in Decisions /\ items' = Settled(c)
    BY <1>1, CallFields DEF Settles, Decisions
  <2>2. /\ j \in Papers /\ \A i \in Papers : i # j => items'[i] = items[i]
        /\ items'[j].kind = items[j].kind /\ items'[j].status = calls[c].args.to
        /\ items'[j].decisions = items[j].decisions \cup {calls[c].n}
    BY <2>1, AfterSettled
  <2>3. items[j].kind = Deciding[calls[c].op] /\ ArgsFit(calls[c].op, calls[c].args)
    BY <2>1 DEF Fitting
  <2>4. told \subseteq told' /\ (calls[c].op = "decide" => items[j].status = "pending" /\ calls[c].n \in told')
        /\ (calls[c].op = "resolve" => items[j].status = "open")
    BY <1>1, <2>1 DEF Settles, Decisions
  <2>5. CASE calls[c].op = "hide"
    <3>1. items[j].kind = "review"
      BY <2>3, <2>5 DEF Deciding
    <3> QED
      BY <2>2, <2>4, <3>1 DEF DecidedOnce
  <2>6. CASE calls[c].op # "hide"
    <3>1. /\ calls[c].op \in {"decide", "resolve"} /\ items[j].kind \in {"application", "report"}
          /\ items[j].status \in Open /\ calls[c].args.to \notin Open
          /\ (items[j].kind = "application" => calls[c].op = "decide")
      BY <2>1, <2>3, <2>4, <2>6 DEF Decisions, Deciding, ArgsFit, Open
    <3>2. items[j].decisions = {}
      BY <2>2, <3>1 DEF DecidedOnce
    <3>3. items'[j].decisions = {calls[c].n}
      BY <2>2, <3>2
    <3>4. items'[j].status \notin Open /\ (items'[j].kind = "application" => items'[j].decisions \subseteq told')
      BY <2>2, <2>4, <3>1, <3>3
    <3>5. ASSUME NEW i \in Papers
          PROVE  /\ items'[i].kind \in {"application", "report"} =>
                        IF items'[i].status \in Open THEN items'[i].decisions = {}
                                                     ELSE \E n : items'[i].decisions = {n}
                 /\ items'[i].kind = "application" => items'[i].decisions \subseteq told'
      <4>1. CASE i = j
        BY <3>3, <3>4, <4>1
      <4>2. CASE i # j
        BY <2>2, <2>4, <4>2 DEF DecidedOnce
      <4> QED
        BY <4>1, <4>2
    <3> QED
      BY <3>5 DEF DecidedOnce, Open
  <2> QED
    BY <2>5, <2>6
<1>2. ASSUME NEW c \in Calls, DeskStep(c), ~Settles(c) PROVE DecidedOnce'
  <2>1. told' = told
    BY <1>2, ItemsUnlessSettled
  <2>2. ASSUME NEW i \in Papers
        PROVE  items'[i] = items[i] \/ (/\ items'[i].kind = "application" /\ items'[i].status \in Open
                                       /\ items'[i].decisions = {})
    BY <1>2, ItemsUnlessSettled DEF Open
  <2> QED
    BY <2>1, <2>2 DEF DecidedOnce, Open
<1>3. CASE UNCHANGED deskVars
  BY <1>3 DEF deskVars, DecidedOnce
<1> QED
  BY <1>1, <1>2, <1>3, DeskKinds

\* What a step does to the sellers.
LEMMA SellersAfter ==
    ASSUME DeskTypes, Fitting, NEW c \in Calls, DeskStep(c)
    PROVE  \/ sellers' = sellers
           \/ /\ Settles(c) /\ calls[c].op = "decide" /\ calls[c].args.to = "approved"
              /\ LET item == items[calls[c].args.item]
                 IN  /\ item.by \in People /\ item.name \in Names /\ item.name # "none"
                     /\ ~NameTaken(item.name) /\ sellers[item.by] = NoSeller
                     /\ sellers'[item.by].name = item.name /\ sellers'[item.by].status = "active"
                     /\ \A u \in People : u # item.by => sellers'[u] = sellers[u]
           \/ /\ SetSellerStatus(c) /\ calls[c].about \in People /\ sellers[calls[c].about] # NoSeller
              /\ sellers'[calls[c].about].name = sellers[calls[c].about].name
              /\ sellers'[calls[c].about].status = calls[c].args.to
              /\ \A u \in People : u # calls[c].about => sellers'[u] = sellers[u]
<1>0. sellers \in [People -> DeskSeller]
  BY DEF DeskTypes
<1>1. CASE Settles(c)
  <2> DEFINE item == items[calls[c].args.item]
  <2>1. CASE calls[c].op = "decide" /\ calls[c].args.to = "approved"
    <3>1. c \in UnderWay /\ calls[c].op \in Decisions /\ items' = Settled(c)
      BY <1>1, CallFields DEF Settles, Decisions
    <3>2. item \in ItemRow
      BY <3>1, AfterSettled
    <3>3. item.by \in People /\ item.name \in Names /\ item.name # "none"
      BY <3>2, NamesAssumption DEF ItemRow
    <3>4. /\ ~NameTaken(item.name) /\ sellers[item.by] = NoSeller
          /\ sellers' = [sellers EXCEPT ![item.by] = [name |-> item.name, status |-> "active"]]
      BY <1>1, <2>1 DEF Settles
    <3> HIDE DEF item
    <3>5. /\ sellers'[item.by].name = item.name /\ sellers'[item.by].status = "active"
          /\ \A u \in People : u # item.by => sellers'[u] = sellers[u]
      BY <1>0, <3>3, <3>4
    <3> QED
      BY <1>1, <2>1, <3>3, <3>4, <3>5 DEF item
  <2>2. CASE ~(calls[c].op = "decide" /\ calls[c].args.to = "approved")
    BY <1>1, <2>2 DEF Settles
  <2> QED
    BY <2>1, <2>2
<1>2. CASE SetSellerStatus(c)
  <2> DEFINE u == calls[c].about
  <2>1. CASE sellers[u] = NoSeller
    BY <1>2, <2>1 DEF SetSellerStatus
  <2>2. CASE sellers[u] # NoSeller
    <3>1. c \in UnderWay
      BY <1>2, CallFields DEF SetSellerStatus, Is
    <3>2. u \in People /\ sellers' = [sellers EXCEPT ![u].status = calls[c].args.to]
      BY <1>2, <2>2, <3>1, CallFields DEF SetSellerStatus, SellerAfter, DeskCall
    <3> HIDE DEF u
    <3>3. /\ sellers'[u].name = sellers[u].name /\ sellers'[u].status = calls[c].args.to
          /\ \A v \in People : v # u => sellers'[v] = sellers[v]
      BY <1>0, <3>2 DEF DeskSeller
    <3> QED
      BY <1>2, <2>2, <3>2, <3>3 DEF u
  <2> QED
    BY <2>1, <2>2
<1>3. CASE ~Settles(c) /\ ~SetSellerStatus(c)
  <2>1. ASSUME NEW op, NEW by, NEW step, NEW about, NEW args, Begins(c, op, by, step, about, args)
        PROVE  sellers' = sellers
    BY <2>1 DEF Begins, Begin
  <2>2. ASSUME \A op, by, step, about, args : ~Begins(c, op, by, step, about, args)
        PROVE  sellers' = sellers
    BY <1>3, <2>2 DEF DeskStep, GoesOn, Refused, DeskFrame, Applies, SetUserStatus, Promotes, InsertListing,
                      BreakOff, Record
  <2> QED
    BY <2>1, <2>2
<1> QED
  BY <1>1, <1>2, <1>3

LEMMA NamesHoldKept ==
    ASSUME DeskTypes, Fitting, NamesHold, [DeskNext]_deskVars
    PROVE  NamesHold'
<1>0. NoSeller.name = "none" /\ "none" \notin Names /\ "none" \notin People
  BY NamesAssumption DEF NoSeller
<1>1. \A i \in Papers : items[i].status = "approved" => items[i].by \in People /\ items[i].name \in Names
  BY ItemFields DEF ItemRow
<1>2. ASSUME NEW c \in Calls, Settles(c) PROVE NamesHold'
  <2> DEFINE j == calls[c].args.item
             by == items[j].by
             name == items[j].name
  <2>1. c \in UnderWay /\ calls[c].op \in Decisions /\ items' = Settled(c)
    BY <1>2, CallFields DEF Settles, Decisions
  <2>2. /\ j \in Papers /\ \A i \in Papers : i # j => items'[i] = items[i]
        /\ items'[j].by = by /\ items'[j].name = name /\ items'[j].status = calls[c].args.to
    BY <2>1, AfterSettled
  <2>3. ArgsFit(calls[c].op, calls[c].args)
    BY <2>1 DEF Fitting
  <2>4. CASE calls[c].op = "decide" /\ calls[c].args.to = "approved"
    <3>1. /\ by \in People /\ name \in Names /\ name # "none"
          /\ ~NameTaken(name) /\ sellers[by] = NoSeller
          /\ sellers' = [sellers EXCEPT ![by] = [name |-> name, status |-> "active"]]
      <4>1. items[j] \in ItemRow
        BY <2>1, AfterSettled
      <4> QED
        BY <1>0, <1>2, <2>4, <4>1 DEF Settles, ItemRow
    <3>2. /\ sellers'[by].name = name /\ \A u \in People : u # by => sellers'[u] = sellers[u]
      BY <3>1 DEF DeskTypes
    <3> HIDE DEF j, by, name
    <3>3. ASSUME NEW i \in Papers, items'[i].status = "approved"
          PROVE  sellers'[items'[i].by].name = items'[i].name
      <4>1. CASE i = j
        BY <2>2, <3>2, <4>1
      <4>2. CASE i # j
        <5>1. items'[i] = items[i] /\ items[i].status = "approved"
          BY <2>2, <3>3, <4>2
        <5>2. sellers[items[i].by].name = items[i].name /\ items[i].by \in People /\ items[i].name \in Names
          BY <1>1, <5>1 DEF NamesHold
        <5>3. items[i].by # by
          BY <1>0, <3>1, <5>2
        <5> QED
          BY <3>2, <5>1, <5>2, <5>3
      <4> QED
        BY <4>1, <4>2
    <3>4. ASSUME NEW u \in People, NEW v \in People, sellers'[u] # NoSeller, sellers'[u].name = sellers'[v].name
          PROVE  u = v
      <4>1. \A w \in People : sellers[w].name # name
        BY <3>1 DEF NameTaken
      <4> QED
        BY <3>2, <3>4, <4>1 DEF NamesHold
    <3> QED
      BY <3>3, <3>4 DEF NamesHold
  <2>5. CASE ~(calls[c].op = "decide" /\ calls[c].args.to = "approved")
    <3>1. UNCHANGED sellers /\ calls[c].args.to # "approved"
      BY <1>2, <2>1, <2>3, <2>5 DEF Settles, ArgsFit, Decisions
    <3>2. \A i \in Papers : items'[i].status = "approved" => items'[i] = items[i]
      BY <2>2, <3>1
    <3> QED
      BY <3>1, <3>2 DEF NamesHold
  <2> QED
    BY <2>4, <2>5
<1>3. ASSUME NEW c \in Calls, DeskStep(c), ~Settles(c) PROVE NamesHold'
  <2>1. \A i \in Papers : items'[i].status = "approved" => items'[i] = items[i]
    BY <1>3, ItemsUnlessSettled
  <2>2. CASE sellers' = sellers
    BY <2>1, <2>2 DEF NamesHold
  <2>3. CASE sellers' # sellers
    <3> DEFINE u == calls[c].about
    <3>1. /\ u \in People /\ sellers[u] # NoSeller /\ sellers'[u].name = sellers[u].name
          /\ \A v \in People : v # u => sellers'[v] = sellers[v]
      BY <1>3, <2>3, SellersAfter
    <3> HIDE DEF u
    <3>2. \A v \in People : sellers'[v].name = sellers[v].name /\ (sellers'[v] # NoSeller => sellers[v] # NoSeller)
      BY <3>1
    <3>3. \A i \in Papers : items'[i].status = "approved" => sellers'[items'[i].by].name = items'[i].name
      BY <1>1, <2>1, <3>2 DEF NamesHold
    <3> QED
      BY <3>2, <3>3 DEF NamesHold
  <2> QED
    BY <2>2, <2>3
<1>4. CASE UNCHANGED deskVars
  BY <1>4 DEF deskVars, NamesHold, NoSeller
<1> QED
  BY <1>2, <1>3, <1>4, DeskKinds

LEMMA OneWaitsKept ==
    ASSUME DeskTypes, Fitting, OneWaits, [DeskNext]_deskVars
    PROVE  OneWaits'
<1>1. ASSUME NEW c \in Calls, Settles(c) PROVE OneWaits'
  <2> DEFINE j == calls[c].args.item
  <2>1. c \in UnderWay /\ calls[c].op \in Decisions /\ items' = Settled(c)
    BY <1>1, CallFields DEF Settles, Decisions
  <2>2. /\ j \in Papers /\ \A i \in Papers : i # j => items'[i] = items[i]
        /\ items'[j].status = calls[c].args.to
    BY <2>1, AfterSettled
  <2>3. calls[c].args.to # "pending"
    BY <2>1 DEF Fitting, ArgsFit, Decisions
  <2>4. \A i \in Papers : items'[i].status = "pending" => items'[i] = items[i]
    BY <2>2, <2>3
  <2> QED
    BY <2>4 DEF OneWaits
<1>2. ASSUME NEW c \in Calls, DeskStep(c), ~Settles(c) PROVE OneWaits'
  BY <1>2, ItemsUnlessSettled DEF OneWaits, Pending
<1>3. CASE UNCHANGED deskVars
  BY <1>3 DEF deskVars, OneWaits
<1> QED
  BY <1>1, <1>2, <1>3, DeskKinds

-----------------------------------------------------------------------------
(* Requests about one account, beside each other *)

\* A step ends a request, takes it one statement further, or begins one.
LEMMA RequestsMove ==
    ASSUME DeskTypes, NEW c \in Calls, DeskStep(c)
    PROVE  Done(c) \/ (c \in UnderWay /\ \E step \in DeskSteps : NowAt(c, step))
           \/ \E op, by, step, about, args : Begins(c, op, by, step, about, args)
<1>1. ASSUME Settles(c) \/ SetUserStatus(c) \/ SetSellerStatus(c) \/ Promotes(c)
      PROVE  c \in UnderWay /\ \E step \in DeskSteps : NowAt(c, step)
  BY <1>1, CallFields DEF Settles, Decisions, SetUserStatus, SetSellerStatus, Promotes, Is, DeskSteps
<1>2. ASSUME NEW step \in DeskSteps, GoesOn(c, step)
      PROVE  c \in UnderWay /\ NowAt(c, step)
  BY <1>2, CallFields DEF GoesOn, Decisions
<1> QED
  BY <1>1, <1>2 DEF DeskStep, Refused, Applies, InsertListing, BreakOff, Record

\* A request is as it was, one step further, or new.
LEMMA CallsAfter ==
    ASSUME DeskTypes, NEW c \in Calls, DeskStep(c), NEW d \in UnderWay'
    PROVE  \/ d # c /\ d \in UnderWay /\ calls'[d] = calls[d]
           \/ /\ d = c /\ c \in UnderWay /\ SameCall(calls[c], calls'[c]) /\ calls'[c].step \in DeskSteps
              /\ \/ GoesOn(c, calls'[c].step) \/ Settles(c)
                 \/ SetUserStatus(c) /\ calls'[c].step = "sellers"
                 \/ SetSellerStatus(c) /\ calls'[c].step = "audit"
                 \/ Promotes(c) /\ calls'[c].step = "audit"
           \/ /\ d = c /\ c \notin UnderWay
              /\ Begins(c, calls'[c].op, calls'[c].by, calls'[c].step, calls'[c].about, calls'[c].args)
<1>1. CASE Done(c)
  BY <1>1, AfterDone DEF UnderWay
<1>2. CASE c \in UnderWay /\ \E step \in DeskSteps : NowAt(c, step)
  <2>1. PICK step \in DeskSteps : NowAt(c, step)
    BY <1>2
  <2>2. /\ UnderWay' = UnderWay /\ \A e \in Calls : e # c => calls'[e] = calls[e]
        /\ SameCall(calls[c], calls'[c]) /\ calls'[c].step = step
    BY <1>2, <2>1, AfterNow
  <2>3. ~Done(c)
    BY <1>2, <2>2, AfterDone
  <2>4. ASSUME NEW s \in DeskSteps, GoesOn(c, s) PROVE GoesOn(c, calls'[c].step)
    <3>1. NowAt(c, s)
      BY <2>4 DEF GoesOn
    <3>2. calls'[c].step = s
      BY <1>2, <3>1, AfterNow
    <3> QED
      BY <2>4, <3>2
  <2>5. "sellers" \in DeskSteps /\ "audit" \in DeskSteps
    BY DEF DeskSteps
  <2>6. SetUserStatus(c) => calls'[c].step = "sellers"
    BY <1>2, <2>5, AfterNow DEF SetUserStatus
  <2>7. SetSellerStatus(c) \/ Promotes(c) => calls'[c].step = "audit"
    BY <1>2, <2>5, AfterNow DEF SetSellerStatus, Promotes
  <2>8. \A op, by, s, about, args : ~Begins(c, op, by, s, about, args)
    BY <1>2, AfterBegin DEF UnderWay
  <2>9. \/ GoesOn(c, calls'[c].step) \/ Settles(c)
        \/ SetUserStatus(c) /\ calls'[c].step = "sellers"
        \/ SetSellerStatus(c) /\ calls'[c].step = "audit"
        \/ Promotes(c) /\ calls'[c].step = "audit"
    BY <2>3, <2>4, <2>6, <2>7, <2>8 DEF DeskStep, Refused, Applies, InsertListing, BreakOff, Record
  <2> QED
    BY <1>2, <2>2, <2>9 DEF UnderWay
<1>3. CASE \E op, by, step, about, args : Begins(c, op, by, step, about, args)
  <2>1. PICK op, by, step, about, args : Begins(c, op, by, step, about, args)
    BY <1>3
  <2>2. /\ \A e \in Calls : e # c => calls'[e] = calls[e]
        /\ c \notin UnderWay /\ UnderWay' = UnderWay \cup {c}
        /\ calls'[c].op = op /\ calls'[c].by = by /\ calls'[c].step = step
        /\ calls'[c].about = about /\ calls'[c].args = args
    BY <2>1, AfterBegin
  <2> QED
    BY <2>1, <2>2 DEF UnderWay
<1> QED
  BY <1>1, <1>2, <1>3, RequestsMove

\* Two requests about the same account crossed.
Apart ==
    \A c, d \in UnderWay : c # d /\ calls[c].about = calls[d].about => calls[c].about \in crossed

LEMMA CrossedGrows ==
    ASSUME NEW c \in Calls, DeskStep(c)
    PROVE  crossed \subseteq crossed'
<1>1. ASSUME NEW op, NEW by, NEW step, NEW about, NEW args, Begins(c, op, by, step, about, args)
      PROVE  crossed \subseteq crossed'
  <2>1. crossed' = crossed \/ crossed' = crossed \cup {about}
    BY <1>1 DEF Begins, Begin
  <2> QED
    BY <2>1
<1>2. ASSUME BreakOff(c) PROVE crossed \subseteq crossed'
  BY <1>2 DEF BreakOff
<1>3. ASSUME ~BreakOff(c), \A op, by, step, about, args : ~Begins(c, op, by, step, about, args)
      PROVE  crossed' = crossed
  BY <1>3 DEF DeskStep, GoesOn, Refused, DeskFrame, Applies, Settles, SetUserStatus, SetSellerStatus, Promotes,
              InsertListing, Record
<1> QED
  BY <1>1, <1>2, <1>3

LEMMA ApartKept ==
    ASSUME DeskTypes, Apart, [DeskNext]_deskVars
    PROVE  Apart'
<1>1. ASSUME NEW c \in Calls, DeskStep(c) PROVE Apart'
  <2>1. \A d \in UnderWay' : d # c => d \in UnderWay /\ calls'[d] = calls[d]
    BY <1>1, CallsAfter
  <2>2. ASSUME NEW d \in UnderWay', d # c, c \in UnderWay', calls'[c].about = calls'[d].about
        PROVE  calls'[d].about \in crossed'
    <3>1. CASE c \in UnderWay
      <4>1. calls'[c].about = calls[c].about
        BY <1>1, <2>2, <3>1, CallsAfter DEF SameCall
      <4> QED
        BY <1>1, <2>1, <2>2, <3>1, <4>1, CrossedGrows DEF Apart
    <3>2. CASE c \notin UnderWay
      <4>1. Begins(c, calls'[c].op, calls'[c].by, calls'[c].step, calls'[c].about, calls'[c].args)
        BY <1>1, <2>2, <3>2, CallsAfter
      <4>2. crossed' = IF \E e \in UnderWay : calls[e].about = calls'[c].about
                       THEN crossed \cup {calls'[c].about} ELSE crossed
        BY <4>1 DEF Begins, Begin
      <4> QED
        BY <2>1, <2>2, <4>2
    <3> QED
      BY <3>1, <3>2
  <2>3. crossed \subseteq crossed'
    BY <1>1, CrossedGrows
  <2> QED
    BY <2>1, <2>2, <2>3 DEF Apart
<1>2. CASE UNCHANGED deskVars
  BY <1>2 DEF deskVars, Apart, UnderWay
<1> QED
  BY <1>1, <1>2, DeskKinds

\* What a request has seen of the account it is about still holds, unless another
\* request about the account was beside it.
Informed ==
    \A c \in UnderWay :
        LET r == calls[c]
        IN  /\ r.op \in {"apply", "list"} => r.about = r.by
            /\ r.op = "list" /\ r.step = "insert" => sellers[r.about] # NoSeller
            /\ r.about \notin crossed =>
                   /\ r.op = "apply" /\ r.step # "seller" => sellers[r.about] = NoSeller
                   /\ r.op = "list" => users[r.about] = "active"
                   /\ r.op = "status" /\ r.step = "sellers" => users[r.about] = r.args.to

\* A seller has no application waiting, and what is listed is a seller's.
Waiting == \A i \in Papers : items[i].status = "pending" /\ items[i].by \notin crossed => sellers[items[i].by] = NoSeller
ListedSell == \A u \in listed : sellers[u] # NoSeller

\* A suspended account offers nothing, once its seller's row is written too.
StatusFollows ==
    \A u \in People \ crossed :
        users[u] = "suspended" /\ (\A c \in UnderWay : calls[c].about = u => ~Is(c, "status", "sellers"))
        => ~Offered(u)

Neighbours == Apart /\ Informed /\ Waiting /\ ListedSell /\ StatusFollows

\* A seller stays one; only an approval makes one, and it is about his account.
LEMMA SellersStay ==
    ASSUME DeskTypes, Fitting, NEW c \in Calls, DeskStep(c), NEW u \in People
    PROVE  /\ sellers[u] # NoSeller => sellers'[u] # NoSeller
           /\ sellers[u] = NoSeller /\ sellers'[u] # NoSeller =>
                  /\ Settles(c) /\ c \in UnderWay /\ calls[c].op \in Decisions
                  /\ calls[c].about = u /\ items[calls[c].args.item].by = u
           /\ sellers'[u].status # sellers[u].status =>
                  \/ Settles(c) /\ sellers[u] = NoSeller
                  \/ SetSellerStatus(c) /\ calls[c].about = u /\ sellers'[u].status = calls[c].args.to
<1>0. NoSeller.name = "none"
  BY DEF NoSeller
<1>1. CASE sellers' = sellers
  BY <1>1
<1>2. CASE sellers' # sellers /\ Settles(c)
  <2> DEFINE item == items[calls[c].args.item]
  <2>1. c \in UnderWay /\ calls[c].op \in Decisions
    BY <1>2, CallFields DEF Settles, Decisions
  <2>2. item.by = calls[c].about
    BY <2>1 DEF Fitting
  <2>3. ~SetSellerStatus(c)
    BY <1>2 DEF Settles, SetSellerStatus, Is, Decisions
  <2>4. /\ item.by \in People /\ item.name # "none" /\ sellers[item.by] = NoSeller
        /\ sellers'[item.by].name = item.name
        /\ \A v \in People : v # item.by => sellers'[v] = sellers[v]
    BY <1>2, <2>3, SellersAfter
  <2> HIDE DEF item
  <2>5. item = items[calls[c].args.item]
    BY DEF item
  <2> QED
    BY <1>0, <1>2, <2>1, <2>2, <2>4, <2>5
<1>3. CASE sellers' # sellers /\ ~Settles(c)
  <2> DEFINE about == calls[c].about
  <2>1. /\ SetSellerStatus(c) /\ about \in People /\ sellers[about] # NoSeller
        /\ sellers'[about].name = sellers[about].name
        /\ sellers'[about].status = calls[c].args.to
        /\ \A v \in People : v # about => sellers'[v] = sellers[v]
    BY <1>3, SellersAfter
  <2>2. sellers[about].name # "none"
    BY <2>1 DEF DeskTypes
  <2> QED
    BY <1>0, <2>1, <2>2
<1> QED
  BY <1>1, <1>2, <1>3

\* An account's status is changed by a request about it.
LEMMA UsersAfter ==
    ASSUME DeskTypes, NEW c \in Calls, DeskStep(c), NEW u \in People
    PROVE  users'[u] = users[u] \/ (SetUserStatus(c) /\ c \in UnderWay /\ calls[c].about = u)
<1>1. CASE SetUserStatus(c)
  <2>1. c \in UnderWay /\ users' = [users EXCEPT ![calls[c].about] = calls[c].args.to]
    BY <1>1, CallFields DEF SetUserStatus, Is
  <2> QED
    BY <1>1, <2>1 DEF DeskTypes
<1>2. CASE ~SetUserStatus(c)
  <2>1. ASSUME NEW op, NEW by, NEW step, NEW about, NEW args, Begins(c, op, by, step, about, args)
        PROVE  users' = users
    BY <2>1 DEF Begins, Begin
  <2>2. ASSUME \A op, by, step, about, args : ~Begins(c, op, by, step, about, args)
        PROVE  users' = users
    BY <1>2, <2>2 DEF DeskStep, GoesOn, Refused, DeskFrame, Applies, Settles, SetSellerStatus, Promotes,
                      InsertListing, BreakOff, Record
  <2> QED
    BY <2>1, <2>2
<1> QED
  BY <1>1, <1>2

LEMMA InformedKept ==
    ASSUME DeskTypes, Fitting, Apart, Informed, NEW c \in Calls, DeskStep(c)
    PROVE  Informed'
<1> DEFINE Knows(r, s, u, x) ==
               /\ r.op \in {"apply", "list"} => r.about = r.by
               /\ r.op = "list" /\ r.step = "insert" => s[r.about] # NoSeller
               /\ r.about \notin x =>
                      /\ r.op = "apply" /\ r.step # "seller" => s[r.about] = NoSeller
                      /\ r.op = "list" => u[r.about] = "active"
                      /\ r.op = "status" /\ r.step = "sellers" => u[r.about] = r.args.to
<1> SUFFICES ASSUME NEW d \in UnderWay' PROVE Knows(calls'[d], sellers', users', crossed')
  BY DEF Informed, NoSeller
<1>0. crossed \subseteq crossed'
  BY CrossedGrows
<1>1. CASE d # c /\ d \in UnderWay /\ calls'[d] = calls[d]
  <2> DEFINE r == calls[d]
  <2>1. r.about \in People /\ Knows(r, sellers, users, crossed)
    BY <1>1, CallFields DEF Informed, DeskCall, UnderWay
  <2>2. r.about \notin crossed' => (c \in UnderWay => calls[c].about # r.about)
    BY <1>0, <1>1 DEF Apart
  <2> HIDE DEF r
  <2>3. r.about \notin crossed' => users'[r.about] = users[r.about]
    BY <2>1, <2>2, UsersAfter
  <2>4. r.about \notin crossed' /\ sellers[r.about] = NoSeller => sellers'[r.about] = NoSeller
    BY <2>1, <2>2, SellersStay
  <2>5. sellers[r.about] # NoSeller => sellers'[r.about] # NoSeller
    BY <2>1, SellersStay
  <2>6. Knows(r, sellers', users', crossed')
    BY <1>0, <2>1, <2>3, <2>4, <2>5
  <2> QED
    BY <1>1, <2>6 DEF r
<1>2. CASE /\ d = c /\ c \in UnderWay /\ SameCall(calls[c], calls'[c])
           /\ \/ GoesOn(c, calls'[c].step) \/ Settles(c)
              \/ SetUserStatus(c) /\ calls'[c].step = "sellers"
              \/ SetSellerStatus(c) /\ calls'[c].step = "audit"
              \/ Promotes(c) /\ calls'[c].step = "audit"
  <2> DEFINE r == calls[c]
             q == calls'[c]
  <2>1. /\ r.about \in People /\ Knows(r, sellers, users, crossed)
        /\ q.op = r.op /\ q.by = r.by /\ q.about = r.about /\ q.args = r.args
    BY <1>2, CallFields DEF Informed, DeskCall, UnderWay, SameCall
  <2>2. CASE GoesOn(c, q.step)
    <3>1. UNCHANGED <<users, sellers, crossed>>
      BY <2>2 DEF GoesOn, DeskFrame
    <3>2. \/ r.op = "apply" /\ r.step = "seller" /\ sellers[r.by] = NoSeller
          \/ r.op = "apply" /\ r.step # "seller"
          \/ r.op \in Decisions
          \/ r.op = "status" /\ q.step = "users"
          \/ r.op = "list" /\ sellers[r.by].status = "active"
      <4> DEFINE step == q.step
      <4>1. GoesOn(c, step)
        BY <2>2
      <4> HIDE DEF step, q
      <4>2. \/ r.op = "apply" /\ r.step = "seller" /\ sellers[r.by] = NoSeller
            \/ r.op = "apply" /\ r.step \in {"pending", "name"}
            \/ r.op \in Decisions
            \/ r.op = "decide"
            \/ r.op = "status" /\ step = "users"
            \/ r.op = "list" /\ sellers[r.by].status = "active"
        BY <4>1 DEF GoesOn
      <4> QED
        BY <4>2 DEF step, Decisions
    <3>3. NoSeller.status = "none"
      BY DEF NoSeller
    <3> HIDE DEF r, q
    <3> QED
      BY <1>2, <2>1, <3>1, <3>2, <3>3 DEF Decisions, q
  <2>3. CASE Settles(c)
    BY <1>2, <2>1, <2>3 DEF Settles, Decisions
  <2>4. CASE SetUserStatus(c) /\ q.step = "sellers"
    <3>1. r.op = "status" /\ users' = [users EXCEPT ![r.about] = r.args.to]
      BY <2>4 DEF SetUserStatus, Is
    <3>2. users'[r.about] = r.args.to
      BY <2>1, <3>1 DEF DeskTypes
    <3> HIDE DEF r, q
    <3> QED
      BY <1>2, <2>1, <3>1, <3>2 DEF q
  <2>5. CASE (SetSellerStatus(c) \/ Promotes(c)) /\ q.step = "audit"
    <3>1. r.op \in {"status", "role"}
      BY <2>5 DEF SetSellerStatus, Promotes, Is
    <3> HIDE DEF r, q
    <3> QED
      BY <1>2, <2>1, <2>5, <3>1 DEF q
  <2> QED
    BY <1>2, <2>2, <2>3, <2>4, <2>5
<1>3. CASE d = c /\ Begins(c, calls'[c].op, calls'[c].by, calls'[c].step, calls'[c].about, calls'[c].args)
  <2> DEFINE q == calls'[c]
  <2>1. /\ UNCHANGED <<users, sellers>> /\ users[q.by] = "active"
        /\ \/ q.op \in {"apply", "list"} /\ q.step = "seller" /\ q.about = q.by
           \/ q.op \in Decisions
           \/ q.op = "status" /\ q.step = "target"
           \/ q.op = "role"
    BY <1>3 DEF Begins, Begin
  <2> HIDE DEF q
  <2> QED
    BY <1>3, <2>1 DEF Decisions, q
<1> QED
  BY <1>1, <1>2, <1>3, CallsAfter

\* A step of one request leaves the others alone.
LEMMA DeskTouches ==
    ASSUME DeskTypes, NEW c \in Calls, DeskStep(c)
    PROVE  /\ \A d \in Calls : d # c => calls'[d] = calls[d]
           /\ \/ UnderWay' = UnderWay \/ UnderWay' = UnderWay \ {c} \/ UnderWay' = UnderWay \cup {c}
<1>1. CASE Done(c)
  BY <1>1, AfterDone
<1>2. CASE c \in UnderWay /\ \E step \in DeskSteps : NowAt(c, step)
  BY <1>2, AfterNow
<1>3. CASE \E op, by, step, about, args : Begins(c, op, by, step, about, args)
  BY <1>3, AfterBegin
<1> QED
  BY <1>1, <1>2, <1>3, RequestsMove

\* A request that has set the account's status sets the seller's next, or breaks off.
LEMMA StaysAtSellers ==
    ASSUME DeskTypes, NEW c \in Calls, DeskStep(c), c \in UnderWay,
           calls[c].op = "status", calls[c].step = "sellers", ~SetSellerStatus(c)
    PROVE  BreakOff(c)
<1>1. \A step \in DeskSteps : ~GoesOn(c, step)
  BY DEF GoesOn, Decisions
<1>2. \A op, by, step, about, args : ~Begins(c, op, by, step, about, args)
  BY AfterBegin
<1> QED
  BY <1>1, <1>2 DEF DeskStep, Refused, Applies, Settles, Decisions, SetUserStatus, Promotes, InsertListing, Record, Is
LEMMA WaitingKept ==
    ASSUME DeskTypes, Fitting, OneWaits, Informed, Waiting, NEW c \in Calls, DeskStep(c)
    PROVE  Waiting'
<1> SUFFICES ASSUME NEW i \in Papers, items'[i].status = "pending", items'[i].by \notin crossed'
             PROVE  sellers'[items'[i].by] = NoSeller
  BY DEF Waiting, NoSeller
<1>0. crossed \subseteq crossed'
  BY CrossedGrows
<1>1. CASE Settles(c)
  <2> DEFINE j == calls[c].args.item
  <2>1. c \in UnderWay /\ calls[c].op \in Decisions /\ items' = Settled(c)
    BY <1>1, CallFields DEF Settles, Decisions
  <2>2. /\ j \in Papers /\ (i # j => items'[i] = items[i]) /\ items'[j].status = calls[c].args.to
    BY <2>1, AfterSettled
  <2>3. calls[c].args.to # "pending"
    BY <2>1 DEF Fitting, ArgsFit, Decisions
  <2>4. i # j /\ items'[i] = items[i]
    BY <2>2, <2>3
  <2>5. items[i].by \in People /\ sellers[items[i].by] = NoSeller
    BY <1>0, <2>4, ItemFields DEF Waiting, ItemRow
  <2>6. CASE calls[c].op = "decide"
    <3>1. items[j].status = "pending"
      BY <1>1, <2>6 DEF Settles
    <3>2. items[j].by # items[i].by
      BY <2>2, <2>4, <3>1 DEF OneWaits
    <3> QED
      BY <2>4, <2>5, <3>2, SellersStay
  <2>7. CASE calls[c].op # "decide"
    BY <1>1, <2>4, <2>5, <2>7 DEF Settles
  <2> QED
    BY <2>6, <2>7
<1>2. CASE ~Settles(c) /\ items'[i] = items[i]
  <2>1. items[i].by \in People /\ sellers[items[i].by] = NoSeller
    BY <1>0, <1>2, ItemFields DEF Waiting, ItemRow
  <2> QED
    BY <1>2, <2>1, SellersStay
<1>3. CASE ~Settles(c) /\ items'[i] # items[i]
  <2>1. /\ c \in UnderWay /\ calls[c].op = "apply" /\ calls[c].step = "insert"
        /\ UNCHANGED <<sellers, crossed>> /\ items'[i].by = calls[c].by
    BY <1>3, ItemsUnlessSettled
  <2> QED
    BY <2>1 DEF Informed
<1> QED
  BY <1>1, <1>2, <1>3

LEMMA ListedSellKept ==
    ASSUME DeskTypes, Fitting, Informed, ListedSell, NEW c \in Calls, DeskStep(c)
    PROVE  /\ ListedSell' /\ listed' \subseteq People
           /\ \A u \in listed' \ listed : InsertListing(c) /\ c \in UnderWay /\ calls[c].op = "list" /\ calls[c].about = u
<1>1. ASSUME InsertListing(c)
      PROVE  /\ c \in UnderWay /\ calls[c].op = "list" /\ calls[c].about = calls[c].by
             /\ sellers[calls[c].by] # NoSeller /\ calls[c].by \in People
             /\ listed' = listed \cup {calls[c].by}
  <2>1. c \in UnderWay /\ calls[c].op = "list" /\ calls[c].step = "insert"
    BY <1>1, CallFields DEF InsertListing, Is
  <2> QED
    BY <1>1, <2>1, CallFields DEF Informed, DeskCall, InsertListing
<1>2. ASSUME ~InsertListing(c) PROVE listed' = listed
  <2>1. ASSUME NEW op, NEW by, NEW step, NEW about, NEW args, Begins(c, op, by, step, about, args)
        PROVE  listed' = listed
    BY <2>1 DEF Begins, Begin
  <2>2. ASSUME \A op, by, step, about, args : ~Begins(c, op, by, step, about, args)
        PROVE  listed' = listed
    BY <1>2, <2>2 DEF DeskStep, GoesOn, Refused, DeskFrame, Applies, Settles, SetUserStatus, SetSellerStatus,
                      Promotes, BreakOff, Record
  <2> QED
    BY <2>1, <2>2
<1>3. listed' \subseteq People /\ \A u \in listed' : u \in People /\ sellers[u] # NoSeller
  BY <1>1, <1>2 DEF DeskTypes, ListedSell
<1>4. ListedSell'
  BY <1>3, SellersStay DEF ListedSell, NoSeller
<1> QED
  BY <1>1, <1>2, <1>3, <1>4

LEMMA StatusFollowsKept ==
    ASSUME DeskTypes, Fitting, Informed, ListedSell, StatusFollows, NEW c \in Calls, DeskStep(c)
    PROVE  StatusFollows'
<1> SUFFICES ASSUME NEW u \in People, u \notin crossed', users'[u] = "suspended",
                    \A d \in UnderWay' : calls'[d].about = u =>
                        ~(calls'[d].op = "status" /\ calls'[d].step = "sellers"),
                    u \in listed', sellers'[u].status = "active"
             PROVE  FALSE
  BY DEF StatusFollows, Is, Offered
<1>0. crossed \subseteq crossed' /\ u \notin crossed /\ NoSeller.status = "none"
  BY CrossedGrows DEF NoSeller
<1>1. CASE SetUserStatus(c) /\ c \in UnderWay /\ calls[c].about = u
  <2>1. c \in UnderWay' /\ SameCall(calls[c], calls'[c]) /\ calls'[c].step = "sellers" /\ calls[c].op = "status"
    BY <1>1, AfterNow DEF SetUserStatus, Is, DeskSteps
  <2> QED
    BY <1>1, <2>1 DEF SameCall
<1>2. CASE ~(SetUserStatus(c) /\ c \in UnderWay /\ calls[c].about = u)
  <2>1. users[u] = "suspended"
    BY <1>2, UsersAfter
  <2>2. u \in listed
    <3>1. CASE u \notin listed
      <4>1. c \in UnderWay /\ calls[c].op = "list" /\ calls[c].about = u
        BY <3>1, ListedSellKept
      <4>2. users[u] = "active"
        BY <1>0, <4>1 DEF Informed
      <4> QED
        BY <2>1, <4>2
    <3> QED
      BY <3>1
  <2>3. sellers[u] # NoSeller
    BY <2>2 DEF ListedSell
  <2>4. CASE SetSellerStatus(c) /\ calls[c].about = u
    <3>1. c \in UnderWay /\ calls[c].op = "status" /\ calls[c].step = "sellers"
      BY <2>4, CallFields DEF SetSellerStatus, Is
    <3>2. calls[c].args.to = "suspended"
      BY <1>0, <2>1, <2>4, <3>1 DEF Informed
    <3>3. sellers'[u].status = "suspended"
      <4>1. sellers' = [sellers EXCEPT ![u].status = calls[c].args.to]
        BY <2>3, <2>4 DEF SetSellerStatus, SellerAfter
      <4> QED
        BY <3>2, <4>1 DEF DeskTypes, DeskSeller
    <3> QED
      BY <3>3
  <2>5. CASE ~(SetSellerStatus(c) /\ calls[c].about = u)
    <3>1. sellers[u].status = "active"
      BY <2>3, <2>5, SellersStay
    <3>2. PICK d \in UnderWay : calls[d].about = u /\ calls[d].op = "status" /\ calls[d].step = "sellers"
      BY <1>0, <2>1, <2>2, <3>1 DEF StatusFollows, Is, Offered
    <3>3. CASE d # c
      <4>1. \/ UnderWay' = UnderWay \/ UnderWay' = UnderWay \ {c} \/ UnderWay' = UnderWay \cup {c}
        BY DeskTouches
      <4>2. d \in UnderWay' /\ calls'[d] = calls[d]
        BY <3>2, <3>3, <4>1, DeskTouches DEF UnderWay
      <4> QED
        BY <3>2, <4>2
    <3>4. CASE d = c
      <4>1. BreakOff(c)
        BY <2>5, <3>2, <3>4, StaysAtSellers
      <4> QED
        BY <3>2, <3>4, <4>1 DEF BreakOff
    <3> QED
      BY <3>3, <3>4
  <2> QED
    BY <2>4, <2>5
<1> QED
  BY <1>1, <1>2

-----------------------------------------------------------------------------
(* Who is left to undo it *)

ActiveAdmin(u) == roles[u] = "admin" /\ users[u] = "active"

\* Whoever is about to change a role or a status is who he was when he asked.
InOffice(r) ==
    r.op \in Changing /\ r.step \in {"target", "users", "commit"} =>
        /\ r.by \in People /\ users[r.by] = "active" /\ roles[r.by] = r.role
        /\ r.op = "role" => r.role = "admin"
        /\ r.step = "users" => r.about # r.by /\ (roles[r.about] = "admin" => r.role = "admin")

Chief ==
    ~chiefs =>
        /\ \A c, d \in UnderWay : calls[c].op \in Changing /\ calls[d].op \in Changing => c = d
        /\ \A c \in UnderWay : InOffice(calls[c])
        /\ \E u \in People : ActiveAdmin(u)

LEMMA OfficeAfter ==
    ASSUME DeskTypes, NEW c \in Calls, DeskStep(c)
    PROVE  /\ roles' = roles \/ Promotes(c)
           /\ users' = users \/ SetUserStatus(c)
           /\ ~chiefs' => ~chiefs
<1>1. ASSUME NEW op, NEW by, NEW step, NEW about, NEW args, Begins(c, op, by, step, about, args)
      PROVE  roles' = roles /\ users' = users /\ (~chiefs' => ~chiefs)
  <2>1. chiefs' = (chiefs \/ (op \in Changing /\ \E d \in UnderWay : calls[d].op \in Changing))
    BY <1>1 DEF Begins, Begin
  <2>2. roles' = roles /\ users' = users
    BY <1>1 DEF Begins, Begin
  <2> QED
    BY <2>1, <2>2
<1>2. ASSUME \A op, by, step, about, args : ~Begins(c, op, by, step, about, args)
      PROVE  /\ roles' = roles \/ Promotes(c)
             /\ users' = users \/ SetUserStatus(c)
             /\ chiefs' = chiefs
  BY <1>2 DEF DeskStep, GoesOn, Refused, DeskFrame, Applies, Settles, SetUserStatus, SetSellerStatus, Promotes,
              InsertListing, BreakOff, Record
<1> QED
  BY <1>1, <1>2

LEMMA OnlyChange ==
    ASSUME DeskTypes, Chief, ~chiefs, NEW c \in Calls, DeskStep(c), ~chiefs'
    PROVE  \A d, e \in UnderWay' : calls'[d].op \in Changing /\ calls'[e].op \in Changing => d = e
<1> SUFFICES ASSUME NEW d \in UnderWay', d # c, calls'[d].op \in Changing, c \in UnderWay', calls'[c].op \in Changing
             PROVE  FALSE
  <2>1. ASSUME NEW d \in UnderWay', NEW e \in UnderWay', d # c, e # c,
               calls'[d].op \in Changing, calls'[e].op \in Changing
        PROVE  d = e
    BY <2>1, CallsAfter DEF Chief
  <2> QED
    BY <2>1
<1>1. d \in UnderWay /\ calls[d].op \in Changing
  BY CallsAfter
<1>2. CASE c \in UnderWay
  <2>1. calls[c].op \in Changing
    BY <1>2, CallsAfter DEF SameCall
  <2> QED
    BY <1>1, <1>2, <2>1 DEF Chief
<1>3. CASE c \notin UnderWay
  <2>1. Begins(c, calls'[c].op, calls'[c].by, calls'[c].step, calls'[c].about, calls'[c].args)
    BY <1>3, CallsAfter
  <2>2. chiefs' = (chiefs \/ (calls'[c].op \in Changing /\ \E e \in UnderWay : calls[e].op \in Changing))
    BY <2>1 DEF Begins, Begin
  <2> QED
    BY <1>1, <2>2
<1> QED
  BY <1>2, <1>3

LEMMA ChiefKept ==
    ASSUME DeskTypes, Fitting, Chief, NEW c \in Calls, DeskStep(c)
    PROVE  Chief'
<1> SUFFICES ASSUME ~chiefs'
             PROVE  /\ \A d \in UnderWay' : InOffice(calls[d])'
                    /\ \E u \in People : ActiveAdmin(u)'
  <2>1. ~chiefs' => ~chiefs
    BY OfficeAfter
  <2> QED
    BY <2>1, OnlyChange DEF Chief
<1>0. ~chiefs /\ \A d \in UnderWay : InOffice(calls[d])
  BY OfficeAfter DEF Chief
<1>1. CASE roles' = roles /\ users' = users
  <2>1. \E u \in People : ActiveAdmin(u)'
    BY <1>0, <1>1 DEF Chief, ActiveAdmin
  <2>2. ASSUME NEW d \in UnderWay' PROVE InOffice(calls[d])'
    <3> DEFINE q == calls'[d]
    <3>1. CASE d # c /\ d \in UnderWay /\ q = calls[d]
      <4>1. InOffice(calls[d])
        BY <1>0, <3>1
      <4> QED
        BY <1>1, <3>1, <4>1 DEF InOffice
    <3>2. CASE d = c /\ c \in UnderWay /\ SameCall(calls[c], q) /\ GoesOn(c, q.step)
      <4> DEFINE step == q.step
                 r == calls[c]
      <4>1. GoesOn(c, step) /\ InOffice(r) /\ q.op = r.op /\ q.by = r.by /\ q.role = r.role /\ q.about = r.about
        BY <1>0, <3>2 DEF SameCall
      <4> HIDE DEF step
      <4>2. r.op \in Changing /\ step \in {"target", "users", "commit"} =>
                r.op = "status" /\ r.step = "target" /\ Reaches(c)
        BY <4>1 DEF GoesOn, Changing, Decisions
      <4>3. Reaches(c) => r.about # r.by /\ (roles[r.about] = "admin" => r.role = "admin")
        BY DEF Reaches
      <4> HIDE DEF r, q
      <4>4. q.op \in Changing /\ q.step \in {"target", "users", "commit"} =>
                /\ q.by \in People /\ users[q.by] = "active" /\ roles[q.by] = q.role
                /\ q.op = "role" => q.role = "admin"
                /\ q.step = "users" => q.about # q.by /\ (roles[q.about] = "admin" => q.role = "admin")
        BY <4>1, <4>2, <4>3 DEF InOffice, step
      <4> QED
        BY <1>1, <4>4 DEF InOffice, q
    <3>3. CASE d = c /\ c \in UnderWay /\ SameCall(calls[c], q)
               /\ (Settles(c) \/ q.step \in {"sellers", "audit"})
      <4>1. q.op \in Changing => q.step \notin {"target", "users", "commit"}
        BY <3>3 DEF Settles, SameCall, Decisions, Changing
      <4> QED
        BY <4>1 DEF InOffice
    <3>4. CASE d = c /\ Begins(c, q.op, q.by, q.step, q.about, q.args)
      <4>1. /\ q.by \in People /\ users[q.by] = "active" /\ q.role = roles[q.by]
            /\ q.op = "role" => roles[q.by] = "admin"
            /\ q.op \in Changing => q.step # "users"
        <5> DEFINE op == q.op
                   by == q.by
                   step == q.step
                   about == q.about
                   args == q.args
        <5>1. Begins(c, op, by, step, about, args)
          BY <3>4
        <5>2. q.role = roles[by]
          BY <3>4, AfterBegin
        <5> HIDE DEF op, by, step, about, args, q
        <5>3. /\ by \in People /\ users[by] = "active"
              /\ op = "role" => roles[by] = "admin"
              /\ op \in Changing => step # "users"
          BY <5>1 DEF Begins, Begin, Decisions, Changing
        <5> QED
          BY <5>2, <5>3 DEF op, by, step
      <4> QED
        BY <1>1, <4>1 DEF InOffice
    <3> QED
      BY <3>1, <3>2, <3>3, <3>4, CallsAfter
  <2> QED
    BY <2>1, <2>2
<1>2. CASE SetUserStatus(c) \/ Promotes(c)
  <2> DEFINE r == calls[c]
  <2>1. /\ c \in UnderWay /\ r.op \in Changing /\ r.step \in {"users", "commit"}
        /\ (SetUserStatus(c) => r.step = "users") /\ (Promotes(c) => r.op = "role" /\ r.about # r.by)
    BY <1>2, CallFields DEF SetUserStatus, Promotes, Is, Changing
  <2>2. /\ r.by \in People /\ r.about \in People /\ users[r.by] = "active" /\ roles[r.by] = r.role
        /\ r.op = "role" => r.role = "admin"
        /\ r.about # r.by /\ (SetUserStatus(c) /\ roles[r.about] = "admin" => r.role = "admin")
    BY <1>0, <1>2, <2>1, CallFields DEF InOffice, DeskCall
  <2>3. PICK step \in {"sellers", "audit"} : NowAt(c, step)
    BY <1>2 DEF SetUserStatus, Promotes
  <2>4. /\ c \in UnderWay' /\ SameCall(r, calls'[c]) /\ calls'[c].step = step
    BY <2>1, <2>3, AfterNow DEF DeskSteps
  <2>5. ASSUME NEW d \in UnderWay', calls'[d].op \in Changing PROVE calls'[d].step \in {"sellers", "audit"}
    <3>1. d = c
      BY <1>0, <2>1, <2>4, <2>5, OnlyChange DEF SameCall
    <3> QED
      BY <2>4, <3>1
  <2>6. \A d \in UnderWay' : InOffice(calls[d])'
    BY <2>5 DEF InOffice
  <2>7. \E u \in People : ActiveAdmin(u)'
    <3>1. PICK w \in People : roles[w] = "admin" /\ users[w] = "active"
      BY <1>0 DEF Chief, ActiveAdmin
    <3>2. CASE SetUserStatus(c)
      <4>1. roles' = roles /\ users' = [users EXCEPT ![r.about] = r.args.to]
        BY <3>2 DEF SetUserStatus
      <4>2. users \in [People -> DeskStatuses]
        BY DEF DeskTypes
      <4> HIDE DEF r
      <4>3. CASE w = r.about
        BY <2>2, <3>1, <3>2, <4>1, <4>2, <4>3 DEF ActiveAdmin
      <4>4. CASE w # r.about
        BY <3>1, <4>1, <4>2, <4>4 DEF ActiveAdmin
      <4> QED
        BY <4>3, <4>4
    <3>3. CASE Promotes(c)
      <4>1. users' = users /\ roles' = [roles EXCEPT ![r.about] = r.args.to]
        BY <3>3 DEF Promotes
      <4>2. roles \in [People -> DeskRoles]
        BY DEF DeskTypes
      <4> HIDE DEF r
      <4> QED
        BY <2>1, <2>2, <3>3, <4>1, <4>2 DEF ActiveAdmin
    <3> QED
      BY <1>2, <3>2, <3>3
  <2> QED
    BY <2>6, <2>7
<1> QED
  BY <1>1, <1>2, OfficeAfter

-----------------------------------------------------------------------------
(* The theorems *)

DeskInv ==
    DeskTypes /\ Fitting /\ Numbered /\ DecidedOnce /\ NamesHold /\ OneWaits /\ Neighbours /\ Chief

LEMMA DeskStarts == DeskInit => DeskInv
<1> SUFFICES ASSUME DeskInit PROVE DeskInv
  OBVIOUS
<1>1. /\ shift \in Shifts /\ roles = shift.roles /\ UnderWay = {} /\ listed = {} /\ users = [u \in People |-> "active"]
      /\ items = [i \in Papers |-> IF i \in DOMAIN shift.filed THEN shift.filed[i] ELSE NoItem]
      /\ sellers = [u \in People |-> IF u \in shift.sellers THEN [name |-> u, status |-> "active"] ELSE NoSeller]
  BY DEF DeskInit, UnderWay
<1>2. ASSUME NEW i \in Papers
      PROVE  \/ items[i] = NoItem
             \/ /\ i \in DOMAIN shift.filed /\ items[i] = shift.filed[i]
                /\ items[i].kind \in DOMAIN FiledAs /\ items[i].by \in People
                /\ items[i].status = FiledAs[items[i].kind] /\ items[i].decisions = {}
                /\ items[i].kind = "application" =>
                       /\ items[i].by \notin shift.sellers
                       /\ \A j \in DOMAIN shift.filed \ {i} :
                              shift.filed[j].kind # "application" \/ shift.filed[j].by # items[i].by
  <2>1. CASE i \in DOMAIN shift.filed
    <3>1. PICK kind \in DOMAIN FiledAs, u \in People, name \in Names :
              /\ shift.filed[i] = Filed(kind, u, name)
              /\ kind = "application" =>
                     u \notin shift.sellers /\ \A j \in DOMAIN shift.filed \ {i} :
                                                  shift.filed[j].kind # "application" \/ shift.filed[j].by # u
      BY <1>1, <2>1, ShiftsAssumption
    <3> QED
      BY <1>1, <2>1, <3>1, FiledFields
  <2>2. CASE i \notin DOMAIN shift.filed
    BY <1>1, <2>2
  <2> QED
    BY <2>1, <2>2
<1>3. NoItem.kind = "none" /\ NoItem.status = "none" /\ NoItem.decisions = {} /\ NoSeller.name = "none"
  BY DEF NoItem, NoSeller
<1>4. ASSUME NEW i \in Papers
      PROVE  /\ items[i].decisions = {}
             /\ items[i].kind \in {"application", "report"} => items[i].status \in Open
             /\ items[i].status # "approved"
             /\ items[i].status = "pending" => items[i].kind = "application" /\ i \in DOMAIN shift.filed
                                               /\ items[i] = shift.filed[i]
  BY <1>2, <1>3 DEF FiledAs, Open
<1>5. DeskTypes /\ Fitting
  BY DeskBegins
<1>6. Numbered
  BY <1>1, <1>4 DEF Numbered
<1>7. DecidedOnce
  BY <1>4 DEF DecidedOnce
<1>8. NamesHold
  <2>1. ASSUME NEW u \in People, NEW v \in People, sellers[u] # NoSeller, sellers[u].name = sellers[v].name
        PROVE  u = v
    <3>1. u # "none"
      BY NamesAssumption
    <3>2. sellers[u].name = u
      BY <1>1, <2>1
    <3>3. sellers[v].name = v \/ sellers[v].name = "none"
      BY <1>1, <1>3
    <3> QED
      BY <2>1, <3>1, <3>2, <3>3
  <2> QED
    BY <1>4, <2>1 DEF NamesHold
<1>9. OneWaits
  <2> SUFFICES ASSUME NEW i \in Papers, NEW j \in Papers, items[i].status = "pending",
                      items[j].status = "pending", items[i].by = items[j].by, i # j
               PROVE  FALSE
    BY DEF OneWaits
  <2>1. /\ items[i].kind = "application" /\ i \in DOMAIN shift.filed
        /\ items[j].kind = "application" /\ j \in DOMAIN shift.filed /\ items[j] = shift.filed[j]
    BY <1>4
  <2>2. items[i] # NoItem
    BY <1>3, <2>1
  <2>3. shift.filed[j].kind # "application" \/ shift.filed[j].by # items[i].by
    BY <1>2, <2>1, <2>2
  <2> QED
    BY <2>1, <2>3
<1>10. Neighbours
  <2>1. Waiting
    <3> SUFFICES ASSUME NEW i \in Papers, items[i].status = "pending"
                 PROVE  sellers[items[i].by] = NoSeller
      BY DEF Waiting
    <3>1. items[i].by \in People /\ items[i].by \notin shift.sellers
      BY <1>2, <1>3, <1>4
    <3> QED
      BY <1>1, <3>1
  <2> QED
    BY <1>1, <2>1 DEF Neighbours, Apart, Informed, ListedSell, StatusFollows, Offered
<1>11. Chief
  <2>1. \E u \in People : roles[u] = "admin"
    BY <1>1, ShiftsAssumption
  <2> QED
    BY <1>1, <2>1 DEF Chief, ActiveAdmin
<1> QED
  BY <1>5, <1>6, <1>7, <1>8, <1>9, <1>10, <1>11 DEF DeskInv

LEMMA DeskGoesOn == DeskInv /\ [DeskNext]_deskVars => DeskInv'
<1> SUFFICES ASSUME DeskInv, [DeskNext]_deskVars PROVE DeskInv'
  OBVIOUS
<1>0. DeskTypes /\ Fitting /\ Numbered /\ DecidedOnce /\ NamesHold /\ OneWaits /\ Neighbours /\ Chief
  BY DEF DeskInv
<1>1. DeskTypes' /\ Fitting' /\ Numbered' /\ DecidedOnce' /\ NamesHold' /\ OneWaits'
  BY <1>0, DeskTyped, NumberedKept, DecidedOnceKept, NamesHoldKept, OneWaitsKept
<1>2. CASE UNCHANGED deskVars
  <2>1. Neighbours'
    BY <1>0, <1>2 DEF deskVars, Neighbours, Apart, Informed, Waiting, ListedSell, StatusFollows, UnderWay, Is,
                      Offered, NoSeller
  <2>2. Chief'
    BY <1>0, <1>2 DEF deskVars, Chief, InOffice, ActiveAdmin, UnderWay
  <2> QED
    BY <1>1, <2>1, <2>2 DEF DeskInv
<1>3. CASE DeskNext
  <2>1. PICK c \in Calls : DeskStep(c)
    BY <1>0, <1>3, DeskKinds
  <2>2. Apart'
    BY <1>0, <1>3, ApartKept DEF Neighbours
  <2>3. Informed'
    BY <1>0, <2>1, InformedKept DEF Neighbours
  <2>4. Waiting'
    BY <1>0, <2>1, WaitingKept DEF Neighbours
  <2>5. ListedSell'
    BY <1>0, <2>1, ListedSellKept DEF Neighbours
  <2>6. StatusFollows'
    BY <1>0, <2>1, StatusFollowsKept DEF Neighbours
  <2>7. Chief'
    BY <1>0, <2>1, ChiefKept
  <2> QED
    BY <1>1, <2>2, <2>3, <2>4, <2>5, <2>6, <2>7 DEF DeskInv, Neighbours
<1> QED
  BY <1>2, <1>3

\* However the requests of staff, applicants and sellers interleave or break off:
\* an application and a report are decided once and on record, the applicant is
\* told, names are unique, and a seller has no application waiting unless two
\* requests of his crossed.  (moderation.ts: decide, resolve, recordAudit;
\* market.ts: seller-applications)
THEOREM DecidedForGood == DeskSpec => []DecisionsStand
<1>1. DeskInv => DecisionsStand
  <2> SUFFICES ASSUME DeskInv PROVE DecisionsStand
    OBVIOUS
  <2>0. Numbered /\ DecidedOnce /\ NamesHold /\ Waiting
    BY DEF DeskInv, Neighbours
  <2>1. UNION {items[i].decisions : i \in Papers} \subseteq records \cup torn \cup {calls[c].n : c \in UnderWay}
    BY <2>0 DEF Numbered
  <2>2. ASSUME NEW i \in Papers, items[i].kind \in {"application", "report"}
        PROVE  Cardinality(items[i].decisions) = (IF items[i].status \in Open THEN 0 ELSE 1)
    <3>1. CASE items[i].status \in Open
      BY <2>0, <2>2, <3>1, FS_EmptySet DEF DecidedOnce
    <3>2. CASE items[i].status \notin Open
      <4>1. PICK n : items[i].decisions = {n}
        BY <2>0, <2>2, <3>2 DEF DecidedOnce
      <4> QED
        BY <3>2, <4>1, FS_Singleton
    <3> QED
      BY <3>1, <3>2
  <2> QED
    BY <2>0, <2>1, <2>2 DEF DecisionsStand, DecidedOnce, NamesHold, Waiting
<1> QED
  BY <1>1, DeskStarts, DeskGoesOn, PTL DEF DeskSpec

\* However they interleave or break off: one active administrator is left unless
\* two changes of roles or statuses overlapped, and what a suspended account
\* lists is not offered unless two requests about it crossed.  (moderation.ts:
\* users/:username/status, users/:username/role; listings.ts: requireSeller)
THEOREM StatusHolds == DeskSpec => []StatusTakesEffect
<1>1. DeskInv => StatusTakesEffect
  <2> SUFFICES ASSUME DeskInv PROVE StatusTakesEffect
    OBVIOUS
  <2>1. AnAdminRemains
    BY DEF DeskInv, Chief, ActiveAdmin, AnAdminRemains
  <2>2. SuspendedSellsNothing
    BY DEF DeskInv, Neighbours, StatusFollows, SuspendedSellsNothing
  <2> QED
    BY <2>1, <2>2 DEF StatusTakesEffect
<1> QED
  BY <1>1, DeskStarts, DeskGoesOn, PTL DEF DeskSpec

-----------------------------------------------------------------------------
(* Backups: commands, files and copies *)

FileName == [second : Nat, n : Nat]
Command ==
    [kind : {"create", "verify", "restore", "drill", "prune"},
     step : {"snapshot", "open", "inspect", "inspecting", "name", "write", "writing",
             "check", "land", "copy", "serve", "list", "each"},
     id : Nat, file : FileName, intact : BOOLEAN, todo : SUBSET FileName, cutoff : Nat]

Live(c) == commands[c] # Stopped

CommandsOk ==
    /\ commands \in [Commands -> {Stopped} \cup Command]
    /\ started \in Nat /\ clock \in Nat /\ sound \in BOOLEAN /\ plan \in Plans
    /\ \A c \in Commands : Live(c) =>
           /\ commands[c].id \in 1..started
           /\ commands[c].kind = "prune" <=> commands[c].step \in {"list", "each"}
    /\ \A c, d \in Commands : Live(c) /\ Live(d) /\ commands[c].id = commands[d].id => c = d

FolderOk ==
    /\ finished \in Nat /\ DOMAIN folder \subseteq FileName /\ IsFiniteSet(DOMAIN folder)
    /\ folder \in [DOMAIN folder -> [at : Nat, whole : BOOLEAN]]

\* A copy in the clear has a number that was given, and is no command's that is
\* not at one of the steps that need one.
CopiesOk ==
    /\ plaintext \subseteq 1..started /\ excused \subseteq 1..started
    /\ \A c \in Commands : Live(c) /\ Id(c) \in plaintext =>
           commands[c].step \in {"snapshot", "inspecting", "serve"}

\* What a prune still means to look at has --keep files after it, although other
\* prunes have been at work since it listed the folder.
FloorBehind ==
    \A c \in Commands : Does(c, "prune", "each") =>
        \A f \in commands[c].todo : Cardinality(Later(f)) >= Keep

\* Until there have been --keep files nothing was ever removed: every backup
\* finished is there, and so is every file that is being written, its writer's own.
Whole == {f \in DOMAIN folder : folder[f].whole}
Saving(c) == Does(c, "create", "writing")
NothingRemoved ==
    /\ finished <= Cardinality(Whole)
    /\ \A c \in Commands : Saving(c) => commands[c].file \in DOMAIN folder \ Whole
    /\ \A c, d \in Commands : Saving(c) /\ Saving(d) /\ commands[c].file = commands[d].file => c = d

BackupsInv ==
    /\ CommandsOk /\ FolderOk /\ CopiesOk /\ FloorBehind
    /\ Cardinality(DOMAIN folder) >= Keep \/ NothingRemoved
    /\ NoPlaintextLeft

-----------------------------------------------------------------------------
(* Backups: the files of the folder *)

LEMMA NamesOrdered ==
    /\ \A f \in FileName : ~Before(f, f)
    /\ \A f, g, h \in FileName : Before(f, g) /\ Before(g, h) => Before(f, h)
BY DEF FileName, Before

LEMMA KeepNat == Keep \in Nat /\ Keep > 0 /\ Days \in Nat
BY RetentionAssumption

LEMMA LaterFinite ==
    ASSUME FolderOk, NEW f \in FileName
    PROVE  /\ IsFiniteSet(Later(f)) /\ Later(f) \subseteq DOMAIN folder
           /\ Cardinality(Later(f)) \in Nat /\ Cardinality(DOMAIN folder) \in Nat
           /\ Cardinality(Later(f)) <= Cardinality(DOMAIN folder)
<1>1. Later(f) \subseteq DOMAIN folder
    BY DEF Later
<1> QED BY <1>1, FS_Subset, FS_CardinalityType DEF FolderOk

\* A file is removed while --keep files come after it: as many come after every
\* other one that is about to be.
LEMMA RemovedBefore ==
    ASSUME FolderOk, NEW h \in DOMAIN folder, Cardinality(Later(h)) >= Keep,
           NEW f \in FileName, Cardinality(Later(f)) >= Keep, FolderOk',
           DOMAIN folder' = DOMAIN folder \ {h}
    PROVE  Cardinality(Later(f)') >= Keep
<1>0. h \in FileName
    BY DEF FolderOk
<1>1. CASE Before(f, h)
    <2>1. Later(h) \subseteq Later(f)'
        BY <1>0, <1>1, NamesOrdered DEF Later, FolderOk
    <2>2. IsFiniteSet(Later(f)') /\ Cardinality(Later(f)') \in Nat
        <3>1. Later(f)' \subseteq DOMAIN folder'
            BY DEF Later
        <3> QED BY <3>1, FS_Subset, FS_CardinalityType DEF FolderOk
    <2>3. Cardinality(Later(h)) <= Cardinality(Later(f)') /\ Cardinality(Later(h)) \in Nat
        BY <1>0, <2>1, <2>2, FS_Subset, LaterFinite
    <2> QED BY <2>2, <2>3, KeepNat
<1>2. CASE ~Before(f, h)
    <2>1. Later(f)' = Later(f)
        BY <1>2 DEF Later
    <2> QED BY <2>1
<1> QED BY <1>1, <1>2

LEMMA RemovedFloor ==
    ASSUME FolderOk, NEW h \in DOMAIN folder, Cardinality(Later(h)) >= Keep, FolderOk',
           DOMAIN folder' = DOMAIN folder \ {h}
    PROVE  Cardinality(DOMAIN folder') >= Keep
<1>0. h \in FileName
    BY DEF FolderOk
<1>1. Later(h) \subseteq DOMAIN folder'
    BY <1>0, NamesOrdered DEF Later
<1>2. Cardinality(Later(h)) <= Cardinality(DOMAIN folder') /\ Cardinality(DOMAIN folder') \in Nat
    BY <1>1, FS_Subset, FS_CardinalityType DEF FolderOk
<1> QED BY <1>0, <1>2, LaterFinite, KeepNat

\* A file that is added, or written to its end, takes nothing from behind another.
LEMMA AddedAfter ==
    ASSUME FolderOk, FolderOk', DOMAIN folder \subseteq DOMAIN folder'
    PROVE  /\ \A f \in FileName : Cardinality(Later(f)) >= Keep => Cardinality(Later(f)') >= Keep
           /\ Cardinality(DOMAIN folder) >= Keep => Cardinality(DOMAIN folder') >= Keep
<1>1. ASSUME NEW f \in FileName
      PROVE  Cardinality(Later(f)) >= Keep => Cardinality(Later(f)') >= Keep
    <2>1. Later(f) \subseteq Later(f)'
        BY DEF Later
    <2>2. IsFiniteSet(Later(f)') /\ Cardinality(Later(f)') \in Nat
        <3>1. Later(f)' \subseteq DOMAIN folder'
            BY DEF Later
        <3> QED BY <3>1, FS_Subset, FS_CardinalityType DEF FolderOk
    <2>3. Cardinality(Later(f)) <= Cardinality(Later(f)') /\ Cardinality(Later(f)) \in Nat
        BY <2>1, <2>2, FS_Subset, LaterFinite
    <2> QED BY <2>2, <2>3, KeepNat
<1>2. /\ Cardinality(DOMAIN folder) <= Cardinality(DOMAIN folder')
      /\ Cardinality(DOMAIN folder) \in Nat /\ Cardinality(DOMAIN folder') \in Nat
    BY FS_Subset, FS_CardinalityType DEF FolderOk
<1> QED BY <1>1, <1>2, KeepNat

LEMMA WholeFinite ==
    ASSUME FolderOk
    PROVE  IsFiniteSet(Whole) /\ Cardinality(Whole) \in Nat /\ Cardinality(Whole) <= Cardinality(DOMAIN folder)
<1>1. Whole \subseteq DOMAIN folder
    BY DEF Whole
<1> QED BY <1>1, FS_Subset, FS_CardinalityType DEF FolderOk

-----------------------------------------------------------------------------
(* Backups: what the steps have in common *)

\* What may become of a command, and of its copy.
Becomes(c, q) ==
    /\ Live(c) /\ q \in {Stopped} \cup Command
    /\ commands' = [commands EXCEPT ![c] = q]
    /\ q # Stopped => /\ q.id = Id(c)
                      /\ q.kind = "prune" <=> q.step \in {"list", "each"}
    /\ plaintext' \ {Id(c)} = plaintext \ {Id(c)} /\ excused \subseteq excused' /\ excused' \subseteq 1..started
    /\ Id(c) \in plaintext' => \/ q # Stopped /\ q.step \in {"snapshot", "inspecting", "serve"}
                               \/ q = Stopped /\ Id(c) \in excused'
    /\ UNCHANGED <<plan, clock, sound, started>>

LEMMA CommandGoes ==
    ASSUME BackupsInv, NEW c \in Commands, NEW q, Becomes(c, q)
    PROVE  CommandsOk' /\ CopiesOk' /\ NoPlaintextLeft'
<1>1. /\ commands' \in [Commands -> {Stopped} \cup Command]
      /\ commands'[c] = q /\ \A d \in Commands \ {c} : commands'[d] = commands[d]
    BY DEF BackupsInv, CommandsOk, Becomes
<1>2. /\ \A d \in Commands : Live(d)' => Live(d) /\ commands'[d].id = Id(d)
      /\ UNCHANGED <<plan, clock, sound, started>>
    BY <1>1 DEF Becomes, Live, Id
<1>3. Id(c) \in 1..started
    BY DEF BackupsInv, CommandsOk, Becomes, Live, Command, Id
<1>4. CommandsOk'
    <2>1. \A d \in Commands : Live(d)' =>
             /\ commands'[d].id \in 1..started
             /\ commands'[d].kind = "prune" <=> commands'[d].step \in {"list", "each"}
        BY <1>1, <1>2 DEF BackupsInv, CommandsOk, Becomes, Live, Id
    <2>2. \A d, e \in Commands : Live(d)' /\ Live(e)' /\ commands'[d].id = commands'[e].id => d = e
        BY <1>2 DEF BackupsInv, CommandsOk, Id
    <2> QED BY <1>1, <1>2, <2>1, <2>2 DEF BackupsInv, CommandsOk
<1>5. CopiesOk'
    <2>1. plaintext' \subseteq plaintext \cup {Id(c)}
        BY DEF Becomes
    <2>2. plaintext' \subseteq 1..started /\ excused' \subseteq 1..started
        BY <1>2, <1>3, <2>1 DEF Becomes, BackupsInv, CopiesOk
    <2>3. ASSUME NEW d \in Commands, Live(d)', Id(d)' \in plaintext'
          PROVE  commands'[d].step \in {"snapshot", "inspecting", "serve"}
        <3>1. CASE d = c
            BY <1>1, <1>2, <2>3, <3>1 DEF Becomes, Live, Id
        <3>2. CASE d # c
            <4>1. Id(d) # Id(c) /\ Live(d) /\ Id(d)' = Id(d)
                BY <1>2, <2>3, <3>2 DEF Becomes, BackupsInv, CommandsOk, Id
            <4>2. Id(d) \in plaintext
                BY <2>1, <2>3, <4>1
            <4> QED BY <1>1, <3>2, <4>1, <4>2 DEF BackupsInv, CopiesOk
        <3> QED BY <3>1, <3>2
    <2> QED BY <1>2, <2>2, <2>3 DEF CopiesOk, Id
<1>6. NoPlaintextLeft'
    <2>1. ASSUME NEW p \in plaintext', p \notin excused'
          PROVE  \E d \in Commands : Live(d)' /\ Id(d)' = p
        <3>1. CASE p = Id(c)
            BY <1>1, <2>1, <3>1 DEF Becomes, Live, Id
        <3>2. CASE p # Id(c)
            <4>1. p \in plaintext /\ p \notin excused
                BY <2>1, <3>2 DEF Becomes
            <4>2. PICK d \in Commands : Live(d) /\ Id(d) = p
                BY <4>1 DEF BackupsInv, NoPlaintextLeft, Live, Id
            <4> QED BY <1>1, <3>2, <4>2 DEF Live, Id
        <3> QED BY <3>1, <3>2
    <2> QED BY <2>1 DEF NoPlaintextLeft, Live, Id
<1> QED BY <1>4, <1>5, <1>6

\* A command that neither opens a file nor holds one open.
LEMMA FolderStill ==
    ASSUME BackupsInv, NEW c \in Commands, NEW q, Becomes(c, q), q.step # "writing",
           q.step = "each" => \A f \in q.todo : Cardinality(Later(f)) >= Keep,
           UNCHANGED <<folder, finished>>
    PROVE  BackupsInv'
<1>1. /\ commands' \in [Commands -> {Stopped} \cup Command]
      /\ commands'[c] = q /\ \A d \in Commands \ {c} : commands'[d] = commands[d]
    BY DEF BackupsInv, CommandsOk, Becomes
<1>2. FolderOk' /\ \A f : Later(f)' = Later(f)
    BY DEF BackupsInv, FolderOk, Later
<1>3. Whole' = Whole
    BY DEF Whole
<1>4. FloorBehind'
    <2>1. ASSUME NEW d \in Commands, Does(d, "prune", "each")', NEW f \in commands'[d].todo
          PROVE  Cardinality(Later(f)') >= Keep
        BY <1>1, <1>2, <2>1 DEF BackupsInv, FloorBehind, Does
    <2> QED BY <2>1 DEF FloorBehind
<1>5. Cardinality(DOMAIN folder') >= Keep \/ NothingRemoved'
    <2>1. \A d \in Commands : Saving(d)' => Saving(d) /\ commands'[d] = commands[d]
        BY <1>1 DEF Saving, Does
    <2> QED BY <1>3, <2>1 DEF BackupsInv, NothingRemoved
<1> QED BY <1>2, <1>4, <1>5, CommandGoes DEF BackupsInv

-----------------------------------------------------------------------------
(* Backups: the steps *)

LEMMA StartStep ==
    ASSUME BackupsInv, NEW c \in Commands, NEW kind \in plan.kinds, Start(c, kind)
    PROVE  BackupsInv'
<1> DEFINE id == started + 1
<1>1. PICK file \in IF kind \in {"create", "prune"} THEN {NoFile} ELSE DOMAIN folder :
          commands' = [commands EXCEPT ![c] =
                          [kind |-> kind, step |-> FirstStep[kind], id |-> started + 1,
                           file |-> file, intact |-> TRUE, todo |-> {}, cutoff |-> 0]]
    BY DEF Start
<1> DEFINE q == [kind |-> kind, step |-> FirstStep[kind], id |-> id,
                 file |-> file, intact |-> TRUE, todo |-> {}, cutoff |-> 0]
<1>2. kind \in {"create", "verify", "restore", "prune", "drill"}
    BY PlansAssumption DEF BackupsInv, CommandsOk
<1>3. file \in FileName
    BY DEF NoFile, FileName, BackupsInv, FolderOk
<1>4. started \in Nat /\ id \in 1..id /\ started' = id
    BY DEF BackupsInv, CommandsOk, Start
<1>5. /\ FirstStep[kind] = CASE kind = "create" -> "snapshot" [] kind = "prune" -> "list" [] OTHER -> "open"
    BY <1>2 DEF FirstStep
<1>6. /\ q \in Command /\ q # Stopped /\ (q.kind = "prune" <=> q.step \in {"list", "each"})
      /\ q.step \notin {"each", "writing"} /\ q.id = id /\ (kind = "create" => q.step = "snapshot")
    BY <1>2, <1>3, <1>4, <1>5 DEF Command, Stopped
<1>7. commands' = [commands EXCEPT ![c] = q]
    BY <1>1
<1> HIDE DEF q
<1>8. /\ commands' \in [Commands -> {Stopped} \cup Command]
      /\ commands'[c] = q /\ \A d \in Commands \ {c} : commands'[d] = commands[d]
    BY <1>6, <1>7 DEF BackupsInv, CommandsOk
<1>9. /\ commands[c] = Stopped
      /\ UNCHANGED <<plan, clock, sound, folder, excused, finished>>
      /\ plaintext' \subseteq plaintext \cup {id} /\ (id \in plaintext' /\ id \notin plaintext => kind = "create")
    BY DEF Start
<1>10. \A d \in Commands \ {c} : Live(d)' <=> Live(d)
    BY <1>8 DEF Live
<1>11. CommandsOk'
    <2>1. \A d \in Commands : Live(d)' =>
              /\ commands'[d].id \in 1..started'
              /\ commands'[d].kind = "prune" <=> commands'[d].step \in {"list", "each"}
        BY <1>4, <1>6, <1>8, <1>10 DEF BackupsInv, CommandsOk
    <2>2. \A d \in Commands \ {c} : Live(d)' => commands'[d].id # commands'[c].id
        BY <1>4, <1>6, <1>8, <1>10 DEF BackupsInv, CommandsOk
    <2>3. \A d, e \in Commands : Live(d)' /\ Live(e)' /\ commands'[d].id = commands'[e].id => d = e
        BY <2>2, <1>8, <1>10 DEF BackupsInv, CommandsOk
    <2>4. clock' \in Nat /\ sound' \in BOOLEAN /\ plan' \in Plans /\ started' \in Nat
        BY <1>4, <1>9 DEF BackupsInv, CommandsOk
    <2> QED BY <1>8, <2>1, <2>3, <2>4 DEF CommandsOk
<1>12. CopiesOk'
    <2>1. plaintext' \subseteq 1..started' /\ excused' \subseteq 1..started' /\ id \notin plaintext
        BY <1>4, <1>9 DEF BackupsInv, CopiesOk
    <2>2. ASSUME NEW d \in Commands, Live(d)', commands'[d].id \in plaintext'
          PROVE  commands'[d].step \in {"snapshot", "inspecting", "serve"}
        <3>1. CASE d = c
            BY <1>6, <1>8, <1>9, <2>1, <2>2, <3>1
        <3>2. CASE d # c
            <4>1. Live(d) /\ commands'[d] = commands[d] /\ commands[d].id # id
                BY <1>4, <1>8, <1>10, <2>2, <3>2 DEF BackupsInv, CommandsOk
            <4> QED BY <1>9, <2>2, <4>1 DEF BackupsInv, CopiesOk, Id
        <3> QED BY <3>1, <3>2
    <2> QED BY <2>1, <2>2 DEF CopiesOk, Id
<1>13. NoPlaintextLeft'
    <2>1. ASSUME NEW p \in plaintext', p \notin excused'
          PROVE  \E d \in Commands : Live(d)' /\ Id(d)' = p
        <3>1. CASE p = id
            BY <1>6, <1>8, <3>1 DEF Live, Id
        <3>2. CASE p # id
            <4>1. PICK d \in Commands : Live(d) /\ Id(d) = p
                BY <1>9, <2>1, <3>2 DEF BackupsInv, NoPlaintextLeft, Live, Id
            <4> QED BY <1>8, <1>9, <1>10, <4>1 DEF Live, Id
        <3> QED BY <3>1, <3>2
    <2> QED BY <2>1 DEF NoPlaintextLeft, Live, Id
<1>14. FolderOk' /\ Whole' = Whole /\ \A f : Later(f)' = Later(f)
    BY <1>9 DEF BackupsInv, FolderOk, Later, Whole
<1>15. FloorBehind'
    <2>1. \A d \in Commands : Does(d, "prune", "each")' => Does(d, "prune", "each") /\ commands'[d] = commands[d]
        BY <1>6, <1>8 DEF Does
    <2> QED BY <1>14, <2>1 DEF BackupsInv, FloorBehind
<1>16. Cardinality(DOMAIN folder') >= Keep \/ NothingRemoved'
    <2>1. \A d \in Commands : Saving(d)' => Saving(d) /\ commands'[d] = commands[d]
        BY <1>6, <1>8 DEF Saving, Does
    <2> QED BY <1>9, <1>14, <2>1 DEF BackupsInv, NothingRemoved
<1> QED BY <1>11, <1>12, <1>13, <1>14, <1>15, <1>16 DEF BackupsInv

\* A command that ends after its copy is gone, or excused.
LEMMA ExitStep ==
    ASSUME BackupsInv, NEW c \in Commands, Live(c), Exit(c),
           plaintext' \ {Id(c)} = plaintext \ {Id(c)},
           excused' = excused \/ excused' = excused \cup {Id(c)},
           Id(c) \notin plaintext' \/ Id(c) \in excused',
           UNCHANGED <<plan, clock, sound, started, folder, finished>>
    PROVE  BackupsInv'
<1>1. Id(c) \in 1..started /\ excused \subseteq 1..started
    BY DEF BackupsInv, CommandsOk, CopiesOk, Id
<1>2. Becomes(c, Stopped)
    BY <1>1 DEF Becomes, Exit
<1>3. Stopped.step = "none"
    BY DEF Stopped
<1> QED BY <1>2, <1>3, FolderStill

\* A command that goes on to its next step.
LEMMA OnwardStep ==
    ASSUME BackupsInv, NEW c \in Commands, Live(c), NEW q \in Command,
           commands' = [commands EXCEPT ![c] = q], q.id = Id(c),
           q.kind = "prune" <=> q.step \in {"list", "each"},
           plaintext' \ {Id(c)} = plaintext \ {Id(c)},
           Id(c) \in plaintext' => q.step \in {"snapshot", "inspecting", "serve"},
           q.step # "writing", q.step = "each" => \A f \in q.todo : Cardinality(Later(f)) >= Keep,
           UNCHANGED <<plan, clock, sound, started, excused, folder, finished>>
    PROVE  BackupsInv'
<1>1. q # Stopped
    BY DEF Command, Stopped
<1>2. Becomes(c, q)
    BY <1>1 DEF Becomes, BackupsInv, CopiesOk
<1> QED BY <1>2, FolderStill

LEMMA CommandAt ==
    ASSUME BackupsInv, NEW c \in Commands, commands[c].step # "none"
    PROVE  Live(c) /\ commands[c] \in Command /\ (commands[c].kind = "prune" <=> commands[c].step \in {"list", "each"})
BY DEF BackupsInv, CommandsOk, Live, Stopped

LEMMA SnapshotStep ==
    ASSUME BackupsInv, NEW c \in Commands, Snapshot(c)
    PROVE  BackupsInv'
<1>1. Live(c) /\ commands[c] \in Command /\ Does(c, "create", "snapshot")
    BY CommandAt DEF Snapshot, Does
<1> DEFINE q == [commands[c] EXCEPT !.step = "inspect", !.intact = sound]
<1>2. q \in Command /\ q.id = Id(c) /\ q.kind = "create" /\ q.step = "inspect"
    BY <1>1 DEF Command, Does, Id, BackupsInv, CommandsOk
<1>3. commands' = [commands EXCEPT ![c] = q]
    BY DEF Snapshot
<1> HIDE DEF q
<1> QED BY <1>1, <1>2, <1>3, OnwardStep DEF Snapshot, Deleted

LEMMA BeginInspectStep ==
    ASSUME BackupsInv, NEW c \in Commands, BeginInspect(c)
    PROVE  BackupsInv'
<1>1. Live(c) /\ commands[c] \in Command /\ commands[c].kind # "prune"
    BY CommandAt DEF BeginInspect
<1> DEFINE q == [commands[c] EXCEPT !.step = "inspecting"]
<1>2. q \in Command /\ q.id = Id(c) /\ q.kind # "prune" /\ q.step = "inspecting"
    BY <1>1 DEF Command, Id
<1>3. commands' = [commands EXCEPT ![c] = q]
    BY DEF BeginInspect, Step
<1> HIDE DEF q
<1> QED BY <1>1, <1>2, <1>3, OnwardStep DEF BeginInspect, InClear

LEMMA InspectedStep ==
    ASSUME BackupsInv, NEW c \in Commands, Inspected(c)
    PROVE  BackupsInv'
<1>1. Live(c) /\ commands[c] \in Command /\ commands[c].kind # "prune"
    BY CommandAt DEF Inspected
<1>2. CASE ~commands[c].intact
    <2>1. Exit(c) /\ excused' = Leaves(c) /\ UNCHANGED <<plan, clock, sound, folder, plaintext, started, finished>>
        BY <1>2 DEF Inspected
    <2> QED BY <1>1, <2>1, ExitStep DEF Leaves
<1>3. CASE commands[c].intact /\ commands[c].kind = "verify"
    <2>1. Exit(c) /\ plaintext' = Deleted(c) /\ UNCHANGED <<plan, clock, sound, folder, excused, started, finished>>
        BY <1>3 DEF Inspected
    <2> QED BY <1>1, <2>1, ExitStep DEF Deleted
<1>4. CASE commands[c].intact /\ commands[c].kind # "verify"
    <2> DEFINE q == [commands[c] EXCEPT !.step = AfterInspect[commands[c].kind]]
    <2>1. commands[c].kind \in {"create", "drill", "restore"}
        BY <1>1, <1>4 DEF Command
    <2>2. AfterInspect[commands[c].kind] \in {"name", "copy", "check"}
        BY <2>1 DEF AfterInspect
    <2>3. q \in Command /\ q.id = Id(c) /\ q.kind # "prune" /\ q.step \in {"name", "copy", "check"}
        BY <1>1, <2>2 DEF Command, Id
    <2>4. commands' = [commands EXCEPT ![c] = q]
        BY <1>4 DEF Inspected, Step
    <2> HIDE DEF q
    <2>5. plaintext' = Deleted(c) /\ UNCHANGED <<plan, clock, sound, folder, excused, started, finished>>
        BY <1>4 DEF Inspected
    <2> QED BY <1>1, <2>3, <2>4, <2>5, OnwardStep DEF Deleted
<1> QED BY <1>2, <1>3, <1>4

\* No copy in the clear is kept at the other steps.
LEMMA NoCopy ==
    ASSUME BackupsInv, NEW c \in Commands, Live(c),
           commands[c].step \notin {"snapshot", "inspecting", "serve"}
    PROVE  Id(c) \notin plaintext
BY DEF BackupsInv, CopiesOk

LEMMA ChooseNameStep ==
    ASSUME BackupsInv, NEW c \in Commands, ChooseName(c)
    PROVE  BackupsInv'
<1>1. Live(c) /\ commands[c] \in Command /\ Does(c, "create", "name")
    BY CommandAt DEF ChooseName, Does
<1>2. PICK name \in [second : {clock}, n : 0..started] :
          commands' = [commands EXCEPT ![c].step = "write", ![c].file = name]
    BY DEF ChooseName
<1>3. name \in FileName
    BY DEF BackupsInv, CommandsOk, FileName
<1> DEFINE q == [commands[c] EXCEPT !.step = "write", !.file = name]
<1>4. q \in Command /\ q.id = Id(c) /\ q.kind = "create" /\ q.step = "write"
    BY <1>1, <1>3 DEF Command, Does, Id
<1>5. commands' = [commands EXCEPT ![c] = q]
    BY <1>2
<1> HIDE DEF q
<1>6. Id(c) \notin plaintext
    BY <1>1, NoCopy DEF Does
<1> QED BY <1>1, <1>4, <1>5, <1>6, OnwardStep DEF ChooseName

LEMMA OpenFileStep ==
    ASSUME BackupsInv, NEW c \in Commands, OpenFile(c)
    PROVE  BackupsInv'
<1>1. Live(c) /\ commands[c] \in Command /\ Does(c, "create", "write") /\ Id(c) \notin plaintext
    BY CommandAt, NoCopy DEF OpenFile, Does
<1> DEFINE file == commands[c].file
<1>2. CASE file \in DOMAIN folder
    BY <1>1, <1>2, ExitStep DEF OpenFile
<1>3. CASE file \notin DOMAIN folder
    <2> DEFINE q == [commands[c] EXCEPT !.step = "writing"]
    <2>1. /\ q \in Command /\ q # Stopped /\ q.id = Id(c) /\ q.kind = "create" /\ q.step = "writing"
          /\ q.file = file /\ file \in FileName
        BY <1>1 DEF Command, Does, Id, Stopped
    <2>2. commands' = [commands EXCEPT ![c] = q]
        BY <1>3 DEF OpenFile, Step
    <2> HIDE DEF q
    <2>3. Becomes(c, q)
        BY <1>1, <2>1, <2>2 DEF Becomes, OpenFile, BackupsInv, CopiesOk
    <2>4. CommandsOk' /\ CopiesOk' /\ NoPlaintextLeft'
        BY <2>3, CommandGoes
    <2>5. /\ commands'[c] = q /\ \A d \in Commands \ {c} : commands'[d] = commands[d]
        BY <2>2 DEF BackupsInv, CommandsOk
    <2>6. /\ folder' = [f \in {file} \cup DOMAIN folder |->
                          IF f \in DOMAIN folder THEN folder[f] ELSE [at |-> clock, whole |-> FALSE]]
          /\ finished' = finished
        BY <1>3 DEF OpenFile
    <2>7. FolderOk' /\ DOMAIN folder' = DOMAIN folder \cup {file}
        <3>1. DOMAIN folder' = DOMAIN folder \cup {file}
            BY <2>6
        <3>2. IsFiniteSet(DOMAIN folder')
            BY <3>1, FS_AddElement DEF BackupsInv, FolderOk
        <3>3. [at |-> clock, whole |-> FALSE] \in [at : Nat, whole : BOOLEAN]
            BY DEF BackupsInv, CommandsOk
        <3>4. folder' \in [DOMAIN folder' -> [at : Nat, whole : BOOLEAN]]
            BY <2>6, <3>1, <3>3 DEF BackupsInv, FolderOk
        <3> QED BY <2>1, <2>6, <3>1, <3>2, <3>4 DEF BackupsInv, FolderOk
    <2>8. Whole' = Whole
        BY <1>3, <2>6, <2>7 DEF Whole
    <2>9. FloorBehind'
        <3>1. ASSUME NEW d \in Commands, Does(d, "prune", "each")', NEW f \in commands'[d].todo
              PROVE  Cardinality(Later(f)') >= Keep
            <4>1. Does(d, "prune", "each") /\ f \in commands[d].todo
                BY <2>1, <2>5, <3>1 DEF Does
            <4>2. f \in FileName /\ Cardinality(Later(f)) >= Keep
                BY <4>1 DEF BackupsInv, FloorBehind, CommandsOk, Command, Does, Stopped
            <4> QED BY <2>7, <4>2, AddedAfter DEF BackupsInv
        <3> QED BY <3>1 DEF FloorBehind
    <2>10. Cardinality(DOMAIN folder') >= Keep \/ NothingRemoved'
        <3>1. CASE Cardinality(DOMAIN folder) >= Keep
            BY <2>7, <3>1, AddedAfter DEF BackupsInv
        <3>2. CASE NothingRemoved
            <4>1. \A d \in Commands : Saving(d)' => \/ d = c /\ commands'[d].file = file
                                                    \/ d # c /\ Saving(d) /\ commands'[d].file = commands[d].file
                BY <2>1, <2>5 DEF Saving, Does
            <4>2. \A d \in Commands : Saving(d)' => commands'[d].file \in DOMAIN folder' \ Whole'
                BY <1>3, <2>7, <2>8, <3>2, <4>1 DEF NothingRemoved, Whole
            <4>3. \A d \in Commands : d # c /\ Saving(d)' => commands'[d].file # file
                BY <1>3, <3>2, <4>1 DEF NothingRemoved
            <4>4. \A d, e \in Commands : Saving(d)' /\ Saving(e)' /\ commands'[d].file = commands'[e].file => d = e
                BY <3>2, <4>1, <4>3 DEF NothingRemoved
            <4> QED BY <2>6, <2>8, <3>2, <4>2, <4>4 DEF NothingRemoved
        <3> QED BY <3>1, <3>2 DEF BackupsInv
    <2> QED BY <2>4, <2>7, <2>9, <2>10 DEF BackupsInv
<1> QED BY <1>2, <1>3

LEMMA WriteFileStep ==
    ASSUME BackupsInv, NEW c \in Commands, WriteFile(c)
    PROVE  BackupsInv'
<1>1. Live(c) /\ commands[c] \in Command /\ Saving(c) /\ Id(c) \notin plaintext
    BY CommandAt, NoCopy DEF WriteFile, Does, Saving
<1> DEFINE file == commands[c].file
<1>2. CASE file \notin DOMAIN folder
    BY <1>1, <1>2, ExitStep DEF WriteFile
<1>3. CASE file \in DOMAIN folder
    <2>1. Becomes(c, Stopped)
        BY <1>1 DEF Becomes, WriteFile, Exit, BackupsInv, CopiesOk
    <2>2. CommandsOk' /\ CopiesOk' /\ NoPlaintextLeft'
        BY <2>1, CommandGoes
    <2>3. commands'[c] = Stopped /\ \A d \in Commands \ {c} : commands'[d] = commands[d]
        BY DEF BackupsInv, CommandsOk, WriteFile, Exit
    <2>4. folder' = [folder EXCEPT ![file] = [at |-> clock, whole |-> TRUE]] /\ finished' = finished + 1
        BY <1>3 DEF WriteFile
    <2>5. FolderOk' /\ DOMAIN folder' = DOMAIN folder
        <3>1. [at |-> clock, whole |-> TRUE] \in [at : Nat, whole : BOOLEAN]
            BY DEF BackupsInv, CommandsOk
        <3>2. finished' \in Nat
            BY <2>4 DEF BackupsInv, FolderOk
        <3>3. DOMAIN folder' = DOMAIN folder
            BY <2>4
        <3>4. folder' \in [DOMAIN folder' -> [at : Nat, whole : BOOLEAN]]
            BY <1>3, <2>4, <3>1, <3>3 DEF BackupsInv, FolderOk
        <3> QED BY <3>2, <3>3, <3>4 DEF BackupsInv, FolderOk
    <2>6. Whole' = Whole \cup {file}
        BY <1>3, <2>4, <2>5 DEF Whole, BackupsInv, FolderOk
    <2>7. FloorBehind'
        <3>1. ASSUME NEW d \in Commands, Does(d, "prune", "each")', NEW f \in commands'[d].todo
              PROVE  Cardinality(Later(f)') >= Keep
            <4>1. Does(d, "prune", "each") /\ f \in commands[d].todo
                BY <2>3, <3>1 DEF Does, Stopped
            <4>2. Later(f)' = Later(f)
                BY <2>5 DEF Later
            <4> QED BY <4>1, <4>2 DEF BackupsInv, FloorBehind
        <3> QED BY <3>1 DEF FloorBehind
    <2>8. Cardinality(DOMAIN folder') >= Keep \/ NothingRemoved'
        <3>1. CASE Cardinality(DOMAIN folder) >= Keep
            BY <2>5, <3>1
        <3>2. CASE NothingRemoved
            <4>1. \A d \in Commands : Saving(d)' => d # c /\ Saving(d) /\ commands'[d].file = commands[d].file
                BY <2>3 DEF Saving, Does, Stopped
            <4>2. file \notin Whole
                BY <1>1, <3>2 DEF NothingRemoved
            <4>3. Cardinality(Whole') = Cardinality(Whole) + 1 /\ Cardinality(Whole) \in Nat
                BY <2>6, <4>2, WholeFinite, FS_AddElement DEF BackupsInv
            <4>4. finished' <= Cardinality(Whole')
                BY <2>4, <3>2, <4>3 DEF NothingRemoved, BackupsInv, FolderOk
            <4>5. \A d \in Commands : Saving(d)' => commands'[d].file \in DOMAIN folder' \ Whole'
                BY <1>1, <2>5, <2>6, <3>2, <4>1 DEF NothingRemoved
            <4>6. \A d, e \in Commands : Saving(d)' /\ Saving(e)' /\ commands'[d].file = commands'[e].file => d = e
                BY <3>2, <4>1 DEF NothingRemoved
            <4> QED BY <4>4, <4>5, <4>6 DEF NothingRemoved
        <3> QED BY <3>1, <3>2 DEF BackupsInv
    <2> QED BY <2>2, <2>5, <2>7, <2>8 DEF BackupsInv
<1> QED BY <1>2, <1>3

LEMMA DecryptStep ==
    ASSUME BackupsInv, NEW c \in Commands, Decrypt(c)
    PROVE  BackupsInv'
<1>1. Live(c) /\ commands[c] \in Command /\ commands[c].kind # "prune" /\ Id(c) \notin plaintext
    BY CommandAt, NoCopy DEF Decrypt
<1>2. UNCHANGED <<plan, clock, sound, started, excused, folder, finished, plaintext>>
    BY DEF Decrypt
<1>3. CASE Exit(c)
    BY <1>1, <1>2, <1>3, ExitStep
<1>4. CASE Step(c, "inspect")
    <2> DEFINE q == [commands[c] EXCEPT !.step = "inspect"]
    <2>1. q \in Command /\ q.id = Id(c) /\ q.kind # "prune" /\ q.step = "inspect"
        BY <1>1 DEF Command, Id
    <2>2. commands' = [commands EXCEPT ![c] = q]
        BY <1>4 DEF Step
    <2> HIDE DEF q
    <2> QED BY <1>1, <1>2, <2>1, <2>2, OnwardStep
<1> QED BY <1>3, <1>4 DEF Decrypt

LEMMA CheckTargetStep ==
    ASSUME BackupsInv, NEW c \in Commands, CheckTarget(c)
    PROVE  BackupsInv'
<1>1. Live(c) /\ commands[c] \in Command /\ commands[c].kind = "restore" /\ Id(c) \notin plaintext
    BY CommandAt, NoCopy DEF CheckTarget, Does
<1>2. UNCHANGED <<plan, clock, sound, started, excused, folder, finished, plaintext>>
    BY DEF CheckTarget
<1>3. CASE Exit(c)
    BY <1>1, <1>2, <1>3, ExitStep
<1>4. CASE Step(c, "land")
    <2> DEFINE q == [commands[c] EXCEPT !.step = "land"]
    <2>1. q \in Command /\ q.id = Id(c) /\ q.kind = "restore" /\ q.step = "land"
        BY <1>1 DEF Command, Id
    <2>2. commands' = [commands EXCEPT ![c] = q]
        BY <1>4 DEF Step
    <2> HIDE DEF q
    <2> QED BY <1>1, <1>2, <2>1, <2>2, OnwardStep
<1> QED BY <1>3, <1>4 DEF CheckTarget

LEMMA CopyForDrillStep ==
    ASSUME BackupsInv, NEW c \in Commands, CopyForDrill(c)
    PROVE  BackupsInv'
<1>1. Live(c) /\ commands[c] \in Command /\ commands[c].kind = "drill"
    BY CommandAt DEF CopyForDrill, Does
<1> DEFINE q == [commands[c] EXCEPT !.step = "serve"]
<1>2. q \in Command /\ q.id = Id(c) /\ q.kind = "drill" /\ q.step = "serve"
    BY <1>1 DEF Command, Id
<1>3. commands' = [commands EXCEPT ![c] = q]
    BY DEF CopyForDrill, Step
<1> HIDE DEF q
<1> QED BY <1>1, <1>2, <1>3, OnwardStep DEF CopyForDrill

LEMMA ListFolderStep ==
    ASSUME BackupsInv, NEW c \in Commands, ListFolder(c)
    PROVE  BackupsInv'
<1>1. Live(c) /\ commands[c] \in Command /\ commands[c].kind = "prune" /\ Id(c) \notin plaintext
    BY CommandAt, NoCopy DEF ListFolder, Does
<1> DEFINE q == [commands[c] EXCEPT !.step = "each", !.todo = Removable, !.cutoff = clock]
<1>2. Removable \in SUBSET FileName /\ clock \in Nat
    BY DEF Removable, BackupsInv, FolderOk, CommandsOk
<1>3. q \in Command /\ q.id = Id(c) /\ q.kind = "prune" /\ q.step = "each" /\ q.todo = Removable
    BY <1>1, <1>2 DEF Command, Id
<1>4. commands' = [commands EXCEPT ![c] = q]
    BY DEF ListFolder
<1> HIDE DEF q
<1>5. \A f \in q.todo : Cardinality(Later(f)) >= Keep
    BY <1>3 DEF Removable
<1> QED BY <1>1, <1>3, <1>4, <1>5, OnwardStep DEF ListFolder

LEMMA PruneOneStep ==
    ASSUME BackupsInv, NEW c \in Commands, PruneOne(c)
    PROVE  BackupsInv'
<1>1. Live(c) /\ commands[c] \in Command /\ Does(c, "prune", "each") /\ Id(c) \notin plaintext
    BY CommandAt, NoCopy DEF PruneOne, Does
<1>2. UNCHANGED <<plan, clock, sound, started, excused, finished, plaintext>>
    BY DEF PruneOne
<1>3. CASE Exit(c) /\ UNCHANGED folder
    BY <1>1, <1>2, <1>3, ExitStep
<1>4. ASSUME NEW name \in commands[c].todo, name \in DOMAIN folder,
             commands' = [commands EXCEPT ![c].todo = @ \ {name}],
             folder' = IF folder[name].at + Days >= commands[c].cutoff THEN folder
                       ELSE [f \in DOMAIN folder \ {name} |-> folder[f]]
      PROVE  BackupsInv'
    <2> DEFINE q == [commands[c] EXCEPT !.todo = @ \ {name}]
    <2>1. q \in Command /\ q.id = Id(c) /\ q.kind = "prune" /\ q.step = "each" /\ q.todo \subseteq commands[c].todo
        BY <1>1 DEF Command, Id, Does
    <2>2. commands' = [commands EXCEPT ![c] = q]
        BY <1>4
    <2> HIDE DEF q
    <2>3. \A f \in q.todo : Cardinality(Later(f)) >= Keep
        BY <1>1, <2>1 DEF BackupsInv, FloorBehind
    <2>4. CASE folder' = folder
        BY <1>1, <1>2, <2>1, <2>2, <2>3, <2>4, OnwardStep
    <2>5. CASE folder' = [f \in DOMAIN folder \ {name} |-> folder[f]]
        <3>1. q # Stopped
            BY <2>1 DEF Command, Stopped
        <3>2. Becomes(c, q)
            BY <1>1, <1>2, <2>1, <2>2, <3>1 DEF Becomes, BackupsInv, CopiesOk
        <3>3. CommandsOk' /\ CopiesOk' /\ NoPlaintextLeft'
            BY <3>2, CommandGoes
        <3>4. commands'[c] = q /\ \A d \in Commands \ {c} : commands'[d] = commands[d]
            BY <2>2 DEF BackupsInv, CommandsOk
        <3>5. DOMAIN folder' = DOMAIN folder \ {name}
            BY <2>5
        <3>6. FolderOk'
            <4>1. IsFiniteSet(DOMAIN folder')
                BY <3>5, FS_Subset DEF BackupsInv, FolderOk
            <4>2. folder' \in [DOMAIN folder' -> [at : Nat, whole : BOOLEAN]]
                BY <2>5, <3>5 DEF BackupsInv, FolderOk
            <4> QED BY <1>2, <3>5, <4>1, <4>2 DEF BackupsInv, FolderOk
        <3>7. Cardinality(Later(name)) >= Keep
            BY <1>1 DEF BackupsInv, FloorBehind
        <3>8. FloorBehind'
            <4>1. ASSUME NEW d \in Commands, Does(d, "prune", "each")', NEW f \in commands'[d].todo
                  PROVE  Cardinality(Later(f)') >= Keep
                <5>1. Does(d, "prune", "each") /\ f \in commands[d].todo
                    BY <1>1, <2>1, <3>4, <4>1 DEF Does
                <5>2. f \in FileName /\ Cardinality(Later(f)) >= Keep
                    BY <5>1 DEF BackupsInv, FloorBehind, CommandsOk, Command, Does, Stopped
                <5> QED BY <1>4, <3>5, <3>6, <3>7, <5>2, RemovedBefore DEF BackupsInv
            <4> QED BY <4>1 DEF FloorBehind
        <3>9. Cardinality(DOMAIN folder') >= Keep
            BY <1>4, <3>5, <3>6, <3>7, RemovedFloor DEF BackupsInv
        <3> QED BY <3>3, <3>6, <3>8, <3>9 DEF BackupsInv
    <2> QED BY <1>4, <2>4, <2>5
<1> QED BY <1>3, <1>4 DEF PruneOne, First

LEMMA LastStep ==
    ASSUME BackupsInv, NEW c \in Commands,
           Land(c) \/ ServiceDrilled(c) \/ PruneDone(c) \/ Kill(c) \/ DiskFull(c) \/ DropRefused(c)
    PROVE  BackupsInv'
<1>1. CASE Land(c)
    <2>1. Live(c) /\ Id(c) \notin plaintext
        BY <1>1, CommandAt, NoCopy DEF Land, Does
    <2> QED BY <1>1, <2>1, ExitStep DEF Land
<1>2. CASE ServiceDrilled(c)
    <2>1. Live(c)
        BY <1>2, CommandAt DEF ServiceDrilled, Does
    <2> QED BY <1>2, <2>1, ExitStep DEF ServiceDrilled, Deleted
<1>3. CASE PruneDone(c)
    <2>1. Live(c) /\ Id(c) \notin plaintext
        BY <1>3, CommandAt, NoCopy DEF PruneDone, Does
    <2> QED BY <1>3, <2>1, ExitStep DEF PruneDone
<1>4. CASE Kill(c)
    <2>1. Live(c)
        BY <1>4 DEF Kill, Live
    <2> QED BY <1>4, <2>1, ExitStep DEF Kill, Leaves
<1>5. CASE DiskFull(c)
    <2>1. Live(c)
        BY <1>5, CommandAt DEF DiskFull
    <2> QED BY <1>5, <2>1, ExitStep DEF DiskFull
<1>6. CASE DropRefused(c)
    <2>1. Live(c)
        BY <1>6, CommandAt DEF DropRefused, Does
    <2> QED BY <1>6, <2>1, ExitStep DEF DropRefused, Leaves
<1> QED BY <1>1, <1>2, <1>3, <1>4, <1>5, <1>6

LEMMA NobodyStep ==
    ASSUME BackupsInv, BootTarget \/ Damage \/ Tomorrow \/ UNCHANGED backupVars
    PROVE  BackupsInv'
<1>1. UNCHANGED <<plan, folder, plaintext, excused, commands, started, finished>>
    BY DEF BootTarget, Damage, Tomorrow, backupVars
<1>2. clock' \in Nat /\ sound' \in BOOLEAN
    <2>1. clock \in Nat /\ sound \in BOOLEAN
        BY DEF BackupsInv, CommandsOk
    <2>2. clock' \in {clock, clock + 1} /\ sound' \in {sound, FALSE}
        BY DEF BootTarget, Damage, Tomorrow, backupVars
    <2>3. clock + 1 \in Nat
        BY <2>1
    <2>4. clock' \in Nat
        BY <2>1, <2>2, <2>3
    <2>5. sound' \in BOOLEAN
        BY <2>1, <2>2, Zenon
    <2> QED BY <2>4, <2>5
<1>3. CommandsOk' /\ CopiesOk' /\ NoPlaintextLeft'
    BY <1>1, <1>2 DEF BackupsInv, CommandsOk, CopiesOk, NoPlaintextLeft, Live, Id
<1>4. FolderOk' /\ FloorBehind'
    BY <1>1 DEF BackupsInv, FolderOk, FloorBehind, Does, Later
<1>5. Cardinality(DOMAIN folder') >= Keep \/ NothingRemoved'
    BY <1>1 DEF BackupsInv, NothingRemoved, Whole, Saving, Does
<1> QED BY <1>3, <1>4, <1>5 DEF BackupsInv

LEMMA BackupsBegin == BackupInit => BackupsInv
<1> SUFFICES ASSUME BackupInit PROVE BackupsInv
    OBVIOUS
<1>1. DOMAIN folder = {} /\ IsFiniteSet(DOMAIN folder) /\ Whole = {} /\ Cardinality(Whole) = 0
    BY FS_EmptySet DEF BackupInit, Whole
<1>2. \A c \in Commands : commands[c] = Stopped
    BY DEF BackupInit
<1>3. CommandsOk /\ CopiesOk /\ NoPlaintextLeft
    BY <1>2 DEF BackupInit, CommandsOk, CopiesOk, NoPlaintextLeft, Live
<1>4. FolderOk
    BY <1>1 DEF BackupInit, FolderOk
<1>5. FloorBehind /\ NothingRemoved
    BY <1>1, <1>2 DEF BackupInit, FloorBehind, NothingRemoved, Saving, Does, Stopped
<1> QED BY <1>3, <1>4, <1>5 DEF BackupsInv

LEMMA BackupsStep == BackupsInv /\ [BackupNext]_backupVars => BackupsInv'
<1> SUFFICES ASSUME BackupsInv, [BackupNext]_backupVars PROVE BackupsInv'
    OBVIOUS
<1>1. ASSUME NEW c \in Commands, NEW kind \in plan.kinds, Start(c, kind)
      PROVE  BackupsInv'
    BY <1>1, StartStep
<1>2. ASSUME NEW c \in Commands, Snapshot(c) \/ BeginInspect(c) \/ Inspected(c) \/ ChooseName(c)
      PROVE  BackupsInv'
    BY <1>2, SnapshotStep, BeginInspectStep, InspectedStep, ChooseNameStep
<1>3. ASSUME NEW c \in Commands, OpenFile(c) \/ WriteFile(c) \/ Decrypt(c) \/ CheckTarget(c)
      PROVE  BackupsInv'
    BY <1>3, OpenFileStep, WriteFileStep, DecryptStep, CheckTargetStep
<1>4. ASSUME NEW c \in Commands, CopyForDrill(c) \/ ListFolder(c) \/ PruneOne(c)
      PROVE  BackupsInv'
    BY <1>4, CopyForDrillStep, ListFolderStep, PruneOneStep
<1>5. ASSUME NEW c \in Commands,
             Land(c) \/ ServiceDrilled(c) \/ PruneDone(c) \/ Kill(c) \/ DiskFull(c) \/ DropRefused(c)
      PROVE  BackupsInv'
    BY <1>5, LastStep
<1>6. ASSUME BootTarget \/ Damage \/ Tomorrow \/ UNCHANGED backupVars
      PROVE  BackupsInv'
    BY <1>6, NobodyStep
<1> QED BY <1>1, <1>2, <1>3, <1>4, <1>5, <1>6 DEF BackupNext

\* Whatever is started, overlaps, is killed or fails, --keep backups stay once
\* there have been as many, and a copy of the database in the clear outlives its
\* command only if something the scripts cannot clean up after happened to it.
\* (pruneBackups, and every `finally` of backup.mjs and backup-postgres.mjs)
THEOREM BackupsStay == BackupSpec => []BackupsAreKept
<1>1. ASSUME BackupsInv PROVE BackupsAreKept
    <2>1. CASE Cardinality(DOMAIN folder) >= Keep
        <3>1. Cardinality(DOMAIN folder) \in Nat
            BY <1>1, FS_CardinalityType DEF BackupsInv, FolderOk
        <3>2. RetentionFloor
            BY <1>1, <2>1, <3>1, KeepNat DEF RetentionFloor, BackupsInv, FolderOk
        <3> QED BY <1>1, <3>2 DEF BackupsInv, BackupsAreKept
    <2>2. CASE NothingRemoved
        <3>1. Cardinality(Whole) <= Cardinality(DOMAIN folder) /\ Cardinality(Whole) \in Nat
            BY <1>1, WholeFinite DEF BackupsInv
        <3>2. Cardinality(DOMAIN folder) \in Nat
            BY <1>1, FS_CardinalityType DEF BackupsInv, FolderOk
        <3>3. RetentionFloor
            BY <1>1, <2>2, <3>1, <3>2, KeepNat DEF RetentionFloor, NothingRemoved, BackupsInv, FolderOk
        <3> QED BY <1>1, <3>3 DEF BackupsInv, BackupsAreKept
    <2> QED BY <1>1, <2>1, <2>2 DEF BackupsInv
<1> QED BY <1>1, BackupsBegin, BackupsStep, PTL DEF BackupSpec

=============================================================================
