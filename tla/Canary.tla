------------------------------- MODULE Canary -------------------------------
(***************************************************************************)
(* The signed statement an operator refreshes, as visitors see it.         *)
(*                                                                         *)
(* Code: src/server/lib/canary.ts, routes/canary.ts.                       *)
(*                                                                         *)
(* A statement is the days it was signed for and is due again, and the key *)
(* that signed it; a signature cannot be made without the key.  Statements *)
(* once signed are handed in at any later time, and again; several         *)
(* administrators may publish at once.  Day is the server's clock.         *)
(***************************************************************************)
EXTENDS Naturals, FiniteSets

CONSTANTS
    Admins,          \* administrators who may publish at the same time
    Keys, Pinned,    \* PGP keys, and the one CANARY_FINGERPRINT names
    MaxDay,          \* bound
    MaxAgeDays,      \* MAX_SIGNATURE_AGE_DAYS
    MaxInterval      \* MAX_INTERVAL_DAYS

ASSUME PinnedAssumption == Pinned \in Keys
ASSUME DaysAssumption == {MaxDay, MaxAgeDays, MaxInterval} \subseteq Nat

VARIABLES
    day,
    enrolled,    \* the key on each administrator's account
    statements,  \* canary_statements
    publishing   \* what each administrator's request is at

canaryVars == <<day, enrolled, statements, publishing>>

NotPublishing == [step |-> "idle"]

\* Nothing else can be signed: each names its days and is of one key.
Signatures == [signed : 1..MaxDay, next : 1..(MaxDay + MaxInterval), key : Keys]

CanaryInit ==
    /\ day = 1 /\ statements = {}
    /\ enrolled \in [Admins -> Keys]
    /\ publishing = [a \in Admins |-> NotPublishing]

\* GET /api/canary, and what the next statement has to be newer than:
\* ORDER BY signed_day DESC, published_day DESC; any of several equals.
BugLatestCanary(rows) == {r \in rows : \A o \in rows : o.published <= r.published}
LatestCanary(rows) ==
    {r \in rows : \A o \in rows : \/ o.signed < r.signed
                                  \/ o.signed = r.signed /\ o.published <= r.published}

-----------------------------------------------------------------------------
(* POST /api/admin/canary *)

ReadCanaryDates(s, now) ==
    /\ s.signed <= now /\ now - s.signed <= MaxAgeDays
    /\ s.next > s.signed /\ s.next - s.signed <= MaxInterval

\* The operator signs what the day is, has signed it before, or signs ahead.
\* The administrator's key is read, and the clock; a refusal changes nothing.
BeginPublish(a, s) ==
    /\ publishing[a] = NotPublishing
    /\ enrolled[a] = Pinned /\ ReadCanaryDates(s, day)
    /\ publishing' = [publishing EXCEPT ![a] = [step |-> "check", of |-> s, now |-> day]]
    /\ UNCHANGED <<day, enrolled, statements>>

\* An older statement is correctly signed for ever.  The signature is checked
\* with the key that was read.
NotNewer(s, row) == s.signed <= row.signed

CheckStatement(a) ==
    LET s == publishing[a].of
    IN  /\ publishing[a].step = "check"
        /\ publishing' = [publishing EXCEPT ![a] =
               IF s.key # Pinned \/ \E r \in LatestCanary(statements) : NotNewer(s, r)
               THEN NotPublishing ELSE [@ EXCEPT !.step = "insert"]]
        /\ UNCHANGED <<day, enrolled, statements>>

InsertStatement(a) ==
    LET s == publishing[a].of
    IN  /\ publishing[a].step = "insert"
        /\ statements' = statements \cup
               {[signed |-> s.signed, next |-> s.next, key |-> s.key, published |-> publishing[a].now]}
        /\ publishing' = [publishing EXCEPT ![a] = NotPublishing]
        /\ UNCHANGED <<day, enrolled>>

Enrol(a, key) ==
    /\ enrolled[a] # key
    /\ enrolled' = [enrolled EXCEPT ![a] = key]
    /\ UNCHANGED <<day, statements, publishing>>

Midnight ==
    /\ day < MaxDay /\ day' = day + 1
    /\ UNCHANGED <<enrolled, statements, publishing>>

CanaryNext ==
    \/ \E a \in Admins :
           \/ \E s \in Signatures : BeginPublish(a, s)
           \/ CheckStatement(a) \/ InsertStatement(a)
           \/ \E k \in Keys : Enrol(a, k)
    \/ Midnight

CanarySpec == CanaryInit /\ [][CanaryNext]_canaryVars

-----------------------------------------------------------------------------
(* Properties *)

\* Two administrators may publish in any order, over midnight and while one of
\* them changes his key: what visitors are shown is never older than what they
\* were shown before, and is a statement of the operator's key that was fresh
\* when it was published.  (latestCanary, readCanaryDates, publishCanary)
SilenceShows ==
    [][\A r \in LatestCanary(statements') :
          /\ \A o \in LatestCanary(statements) : o.signed <= r.signed
          /\ r.key = Pinned /\ r.next - r.signed <= MaxInterval
          /\ r.signed \in (r.published - MaxAgeDays)..r.published]_canaryVars

=============================================================================
