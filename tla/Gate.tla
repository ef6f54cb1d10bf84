-------------------------------- MODULE Gate --------------------------------
(***************************************************************************)
(* What every request passes before a handler may do its work: the         *)
(* operator's freeze, the session behind the cookie and its daily rotation,*)
(* the rate-limit buckets, the proof of work of the routes without a       *)
(* session, the floor under free space and the ceiling on stored blobs,    *)
(* and the single-use tokens that post a sealed message.                   *)
(*                                                                         *)
(* Code: src/server/app.ts and lib/{lockdown,sessions,rate_limit,pow,      *)
(* storage,send_tokens,jobs}.ts, scripts/incident.mjs.                     *)
(*                                                                         *)
(* Each of them reads the clock or the database, awaits, and acts on what  *)
(* it read; several requests of one browser are in flight at once, their   *)
(* replies arrive in any order or not at all, and the operator's script is *)
(* another process.  Time is a counter of ticks; a request's `stamp` is    *)
(* the last Date.now() it took.                                            *)
(*                                                                         *)
(* One account, one browser and one session at a time.  The CSRF check     *)
(* only refuses, and Refuse covers it; what the routes do behind the gate  *)
(* is the other modules'.                                                  *)
(***************************************************************************)
EXTENDS Naturals, FiniteSets, Sequences

CONSTANTS
    Requests,        \* requests the server handles at the same time
    Traffics,           \* bound: what one behaviour consists of: the routes used, the
                     \* switches the operator throws, how many requests are
                     \* sent, until when
    MaxTime,         \* bound: the clock
    Patience,        \* ticks within which a request ends (requestTimeout)
    DayTicks,        \* ticks to a day
    CacheTicks,      \* CACHE_MS of lockdown.ts, EPOCH_CACHE_MS
    GraceTicks,      \* ROTATION_GRACE_MS
    LifeTicks,       \* SESSION_TTL
    IdleDays,        \* SESSION_IDLE_DAYS
    Burst, PerTick,  \* a bucket's size and refill
    UploadCost,      \* what one upload spends of its bucket
    PowTicks,        \* POW_TTL_MS
    SpaceTicks,      \* CACHE_MS of storage.ts
    FailuresBeforeUnavailable, \* unanswered probes in a row that are a fault
    MaxRows,         \* MAX_BLOB_ROWS
    CountTicks,      \* COUNT_CACHE_MS
    KeepTicks,       \* how long a blob and a send token live
    MaxDiskChanges,  \* bound: times the disk fills, is freed, stops or answers
    MaxRaises,       \* bound: times the operator revokes all send tokens
    Nil

ASSUME TicksAssumption ==
    /\ {MaxTime, GraceTicks, LifeTicks, IdleDays, Burst, PerTick, PowTicks, MaxRows, CountTicks,
        KeepTicks, MaxRaises, MaxDiskChanges} \subseteq Nat
    /\ {DayTicks, CacheTicks, SpaceTicks, UploadCost, FailuresBeforeUnavailable} \subseteq Nat \ {0}
    /\ Patience \in 1..DayTicks /\ IsFiniteSet(Requests) /\ Nil \notin Nat

\* A bucket nobody used for a day, less the time a request may take, is full
\* again: prune may delete it.  (Of the defaults uploads take longest, an hour.)
ASSUME BucketAssumption == Burst <= PerTick * (DayTicks + 1 - Patience)
ASSUME MixesAssumption ==
    \A m \in Traffics : /\ m.routes \subseteq {"read", "enter", "logout", "upload", "mint", "send"}
                     /\ m.switches \subseteq {"freeze", "revoke", "disk"}
                     /\ m.calls \in Nat /\ m.until \in 0..MaxTime

VARIABLES
    now,       \* the clock
    traffic,       \* the bound this behaviour keeps to
    sent,      \* requests sent so far
    frozen,    \* Nil, or the tick the lockdown row appeared
    engaged,   \* lockdown.ts `cached`
    ignored,   \* the longest a switch had been thrown when it was ignored
    session,   \* the row of `sessions`, or Nil
    cookies,   \* session tokens made so far; a token is its number
    jar,       \* the session cookie the browser holds
    lost,      \* rotated tokens whose reply never reached the browser
    buckets,   \* rate_limits: <<route, day>> -> tokens, updated_at
    spent,     \* what each bucket has been charged, from when to when
    proofs,    \* redeemed challenges that have a row in auth_challenges
    redeemed,  \* challenge -> times it was accepted before it expired
    disk,      \* the data filesystem: `full`, Nil or the tick it filled up,
               \* whether it is `up`, and the bound on its changes
    space,     \* storage.ts `cached`, consecutiveFailures, everAnswered, and
               \* what passed: the longest the disk had been full unnoticed,
               \* and the uploads let past in a row since it last answered
    blobs,     \* expiry of every row of attachments, by upload
    counted,   \* storage.ts `counted`
    admitted,  \* uploads let past the ceiling, stored, and the most of them
               \* that a count had not seen when it was kept
    raises,    \* when send_token_epoch was raised: its length is min_epoch
    floor,     \* send_tokens.ts `cachedEpoch`, and whether it could be read
    tokens,    \* send_tokens, with the epoch the string carries
    requests   \* what each request in flight holds

login    == <<session, cookies, jar, lost>>
limits   == <<buckets, spent>>
work     == <<proofs, redeemed>>
storage  == <<disk, space>>
uploads  == <<storage, blobs, counted, admitted>>
sealed   == <<raises, floor, tokens>>
freeze   == <<frozen, engaged, ignored>>
gateVars == <<now, traffic, sent, freeze, login, limits, work, uploads, sealed, requests>>

-----------------------------------------------------------------------------
(* Requests *)

Day(t) == t \div DayTicks
Unused == [pc |-> "idle"]
Cleared == 0     \* a cookie that ends the one the browser holds

\* A request as the browser sends it: `proof` and `token` are what its body or
\* header carries, `carries` the cookie its reply will set.
Request(route, cookie, proof, token) ==
    [pc |-> "sent", route |-> route, cookie |-> cookie, proof |-> proof,
     token |-> token, user |-> FALSE, began |-> now, stamp |-> now,
     answer |-> <<>>, carries |-> Nil]

GateInit ==
    /\ now = 0 /\ traffic \in Traffics /\ sent = 0
    /\ frozen = Nil /\ engaged = Nil /\ ignored = 0
    /\ session = Nil /\ cookies = 0 /\ jar = Nil /\ lost = {}
    /\ buckets = <<>> /\ spent = <<>>
    /\ proofs = {} /\ redeemed = [p \in 0..MaxTime |-> 0]
    /\ disk = [full |-> Nil, up |-> TRUE, changes |-> 0]
    /\ space = [cached |-> Nil, failures |-> 0, answered |-> FALSE, overlooked |-> 0, blind |-> 0]
    /\ blobs = {} /\ counted = Nil /\ admitted = [past |-> 0, stored |-> 0, unseen |-> 0]
    /\ raises = <<>> /\ floor = Nil /\ tokens = {}
    /\ requests = [c \in Requests |-> Unused]

At(c, pc) == requests[c].pc = pc
Go(c, pc) == requests' = [requests EXCEPT ![c].pc = pc, ![c].stamp = requests[c].began,
                                          ![c].answer = <<>>]
\* The work is over, one way or the other: what is left is the reply.
Reply(c, carries) ==
    requests' = [requests EXCEPT ![c] = [pc |-> "reply", route |-> @.route,
                                         began |-> @.began, carries |-> carries]]
End(c) == Reply(c, requests[c].carries)

Now(c, pc) == requests' = [requests EXCEPT ![c].pc = pc, ![c].stamp = now, ![c].answer = <<>>]

\* An await whose answer the request now holds.
Ask(c, pc, answer) ==
    requests' = [requests EXCEPT ![c].pc = pc, ![c].stamp = now, ![c].answer = answer]

\* A value kept since `at` is reused for `ticks`.
BugFresh(kept, ticks) == kept # Nil
Fresh(kept, ticks) == kept # Nil /\ now < kept.at + ticks

InFlight == {c \in Requests : requests[c] # Unused}

\* Sent with the cookie the browser holds now; a sealed message carries none.
Send(c, route, proof, token) ==
    /\ At(c, "idle") /\ sent < traffic.calls
    /\ (route = "enter") <=> (proof # Nil)
    /\ (route = "send") <=> (token # Nil)
    /\ sent' = sent + 1
    /\ requests' = [requests EXCEPT ![c] =
                       Request(route, IF route \in {"send", "enter"} THEN Nil ELSE jar, proof, token)]
    /\ UNCHANGED <<now, traffic, freeze, login, limits, work, uploads, sealed>>

\* One session a behaviour, begun on its first day by a page that has nothing
\* else under way; the routes one enters by need none.
SignIn ==
    /\ cookies = 0 /\ now < DayTicks /\ InFlight = {} /\ "enter" \notin traffic.routes
    /\ session' = [token |-> cookies + 1, previous |-> Nil, rotatedAt |-> now,
                   day |-> Day(now), expires |-> now + LifeTicks]
    /\ cookies' = cookies + 1
    /\ jar' = cookies + 1
    /\ UNCHANGED <<now, traffic, sent, freeze, lost, limits, work, uploads, sealed, requests>>

\* An error anywhere before the work is done, or a timeout: whatever the hook
\* put in the reply is still sent.
Refuse(c) ==
    /\ requests[c].pc \notin {"idle", "reply"}
    /\ End(c)
    /\ UNCHANGED <<now, traffic, sent, freeze, login, limits, work, uploads, sealed>>

Deliver(c) ==
    LET carried == requests[c].carries
    IN  /\ At(c, "reply")
        /\ jar' = CASE carried = Nil -> jar [] carried = Cleared -> Nil [] OTHER -> carried
        /\ requests' = [requests EXCEPT ![c] = Unused]
        /\ UNCHANGED <<now, traffic, sent, freeze, session, cookies, lost, limits, work, uploads, sealed>>

\* Losing a reply that sets no cookie changes nothing a browser keeps.
LoseReply(c) ==
    LET carried == requests[c].carries
    IN  /\ At(c, "reply")
        /\ carried # Nil
        /\ lost' = lost \cup {carried}
        /\ requests' = [requests EXCEPT ![c] = Unused]
        /\ UNCHANGED <<now, traffic, sent, freeze, session, cookies, jar, limits, work, uploads, sealed>>

-----------------------------------------------------------------------------
(* The freeze (ADR-0080): writes are refused while the row exists *)

Larger(a, b) == IF a > b THEN a ELSE b

\* A kept answer lets a request past a switch thrown at `thrown`.
Ignores(thrown) == ignored' = IF thrown = Nil THEN ignored ELSE Larger(ignored, now - thrown)

Writes(c) == requests[c].route # "read"

ReadsAnyway(c) ==
    /\ At(c, "sent") /\ ~Writes(c)
    /\ Go(c, "cookie")
    /\ UNCHANGED <<now, traffic, sent, freeze, login, limits, work, uploads, sealed>>

\* The answer of an earlier request is reused.
FreezeFromCache(c) ==
    /\ At(c, "sent") /\ Writes(c)
    /\ Fresh(engaged, CacheTicks) /\ ~engaged.on
    /\ Ignores(frozen)
    /\ Go(c, "cookie")
    /\ UNCHANGED <<now, traffic, sent, frozen, engaged, login, limits, work, uploads, sealed>>

AskFreeze(c) ==
    /\ At(c, "sent") /\ Writes(c)
    /\ ~Fresh(engaged, CacheTicks)
    /\ Ask(c, "frozen?", [on |-> frozen # Nil])
    /\ UNCHANGED <<now, traffic, sent, freeze, login, limits, work, uploads, sealed>>

\* Kept with the time of the question, not of the answer.
KeepFreeze(c) ==
    LET on == requests[c].answer.on
    IN  /\ At(c, "frozen?")
        /\ engaged' = [at |-> requests[c].stamp, on |-> on]
        /\ IF on THEN End(c) ELSE Go(c, "cookie")
        /\ UNCHANGED <<now, traffic, sent, frozen, ignored, login, limits, work, uploads, sealed>>

Freeze ==
    /\ "freeze" \in traffic.switches /\ frozen = Nil
    /\ frozen' = now
    /\ UNCHANGED <<now, traffic, sent, engaged, ignored, login, limits, work, uploads, sealed, requests>>

Thaw ==
    /\ frozen # Nil
    /\ frozen' = Nil
    /\ UNCHANGED <<now, traffic, sent, engaged, ignored, login, limits, work, uploads, sealed, requests>>

-----------------------------------------------------------------------------
(* The session behind the cookie *)

\* The token presented is the current one, or was until a moment ago.
Matches(token) ==
    /\ session # Nil
    /\ \/ token = session.token
       \/ token = session.previous /\ session.rotatedAt + GraceTicks > now

Over == session.expires <= now \/ Day(now) > session.day + IdleDays

WithoutSession(c) ==
    /\ At(c, "cookie")
    /\ requests[c].cookie = Nil \/ ~Matches(requests[c].cookie)
    /\ Go(c, "handler")
    /\ UNCHANGED <<now, traffic, sent, freeze, login, limits, work, uploads, sealed>>

\* Past its absolute or its idle expiry: deleted when its cookie shows up.
EndSession(c) ==
    /\ At(c, "cookie") /\ Matches(requests[c].cookie) /\ Over
    /\ session' = Nil
    /\ Go(c, "handler")
    /\ UNCHANGED <<now, traffic, sent, freeze, cookies, jar, lost, limits, work, uploads, sealed>>

\* The first request of a day goes on to rotate the token.
Resolve(c) ==
    /\ At(c, "cookie") /\ Matches(requests[c].cookie) /\ ~Over
    /\ requests' = [requests EXCEPT ![c] =
           IF session.day = Day(now) THEN [@ EXCEPT !.user = TRUE, !.pc = "handler"]
           ELSE [@ EXCEPT !.user = TRUE, !.pc = "rotate", !.stamp = now,
                          !.answer = [day |-> session.day]]]
    /\ UNCHANGED <<now, traffic, sent, freeze, login, limits, work, uploads, sealed>>

\* Compare-and-swap on the hash that was presented (SEC-2026-017).
BugRotates(c) == session # Nil
Rotates(c) ==
    /\ session # Nil
    /\ session.token = requests[c].cookie /\ session.day = requests[c].answer.day

Rotate(c) ==
    LET r == requests[c]
    IN  /\ At(c, "rotate")
        /\ IF Rotates(c)
           THEN /\ session' = [session EXCEPT !.token = cookies + 1, !.previous = r.cookie,
                                              !.rotatedAt = r.stamp, !.day = Day(r.stamp)]
                /\ cookies' = cookies + 1
                /\ requests' = [requests EXCEPT ![c].pc = "handler", ![c].carries = cookies + 1,
                                               ![c].stamp = r.began, ![c].answer = <<>>]
           ELSE Go(c, "handler") /\ UNCHANGED <<session, cookies>>
        /\ UNCHANGED <<now, traffic, sent, freeze, jar, lost, limits, work, uploads, sealed>>

\* DELETE FROM sessions WHERE id: the row the request resolved, whatever its
\* token is by now; the reply clears the cookie.
Logout(c) ==
    /\ At(c, "handler") /\ requests[c].route = "logout" /\ requests[c].user
    /\ session' = Nil
    /\ Reply(c, Cleared)
    /\ UNCHANGED <<now, traffic, sent, freeze, cookies, jar, lost, limits, work, uploads, sealed>>

PruneSessions ==
    /\ session # Nil
    /\ session.expires < now \/ session.day + IdleDays < Day(now)
    /\ session' = Nil
    /\ UNCHANGED <<now, traffic, sent, freeze, cookies, jar, lost, limits, work, uploads, sealed, requests>>

-----------------------------------------------------------------------------
(* Rate limits *)

Cost(route) == IF route = "upload" THEN UploadCost ELSE 1

\* authenticate, and then the time this request will be charged at.
TakeTicket(c) ==
    LET r == requests[c]
    IN  /\ \/ At(c, "worked")
           \/ At(c, "handler") /\ r.route \in {"upload", "mint"} /\ r.user
        /\ Now(c, "limit")
        /\ UNCHANGED <<now, traffic, sent, freeze, login, limits, work, uploads, sealed>>

\* A bucket's level, refilled to `t` and capped at the burst; `t` may lie before
\* the moment the bucket was last written.
Level(bucket, t) ==
    LET refilled == bucket.tokens + PerTick * t
        taken    == PerTick * bucket.updated_at
    IN  IF refilled > Burst + taken THEN Burst
        ELSE IF refilled >= taken THEN refilled - taken ELSE 0

BugCharged(bucket, cost, t) == [bucket EXCEPT !.tokens = Level(bucket, t) - cost]
Charged(bucket, cost, t) == [tokens |-> Level(bucket, t) - cost, updated_at |-> t]

After(c) == CASE requests[c].route = "enter"  -> End(c)
              [] requests[c].route = "upload" -> Go(c, IF "disk" \in traffic.switches THEN "space" ELSE "room")
              [] OTHER                        -> Go(c, "epoch")

\* INSERT ... ON CONFLICT DO NOTHING, then one conditional UPDATE.
Spend(c) ==
    LET r      == requests[c]
        key    == <<r.route, Day(r.stamp)>>
        bucket == IF key \in DOMAIN buckets THEN buckets[key]
                  ELSE [tokens |-> Burst, updated_at |-> r.stamp]
        so_far == IF key \in DOMAIN spent THEN spent[key]
                  ELSE [total |-> 0, from |-> r.stamp, till |-> r.stamp]
        cost   == Cost(r.route)
    IN  /\ At(c, "limit")
        /\ Level(bucket, r.stamp) >= cost
        /\ buckets' = [k \in DOMAIN buckets \cup {key} |->
                          IF k = key THEN Charged(bucket, cost, r.stamp) ELSE buckets[k]]
        /\ spent' = [k \in DOMAIN spent \cup {key} |->
                        IF k # key THEN spent[k]
                        ELSE [total |-> so_far.total + cost, from |-> so_far.from,
                              till |-> IF r.stamp > so_far.till THEN r.stamp ELSE so_far.till]]
        /\ After(c)
        /\ UNCHANGED <<now, traffic, sent, freeze, login, work, uploads, sealed>>

PruneRateLimits ==
    LET old == {k \in DOMAIN buckets : buckets[k].updated_at + DayTicks < now}
    IN  /\ old # {}
        /\ buckets' = [k \in DOMAIN buckets \ old |-> buckets[k]]
        /\ UNCHANGED <<now, traffic, sent, freeze, login, spent, work, uploads, sealed, requests>>

-----------------------------------------------------------------------------
(* Proof of work: a challenge is named by the tick it was issued in *)

\* Solved within its time; and receipts nobody needs any more are dropped.
Receipts(t) == {p \in proofs : p + PowTicks >= t}

RequireWork(c) ==
    LET r == requests[c]
    IN  /\ At(c, "handler") /\ r.route = "enter"
        /\ now <= r.proof + PowTicks
        /\ proofs' = Receipts(now)
        /\ Now(c, "work")
        /\ UNCHANGED <<now, traffic, sent, freeze, login, limits, redeemed, uploads, sealed>>

\* The primary key refuses a second receipt.
RedeemWork(c) ==
    LET p == requests[c].proof
    IN  /\ At(c, "work") /\ p \notin proofs
        /\ proofs' = proofs \cup {p}
        /\ redeemed' = IF now <= p + PowTicks THEN [redeemed EXCEPT ![p] = @ + 1] ELSE redeemed
        /\ Go(c, "worked")
        /\ UNCHANGED <<now, traffic, sent, freeze, login, limits, uploads, sealed>>

-----------------------------------------------------------------------------
(* The floor under free space: set, in a behaviour whose disk may fill up *)

Onward(c, full) == IF full THEN End(c) ELSE Go(c, "room")

SpaceFromCache(c) ==
    /\ At(c, "space") /\ Fresh(space.cached, SpaceTicks)
    /\ Onward(c, space.cached.full)
    /\ space' = IF disk.full = Nil \/ space.cached.full THEN space
                ELSE [space EXCEPT !.overlooked = Larger(@, now - disk.full)]
    /\ UNCHANGED <<now, traffic, sent, freeze, login, limits, work, disk, blobs, counted, admitted, sealed>>

AskSpace(c) ==
    /\ At(c, "space") /\ ~Fresh(space.cached, SpaceTicks)
    /\ Ask(c, "space?", [full |-> disk.full # Nil, up |-> disk.up])
    /\ UNCHANGED <<now, traffic, sent, freeze, login, limits, work, uploads, sealed>>

KeepSpace(c) ==
    /\ At(c, "space?") /\ requests[c].answer.up
    /\ space' = [space EXCEPT !.failures = 0, !.answered = TRUE, !.blind = 0,
                     !.cached = [at |-> requests[c].stamp, full |-> requests[c].answer.full]]
    /\ Onward(c, requests[c].answer.full)
    /\ UNCHANGED <<now, traffic, sent, freeze, login, limits, work, disk, blobs, counted, admitted, sealed>>

\* storageOk is false: a filesystem that used to answer has stopped.
Gone(probes) == probes.answered /\ probes.failures >= FailuresBeforeUnavailable

\* A statfs that fails is not kept, and is no reason to refuse until it is a fault.
NoSpaceAnswer(c) ==
    LET failed == [space EXCEPT !.failures = @ + 1, !.cached = Nil]
    IN  /\ At(c, "space?") /\ ~requests[c].answer.up
        /\ Onward(c, Gone(failed))
        /\ space' = IF Gone(failed) \/ ~space.answered THEN failed
                    ELSE [failed EXCEPT !.blind = @ + 1]
        /\ UNCHANGED <<now, traffic, sent, freeze, login, limits, work, disk, blobs, counted, admitted, sealed>>

\* Bound: the disk of a server that has looked at it changes while an upload is
\* about to ask again; at other times nobody looks.
DiskChanges ==
    /\ "disk" \in traffic.switches /\ disk.changes < MaxDiskChanges
    /\ space.answered /\ \E c \in Requests : At(c, "space")
    /\ \/ disk' = [disk EXCEPT !.full = IF @ = Nil THEN now ELSE Nil, !.changes = @ + 1]
       \/ disk' = [disk EXCEPT !.up = ~@, !.changes = @ + 1]
    /\ UNCHANGED <<now, traffic, sent, freeze, login, limits, work, space, blobs, counted, admitted, sealed, requests>>

-----------------------------------------------------------------------------
(* The ceiling on stored blobs *)

\* counted.rows += 1, and the upload may store its row.
Admit(c, count) ==
    /\ count.rows < MaxRows
    /\ counted' = [count EXCEPT !.rows = @ + 1]
    /\ Go(c, "store")

HeadroomFromCache(c) ==
    /\ At(c, "room") /\ Fresh(counted, CountTicks)
    /\ Admit(c, counted)
    /\ admitted' = [admitted EXCEPT !.past = @ + 1]
    /\ UNCHANGED <<now, traffic, sent, freeze, login, limits, work, storage, blobs, sealed>>

AskCount(c) ==
    /\ At(c, "room") /\ ~Fresh(counted, CountTicks)
    /\ Ask(c, "counted", [rows |-> Cardinality(blobs), stored |-> admitted.stored])
    /\ UNCHANGED <<now, traffic, sent, freeze, login, limits, work, uploads, sealed>>

\* The count replaces whatever another request has kept and added to since.
KeepCount(c) ==
    LET r == requests[c]
        count == [at |-> r.stamp, rows |-> r.answer.rows]
    IN  /\ At(c, "counted")
        /\ IF count.rows < MaxRows
           THEN Admit(c, count) /\ admitted' = [admitted EXCEPT
                    !.past = @ + 1, !.unseen = Larger(@, admitted.past - r.answer.stored)]
           ELSE counted' = count /\ End(c) /\ UNCHANGED admitted
        /\ UNCHANGED <<now, traffic, sent, freeze, login, limits, work, storage, blobs, sealed>>

StoreBlob(c) ==
    /\ At(c, "store")
    /\ blobs' = blobs \cup {[upload |-> admitted.stored, expires |-> now + KeepTicks]}
    /\ admitted' = [admitted EXCEPT !.stored = @ + 1]
    /\ End(c)
    /\ UNCHANGED <<now, traffic, sent, freeze, login, limits, work, storage, counted, sealed>>

PruneBlobs ==
    LET old == {b \in blobs : b.expires < now}
    IN  /\ old # {}
        /\ blobs' = blobs \ old
        /\ UNCHANGED <<now, traffic, sent, freeze, login, limits, work, storage, counted, admitted, sealed, requests>>

-----------------------------------------------------------------------------
(* Send tokens (ADR-0084, ADR-0111) *)

MinEpoch == Len(raises)

\* Since when a token that the kept floor lets past was not to be: its epoch was
\* revoked, and no failed read has put the floor at 0 since.
RevokedAt(token) ==
    IF token = Nil \/ ~(floor.min <= token.epoch /\ token.epoch < MinEpoch) THEN Nil
    ELSE IF floor.read THEN raises[token.epoch + 1]
    ELSE Larger(raises[token.epoch + 1], floor.at)
NeedsEpoch(c) == At(c, "epoch") \/ (At(c, "handler") /\ requests[c].route = "send")

\* A mint goes on with the epoch; a spend is refused when its own is below it.
WithEpoch(c, epoch, looked) ==
    LET r == requests[c]
    IN  IF r.route = "send" /\ r.token.epoch < epoch THEN End(c)
        ELSE requests' = [requests EXCEPT ![c].answer = [min |-> epoch], ![c].stamp = looked,
                 ![c].pc = IF r.route = "mint" THEN "minting" ELSE "spending"]

EpochFromCache(c) ==
    /\ NeedsEpoch(c) /\ Fresh(floor, CacheTicks)
    /\ WithEpoch(c, floor.min, now)
    /\ Ignores(RevokedAt(requests[c].token))
    /\ UNCHANGED <<now, traffic, sent, frozen, engaged, login, limits, work, uploads, sealed>>

\* A read that fails, for whatever reason, is taken for a floor of 0.
AskEpoch(c) ==
    /\ NeedsEpoch(c) /\ ~Fresh(floor, CacheTicks)
    /\ \/ Ask(c, "epoch?", [min |-> MinEpoch, read |-> TRUE])
       \/ Ask(c, "epoch?", [min |-> 0, read |-> FALSE])
    /\ UNCHANGED <<now, traffic, sent, freeze, login, limits, work, uploads, sealed>>

KeepEpoch(c) ==
    LET r == requests[c]
    IN  /\ At(c, "epoch?")
        /\ floor' = [at |-> r.stamp, min |-> r.answer.min, read |-> r.answer.read]
        /\ WithEpoch(c, r.answer.min, r.stamp)
        /\ UNCHANGED <<now, traffic, sent, freeze, login, limits, work, uploads, raises, tokens>>

Mint(c) ==
    LET r == requests[c]
    IN  /\ At(c, "minting")
        /\ tokens' = tokens \cup {[epoch |-> r.answer.min, expires |-> now + KeepTicks]}
        /\ End(c)
        /\ UNCHANGED <<now, traffic, sent, freeze, login, limits, work, uploads, raises, floor>>

\* Deleting the row is the acceptance.
SpendToken(c) ==
    LET r == requests[c]
    IN  /\ At(c, "spending") /\ r.token \in tokens /\ r.token.expires > r.stamp
        /\ tokens' = tokens \ {r.token}
        /\ End(c)
        /\ UNCHANGED <<now, traffic, sent, freeze, login, limits, work, uploads, raises, floor>>

RevokeSendTokens ==
    /\ "revoke" \in traffic.switches /\ Len(raises) < MaxRaises
    /\ raises' = Append(raises, now)
    /\ UNCHANGED <<now, traffic, sent, freeze, login, limits, work, uploads, floor, tokens, requests>>

PruneSendTokens ==
    LET old == {t \in tokens : t.expires < now}
    IN  /\ old # {}
        /\ tokens' = tokens \ old
        /\ UNCHANGED <<now, traffic, sent, freeze, login, limits, work, uploads, raises, floor, requests>>

-----------------------------------------------------------------------------
(* Time, and the next-state relation *)

Answer(c) ==
    /\ At(c, "handler") /\ requests[c].route = "read"
    /\ End(c)
    /\ UNCHANGED <<now, traffic, sent, freeze, login, limits, work, uploads, sealed>>

\* No request outlives its timeout.
Tick ==
    /\ now < traffic.until
    /\ \A c \in InFlight : now < requests[c].began + Patience
    /\ now' = now + 1
    /\ UNCHANGED <<traffic, sent, freeze, login, limits, work, uploads, sealed, requests>>

Serve(c) ==
    \/ ReadsAnyway(c) \/ FreezeFromCache(c) \/ AskFreeze(c) \/ KeepFreeze(c)
    \/ WithoutSession(c) \/ EndSession(c) \/ Resolve(c) \/ Rotate(c) \/ Logout(c)
    \/ TakeTicket(c) \/ Spend(c) \/ RequireWork(c) \/ RedeemWork(c)
    \/ SpaceFromCache(c) \/ AskSpace(c) \/ KeepSpace(c) \/ NoSpaceAnswer(c)
    \/ HeadroomFromCache(c) \/ AskCount(c) \/ KeepCount(c) \/ StoreBlob(c)
    \/ EpochFromCache(c) \/ AskEpoch(c) \/ KeepEpoch(c) \/ Mint(c) \/ SpendToken(c)
    \/ Answer(c) \/ Refuse(c) \/ Deliver(c) \/ LoseReply(c)

Housekeeping == PruneSessions \/ PruneRateLimits \/ PruneBlobs \/ PruneSendTokens

GateNext ==
    \/ \E c \in Requests : Serve(c)
    \/ \E c \in Requests, route \in traffic.routes, proof \in (0..now) \cup {Nil},
          token \in tokens \cup {Nil} : Send(c, route, proof, token)
    \/ SignIn \/ Freeze \/ Thaw \/ RevokeSendTokens \/ DiskChanges \/ Housekeeping \/ Tick

GateSpec == GateInit /\ [][GateNext]_gateVars

-----------------------------------------------------------------------------
(* Properties *)

Replies == {c \in InFlight : requests[c].carries # Nil}

\* However many requests cross midnight together, and in whatever order their
\* replies come back, the browser of a session that lives holds its current
\* token, unless the reply with it is still on its way or never arrived
\* (resolveSession's compare-and-swap, SEC-2026-017).
CookieStaysGood ==
    session # Nil =>
        \/ jar = session.token
        \/ session.token \in lost
        \/ \E c \in Replies : requests[c].carries \in {session.token, Cleared}

\* A switch the operator throws holds within the cache's lifetime: neither a
\* write during a freeze nor a token of a revoked epoch gets past on an answer
\* kept from before (lockdown.ts and send_tokens.ts keep theirs for CACHE_MS).
\* A read of the floor that fails counts as 0 and is kept as long: a revoked
\* token gets past for less than that after such a read, and no longer.
SwitchesHold == ignored < CacheTicks

\* What concurrent requests may take together.  They charge a bucket at the time
\* they read before waiting for the database, so charges arrive out of order;
\* still they are the burst and the refill between the first and the last.  A
\* solved challenge lets one request in while it is valid, although looking at
\* its age, dropping old receipts and writing its own are separate steps.  The
\* ceiling on blobs, checked on a cached count, is exceeded by no more than the
\* uploads a count had not seen.  And a disk that filled up is overlooked for no
\* longer than an answer is kept, one that stopped answering by fewer uploads
\* than make a fault, however its probes overlap.  (rate_limit, pow, storage.ts)
LimitsHold ==
    /\ \A k \in DOMAIN spent :
           spent[k].total <= Burst + PerTick * (spent[k].till - spent[k].from)
    /\ \A p \in DOMAIN redeemed : redeemed[p] <= 1
    /\ Cardinality(blobs) <= MaxRows + admitted.unseen
    /\ space.overlooked < SpaceTicks
    /\ space.blind < FailuresBeforeUnavailable

=============================================================================
