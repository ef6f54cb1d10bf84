----------------------------- MODULE Accounts ------------------------------
(***************************************************************************)
(* The ways into one account and the credentials that open them: password, *)
(* PGP key and recovery phrase; the sessions, the challenges waiting for a *)
(* signature and the device-link codes minted under them.                  *)
(*                                                                         *)
(* Code: src/server/routes/auth.ts and recovery.ts; createSession and the  *)
(* revocations of src/server/lib/sessions.ts; src/server/lib/auth_flow.ts. *)
(*                                                                         *)
(* A handler runs statement by statement: other requests come between what *)
(* it checked and what it writes.  A request stands for one that passes    *)
(* the checks of its route (right password, right signature) when they     *)
(* are made; one that does not is refused and changes nothing, except that *)
(* it may use up a challenge.  Day-old sessions and their cookies: Gate.   *)
(***************************************************************************)
EXTENDS Naturals, FiniteSets

CONSTANTS
    Requests,    \* slots for the requests under way
    Mixes,       \* bound: the database of a behaviour, its routes and its calls
    None

ASSUME MixesAssumption ==
    \A m \in Mixes : /\ m.database \in {"sqlite", "postgres"}
                     /\ m.calls \in Nat /\ m.pgp \subseteq Nat

VARIABLES
    mix, calls,  \* the bounds of this behaviour and the calls so far
    pgp,         \* the number of the account's PGP key, 0 when there is none
    keys,        \* PGP keys enrolled so far
    epoch,       \* credentials changed so far: users rows written
    sessions,    \* rows of sessions
    tickets,     \* rows of auth_challenges and device_links, one set
    issued,      \* ids given to sessions and tickets so far
    answered,    \* ticket -> sessions and changes it was good for
    requests,    \* slot -> the request under way
    torn         \* the server stopped between a change and its revocation

vars == <<mix, calls, pgp, keys, epoch, sessions, tickets, issued, answered, requests, torn>>
bounds == <<mix, calls>>
account == <<pgp, keys, epoch>>

Idle == [route |-> None, step |-> "idle"]
MaxIssued == 2 * mix.calls

Init ==
    /\ mix \in Mixes
    /\ calls = 0
    /\ pgp \in mix.pgp
    /\ keys = pgp
    /\ epoch = 0
    /\ sessions = {[id |-> 0, under |-> 0, overlap |-> FALSE]}
    /\ tickets = {}
    /\ issued = 0
    /\ answered = [t \in 1..MaxIssued |-> 0]
    /\ requests = [c \in Requests |-> Idle]
    /\ torn = FALSE

At(c, step) == requests[c].step = step
Goes(c, r) == requests' = [requests EXCEPT ![c] = r]

-----------------------------------------------------------------------------
(* A request comes in *)

\* What a request checked first: the session it came with, the password, or
\* nothing yet; `under` is the epoch of that credential.
Start(route, step, session, under, overlap) ==
    [route |-> route, step |-> step, session |-> session, under |-> under, overlap |-> overlap,
     key |-> 0, signed |-> 0, ticket |-> 0, kind |-> None]

Needs(route) == route \in mix.routes

\* POST login: the password is checked, and whether the account asks for a
\* signature too.
Login ==
    IF pgp = 0 THEN Start("login", "mint", 0, epoch, FALSE)
    ELSE [Start("login", "issue", 0, epoch, FALSE) EXCEPT !.kind = "pgp-login"]

\* POST recovery/challenge, for an account that has a recovery key.
AskRecovery == [Start("recovery", "issue", 0, epoch, FALSE) EXCEPT !.kind = "recovery"]

\* POST pgp/challenge: the purpose follows from the account's state and the
\* caller's intent.
AskKey(s, intent) ==
    [Start("challenge", "issue", s.id, s.under, s.overlap) EXCEPT
        !.kind = IF intent = "remove" THEN "pgp-remove"
                 ELSE IF pgp # 0 THEN "pgp-rotate" ELSE "pgp-enroll"]

\* POST link/authorise.
AskLink(s) == [Start("link", "issue", s.id, s.under, s.overlap) EXCEPT !.kind = "link"]

\* A change asked for with a session and the current password.
AskChange(s, route, step) == Start(route, step, s.id, epoch, FALSE)

\* The routes that answer a challenge or a link code have nothing else to show.
Answer(route) == Start(route, "take", 0, epoch, FALSE)

WithoutSession(c) ==
    \/ Needs("login") /\ Goes(c, Login)
    \/ Needs("recovery") /\ Goes(c, AskRecovery)
    \/ \E route \in {"complete", "claim", "recover"} : Needs(route) /\ Goes(c, Answer(route))

WithSession(c, s) ==
    \/ \E route \in {"password", "phrase"} : Needs(route) /\ Goes(c, AskChange(s, route, "commit"))
    \/ \E route \in {"key", "remove"} : Needs(route) /\ Goes(c, AskChange(s, route, "read"))
    \/ Needs("save") /\ Goes(c, AskChange(s, "save", "write"))
    \/ Needs("link") /\ Goes(c, AskLink(s))
    \/ Needs("challenge") /\ Goes(c, AskKey(s, "key"))
    \/ Needs("challenge") /\ pgp # 0 /\ Goes(c, AskKey(s, "remove"))

Begin(c) ==
    /\ At(c, "idle")
    /\ calls < mix.calls
    /\ calls' = calls + 1
    /\ WithoutSession(c) \/ \E s \in sessions : WithSession(c, s)
    /\ UNCHANGED <<mix, account, sessions, tickets, issued, answered, torn>>

-----------------------------------------------------------------------------
(* Challenges and link codes *)

\* issueChallenge: one account, one purpose, one outstanding challenge.
Issue(c) ==
    LET r == requests[c]
        kept == {t \in tickets : r.kind = "link" \/ t.kind # r.kind}
    IN  /\ At(c, "issue")
        /\ issued < MaxIssued
        /\ issued' = issued + 1
        /\ tickets' = kept \cup {[id |-> issued + 1, kind |-> r.kind, under |-> r.under,
                                  overlap |-> r.overlap]}
        /\ Goes(c, Idle)
        /\ UNCHANGED <<bounds, account, sessions, answered, torn>>

\* currentPgpKey: the key the account has when the request looks.
ReadKey(c) ==
    /\ At(c, "read")
    /\ Goes(c, [requests[c] EXCEPT !.step = "take", !.key = pgp])
    /\ UNCHANGED <<bounds, account, sessions, tickets, issued, answered, torn>>

\* consumeChallenge, and the transaction of a link claim: the row is selected
\* and deleted.  One step on SQLite; at READ COMMITTED another transaction may
\* select the row in between, and deleting no row is no error.
BugWithout(t) == tickets
Without(t) == {u \in tickets : u.id # t.id}

Serves(c, route, step) == requests[c].route = route /\ At(c, step)

\* What the request does next waits for the deletion where that is a step.
Consume(c, kinds, next, claimant) ==
    \E t \in {u \in tickets : u.kind \in kinds} :
        IF mix.database = "sqlite"
        THEN /\ tickets' = Without(t)
             /\ Goes(c, [claimant[t] EXCEPT !.step = next, !.ticket = t.id])
        ELSE /\ Goes(c, [claimant[t] EXCEPT !.step = "taking", !.ticket = t.id])
             /\ UNCHANGED tickets

Inherits(c, t) == [requests[c] EXCEPT !.under = t.under, !.overlap = @ \/ t.overlap]

\* link/claim: the code is all the new device shows.
TakeLink(c) ==
    /\ Serves(c, "claim", "take")
    /\ Consume(c, {"link"}, "check", [t \in tickets |-> Inherits(c, t)])

\* pgp/complete: the row stands for the password step.
TakeLogin(c) ==
    /\ Serves(c, "complete", "take")
    /\ Consume(c, {"pgp-login"}, "check", [t \in tickets |-> Inherits(c, t)])

TakeRecovery(c) ==
    /\ Serves(c, "recover", "take")
    /\ Consume(c, {"recovery"}, "check", [t \in tickets |-> requests[c]])

\* pgp/key: a challenge made to add a key does not replace one, and a key that
\* is replaced signs too.
BugPurposes(current) == {"pgp-enroll", "pgp-rotate"}
Purposes(current) == {IF current = 0 THEN "pgp-enroll" ELSE "pgp-rotate"}

TakeKey(c) ==
    LET current == requests[c].key
    IN  /\ Serves(c, "key", "take")
        /\ Consume(c, Purposes(current), "commit",
                   [t \in tickets |->
                       [requests[c] EXCEPT !.signed = IF t.kind = "pgp-enroll" THEN 0 ELSE current]])

\* pgp/remove takes the challenge before it looks whether there was a key.
TakeRemoval(c) ==
    LET current == requests[c].key
    IN  /\ Serves(c, "remove", "take")
        /\ Consume(c, {"pgp-remove"}, IF current = 0 THEN "refuse" ELSE "commit",
                   [t \in tickets |-> [requests[c] EXCEPT !.signed = current]])

\* No such challenge, or one for another purpose.
Refused(c) == (At(c, "take") \/ At(c, "refuse")) /\ Goes(c, Idle) /\ UNCHANGED tickets

Take(c) ==
    /\ TakeLink(c) \/ TakeLogin(c) \/ TakeRecovery(c) \/ TakeKey(c) \/ TakeRemoval(c) \/ Refused(c)
    /\ UNCHANGED <<bounds, account, sessions, issued, answered, torn>>

CommitTake(c) ==
    LET r == requests[c]
        next == CASE r.route = "key" -> "commit"
                  [] r.route = "remove" -> IF r.key = 0 THEN "refuse" ELSE "commit"
                  [] OTHER -> "check"
    IN  /\ At(c, "taking")
        /\ tickets' = Without([id |-> r.ticket])
        /\ Goes(c, [r EXCEPT !.step = next])
        /\ UNCHANGED <<bounds, account, sessions, issued, answered, torn>>

\* The user row is read after the ticket is gone: the signature is verified
\* with the key, or the phrase, of that moment.
CheckLogin(c) == Serves(c, "complete", "check") /\ pgp # 0 /\ Goes(c, [requests[c] EXCEPT !.step = "mint"])
CheckLink(c) == Serves(c, "claim", "check") /\ Goes(c, [requests[c] EXCEPT !.step = "mint"])
CheckRecovery(c) ==
    Serves(c, "recover", "check") /\ Goes(c, [requests[c] EXCEPT !.step = "commit", !.under = epoch])

Check(c) ==
    /\ At(c, "check")
    /\ Goes(c, Idle) \/ CheckLogin(c) \/ CheckLink(c) \/ CheckRecovery(c)
    /\ UNCHANGED <<bounds, account, sessions, tickets, issued, answered, torn>>

-----------------------------------------------------------------------------
(* Changes and revocations *)

Answers(t) ==
    answered' = IF t = 0 THEN answered ELSE [answered EXCEPT ![t] = IF @ < 2 THEN @ + 1 ELSE @]

\* Every other request under way began under what is changing.
Overlapped(c, r) ==
    [d \in Requests |-> IF d = c THEN r
                        ELSE IF requests[d] = Idle THEN Idle
                        ELSE [requests[d] EXCEPT !.overlap = TRUE]]

\* password and recovery/key: the PGP key stays.
CommitPassword(c) == Serves(c, "password", "commit") /\ UNCHANGED <<pgp, keys>>
CommitRecoveryKey(c) == Serves(c, "phrase", "commit") /\ UNCHANGED <<pgp, keys>>

\* recovery/complete: a new password, and no PGP key.
CommitRecovery(c) == Serves(c, "recover", "commit") /\ pgp' = 0 /\ UNCHANGED keys

CommitKey(c) == Serves(c, "key", "commit") /\ pgp' = keys + 1 /\ keys' = keys + 1
CommitRemoval(c) == Serves(c, "remove", "commit") /\ pgp' = 0 /\ UNCHANGED keys

\* The row of users is written.
Commit(c) ==
    LET r == requests[c]
    IN  /\ CommitPassword(c) \/ CommitRecoveryKey(c) \/ CommitRecovery(c) \/ CommitKey(c) \/ CommitRemoval(c)
        /\ epoch' = epoch + 1
        /\ Answers(r.ticket)
        /\ requests' = Overlapped(c, [r EXCEPT !.step = "revoke", !.under = epoch + 1])
        /\ UNCHANGED <<bounds, sessions, tickets, issued, torn>>

\* Challenges and link codes go whatever session asked for them.
BugLeftOver == {t \in tickets : t.kind = "link"}
LeftOver == {}

\* revokeAllCredentials, after which the route signs its caller in again.
RevokeAllCredentials(c) ==
    /\ requests[c].route \in {"password", "recover"}
    /\ sessions' = {}
    /\ requests' = Overlapped(c, [requests[c] EXCEPT !.step = "mint", !.ticket = 0])

\* revokeOtherCredentials spares the session that asked.
RevokeOtherCredentials(c) ==
    LET r == requests[c]
        own == {s \in sessions : s.id = r.session}
    IN  /\ r.route \in {"key", "remove", "phrase"}
        /\ sessions' = {[s EXCEPT !.under = r.under, !.overlap = r.overlap] : s \in own}
        /\ requests' = Overlapped(c, Idle)

Revoke(c) ==
    /\ At(c, "revoke")
    /\ RevokeAllCredentials(c) \/ RevokeOtherCredentials(c)
    /\ tickets' = LeftOver
    /\ UNCHANGED <<bounds, account, issued, answered, torn>>

\* createSession.
Mint(c) ==
    LET r == requests[c]
    IN  /\ At(c, "mint")
        /\ issued < MaxIssued
        /\ issued' = issued + 1
        /\ sessions' = sessions \cup {[id |-> issued + 1, under |-> r.under, overlap |-> r.overlap]}
        /\ Answers(r.ticket)
        /\ Goes(c, Idle)
        /\ UNCHANGED <<bounds, account, tickets, torn>>

\* One session is ended (logout, DELETE sessions/:id), or all of them
\* (logout-everywhere, a suspension).  No challenge or link code goes with it.
DestroySession == \E s \in sessions : sessions' = sessions \ {s}
DestroyAllSessions == sessions # {} /\ sessions' = {}

EndSessions ==
    /\ Needs("end")
    /\ calls < mix.calls
    /\ calls' = calls + 1
    /\ DestroySession \/ DestroyAllSessions
    /\ UNCHANGED <<mix, account, tickets, issued, answered, requests, torn>>

\* Challenges and link codes live five minutes; prune deletes those past it.
Expire ==
    /\ \E t \in tickets : tickets' = Without(t)
    /\ UNCHANGED <<bounds, account, sessions, issued, answered, requests, torn>>

\* The server stops: each handler stays where it was for good.
Stop ==
    /\ Needs("stop")
    /\ calls < mix.calls
    /\ calls' = calls + 1
    /\ requests' = [c \in Requests |-> Idle]
    /\ torn' = (torn \/ \E c \in Requests : At(c, "revoke"))
    /\ UNCHANGED <<mix, account, sessions, tickets, issued, answered>>

Next ==
    \/ \E c \in Requests :
           \/ Begin(c) \/ Issue(c) \/ ReadKey(c) \/ Take(c) \/ CommitTake(c) \/ Check(c)
           \/ Commit(c) \/ Revoke(c) \/ Mint(c)
    \/ EndSessions \/ Expire \/ Stop

Spec == Init /\ [][Next]_vars

-----------------------------------------------------------------------------
(* Properties *)

\* A session, challenge or link code minted under a credential that has been
\* replaced is one whose request, or whose own ticket's request, was under way
\* while the credential was replaced; else the revocation is still to come, or
\* the server stopped before it.  (auth.ts: password; recovery.ts: complete,
\* pgp/key, pgp/remove, recovery/key; sessions.ts: revokeAllCredentials,
\* revokeOtherCredentials)
StaleOnlyByOverlap ==
    torn \/ (\E c \in Requests : At(c, "revoke"))
         \/ \A x \in sessions \cup tickets : x.under < epoch => x.overlap

\* A challenge or link code is good for one session or one change; on
\* PostgreSQL two requests that take it at once both succeed.
\* (auth_flow.ts: consumeChallenge; recovery.ts: link/claim)
AnsweredOnce ==
    mix.database = "sqlite" => \A t \in 1..MaxIssued : answered[t] <= 1

\* A PGP key leaves the account by a signature of that key or by the recovery
\* phrase, or by a request that was under way when the key was put there.
\* (recovery.ts: pgp/key, pgp/remove)
KeyLeavesSigned ==
    [][pgp # 0 /\ pgp' # pgp =>
           \E c \in Requests :
               /\ At(c, "commit")
               /\ requests'[c].step = "revoke"
               /\ \/ requests[c].route = "recover"
                  \/ requests[c].signed = pgp
                  \/ requests[c].overlap]_vars

=============================================================================
