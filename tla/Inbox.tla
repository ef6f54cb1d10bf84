------------------------------- MODULE Inbox -------------------------------
(***************************************************************************)
(* One account's notifications: how they are written, how long they stay,  *)
(* and the screen that pages through them.                                 *)
(*                                                                         *)
(* Code: src/server/lib/notify.ts and its callers; the table of migration  *)
(* 009_notifications.sql; src/server/routes/notifications.ts;              *)
(* src/client/views/notifications.ts.                                      *)
(*                                                                         *)
(* A notification is its kind and its time.  Those of one time are taken   *)
(* in the order they were written; their ids are random, and nothing below *)
(* tells which of them comes first.                                        *)
(***************************************************************************)
EXTENDS Naturals, Sequences, FiniteSets, SequencesExt

CONSTANTS
    Writers,       \* requests that notify the account
    Retention,     \* NOTIFICATION_TTL, in hours
    InboxLimit,    \* limit
    Feeds          \* bound: what is written, the hours, and what the reader does

ASSUME InboxAssumption ==
    /\ Retention \in Nat /\ InboxLimit \in Nat \ {0}
    /\ \A f \in Feeds : {f.writes, f.hours, f.loads} \subseteq Nat

VARIABLES
    feed,         \* the bounds of this behaviour
    notices,      \* rows of notifications
    notifying,    \* writer -> the notification it is at, and where it stands
    hour,         \* Date.now()
    announced,    \* notifications asked for so far
    items,        \* what the screen lists
    after,        \* the cursor "Show more" would use, or that there is no button
    fetches,      \* load() -> the request under way
    looked,       \* requests so far
    there,        \* not stored: rows of the inbox when the list's first page was read
    moved,        \* not stored: rows refreshed or pruned since then
    jumbled       \* not stored: two loads overlapped, or one failed, since then

inboxVars == <<feed, notices, notifying, hour, announced, items, after, fetches, looked, there, moved, jumbled>>

Loads == {"open", "mark", "more"}    \* load() on opening, after "Mark all", after "Show more"
NotWriting == [step |-> "idle", kind |-> "none", at |-> 0, id |-> 0]
NotFetching == [step |-> "idle", after |-> <<>>, page |-> <<>>, rest |-> FALSE]
NoMore == <<>>

InboxInit ==
    /\ feed \in Feeds
    /\ notices = {} /\ hour = 0 /\ announced = 0 /\ items = <<>> /\ after = NoMore /\ looked = 0
    /\ notifying = [w \in Writers |-> NotWriting]
    /\ fetches = [f \in Loads |-> NotFetching]
    /\ there = {} /\ moved = {} /\ jumbled = FALSE

InFeed(what) == what \in feed.may

-----------------------------------------------------------------------------
(* Writing *)

\* The kinds the column's CHECK admits.
Admitted == {"message", "order", "seller_application", "moderation", "review", "dispute"}

\* What the unique index allows once.
Unread(row) == row.kind = "message" /\ ~row.read

\* The hint an arrival refreshes instead of writing its own.
BugHint(row) == row.kind = "message"
Hint(row) == row.kind = "message" /\ ~row.read

\* An arrived message, a decided payout, and a moderator's act are told quietly; an
\* order's move is told in its own transaction, which is one step.
StartNotify(w, kind) ==
    /\ notifying[w] = NotWriting
    /\ announced < feed.writes
    /\ announced' = announced + 1
    /\ IF kind = "message" /\ \E row \in notices : Hint(row)
       THEN /\ notices' = {IF Hint(row) THEN [row EXCEPT !.at = hour] ELSE row : row \in notices}
            /\ moved' = moved \cup {row.id : row \in {r \in notices : Hint(r)}}
            /\ UNCHANGED notifying
       ELSE /\ notifying' = [notifying EXCEPT ![w] = [step |-> "insert", kind |-> kind, at |-> hour,
                                                      id |-> announced + 1]]
            /\ UNCHANGED <<notices, moved>>
    /\ UNCHANGED <<feed, hour, items, after, fetches, looked, there, jumbled>>

\* The insert is refused for a kind the CHECK does not know, and for a second
\* unread hint; the caller goes on as if it had been written.
InsertNotification(w) ==
    LET new == notifying[w]
        row == [id |-> new.id, kind |-> new.kind, at |-> new.at, read |-> FALSE]
        refused == row.kind \notin Admitted \/ (Unread(row) /\ \E r \in notices : Unread(r))
    IN  /\ new.step = "insert"
        /\ notices' = IF refused THEN notices ELSE notices \cup {row}
        /\ notifying' = [notifying EXCEPT ![w] = NotWriting]
        /\ UNCHANGED <<feed, hour, announced, items, after, fetches, looked, there, moved, jumbled>>

\* pruneNotifications, read or not.
PruneNotifications ==
    LET old == {row \in notices : row.at + Retention < hour}
    IN  /\ old # {}
        /\ notices' = notices \ old
        /\ moved' = moved \cup {row.id : row \in old}
        /\ UNCHANGED <<feed, notifying, hour, announced, items, after, fetches, looked, there, jumbled>>

NextHour ==
    /\ hour < feed.hours
    /\ hour' = hour + 1
    /\ UNCHANGED <<feed, notices, notifying, announced, items, after, fetches, looked, there, moved, jumbled>>

-----------------------------------------------------------------------------
(* Reading *)

Below(row, mark) == row.at < mark.at \/ (row.at = mark.at /\ row.id < mark.id)
Newest(rows) == SetToSortSeq(rows, LAMBDA a, b : Below(b, a))

Busy == {f \in Loads : fetches[f] # NotFetching}
Begun(f, mark) == fetches' = [fetches EXCEPT ![f] = [NotFetching EXCEPT !.step = "asked", !.after = mark]]

\* load(): from the top the list is emptied first; the button goes either way.
Load(f, mark) ==
    /\ f \notin Busy
    /\ looked < feed.loads
    /\ looked' = looked + 1
    /\ Begun(f, mark)
    /\ after' = NoMore
    /\ IF mark = <<>>
       THEN items' = <<>> /\ jumbled' = (Busy # {})
       ELSE jumbled' = (jumbled \/ Busy # {}) /\ UNCHANGED items

OpenInbox ==
    /\ Load("open", <<>>)
    /\ UNCHANGED <<feed, notices, notifying, hour, announced, there, moved>>

\* Everything unread becomes read, shown or not; then the list is loaded again.
MarkAll ==
    /\ InFeed("mark")
    /\ notices' = {[row EXCEPT !.read = TRUE] : row \in notices}
    /\ Load("mark", <<>>)
    /\ UNCHANGED <<feed, notifying, hour, announced, there, moved>>

ShowMore ==
    /\ after # NoMore
    /\ Load("more", after)
    /\ UNCHANGED <<feed, notices, notifying, hour, announced, there, moved>>

\* GET /api/notifications: the rows below the cursor, one page of them.
ReadPage(f) ==
    LET mark == fetches[f].after
        rows == Newest({row \in notices : mark = <<>> \/ Below(row, mark[1])})
        page == SubSeq(rows, 1, IF Len(rows) > InboxLimit THEN InboxLimit ELSE Len(rows))
    IN  /\ fetches[f].step = "asked"
        /\ fetches' = [fetches EXCEPT ![f] = [@ EXCEPT !.step = "answered", !.page = page,
                                                       !.rest = Len(rows) > InboxLimit]]
        /\ IF mark = <<>>
           THEN there' = {row.id : row \in notices} /\ moved' = {}
           ELSE UNCHANGED <<there, moved>>
        /\ UNCHANGED <<feed, notices, notifying, hour, announced, items, after, looked, jumbled>>

\* A page from the top replaces the list, a later one is appended to whatever it is.
ShowPage(f) ==
    LET answer == fetches[f]
    IN  /\ answer.step = "answered"
        /\ items' = IF answer.after = <<>> THEN answer.page ELSE items \o answer.page
        /\ after' = IF answer.rest THEN <<Last(answer.page)>> ELSE NoMore
        /\ fetches' = [fetches EXCEPT ![f] = NotFetching]
        /\ UNCHANGED <<feed, notices, notifying, hour, announced, looked, there, moved, jumbled>>

\* The list makes room for the error, and a retry begins where the failed one did.
LoadFails(f) ==
    /\ InFeed("fail")
    /\ fetches[f].step # "idle"
    /\ items' = <<>>
    /\ jumbled' = TRUE
    /\ \/ fetches' = [fetches EXCEPT ![f] = NotFetching]
       \/ Begun(f, fetches[f].after)
    /\ UNCHANGED <<feed, notices, notifying, hour, announced, after, looked, there, moved>>

InboxNext ==
    \/ \E w \in Writers :
           (\E kind \in feed.kinds : StartNotify(w, kind)) \/ InsertNotification(w)
    \/ PruneNotifications \/ NextHour \/ OpenInbox \/ MarkAll \/ ShowMore
    \/ \E f \in Loads : ReadPage(f) \/ ShowPage(f) \/ LoadFails(f)

InboxSpec == InboxInit /\ [][InboxNext]_inboxVars

-----------------------------------------------------------------------------
(* Properties *)

\* When a message has been stored and its sender is answered, one unread hint says
\* so; it goes when the inbox is read or when it is too old.
Hinted ==
    /\ Cardinality({row \in notices' : Unread(row)}) <= 1
    /\ \A w \in Writers :
           notifying[w].kind = "message" /\ notifying'[w] = NotWriting
               => \E row \in notices' : Unread(row)
    /\ (announced' # announced /\ notifying' = notifying) => \E row \in notices' : Unread(row)
    /\ \A row \in notices :
           \/ \E kept \in notices' : kept.id = row.id /\ (kept.read => row.read \/ MarkAll)
           \/ row.at + Retention < hour

\* A list walked to its end shows what has been there since it was begun, each once
\* and the newest first.
Walked ==
    (after = NoMore /\ Busy = {} /\ looked > 0 /\ ~jumbled) =>
        /\ \A i, j \in DOMAIN items : i < j => Below(items[j], items[i])
        /\ there \ moved \subseteq {items[i].id : i \in DOMAIN items}

\* What arrives is announced and found, however writers, the sweep, a second hint,
\* and a reader who marks and pages meanwhile interleave.
\* (notify.ts: notify; notifications.ts of routes and views)
ArrivalsAreHinted == [][Hinted /\ Walked']_inboxVars

\* Of a decided payout its owner is told: moderation.ts says so of a final decision.
OwnersAreTold ==
    [][\A w \in Writers :
           notifying[w].kind = "payout" /\ notifying'[w] = NotWriting
               => \E row \in notices' : row.id = notifying[w].id]_inboxVars

=============================================================================
