-------------------------------- MODULE Desk --------------------------------
(***************************************************************************)
(* Staff at work: applications to sell, reports, reviews to hide, accounts *)
(* to suspend, roles to give; and the seller on the other side of it.      *)
(*                                                                         *)
(* Code: src/server/routes/moderation.ts, the seller-applications and      *)
(* listings routes of routes/market.ts, requireRole in app.ts, lib/audit.ts*)
(* lib/notify.ts, requireSeller in lib/listings.ts.                        *)
(*                                                                         *)
(* A handler reads who asks and what it is about, writes and leaves an     *)
(* audit record, each in a statement of its own; only what a decision on   *)
(* an application writes is one transaction, with the notice to the        *)
(* applicant.  The other notices may fail unnoticed and are left out.      *)
(* The sessions a suspension ends are in Accounts, the level it costs in   *)
(* Market.                                                                 *)
(***************************************************************************)
EXTENDS Naturals, FiniteSets

CONSTANTS
    People,      \* accounts
    Calls,       \* requests handled at once
    Papers,      \* bound: applications, reports and reviews
    Names,       \* bound: names sellers ask for
    Shifts       \* bound: who is who, routes used, items there are, requests

ASSUME NamesAssumption == "none" \notin Names /\ "none" \notin People

\* What is filed is undecided, and a person who applied, once, does not sell yet.
FiledAs == [application |-> "pending", report |-> "open", review |-> "shown"]
Filed(kind, u, name) == [kind |-> kind, by |-> u, name |-> name, status |-> FiledAs[kind], decisions |-> {}]
ASSUME ShiftsAssumption ==
    \A s \in Shifts :
        /\ s.roles \in [People -> {"user", "moderator", "admin"}] /\ \E u \in People : s.roles[u] = "admin"
        /\ s.ops \subseteq {"apply", "decide", "resolve", "hide", "status", "role", "list", "fail"}
        /\ s.sellers \subseteq People /\ DOMAIN s.filed \subseteq Papers /\ s.most \in Nat
        /\ \A i \in DOMAIN s.filed : \E kind \in DOMAIN FiledAs, u \in People, name \in Names :
               /\ s.filed[i] = Filed(kind, u, name)
               /\ kind = "application" =>
                      u \notin s.sellers /\ \A j \in DOMAIN s.filed \ {i} :
                                              s.filed[j].kind # "application" \/ s.filed[j].by # u

VARIABLES
    shift,       \* the bound this behaviour keeps to
    roles,       \* users.role
    users,       \* users.status
    sellers,     \* sellers: account -> name and status
    listed,      \* sellers with a listing that is active
    items,       \* seller_applications, reports, reviews
    ceilings,      \* accounts given a payout ceiling of their own
    told,        \* notifications of decisions on applications: the requests that made them
    records,     \* audit_log: requests recorded
    calls,       \* what each handler is at
    called,      \* requests so far
    torn,        \* not stored: requests that broke off
    crossed,     \* not stored: accounts two requests were about at once, or a torn one was
    chiefs       \* not stored: two changes of somebody's role or status overlapped

deskVars == <<shift, roles, users, sellers, listed, items, ceilings, told, records, calls, called,
              torn, crossed, chiefs>>

NoItem == [kind |-> "none", by |-> "none", name |-> "none", status |-> "none", decisions |-> {}]
NoSeller == [name |-> "none", status |-> "none"]
NotCalled == [op |-> "none", step |-> "idle"]
Staff == {"moderator", "admin"}

DeskInit ==
    /\ shift \in Shifts
    /\ roles = shift.roles
    /\ users = [u \in People |-> "active"]
    /\ sellers = [u \in People |-> IF u \in shift.sellers THEN [name |-> u, status |-> "active"] ELSE NoSeller]
    /\ listed = {}
    /\ items = [i \in Papers |-> IF i \in DOMAIN shift.filed THEN shift.filed[i] ELSE NoItem]
    /\ ceilings = {} /\ told = {} /\ records = {}
    /\ calls = [c \in Calls |-> NotCalled] /\ called = 0
    /\ torn = {} /\ crossed = {} /\ chiefs = FALSE

-----------------------------------------------------------------------------
(* Requests *)

UnderWay == {c \in Calls : calls[c] # NotCalled}
Is(c, op, step) == calls[c].op = op /\ calls[c].step = step
NowAt(c, step) == calls' = [calls EXCEPT ![c].step = step]
Done(c) == calls' = [calls EXCEPT ![c] = NotCalled]
Changing == {"status", "role"}

\* authenticate, requireRole: who asks is read once, when the request begins.
Begin(c, op, by, step, about, args) ==
    /\ calls[c] = NotCalled /\ op \in shift.ops /\ users[by] = "active"
    /\ called < shift.most /\ called' = called + 1
    /\ calls' = [calls EXCEPT ![c] = [op |-> op, step |-> step, by |-> by, n |-> called + 1,
                                      role |-> roles[by], about |-> about, args |-> args]]
    /\ crossed' = IF \E d \in UnderWay : calls[d].about = about THEN crossed \cup {about} ELSE crossed
    /\ chiefs' = (chiefs \/ (op \in Changing /\ \E d \in UnderWay : calls[d].op \in Changing))
    /\ UNCHANGED <<shift, roles, users, sellers, listed, items, ceilings, told, records, torn>>

\* recordAudit: after what it records, and outside its transaction.
Record(c, op) ==
    /\ Is(c, op, "audit")
    /\ records' = records \cup {calls[c].n}
    /\ Done(c)
    /\ UNCHANGED <<shift, roles, users, sellers, listed, items, ceilings, told, called, torn, crossed, chiefs>>

\* The process, or its connection to the database, goes away between two statements.
BreakOff(c) ==
    /\ "fail" \in shift.ops /\ c \in UnderWay
    /\ torn' = torn \cup {calls[c].n}
    /\ crossed' = crossed \cup {calls[c].about}
    /\ Done(c)
    /\ UNCHANGED <<shift, roles, users, sellers, listed, items, ceilings, told, records, called, chiefs>>

-----------------------------------------------------------------------------
(* POST /api/market/seller-applications *)

Pending(u) == \E i \in Papers : items[i].by = u /\ items[i].status = "pending"
NameTaken(name) == \E u \in People : sellers[u].name = name

\* Three reads, each of which may refuse; what holds is the index at the end.
CheckApplication(c) ==
    LET call == calls[c]
        refused == CASE call.step = "seller"  -> sellers[call.by] # NoSeller
                     [] call.step = "pending" -> Pending(call.by)
                     [] call.step = "name"    -> NameTaken(call.args.name)
                     [] OTHER                 -> FALSE
        next == [seller |-> "pending", pending |-> "name", name |-> "insert"]
    IN  /\ call.op = "apply" /\ call.step \in DOMAIN next
        /\ IF refused THEN Done(c) ELSE NowAt(c, next[call.step])
        /\ UNCHANGED <<shift, roles, users, sellers, listed, items, ceilings, told, records, called,
                       torn, crossed, chiefs>>

InsertApplication(c) ==
    LET by == calls[c].by
        free == {i \in Papers : items[i] = NoItem}
    IN  /\ Is(c, "apply", "insert") /\ free # {}
        /\ items' = IF Pending(by) THEN items
                    ELSE [items EXCEPT ![CHOOSE i \in free : TRUE] =
                            [kind |-> "application", by |-> by, name |-> calls[c].args.name,
                             status |-> "pending", decisions |-> {}]]
        /\ Done(c)
        /\ UNCHANGED <<shift, roles, users, sellers, listed, ceilings, told, records, called, torn, crossed, chiefs>>

-----------------------------------------------------------------------------
(* Decisions: on an application, a report, a review *)

Deciding == [decide |-> "application", resolve |-> "report", hide |-> "review"]
Open == {"pending", "open"}

ReadItem(c) ==
    LET call == calls[c]
    IN  /\ call.op \in DOMAIN Deciding /\ call.step = "read"
        /\ IF items[call.args.item].status \in Open \/ call.op = "hide"
           THEN NowAt(c, "commit") ELSE Done(c)
        /\ UNCHANGED <<shift, roles, users, sellers, listed, items, ceilings, told, records, called,
                       torn, crossed, chiefs>>

Settled(c) ==
    LET i == calls[c].args.item
    IN  [items EXCEPT ![i] = [items[i] EXCEPT !.status = calls[c].args.to,
                                              !.decisions = items[i].decisions \cup {calls[c].n}]]

\* One transaction: the guarded update, the notice, the seller's row with its
\* unique name.  A refusal by any of them undoes them all.
BugStillPending(i) == items[i].status # "none"
StillPending(i) == items[i].status = "pending"
DecideApplication(c) ==
    LET call == calls[c]
        item == items[call.args.item]
        approved == call.args.to = "approved"
    IN  /\ Is(c, "decide", "commit")
        /\ IF ~StillPending(call.args.item)
              \/ (approved /\ (NameTaken(item.name) \/ sellers[item.by] # NoSeller))
           THEN Done(c) /\ UNCHANGED <<sellers, items, told>>
           ELSE /\ items' = Settled(c)
                /\ told' = told \cup {call.n}
                /\ sellers' = IF approved
                              THEN [sellers EXCEPT ![item.by] = [name |-> item.name, status |-> "active"]]
                              ELSE sellers
                /\ NowAt(c, IF approved /\ call.args.limit THEN "limit" ELSE "audit")
        /\ UNCHANGED <<shift, roles, users, listed, ceilings, records, called, torn, crossed, chiefs>>

\* setPayoutLimit and its own audit record, in statements after the transaction.
GiveLimit(c) ==
    /\ Is(c, "decide", "limit")
    /\ ceilings' = ceilings \cup {items[calls[c].args.item].by}
    /\ NowAt(c, "audit")
    /\ UNCHANGED <<shift, roles, users, sellers, listed, items, told, records, called, torn, crossed, chiefs>>

ResolveReport(c) ==
    /\ Is(c, "resolve", "commit")
    /\ IF items[calls[c].args.item].status # "open" THEN Done(c) /\ UNCHANGED items
       ELSE items' = Settled(c) /\ NowAt(c, "audit")
    /\ UNCHANGED <<shift, roles, users, sellers, listed, ceilings, told, records, called, torn, crossed, chiefs>>

\* Hidden again if it is hidden: the update has no guard.
HideReview(c) ==
    /\ Is(c, "hide", "commit")
    /\ items' = Settled(c)
    /\ NowAt(c, "audit")
    /\ UNCHANGED <<shift, roles, users, sellers, listed, ceilings, told, records, called, torn, crossed, chiefs>>

-----------------------------------------------------------------------------
(* POST /api/moderation/users/:username/status, /api/admin/users/:username/role *)

\* A moderator does not change an administrator, and nobody himself.
BugReaches(c) == calls[c].about # calls[c].by
Reaches(c) ==
    /\ roles[calls[c].about] = "admin" => calls[c].role = "admin"
    /\ calls[c].about # calls[c].by

ReadTarget(c) ==
    /\ Is(c, "status", "target")
    /\ IF Reaches(c) THEN NowAt(c, "users") ELSE Done(c)
    /\ UNCHANGED <<shift, roles, users, sellers, listed, items, ceilings, told, records, called, torn, crossed, chiefs>>

SetUserStatus(c) ==
    /\ Is(c, "status", "users")
    /\ users' = [users EXCEPT ![calls[c].about] = calls[c].args.to]
    /\ NowAt(c, "sellers")
    /\ UNCHANGED <<shift, roles, sellers, listed, items, ceilings, told, records, called, torn, crossed, chiefs>>

SellerAfter(c) == calls[c].args.to

SetSellerStatus(c) ==
    LET u == calls[c].about
    IN  /\ Is(c, "status", "sellers")
        /\ sellers' = IF sellers[u] = NoSeller THEN sellers
                      ELSE [sellers EXCEPT ![u].status = SellerAfter(c)]
        /\ NowAt(c, "audit")
        /\ UNCHANGED <<shift, roles, users, listed, items, ceilings, told, records, called, torn, crossed, chiefs>>

SetRole(c) ==
    /\ Is(c, "role", "commit")
    /\ IF calls[c].about = calls[c].by THEN Done(c) /\ UNCHANGED roles
       ELSE roles' = [roles EXCEPT ![calls[c].about] = calls[c].args.to] /\ NowAt(c, "audit")
    /\ UNCHANGED <<shift, users, sellers, listed, items, ceilings, told, records, called, torn, crossed, chiefs>>

-----------------------------------------------------------------------------
(* POST /api/market/listings: requireSeller, then the insertion *)

RequireSeller(c) ==
    /\ Is(c, "list", "seller")
    /\ IF sellers[calls[c].by].status = "active" THEN NowAt(c, "insert") ELSE Done(c)
    /\ UNCHANGED <<shift, roles, users, sellers, listed, items, ceilings, told, records, called, torn, crossed, chiefs>>

InsertListing(c) ==
    /\ Is(c, "list", "insert")
    /\ listed' = listed \cup {calls[c].by}
    /\ Done(c)
    /\ UNCHANGED <<shift, roles, users, sellers, items, ceilings, told, records, called, torn, crossed, chiefs>>

\* The catalogue's condition on both tables.
Offered(u) == u \in listed /\ sellers[u].status = "active"

-----------------------------------------------------------------------------

Outcomes == [decide |-> {"approved", "rejected"}, resolve |-> {"actioned", "dismissed"}, hide |-> {"hidden"}]

DeskNext ==
    \E c \in Calls :
        \/ \E u \in People, name \in Names : Begin(c, "apply", u, "seller", u, [name |-> name])
        \/ \E u \in People : Begin(c, "list", u, "seller", u, [name |-> "none"])
        \/ \E op \in DOMAIN Deciding : \E i \in Papers, m \in People, to \in Outcomes[op], limit \in BOOLEAN :
               /\ roles[m] \in Staff /\ items[i].kind = Deciding[op] /\ (limit => to = "approved")
               /\ Begin(c, op, m, "read", items[i].by, [item |-> i, to |-> to, limit |-> limit])
        \/ \E m, u \in People, to \in {"active", "suspended"} :
               roles[m] \in Staff /\ Begin(c, "status", m, "target", u, [to |-> to])
        \/ \E m, u \in People, to \in {"user", "moderator", "admin"} :
               roles[m] = "admin" /\ Begin(c, "role", m, "commit", u, [to |-> to])
        \/ CheckApplication(c) \/ InsertApplication(c)
        \/ ReadItem(c) \/ DecideApplication(c) \/ GiveLimit(c) \/ ResolveReport(c) \/ HideReview(c)
        \/ ReadTarget(c) \/ SetUserStatus(c) \/ SetSellerStatus(c) \/ SetRole(c)
        \/ RequireSeller(c) \/ InsertListing(c)
        \/ \E op \in DOMAIN Deciding \cup Changing : Record(c, op)
        \/ BreakOff(c)

DeskSpec == DeskInit /\ [][DeskNext]_deskVars

-----------------------------------------------------------------------------
(* Properties *)

\* Whoever decides at the same time: an application and a report are decided
\* once, the applicant is told with the decision, whoever is approved trades
\* under the name he asked for and alone under it, a seller has no application
\* waiting unless two requests of his crossed, and every decision is on record
\* once its request is over, unless it broke off.  (moderation.ts: decide,
\* resolve, recordAudit; market.ts: seller-applications)
DecisionsStand ==
    LET made == UNION {items[i].decisions : i \in Papers}
    IN  /\ made \subseteq records \cup torn \cup {calls[c].n : c \in UnderWay}
        /\ \A i \in Papers :
               /\ items[i].kind \in {"application", "report"} =>
                      Cardinality(items[i].decisions) = (IF items[i].status \in Open THEN 0 ELSE 1)
               /\ items[i].kind = "application" => items[i].decisions \subseteq told
               /\ items[i].status = "approved" => sellers[items[i].by].name = items[i].name
               /\ items[i].status = "pending" /\ items[i].by \notin crossed => sellers[items[i].by] = NoSeller
        /\ \A u, v \in People : sellers[u] # NoSeller /\ sellers[u].name = sellers[v].name => u = v

\* Nobody can change his own role or status, nor a moderator an administrator's,
\* so that one administrator is always left, unless two such changes overlap:
\* administrators who demote each other at once both succeed.  (moderation.ts:
\* users/:username/status, users/:username/role)
AnAdminRemains == chiefs \/ \E u \in People : roles[u] = "admin" /\ users[u] = "active"

\* Nothing of a suspended account is in the catalogue, although its status, its
\* seller's status and its listings are written by different statements and an
\* application may be approved after the suspension; unless two requests about
\* the account overlapped or one broke off.  (moderation.ts: users/:username/
\* status; listings.ts: requireSeller; market.ts: GET listings)
SuspendedSellsNothing ==
    \A u \in People \ crossed :
        users[u] = "suspended" /\ (\A c \in UnderWay : calls[c].about # u) => ~Offered(u)

\* A status or role given by staff does what it says and leaves somebody to undo
\* it.  (moderation.ts: users/:username/status, users/:username/role)
StatusTakesEffect == AnAdminRemains /\ SuspendedSellsNothing

=============================================================================
