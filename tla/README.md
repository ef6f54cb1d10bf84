# A verification development of the marketplace

The repository is an escrow marketplace with an end-to-end encrypted messenger: a Fastify server
(`src/src/server`) on SQLite or PostgreSQL, a browser client (`src/src/client`), code both share
(`src/src/shared`), operator scripts (`src/scripts`), and a payout worker on another host
(`src/scripts/payout-worker.mjs`), the only process with a spend key. This directory holds TLA+ modules
of it, the TLC runs that check them on small instances, and TLAPS proofs of what matters most for every
instance. Paths below are relative to `src/src` unless they start with `src/`.

`tlc -config X.cfg M.tla` repeats a run (`PROJECT.json` says which module goes with which cfg),
`tlapm XProofs.tla` a proof. `PROJECT.json` also maps every definition that models code to the lines it
stands for, lists what is hard to test in this code with the properties about it (`hazards`), and gives
for every property one plausible mistake that it notices (`mutants`: the `Bug...` definitions, which no
specification uses).

Contents: [1 The system](#1-the-system) · [2 Modules](#2-modules) · [3 Runs](#3-runs) ·
[4 Proofs](#4-proofs) · [5 Findings](#5-findings) · [6 What is left](#6-what-is-left)

## 1. The system

| Component | State | Operations | Talks to | Module |
|---|---|---|---|---|
| Ledger `server/lib/ledger.ts` | `balances`, `ledger_entries` | `apply` and every movement of money | everything that touches money, in its transaction | `Ledger` |
| Payout tier `routes/{wallet,payouts,moderation}.ts`, worker | `withdrawals`, `withdrawal_approvals`, the worker's memory | ask, cancel, approve, refuse, claim, relay, report, resolve | ledger; the worker pulls over HTTP; wallet RPC | `Payouts` |
| Deposits, refunds, watcher `lib/{deposits,refunds,monero}.ts` | `deposits`, `deposit_addresses` | hand out an address, scan, credit, refund dust, compare books with wallet | ledger, payout tier, wallet RPC | `Payouts`, `Deposits` |
| Orders and escrow `routes/market.ts` | `orders`, `order_events` | place, accept, deliver, complete, dispute, cancel, settle | ledger, delivery, reports | `Escrow` |
| Bonds `lib/bonds.ts`, `routes/bonds.ts` | `sellers.bond_pico` | post, release after a cool-off, claim for a buyer | ledger, orders, reports | `Escrow` |
| Delivery `routes/deliveries.ts`, `client/views/orders.ts` | `deliveries`, keys in two vaults | upload, send the key, collect, forget | orders, messages | `Escrow`, `Handover` |
| Moderation `routes/moderation.ts` | reports, applications, roles, suspensions | decide, resolve, hide, suspend, promote | all of the above | `Desk`, `Market`, `Escrow` |
| Standing `lib/reputation.ts` | settled volume, level, penalty, rank of every listing | record a sale, decay, penalise, restore | orders, the daily job, moderation | `Market` |
| Listings, search `routes/market.ts`, `lib/{listings,search}.ts`, `client/views/market.ts` | `listings`, `listing_terms`, a screen | create, edit, remove, index, backfill, page | standing, moderation | `Market`, `Catalogue` |
| Sessions, credentials `routes/{auth,recovery}.ts`, `lib/{sessions,auth_flow}.ts` | `sessions`, challenges, link codes, PGP key, phrase | sign in, rotate, expire, revoke, enrol, recover, link | every route | `Gate`, `Accounts` |
| Accounts `routes/auth.ts` | `users`, `bootstrap_claims` | register, delete; reviews and ratings | money, orders | `Members` |
| Vault `client/{state,recovery,linking}.ts` | keys in the tab, in local storage, and as a backup | seal, save, sign in, change password, set phrase | accounts | `Vault` |
| Key directory `routes/keys.ts`, `shared/crypto/x3dh.ts` | devices, prekeys | publish, top up, claim, revoke | messages | `Mailbox` |
| Messages `routes/messages.ts`, `client/{messaging,incoming}.ts` | envelopes, sessions, histories | send, poll, accept an invite, save, acknowledge, expire | directory, ratchet | `Mailbox`, `Chat` |
| Double ratchet `shared/crypto/{ratchet,session}.ts` | chains, header keys, skipped keys | encrypt, decrypt, step | messages | `Ratchet` |
| Gate `server/app.ts`, `lib/{lockdown,rate_limit,pow,storage,send_tokens,jobs}.ts` | switches, buckets, spent puzzles, counts, and caches of them | let a request in, charge it, sweep | every route | `Gate` |
| Notifications `lib/notify.ts`, `routes` and `views/notifications.ts` | `notifications`, a screen | write, hint, page, mark, prune | everything that notifies | `Inbox` |
| Evidence, canary `lib/{evidence,canary}.ts` | digests, signed statements | commit, publish, show | orders, administrators | `Evidence`, `Canary` |
| Backups `src/scripts/backup*.mjs` | a folder of encrypted files, scratch files | create, verify, restore, prune, drill | the database | `Backups` |
| Metadata `shared/{media,isobmff}.ts` | – | strip a photograph or a video | delivery, chat | `Media` |
| Drivers `server/db/*` | connection, queue of transactions | `transaction`, single statements | everything | in each module |

What is hard, across the table:

* **Two databases, two kinds of concurrency.** SQLite has one handle and queues transactions on it
  (`db/sqlite.ts`); PostgreSQL interleaves them at READ COMMITTED (`db/postgres.ts`). A plain read
  inside a transaction may be stale when the transaction writes; a guarded `UPDATE` never is.
* **Check, then act.** Routes authorise on rows read before their transaction opens; the gate decides
  on answers it keeps for a while; a screen acts on what it last drew.
* **A peer that dies or does not answer.** The worker keeps what it claimed in memory only; a browser
  that lost an answer does not know whether the server did what it asked; a backup command is killed.
* **Several actors on one row**: owner, two administrators, worker and operator on a payout; buyer,
  seller, moderator and an upload on an order; two writers of one seller's standing.
* **Messages** lost, repeated and out of order between clients that save their state locally.
* **Caches and ceilings** that concurrent requests pass together.

What makes each part correct is in its module's *Properties* section and in the tables below.

## 2. Modules

```
Ledger ─┬─ Payouts ──── MCPayouts      implements Remittance     LedgerProofs ─┬─ PayoutsProofs
        └─ Escrow ───── MCEscrow       implements Trade                        └─ EscrowProofs
Gate, Desk, Market, Evidence, Canary ── MCServer                 GateProofs, RecordsProofs
Mailbox, Chat, Inbox ────────────────── MCWire                   WireProofs
Accounts ── Vault, and Members ──────── MCAccounts               AccountsProofs
Ratchet, Backups, Media, Deposits,
  Catalogue, Handover ───────────────── MCParts                  RatchetProofs, RecordsProofs, EscrowProofs
                                        Ratchet implements Channel
```

`MCServer` and the three below it put together components that share no state here: a behaviour picks one of
them and the others stay at rest, so that a run's states are the sum of its parts', not the product.

A handler is cut into steps at every `await` between which another handler can change what it relies
on; what it reads before stays with it in a record (`requests`, `calls`, `tasks`, `handlers`, ...), and
what its guarded statements say is evaluated again when they run. A crash, a timeout, a lost answer or a
refusal leaves what was committed before it. Amounts and times are small numbers, keys and signatures
are ideal, texts are model values.

**`Ledger`** — accounts, movements, the `WHERE` clause of `apply()` (`Covered`), its effect (`Apply`),
the rounding of the fee, and a sum over a table (`Total`). It has no state; `Payouts` and `Escrow` keep
the balances.

**`Payouts`** — money in, money out. The tables are `balances`, `deposits`, `withdrawals`, `approvals`
and a count of closing `entries` per payout; in flight are `requests` (`requestWithdrawal`,
`refundBelowMinimum`), `decisions` (`decideWithdrawal`), `workers` (a worker's memory) and `relays` (the
wallet). A transaction whose reads matter is two or three steps: `OpenTransaction` reads the clock and the
rolling sum, `CommitRequest` inserts and holds; `DecideRead`, `CountApprovals`,
`CommitApproval`/`CommitRejection`. The `Abandon...` actions are a rollback, whatever its reason. With
`Dialect = "sqlite"` no transaction begins while one is open (`MayBegin`). `Claim`, `Relay`, `Report...`
and `GiveUp` are the worker; `Resolve` is the operator. An account's ceiling is a variable, since an
administrator may change it at any time.
**`Remittance`** is what it promises an owner: an instruction never exceeds what is owed; it is paid, and
that much less is owed, or it lapses, and nothing changed.

**`Escrow`** — orders, files, reports, bonds. Each handler is a half that reads and checks
(`LookAtListing`, `AuthoriseMove`, `AuthoriseDelivery`, `CheckRelease`, `CheckClaim`), kept in `calls`,
and a half that commits (`PlaceOrder`, `MoveOrder`, `Deliver`, `ReleaseBond`, `ClaimBond`). `Refuse` is a
guard that failed, a crash or a timeout. Reports, acknowledging a file, the cool-off and posting a bond
are one step: their single transaction reads nothing that matters.
**`Trade`** is what it promises both sides: a deal is struck on money the buyer owns and has not promised
elsewhere, it ends once, paid or returned; a compensation moves money from seller to buyer only.

**`Gate`** — what a request passes before its handler: the freeze (`FreezeFromCache`, `AskFreeze`,
`KeepFreeze`), the session and its rotation (`Resolve`, `Rotate`, `EndSession`, `WithoutSession`),
the buckets (`TakeTicket`, `Spend`), the puzzle (`RequireWork`, `RedeemWork`), free space and the count
of blobs (`Ask...`, `Keep...`, `StoreBlob`), send tokens and their epoch, whose floor reads as 0 when the
statement fails (`AskEpoch`, `KeepEpoch`). The browser is `Send`,
`Deliver` and `LoseReply`; the operator `Freeze`, `Thaw`, `RevokeSendTokens`; the sweeps `Prune...`.
One account, one browser, one session at a time. A full or silent disk is the outside: it changes once,
while an upload is about to ask, and after it has answered once.

**`Desk`** — staff: applications, reports, reviews to hide, statuses and roles, and the seller on the
other side. Every statement of a handler is a step, its audit record too; `BreakOff` is a failure between
two of them.
**`Market`** — a seller's standing: `recordSettledSale` inside its transaction (`SettleSale`,
`SettleRow`, `SettleLevel`, `SettleRank` on SQLite, where single statements run between; one step on
PostgreSQL, where the first one locks the row), decay, penalty and restoration statement by statement,
and the listings whose rank key they write.
**`Evidence`** — digests committed beside a dispute, with the moment each handler took its time stamp.
**`Canary`** — statements signed at any time, handed in at any later time and again, by several
administrators whose keys change.

**`Mailbox`** — two browsers that write to each other in the channel of their order: keys and sessions
in memory (`mem`) and saved (`vault`), the directory and the message store. Sending is `AskBundle`,
`Encrypt`, `LookUpDevices`, `StoreEnvelope`, `SaveSent`; receiving `FetchEnvelopes`, `ProcessEnvelope`,
`PersistInbox`, `Acknowledge`, with polls of one browser overlapping. What the code is not built to
survive is counted in `accidents`, by name.
**`Ratchet`** — the double ratchet with encrypted headers, over a network that loses, repeats, reorders,
delays and alters. A root key is the sequence of the secrets mixed into it, a message key a chain and a
position. **`Channel`** is its promise: what is read was written, and is read once.
**`Chat`** — one conversation on a screen: key changes and their banner, disappearing messages, receipts,
blocking, deleting, and the two timers that poll behind it (the shell's and the view's). A poll is `Fetch`,
`EnvelopesCome`, `Handle` and `DirectoryAnswers`, then `Finish`, or `FinishFails` when it is not saved or
acknowledged. One's own receipts and typing signals are off; shipping details are left out; a note's number stands for its time.
**`Inbox`** — writers of notifications with the one unread hint, the sweep, and a screen that pages. A write
that fails for the moment, which `notifyQuietly` swallows too, is left out.

**`Accounts`** — sign-in, challenges, link codes, recovery, changes of password, PGP key and phrase,
statement by statement, each row marked with the credential it was minted `under` and with `overlap` when a
change came between its checks and its writing.
**`Vault`** — extends `Accounts` by the copies of the sealed vault (tab, local storage, server), which
wraps open it, and what browsers do with them. One tab per browser; a closed tab's answers are dropped;
the person types the password or phrase the server has at that time.
**`Members`** — registration, the founder's role, deletion beside money and orders, reviews and ratings.

**`Deposits`** — addresses, overlapping passes of the watcher over a chain that forks, and `solvency`, with
the network fees that payouts cost the wallet and no account.
**`Catalogue`** — index, cursor, edits, backfill by servers that start and stop, and the screen that pages.
**`Handover`** — a file or text, its key, the upload and the digest, two tabs of the seller and the
buyer's collection; attachments of a chat.
**`Backups`** — every command of the three scripts, several at once, killed at any step.
**`Media`** — the walk over JPEG, PNG, WebP and ISO media files, by kinds of parts; an item of an ISO file has
an extent inside the file, one outside it, or an empty one.

## 3. Runs

| Run | Asks | Result |
|---|---|---|
| `payouts_sqlite` | the payout tier on SQLite, and that a queued payout ends | passes, 254,888 distinct states |
| `payouts_postgres` | what holds when transactions interleave; the refinement of `Remittance` | passes, 123,610 |
| `escrow` | escrow, delivery, disputes, bonds; the refinement of `Trade` | passes, 289,366 |
| `server` | gate, desk, standing, evidence, canary | passes, 1,610,785 |
| `wire` | messages between two browsers, a conversation on a screen, an inbox | passes, 1,277,358 |
| `accounts` | credentials, vaults and backups; accounts that come and go | passes, 1,099,124 |
| `parts` | ratchet, backups, metadata, deposits, catalogue, handover | passes, 952,454 |
| `payouts_reject_race` | is a payout closed once on PostgreSQL? | no (finding 1) |
| `payouts_late_relay` | is a relayed payout never returned when an answer may come too late? | no (finding 2) |
| `escrow_bond_twice` | one compensation per order? | no (finding 3) |
| `escrow_bond_under_dispute` | does a bond stay while a dispute is open? | no (finding 4) |
| `inbox_payout` | is an owner told of a decided payout? | no (finding 5) |

**Properties of the payout tier.** `HeldBacksOpen` (what is held is the one open payout), `ClosedOnce`,
`BooksMatchWallet` relate balances, rows, entries and the wallet after any interleaving of owner,
administrators, worker and operator. `RelayedOnce` and `PaidNotReturned` are about crashes and lost
answers. `SignedRelease` and `ReleasesAreDue` are the two directions of dual approval, the second also
the rolling ceiling. `QueuedPayoutsClose` is liveness. `KeepsPromise` is the refinement.

**Escrow.** `MoneyAccounted`: what is held is open orders plus bond, nothing is created, an order's
escrow ends once and as its status says. `OrdersEndForGood`: an ended order stays ended and its file
goes, a disputed one is ended by a moderator who looked at the dispute. `KeepsTrade` is the refinement.

**Server.** `CookieStaysGood`: however requests cross midnight, the browser of a live session holds its
current token unless the reply with it is under way or lost. `SwitchesHold`: nothing gets past a switch
older than the cache's lifetime, but for the floor of send tokens within one lifetime of a read that failed. `LimitsHold`: buckets charged out of order, puzzles redeemed beside each
other, a ceiling checked on a cached count and a disk probed by overlapping uploads admit what the limits
say. `DecisionsStand` and `StatusTakesEffect`: an application is decided once, told and recorded; an
administrator always remains; nothing of a suspended account is on offer — except where two requests about
one account overlapped. `StandingIsEarned`, `RemovedStays`: no sale goes uncounted, a level is never above
what was earned, and a removed listing comes back only by an edit already under way. `BeforeDisputeIsTrue`,
`SilenceShows`.

**Wire.** `DeliveredOnce`: a message the server took and let go of is in its recipient's vault unless an
accident the model names happened, and only a reset session shows one twice. `RetiredKeysStayOut`: a
one-time prekey opens one session, and nothing new waits for a revoked device.
`ChangesAreAnnounced`, `ScreenKeepsUp`, `ReadWasDelivered`: what the reader is told of keys, messages and
receipts; `ScreenKeepsUp` names each way in which the panel falls behind. `ArrivalsAreHinted`: one unread hint says that messages wait, and a list paged to its end shows all of it.

**Accounts.** `StaleOnlyByOverlap`, `AnsweredOnce`, `KeyLeavesSigned` (below, proved),
`BackupFollowsItsOwner`: no sequence of saves, sign-ins, recoveries and lost answers puts other keys over
the owner's. `AccountsComeAndGo`: one founder, no money lost with an account, a record that tells what
happened.

**Parts.** `ReadsOnce` (the refinement of `Channel`) and `KeysLiveUntilRead` (a message on its way stays
openable, and its key is gone once it was read); `BackupsAreKept`; `OnlyMetadataGoes` (what is not disclosed
is gone, malformed still images and empty extents apart); `DepositsAddUp` (a transfer is worth something once,
and `solvency` reports a shortfall for no other reason than those the property lists, network fees among them);
`WalkShowsAll` (a reader who pages to the end meets every listing nobody touched once, beside edits and
backfills); `GoodsReachTheBuyer`.

### Bounds

*Payouts.* Two payout ids (one to race, one to meet its consequences: two in a row fill a rolling window,
the second is what a doubled return is paid from), two administrators (two signatures are the most the
code asks for), one transfer worth two payouts and one below the minimum; `DualAbove = 2`, so that a payout
of 3 needs both signatures and a refund of 1 one; ceilings 0 and 3, so that a payout is automatic or
parked. On SQLite two accounts, one worker that may lose its memory anywhere, two clock values and a window
of one. On PostgreSQL two workers that race for a claim and one account.

*Escrow.* Two users, two orders, two requests in flight (each race is between two), one odd price with a
rate of half, so that the fee is rounded, money for two orders or two stakes, one open report per order.

*The other runs* bound a behaviour by a record it draws at the start (`Traffics`, `Shifts`, `Seasons`,
`Mixes`, `Scenes`, `Feeds`, `Stories`, `Plans`, `Schemes`, `Visits`, `Deals`): which operations it
contains, how many, and which faults. The state space is then a sum of small ones, one per group of
operations that meet in the same rows, with enough calls in each for the longest overlap listed as a
hazard: two or three requests at once and one more that finds what they left. In particular: the gate has
two requests in flight of up to three sent, four ticks, days of two and caches of two, so that a
rotation, an expiry and a stale answer all occur; the ratchet three messages with a skip, a store and an
age of one; mail two or three messages, two overlapping polls and one or two faults of eleven kinds;
credentials up to six requests, the longest factor change; standing three days and up to four calls;
up to four backup commands, two at a time; media up to four parts, three boxes and two items, every
order of them; deposits up to two transfers, three blocks and a network fee of 0 or 1; the catalogue three
listings, pages of one, and in one behaviour either three pages asked for and a change of any kind, or one
page, two edits and a server that starts, or two pages, one edit and a server that starts, or two pages and
two servers that start.

No bound cuts a behaviour off in silence: one ends when its calls are spent, which is why `server`, `wire`,
`accounts` and `parts` switch the deadlock check off. The payout and escrow runs check it.

### Fairness

Only `QueuedPayoutsClose` needs any (`FairSpec` in `Payouts`). An open transaction ends, it commits or the
driver rolls it back on an error or its statement timeout: weak fairness of its steps. The worker polls for
ever, but each time another payout may be older or the worker busy: strong fairness of the claim. What it
does next is its own straight-line code: weak fairness of relaying or not, and of returning to its loop. It
is *not* assumed that a report arrives; the operator resolves a payout left in `sending`
(`src/docs/PAYMENTS.md`, the payout worker): strong fairness, since his request waits in SQLite's
first-come queue, where others may be ahead. Nothing is assumed of owners and administrators. All other
properties are safety, refinements included.

## 4. Proofs

`tlapm` checks every step of every proof; nothing is assumed but the `ASSUME`s of the modules, all of which
TLC evaluates. Each theorem is about the module's own specification, for every value of its constants:
any number of users, orders, payouts, workers, requests in flight, any amounts, windows and limits.

| Theorem | Says | Needs |
|---|---|---|
| `PayoutsProofs!TypeCorrect` | `[]TypeOK`: in particular no balance is ever negative | – |
| `PayoutsProofs!NoSecondRelay` | `[]RelayedOnce` | – (either database, late answers included) |
| `PayoutsProofs!ReleaseIsSigned` | `[]SignedRelease` | – (either database) |
| `PayoutsProofs!HoldsMatchPayouts` | `[]HeldBacksOpen` | `Dialect = "sqlite"` |
| `PayoutsProofs!LedgerClosesOnce` | `[]ClosedOnce` | `Dialect = "sqlite"` |
| `PayoutsProofs!PaidIsNotReturned` | `[]PaidNotReturned` | `Dialect = "sqlite"`, `~LateRelay` |
| `PayoutsProofs!ReleasedWhenDue` | `[]ReleasesAreDue` | `Dialect = "sqlite"` |
| `PayoutsProofs!BooksMatch` | `[]BooksMatchWallet` | `~LateRelay` (either database) |
| `PayoutsProofs!KeepsThePromise` | `KeepsPromise`: `Payouts` implements `Remittance` | `~LateRelay` (either database) |
| `EscrowProofs!TypeCorrect` | `[]TypeInv` | – |
| `EscrowProofs!EscrowAccounted` | `[]MoneyAccounted` | – |
| `EscrowProofs!EndsForGood` | `OrdersEndForGood` | – |
| `EscrowProofs!EscrowKeepsTrade` | `KeepsTrade`: `Escrow` implements `Trade` | – |
| `AccountsProofs!NothingStale` | `[]StaleOnlyByOverlap` | – |
| `AccountsProofs!KeySignedAway` | `KeyLeavesSigned` | – |
| `AccountsProofs!GoodOnce` | `[]AnsweredOnce` (which itself speaks of SQLite) | – |
| `GateProofs!TypeCorrect` | `[]TypeInv` | – |
| `GateProofs!CookieHolds` | `[]CookieStaysGood` | – |
| `GateProofs!SwitchesTakeEffect` | `[]SwitchesHold` | – |
| `GateProofs!LimitsHoldTogether` | `[]LimitsHold` | `BucketAssumption` |
| `RatchetProofs!TypeCorrect` | `[]TypeInv` | – |
| `RatchetProofs!RatchetReadsOnce` | `ReadsOnce`: `Ratchet` implements `Channel` | – |
| `RatchetProofs!RatchetStaysInStep` | `[]KeysLiveUntilRead` | – |
| `RecordsProofs!MomentsAreTrue` | `[]BeforeDisputeIsTrue` | – |
| `RecordsProofs!CanaryKeepsOn` | `SilenceShows` | – |
| `RecordsProofs!LevelsAreEarned` | `[]StandingIsEarned` | – (either database), `LevelsAssumption` |
| `RecordsProofs!RemovedListingsStay` | `RemovedStays` | – (either database) |
| `RecordsProofs!DecidedForGood` | `[]DecisionsStand` | `NamesAssumption`, `ShiftsAssumption` |
| `RecordsProofs!StatusHolds` | `[]StatusTakesEffect` | `NamesAssumption`, `ShiftsAssumption` |
| `EscrowProofs!GoodsReach` | `GoodsReachTheBuyer` | – |
| `WireProofs!PanelKeepsUp` | `ScreenKeepsUp` | `ChatAssumption` |
| `WireProofs!ReadIsDelivered` | `[]ReadWasDelivered` | `ChatAssumption` |
| `WireProofs!ChangesAnnounced` | `[]ChangesAreAnnounced` | `ChatAssumption` |
| `WireProofs!MailInOrder` | `[]MailTyped`, the types of `Mailbox` and how its variables hang together | the five assumptions of `Mailbox` |
| `WireProofs!MailIsDelivered` | `[]DeliveredOnce` | the same |
| `WireProofs!KeysStayOut` | `[]RetiredKeysStayOut` | the same |
| `AccountsProofs!AccountsInOrder` | `AccountsComeAndGo` | `StoriesAssumption` |
| `AccountsProofs!VaultFollows` | `[]BackupFollowsItsOwner` | `MixesAssumption`, `BrowsersAssumption` |
| `RecordsProofs!BackupsStay` | `[]BackupsAreKept` | `RetentionAssumption`, `PlansAssumption` |

The conditions are not convenience. `payouts_reject_race` and `payouts_late_relay` show what fails without
`Dialect = "sqlite"` and `~LateRelay`; `ReleasesAreDue` fails on PostgreSQL as section 5 says.
`BucketAssumption` (`Burst <= PerTick * (DayTicks + 1 - Patience)`) says that a bucket refills within what
is left of a day after a request's patience: `pruneRateLimits` deletes a bucket idle for a day, and a
deleted bucket is a full one. Of the defaults of `rate_limit.ts` that of uploads takes longest, about an hour; a
`RATE_LIMITS` override that takes about a day or longer would be refilled early by the sweep.
`LevelsAssumption` says that the ladder of `reputation.ts` is a finite list numbered from 1. `ShiftsAssumption`
says where a behaviour of `Desk` may begin: with an administrator, with what is filed undecided, and with at
most one application of a person, who does not sell yet; `NamesAssumption`, that an absent row has no name.
The assumptions of `Mailbox` say that there are two ends, that messages are numbered from 1, that bounds are
numbers, and that `None` is not a session or a letter.

### How the invariants grow

A safety property of these modules is hardly ever inductive. Each was strengthened to an invariant that
TLC checked on an instance first, and that every action was then shown to preserve.

*Payouts.* `TypeInv` = `TypeOK` and `DecisionsHaveRows`: a decision in flight is about a payout that has
a row, since its refusal returns that row's amount to that row's owner. `ApplyType` (in `LedgerProofs`)
carries the arithmetic: what `Covered` lets through leaves every total natural. `RelayInv` adds that the id
of a request in flight has no row, and `WorkerInv`: the payout a worker holds is in `sending`, no two
workers hold one, and one only claimed was never relayed — a claim starts from `queued` and nothing returns
there. `SignInv` says that the count a decision holds is still covered when it commits, since signatures are
only added. `BooksInv` is for one transaction at a time: `Serial` (one is open; the row a decision read has
not moved) and `HoldInv`, the hold of an account without a sum.

*Books and wallet* (`PayoutsProofs`). `MoneyInv` adds to `RelayInv` what a refund under way relies on:
`ClaimsInv` (its transfers are uncredited, its own, and it asks for what they are worth) and `ReportInv` (a
worker about to report success did relay). With it each action moves the same amount on both sides of the
equation, by the lemmas on sums over part of a table (`AmountIn`, `ValueOf`). The refinement maps every
action to `Remittance`'s instruct, pay or lapse, or to a stutter.

*Due* (`PayoutsProofs`). `OutflowInv` (what left each account by itself in the window is within some ceiling) is
not inductive while a request holds a sum it read: `AskInv` says that this sum still covers the rows it was
taken over, which is where one transaction at a time is needed, and `ParkInv` that a parked row lacks
signatures and that whoever counted has it right.

*Escrow.* `TypeInv` includes `CallOK`, what a handler knew when it authorised and can still rely on, and
`FilesOK`. `MoneyAccounted` is then inductive beside it; the work is in the sums: what an account has
committed (`Committed`) changes by one order's price exactly when that order opens or ends, and the total
of all accounts by nothing (`TotalChange`, `TotalChangeTwo`, `TotalConstant` in `LedgerProofs`). `Trade`
sees none of the holds; that a deal is struck on money not promised elsewhere comes from `MoneyAccounted`.

*Accounts.* `StaleInv`: while nobody is about to revoke, every request, session and ticket stands under the
newest credential or was marked by a change; and whoever is about to revoke does so too, so that what it
spares is fresh. `KeyInv`: a request that will change the key works with the account's key or has been
marked since it looked, and what signed is the key it looked up. `TicketInv`: a ticket lies in the table, or
one request holds it, or it has been used.

*Gate.* `CookieInv` follows the session's token from the compare-and-swap that made it to the browser:
tokens are numbered as they are made; a reply with a token carries the last one made, and until it arrives
nobody else has that one, so no request can rotate it (`OneAhead`); the last one is in the jar, under way or
lost (`LastReaches`); a reply that clears the cookie leaves after its session (`ClearedLast`).
`SwitchInv` dates each answer, kept or on its way: the freeze, and every raise of the floor, that it does
not know of came after the question was asked; a floor that was not read knows of none, and says so. `LimitInv` has four parts. `BucketInv`: what a bucket holds plus what it was
charged is at most the burst and the refill since the first charge, as of its latest stamp, and a bucket the
sweep dropped would be full for any request still within its patience. `WorkInv`: an accepted challenge has
its receipt for as long as it is valid. `SpaceInv`: the cached answer, the probes under way and the count of
failures bound what can be overlooked. `BlobInv`: a count knows every row but those stored since, and
uploads let past have their places.

*Ratchet.* A delivery is first brought into one of three shapes (`Outcomes`): a stored key is spent, the
chain reaches the message (`Moved`: what is skipped is stored or destroyed), or both directions turn and the
new chain reaches it. `OnceInv` says that chains only grow, so that a key read is behind its chain and not
stored: it cannot open again. `SyncInv` is about both ends at once: the end that turned last (`lead`) is
exactly one step ahead of the other (`InStep`); each header key names one chain of one direction, in the
messages, the stored keys and the two states alike (`Matched`); the header keys to come are new (`Unused`,
by the length of the root they were derived with); and a message stands on its sender's chain, on the one
before it, or is settled (`Placed`). A delivery preserves it as at most three steps, each with its own lemma: the
old chain moves on (`AdvanceSync`), the ends change places (`TurnSync`), the new chain moves on.

*Vault.* `KeysInv` is about whose keys a copy holds: every tab, local copy, request under way and the backup
have the first browser's, or a linked one's own, which it never uploads while `OneOwner` holds. `PasswordInv` and
`PhraseInv` say what the wraps are for. They speak of the backup, of each session and of each request at once:
what a request carries is up to date unless it was overlapped (`Undisturbed`), and while nobody is about to
revoke (`Quiet`) every tab with a session holds keys wrapped for what its owner has now (`SessionNow`,
`SessionPhrase`). A change of the password revokes the sessions that would not. `SessionsOk` and `TabsOk` are
what they rest on: a session is one browser's, and a browser has one sign-in under way.

*Members.* `Emptied` follows a deletion: one that nothing met is of an account without money and, once it
looked at the orders, without open ones. `HeldCovers` says that an account holds at least what its open orders
cost — not exactly that, since a deletion that was met may leave a buyer's hold behind — so that ending one
takes from a hold that is there, and a step changes both by the same (`Tally`). Of several visible reviews of
one buyer the latest counts; there is one as orders are numbered (`SomeGreatest`), so that nobody has two
voices or loses the one.

*Evidence and canary* (`RecordsProofs`). No handler is ahead of the clock, and what it stamped lies between
its beginning and now (`HandlerOK`); the dispute has one date, known as soon as the order is disputed
(`DisputedAt`). `CanaryInv` carries a check made before an insertion over the administrators' `await`s: a
statement about to be inserted was fresh at the moment it was checked against, and is of the pinned key.

*Standing.* `EarnedInv` bounds every level that is stored or about to be written by what has been earned so
far; it is inductive because a ladder only grows with sales and orders (`LevelGrows`), so that a stale row
earns no more than the present one. `PenaltyInv` counts the penalties under way. `FreshInv` holds while no two
writers overlapped: what the one writer has read is still the row, and a rank that differs is its to write.
`RemovedInv`: an edit of a listing that is removed knows that it was overtaken.

*Staff.* A step first falls into one of eleven kinds (`DeskKinds`), each with what it does to the requests and
the items. `Numbered` gives each request a number and each decision the request that made it, which has only
its record left to write; `DecidedOnce`, `NamesHold` and `OneWaits` then follow from the guards of the one
transaction. `Neighbours` says what a request has seen of the account it is about (`Informed`): it still holds
unless another request was about the same account (`Apart`), so a listing is inserted for an active seller, an
application for nobody's seller, and the second statement of a suspension reaches the status the first one
set (`StatusFollows`). `Chief`: while no two changes overlapped, whoever is about to change a role or a status
is still active and what he was when he asked (`InOffice`), and never about himself.

*Backups.* `RetentionFloor` counts what was finished, and a prune works from a list it made before other prunes
and creations changed the folder. `FloorBehind` says what is left true of that list: each file on it still has
`--keep` files after it, since a file behind it that another prune removes has as many behind itself
(`RemovedBefore`). So nothing is removed before there are `--keep` files, and there are as many ever after; up to
then (`NothingRemoved`) every finished backup is there, and a file being written has one writer. `CopiesOk` says
at which steps a command has a copy in the clear.

*Handover* (`EscrowProofs`). What has left the seller's tabs is gathered in one set (`Given`: stored, on its
way, collected, about to be opened), which only an accepted upload adds to. `OwnIds`: an attachment is stored
under the number of its own key. `OneKey` and `NoneYet`: the order's id is given one key, with the status.
`KeysAreSomewhere`: the key of a stored file is in the ring, in the channel, in the hands of the tab that
uploaded, or lost by something the model names.

*Chat.* The shape comes first: notes are numbered as they are written and a poll works through them in
that order (`Numbered`, `PollsOk`). `ScreenInv`: unless something the property excepts is owed, the panel is
up to date, or the view's poll has its answer and knows that it has to redraw. `ReadInv` follows the receipts: what is
on its way to the peer is newer than what arrived, a receipt names a message that arrived, and only messages
that left are shown as mine. `KeysInv`: the devices of one lookup are of one installation (`Alike`), and what
a conversation knows is what it began with, what was dismissed and what is announced, as a replacement if
one of these is newer than all before it (`TalkKeys`).

*Mailbox.* `MailInv` holds whatever happens. A letter is for the peer of who wrote it, what lies in an inbox
or a poll is for its owner, and keys handed out were made. `KeepsOk` is about what a browser holds, and is
asked of the vault as of the memory: its session was opened by a letter, and the one-time prekey that opened
it is held no more, which is why a replay of the opening envelope fails unless there was none; until that
happens (`Calm`) a message in the history is there once, and its place in the session is read.
`AcceptedOk` carries that over the sessions a vault ever held, through restarts that bring an older vault back;
`RevokedOk` dates what may still come to a revoked device. `QuietParts` holds until the first accident, and an
action that causes one has nothing more to show. There is one opening (`OneOpening`) and one session; the
opening envelope lies first in the inbox and in each poll until it was handled (`OpeningFirst`,
`InboxInOrder`, `PollsInOrder`), so that each envelope opens; what was read was shown, and the vault is behind
the memory by that alone (`ReadWasShown`, `VaultBehind`); and a letter that arrived waits, is in a poll that
will save it before it acknowledges, or is saved (`NothingLost`). The case that costs most is a poll that
overlaps another one and acknowledges what the other has read.

### Only model-checked

* `QueuedPayoutsClose`: liveness and `ENABLED` are beyond the prover.
* What recursive definitions compute for every input (the walk in `Media`): the
  library's induction theorems take an operator as a parameter, which no installed prover instantiates.
* The properties of `Inbox`, `Deposits`, `Catalogue` and `Media`: not proved
  so far. `Deposits` sums over a chain with an operator as a parameter and `Catalogue` sorts; both meet the
  limit just named.

## 5. Findings

Each of these has a run in which TLC shows it.

1. **A refusal returns a hold twice on PostgreSQL** (`payouts_reject_race`). `decideWithdrawal` reads
   the row, and its refusal branch (`server/lib/ledger.ts:474-504`) runs the guarded `UPDATE` without
   looking at whether it changed a row, then applies `withdrawal_returned`. Two refusals, or a refusal
   and a cancellation, that read before either commits both return the hold, the second one out of
   whatever the account has on hold by then.
2. **A late answer is taken for a failure** (`payouts_late_relay`). The worker's 120-second limit on
   `transfer` aborts the call, not the transfer; `sendOne` reports it as failed, and the owner gets
   both the coins and the balance back. `LateRelay` is off in the other runs.
3. **Two compensations for one order** (`escrow_bond_twice`). `alreadyClaimed` is asked before the
   transaction and no index or statement repeats it.
4. **A bond released under a dispute** (`escrow_bond_under_dispute`). `releaseBond` repeats inside its
   transaction only that there is a bond, not that nobody argues.
5. **No owner is told of a decided payout** (`inbox_payout`). The notice has the kind `payout`, which the
   `CHECK` of migration 009 refuses, and `notifyQuietly` swallows the refusal.

Seen while modelling, without a run of their own. The models contain what they say; where a property
would fail by it, the property excepts it by name.

*Money.* Two first signatures on PostgreSQL may each count one and leave a payout parked with both; there
too the rolling sum may be stale when it is used. A single administrator may raise an account's automatic
ceiling above the amount two must sign for. A refund that is cancelled or refused turns transfers that were
never to be credited into spendable balance. A top-up of a bond between the checks of a release and the
release skips its cool-off; `postBond` locks its rows in the opposite order of the other two. An order may be
placed at a price or a status its listing no longer has. `solvency` (`deposits.ts`, "exactly two causes") is
also alarmed by the network fee of every payout, which the wallet pays and `markWithdrawalSent`
(`ledger.ts:595-624`) charges to no account, until the operator puts it into the wallet
(`src/docs/PAYMENTS.md:82-91`); by a payout relayed but not reported; and by a fork that takes back a small
top-up. Dust refunded between its two reads is counted in neither.

*Gate.* `minEpoch` (`send_tokens.ts:60-67`) takes any failure of its statement for "no table": the floor is 0
and stays 0 for the cache's two seconds, in which tokens revoked long ago are accepted; a token minted then
carries epoch 0 and is refused afterwards.

*Accounts.* On PostgreSQL two requests may both use one challenge or one link code. Account deletion asks for
balance and open orders outside its transaction: an order placed in between is deleted and its buyer's hold
stays; a deposit credited in between goes with the account. The last administrator may delete their account,
and the founder's claim stays taken. Two administrators who demote or suspend each other at once both
succeed. An application of a suspended account can be approved; a pending one of an account that sells
already never can. Overlapping suspend and reinstate may leave user and seller status different; a repeated
suspend costs a penalty each time. Standing "cannot drift apart" (`reputation.ts:107`) but does when its
writers overlap. `PATCH` of a listing may resurrect one that was removed meanwhile.

*Vaults.* `changePassword` replaces the wraps in memory before the server accepts (against
`state.ts:402-406`); a lost answer leaves the local copy unopenable. `setRecoveryPhrase` does not rewrite the
local copy, so that a later sign-in uploads the old phrase's wrap and the new phrase opens nothing (against
`client/recovery.ts:7-8`). A browser with a local copy cannot sign in after the password was changed
elsewhere. A linked browser's device password must match after all (`run()` derives both from one), and one
that changes the password or sets a phrase uploads its own vault over the backup (against `state.ts:283-286`). A recovery with no
backup, or none under the phrase, starts a vault without a phrase wrap while the server keeps the recovery key.

*Messages.* When a conversation's first post fails, is late or is overtaken, later ones carry no invite and
cannot be opened. Crossed first messages in an order's channel overwrite each other's session, and the next
message does not start a new one (against `messaging.ts:542-546`). A replayed invite of a bundle without a
one-time prekey resets the session, and its message is stored twice (against `messaging.ts:622-623`): a lost
acknowledgement is enough, and `MailIsDelivered` shows that nothing else stores one twice. A directory failure on
an opening envelope loses the second one of the same poll. No caller keeps the old signed prekey "briefly"
(`identity.ts:129`). `publishDevice` may insert claimed one-time prekeys again. A sender that stops between
post and save uses a chain position twice. What the shell's poll brings, prunes or announces is not drawn by
the open chat, and `receiveMessages` prunes a second time after its request (`messaging.ts:408`) where the view
does not hear of it: either way an expired message stays on screen (against `chat.ts:548`,
`src/docs/DELETION.md:27-28`). Messages whose saving or acknowledgement fails are in the vault of the open page
and are not drawn, since `then` at `chat.ts:554` does not run;
a failed send or an envelope that noted a key without a message draws no banner; dismissing an old banner
clears a change that grew since. A delayed message is marked read when a later one was; a lost receipt is never
sent again. A message that arrives for a conversation deleted while its poll waits is acknowledged and lost.

*Delivery.* The server's copy goes as soon as a text is shown, not when the dialog is closed (`orders.ts:437`).
A delivery whose upload answer or key is lost leaves the order delivered with no way to send the key again; one
marked delivered by hand shows "waiting for the key" for ever; a disputed order's list offers no collection
though the server would still serve the file; the key's envelope may expire long before the file.

*Screens.* A late answer of an earlier search replaces or joins later results; "Show more" uses the text now in
the box with the old cursor; a failed "Show more" of the inbox clears the list; "mark all as read" marks what
arrived after the list was shown; a hint refreshed between two pages is missed.

*Operations.* `inspect()` of `backup.mjs` exits the process inside its `try`, and scratch files are written
before it, so that a plaintext copy can be left (against `src/docs/BACKUPS.md`); a file cut off by a crash
counts for `--keep`; a name with the suffix `-1` sorts before its own base. A backfill cut off leaves a listing
with some of its words for good, and one that read a listing before its text was edited writes the old words
over the new ones (`search.ts:120-127`), so that a search for a new word misses it until the next edit; two servers that boot at once on PostgreSQL: the second dies of the duplicate
word. A malformed JPEG, PNG or WebP is sent with its metadata and without a warning (against
`media.ts:202-209`); of an image whose `iloc` gives a metadata item an extent of length 0 or of no readable
length that item is left, and the file counts as handled (`isobmff.ts:237-245`, against lines 17-20); a file with both `moov` and an image's `meta` has its image spine blanked; what lies between
a JPEG's first scan and its end is kept. Two canaries published at once may carry the same signing day; a
commitment made while a dispute's transaction waits is shown as after it; the maximum of commitments is
checked before the insert.

On SQLite a statement outside a transaction runs inside whichever transaction is open on the handle. `Market`
models that. The other modules take such a statement as lasting: no transaction body awaits anything but the
driver, so it takes a rollback of one request in the same turn of the event loop for that to matter.

## 6. What is left

Not modelled: rendering, headers, configuration, health, static files, input validation; byte formats (QR,
encodings, padding, the mnemonic), parsing of PGP packets and of the wallet's answers; metrics, logs and
security events, which nothing above reads; migrations and pooling; release, audit, SBOM and the client's
build. They keep no state another component's correctness depends on, or are I/O. Several tabs of one browser
holding one vault (`Vault` has one); more than one device per user in `Mailbox`; two uploads that race to insert
an account's first backup (`Vault` takes an upload as one step).
