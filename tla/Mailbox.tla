------------------------------ MODULE Mailbox ------------------------------
(***************************************************************************)
(* Two people who write to each other in the channel of their order: the   *)
(* browser of each, with its keys and sessions in memory and in its vault, *)
(* the key directory and the message store between them.                   *)
(*                                                                         *)
(* Code: src/client/messaging.ts, incoming.ts and state.ts; the routes     *)
(* src/server/routes/keys.ts and messages.ts; src/shared/crypto/session.ts *)
(* and x3dh.ts.                                                            *)
(*                                                                         *)
(* A session is named by the message that opened it, with the prekeys of   *)
(* the handshake.  Inside one, a message opens once, whatever the order:   *)
(* that is the promise Ratchet shows the double ratchet to keep (module    *)
(* Channel).  What this module asks is whether both ends hold that session *)
(* when the message arrives.                                               *)
(*                                                                         *)
(* A request and its handler are one step unless another call may come     *)
(* between the handler's own steps; polls of one browser overlap.          *)
(***************************************************************************)
EXTENDS Naturals, Sequences, FiniteSets, SequencesExt, FiniteSetsExt

CONSTANTS
    Ends,       \* the buyer and the seller, one device each
    Messages,   \* 1..n, in the order they are written
    Mixes,      \* bound: the messages of a behaviour, the polls of a browser at
                \* once, the kinds of faults, and how many faults
    MaxKeys,    \* bound: one-time prekeys of a device
    LowWater,   \* one-time prekeys below which publishDevice makes more
    None

ASSUME NoneAssumption ==
    LET Session == [first : Messages, by : Ends, spk : Nat, otp : Nat]
    IN  None \notin Session \cup [to : Ends, session : Session, at : Nat, opening : BOOLEAN]
ASSUME EndsAssumption == \E a, b \in Ends : a # b /\ Ends = {a, b}
ASSUME MessagesAssumption == Messages \subseteq Nat \ {0}
ASSUME MixesAssumption == \A x \in Mixes : x.messages \in Nat /\ x.polls \in Nat /\ x.most \in Nat
ASSUME KeysAssumption == MaxKeys \in Nat /\ LowWater \in Nat

VARIABLES
    mix, faults,    \* the bounds of this behaviour and the faults so far
    mem, vault,     \* end -> what its browser holds, and what it last saved
    directory,      \* end -> its row of devices, with its one-time prekeys
    inbox,          \* end -> place -> an envelope for its device, the oldest first
    sends,          \* message -> how far sendPayload is with it
    letters,        \* message -> its place in a session, once encrypted
    polls,          \* end -> poll -> what it fetched and has not handled yet, by place
    publishing,     \* end -> the keys publishDevice has on the wire
    accidents,      \* what has happened that the code does not survive
    accepted,       \* sessions opened by the peer that a vault ever held
    late            \* end -> messages past the device check at its revocation

vars == <<mix, faults, mem, vault, directory, inbox, sends, letters, polls,
          publishing, accidents, accepted, late>>
server == <<directory, inbox, late>>
browser == <<mem, vault, accepted>>

Peer(e) == CHOOSE p \in Ends : p # e
Unwritten == [step |-> "new", by |-> None, live |-> FALSE, spk |-> 0, otp |-> 0]
Idle == [step |-> "idle", left |-> <<>>, handled |-> {}]

\* A browser that has made its keys and has not talked to anybody yet.
NewDevice ==
    [session |-> None, next |-> 0, read |-> {}, known |-> FALSE, blocked |-> FALSE,
     history |-> [m \in Messages |-> 0], spk |-> 1, otps |-> {1}]

Init ==
    /\ mix \in Mixes
    /\ faults = 0
    /\ mem = [e \in Ends |-> NewDevice]
    /\ vault = mem
    /\ directory = [e \in Ends |-> [spk |-> 1, otps |-> {1}, made |-> 1, revoked |-> FALSE]]
    /\ inbox = [e \in Ends |-> <<>>]
    /\ sends = [m \in Messages |-> Unwritten]
    /\ letters = [m \in Messages |-> None]
    /\ polls = [e \in Ends |-> [i \in 1..mix.polls |-> Idle]]
    /\ publishing = [e \in Ends |-> None]
    /\ accidents = {}
    /\ accepted = {}
    /\ late = [e \in Ends |-> {}]

\* A fault of this kind, within the bounds.
Fault(kind) == kind \in mix.kinds /\ faults < mix.most /\ faults' = faults + 1

\* persistVault: the whole vault is sealed and stored, whoever asks for it.
Saves(e, kept) ==
    /\ mem' = [mem EXCEPT ![e] = kept]
    /\ vault' = [vault EXCEPT ![e] = kept]
    /\ accepted' = accepted \cup {s \in {kept.session} \ {None} : s.by # e}

Shown(kept, m) == [kept EXCEPT !.history[m] = @ + 1]

-----------------------------------------------------------------------------
(* Sending *)

\* The bundle names the peer's device and takes one of its one-time prekeys.
AskBundle(e, m) ==
    LET p == Peer(e)
        claimed == IF directory[p].otps = {} THEN 0 ELSE Min(directory[p].otps)
    IN  /\ sends[m].step = "new"
        /\ m <= mix.messages
        /\ \A n \in 1..(m - 1) : sends[n].step # "new"
        /\ ~mem[e].blocked
        /\ ~directory[p].revoked
        /\ directory' = [directory EXCEPT ![p].otps = @ \ {claimed}]
        /\ sends' = [sends EXCEPT ![m] = [step |-> "bundle", by |-> e, live |-> TRUE,
                                          spk |-> directory[p].spk, otp |-> claimed]]
        /\ UNCHANGED <<mix, faults, mem, vault, inbox, letters, polls, publishing, accidents,
                       accepted, late>>

OpenedBefore == \E n \in Messages : letters[n] # None /\ letters[n].opening

\* x3dhInitiate: the session m opens, with the prekeys the bundle named.
Initiated(m) == [first |-> m, by |-> sends[m].by, spk |-> sends[m].spk, otp |-> sends[m].otp]

\* The session in memory moves on; the vault learns of it when the post is answered.
Encrypt(m) ==
    LET e == sends[m].by
        opening == mem[e].session = None
        session == IF opening THEN Initiated(m) ELSE mem[e].session
        at == mem[e].next + 1
    IN  /\ sends[m].step = "bundle"
        /\ mem' = [mem EXCEPT ![e].session = session, ![e].next = at, ![e].known = TRUE]
        /\ letters' = [letters EXCEPT ![m] = [to |-> Peer(e), session |-> session, at |-> at, opening |-> opening]]
        /\ sends' = [sends EXCEPT ![m] = [Unwritten EXCEPT !.step = "posted", !.by = e, !.live = TRUE]]
        /\ accidents' = accidents \cup (IF opening /\ OpenedBefore THEN {"reopened"} ELSE {})
        /\ UNCHANGED <<mix, faults, vault, directory, inbox, polls, publishing, accepted, late>>

\* The post is lost or refused: what it moved in memory stays moved.
PostFails(m) ==
    /\ sends[m].step = "posted"
    /\ Fault("post")
    /\ sends' = [sends EXCEPT ![m] = [Unwritten EXCEPT !.step = "failed"]]
    /\ accidents' = accidents \cup (IF letters[m].opening THEN {"unposted"} ELSE {})
    /\ UNCHANGED <<mix, mem, vault, directory, inbox, letters, polls, publishing, accepted, late>>

LookUpDevices(m) ==
    LET revoked == directory[letters[m].to].revoked
    IN  /\ sends[m].step = "posted"
        /\ sends' = [sends EXCEPT ![m] = IF revoked THEN [Unwritten EXCEPT !.step = "failed"]
                                         ELSE [@ EXCEPT !.step = "checked"]]
        /\ UNCHANGED <<mix, faults, mem, vault, directory, inbox, letters, polls, publishing,
                       accidents, accepted, late>>

\* Whether the message that opened m's session can still come before m.
Overtaken(m) ==
    LET first == letters[m].session.first
        p == letters[m].to
    IN  /\ first # m
        /\ \/ sends[first].step \in {"posted", "checked"}
           \/ \E i \in DOMAIN inbox[p] : inbox[p][i].m = first /\ inbox[p][i].held

\* The rows of an inbox are numbered as they arrive.
Put(box, envelope) ==
    LET place == Max(DOMAIN box \cup {0}) + 1
    IN  [i \in DOMAIN box \cup {place} |-> IF i = place THEN envelope ELSE box[i]]

\* The sender may have asked for the envelope to be held back for a while.
StoreEnvelope(m, held) ==
    LET p == letters[m].to
    IN  /\ sends[m].step = "checked"
        /\ IF held THEN Fault("delay") ELSE UNCHANGED faults
        /\ inbox' = [inbox EXCEPT ![p] = Put(@, [m |-> m, held |-> held])]
        /\ sends' = [sends EXCEPT ![m].step = "stored"]
        /\ accidents' = accidents \cup (IF Overtaken(m) THEN {"overtaken"} ELSE {})
        /\ UNCHANGED <<mix, mem, vault, directory, letters, polls, publishing, accepted, late>>

Release(e) ==
    \E i \in DOMAIN inbox[e] :
        /\ inbox[e][i].held
        /\ inbox' = [inbox EXCEPT ![e][i].held = FALSE]
        /\ UNCHANGED <<mix, faults, mem, vault, directory, sends, letters, polls, publishing,
                       accidents, accepted, late>>

\* The answer: the message joins the sender's history and the vault is saved.
SaveSent(m) ==
    LET e == sends[m].by
    IN  /\ sends[m].step = "stored"
        /\ sends' = [sends EXCEPT ![m] = [Unwritten EXCEPT !.step = "done"]]
        /\ \/ sends[m].live /\ Saves(e, Shown(mem[e], m)) /\ UNCHANGED faults
           \/ ~sends[m].live /\ UNCHANGED <<browser, faults>>
           \/ Fault("answer") /\ UNCHANGED browser
        /\ UNCHANGED <<mix, directory, inbox, letters, polls, publishing, accidents, late>>

-----------------------------------------------------------------------------
(* Receiving *)

\* Expired envelopes go first; what is held back is not handed over yet.
FetchEnvelopes(e, i) ==
    LET due == {j \in DOMAIN inbox[e] : ~inbox[e][j].held}
    IN  /\ polls[e][i] = Idle
        /\ ~directory[e].revoked
        /\ due # {}
        /\ \/ /\ polls' = [polls EXCEPT ![e][i] = [Idle EXCEPT !.step = "reading", !.left = [j \in due |-> inbox[e][j].m]]]
              /\ UNCHANGED <<inbox, faults, accidents>>
           \/ /\ Fault("expiry")
              /\ inbox' = [inbox EXCEPT ![e] = <<>>]
              /\ accidents' = accidents \cup {"expired"}
              /\ UNCHANGED polls
        /\ UNCHANGED <<mix, mem, vault, directory, sends, letters, publishing, accepted, late>>

\* decryptEnvelope with the session held: not read yet, and the two ends agree.
OpensHere(kept, letter, agree) ==
    kept.session = letter.session /\ letter.at \notin kept.read /\ agree

\* x3dhRespond: the secrets match when the prekeys of the handshake are still here.
SecretsMatch(kept, session) == session.spk = kept.spk /\ session.otp \in kept.otps \cup {0}

\* acceptInvite.
Accepts(kept, letter) == letter.opening /\ SecretsMatch(kept, letter.session)

\* One-time means one time: the private key goes even when nothing opens.
Burnt(kept, letter) ==
    IF letter.opening THEN [kept EXCEPT !.otps = @ \ {letter.session.otp}] ELSE kept

Committed(kept, letter) == [kept EXCEPT !.read = @ \cup {letter.at}]

Opened(kept, letter, agree) ==
    IF OpensHere(kept, letter, agree) THEN Committed(kept, letter)
    ELSE IF Accepts(kept, letter)
         THEN [Burnt(kept, letter) EXCEPT !.session = letter.session, !.next = 0, !.read = {letter.at}]
         ELSE Burnt(kept, letter)

\* An opening envelope that the held session does not open puts a new one in its place.
Resets(kept, letter, agree) ==
    kept.session # None /\ ~OpensHere(kept, letter, agree) /\ Accepts(kept, letter)

\* What the browser keeps once m is handled, whether it opens or not.
Handled(kept, m, asks, agree) ==
    LET now == Opened(kept, letters[m], agree)
    IN  IF ~(OpensHere(kept, letters[m], agree) \/ Accepts(kept, letters[m]))
        THEN [now EXCEPT !.known = @ \/ asks]
        ELSE IF now.blocked THEN [now EXCEPT !.known = TRUE]
        ELSE Shown([now EXCEPT !.known = TRUE], m)

\* The poll after its first envelope.
Onward(p, handled) ==
    [p EXCEPT !.left = Restrict(@, DOMAIN @ \ {Min(DOMAIN @)}), !.handled = @ \cup handled]

\* The first envelope of the poll: left for the next one if the directory cannot
\* be asked about an unknown key, handled otherwise.
\* After a restart that forgot a step, the two ratchets may no longer agree.
ProcessEnvelope(e, i) ==
    LET m == polls[e][i].left[Min(DOMAIN polls[e][i].left)]
        asks == letters[m].opening /\ ~mem[e].known
        next(handled) == [polls EXCEPT ![e][i] = Onward(@, handled)]
    IN  /\ polls[e][i].step = "reading"
        /\ DOMAIN polls[e][i].left # {}
        /\ \/ /\ asks /\ Fault("directory")
              /\ accidents' = accidents \cup {"unasked"}
              /\ polls' = next({})
              /\ UNCHANGED mem
           \/ /\ asks /\ directory[Peer(e)].revoked
              /\ polls' = next({m})
              /\ UNCHANGED <<mem, faults, accidents>>
           \/ /\ asks => ~directory[Peer(e)].revoked
              /\ \E agree \in (IF "restart" \in accidents THEN BOOLEAN ELSE {TRUE}) :
                     /\ mem' = [mem EXCEPT ![e] = Handled(mem[e], m, asks, agree)]
                     /\ accidents' = accidents \cup (IF Resets(mem[e], letters[m], agree) THEN {"reset"} ELSE {})
              /\ polls' = next({m})
              /\ UNCHANGED faults
        /\ UNCHANGED <<mix, vault, directory, inbox, sends, letters, publishing, accepted, late>>

PersistInbox(e, i) ==
    /\ polls[e][i].step = "reading" /\ DOMAIN polls[e][i].left = {}
    /\ Saves(e, mem[e])
    /\ polls' = [polls EXCEPT ![e][i].step = "acking"]
    /\ UNCHANGED <<mix, faults, directory, inbox, sends, letters, publishing, accidents, late>>

\* Only what a poll has saved is acknowledged.
BugAcknowledges(p) == p.step \in {"reading", "acking"} /\ DOMAIN p.left = {}
Acknowledges(p) == p.step = "acking"

Acknowledge(e, i) ==
    LET p == polls[e][i]
    IN  /\ Acknowledges(p)
        /\ polls' = [polls EXCEPT ![e][i] = Idle]
        /\ \/ /\ inbox' = [inbox EXCEPT ![e] = IF directory[e].revoked THEN @
                               ELSE Restrict(@, {j \in DOMAIN @ : @[j].m \notin p.handled})]
              /\ UNCHANGED faults
           \/ Fault("ack") /\ UNCHANGED inbox
        /\ UNCHANGED <<mix, mem, vault, directory, sends, letters, publishing, accidents,
                       accepted, late>>

-----------------------------------------------------------------------------
(* The browser between messages *)

\* The tab is closed or locked: the vault is what comes back.  Requests under
\* way arrive all the same, and their answers reach nobody.
Restart(e) ==
    /\ Fault("restart")
    /\ mem' = [mem EXCEPT ![e] = vault[e]]
    /\ polls' = [polls EXCEPT ![e] = [i \in 1..mix.polls |-> Idle]]
    /\ publishing' = [publishing EXCEPT ![e] = IF @ # None /\ @.step = "sent"
                                                  THEN [@ EXCEPT !.live = FALSE] ELSE None]
    /\ sends' = [m \in Messages |->
           IF sends[m].by # e THEN sends[m]
           ELSE IF sends[m].step = "bundle" THEN [Unwritten EXCEPT !.step = "failed"]
           ELSE [sends[m] EXCEPT !.live = FALSE]]
    /\ accidents' = accidents \cup
           (IF mem[e].next # vault[e].next \/ mem[e].session # vault[e].session
            THEN {"restart"} ELSE {})
    /\ UNCHANGED <<mix, vault, directory, inbox, letters, accepted, late>>

\* rotateSignedPreKey, once a week: a new one in the place of the old one.
Rotated(e) == Max({mem[e].spk, directory[e].spk}) + 1

\* publishDevice: the signed prekey and every one-time prekey still held.
PublishDevice(e, stale) ==
    LET spk == IF stale THEN Rotated(e) ELSE mem[e].spk
    IN  /\ publishing[e] = None
        /\ Fault("publish")
        /\ mem' = [mem EXCEPT ![e].spk = spk]
        /\ publishing' = [publishing EXCEPT ![e] = [step |-> "sent", live |-> TRUE, spk |-> spk, otps |-> mem[e].otps]]
        /\ accidents' = accidents \cup (IF stale THEN {"rotated"} ELSE {})
        /\ UNCHANGED <<mix, vault, directory, inbox, sends, letters, polls, accepted, late>>

\* POST /api/keys/device: a revoked identity is refused; known keys are not added twice.
StoreDevice(e) ==
    LET known == directory[e]
        now == [known EXCEPT !.spk = publishing[e].spk, !.otps = @ \cup publishing[e].otps]
    IN  /\ publishing[e] # None /\ publishing[e].step = "sent"
        /\ directory' = IF known.revoked THEN directory ELSE [directory EXCEPT ![e] = now]
        /\ publishing' = [publishing EXCEPT ![e] = IF known.revoked \/ ~@.live THEN None
                                                   ELSE [@ EXCEPT !.step = "stored"]]
        /\ UNCHANGED <<mix, faults, browser, inbox, sends, letters, polls, accidents, late>>

\* generateOneTimePreKeys: numbers no key of this device had.
Generated(e) == {k \in 1..MaxKeys : k = directory[e].made + 1}

\* The answer says how many one-time prekeys are left: more are made when few
\* are, stored with POST /api/keys/one-time, and the vault is saved.
TopUp(e) ==
    LET fresh == IF Cardinality(directory[e].otps) < LowWater THEN Generated(e) ELSE {}
    IN  /\ publishing[e] # None /\ publishing[e].step = "stored"
        /\ publishing' = [publishing EXCEPT ![e] = None]
        /\ Saves(e, [mem[e] EXCEPT !.otps = @ \cup fresh])
        /\ directory' = [directory EXCEPT ![e].otps = IF directory[e].revoked THEN @ ELSE @ \cup fresh,
                                          ![e].made = @ + Cardinality(fresh)]
        /\ UNCHANGED <<mix, faults, inbox, sends, letters, polls, accidents, late>>

\* The history and the session go; whoever writes next finds no session here.
\* No message of the deleter is on its way then (bound).
DeleteConversation(e) ==
    /\ \A m \in Messages : sends[m].by # e
    /\ Fault("delete")
    /\ \E known \in BOOLEAN :
           Saves(e, [mem[e] EXCEPT !.session = None, !.next = 0, !.read = {}, !.known = known,
                                   !.history = [m \in Messages |-> 0]])
    /\ accidents' = accidents \cup {"deleted"}
    /\ UNCHANGED <<mix, directory, inbox, sends, letters, polls, publishing, late>>

SetBlocked(e) ==
    /\ Fault("block")
    /\ Saves(e, [mem[e] EXCEPT !.blocked = ~@])
    /\ accidents' = accidents \cup {"blocked"}
    /\ UNCHANGED <<mix, directory, inbox, sends, letters, polls, publishing, late>>

\* POST /api/keys/revoke: what waits for the device goes with its prekeys.
BugDropped(envelopes) == envelopes
Dropped(envelopes) == <<>>

RevokeDevice(e) ==
    /\ ~directory[e].revoked
    /\ Fault("revoke")
    /\ directory' = [directory EXCEPT ![e].revoked = TRUE, ![e].otps = {}]
    /\ inbox' = [inbox EXCEPT ![e] = Dropped(@)]
    /\ late' = [late EXCEPT ![e] = {m \in Messages : sends[m].step = "checked" /\ sends[m].by # e}]
    /\ accidents' = accidents \cup {"revoked"}
    /\ UNCHANGED <<mix, browser, sends, letters, polls, publishing>>

-----------------------------------------------------------------------------
Next ==
    \/ \E m \in Messages :
           \/ \E e \in Ends : AskBundle(e, m)
           \/ Encrypt(m) \/ PostFails(m) \/ LookUpDevices(m) \/ SaveSent(m)
           \/ \E held \in BOOLEAN : StoreEnvelope(m, held)
    \/ \E e \in Ends :
           \/ \E i \in 1..mix.polls : \/ FetchEnvelopes(e, i) \/ ProcessEnvelope(e, i)
                               \/ PersistInbox(e, i) \/ Acknowledge(e, i)
           \/ \E stale \in BOOLEAN : PublishDevice(e, stale)
           \/ Release(e) \/ Restart(e) \/ StoreDevice(e) \/ TopUp(e)
           \/ DeleteConversation(e) \/ SetBlocked(e) \/ RevokeDevice(e)

Spec == Init /\ [][Next]_vars

-----------------------------------------------------------------------------
(* Properties *)

Waiting(e) == {inbox[e][i].m : i \in DOMAIN inbox[e]}
Stored(m) == letters[m] # None /\ sends[m].step \in {"stored", "done"}
Saved(m) == vault[letters[m].to].history[m] > 0

\* A message the server took and has let go of is in the vault of the person
\* it was for.  Posts whose answer is lost, acknowledgements that are lost,
\* polls that overlap, browsers that restart with nothing unsaved behind them
\* and prekeys published again do not change that; `accidents` names all that
\* does; one is that the opening envelope of a session without a one-time
\* prekey, fetched again because its acknowledgement was lost, resets the
\* session.  Only then is a message in a history twice.  (messaging.ts:
\* receiveMessages saves before it acknowledges; decryptEnvelope)
DeliveredOnce ==
    /\ accidents = {} =>
           \A m \in Messages : Stored(m) => m \in Waiting(letters[m].to) \/ Saved(m)
    /\ \A e \in Ends, m \in Messages :
           mem[e].history[m] > 1 => "reset" \in accidents /\ letters[m].session.otp = 0

\* What was used up or revoked is used no more.  The vault of a device never
\* held two sessions opened with the same one-time prekey, though the directory
\* may hand the prekey out twice when a device publishes again what it still
\* holds; and nothing waits for a revoked device but the posts that were past
\* the check of its devices when it was revoked.  (messaging.ts: acceptInvite;
\* keys.ts: insertOneTimePreKeys, revoke; messages.ts: POST)
RetiredKeysStayOut ==
    /\ \A s, t \in accepted : s.by = t.by /\ s.otp = t.otp /\ s.otp # 0 => s = t
    /\ \A e \in Ends : directory[e].revoked => Waiting(e) \subseteq late[e]

=============================================================================
