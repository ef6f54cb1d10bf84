------------------------------ MODULE Handover ------------------------------
(***************************************************************************)
(* How what was bought reaches the buyer, and how a file reaches a chat.   *)
(*                                                                         *)
(* The seller's browser encrypts a file, or a text, under a key made for   *)
(* it, uploads the ciphertext, and sends the key over the encrypted        *)
(* channel; the buyer's browser fetches, opens, and has the server forget. *)
(* A chat's attachment goes the same way, under an id of its own instead   *)
(* of the order's.  Beside this runs what either side does to the order,   *)
(* and the digests committed for a dispute.                                *)
(*                                                                         *)
(* Code: src/client/views/orders.ts; the senders and storeDeliveryKey of   *)
(* src/client/messaging.ts; the attachments of src/client/views/chat.ts;   *)
(* src/shared/crypto/file.ts; src/server/routes/deliveries.ts.             *)
(*                                                                         *)
(* The channel keeps what it was given, in order, until the buyer's        *)
(* browser takes it or it expires (Mailbox); an order's money, and what    *)
(* overlaps inside the server, is Escrow's.  Keys, and the ids of          *)
(* attachments, are numbers in the order they are made; 0 is the order's.  *)
(***************************************************************************)
EXTENDS Naturals, Sequences

CONSTANTS
    SellerTabs,  \* the seller's tabs
    Deals        \* bound: what a behaviour hands over, how often, what befalls it

VARIABLES
    deal,        \* the bounds of this behaviour
    order,       \* orders.status
    blobs,       \* rows of deliveries and attachments
    handing,     \* seller's tab -> the status its list shows, and the file under way
    channel,     \* messages with a key the buyer's browser has not taken
    keyring,     \* keys in the buyer's vault
    collecting,  \* buyer's tab: what its list shows, and the file under way
    goods,       \* files the buyer has saved, texts the buyer has in front of them
    digests,     \* rows of order_evidence
    made,        \* files encrypted so far
    lost         \* keys whose message was not sent, or expired

handoverVars ==
    <<deal, order, blobs, handing, channel, keyring, collecting, goods, digests, made, lost>>

OrderId == 0
NothingToSend == [id |-> OrderId, key |-> 0, kind |-> "manual", bytes |-> [of |-> "nothing", clean |-> FALSE]]
Tab == [seen |-> "nothing", keyed |-> FALSE, step |-> "idle", file |-> NothingToSend]

\* The order has been accepted, and every tab is still to be opened.
HandoverInit ==
    /\ deal \in Deals
    /\ order = "accepted"
    /\ blobs = {} /\ channel = <<>> /\ keyring = {} /\ goods = {} /\ digests = {}
    /\ handing = [t \in SellerTabs |-> Tab]
    /\ collecting = Tab
    /\ made = 0 /\ lost = {}

Happens(what) == what \in deal.may
Stored(id) == {b \in blobs : b.id = id}
Hands(t, tab) == handing' = [handing EXCEPT ![t] = tab]

-----------------------------------------------------------------------------
(* The seller hands over *)

\* stripImageMetadata: a picture is sent without what the camera wrote.
Strip(bytes) == [bytes EXCEPT !.clean = TRUE]

\* encryptFile, under the order's id or an id made here.
Encrypted(kind, of) ==
    [id |-> IF kind = "attachment" THEN made + 1 ELSE OrderId, key |-> made + 1, kind |-> kind,
     bytes |-> Strip([of |-> of, clean |-> FALSE])]

\* A list is drawn with the status it was given; switchRole, load.
ShowSeller(t) ==
    /\ handing[t].step = "idle"
    /\ handing[t].seen # order
    /\ Hands(t, [handing[t] EXCEPT !.seen = order])
    /\ UNCHANGED <<deal, order, blobs, channel, keyring, collecting, goods, digests, made, lost>>

\* deliveryControls: a file or a text, on an order shown as accepted.
DeliverFile(t, of) ==
    \E kind \in {"file", "text"} \cap deal.ways :
        /\ handing[t].seen = "accepted"
        /\ made' = made + 1
        /\ Hands(t, [handing[t] EXCEPT !.step = "upload", !.file = Encrypted(kind, of)])

\* Goods handed over elsewhere: the status alone is sent.
MarkDelivered(t) ==
    /\ "manual" \in deal.ways
    /\ handing[t].seen = "accepted"
    /\ made' = made + 1
    /\ Hands(t, [handing[t] EXCEPT !.step = "upload", !.file = NothingToSend])

\* sendAttachment, from the chat.
SendAttachment(t, of) ==
    /\ "attachment" \in deal.ways
    /\ made' = made + 1
    /\ Hands(t, [handing[t] EXCEPT !.step = "upload", !.file = Encrypted("attachment", of)])

Choose(t) ==
    /\ handing[t].step = "idle"
    /\ made < deal.most
    /\ MarkDelivered(t) \/ \E of \in deal.files : DeliverFile(t, of) \/ SendAttachment(t, of)
    /\ UNCHANGED <<deal, order, blobs, channel, keyring, collecting, goods, digests, lost>>

\* The order must still be accepted, and an id is taken once.
BugAccepts(file) == file.id # OrderId \/ order \in {"accepted", "delivered"}
Accepts(file) == file.id # OrderId \/ order = "accepted"

\* The file and the status move together.  Without an answer the browser
\* forgets the key it made.
Upload(t) ==
    LET file == handing[t].file
        done == [handing[t] EXCEPT !.step = "idle"]
    IN  /\ handing[t].step = "upload"
        /\ Accepts(file)
        /\ Stored(file.id) = {}
        /\ order' = IF file.id = OrderId THEN "delivered" ELSE order
        /\ IF file = NothingToSend
           THEN /\ Hands(t, done)
                /\ UNCHANGED <<blobs, lost>>
           ELSE /\ blobs' = blobs \cup {file}
                /\ \/ Hands(t, [handing[t] EXCEPT !.step = "key"]) /\ UNCHANGED lost
                   \/ Happens("loss") /\ Hands(t, done) /\ lost' = lost \cup {file.key}
        /\ UNCHANGED <<deal, channel, keyring, collecting, goods, digests, made>>

\* The server says no, is full, or the request never reached it.
UploadRefused(t) ==
    /\ handing[t].step = "upload"
    /\ Happens("loss") \/ ~Accepts(handing[t].file)
    /\ Hands(t, [handing[t] EXCEPT !.step = "idle"])
    /\ UNCHANGED <<deal, order, blobs, channel, keyring, collecting, goods, digests, made, lost>>

\* sendDeliveryKey, or the attachment's message; a send that fails is not
\* repeated: the key was in the handler that failed.
SendKey(t) ==
    LET file == handing[t].file
    IN  /\ handing[t].step = "key"
        /\ Hands(t, [handing[t] EXCEPT !.step = "idle"])
        /\ \/ channel' = Append(channel, file) /\ UNCHANGED lost
           \/ Happens("loss") /\ lost' = lost \cup {file.key} /\ UNCHANGED channel
        /\ UNCHANGED <<deal, order, blobs, keyring, collecting, goods, digests, made>>

CloseSeller(t) ==
    /\ Happens("close")
    /\ handing[t].step # "idle"
    /\ Hands(t, Tab)
    /\ lost' = lost \cup {handing[t].file.key}
    /\ UNCHANGED <<deal, order, blobs, channel, keyring, collecting, goods, digests, made>>

-----------------------------------------------------------------------------
(* The buyer collects *)

\* storeDeliveryKey keeps one key for the order, the latest; an attachment's
\* stays with its message.
ReceiveKey ==
    LET file == Head(channel)
    IN  /\ channel # <<>>
        /\ channel' = Tail(channel)
        /\ keyring' = {k \in keyring : k.id # file.id} \cup {file}
        /\ UNCHANGED <<deal, order, blobs, handing, collecting, goods, digests, made, lost>>

\* An envelope lives as long as its conversation's messages, which may be
\* shorter than the file's thirty days.
LoseEnvelope ==
    /\ Happens("expiry")
    /\ channel # <<>>
    /\ channel' = Tail(channel)
    /\ lost' = lost \cup {Head(channel).key}
    /\ UNCHANGED <<deal, order, blobs, handing, keyring, collecting, goods, digests, made>>

\* collectControl: a button, or "waiting for the key".
ShowBuyer ==
    LET drawn == [collecting EXCEPT !.seen = order, !.keyed = \E k \in keyring : k.id = OrderId]
    IN  /\ collecting.step = "idle"
        /\ collecting # drawn
        /\ collecting' = drawn
        /\ UNCHANGED <<deal, order, blobs, handing, channel, keyring, goods, digests, made, lost>>

\* GET delivery, and attachments/:id.  What is served stays stored.
Fetch(k) ==
    /\ collecting.step = "idle"
    /\ k.id = OrderId => collecting.seen = "delivered" /\ collecting.keyed
    /\ \E file \in Stored(k.id) : collecting' = [collecting EXCEPT !.step = "open", !.file = file]
    /\ UNCHANGED <<deal, order, blobs, handing, channel, keyring, goods, digests, made, lost>>

\* decryptFile with the key the vault holds under that id; then a file is
\* saved, a text is shown, and the server's copy of a delivery may go.
Open ==
    LET file == collecting.file
        opens == \E k \in keyring : k.id = file.id /\ k.key = file.key
        next == IF opens /\ file.id = OrderId THEN "forget" ELSE "idle"
    IN  /\ collecting.step = "open"
        /\ goods' = IF opens THEN goods \cup {file} ELSE goods
        /\ collecting' = [collecting EXCEPT !.step = next]
        /\ UNCHANGED <<deal, order, blobs, handing, channel, keyring, digests, made, lost>>

\* DELETE delivery, whether or not the dialog with the text is still open.
Forget ==
    /\ collecting.step = "forget"
    /\ collecting' = [collecting EXCEPT !.step = "idle"]
    /\ blobs' = blobs \ Stored(OrderId) \/ (Happens("loss") /\ UNCHANGED blobs)
    /\ UNCHANGED <<deal, order, handing, channel, keyring, goods, digests, made, lost>>

\* A text that was only shown goes with the page.
CloseBuyer ==
    /\ Happens("close")
    /\ collecting.seen # "nothing"
    /\ collecting' = Tab
    /\ goods' = {g \in goods : g.kind # "text"}
    /\ UNCHANGED <<deal, order, blobs, handing, channel, keyring, digests, made, lost>>

-----------------------------------------------------------------------------
(* The order and its evidence *)

EndAs(status) == order' = status /\ blobs' = blobs \ Stored(OrderId)

\* "Confirm & complete", on an order shown as delivered.
Complete == collecting.seen = "delivered" /\ order = "delivered" /\ EndAs("completed")

Dispute ==
    /\ Happens("dispute")
    /\ collecting.seen \in {"accepted", "delivered"}
    /\ order \in {"accepted", "delivered"}
    /\ order' = "disputed"
    /\ UNCHANGED blobs

\* A moderator settles a dispute, or calls an accepted order off.
Settle ==
    /\ Happens("dispute")
    /\ \/ order = "disputed" /\ \E status \in {"completed", "cancelled"} : EndAs(status)
       \/ order = "accepted" /\ EndAs("cancelled")

MoveOn ==
    /\ (collecting.step = "idle" /\ (Complete \/ Dispute)) \/ Settle
    /\ UNCHANGED <<deal, handing, channel, keyring, collecting, goods, digests, made, lost>>

\* pruneBlobs.
ExpireBlob(file) ==
    /\ Happens("expiry")
    /\ blobs' = blobs \ {file}
    /\ UNCHANGED <<deal, order, handing, channel, keyring, collecting, goods, digests, made, lost>>

\* orderDigest: over the bytes that are exchanged, of a picture the clean ones.
Digest(bytes) == Strip(bytes)

\* The seller commits to a file they have; evidenceControls.
Commit(t) ==
    /\ Happens("evidence")
    /\ handing[t].seen \in {"accepted", "delivered", "disputed"}
    /\ order \in {"accepted", "delivered", "disputed"}
    /\ \E of \in deal.files : digests' = digests \cup {Digest([of |-> of, clean |-> FALSE])}
    /\ UNCHANGED <<deal, order, blobs, handing, channel, keyring, collecting, goods, made, lost>>

HandoverNext ==
    \/ \E t \in SellerTabs :
           ShowSeller(t) \/ Choose(t) \/ Upload(t) \/ UploadRefused(t) \/ SendKey(t) \/ CloseSeller(t)
           \/ Commit(t)
    \/ ReceiveKey \/ LoseEnvelope \/ ShowBuyer \/ Open \/ Forget \/ CloseBuyer \/ MoveOn
    \/ \E k \in keyring : Fetch(k)
    \/ \E file \in blobs : ExpireBlob(file)

HandoverSpec == HandoverInit /\ [][HandoverNext]_handoverVars

-----------------------------------------------------------------------------
(* Properties *)

\* A key the buyer holds opens what the server stores under its id; and the key
\* of a stored file is held, or on its way, or was lost for good.
KeysFit ==
    /\ \A k \in keyring, b \in blobs : k.id = b.id => k.key = b.key
    /\ \A b \in blobs :
           \/ b.key \in lost
           \/ \E k \in keyring \cup {channel[i] : i \in DOMAIN channel} : k.key = b.key
           \/ \E t \in SellerTabs : handing[t].step = "key" /\ handing[t].file.key = b.key

\* A file the buyer was given is recognised by the digest its seller committed.
DigestsMatch ==
    \A g \in goods :
        Digest([g.bytes EXCEPT !.clean = FALSE]) \in digests => Digest(g.bytes) \in digests

\* A stored file goes when it has expired, when its order ends, or, a delivery,
\* when the buyer has saved it or read it.
FilesWait ==
    \A b \in blobs \ blobs' :
        \/ ExpireBlob(b)
        \/ b.id = OrderId /\ order' \in {"completed", "cancelled"}
        \/ b.id = OrderId /\ \E g \in goods : g.key = b.key

\* What was handed over reaches the buyer or waits for them, whole and openable,
\* however uploads, keys, two tabs and the order's own moves interleave.
\* (orders.ts: deliver, collect, orderDigest; messaging.ts: sendDeliveryKey,
\* storeDeliveryKey; deliveries.ts)
GoodsReachTheBuyer == [][KeysFit' /\ DigestsMatch' /\ FilesWait]_handoverVars

=============================================================================
