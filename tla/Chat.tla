-------------------------------- MODULE Chat --------------------------------
(***************************************************************************)
(* One conversation on the screen of one browser: the keys the peer is     *)
(* using and what the reader is told of a change, messages that disappear, *)
(* read receipts, blocking and deleting; with the two timers that poll for *)
(* messages behind it, the shell's and the chat view's.                    *)
(*                                                                         *)
(* Code: src/client/messaging.ts, verification.ts, incoming.ts,            *)
(* views/chat.ts and main.ts.                                              *)
(*                                                                         *)
(* JavaScript runs to the next await: what happens between two answers of  *)
(* the server is one step.  A request that waits keeps the conversation it *)
(* began with, even one that is deleted meanwhile.  Mailbox shows what     *)
(* becomes of the sessions and of a message on its way; here an envelope   *)
(* opens when its device has a session or it carries an invitation, once.  *)
(***************************************************************************)
EXTENDS Naturals, Sequences, FiniteSets, SequencesExt, FiniteSetsExt

CONSTANTS
    Devices,     \* identity keys the peer's devices may have
    First,       \* the one the peer has at first
    Notes,       \* messages and receipts, 1..n in the order they are written
    MaxMoment,   \* bound: hours
    Scenes       \* bound: kinds of events, notes written, other events

ASSUME ChatAssumption ==
    /\ First \in Devices /\ Notes \subseteq Nat
    /\ \A s \in Scenes : s.notes \in Nat /\ s.most \in Nat /\ 1..s.notes \subseteq Notes

VARIABLES
    scene, events,  \* the bounds of this behaviour and the events so far
    moment,         \* the hour
    listed,         \* the directory: keys of the peer's active devices
    installs,       \* key -> which of the peer's installations it belongs to
    paired,         \* devices of the peer that hold a session with this browser
    notes,          \* every note once written: whose, when, until when
    waiting,        \* envelopes for this browser; they are handed over oldest first
    talks,          \* the conversation, and the one that takes its place once deleted
    open,           \* which of them is in the vault, 0 for none
    selected,       \* whether the panel shows it
    blocked, opened,\* the peer is blocked; notes the ratchet has opened
    timers,          \* the two timers' receiveMessages
    sending,        \* the composer's sendMessage
    onWay, theirs,  \* notes on their way to the peer; notes the peer has, as they came
    receipted,      \* the last note the peer sent a receipt for
    signalled,      \* signalRevision is not the one the view has seen
    screen,         \* what drawPanel last put on the panel
    owed,           \* not stored: what changed the conversation and redrew nothing
    overtaken       \* not stored: a note reached the peer before an earlier one

chatVars == <<scene, events, moment, listed, installs, paired, notes, waiting, talks, open, selected,
              blocked, opened, timers, sending, onWay, theirs, receipted, signalled, screen,
              owed, overtaken>>
peerVars == <<listed, installs, paired, waiting, onWay, theirs, receipted, overtaken>>
readerVars == <<talks, open, selected, blocked, opened, signalled, screen, owed>>

Timers == {"shell", "view"}
NoNote == [kind |-> "none", mine |-> FALSE, by |-> First, until |-> 0, invite |-> FALSE, upTo |-> 0]
NoChange == [kind |-> "none", keys |-> {}]
NewTalk(named) ==
    [named |-> named, keys |-> {}, known |-> {}, first |-> {}, change |-> NoChange, dismissed |-> {},
     shown |-> {}, read |-> {}, hours |-> 0]
NotPolling == [step |-> "idle", left |-> {}, handled |-> {}, count |-> 0, talk |-> 0, asked |-> {},
               silent |-> FALSE]
NotSending == [step |-> "idle", n |-> 0, talk |-> 0]
Blank == [shown |-> {}, read |-> {}, change |-> NoChange]

ChatInit ==
    /\ scene \in Scenes /\ events = 0 /\ moment = 1
    /\ listed = {First} /\ installs = [k \in Devices |-> IF k = First THEN 1 ELSE 0] /\ paired = {}
    /\ notes = [n \in Notes |-> NoNote]
    /\ waiting = {} /\ talks = <<NewTalk(TRUE), NewTalk(FALSE)>> /\ open = 1 /\ selected = TRUE
    /\ blocked = FALSE /\ opened = {} /\ timers = [i \in Timers |-> NotPolling] /\ sending = NotSending
    /\ onWay = {} /\ theirs = <<>> /\ receipted = 0 /\ signalled = FALSE /\ screen = Blank
    /\ owed = {} /\ overtaken = FALSE

Event(kind) == kind \in scene.kinds /\ events < scene.most /\ events' = events + 1

-----------------------------------------------------------------------------
(* The peer *)

Written == {n \in Notes : notes[n].kind # "none"}
NextNote == Cardinality(Written) + 1
Adds(note) == NextNote <= scene.notes /\ notes' = [notes EXCEPT ![NextNote] = note]
Gone(n) == notes[n].until # 0 /\ notes[n].until <= moment
Until(hours) == IF hours = 0 THEN 0 ELSE moment + hours

PeerAddsDevice ==
    /\ Event("add")
    /\ \E k \in {d \in Devices : installs[d] = 0} :
           /\ listed' = listed \cup {k}
           /\ installs' = [installs EXCEPT ![k] = Max(Range(installs))]
    /\ UNCHANGED <<scene, moment, paired, notes, waiting, timers, sending, onWay, theirs, receipted,
                   overtaken, readerVars>>

\* The account is set up anew, or by somebody else: every device it had is gone.
PeerIsReplaced ==
    /\ Event("replace")
    /\ \E k \in {d \in Devices : installs[d] = 0} :
           /\ listed' = {k} /\ paired' = {}
           /\ installs' = [installs EXCEPT ![k] = Max(Range(installs)) + 1]
    /\ UNCHANGED <<scene, moment, notes, waiting, timers, sending, onWay, theirs, receipted,
                   overtaken, readerVars>>

\* A device that has no session with this browser sends an invitation along.
Posts(kind, hours, upTo) ==
    \E k \in listed :
        /\ Adds([kind |-> kind, mine |-> FALSE, by |-> k, until |-> Until(hours),
                   invite |-> k \notin paired, upTo |-> upTo])
        /\ waiting' = waiting \cup {NextNote}
        /\ paired' = paired \cup {k}

PeerWrites ==
    /\ "write" \in scene.kinds
    /\ \E hours \in (IF "hours" \in scene.kinds THEN {0, 1} ELSE {0}) : Posts("text", hours, 0)
    /\ UNCHANGED <<scene, events, moment, listed, installs, timers, sending, onWay, theirs, receipted,
                   overtaken, readerVars>>

\* The store hands notes over as they came, unless the sender asked for a delay.
PeerGets ==
    /\ \E n \in onWay :
           /\ n = Min(onWay) \/ "delay" \in scene.kinds
           /\ onWay' = onWay \ {n} /\ theirs' = Append(theirs, n)
           /\ overtaken' = (overtaken \/ n # Min(onWay))
    /\ paired' = paired \cup listed
    /\ UNCHANGED <<scene, events, moment, listed, installs, notes, waiting, timers, sending, receipted, readerVars>>

\* sendReadReceipt at the peer's: up to the last note in its list, once.
PeerReads ==
    /\ "read" \in scene.kinds
    /\ theirs # <<>> /\ receipted < Last(theirs)
    /\ receipted' = Last(theirs)
    /\ Posts("read", 0, Last(theirs))
    /\ UNCHANGED <<scene, events, moment, listed, installs, timers, sending, onWay, theirs, overtaken, readerVars>>

-----------------------------------------------------------------------------
(* The peer's keys, and what the reader is told of them *)

\* notePeerKeys: the keys of the directory, or the one key of an envelope.
BugChanged(talk, keys, directory) ==
    LET fresh == keys \ talk.known
        replaced == directory /\ keys \cap talk.known = {}
    IN  [kind |-> IF replaced THEN "replaced" ELSE "added", keys |-> talk.change.keys \cup fresh]
Changed(talk, keys, directory) ==
    LET fresh == keys \ talk.known
        replaced == directory /\ keys \cap talk.known = {}
    IN  [kind |-> IF replaced \/ talk.change.kind = "replaced" THEN "replaced" ELSE "added",
         keys |-> talk.change.keys \cup fresh]

Noted(talk, keys, directory) ==
    IF talk.known = {} THEN [talk EXCEPT !.known = keys, !.first = keys]
    ELSE IF keys \subseteq talk.known THEN talk
    ELSE [talk EXCEPT !.known = @ \cup keys, !.change = Changed(talk, keys, directory)]

Drawn(ts, o) == [shown |-> ts[o].shown, read |-> ts[o].read \cap ts[o].shown, change |-> ts[o].change]
Panel(ts, o, s) == IF s /\ o # 0 THEN Drawn(ts, o) ELSE Blank

\* drawPanel
Draw == screen' = Panel(talks', open', selected') /\ owed' = {}

\* The reader answers the banner; what it clears is what the record says by now.
AcknowledgeKeyChange ==
    /\ Event("dismiss")
    /\ screen.change # NoChange
    /\ talks' = [talks EXCEPT ![open].change = NoChange, ![open].dismissed = @ \cup talks[open].change.keys]
    /\ UNCHANGED <<scene, moment, notes, timers, sending, open, selected, blocked, opened, signalled, peerVars>>
    /\ Draw

-----------------------------------------------------------------------------
(* receiveMessages *)

\* pruneExpired over what is in the vault; whether it found anything.
Pruned == IF open = 0 THEN talks
          ELSE [talks EXCEPT ![open].shown = {n \in @ : ~Gone(n)}]

\* The view's timer prunes, and redraws if that removed something; then the poll
\* of either timer asks what waits.  Polls that can find nothing are left out.
Fetch(i) ==
    /\ timers[i] = NotPolling
    /\ i = "shell" => "shell" \in scene.kinds
    /\ "hours" \in scene.kinds \/ waiting # {} \/ signalled \/ (i = "view" /\ owed # {})
    /\ timers' = [timers EXCEPT ![i].step = "fetching"]
    /\ talks' = IF i = "view" THEN Pruned ELSE talks
    /\ UNCHANGED <<scene, events, moment, notes, sending, open, selected, blocked, opened, signalled, peerVars>>
    /\ IF talks' = talks THEN UNCHANGED <<screen, owed>> ELSE Draw

\* With the answer it prunes again, and redraws nothing; without one it ends.
EnvelopesCome(i) ==
    LET due == {n \in waiting : ~Gone(n)}
    IN  /\ timers[i].step = "fetching"
        /\ \/ /\ timers' = [timers EXCEPT ![i] = [NotPolling EXCEPT !.step = "handling", !.left = due]]
              /\ waiting' = due
              /\ talks' = Pruned
              /\ owed' = IF Pruned = talks THEN owed ELSE owed \cup {i}
              /\ UNCHANGED events
           \/ /\ Event("fail")
              /\ timers' = [timers EXCEPT ![i] = NotPolling]
              /\ UNCHANGED <<waiting, talks, owed>>
        /\ UNCHANGED <<scene, moment, listed, installs, paired, notes, sending, onWay, theirs, receipted,
                       overtaken, open, selected, blocked, opened, signalled, screen>>

\* expiryFor: the sooner of the sender's hour and the reader's.
Soonest(talk, n) ==
    LET mine == Until(talk.hours)
        both == {notes[n].until, mine} \ {0}
    IN  IF both = {} THEN 0 ELSE Min(both)

\* applySignal
BugReadBy(talk, upTo) == {m \in talk.shown : notes[m].mine}
ReadBy(talk, upTo) == {m \in talk.shown : notes[m].mine /\ m <= upTo}

\* decryptEnvelope, then what the plaintext asks for, in the conversation t.
Receive(i, t, talk, n, asked) ==
    LET note == notes[n]
        opens == n \notin opened /\ (note.by \in talk.keys \/ note.invite)
        session == [Noted(talk, {note.by}, FALSE) EXCEPT !.keys = @ \cup {note.by}, !.named = TRUE]
        text == opens /\ ~blocked /\ note.kind = "text"
        receipt == opens /\ ~blocked /\ note.kind = "read"
        after == CASE text    -> [session EXCEPT !.shown = @ \cup {n}]
                   [] receipt -> [session EXCEPT !.read = @ \cup ReadBy(session, note.upTo)]
                   [] OTHER   -> IF opens THEN session ELSE talk
    IN  /\ talks' = [talks EXCEPT ![t] = after]
        /\ opened' = IF opens THEN opened \cup {n} ELSE opened
        /\ notes' = IF text THEN [notes EXCEPT ![n].until = Soonest(talk, n)] ELSE notes
        /\ signalled' = (signalled \/ receipt)
        /\ timers' = [timers EXCEPT ![i].step = "handling", ![i].left = @ \ {n}, ![i].handled = @ \cup {n},
                                  ![i].asked = asked, ![i].count = @ + (IF text THEN 1 ELSE 0)]
        /\ owed' = IF after = talks[t] THEN owed
                   ELSE IF i = "shell" THEN owed \cup {"shell"}
                   ELSE IF text \/ receipt \/ after.change = talks[t].change THEN owed
                   ELSE owed \cup {"quiet"}

\* The directory has a veto over a key the conversation has never seen.
Judge(i, t, n, keys) ==
    LET talk == Noted(talks[t], keys, TRUE)
    IN  IF notes[n].by \in keys THEN Receive(i, t, talk, n, keys)
        ELSE /\ talks' = [talks EXCEPT ![t] = talk]
             /\ timers' = [timers EXCEPT ![i].step = "handling", ![i].left = @ \ {n}, ![i].handled = @ \cup {n},
                                       ![i].asked = keys]
             /\ owed' = owed \cup (IF talk = talks[t] THEN {} ELSE {"quiet"})
             /\ UNCHANGED <<opened, notes, signalled>>

\* resolveConversation and strangerInvite: a conversation nobody has named yet
\* asks nobody; one answer of the directory serves the whole poll, as does none.
Handle(i) ==
    LET n == Min(timers[i].left)
        t == IF open = 0 THEN 2 ELSE open
        asks == notes[n].invite /\ talks[t].named /\ notes[n].by \notin talks[t].keys \cup talks[t].known
    IN  /\ timers[i].step = "handling" /\ timers[i].left # {}
        /\ open' = t
        /\ IF ~asks THEN Receive(i, t, talks[t], n, timers[i].asked)
           ELSE IF timers[i].asked # {} THEN Judge(i, t, n, timers[i].asked)
           ELSE /\ timers' = IF timers[i].silent THEN [timers EXCEPT ![i].left = @ \ {n}]
                             ELSE [timers EXCEPT ![i].step = "asking", ![i].talk = t]
                /\ UNCHANGED <<talks, opened, notes, signalled, owed>>
        /\ UNCHANGED <<scene, events, moment, sending, selected, blocked, screen, peerVars>>

\* The answer, for the conversation the envelope was resolved to; without one
\* the envelope stays where it is.
DirectoryAnswers(i) ==
    LET n == Min(timers[i].left)
    IN  /\ timers[i].step = "asking"
        /\ \/ /\ Judge(i, timers[i].talk, n, listed)
              /\ UNCHANGED events
           \/ /\ Event("ask")
              /\ timers' = [timers EXCEPT ![i].step = "handling", ![i].left = @ \ {n}, ![i].silent = TRUE]
              /\ UNCHANGED <<talks, opened, notes, signalled, owed>>
        /\ UNCHANGED <<scene, moment, sending, open, selected, blocked, screen, peerVars>>

\* Saved and acknowledged.  The view redraws for messages and for signals; the
\* shell redraws nothing.
BugRedraws(i) == i = "view" /\ timers[i].count > 0
Redraws(i) == i = "view" /\ (timers[i].count > 0 \/ signalled)

PollOver(i) ==
    /\ timers[i].step = "handling" /\ timers[i].left = {}
    /\ timers' = [timers EXCEPT ![i] = NotPolling]
    /\ UNCHANGED <<scene, moment, listed, installs, paired, notes, sending, onWay, theirs, receipted,
                   overtaken, talks, open, selected, blocked, opened>>

Finish(i) ==
    /\ PollOver(i)
    /\ waiting' = waiting \ timers[i].handled
    /\ signalled' = (signalled /\ ~Redraws(i))
    /\ UNCHANGED events
    /\ IF Redraws(i) THEN Draw ELSE UNCHANGED <<screen, owed>>

\* The vault is not saved, or the acknowledgement or its answer is lost: what was
\* to be drawn is not.
FinishFails(i) ==
    /\ PollOver(i)
    /\ Event("fail")
    /\ waiting' \in {waiting, waiting \ timers[i].handled}
    /\ owed' = IF Redraws(i) THEN owed \cup {i} ELSE owed
    /\ UNCHANGED <<signalled, screen>>

-----------------------------------------------------------------------------
(* The panel *)

\* sendMessage: the peer's keys are noted and every device written to before
\* the post is answered; the composer sends one message at a time.
SendNote ==
    /\ "send" \in scene.kinds
    /\ selected /\ open # 0 /\ talks[open].named /\ ~blocked /\ sending = NotSending
    /\ LET talk == Noted(talks[open], listed, TRUE)
       IN  talks' = [talks EXCEPT ![open] = [talk EXCEPT !.keys = @ \cup listed]]
    /\ Adds([NoNote EXCEPT !.kind = "text", !.mine = TRUE, !.until = Until(talks[open].hours)])
    /\ sending' = [step |-> "posted", n |-> NextNote, talk |-> open]
    /\ owed' = owed \cup {"send"}
    /\ UNCHANGED <<scene, events, moment, timers, open, selected, blocked, opened, signalled, screen,
                   peerVars>>

ServerTakes ==
    /\ sending.step = "posted"
    /\ \/ /\ sending' = [sending EXCEPT !.step = "stored"]
          /\ onWay' = onWay \cup {sending.n}
          /\ UNCHANGED events
       \/ /\ Event("post")
          /\ sending' = NotSending
          /\ UNCHANGED onWay
    /\ UNCHANGED <<scene, moment, listed, installs, paired, notes, waiting, theirs, receipted, overtaken,
                   timers, readerVars>>

\* Kept in the conversation it was sent from, and drawn; an error, or an answer
\* that is lost, is shown under the composer and nothing is drawn.
Answered ==
    /\ sending.step = "stored"
    /\ sending' = NotSending
    /\ UNCHANGED <<scene, moment, notes, timers, open, selected, blocked, opened, signalled, peerVars>>
    /\ \/ /\ talks' = [talks EXCEPT ![sending.talk].shown = @ \cup {sending.n}]
          /\ UNCHANGED events
          /\ Draw
       \/ /\ Event("post")
          /\ UNCHANGED <<talks, screen, owed>>

\* What the reader may do to the conversation; each ends by drawing the panel.
SetDisappearing(talk) == [talk EXCEPT !.hours = 1 - @]
DeleteMessage(talk, n) == [talk EXCEPT !.shown = @ \ {n}]

Reader ==
    /\ selected /\ open # 0
    /\ \/ /\ Event("hours")
          /\ talks' = [talks EXCEPT ![open] = SetDisappearing(@)] /\ UNCHANGED <<open, selected, blocked>>
       \/ /\ Event("erase")
          /\ \E n \in screen.shown : talks' = [talks EXCEPT ![open] = DeleteMessage(@, n)]
          /\ UNCHANGED <<open, selected, blocked>>
       \/ /\ Event("block") /\ blocked' = ~blocked /\ UNCHANGED <<talks, open, selected>>
       \/ /\ Event("delete") /\ open = 1
          /\ talks' = [talks EXCEPT ![open].shown = {}, ![open].keys = {}]
          /\ open' = 0 /\ selected' = FALSE /\ UNCHANGED blocked
    /\ UNCHANGED <<scene, moment, notes, timers, sending, opened, signalled, peerVars>>
    /\ Draw

Select ==
    /\ ~selected /\ open # 0
    /\ selected' = TRUE
    /\ UNCHANGED <<scene, events, moment, notes, timers, sending, talks, open, blocked, opened, signalled,
                   peerVars>>
    /\ Draw

HourPasses ==
    /\ "hours" \in scene.kinds /\ moment < MaxMoment
    /\ moment' = moment + 1
    /\ UNCHANGED <<scene, events, notes, timers, sending, peerVars, readerVars>>

-----------------------------------------------------------------------------

ChatNext ==
    \/ PeerAddsDevice \/ PeerIsReplaced \/ PeerWrites \/ PeerGets \/ PeerReads
    \/ \E i \in Timers : \/ Fetch(i) \/ EnvelopesCome(i) \/ Handle(i) \/ DirectoryAnswers(i)
                         \/ Finish(i) \/ FinishFails(i)
    \/ SendNote \/ ServerTakes \/ Answered \/ AcknowledgeKeyChange \/ Reader \/ Select \/ HourPasses

ChatSpec == ChatInit /\ [][ChatNext]_chatVars

-----------------------------------------------------------------------------
(* Properties *)

\* Keys a conversation came to use after its first contact stay announced until
\* the reader dismisses a banner, which may be one drawn before the change grew;
\* and as a replacement while one of them belongs to an installation newer than
\* any the reader knew of.  (verification.ts: notePeerKeys,
\* acknowledgeKeyChange; messaging.ts: sendPayload; incoming.ts: strangerInvite)
ChangesAreAnnounced ==
    \A t \in DOMAIN talks :
        LET talk == talks[t]
            known == talk.first \cup talk.dismissed
        IN  /\ talk.keys \subseteq known \cup talk.change.keys
            /\ (\E k \in talk.change.keys : \A d \in known : installs[k] > installs[d])
                  => talk.change.kind = "replaced"

\* Each time the view's timer goes off the panel shows no message past its hour,
\* and then and when the poll has ended it shows the conversation as it stands in
\* the vault, what is read of it and the banner; unless, since it was last drawn,
\* the shell's poll changed or pruned the conversation, a message's hour came
\* while the view's poll waited for its answer, that poll's messages were not
\* saved or not acknowledged, a send went out or failed, or a new key came with
\* no message to show.  (chat.ts: the timer; messaging.ts: receiveMessages,
\* pruneExpired, signalRevision)
TimerGoesOff == timers["view"] = NotPolling /\ timers'["view"] # NotPolling
PollEnds == timers["view"] # NotPolling /\ timers'["view"] = NotPolling
ScreenKeepsUp ==
    [][owed' = {} =>
          /\ TimerGoesOff \/ PollEnds => screen' = Panel(talks', open', selected')
          /\ TimerGoesOff => \A n \in screen'.shown : ~Gone(n)]_chatVars

\* A message is marked as read when it reached the peer, unless a later one
\* that was not delayed came before it.  (messaging.ts: applySignal,
\* sendReadReceipt)
ReadWasDelivered ==
    overtaken \/ \A t \in DOMAIN talks : talks[t].read \subseteq Range(theirs)

=============================================================================
