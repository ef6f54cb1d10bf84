------------------------------ MODULE Ratchet -------------------------------
(***************************************************************************)
(* The double ratchet with encrypted headers between the initiator and the *)
(* responder of one session.                                               *)
(*                                                                         *)
(* Code: src/shared/crypto/ratchet.ts.                                     *)
(*                                                                         *)
(* Cryptography is symbolic.  A key pair is a number; the shared secret of *)
(* two pairs is the set of both; a root key is the sequence of the secrets *)
(* mixed into it, and it names the chain and the header key derived with   *)
(* it.  A message key is a chain and a position in it.  What is sealed     *)
(* under a key opens under that key alone.                                 *)
(*                                                                         *)
(* The network holds on to every message: it delivers in any order, again, *)
(* late, never, or with an altered body.  Both ends begin with the session *)
(* X3DH left them; Mailbox models how they come by it and keep it.         *)
(***************************************************************************)
EXTENDS Naturals, Sequences, FiniteSets

CONSTANTS
    MaxSent,     \* bound: messages each end sends
    MaxTime,     \* bound: the clock
    MaxSkip,     \* MAX_SKIP_PER_CHAIN
    MaxStored,   \* MAX_STORED_SKIPPED_KEYS
    MaxAge       \* MAX_SKIPPED_KEY_AGE_MS

ASSUME BoundsAssumption == {MaxSent, MaxTime, MaxSkip, MaxStored, MaxAge} \subseteq Nat

VARIABLES
    states,    \* RatchetState of each end, with the keys pruneSkipped destroyed
    pairs,     \* key pairs made so far
    network,   \* every message ever sent
    read,      \* end -> how often it decrypted each message
    now

vars == <<states, pairs, network, read, now>>

Ends == {"initiator", "responder"}
Numbers == 1..(2 * MaxSent)
Peer(e) == IF e = "initiator" THEN "responder" ELSE "initiator"

-----------------------------------------------------------------------------
(* Keys *)

DH(pair, other) == {pair, other}
KdfRootKey(root, secret) == Append(root, secret)
MessageKey(chain, n) == [chain |-> chain, n |-> n]
Null == <<>>    \* no chain, header key or remote pair yet

\* initialHeaderKeys: derived from the secret with labels, so equal to nothing else.
InitiatorHeader == <<{}>>
ResponderHeader == <<{}, {}>>

SignedPreKey == 1    \* the responder's first ratchet pair
FirstPair    == 2    \* the initiator's

InitiateSession ==
    LET root == KdfRootKey(<<>>, DH(FirstPair, SignedPreKey))
    IN  [self |-> FirstPair, remote |-> SignedPreKey, root |-> root,
         sendChain |-> root, receiveChain |-> Null,
         sendHeader |-> InitiatorHeader, nextSendHeader |-> root,
         receiveHeader |-> Null, nextReceiveHeader |-> ResponderHeader,
         sendCount |-> 0, receiveCount |-> 0, previousSendCount |-> 0, skipped |-> {},
         forgotten |-> {}]

AcceptSession ==
    [self |-> SignedPreKey, remote |-> Null, root |-> <<>>,
     sendChain |-> Null, receiveChain |-> Null,
     sendHeader |-> Null, nextSendHeader |-> ResponderHeader,
     receiveHeader |-> Null, nextReceiveHeader |-> InitiatorHeader,
     sendCount |-> 0, receiveCount |-> 0, previousSendCount |-> 0, skipped |-> {},
     forgotten |-> {}]

Init ==
    /\ states = [e \in Ends |-> IF e = "initiator" THEN InitiateSession ELSE AcceptSession]
    /\ pairs = FirstPair
    /\ network = {}
    /\ read = [e \in Ends |-> [l \in Numbers |-> 0]]
    /\ now = 0

-----------------------------------------------------------------------------
(* Sending *)

Number == Cardinality(network) + 1

\* What the network sees of it is opaque; `number` is the envelope itself.
Envelope(e) ==
    LET s == states[e]
    IN  [number |-> Number, to |-> Peer(e), header |-> s.sendHeader, dh |-> s.self,
         pn |-> s.previousSendCount, n |-> s.sendCount, key |-> MessageKey(s.sendChain, s.sendCount)]

RatchetEncrypt(e) ==
    /\ states[e].sendChain # Null
    /\ Cardinality({m \in network : m.to = Peer(e)}) < MaxSent
    /\ network' = network \cup {Envelope(e)}
    /\ states' = [states EXCEPT ![e].sendCount = @ + 1]
    /\ UNCHANGED <<pairs, read, now>>

-----------------------------------------------------------------------------
(* Receiving: every step works on a copy of the state, or fails *)

Failed == [failed |-> TRUE]

KeysOf(skipped) == {k.key : k \in skipped}

\* Chains are stored one after the other, and each in the order of its messages.
StoredAfter(j, k) ==
    \/ Len(j.key.chain) > Len(k.key.chain)
    \/ j.key.chain = k.key.chain /\ j.n > k.n

\* Keys past their age go first, then the oldest beyond the bound.
Pruned(s) ==
    LET young == {k \in s.skipped : now < k.at + MaxAge}
        kept  == {k \in young : Cardinality({j \in young : StoredAfter(j, k)}) < MaxStored}
    IN  [s EXCEPT !.skipped = kept, !.forgotten = @ \cup (KeysOf(s.skipped) \ KeysOf(kept))]

\* The keys of the messages before `until` that have not come yet.
Missing(s, until) ==
    {[header |-> s.receiveHeader, n |-> n, at |-> now, key |-> MessageKey(s.receiveChain, n)] :
        n \in s.receiveCount..(until - 1)}

SkipMessageKeys(s, until) ==
    IF s.receiveChain = Null \/ until <= s.receiveCount THEN s
    ELSE IF until > s.receiveCount + MaxSkip THEN Failed
    ELSE Pruned([s EXCEPT !.skipped = @ \cup Missing(s, until), !.receiveCount = until])

\* Both directions move on to their next header key and chain.
PerformDhRatchet(s, dh) ==
    LET received == KdfRootKey(s.root, DH(s.self, dh))
        sending  == KdfRootKey(received, DH(pairs + 1, dh))
    IN  [self |-> pairs + 1, remote |-> dh, root |-> sending,
         sendChain |-> sending, receiveChain |-> received,
         sendHeader |-> s.nextSendHeader, nextSendHeader |-> sending,
         receiveHeader |-> s.nextReceiveHeader, nextReceiveHeader |-> received,
         sendCount |-> 0, receiveCount |-> 0, previousSendCount |-> s.sendCount,
         skipped |-> s.skipped, forgotten |-> s.forgotten]

\* A message key is used once: the entry goes with it.
BugSpend(s, k) == s
Spend(s, k) == [s EXCEPT !.skipped = @ \ {k}]

\* Which key opens the header says where the message stands: a chain some of
\* whose messages were skipped, the current chain, or the peer's next one.
AtSkipped(s, m) == {k \in s.skipped : k.header = m.header /\ k.n = m.n}

Receive(s, m, intact) ==
    IF s = Failed THEN Failed
    ELSE LET skipped == SkipMessageKeys(s, m.n)
         IN  IF skipped = Failed THEN Failed
             ELSE IF skipped.receiveChain = Null THEN Failed
             ELSE IF intact /\ m.key = MessageKey(skipped.receiveChain, skipped.receiveCount)
                  THEN [skipped EXCEPT !.receiveCount = @ + 1]
                  ELSE Failed

DecryptInto(s, m, intact) ==
    CASE AtSkipped(s, m) # {} ->
            LET k == CHOOSE j \in AtSkipped(s, m) : TRUE
            IN  IF intact /\ k.key = m.key THEN Spend(s, k) ELSE Failed
      [] AtSkipped(s, m) = {} /\ m.header = s.receiveHeader ->
            Receive(s, m, intact)
      [] AtSkipped(s, m) = {} /\ m.header # s.receiveHeader /\ m.header = s.nextReceiveHeader ->
            LET ended == SkipMessageKeys(s, m.pn)
            IN  IF ended = Failed THEN Failed
                ELSE Receive(PerformDhRatchet(ended, m.dh), m, intact)
      [] OTHER -> Failed

\* The live state changes when the message was authenticated and not before.
BugCommitted(s, tried, m) ==
    IF tried # Failed THEN tried
    ELSE IF m.header = s.nextReceiveHeader THEN PerformDhRatchet(s, m.dh) ELSE s
Committed(s, tried, m) == IF tried # Failed THEN tried ELSE s

RatchetDecrypt(e, m, intact) ==
    LET pruned == Pruned(states[e])
        tried  == DecryptInto(pruned, m, intact)
        after  == Committed(pruned, tried, m)
    IN  /\ m.to = e
        /\ states' = [states EXCEPT ![e] = after]
        /\ pairs' = IF after.self > pairs THEN after.self ELSE pairs
        /\ read' = IF tried = Failed THEN read ELSE [read EXCEPT ![e][m.number] = @ + 1]
        /\ UNCHANGED <<network, now>>

Tick ==
    /\ now < MaxTime
    /\ now' = now + 1
    /\ UNCHANGED <<states, pairs, network, read>>

Next ==
    \/ \E e \in Ends : RatchetEncrypt(e)
    \/ \E e \in Ends, m \in network, intact \in BOOLEAN : RatchetDecrypt(e, m, intact)
    \/ Tick

Spec == Init /\ [][Next]_vars

-----------------------------------------------------------------------------
(* Properties *)

WrittenTo(e) == {m.number : m \in {k \in network : k.to = e}}
AllRead(e) == {l \in Numbers : read[e][l] > 0}

Conversation == INSTANCE Channel WITH
    Letters <- Numbers, written <- [e \in Ends |-> WrittenTo(e)]

\* However the network reorders, repeats or alters what it carries, an end reads
\* only what its peer wrote to it, and no message twice (trySkippedKeys deletes
\* the key it used, and a chain never goes back).
ReadsOnce == Conversation!Spec

\* No order of deliveries, repetitions and forgeries puts the two ends out of
\* step: a message on its way can be opened, unless its key was destroyed for
\* its age or the bound on stored keys, or too many before it are missing
\* (ratchetDecrypt commits a copy, and only when it authenticated).  And once it
\* was read, the state as it would be found in a vault yields no key of what its
\* owner has sent or read: forward secrecy.
TooFar(s, m) ==
    \/ m.header = s.receiveHeader /\ m.n > s.receiveCount + MaxSkip
    \/ m.header = s.nextReceiveHeader /\ m.n > MaxSkip
    \/ /\ m.header = s.nextReceiveHeader /\ s.receiveChain # Null
       /\ m.pn > s.receiveCount + MaxSkip
Yields(s, key) ==
    \/ key \in KeysOf(s.skipped)
    \/ key.chain = s.receiveChain /\ key.n >= s.receiveCount
    \/ key.chain = s.sendChain /\ key.n >= s.sendCount
ReadKeysAreGone ==
    \A m \in network :
        m.number \in AllRead(m.to) =>
            ~Yields(states[m.to], m.key) /\ ~Yields(states[Peer(m.to)], m.key)
OthersOpen ==
    \A m \in network :
        LET s == Pruned(states[m.to])
        IN  m.number \notin AllRead(m.to) =>
                DecryptInto(s, m, TRUE) # Failed \/ m.key \in s.forgotten \/ TooFar(s, m)
KeysLiveUntilRead == ReadKeysAreGone /\ OthersOpen

=============================================================================
