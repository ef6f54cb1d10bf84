--------------------------- MODULE RatchetProofs ----------------------------
(***************************************************************************)
(* What the double ratchet keeps for any number of messages, any bounds on *)
(* skipped keys and any order, repetition and forgery of deliveries.       *)
(***************************************************************************)
EXTENDS Ratchet, FiniteSetTheorems, TLAPS

-----------------------------------------------------------------------------
(* Types *)

Chain == Seq(SUBSET Nat)
Key == [chain : Chain, n : Nat]
Entry == [header : Chain, n : Nat, at : Nat, key : Key]
State ==
    [self : Nat, remote : Nat \cup {Null}, root : Chain, sendChain : Chain, receiveChain : Chain,
     sendHeader : Chain, nextSendHeader : Chain, receiveHeader : Chain, nextReceiveHeader : Chain,
     sendCount : Nat, receiveCount : Nat, previousSendCount : Nat, skipped : SUBSET Entry,
     forgotten : SUBSET Key]
Message == [number : Nat, to : Ends, header : Chain, dh : Nat, pn : Nat, n : Nat, key : Key]

To(e) == {m \in network : m.to = e}

TypeInv ==
    /\ states \in [Ends -> State]
    /\ pairs \in Nat /\ now \in Nat
    /\ network \subseteq Message /\ IsFiniteSet(network)
    /\ read \in [Ends -> [Numbers -> Nat]]
    /\ \A m \in network : m.number \in 1..Cardinality(network)
    /\ \A l \in network, m \in network : l.number = m.number => l = m
    /\ \A e \in Ends : Cardinality(To(e)) <= MaxSent

-----------------------------------------------------------------------------
(* What a step of one end does to its state *)

Same(s, t) ==
    /\ t.self = s.self /\ t.remote = s.remote /\ t.root = s.root
    /\ t.sendChain = s.sendChain /\ t.receiveChain = s.receiveChain
    /\ t.sendHeader = s.sendHeader /\ t.nextSendHeader = s.nextSendHeader
    /\ t.receiveHeader = s.receiveHeader /\ t.nextReceiveHeader = s.nextReceiveHeader
    /\ t.sendCount = s.sendCount /\ t.previousSendCount = s.previousSendCount

\* t is s with its chain moved on to `until`: what is skipped is stored or destroyed.
Moved(s, t, until) ==
    /\ t \in State /\ Same(s, t)
    /\ t.receiveCount = until /\ until \in Nat /\ s.receiveCount <= until
    /\ t.skipped \subseteq s.skipped \cup Missing(s, until)
    /\ KeysOf(s.skipped) \cup KeysOf(Missing(s, until)) \cup s.forgotten
           \subseteq KeysOf(t.skipped) \cup t.forgotten

LEMMA FailedIsNoState == Failed \notin State
BY DEF Failed, State

LEMMA MissingTypes ==
    ASSUME NEW s \in State, NEW until \in Nat, now \in Nat
    PROVE  Missing(s, until) \subseteq Entry
BY DEF Missing, State, Entry, Key, MessageKey

LEMMA MissingNone ==
    ASSUME NEW s \in State
    PROVE  Missing(s, s.receiveCount) = {}
BY DEF Missing, State

LEMMA KeysTypes ==
    ASSUME NEW S \in SUBSET Entry
    PROVE  KeysOf(S) \subseteq Key
BY DEF KeysOf, Entry

LEMMA PrunedMoves ==
    ASSUME NEW s \in State, now \in Nat
    PROVE  Moved(s, Pruned(s), s.receiveCount)
<1> DEFINE t == Pruned(s)
           young == {k \in s.skipped : now < k.at + MaxAge}
           kept == {k \in young : Cardinality({j \in young : StoredAfter(j, k)}) < MaxStored}
<1>1. t = [s EXCEPT !.skipped = kept, !.forgotten = @ \cup (KeysOf(s.skipped) \ KeysOf(kept))]
  BY DEF Pruned
<1>2. kept \subseteq s.skipped
  OBVIOUS
<1>3. KeysOf(s.skipped) \subseteq Key
  BY KeysTypes DEF State
<1> HIDE DEF kept, t
<1>4. t \in State /\ Same(s, t) /\ t.receiveCount = s.receiveCount
  BY <1>1, <1>2, <1>3 DEF State, Same
<1>5. t.skipped = kept /\ t.forgotten = s.forgotten \cup (KeysOf(s.skipped) \ KeysOf(kept))
  BY <1>1 DEF State
<1>6. KeysOf(Missing(s, s.receiveCount)) = {}
  BY MissingNone DEF KeysOf
<1>7. s.receiveCount \in Nat
  BY DEF State
<1> QED
  BY <1>2, <1>4, <1>5, <1>6, <1>7 DEF Moved, t

LEMMA MovesCompose ==
    ASSUME NEW s \in State, NEW t, NEW u, NEW a, NEW b,
           Moved(s, t, a), Moved(t, u, b)
    PROVE  Moved(s, u, b)
<1>1. /\ t \in State /\ a = t.receiveCount
      /\ s.receiveCount \in Nat /\ a \in Nat /\ b \in Nat /\ s.receiveCount <= a /\ a <= b
  BY DEF Moved, State
<1>2. Missing(s, b) = Missing(s, a) \cup Missing(t, b)
  BY <1>1 DEF Missing, Moved, Same
<1>3. KeysOf(Missing(s, b)) = KeysOf(Missing(s, a)) \cup KeysOf(Missing(t, b))
  BY <1>2 DEF KeysOf
<1>4. u.skipped \subseteq s.skipped \cup Missing(s, b)
  BY <1>2 DEF Moved
<1>5. KeysOf(s.skipped) \cup KeysOf(Missing(s, b)) \cup s.forgotten \subseteq KeysOf(u.skipped) \cup u.forgotten
  BY <1>3 DEF Moved
<1>6. u \in State /\ Same(s, u) /\ u.receiveCount = b
  BY DEF Moved, Same
<1> QED
  BY <1>1, <1>4, <1>5, <1>6 DEF Moved

Reached(s, until) == IF s.receiveChain = Null \/ until <= s.receiveCount THEN s.receiveCount ELSE until

LEMMA SkipMoves ==
    ASSUME NEW s \in State, NEW until \in Nat, now \in Nat,
           SkipMessageKeys(s, until) # Failed
    PROVE  Moved(s, SkipMessageKeys(s, until), Reached(s, until))
<1>1. s.receiveCount \in Nat
  BY DEF State
<1>2. CASE s.receiveChain = Null \/ until <= s.receiveCount
  <2>1. SkipMessageKeys(s, until) = s /\ Reached(s, until) = s.receiveCount
    BY <1>2 DEF SkipMessageKeys, Reached
  <2>2. Moved(s, s, s.receiveCount)
    BY <1>1, MissingNone DEF Moved, Same, KeysOf
  <2> QED
    BY <2>1, <2>2
<1>3. CASE ~(s.receiveChain = Null \/ until <= s.receiveCount)
  <2> DEFINE more == [s EXCEPT !.skipped = @ \cup Missing(s, until), !.receiveCount = until]
  <2>1. SkipMessageKeys(s, until) = Pruned(more) /\ Reached(s, until) = until
    BY <1>3 DEF SkipMessageKeys, Reached
  <2>2. Missing(s, until) \subseteq Entry
    BY MissingTypes
  <2>3. more \in State /\ Same(s, more) /\ more.receiveCount = until
    BY <2>2 DEF State, Same
  <2>4. more.skipped = s.skipped \cup Missing(s, until) /\ more.forgotten = s.forgotten
    BY DEF State
  <2>5. KeysOf(more.skipped) = KeysOf(s.skipped) \cup KeysOf(Missing(s, until))
    BY <2>4 DEF KeysOf
  <2> HIDE DEF more
  <2>6. Moved(s, more, until)
    BY <1>1, <1>3, <2>3, <2>4, <2>5 DEF Moved
  <2>7. Moved(more, Pruned(more), until)
    BY <2>3, PrunedMoves
  <2> QED
    BY <2>1, <2>6, <2>7, MovesCompose
<1> QED
  BY <1>2, <1>3

LEMMA SkipFails ==
    ASSUME NEW s \in State, NEW until \in Nat, now \in Nat,
           SkipMessageKeys(s, until) = Failed
    PROVE  s.receiveChain # Null /\ until > s.receiveCount + MaxSkip
<1>1. CASE ~(s.receiveChain # Null /\ until > s.receiveCount + MaxSkip)
  <2> DEFINE more == [s EXCEPT !.skipped = @ \cup Missing(s, until), !.receiveCount = until]
  <2>1. more \in State
    BY MissingTypes DEF State
  <2> HIDE DEF more
  <2>2. Pruned(more) \in State
    BY <2>1, PrunedMoves DEF Moved
  <2>3. SkipMessageKeys(s, until) = s \/ SkipMessageKeys(s, until) = Pruned(more)
    BY <1>1 DEF SkipMessageKeys, more
  <2> QED
    BY <2>2, <2>3, FailedIsNoState
<1> QED
  BY <1>1

-----------------------------------------------------------------------------
(* What a delivery comes to *)

\* A stored key is spent, ...
Spent(s, m, t) ==
    \E k \in s.skipped, u \in State :
        /\ k.key = m.key /\ k \in u.skipped
        /\ Moved(s, u, s.receiveCount)
        /\ t = Spend(u, k)

\* ... or the current chain reaches the message, ...
OnChain(s, m, t) ==
    \E u \in State :
        /\ s.receiveChain # Null /\ m.header = s.receiveHeader
        /\ m.key.chain = s.receiveChain
        /\ Moved(s, u, m.key.n)
        /\ t = [u EXCEPT !.receiveCount = @ + 1]

\* ... or both directions turn, and the new chain reaches it.
Turned(s, m, t) ==
    \E u \in State, w \in State, v \in State :
        /\ m.header = s.nextReceiveHeader
        /\ Moved(s, u, Reached(s, m.pn))
        /\ w = PerformDhRatchet(u, m.dh)
        /\ m.key.chain = w.receiveChain
        /\ Moved(w, v, m.key.n)
        /\ t = [v EXCEPT !.receiveCount = @ + 1]

LEMMA RatchetTypes ==
    ASSUME NEW s \in State, NEW dh \in Nat, pairs \in Nat
    PROVE  PerformDhRatchet(s, dh) \in State
<1> DEFINE received == KdfRootKey(s.root, DH(s.self, dh))
           sending  == KdfRootKey(received, DH(pairs + 1, dh))
<1>1. DH(s.self, dh) \in SUBSET Nat /\ DH(pairs + 1, dh) \in SUBSET Nat
  BY DEF DH, State
<1>2. received \in Chain
  BY <1>1 DEF KdfRootKey, Chain, State
<1>3. sending \in Chain
  BY <1>1, <1>2 DEF KdfRootKey, Chain
<1> HIDE DEF received, sending
<1> QED
  BY <1>2, <1>3 DEF State, PerformDhRatchet, received, sending

LEMMA ReceiveMoves ==
    ASSUME NEW s \in State, NEW m \in Message, NEW intact \in BOOLEAN, now \in Nat,
           Receive(s, m, intact) # Failed
    PROVE  /\ intact /\ s.receiveChain # Null /\ m.key.chain = s.receiveChain
           /\ \E u \in State : Moved(s, u, m.key.n) /\ Receive(s, m, intact) = [u EXCEPT !.receiveCount = @ + 1]
<1> DEFINE u == SkipMessageKeys(s, m.n)
<1>1. s # Failed
  BY FailedIsNoState
<1>2. /\ u # Failed /\ u.receiveChain # Null /\ intact
      /\ m.key = MessageKey(u.receiveChain, u.receiveCount)
      /\ Receive(s, m, intact) = [u EXCEPT !.receiveCount = @ + 1]
  BY <1>1 DEF Receive
<1>3. Moved(s, u, Reached(s, m.n))
  BY <1>2, SkipMoves DEF Message
<1> HIDE DEF u
<1>4. u.receiveChain = s.receiveChain /\ u.receiveCount = Reached(s, m.n) /\ u \in State
  BY <1>3 DEF Moved, Same
<1>5. m.key.chain = u.receiveChain /\ m.key.n = u.receiveCount
  BY <1>2 DEF MessageKey
<1> QED
  BY <1>2, <1>3, <1>4, <1>5

LEMMA Outcomes ==
    ASSUME NEW s \in State, NEW m \in Message, NEW intact \in BOOLEAN, now \in Nat, pairs \in Nat,
           NEW t, t = DecryptInto(Pruned(s), m, intact), t # Failed
    PROVE  Spent(s, m, t) \/ OnChain(s, m, t) \/ Turned(s, m, t)
<1> DEFINE q == Pruned(s)
<1>1. Moved(s, q, s.receiveCount)
  BY PrunedMoves
<1>2. q \in State /\ Same(s, q) /\ q.receiveCount = s.receiveCount
  BY <1>1 DEF Moved
<1>3. m.n \in Nat /\ m.pn \in Nat /\ m.dh \in Nat
  BY DEF Message
<1>4. t = DecryptInto(q, m, intact)
  OBVIOUS
<1> HIDE DEF q
<1>5. CASE AtSkipped(q, m) # {}
  <2> DEFINE k == CHOOSE j \in AtSkipped(q, m) : TRUE
  <2>1. k \in AtSkipped(q, m)
    BY <1>5
  <2>2. t = IF intact /\ k.key = m.key THEN Spend(q, k) ELSE Failed
    BY <1>4, <1>5 DEF DecryptInto
  <2> HIDE DEF k
  <2>3. k \in q.skipped /\ k.key = m.key /\ t = Spend(q, k)
    BY <2>1, <2>2 DEF AtSkipped
  <2>4. k \in s.skipped
    BY <1>1, <2>3, MissingNone DEF Moved
  <2> QED
    BY <1>1, <1>2, <2>3, <2>4 DEF Spent
<1>6. CASE AtSkipped(q, m) = {} /\ m.header = q.receiveHeader
  <2>1. t = Receive(q, m, intact)
    BY <1>4, <1>6 DEF DecryptInto
  <2>2. PICK u \in State : Moved(q, u, m.key.n) /\ t = [u EXCEPT !.receiveCount = @ + 1]
    BY <1>2, <2>1, ReceiveMoves
  <2>3. q.receiveChain # Null /\ m.key.chain = q.receiveChain
    BY <1>2, <2>1, ReceiveMoves
  <2>4. Moved(s, u, m.key.n)
    BY <1>1, <2>2, MovesCompose
  <2>5. q.receiveChain = s.receiveChain /\ q.receiveHeader = s.receiveHeader
    BY <1>2 DEF Same
  <2> QED
    BY <1>6, <2>2, <2>3, <2>4, <2>5 DEF OnChain
<1>7. CASE AtSkipped(q, m) = {} /\ m.header # q.receiveHeader /\ m.header = q.nextReceiveHeader
  <2> DEFINE u == SkipMessageKeys(q, m.pn)
             w == PerformDhRatchet(u, m.dh)
  <2>1. u # Failed /\ t = Receive(w, m, intact)
    BY <1>4, <1>7 DEF DecryptInto
  <2>2. Moved(q, u, Reached(q, m.pn))
    BY <1>2, <1>3, <2>1, SkipMoves
  <2>3. Reached(q, m.pn) = Reached(s, m.pn)
    BY <1>2 DEF Reached, Same
  <2>4. Moved(s, u, Reached(s, m.pn))
    BY <1>1, <2>2, <2>3, MovesCompose
  <2>5. u \in State
    BY <2>2 DEF Moved
  <2> HIDE DEF u
  <2>6. w \in State
    BY <1>3, <2>5, RatchetTypes
  <2>7. w = PerformDhRatchet(u, m.dh)
    OBVIOUS
  <2> HIDE DEF w
  <2>8. PICK v \in State : Moved(w, v, m.key.n) /\ t = [v EXCEPT !.receiveCount = @ + 1]
    BY <2>1, <2>6, ReceiveMoves
  <2>9. m.key.chain = w.receiveChain
    BY <2>1, <2>6, ReceiveMoves
  <2>10. m.header = s.nextReceiveHeader
    BY <1>2, <1>7 DEF Same
  <2> QED
    BY <2>4, <2>5, <2>6, <2>7, <2>8, <2>9, <2>10 DEF Turned
<1>8. CASE AtSkipped(q, m) = {} /\ m.header # q.receiveHeader /\ m.header # q.nextReceiveHeader
  BY <1>4, <1>8 DEF DecryptInto
<1> QED
  BY <1>5, <1>6, <1>7, <1>8

LEMMA OutcomeTypes ==
    ASSUME NEW s \in State, NEW m, NEW t, Spent(s, m, t) \/ OnChain(s, m, t) \/ Turned(s, m, t)
    PROVE  t \in State
<1>1. CASE Spent(s, m, t)
  BY <1>1 DEF Spent, Spend, State
<1>2. CASE OnChain(s, m, t)
  BY <1>2 DEF OnChain, State
<1>3. CASE Turned(s, m, t)
  BY <1>3 DEF Turned, State
<1> QED
  BY <1>1, <1>2, <1>3

\* What a delivery does to the variables, without the steps it takes.
Refused(e, t) == Moved(states[e], t, states[e].receiveCount) /\ read' = read
Accepted(e, m, t) ==
    /\ Spent(states[e], m, t) \/ OnChain(states[e], m, t) \/ Turned(states[e], m, t)
    /\ read' = [read EXCEPT ![e][m.number] = @ + 1]

LEMMA Deliveries ==
    ASSUME TypeInv, NEW e \in Ends, NEW m \in network, NEW intact \in BOOLEAN, RatchetDecrypt(e, m, intact)
    PROVE  /\ m.to = e /\ UNCHANGED <<network, now>> /\ pairs' \in Nat
           /\ \E t \in State : /\ states' = [states EXCEPT ![e] = t]
                               /\ Refused(e, t) \/ Accepted(e, m, t)
<1> DEFINE s == states[e]
           q == Pruned(s)
           tried == DecryptInto(q, m, intact)
           t == Committed(q, tried, m)
<1>1. s \in State /\ m \in Message /\ now \in Nat /\ pairs \in Nat
  BY DEF TypeInv
<1>2. /\ m.to = e /\ UNCHANGED <<network, now>>
      /\ states' = [states EXCEPT ![e] = t]
      /\ pairs' = IF t.self > pairs THEN t.self ELSE pairs
      /\ read' = IF tried = Failed THEN read ELSE [read EXCEPT ![e][m.number] = @ + 1]
  BY DEF RatchetDecrypt
<1>3. tried # Failed => Spent(s, m, tried) \/ OnChain(s, m, tried) \/ Turned(s, m, tried)
  BY <1>1, Outcomes
<1>4. Moved(s, q, s.receiveCount)
  BY <1>1, PrunedMoves
<1> HIDE DEF q, tried
<1>5. CASE tried = Failed
  <2>1. t = q
    BY <1>5 DEF Committed
  <2>2. t \in State
    BY <1>4, <2>1 DEF Moved
  <2>3. Refused(e, t)
    BY <1>2, <1>4, <1>5, <2>1 DEF Refused
  <2>4. t.self \in Nat
    BY <2>2 DEF State
  <2> HIDE DEF t
  <2> QED
    BY <1>1, <1>2, <2>2, <2>3, <2>4
<1>6. CASE tried # Failed
  <2>1. t = tried
    BY <1>6 DEF Committed
  <2>2. Accepted(e, m, t)
    BY <1>2, <1>3, <1>6, <2>1 DEF Accepted
  <2>3. t \in State
    BY <1>1, <1>3, <1>6, <2>1, OutcomeTypes
  <2>4. t.self \in Nat
    BY <2>3 DEF State
  <2> HIDE DEF t
  <2> QED
    BY <1>1, <1>2, <2>2, <2>3, <2>4
<1> QED
  BY <1>5, <1>6

\* The network holds no more than both ends may send.
LEMMA NetworkBound ==
    ASSUME IsFiniteSet(network), network \subseteq Message
    PROVE  /\ \A e \in Ends : IsFiniteSet(To(e)) /\ Cardinality(To(e)) \in Nat
           /\ Cardinality(network) \in Nat
           /\ Cardinality(network) <= Cardinality(To("initiator")) + Cardinality(To("responder"))
<1>1. \A e \in Ends : To(e) \subseteq network
  BY DEF To
<1>2. \A e \in Ends : IsFiniteSet(To(e)) /\ Cardinality(To(e)) \in Nat
  BY <1>1, FS_Subset, FS_CardinalityType
<1>3. network = To("initiator") \cup To("responder")
  BY DEF To, Message, Ends
<1>4. To("initiator") \cap To("responder") \subseteq To("initiator")
  OBVIOUS
<1>5. IsFiniteSet(To("initiator")) /\ IsFiniteSet(To("responder"))
  BY <1>2 DEF Ends
<1>6. Cardinality(network) = Cardinality(To("initiator")) + Cardinality(To("responder"))
                           - Cardinality(To("initiator") \cap To("responder"))
  BY <1>3, <1>5, FS_Union
<1>7. Cardinality(To("initiator") \cap To("responder")) \in Nat
  BY <1>4, <1>5, FS_Subset, FS_CardinalityType
<1> QED
  BY <1>2, <1>6, <1>7, FS_CardinalityType DEF Ends

-----------------------------------------------------------------------------

LEMMA InitTypes == Init => TypeInv
<1> SUFFICES ASSUME Init PROVE TypeInv
  OBVIOUS
<1>1. DH(FirstPair, SignedPreKey) \in SUBSET Nat
  BY DEF DH, FirstPair, SignedPreKey
<1>2. /\ <<>> \in Chain /\ InitiatorHeader \in Chain /\ ResponderHeader \in Chain
      /\ KdfRootKey(<<>>, DH(FirstPair, SignedPreKey)) \in Chain
  BY <1>1 DEF Chain, InitiatorHeader, ResponderHeader, KdfRootKey
<1>3. InitiateSession \in State
  BY <1>2 DEF InitiateSession, State, Null, FirstPair, SignedPreKey
<1>4. AcceptSession \in State
  BY <1>2 DEF AcceptSession, State, Null, SignedPreKey
<1>5. states \in [Ends -> State]
  BY <1>3, <1>4 DEF Init
<1>6. \A e \in Ends : To(e) = {}
  BY DEF Init, To
<1>7. IsFiniteSet({}) /\ Cardinality({}) = 0 /\ MaxSent \in Nat
  BY BoundsAssumption, FS_EmptySet
<1>8. \A e \in Ends : Cardinality(To(e)) <= MaxSent
  BY <1>6, <1>7
<1> QED
  BY <1>5, <1>7, <1>8 DEF Init, TypeInv, FirstPair, Numbers

LEMMA EncryptTypes ==
    ASSUME TypeInv, NEW e \in Ends, RatchetEncrypt(e)
    PROVE  TypeInv'
<1> DEFINE s == states[e]
           m == Envelope(e)
<1>1. /\ network' = network \cup {m} /\ UNCHANGED <<pairs, read, now>>
      /\ states' = [states EXCEPT ![e].sendCount = @ + 1]
      /\ Cardinality(To(Peer(e))) < MaxSent
  BY DEF RatchetEncrypt, To
<1>2. s \in State /\ Peer(e) \in Ends /\ MaxSent \in Nat
  BY BoundsAssumption DEF TypeInv, Peer, Ends
<1>3. Cardinality(network) \in Nat /\ Number \in Nat
  BY FS_CardinalityType DEF TypeInv, Number
<1>4. m \in Message
  BY <1>2, <1>3 DEF Envelope, Message, State, Key, MessageKey
<1>5. m \notin network
  BY <1>3 DEF TypeInv, Envelope, Number
<1>6. IsFiniteSet(network') /\ Cardinality(network') = Cardinality(network) + 1
  BY <1>1, <1>5, FS_AddElement DEF TypeInv
<1>7. m.number = Cardinality(network) + 1 /\ m.to = Peer(e)
  BY DEF Envelope, Number
<1> HIDE DEF m
<1>8. \A l \in network' : l.number \in 1..Cardinality(network')
  BY <1>1, <1>3, <1>6, <1>7 DEF TypeInv
<1>9. \A k \in network', l \in network' : k.number = l.number => k = l
  BY <1>1, <1>3, <1>7 DEF TypeInv
<1>10. \A f \in Ends : Cardinality(To(f)') <= MaxSent
  <2> TAKE f \in Ends
  <2>1. IsFiniteSet(To(f)) /\ Cardinality(To(f)) \in Nat
    BY NetworkBound DEF TypeInv
  <2>2. CASE f = Peer(e)
    <3>1. To(f)' = To(f) \cup {m} /\ m \notin To(f)
      BY <1>1, <1>5, <1>7, <2>2 DEF To
    <3>2. Cardinality(To(f)') = Cardinality(To(f)) + 1
      BY <2>1, <3>1, FS_AddElement
    <3>3. Cardinality(To(f)) < MaxSent
      BY <1>1, <2>2
    <3> QED
      BY <1>2, <2>1, <3>2, <3>3
  <2>3. CASE f # Peer(e)
    <3>1. To(f)' = To(f)
      BY <1>1, <1>7, <2>3 DEF To
    <3> QED
      BY <3>1 DEF TypeInv
  <2> QED
    BY <2>2, <2>3
<1>11. states' \in [Ends -> State]
  <2>1. [s EXCEPT !.sendCount = @ + 1] \in State
    BY <1>2 DEF State
  <2>2. states' = [states EXCEPT ![e] = [s EXCEPT !.sendCount = @ + 1]]
    BY <1>1
  <2> QED
    BY <2>1, <2>2 DEF TypeInv
<1>12. network' \subseteq Message
  BY <1>1, <1>4 DEF TypeInv
<1> QED
  BY <1>1, <1>6, <1>8, <1>9, <1>10, <1>11, <1>12 DEF TypeInv

LEMMA DecryptTypes ==
    ASSUME TypeInv, NEW e \in Ends, NEW m \in network, NEW intact \in BOOLEAN, RatchetDecrypt(e, m, intact)
    PROVE  TypeInv'
<1>1. /\ m.to = e /\ UNCHANGED <<network, now>> /\ pairs' \in Nat
      /\ \E t \in State : /\ states' = [states EXCEPT ![e] = t]
                          /\ Refused(e, t) \/ Accepted(e, m, t)
  BY Deliveries
<1>2. states' \in [Ends -> State]
  BY <1>1 DEF TypeInv
<1>3. read' = read \/ read' = [read EXCEPT ![e][m.number] = @ + 1]
  BY <1>1 DEF Refused, Accepted
<1>4. m.number \in Numbers
  BY NetworkBound, BoundsAssumption DEF TypeInv, Numbers, Ends
<1>5. read' \in [Ends -> [Numbers -> Nat]]
  BY <1>3, <1>4 DEF TypeInv
<1>6. \A f \in Ends : To(f)' = To(f)
  BY <1>1 DEF To
<1> QED
  BY <1>1, <1>2, <1>5, <1>6 DEF TypeInv

LEMMA NextTypes == TypeInv /\ [Next]_vars => TypeInv'
<1> SUFFICES ASSUME TypeInv, [Next]_vars PROVE TypeInv'
  OBVIOUS
<1>1. ASSUME NEW e \in Ends, RatchetEncrypt(e) PROVE TypeInv'
  BY <1>1, EncryptTypes
<1>2. ASSUME NEW e \in Ends, NEW m \in network, NEW intact \in BOOLEAN, RatchetDecrypt(e, m, intact)
      PROVE  TypeInv'
  BY <1>2, DecryptTypes
<1>3. CASE Tick
  BY <1>3 DEF Tick, TypeInv, To
<1>4. CASE UNCHANGED vars
  BY <1>4 DEF vars, TypeInv, To
<1> QED
  BY <1>1, <1>2, <1>3, <1>4 DEF Next

\* Every variable keeps its type: no step leaves an end without a session, and
\* messages are told apart by their numbers.
THEOREM TypeCorrect == Spec => []TypeInv
<1>1. Init => TypeInv
  BY InitTypes
<1>2. TypeInv /\ [Next]_vars => TypeInv'
  BY NextTypes
<1> QED
  BY <1>1, <1>2, PTL DEF Spec

-----------------------------------------------------------------------------
(* No key opens twice *)

\* The chain has gone beyond the key and does not come back to it.
Past(s, key) ==
    /\ key.chain # Null
    /\ Len(key.chain) <= Len(s.receiveChain)
    /\ key.chain = s.receiveChain => key.n < s.receiveCount

\* A session's chains grow, and each key it stores it stores once.
Grown(s) ==
    /\ s.receiveChain # Null => Len(s.receiveChain) < Len(s.root)
    /\ \A k \in s.skipped : Past(s, k.key) /\ k.key.n = k.n
    /\ \A j \in s.skipped, k \in s.skipped : j.key = k.key => j = k

Spending(s, key) == Past(s, key) /\ key \notin KeysOf(s.skipped)

ReadLeft == \A m \in network : m.number \in AllRead(m.to) => Spending(states[m.to], m.key)

OnceInv ==
    /\ \A e \in Ends : Grown(states[e]) /\ AllRead(e) \subseteq WrittenTo(e)
    /\ ReadLeft

LEMMA MovedGrows ==
    ASSUME NEW s \in State, NEW t, NEW until, Moved(s, t, until), Grown(s),
           s.receiveChain = Null => until = s.receiveCount
    PROVE  Grown(t) /\ \A key \in Key : Spending(s, key) => Spending(t, key)
<1>1. /\ t \in State /\ t.receiveChain = s.receiveChain /\ t.root = s.root
      /\ t.receiveCount = until /\ s.receiveCount <= until /\ until \in Nat /\ s.receiveCount \in Nat
  BY DEF Moved, Same, State
<1>2. \A key \in Key : Past(s, key) => Past(t, key)
  BY <1>1 DEF Past, Key
<1>3. \A k \in Missing(s, until) :
        /\ k.key.chain = s.receiveChain /\ k.key.n = k.n /\ k.n \in Nat /\ s.receiveCount <= k.n /\ k.n < until
        /\ k.header = s.receiveHeader /\ k.at = now /\ k.key = MessageKey(s.receiveChain, k.n)
  BY <1>1 DEF Missing, MessageKey
<1>4. Missing(s, until) # {} => s.receiveChain # Null
  BY MissingNone
<1>5. \A k \in s.skipped : k.key \in Key
  BY DEF State, Entry
<1>6. t.skipped \subseteq s.skipped \cup Missing(s, until)
  BY DEF Moved
<1>7. s.receiveChain \in Chain
  BY DEF State
<1>8. ASSUME NEW k \in t.skipped PROVE Past(t, k.key) /\ k.key.n = k.n
  <2>1. CASE k \in s.skipped
    BY <1>2, <1>5, <2>1 DEF Grown
  <2>2. CASE k \in Missing(s, until)
    BY <1>1, <1>3, <1>4, <1>7, <2>2 DEF Past, Chain
  <2> QED
    BY <1>6, <2>1, <2>2
<1>9. ASSUME NEW j \in t.skipped, NEW k \in t.skipped, j.key = k.key PROVE j = k
  <2>1. CASE j \in s.skipped /\ k \in s.skipped
    BY <1>9, <2>1 DEF Grown
  <2>2. CASE j \in Missing(s, until) /\ k \in Missing(s, until)
    BY <1>3, <1>9, <2>2 DEF Missing
  <2>3. ASSUME NEW x \in s.skipped, NEW y \in Missing(s, until) PROVE x.key # y.key
    BY <1>1, <1>3, <1>5 DEF Grown, Past, Key
  <2> QED
    BY <1>6, <1>9, <2>1, <2>2, <2>3
<1>10. ASSUME NEW key \in Key, Spending(s, key) PROVE Spending(t, key)
  <2>1. \A k \in Missing(s, until) : k.key # key
    BY <1>1, <1>3, <1>10 DEF Spending, Past, Key
  <2>2. key \notin KeysOf(t.skipped)
    BY <1>6, <1>10, <2>1 DEF Spending, KeysOf
  <2> QED
    BY <1>2, <1>10, <2>2 DEF Spending
<1> QED
  BY <1>1, <1>8, <1>9, <1>10 DEF Grown

LEMMA RatchetGrows ==
    ASSUME NEW s \in State, NEW dh \in Nat, pairs \in Nat, Grown(s)
    PROVE  LET w == PerformDhRatchet(s, dh) IN
           /\ Grown(w) /\ w.receiveChain # Null
           /\ \A key \in Key : Spending(s, key) => Spending(w, key)
<1> DEFINE w == PerformDhRatchet(s, dh)
           received == KdfRootKey(s.root, DH(s.self, dh))
           sending  == KdfRootKey(received, DH(pairs + 1, dh))
<1>1. /\ w.root = sending /\ w.receiveChain = received /\ w.receiveCount = 0 /\ w.skipped = s.skipped
      /\ w \in State
  BY RatchetTypes DEF PerformDhRatchet
<1>2. s.root \in Seq(SUBSET Nat) /\ DH(s.self, dh) \in SUBSET Nat /\ DH(pairs + 1, dh) \in SUBSET Nat
  BY DEF State, Chain, DH
<1>3. received \in Seq(SUBSET Nat) /\ Len(received) = Len(s.root) + 1
  BY <1>2 DEF KdfRootKey
<1>4. sending \in Seq(SUBSET Nat) /\ Len(sending) = Len(s.root) + 2
  BY <1>2, <1>3 DEF KdfRootKey
<1>5. Len(s.root) \in Nat /\ s.receiveChain \in Chain
  BY <1>2 DEF State
<1> HIDE DEF w, received, sending
<1>6. Len(s.receiveChain) < Len(received)
  BY <1>3, <1>5 DEF Grown, Null, Chain
<1>7. received # Null
  BY <1>3, <1>5 DEF Null
<1>8. \A key \in Key : Past(s, key) => Past(w, key)
  BY <1>1, <1>3, <1>5, <1>6 DEF Past, Key, Chain
<1>9. \A k \in s.skipped : k.key \in Key
  BY DEF State, Entry
<1>10. Grown(w)
  BY <1>1, <1>3, <1>4, <1>5, <1>8, <1>9 DEF Grown
<1>11. \A key \in Key : Spending(s, key) => Spending(w, key)
  BY <1>1, <1>8 DEF Spending
<1> QED
  BY <1>1, <1>7, <1>10, <1>11 DEF w

\* After a delivery was accepted its key is past, and so is every key that was.
LEMMA AcceptedGrows ==
    ASSUME NEW s \in State, NEW m \in Message, NEW t, now \in Nat, pairs \in Nat, Grown(s),
           Spent(s, m, t) \/ OnChain(s, m, t) \/ Turned(s, m, t)
    PROVE  /\ Grown(t) /\ Spending(t, m.key) /\ ~Spending(s, m.key)
           /\ \A key \in Key : Spending(s, key) => Spending(t, key)
<1>0. m.key \in Key
  BY DEF Message
<1>1. CASE Spent(s, m, t)
  <2>1. PICK k \in s.skipped, u \in State :
          /\ k.key = m.key /\ k \in u.skipped /\ Moved(s, u, s.receiveCount) /\ t = Spend(u, k)
    BY <1>1 DEF Spent
  <2>2. Grown(u) /\ \A key \in Key : Spending(s, key) => Spending(u, key)
    BY <2>1, MovedGrows
  <2>3. /\ t.skipped = u.skipped \ {k} /\ t.receiveChain = u.receiveChain
        /\ t.receiveCount = u.receiveCount /\ t.root = u.root
    BY <2>1 DEF Spend, State
  <2>4. \A key : Past(u, key) <=> Past(t, key)
    BY <2>3 DEF Past
  <2>5. Grown(t)
    BY <2>2, <2>3, <2>4 DEF Grown
  <2>6. m.key \notin KeysOf(t.skipped)
    BY <2>1, <2>2, <2>3 DEF Grown, KeysOf
  <2>7. Past(t, m.key)
    BY <2>1, <2>2, <2>4 DEF Grown
  <2>8. \A key \in Key : Spending(u, key) => Spending(t, key)
    BY <2>3, <2>4 DEF Spending, KeysOf
  <2>9. ~Spending(s, m.key)
    BY <2>1 DEF Spending, KeysOf
  <2> QED
    BY <2>2, <2>5, <2>6, <2>7, <2>8, <2>9 DEF Spending
<1>2. ASSUME NEW u \in State, NEW v \in State, Grown(u), u.receiveChain # Null,
             m.key.chain = u.receiveChain, Moved(u, v, m.key.n), t = [v EXCEPT !.receiveCount = @ + 1],
             \A key \in Key : Spending(s, key) => Spending(u, key)
      PROVE  /\ Grown(t) /\ Spending(t, m.key) /\ ~Spending(s, m.key)
             /\ \A key \in Key : Spending(s, key) => Spending(t, key)
  <2>1. Grown(v) /\ \A key \in Key : Spending(u, key) => Spending(v, key)
    BY <1>2, MovedGrows
  <2>2. /\ t.skipped = v.skipped /\ t.receiveChain = v.receiveChain /\ t.root = v.root
        /\ t.receiveCount = v.receiveCount + 1 /\ v.receiveCount = m.key.n /\ v.receiveChain = m.key.chain
        /\ v.receiveCount \in Nat /\ u.receiveCount \in Nat /\ u.receiveCount <= m.key.n
    BY <1>2 DEF State, Moved, Same
  <2>3. \A key \in Key : Past(v, key) => Past(t, key)
    BY <2>2 DEF Past, Key
  <2>4. \A k \in v.skipped : k.key \in Key
    BY DEF State, Entry
  <2>5. Grown(t)
    BY <2>1, <2>2, <2>3, <2>4 DEF Grown
  <2>6. m.key \notin KeysOf(t.skipped)
    BY <2>1, <2>2 DEF Grown, Past, KeysOf
  <2>7. Past(t, m.key)
    BY <1>0, <1>2, <2>2 DEF Past, Key, Chain
  <2>8. ~Spending(u, m.key)
    BY <1>2, <2>2 DEF Spending, Past
  <2> QED
    BY <1>0, <1>2, <2>1, <2>2, <2>3, <2>5, <2>6, <2>7, <2>8 DEF Spending
<1>3. CASE OnChain(s, m, t)
  BY <1>2, <1>3 DEF OnChain
<1>4. CASE Turned(s, m, t)
  <2>1. PICK u \in State, w \in State, v \in State :
          /\ Moved(s, u, Reached(s, m.pn)) /\ w = PerformDhRatchet(u, m.dh)
          /\ m.key.chain = w.receiveChain /\ Moved(w, v, m.key.n)
          /\ t = [v EXCEPT !.receiveCount = @ + 1]
    BY <1>4 DEF Turned
  <2>2. s.receiveChain = Null => Reached(s, m.pn) = s.receiveCount
    BY DEF Reached
  <2>3. Grown(u) /\ \A key \in Key : Spending(s, key) => Spending(u, key)
    BY <2>1, <2>2, MovedGrows
  <2>4. m.dh \in Nat
    BY DEF Message
  <2>5. Grown(w) /\ w.receiveChain # Null /\ \A key \in Key : Spending(u, key) => Spending(w, key)
    BY <2>1, <2>3, <2>4, RatchetGrows
  <2> QED
    BY <1>2, <2>1, <2>3, <2>5
<1> QED
  BY <1>1, <1>3, <1>4

LEMMA InitOnce == Init => OnceInv
<1> SUFFICES ASSUME Init PROVE OnceInv
  OBVIOUS
<1>1. \A e \in Ends : states[e].receiveChain = Null /\ states[e].skipped = {}
  BY DEF Init, InitiateSession, AcceptSession
<1>2. \A e \in Ends : AllRead(e) = {}
  BY DEF Init, AllRead
<1> QED
  BY <1>1, <1>2 DEF Init, OnceInv, Grown, ReadLeft

\* The numbers of messages to an end, and those read, after each step.
LEMMA Counted ==
    ASSUME TypeInv, NEW m \in network
    PROVE  m.number \in Numbers /\ (m.number \in WrittenTo(m.to))
           /\ \A e \in Ends : m.number \in WrittenTo(e) => m.to = e
<1>1. m.number \in Numbers
  BY NetworkBound, BoundsAssumption DEF TypeInv, Numbers, Ends
<1> QED
  BY <1>1 DEF TypeInv, WrittenTo

LEMMA EncryptOnce ==
    ASSUME TypeInv, OnceInv, NEW e \in Ends, RatchetEncrypt(e)
    PROVE  OnceInv'
<1> DEFINE m == Envelope(e)
<1>1. /\ network' = network \cup {m}
      /\ states' = [states EXCEPT ![e].sendCount = @ + 1] /\ read' = read
  BY DEF RatchetEncrypt
<1>2. m.number = Number /\ m.to = Peer(e)
  BY DEF Envelope
<1> HIDE DEF m
<1>3. \A f \in Ends :
        /\ states'[f].skipped = states[f].skipped /\ states'[f].receiveChain = states[f].receiveChain
        /\ states'[f].receiveCount = states[f].receiveCount /\ states'[f].root = states[f].root
  BY <1>1 DEF TypeInv, State
<1>4. \A f \in Ends : Grown(states'[f])
  BY <1>3 DEF OnceInv, Grown, Past
<1>5. \A f \in Ends : AllRead(f)' = AllRead(f) /\ AllRead(f) \subseteq WrittenTo(f) /\ WrittenTo(f) \subseteq WrittenTo(f)'
  BY <1>1, <1>2 DEF OnceInv, AllRead, WrittenTo
<1>6. Peer(e) \in Ends
  BY DEF Peer, Ends
<1>7. \A f \in Ends : Number \notin AllRead(f)
  BY <1>5, FS_CardinalityType DEF TypeInv, Number, WrittenTo
<1>8. \A l \in network : l.to \in Ends
  BY DEF TypeInv, Message
<1>9. ReadLeft'
  BY <1>1, <1>2, <1>3, <1>5, <1>6, <1>7, <1>8 DEF OnceInv, ReadLeft, Spending, Past
<1> QED
  BY <1>4, <1>5, <1>9 DEF OnceInv

LEMMA DecryptOnce ==
    ASSUME TypeInv, OnceInv, NEW e \in Ends, NEW m \in network, NEW intact \in BOOLEAN,
           RatchetDecrypt(e, m, intact)
    PROVE  OnceInv'
<1>1. /\ m.to = e /\ network' = network /\ now \in Nat /\ pairs \in Nat /\ m \in Message
      /\ states[e] \in State
  BY Deliveries DEF TypeInv
<1>2. PICK t \in State : states' = [states EXCEPT ![e] = t] /\ (Refused(e, t) \/ Accepted(e, m, t))
  BY Deliveries
<1>3. states'[e] = t /\ \A f \in Ends : f # e => states'[f] = states[f]
  BY <1>2 DEF TypeInv
<1>4. Grown(states[e]) /\ ReadLeft
  BY DEF OnceInv
<1>5. \A l \in network : l.key \in Key /\ l.to \in Ends
  BY DEF TypeInv, Message
<1>6. CASE Refused(e, t)
  <2>1. Grown(t) /\ \A key \in Key : Spending(states[e], key) => Spending(t, key)
    BY <1>1, <1>4, <1>6, MovedGrows DEF Refused
  <2>2. ReadLeft'
    BY <1>1, <1>3, <1>4, <1>5, <1>6, <2>1 DEF ReadLeft, Refused, AllRead
  <2> QED
    BY <1>1, <1>3, <1>6, <2>1, <2>2 DEF OnceInv, Refused, AllRead, WrittenTo
<1>7. CASE Accepted(e, m, t)
  <2>1. /\ Grown(t) /\ Spending(t, m.key)
        /\ \A key \in Key : Spending(states[e], key) => Spending(t, key)
    BY <1>1, <1>4, <1>7, AcceptedGrows DEF Accepted
  <2>2. m.number \in Numbers /\ m.number \in WrittenTo(e)
    BY <1>1, Counted
  <2>3. /\ AllRead(e)' = AllRead(e) \cup {m.number}
        /\ \A f \in Ends : f # e => AllRead(f)' = AllRead(f)
    BY <1>7, <2>2 DEF Accepted, AllRead, TypeInv
  <2>4. \A l \in network : l.number = m.number => l = m
    BY DEF TypeInv
  <2>5. ReadLeft'
    BY <1>1, <1>3, <1>4, <1>5, <2>1, <2>3, <2>4 DEF ReadLeft
  <2>6. \A f \in Ends : WrittenTo(f)' = WrittenTo(f)
    BY <1>1 DEF WrittenTo
  <2> QED
    BY <1>3, <2>1, <2>2, <2>3, <2>5, <2>6 DEF OnceInv
<1> QED
  BY <1>2, <1>6, <1>7

LEMMA NextOnce == TypeInv /\ OnceInv /\ [Next]_vars => OnceInv'
<1> SUFFICES ASSUME TypeInv, OnceInv, [Next]_vars PROVE OnceInv'
  OBVIOUS
<1>1. ASSUME NEW e \in Ends, RatchetEncrypt(e) PROVE OnceInv'
  BY <1>1, EncryptOnce
<1>2. ASSUME NEW e \in Ends, NEW m \in network, NEW intact \in BOOLEAN, RatchetDecrypt(e, m, intact)
      PROVE  OnceInv'
  BY <1>2, DecryptOnce
<1>3. CASE UNCHANGED <<states, network, read>>
  BY <1>3 DEF OnceInv, ReadLeft, AllRead, WrittenTo
<1> QED
  BY <1>1, <1>2, <1>3 DEF Next, Tick, vars

LEMMA OnceHolds == Spec => [](TypeInv /\ OnceInv)
<1>1. Init => TypeInv /\ OnceInv
  BY InitTypes, InitOnce
<1>2. TypeInv /\ OnceInv /\ [Next]_vars => (TypeInv /\ OnceInv)'
  BY NextTypes, NextOnce
<1> QED
  BY <1>1, <1>2, PTL DEF Spec

-----------------------------------------------------------------------------
(* The ratchet implements Channel *)

LEMMA InitReads == Init => Conversation!Init
<1> SUFFICES ASSUME Init PROVE Conversation!Init
  OBVIOUS
<1>1. \A e \in Ends : WrittenTo(e) = {}
  BY DEF Init, WrittenTo
<1> QED
  BY <1>1 DEF Init, Conversation!Init

LEMMA StepReads ==
    TypeInv /\ OnceInv /\ [Next]_vars => [Conversation!Next]_<<[e \in Ends |-> WrittenTo(e)], read>>
<1> SUFFICES ASSUME TypeInv, OnceInv, [Next]_vars
             PROVE  [Conversation!Next]_<<[e \in Ends |-> WrittenTo(e)], read>>
  OBVIOUS
<1> DEFINE written == [e \in Ends |-> WrittenTo(e)]
<1>1. ASSUME NEW e \in Ends, RatchetEncrypt(e) PROVE Conversation!Next
  <2>1. network' = network \cup {Envelope(e)} /\ read' = read /\ Cardinality(To(Peer(e))) < MaxSent
    BY <1>1 DEF RatchetEncrypt, To
  <2>2. Peer(e) \in Ends /\ Envelope(e).number = Number /\ Envelope(e).to = Peer(e)
    BY DEF Peer, Ends, Envelope
  <2>3. WrittenTo(Peer(e))' = WrittenTo(Peer(e)) \cup {Number}
    BY <2>1, <2>2 DEF WrittenTo
  <2>4. \A f \in Ends : f # Peer(e) => WrittenTo(f)' = WrittenTo(f)
    BY <2>1, <2>2 DEF WrittenTo
  <2>5. \A f \in Ends : Number \notin WrittenTo(f)
    BY FS_CardinalityType DEF TypeInv, Number, WrittenTo
  <2>6. Number \in Numbers
    BY <2>1, NetworkBound, BoundsAssumption DEF TypeInv, Number, Numbers, Ends, Peer
  <2>7. written' = [written EXCEPT ![Peer(e)] = @ \cup {Number}]
    BY <2>2, <2>3, <2>4
  <2>8. Conversation!Write(Peer(e), Number)
    BY <2>1, <2>5, <2>6, <2>7 DEF Conversation!Write
  <2>9. Number \in written'[Peer(e)] \ written[Peer(e)]
    BY <2>2, <2>3, <2>5
  <2> QED
    BY <2>2, <2>8, <2>9 DEF Conversation!Next
<1>2. ASSUME NEW e \in Ends, NEW m \in network, NEW intact \in BOOLEAN, RatchetDecrypt(e, m, intact)
      PROVE  Conversation!Next \/ UNCHANGED <<written, read>>
  <2>1. m.to = e /\ network' = network /\ now \in Nat /\ pairs \in Nat /\ m \in Message /\ states[e] \in State
    BY <1>2, Deliveries DEF TypeInv
  <2>2. PICK t \in State : Refused(e, t) \/ Accepted(e, m, t)
    BY <1>2, Deliveries
  <2>3. written' = written
    BY <2>1 DEF WrittenTo
  <2>4. CASE Refused(e, t)
    BY <2>3, <2>4 DEF Refused
  <2>5. CASE Accepted(e, m, t)
    <3>1. ~Spending(states[e], m.key)
      BY <2>1, <2>5, AcceptedGrows DEF Accepted, OnceInv
    <3>2. m.number \in Numbers /\ m.number \in WrittenTo(e)
      BY <2>1, Counted
    <3>3. m.number \notin AllRead(e)
      BY <2>1, <3>1 DEF OnceInv, ReadLeft
    <3>4. read[e][m.number] = 0
      BY <3>2, <3>3 DEF AllRead, TypeInv
    <3>5. read' = [read EXCEPT ![e][m.number] = 1]
      BY <2>5, <3>2, <3>4 DEF Accepted, TypeInv
    <3>6. Conversation!Read(e, m.number) /\ m.number \in written[e]
      BY <2>3, <3>2, <3>4, <3>5 DEF Conversation!Read
    <3> QED
      BY <3>6 DEF Conversation!Next
  <2> QED
    BY <2>2, <2>4, <2>5
<1>3. CASE UNCHANGED <<network, read>>
  BY <1>3 DEF WrittenTo
<1> QED
  BY <1>1, <1>2, <1>3 DEF Next, Tick, vars

\* ReadsOnce: for any bounds, and whatever the network does, the double ratchet
\* implements Channel: what an end reads its peer wrote to it, and it reads it
\* once (ratchetDecrypt).
THEOREM RatchetReadsOnce == Spec => ReadsOnce
<1>1. Init => Conversation!Init
  BY InitReads
<1>2. TypeInv /\ OnceInv /\ [Next]_vars => [Conversation!Next]_<<[e \in Ends |-> WrittenTo(e)], read>>
  BY StepReads
<1>3. Spec => [](TypeInv /\ OnceInv)
  BY OnceHolds
<1> QED
  BY <1>1, <1>2, <1>3, PTL DEF Spec, ReadsOnce, Conversation!Spec

-----------------------------------------------------------------------------
(* The two ends stay in step *)

\* `lead` turned last: its chains and header keys are one step ahead of its peer's.
InStep(lead, st) ==
    LET l == st[lead]
        f == st[Peer(lead)]
    IN  /\ l.root = KdfRootKey(f.root, DH(f.self, l.self))
        /\ l.sendChain = l.root /\ l.nextSendHeader = l.root
        /\ l.receiveChain = f.sendChain /\ l.receiveHeader = f.sendHeader
        /\ f.nextReceiveHeader = l.sendHeader /\ l.nextReceiveHeader = f.nextSendHeader

\* The chains of messages to an end, each with the header key that names it.
Link(header, chain) == [header |-> header, chain |-> chain]
LinksTo(e, st) ==
    {Link(m.header, m.key.chain) : m \in To(e)}
        \cup {Link(k.header, k.key.chain) : k \in st[e].skipped}
        \cup {Link(st[e].receiveHeader, st[e].receiveChain),
              Link(st[Peer(e)].sendHeader, st[Peer(e)].sendChain)}

\* A header key of a chain to come is one of the first two, or was derived with a root.
Derived(header, top) == header \in {InitiatorHeader, ResponderHeader} \/ Len(header) <= top

Matched(st) ==
    \A d \in Ends, e \in Ends : \A x \in LinksTo(d, st), y \in LinksTo(e, st) :
        /\ x.chain = y.chain <=> x.header = y.header
        /\ x.chain = y.chain /\ x.chain # Null => d = e

Unused(lead, st) ==
    LET top == Len(st[lead].root) IN
    /\ \A e \in Ends : \A x \in LinksTo(e, st) :
         /\ Len(x.chain) <= top /\ Derived(x.header, top)
         /\ \A f \in Ends : x.header # st[f].nextSendHeader
    /\ \A f \in Ends : Derived(st[f].nextSendHeader, top)
    /\ st[lead].nextSendHeader # st[Peer(lead)].nextSendHeader

\* The message was read, or its key is kept or was destroyed.
Settled(m, st, rd) ==
    \/ rd[m.to][m.number] > 0
    \/ m.key \in KeysOf(st[m.to].skipped) \cup st[m.to].forgotten

\* A message stands on its sender's chain, on the one before it, or is settled.
Placed(lead, st, rd) ==
    \A m \in network :
        LET s == st[Peer(m.to)]
            r == st[m.to]
        IN  /\ m.key.n = m.n /\ m.key.chain # Null
            /\ m.key.chain = s.sendChain =>
                 m.dh = s.self /\ m.pn = s.previousSendCount /\ m.n < s.sendCount
            /\ m.key.chain # s.sendChain =>
                 \/ Settled(m, st, rd)
                 \/ Peer(m.to) = lead /\ m.key.chain = r.receiveChain /\ m.n < s.previousSendCount
            /\ m.key.chain = r.receiveChain /\ m.n < r.receiveCount => Settled(m, st, rd)

Within(st) ==
    \A e \in Ends :
        /\ st[e].receiveChain # Null /\ st[e].receiveChain = st[Peer(e)].sendChain =>
             st[e].receiveCount <= st[Peer(e)].sendCount
        /\ \A k \in st[e].skipped : k.key.n = k.n

Distinct == \A l \in network, m \in network : l.key = m.key => l = m

Sync(lead, st, rd) ==
    /\ InStep(lead, st) /\ Matched(st) /\ Unused(lead, st)
    /\ Placed(lead, st, rd) /\ Within(st)

SyncInv == Distinct /\ \E lead \in Ends : Sync(lead, states, read)
LEMMA Peers == \A e \in Ends : Peer(e) \in Ends /\ Peer(e) # e /\ Peer(Peer(e)) = e
               /\ \A f \in Ends : f = e \/ f = Peer(e)
BY DEF Ends, Peer

LEMMA LinkTypes ==
    ASSUME TypeInv, NEW st \in [Ends -> State], NEW e \in Ends, NEW x \in LinksTo(e, st)
    PROVE  x.chain \in Chain
<1>1. \A d \in Ends : st[d].receiveChain \in Chain /\ st[d].sendChain \in Chain
  BY DEF State
<1>2. \A k \in st[e].skipped : k.key.chain \in Chain
  BY DEF State, Entry, Key
<1>3. \A m \in To(e) : m.key.chain \in Chain
  BY DEF TypeInv, To, Message, Key
<1> QED
  BY <1>1, <1>2, <1>3, Peers DEF LinksTo, Link

\* Sets of links that do not grow keep what is said of them.
LEMMA FewerLinks ==
    ASSUME NEW lead \in Ends, NEW st, NEW st2, Matched(st), Unused(lead, st),
           \A e \in Ends : LinksTo(e, st2) \subseteq LinksTo(e, st),
           \A e \in Ends : st2[e].nextSendHeader = st[e].nextSendHeader,
           st2[lead].root = st[lead].root
    PROVE  Matched(st2) /\ Unused(lead, st2)
<1>1. Matched(st2)
  BY DEF Matched
<1>2. Unused(lead, st2)
  BY Peers DEF Unused
<1> QED
  BY <1>1, <1>2

\* t is s moved on to `until`; of the keys on the way only those of K may be gone.
Advanced(s, t, until, K) ==
    /\ t \in State /\ Same(s, t)
    /\ t.receiveCount = until /\ until \in Nat /\ s.receiveCount <= until
    /\ t.skipped \subseteq s.skipped \cup Missing(s, until)
    /\ KeysOf(s.skipped) \cup KeysOf(Missing(s, until)) \cup s.forgotten
           \subseteq KeysOf(t.skipped) \cup t.forgotten \cup K

LEMMA AdvanceLinks ==
    ASSUME NEW e \in Ends, NEW st \in [Ends -> State], NEW t, NEW until, NEW K,
           Advanced(st[e], t, until, K), NEW d \in Ends
    PROVE  LinksTo(d, [st EXCEPT ![e] = t]) \subseteq LinksTo(d, st)
<1> DEFINE st2 == [st EXCEPT ![e] = t]
<1>1. st2[e] = t /\ st2[Peer(e)] = st[Peer(e)]
  BY Peers
<1>2. \A k \in t.skipped : k \in st[e].skipped \/ (k.header = st[e].receiveHeader /\ k.key.chain = st[e].receiveChain)
  BY DEF Advanced, Missing, MessageKey
<1>3. /\ t.receiveHeader = st[e].receiveHeader /\ t.receiveChain = st[e].receiveChain
      /\ t.sendHeader = st[e].sendHeader /\ t.sendChain = st[e].sendChain
  BY DEF Advanced, Same
<1> HIDE DEF st2
<1>4. LinksTo(e, st2) \subseteq LinksTo(e, st)
  BY <1>1, <1>2, <1>3 DEF LinksTo, Link
<1>5. LinksTo(Peer(e), st2) \subseteq LinksTo(Peer(e), st)
  BY <1>1, <1>3, Peers DEF LinksTo
<1> QED
  BY <1>4, <1>5, Peers DEF st2

LEMMA AdvanceSync ==
    ASSUME TypeInv, NEW lead \in Ends, NEW e \in Ends, NEW st \in [Ends -> State],
           NEW t, NEW until, NEW K, Advanced(st[e], t, until, K),
           NEW rd, NEW rd2, Sync(lead, st, rd),
           \A m \in network : rd[m.to][m.number] > 0 => rd2[m.to][m.number] > 0,
           \A m \in To(e) : m.key \in K => rd2[e][m.number] > 0,
           st[e].receiveChain # Null /\ st[e].receiveChain = st[Peer(e)].sendChain
               => until <= st[Peer(e)].sendCount
    PROVE  Sync(lead, [st EXCEPT ![e] = t], rd2)
<1> DEFINE st2 == [st EXCEPT ![e] = t]
<1>1. st2[e] = t /\ st2[Peer(e)] = st[Peer(e)] /\ st[e] \in State /\ st[Peer(e)] \in State
  BY Peers
<1>2. Same(st[e], t) /\ t.receiveCount = until /\ t \in State
  BY DEF Advanced
<1>3. \A d \in Ends : Same(st[d], st2[d])
  BY <1>1, <1>2, Peers DEF Same
<1>4. \A d \in Ends : LinksTo(d, st2) \subseteq LinksTo(d, st)
  BY AdvanceLinks
<1> HIDE DEF st2
<1>5. InStep(lead, st2)
  BY <1>3, Peers DEF InStep, Same, Sync
<1>6. Matched(st2) /\ Unused(lead, st2)
  BY <1>3, <1>4, FewerLinks DEF Same, Sync
<1>7. \A m \in network : m \in Message /\ m.to \in Ends /\ Peer(m.to) \in Ends /\ m.key \in Key /\ m.n \in Nat
  BY Peers DEF TypeInv, Message
<1>8. ASSUME NEW m \in network, Settled(m, st, rd) PROVE Settled(m, st2, rd2)
  <2>1. CASE rd[m.to][m.number] > 0
    BY <2>1 DEF Settled
  <2>2. CASE m.key \in KeysOf(st[m.to].skipped) \cup st[m.to].forgotten
    <3>1. CASE m.to = e
      <4>1. m.key \in KeysOf(t.skipped) \cup t.forgotten \cup K
        BY <2>2, <3>1 DEF Advanced
      <4>2. m \in To(e)
        BY <3>1 DEF To
      <4> QED
        BY <1>1, <3>1, <4>1, <4>2 DEF Settled
    <3>2. CASE m.to # e
      BY <1>1, <1>7, <2>2, <3>2, Peers DEF Settled
    <3> QED
      BY <3>1, <3>2
  <2> QED
    BY <1>8, <2>1, <2>2 DEF Settled
<1>9. ASSUME NEW m \in network, m.key.n = m.n, m.key.chain = st2[m.to].receiveChain, m.n < st2[m.to].receiveCount
      PROVE  Settled(m, st2, rd2)
  <2>1. m.key.chain = st[m.to].receiveChain
    BY <1>3, <1>7, <1>9 DEF Same
  <2>2. CASE m.n < st[m.to].receiveCount
    BY <1>8, <2>1, <2>2 DEF Sync, Placed
  <2>3. CASE ~(m.n < st[m.to].receiveCount)
    <3>1. m.to = e
      BY <1>1, <1>7, <1>9, <2>3, Peers
    <3>2. m.n \in st[e].receiveCount..(until - 1)
      BY <1>1, <1>2, <1>7, <1>9, <2>3, <3>1 DEF State
    <3>3. m.key = MessageKey(st[e].receiveChain, m.n)
      BY <1>7, <1>9, <2>1, <3>1 DEF Key, MessageKey
    <3>4. m.key \in KeysOf(Missing(st[e], until))
      <4> DEFINE k == [header |-> st[e].receiveHeader, n |-> m.n, at |-> now,
                       key |-> MessageKey(st[e].receiveChain, m.n)]
      <4>1. k \in Missing(st[e], until)
        BY <3>2 DEF Missing
      <4>2. k.key = m.key
        BY <3>3
      <4> QED
        BY <4>1, <4>2 DEF KeysOf
    <3>5. m.key \in KeysOf(t.skipped) \cup t.forgotten \cup K
      BY <3>4 DEF Advanced
    <3>6. m \in To(e)
      BY <3>1 DEF To
    <3> QED
      BY <1>1, <3>1, <3>5, <3>6 DEF Settled
  <2> QED
    BY <2>2, <2>3
<1>10. Placed(lead, st2, rd2)
  <2>1. SUFFICES ASSUME NEW m \in network
                 PROVE  LET s == st2[Peer(m.to)]
                            r == st2[m.to]
                        IN  /\ m.key.n = m.n /\ m.key.chain # Null
                            /\ m.key.chain = s.sendChain =>
                                 m.dh = s.self /\ m.pn = s.previousSendCount /\ m.n < s.sendCount
                            /\ m.key.chain # s.sendChain =>
                                 \/ Settled(m, st2, rd2)
                                 \/ Peer(m.to) = lead /\ m.key.chain = r.receiveChain /\ m.n < s.previousSendCount
                            /\ m.key.chain = r.receiveChain /\ m.n < r.receiveCount => Settled(m, st2, rd2)
    BY DEF Placed
  <2>2. Same(st[Peer(m.to)], st2[Peer(m.to)]) /\ Same(st[m.to], st2[m.to])
    BY <1>3, <1>7
  <2>3. m.key.n = m.n /\ m.key.chain # Null
    BY DEF Sync, Placed
  <2>4. m.key.chain = st2[Peer(m.to)].sendChain =>
            /\ m.dh = st2[Peer(m.to)].self /\ m.pn = st2[Peer(m.to)].previousSendCount
            /\ m.n < st2[Peer(m.to)].sendCount
    BY <2>2 DEF Sync, Placed, Same
  <2>5. m.key.chain # st2[Peer(m.to)].sendChain =>
            \/ Settled(m, st2, rd2)
            \/ /\ Peer(m.to) = lead /\ m.key.chain = st2[m.to].receiveChain
               /\ m.n < st2[Peer(m.to)].previousSendCount
    BY <1>8, <2>2 DEF Sync, Placed, Same
  <2> QED
    BY <1>9, <2>3, <2>4, <2>5
<1>11. Within(st2)
  <2>1. ASSUME NEW d \in Ends, st2[d].receiveChain # Null, st2[d].receiveChain = st2[Peer(d)].sendChain
        PROVE  st2[d].receiveCount <= st2[Peer(d)].sendCount
    BY <1>1, <1>2, <1>3, <2>1, Peers DEF Sync, Within, Same
  <2>2. ASSUME NEW d \in Ends, NEW k \in st2[d].skipped PROVE k.key.n = k.n
    <3>1. CASE d = e
      <4>1. k \in st[e].skipped \cup Missing(st[e], until)
        BY <1>1, <2>2, <3>1 DEF Advanced
      <4>2. k \in Missing(st[e], until) => k.key.n = k.n
        BY DEF Missing, MessageKey
      <4> QED
        BY <4>1, <4>2 DEF Sync, Within
    <3>2. CASE d # e
      BY <1>1, <2>2, <3>2, Peers DEF Sync, Within
    <3> QED
      BY <3>1, <3>2
  <2> QED
    BY <2>1, <2>2 DEF Within
<1> QED
  BY <1>5, <1>6, <1>10, <1>11 DEF Sync, st2

\* The ends change places: the peer of `lead` turns on a message of its chain.
LEMMA TurnSync ==
    ASSUME TypeInv, NEW lead \in Ends, NEW st \in [Ends -> State], NEW rd, Sync(lead, st, rd),
           NEW f \in Ends, f = Peer(lead),
           NEW w \in State, w = PerformDhRatchet(st[f], st[lead].self),
           st[f].receiveChain = Null \/ st[lead].previousSendCount <= st[f].receiveCount
    PROVE  Sync(f, [st EXCEPT ![f] = w], rd) /\ w.receiveChain = st[lead].sendChain
<1> DEFINE st2 == [st EXCEPT ![f] = w]
           l == st[lead]
           u == st[f]
           received == KdfRootKey(u.root, DH(u.self, l.self))
           secret == DH(pairs + 1, l.self)
           sending == KdfRootKey(received, secret)
<1>1. st2[f] = w /\ st2[lead] = l /\ Peer(f) = lead /\ f # lead /\ (\A d \in Ends : d = f \/ d = lead)
  BY Peers
<1>2. u \in State /\ l \in State /\ pairs \in Nat
  BY DEF TypeInv
<1>3. /\ w.self = pairs + 1 /\ w.root = sending /\ w.sendChain = sending /\ w.nextSendHeader = sending
      /\ w.receiveChain = received /\ w.nextReceiveHeader = received
      /\ w.sendHeader = u.nextSendHeader /\ w.receiveHeader = u.nextReceiveHeader
      /\ w.sendCount = 0 /\ w.receiveCount = 0 /\ w.previousSendCount = u.sendCount
      /\ w.skipped = u.skipped /\ w.forgotten = u.forgotten
  BY DEF PerformDhRatchet
<1>4. /\ l.root = KdfRootKey(u.root, DH(u.self, l.self)) /\ l.sendChain = l.root /\ l.nextSendHeader = l.root
      /\ l.receiveChain = u.sendChain /\ l.receiveHeader = u.sendHeader
      /\ u.nextReceiveHeader = l.sendHeader /\ l.nextReceiveHeader = u.nextSendHeader
  BY DEF Sync, InStep
<1>5. received = l.root /\ received \in Seq(SUBSET Nat)
  BY <1>2, <1>4 DEF State, Chain
<1>6. secret \in SUBSET Nat /\ secret # {} /\ secret = DH(l.self, pairs + 1)
  BY <1>2 DEF DH, State
<1> DEFINE top == Len(l.root)
<1>7. /\ sending \in Seq(SUBSET Nat) /\ Len(sending) = top + 1 /\ top \in Nat
      /\ sending[Len(sending)] = secret
  BY <1>5, <1>6 DEF KdfRootKey
<1>8. sending \notin {InitiatorHeader, ResponderHeader}
  <2>1. /\ Len(InitiatorHeader) = 1 /\ InitiatorHeader[1] = {}
        /\ Len(ResponderHeader) = 2 /\ ResponderHeader[2] = {}
    BY DEF InitiatorHeader, ResponderHeader
  <2> QED
    BY <1>6, <1>7, <2>1
<1>9. \A h : Derived(h, top) => h # sending /\ Derived(h, Len(sending))
  BY <1>7, <1>8 DEF Derived
<1>10. w.root = KdfRootKey(l.root, DH(l.self, w.self))
  BY <1>3, <1>5, <1>6
<1> HIDE DEF st2, l, u, received, sending, secret, top
<1>11. InStep(f, st2)
  BY <1>1, <1>3, <1>4, <1>5, <1>10 DEF InStep
<1> DEFINE new == Link(u.nextSendHeader, sending)
<1>12. LinksTo(f, st2) \subseteq LinksTo(f, st)
  BY <1>1, <1>3, <1>4, <1>5 DEF LinksTo, l, u
<1>13. LinksTo(lead, st2) \subseteq LinksTo(lead, st) \cup {new}
  BY <1>1, <1>3, Peers DEF LinksTo, l
<1>14. \A e \in Ends : \A x \in LinksTo(e, st) :
         /\ Len(x.chain) <= top /\ Derived(x.header, top)
         /\ x.header # u.nextSendHeader /\ x.header # l.nextSendHeader
  BY DEF Sync, Unused, u, l, top
<1>15. /\ Derived(u.nextSendHeader, top) /\ Derived(l.nextSendHeader, top)
       /\ u.nextSendHeader # l.nextSendHeader
  BY DEF Sync, Unused, u, l, top
<1>16. \A e \in Ends : \A x \in LinksTo(e, st) : x.chain # sending
  BY <1>7, <1>14
<1>17. new.header = u.nextSendHeader /\ new.chain = sending
  BY DEF Link
<1> HIDE DEF new
<1>18. Matched(st2)
  BY <1>1, <1>12, <1>13, <1>14, <1>16, <1>17 DEF Matched, Sync
<1>19. Unused(f, st2)
  <2>1. \A e \in Ends : \A x \in LinksTo(e, st2) : x = new \/ x \in LinksTo(e, st)
    BY <1>1, <1>12, <1>13
  <2>2. ASSUME NEW e \in Ends, NEW x \in LinksTo(e, st2)
        PROVE  /\ Len(x.chain) <= Len(sending) /\ Derived(x.header, Len(sending))
               /\ x.header # sending /\ x.header # l.nextSendHeader
    <3>1. CASE x = new
      BY <1>7, <1>9, <1>15, <1>17, <3>1
    <3>2. CASE x \in LinksTo(e, st)
      <4>1. Len(x.chain) \in Nat
        BY <3>2, LinkTypes DEF Chain
      <4> QED
        BY <1>7, <1>9, <1>14, <3>2, <4>1
    <3> QED
      BY <2>1, <2>2, <3>1, <3>2
  <2>3. ASSUME NEW g \in Ends PROVE Derived(st2[g].nextSendHeader, Len(sending))
    <3>1. Derived(sending, Len(sending))
      BY <1>7 DEF Derived
    <3> QED
      BY <1>1, <1>3, <1>9, <1>15, <3>1
  <2>4. st2[f].nextSendHeader # st2[lead].nextSendHeader
    BY <1>1, <1>3, <1>9, <1>15
  <2> QED
    BY <1>1, <1>3, <2>2, <2>3, <2>4 DEF Unused
<1>20. ASSUME NEW m \in network
       PROVE  /\ m.to \in Ends /\ m.n \in Nat /\ (Settled(m, st, rd) => Settled(m, st2, rd))
              /\ m.to = lead => m.key.chain # sending
  <2>1. m.to \in Ends /\ m.n \in Nat
    BY DEF TypeInv, Message
  <2>2. Settled(m, st, rd) => Settled(m, st2, rd)
    BY <1>1, <1>3, <2>1 DEF Settled, l, u
  <2>3. m.to = lead => Link(m.header, m.key.chain) \in LinksTo(lead, st)
    BY DEF LinksTo, To
  <2>4. m.to = lead => m.key.chain # sending
    BY <1>16, <2>3 DEF Link
  <2> QED
    BY <2>1, <2>2, <2>4
<1>21. Placed(f, st2, rd)
  <2>1. SUFFICES ASSUME NEW m \in network
                 PROVE  LET s == st2[Peer(m.to)]
                            r == st2[m.to]
                        IN  /\ m.key.n = m.n /\ m.key.chain # Null
                            /\ m.key.chain = s.sendChain =>
                                 m.dh = s.self /\ m.pn = s.previousSendCount /\ m.n < s.sendCount
                            /\ m.key.chain # s.sendChain =>
                                 \/ Settled(m, st2, rd)
                                 \/ Peer(m.to) = f /\ m.key.chain = r.receiveChain /\ m.n < s.previousSendCount
                            /\ m.key.chain = r.receiveChain /\ m.n < r.receiveCount => Settled(m, st2, rd)
    BY DEF Placed
  <2>2. m.key.n = m.n /\ m.key.chain # Null
    BY DEF Sync, Placed
  <2>3. CASE m.to = f
    <3>1. m.key.chain = l.sendChain => m.dh = l.self /\ m.pn = l.previousSendCount /\ m.n < l.sendCount
      BY <1>1, <2>3 DEF Sync, Placed, l
    <3>2. m.key.chain # l.sendChain => Settled(m, st, rd)
      <4>1. m.key.chain # l.sendChain =>
              Settled(m, st, rd) \/ (m.key.chain = u.receiveChain /\ m.n < l.previousSendCount)
        BY <1>1, <2>3 DEF Sync, Placed, l, u
      <4>2. m.key.chain = u.receiveChain /\ m.n < u.receiveCount => Settled(m, st, rd)
        BY <2>3 DEF Sync, Placed, u
      <4>3. l.previousSendCount \in Nat /\ u.receiveCount \in Nat
        BY <1>2 DEF State
      <4>4. u.receiveChain = Null \/ l.previousSendCount <= u.receiveCount
        BY DEF l, u
      <4> QED
        BY <1>20, <2>2, <4>1, <4>2, <4>3, <4>4
    <3> QED
      BY <1>1, <1>3, <1>20, <2>2, <2>3, <3>1, <3>2
  <2>4. CASE m.to = lead
    <3>1. m.key.chain # sending
      BY <1>20, <2>4
    <3>2. Settled(m, st, rd) \/ (m.key.chain = l.receiveChain /\ m.n < u.sendCount)
      BY <1>1, <1>4, <2>4, Peers DEF Sync, Placed, u
    <3>3. m.key.chain = l.receiveChain /\ m.n < l.receiveCount => Settled(m, st, rd)
      BY <2>4 DEF Sync, Placed, l
    <3> QED
      BY <1>1, <1>3, <1>20, <2>2, <2>4, <3>1, <3>2, <3>3, Peers
  <2> QED
    BY <1>1, <1>20, <2>3, <2>4
<1>22. Within(st2)
  <2>1. Link(l.receiveHeader, l.receiveChain) \in LinksTo(lead, st)
    BY DEF LinksTo, l
  <2>2. l.receiveChain # sending
    BY <1>16, <2>1 DEF Link
  <2>3. l.sendCount \in Nat
    BY <1>2 DEF State
  <2> QED
    BY <1>1, <1>3, <2>2, <2>3, Peers DEF Within, Sync, l, u
<1>23. w.receiveChain = l.sendChain
  BY <1>3, <1>4, <1>5
<1> QED
  BY <1>11, <1>18, <1>19, <1>21, <1>22, <1>23 DEF Sync, st2, l

\* What a delivery does, as one or three of the steps above.
LEMMA RefusedAdvances ==
    ASSUME NEW s \in State, NEW t, NEW until, Moved(s, t, until)
    PROVE  Advanced(s, t, until, {})
BY DEF Moved, Advanced

LEMMA SpentAdvances ==
    ASSUME NEW s \in State, NEW m, NEW t, Spent(s, m, t)
    PROVE  Advanced(s, t, s.receiveCount, {m.key})
<1>1. PICK k \in s.skipped, u \in State :
        k.key = m.key /\ k \in u.skipped /\ Moved(s, u, s.receiveCount) /\ t = Spend(u, k)
  BY DEF Spent
<1>2. /\ t \in State /\ Same(u, t) /\ t.receiveCount = u.receiveCount
      /\ t.skipped = u.skipped \ {k} /\ t.forgotten = u.forgotten
  BY <1>1 DEF Spend, State, Same
<1>3. KeysOf(u.skipped) \subseteq KeysOf(t.skipped) \cup {m.key}
  BY <1>1, <1>2 DEF KeysOf
<1> QED
  BY <1>1, <1>2, <1>3 DEF Moved, Advanced, Same

\* The chain moved up to a message's position, and one further.
LEMMA ReachAdvances ==
    ASSUME NEW s \in State, NEW m \in Message, NEW u \in State, NEW t,
           m.key.chain = s.receiveChain, Moved(s, u, m.key.n), t = [u EXCEPT !.receiveCount = @ + 1]
    PROVE  Advanced(s, t, m.key.n + 1, {m.key})
<1>1. /\ t \in State /\ Same(u, t) /\ t.receiveCount = u.receiveCount + 1
      /\ t.skipped = u.skipped /\ t.forgotten = u.forgotten
  BY DEF State, Same
<1>2. u.receiveCount = m.key.n /\ m.key.n \in Nat /\ s.receiveCount \in Nat /\ s.receiveCount <= m.key.n
  BY DEF Moved, State
<1>3. Missing(s, m.key.n) \subseteq Missing(s, m.key.n + 1)
  BY <1>2 DEF Missing
<1>4. \A k \in Missing(s, m.key.n + 1) : k \in Missing(s, m.key.n) \/ k.key = m.key
  <2>1. m.key = MessageKey(s.receiveChain, m.key.n)
    BY DEF Message, Key, MessageKey
  <2> QED
    BY <1>2, <2>1 DEF Missing
<1>5. KeysOf(Missing(s, m.key.n + 1)) \subseteq KeysOf(Missing(s, m.key.n)) \cup {m.key}
  BY <1>4 DEF KeysOf
<1>6. t.skipped \subseteq s.skipped \cup Missing(s, m.key.n + 1)
  BY <1>1, <1>3 DEF Moved
<1>7. KeysOf(s.skipped) \cup KeysOf(Missing(s, m.key.n + 1)) \cup s.forgotten
        \subseteq KeysOf(t.skipped) \cup t.forgotten \cup {m.key}
  BY <1>1, <1>5 DEF Moved
<1>8. Same(s, t)
  BY <1>1 DEF Moved, Same
<1> QED
  BY <1>1, <1>2, <1>6, <1>7, <1>8 DEF Advanced

LEMMA InitSync == Init => SyncInv
<1> SUFFICES ASSUME Init PROVE SyncInv
  OBVIOUS
<1> DEFINE lead == "initiator"
           f == "responder"
           root == KdfRootKey(<<>>, DH(FirstPair, SignedPreKey))
<1>1. /\ states[lead] = InitiateSession /\ states[f] = AcceptSession /\ network = {}
      /\ lead \in Ends /\ f \in Ends /\ Peer(lead) = f /\ Peer(f) = lead /\ Ends = {lead, f}
  BY DEF Init, Ends, Peer
<1>2. DH(FirstPair, SignedPreKey) = DH(SignedPreKey, FirstPair)
  BY DEF DH
<1>3. InStep(lead, states)
  BY <1>1, <1>2 DEF InStep, InitiateSession, AcceptSession
<1>4. /\ LinksTo(lead, states) = {Link(Null, Null)}
      /\ LinksTo(f, states) = {Link(Null, Null), Link(InitiatorHeader, root)}
  BY <1>1 DEF LinksTo, To, InitiateSession, AcceptSession
<1>5. DH(FirstPair, SignedPreKey) \in SUBSET Nat /\ DH(FirstPair, SignedPreKey) # {}
  BY DEF DH, FirstPair, SignedPreKey
<1>6. root \in Seq(SUBSET Nat) /\ Len(root) = 1 /\ root[1] # {}
  BY <1>5 DEF KdfRootKey
<1> HIDE DEF root
<1>7. Len(Null) = 0 /\ Len(InitiatorHeader) = 1 /\ Len(ResponderHeader) = 2
      /\ InitiatorHeader[1] = {} /\ ResponderHeader[1] = {}
  BY DEF Null, InitiatorHeader, ResponderHeader
<1>8. /\ Null # InitiatorHeader /\ Null # root /\ Null # ResponderHeader
      /\ InitiatorHeader # root /\ ResponderHeader # root /\ InitiatorHeader # ResponderHeader
  <2>1. 0 # 1 /\ 0 # 2 /\ 1 # 2
    OBVIOUS
  <2>2. Null # InitiatorHeader /\ Null # ResponderHeader /\ InitiatorHeader # ResponderHeader
    BY <1>7, <2>1, Zenon
  <2>3. Null # root /\ ResponderHeader # root
    BY <1>6, <1>7, <2>1, Zenon
  <2>4. InitiatorHeader # root
    BY <1>6, <1>7, Zenon
  <2> QED
    BY <2>2, <2>3, <2>4
<1>9. Matched(states)
  BY <1>1, <1>4, <1>8 DEF Matched, Link
<1>10. /\ states[lead].nextSendHeader = root /\ states[f].nextSendHeader = ResponderHeader
       /\ states[lead].root = root
  BY <1>1 DEF InitiateSession, AcceptSession, root
<1>11. Unused(lead, states)
  <2>1. \A e \in Ends : \A x \in LinksTo(e, states) :
          x.chain \in {Null, root} /\ x.header \in {Null, InitiatorHeader}
    BY <1>1, <1>4 DEF Link
  <2>2. Len(Null) <= 1 /\ Len(root) <= 1 /\ Derived(Null, 1) /\ Derived(InitiatorHeader, 1)
        /\ Derived(ResponderHeader, 1) /\ Derived(root, 1)
    BY <1>6, <1>7 DEF Derived
  <2> QED
    BY <1>1, <1>6, <1>8, <1>10, <2>1, <2>2 DEF Unused
<1>12. Placed(lead, states, read)
  BY <1>1 DEF Placed
<1>13. Within(states)
  BY <1>1 DEF Within, InitiateSession, AcceptSession
<1>14. Distinct
  BY <1>1 DEF Distinct
<1> QED
  BY <1>1, <1>3, <1>9, <1>11, <1>12, <1>13, <1>14 DEF SyncInv, Sync

LEMMA EncryptSync ==
    ASSUME TypeInv, SyncInv, NEW e \in Ends, RatchetEncrypt(e)
    PROVE  SyncInv'
<1> DEFINE s == states[e]
           m == Envelope(e)
           d == Peer(e)
<1>1. PICK lead \in Ends : Sync(lead, states, read)
  BY DEF SyncInv
<1>2. /\ network' = network \cup {m} /\ read' = read /\ s.sendChain # Null
      /\ states' = [states EXCEPT ![e].sendCount = @ + 1]
  BY DEF RatchetEncrypt
<1>3. s \in State /\ d \in Ends /\ Peer(d) = e /\ e # d /\ \A f \in Ends : f = e \/ f = d
  BY Peers DEF TypeInv
<1>4. states'[e] = [s EXCEPT !.sendCount = @ + 1] /\ states'[d] = states[d]
  BY <1>2, <1>3 DEF TypeInv
<1>5. /\ m.to = d /\ m.header = s.sendHeader /\ m.dh = s.self /\ m.pn = s.previousSendCount
      /\ m.n = s.sendCount /\ m.key = MessageKey(s.sendChain, s.sendCount)
      /\ m.key.chain = s.sendChain /\ m.key.n = s.sendCount
  BY DEF Envelope, MessageKey
<1>6. states'[e].sendCount = s.sendCount + 1 /\ s.sendCount \in Nat
  BY <1>3, <1>4 DEF State
<1>7. \A f \in Ends :
        /\ states'[f].self = states[f].self /\ states'[f].root = states[f].root
        /\ states'[f].sendChain = states[f].sendChain /\ states'[f].receiveChain = states[f].receiveChain
        /\ states'[f].sendHeader = states[f].sendHeader
        /\ states'[f].nextSendHeader = states[f].nextSendHeader
        /\ states'[f].receiveHeader = states[f].receiveHeader
        /\ states'[f].nextReceiveHeader = states[f].nextReceiveHeader
        /\ states'[f].receiveCount = states[f].receiveCount
        /\ states'[f].previousSendCount = states[f].previousSendCount
        /\ states'[f].skipped = states[f].skipped /\ states'[f].forgotten = states[f].forgotten
  BY <1>3, <1>4 DEF State
<1>8. \A f \in Ends : /\ states[f].sendCount \in Nat /\ states'[f].sendCount \in Nat
                       /\ states[f].sendCount <= states'[f].sendCount
  <2>1. \A f \in Ends : states[f].sendCount \in Nat
    BY DEF TypeInv, State
  <2>2. states'[e].sendCount = states[e].sendCount + 1 /\ states'[d].sendCount = states[d].sendCount
    BY <1>4, <1>6
  <2> QED
    BY <1>3, <2>1, <2>2
<1> HIDE DEF s, m, d
<1>9. InStep(lead, states)'
  BY <1>1, <1>7, Peers DEF Sync, InStep
<1>10. ASSUME NEW f \in Ends PROVE LinksTo(f, states)' \subseteq LinksTo(f, states)
  <2>1. To(f)' \subseteq To(f) \cup {m} /\ (m \in To(f)' => f = d)
    BY <1>2, <1>5 DEF To
  <2>2. f = d => Link(m.header, m.key.chain) \in LinksTo(f, states)
    BY <1>3, <1>5 DEF LinksTo, s
  <2>3. Peer(f) \in Ends
    BY Peers
  <2> QED
    BY <1>7, <2>1, <2>2, <2>3 DEF LinksTo
<1>11. Matched(states)' /\ Unused(lead, states)'
  <2>1. Matched(states) /\ Unused(lead, states)
    BY <1>1 DEF Sync
  <2>2. Matched(states)'
    BY <1>10, <2>1 DEF Matched
  <2>3. Unused(lead, states)'
    BY <1>7, <1>10, <2>1, Peers DEF Unused
  <2> QED
    BY <2>2, <2>3
<1>12. \A k \in network : k.to \in Ends /\ Peer(k.to) \in Ends /\ k.n \in Nat
  BY Peers DEF TypeInv, Message
<1>13. \A k \in network : Settled(k, states, read) => Settled(k, states, read)'
  BY <1>2, <1>7, <1>12 DEF Settled
<1>14. ASSUME NEW k \in network'
       PROVE  LET r == states'[k.to]
                  q == states'[Peer(k.to)]
              IN  /\ k.key.n = k.n /\ k.key.chain # Null
                  /\ k.key.chain = q.sendChain =>
                       k.dh = q.self /\ k.pn = q.previousSendCount /\ k.n < q.sendCount
                  /\ k.key.chain # q.sendChain =>
                       \/ Settled(k, states, read)'
                       \/ Peer(k.to) = lead /\ k.key.chain = r.receiveChain /\ k.n < q.previousSendCount
                  /\ k.key.chain = r.receiveChain /\ k.n < r.receiveCount => Settled(k, states, read)'
  <2>1. CASE k \in network
    <3>1. /\ states[Peer(k.to)].sendCount \in Nat /\ states'[Peer(k.to)].sendCount \in Nat
          /\ states[Peer(k.to)].sendCount <= states'[Peer(k.to)].sendCount
      BY <1>12, <1>8, <2>1
    <3>2. /\ k.key.n = k.n /\ k.key.chain # Null
          /\ k.key.chain = states[Peer(k.to)].sendChain =>
               /\ k.dh = states[Peer(k.to)].self /\ k.pn = states[Peer(k.to)].previousSendCount
               /\ k.n < states[Peer(k.to)].sendCount
          /\ k.key.chain # states[Peer(k.to)].sendChain =>
               \/ Settled(k, states, read)
               \/ /\ Peer(k.to) = lead /\ k.key.chain = states[k.to].receiveChain
                  /\ k.n < states[Peer(k.to)].previousSendCount
          /\ k.key.chain = states[k.to].receiveChain /\ k.n < states[k.to].receiveCount
               => Settled(k, states, read)
      BY <1>1, <2>1 DEF Sync, Placed
    <3>3. k.n < states[Peer(k.to)].sendCount => k.n < states'[Peer(k.to)].sendCount
      BY <1>12, <2>1, <3>1
    <3> QED
      BY <1>7, <1>12, <1>13, <2>1, <3>2, <3>3
  <2>2. CASE k = m
    <3>1. m.key.chain = states[d].receiveChain => states[d].receiveCount <= s.sendCount
      BY <1>1, <1>2, <1>3, <1>5 DEF Sync, Within, s
    <3>2. states[d].receiveCount \in Nat
      BY <1>3 DEF TypeInv, State
    <3>3. ~(m.key.chain = states'[d].receiveChain /\ m.n < states'[d].receiveCount)
      BY <1>3, <1>5, <1>6, <1>7, <3>1, <3>2
    <3>4. m.n < states'[e].sendCount /\ m.key.n = m.n /\ m.key.chain # Null
      BY <1>2, <1>5, <1>6
    <3>5. m.key.chain = states'[e].sendChain /\ m.dh = states'[e].self
          /\ m.pn = states'[e].previousSendCount
      BY <1>5, <1>7 DEF s
    <3> QED
      BY <1>3, <1>5, <2>2, <3>3, <3>4, <3>5
  <2> QED
    BY <1>2, <1>14, <2>1, <2>2
<1>15. Placed(lead, states, read)'
  BY <1>14 DEF Placed
<1>16. Within(states)'
  <2>1. \A f \in Ends : Peer(f) \in Ends /\ states[f].receiveCount \in Nat
    BY Peers DEF TypeInv, State
  <2>2. Within(states)
    BY <1>1 DEF Sync
  <2> QED
    BY <1>7, <1>8, <2>1, <2>2 DEF Within
<1>17. Distinct'
  <2>1. ASSUME NEW k \in network PROVE k.key # m.key
    <3>1. CASE k.key.chain = s.sendChain
      <4>1. Link(k.header, k.key.chain) \in LinksTo(k.to, states)
        BY DEF LinksTo, To
      <4>2. Link(s.sendHeader, s.sendChain) \in LinksTo(d, states)
        BY <1>3 DEF LinksTo, s
      <4>3. k.to = d
        BY <1>1, <1>2, <1>3, <1>12, <3>1, <4>1, <4>2 DEF Sync, Matched, Link
      <4>4. k.n < s.sendCount /\ k.key.n = k.n
        BY <1>1, <1>3, <3>1, <4>3 DEF Sync, Placed, s
      <4> QED
        BY <1>5, <1>6, <1>12, <4>4
    <3>2. CASE k.key.chain # s.sendChain
      BY <1>5, <3>2
    <3> QED
      BY <3>1, <3>2
  <2> QED
    BY <1>2, <2>1 DEF SyncInv, Distinct
<1>18. Sync(lead, states, read)'
  BY <1>9, <1>11, <1>15, <1>16 DEF Sync
<1> QED
  BY <1>17, <1>18 DEF SyncInv

\* Only the end behind can turn, and on the message the other end's chain is at.
LEMMA TurnsBehind ==
    ASSUME TypeInv, NEW lead \in Ends, NEW st \in [Ends -> State], NEW rd, Sync(lead, st, rd),
           NEW m \in network, m.header = st[m.to].nextReceiveHeader
    PROVE  /\ m.to = Peer(lead) /\ m.key.chain = st[lead].sendChain
           /\ m.dh = st[lead].self /\ m.pn = st[lead].previousSendCount /\ m.n < st[lead].sendCount
<1> DEFINE f == Peer(lead)
<1>1. m.to \in Ends /\ f \in Ends /\ Peer(f) = lead /\ \A e \in Ends : e = lead \/ e = f
  BY Peers DEF TypeInv, Message
<1>2. Link(m.header, m.key.chain) \in LinksTo(m.to, st)
  BY DEF LinksTo, To
<1>3. Link(st[lead].sendHeader, st[lead].sendChain) \in LinksTo(f, st)
  BY <1>1 DEF LinksTo
<1>4. st[lead].nextReceiveHeader = st[f].nextSendHeader /\ st[f].nextReceiveHeader = st[lead].sendHeader
  BY DEF Sync, InStep
<1>5. m.header # st[f].nextSendHeader
  BY <1>1, <1>2 DEF Sync, Unused, Link
<1>6. m.to = f
  BY <1>1, <1>4, <1>5
<1>7. m.key.chain = st[lead].sendChain
  BY <1>1, <1>2, <1>3, <1>4, <1>6 DEF Sync, Matched, Link
<1> QED
  BY <1>1, <1>6, <1>7 DEF Sync, Placed

\* An end that reads nothing.
LEMMA RefuseSync ==
    ASSUME TypeInv, NEW lead \in Ends, NEW e \in Ends, NEW st \in [Ends -> State],
           NEW t, NEW until, Moved(st[e], t, until), NEW rd, Sync(lead, st, rd),
           st[e].receiveChain # Null /\ st[e].receiveChain = st[Peer(e)].sendChain
               => until <= st[Peer(e)].sendCount
    PROVE  Sync(lead, [st EXCEPT ![e] = t], rd)
<1> DEFINE K == {}
<1>1. Advanced(st[e], t, until, K)
  <2>1. st[e] \in State
    OBVIOUS
  <2> QED
    BY <2>1, RefusedAdvances
<1>2. \A m \in network : rd[m.to][m.number] > 0 => rd[m.to][m.number] > 0
  OBVIOUS
<1>3. \A m \in To(e) : m.key \in K => rd[e][m.number] > 0
  OBVIOUS
<1> HIDE DEF K
<1> QED
  BY <1>1, <1>2, <1>3, AdvanceSync

\* The three steps of a turn: the old chain ends, both directions turn, the new
\* chain reaches the message.
LEMMA TurnedSync ==
    ASSUME TypeInv, NEW lead \in Ends, Sync(lead, states, read),
           NEW m \in network, NEW t, Turned(states[m.to], m, t), Grown(states[m.to]),
           NEW rd,
           \A k \in network : read[k.to][k.number] > 0 => rd[k.to][k.number] > 0,
           \A k \in To(m.to) : k.key \in {m.key} => rd[m.to][k.number] > 0
    PROVE  Sync(m.to, [states EXCEPT ![m.to] = t], rd)
<1> DEFINE e == m.to
           s == states[e]
           l == states[lead]
<1>1. /\ states \in [Ends -> State] /\ m \in Message /\ e \in Ends /\ now \in Nat /\ pairs \in Nat
      /\ s \in State /\ l \in State /\ m.pn \in Nat /\ m.dh \in Nat /\ m.n \in Nat /\ m.key.n = m.n
  BY DEF TypeInv, Message, Sync, Placed
<1>2. PICK u \in State, w \in State, v \in State :
        /\ m.header = s.nextReceiveHeader /\ Moved(s, u, Reached(s, m.pn))
        /\ w = PerformDhRatchet(u, m.dh) /\ m.key.chain = w.receiveChain
        /\ Moved(w, v, m.key.n) /\ t = [v EXCEPT !.receiveCount = @ + 1]
  BY DEF Turned
<1>3. /\ e = Peer(lead) /\ m.key.chain = l.sendChain /\ m.dh = l.self
      /\ m.pn = l.previousSendCount /\ m.n < l.sendCount
  BY <1>1, <1>2, TurnsBehind
<1>4. Peer(e) = lead /\ e # lead
  BY <1>3, Peers
<1> HIDE DEF e, s, l
<1> DEFINE one == [states EXCEPT ![e] = u]
           two == [one EXCEPT ![e] = w]
           three == [two EXCEPT ![e] = t]
<1>5. s.receiveChain # Null => s.receiveChain # l.sendChain
  <2>1. l.root = KdfRootKey(s.root, DH(s.self, l.self)) /\ l.sendChain = l.root
    BY <1>3 DEF Sync, InStep, s, l
  <2>2. s.root \in Seq(SUBSET Nat) /\ DH(s.self, l.self) \in SUBSET Nat
    BY <1>1 DEF State, Chain, DH
  <2>3. Len(l.sendChain) = Len(s.root) + 1 /\ Len(s.root) \in Nat
    BY <2>1, <2>2 DEF KdfRootKey
  <2>4. s.receiveChain # Null => Len(s.receiveChain) < Len(s.root)
    BY DEF Grown, s, e
  <2> QED
    BY <2>3, <2>4
<1>6. Sync(lead, one, read)
  <2>1. Moved(states[e], u, Reached(s, m.pn))
    BY <1>2 DEF s
  <2>2. states[e].receiveChain # Null /\ states[e].receiveChain = states[Peer(e)].sendChain
            => Reached(s, m.pn) <= states[Peer(e)].sendCount
    BY <1>4, <1>5 DEF s, l
  <2> QED
    BY <1>1, <2>1, <2>2, RefuseSync
<1>7. one \in [Ends -> State] /\ one[e] = u /\ one[lead] = l
  BY <1>1, <1>4 DEF l
<1>8. u.receiveChain = Null \/ l.previousSendCount <= u.receiveCount
  <2>1. u.receiveChain = s.receiveChain /\ u.receiveCount = Reached(s, m.pn)
    BY <1>2 DEF Moved, Same
  <2>2. s.receiveCount \in Nat /\ l.previousSendCount \in Nat
    BY <1>1 DEF State
  <2> QED
    BY <1>1, <1>3, <2>1, <2>2 DEF Reached
<1> HIDE DEF one
<1>9. Sync(e, two, read) /\ w.receiveChain = l.sendChain
  BY <1>1, <1>2, <1>3, <1>6, <1>7, <1>8, TurnSync
<1>10. two \in [Ends -> State] /\ two[e] = w /\ two[lead] = l
  BY <1>1, <1>4, <1>7
<1> HIDE DEF two
<1>11. Advanced(two[e], t, m.key.n + 1, {m.key})
  BY <1>1, <1>2, <1>10, ReachAdvances
<1>12. m.key.n + 1 <= two[Peer(e)].sendCount
  BY <1>1, <1>3, <1>4, <1>10 DEF State
<1>13. Sync(e, three, rd)
  BY <1>1, <1>9, <1>10, <1>11, <1>12, AdvanceSync DEF e
<1>14. three = [states EXCEPT ![e] = t]
  BY <1>1 DEF two, one
<1> QED
  BY <1>13, <1>14 DEF e

LEMMA DecryptSync ==
    ASSUME TypeInv, OnceInv, SyncInv, NEW e \in Ends, NEW m \in network, NEW intact \in BOOLEAN,
           RatchetDecrypt(e, m, intact)
    PROVE  SyncInv'
<1> DEFINE s == states[e]
           p == states[Peer(e)]
<1>1. /\ m.to = e /\ network' = network /\ now \in Nat /\ pairs \in Nat /\ m \in Message
      /\ s \in State /\ states \in [Ends -> State] /\ p \in State
  BY Deliveries, Peers DEF TypeInv
<1>2. PICK t \in State : states' = [states EXCEPT ![e] = t] /\ (Refused(e, t) \/ Accepted(e, m, t))
  BY Deliveries
<1>3. PICK lead \in Ends : Sync(lead, states, read)
  BY DEF SyncInv
<1>4. Distinct /\ Distinct'
  BY <1>1 DEF SyncInv, Distinct
<1>5. ASSUME NEW f \in Ends, Sync(f, states', read') PROVE SyncInv'
  <2>1. Sync(f, states, read)'
    BY <1>1, <1>5 DEF Sync, InStep, Matched, Unused, Placed, Within, LinksTo, To, Settled
  <2> QED
    BY <1>4, <2>1 DEF SyncInv
<1>6. CASE Refused(e, t)
  <2>1. Moved(s, t, s.receiveCount) /\ read' = read
    BY <1>6 DEF Refused
  <2>2. Sync(lead, states', read')
    <3>1. s.receiveChain # Null /\ s.receiveChain = p.sendChain => s.receiveCount <= p.sendCount
      BY <1>3 DEF Sync, Within
    <3>2. Sync(lead, [states EXCEPT ![e] = t], read)
      BY <1>1, <1>3, <2>1, <3>1, RefuseSync
    <3> QED
      BY <1>2, <2>1, <3>2
  <2> QED
    BY <1>5, <2>2
<1>7. CASE Accepted(e, m, t)
  <2>1. read' = [read EXCEPT ![e][m.number] = @ + 1] /\ m.number \in Numbers
    BY <1>7, Counted DEF Accepted
  <2>2. /\ \A k \in network : read[k.to][k.number] > 0 => read'[k.to][k.number] > 0
        /\ read'[e][m.number] > 0
    BY <1>1, <2>1, Counted DEF TypeInv, Message
  <2>3. \A k \in To(e) : k.key \in {m.key} => read'[e][k.number] > 0
    BY <1>4, <2>2 DEF Distinct, To
  <2>4. CASE Spent(s, m, t)
    <3>1. Advanced(s, t, s.receiveCount, {m.key})
      BY <1>1, <2>4, SpentAdvances
    <3>2. s.receiveChain # Null /\ s.receiveChain = p.sendChain => s.receiveCount <= p.sendCount
      BY <1>3 DEF Sync, Within
    <3>3. Sync(lead, [states EXCEPT ![e] = t], read')
      BY <1>1, <1>3, <2>2, <2>3, <3>1, <3>2, AdvanceSync
    <3> QED
      BY <1>2, <1>5, <3>3
  <2>5. CASE OnChain(s, m, t)
    <3>1. PICK u \in State :
            /\ s.receiveChain # Null /\ m.key.chain = s.receiveChain
            /\ Moved(s, u, m.key.n) /\ t = [u EXCEPT !.receiveCount = @ + 1]
      BY <2>5 DEF OnChain
    <3>2. Advanced(s, t, m.key.n + 1, {m.key})
      BY <1>1, <3>1, ReachAdvances
    <3>3. s.receiveChain = p.sendChain => m.key.n + 1 <= p.sendCount
      <4>1. m.key.n = m.n /\ (m.key.chain = p.sendChain => m.n < p.sendCount)
        BY <1>1, <1>3 DEF Sync, Placed
      <4>2. m.n \in Nat /\ p.sendCount \in Nat
        BY <1>1 DEF Message, State
      <4> QED
        BY <3>1, <4>1, <4>2
    <3>4. Sync(lead, [states EXCEPT ![e] = t], read')
      BY <1>1, <1>3, <2>2, <2>3, <3>2, <3>3, AdvanceSync
    <3> QED
      BY <1>2, <1>5, <3>4
  <2>6. CASE Turned(s, m, t)
    <3>1. Grown(states[m.to])
      BY <1>1 DEF OnceInv
    <3>2. Sync(e, [states EXCEPT ![e] = t], read')
      BY <1>1, <1>3, <2>2, <2>3, <2>6, <3>1, TurnedSync
    <3> QED
      BY <1>2, <1>5, <3>2
  <2> QED
    BY <1>7, <2>4, <2>5, <2>6 DEF Accepted
<1> QED
  BY <1>2, <1>6, <1>7

LEMMA NextSync == TypeInv /\ OnceInv /\ SyncInv /\ [Next]_vars => SyncInv'
<1> SUFFICES ASSUME TypeInv, OnceInv, SyncInv, [Next]_vars PROVE SyncInv'
  OBVIOUS
<1>1. ASSUME NEW e \in Ends, RatchetEncrypt(e) PROVE SyncInv'
  BY <1>1, EncryptSync
<1>2. ASSUME NEW e \in Ends, NEW m \in network, NEW intact \in BOOLEAN, RatchetDecrypt(e, m, intact)
      PROVE  SyncInv'
  BY <1>2, DecryptSync
<1>3. CASE UNCHANGED <<states, network, read>>
  BY <1>3 DEF SyncInv, Distinct, Sync, InStep, Matched, Unused, Placed, Within, LinksTo, To, Settled
<1> QED
  BY <1>1, <1>2, <1>3 DEF Next, Tick, vars

LEMMA SyncHolds == Spec => [](TypeInv /\ OnceInv /\ SyncInv)
<1>1. Init => TypeInv /\ OnceInv /\ SyncInv
  BY InitTypes, InitOnce, InitSync
<1>2. TypeInv /\ OnceInv /\ SyncInv /\ [Next]_vars => (TypeInv /\ OnceInv /\ SyncInv)'
  BY NextTypes, NextOnce, NextSync
<1> QED
  BY <1>1, <1>2, PTL DEF Spec

-----------------------------------------------------------------------------
(* What each end's keys open *)

\* An end's chains are its own, and so are the keys it stores.
LEMMA ReadKeysGone ==
    ASSUME TypeInv, OnceInv, SyncInv
    PROVE  ReadKeysAreGone
<1> SUFFICES ASSUME NEW m \in network, m.number \in AllRead(m.to)
             PROVE  ~Yields(states[m.to], m.key) /\ ~Yields(states[Peer(m.to)], m.key)
  BY DEF ReadKeysAreGone
<1> DEFINE e == m.to
           d == Peer(e)
           r == states[e]
           q == states[d]
<1>1. PICK lead \in Ends : Sync(lead, states, read)
  BY DEF SyncInv
<1>2. m \in Message /\ e \in Ends /\ d \in Ends /\ Peer(d) = e /\ e # d
  BY Peers DEF TypeInv, Message
<1>3. /\ r.receiveCount \in Nat /\ q.sendCount \in Nat /\ m.n \in Nat
  BY <1>2 DEF TypeInv, State, Message
<1>4. Spending(r, m.key)
  BY DEF OnceInv, ReadLeft
<1>5. m.key.chain # Null /\ m.key.n = m.n /\ (m.key.chain = q.sendChain => m.n < q.sendCount)
  BY <1>1, <1>2 DEF Sync, Placed
<1>6. \A x \in LinksTo(d, states) : x.chain # m.key.chain
  <2>1. Link(m.header, m.key.chain) \in LinksTo(e, states)
    BY DEF LinksTo, To
  <2> QED
    BY <1>1, <1>2, <1>5, <2>1 DEF Sync, Matched, Link
<1>7. /\ Link(r.sendHeader, r.sendChain) \in LinksTo(d, states)
      /\ Link(q.receiveHeader, q.receiveChain) \in LinksTo(d, states)
      /\ \A k \in q.skipped : Link(k.header, k.key.chain) \in LinksTo(d, states)
  BY <1>2 DEF LinksTo
<1> HIDE DEF r, q, d, e
<1>8. r.sendChain # m.key.chain /\ q.receiveChain # m.key.chain /\ m.key \notin KeysOf(q.skipped)
  BY <1>6, <1>7 DEF Link, KeysOf
<1>9. ~Yields(r, m.key)
  BY <1>3, <1>4, <1>5, <1>8 DEF Yields, Spending, Past
<1>10. ~Yields(q, m.key)
  BY <1>3, <1>5, <1>8 DEF Yields
<1> QED
  BY <1>9, <1>10 DEF r, q, d, e

\* The current chain opens any message ahead on it, within the bound on a jump.
LEMMA ReceiveOpens ==
    ASSUME NEW s \in State, NEW m \in Message, now \in Nat,
           m.key.chain = s.receiveChain, s.receiveChain # Null, m.key.n = m.n,
           s.receiveCount <= m.n, m.n <= s.receiveCount + MaxSkip
    PROVE  Receive(s, m, TRUE) # Failed
<1> DEFINE u == SkipMessageKeys(s, m.n)
<1>1. s.receiveCount \in Nat /\ m.n \in Nat /\ MaxSkip \in Nat /\ m.key \in Key
  BY BoundsAssumption DEF State, Message
<1>2. u # Failed
  BY <1>1, SkipFails
<1>3. Moved(s, u, Reached(s, m.n))
  BY <1>1, <1>2, SkipMoves
<1>4. Reached(s, m.n) = m.n
  BY <1>1 DEF Reached
<1>5. s # Failed
  BY FailedIsNoState
<1>6. Receive(s, m, TRUE) =
        IF u.receiveChain = Null THEN Failed
        ELSE IF m.key = MessageKey(u.receiveChain, u.receiveCount)
             THEN [u EXCEPT !.receiveCount = @ + 1] ELSE Failed
  BY <1>2, <1>5 DEF Receive
<1> HIDE DEF u
<1>7. u \in State /\ u.receiveChain = s.receiveChain /\ u.receiveCount = m.n
  BY <1>3, <1>4 DEF Moved, Same
<1>8. m.key = MessageKey(u.receiveChain, u.receiveCount)
  BY <1>1, <1>7 DEF Key, MessageKey
<1>9. Receive(s, m, TRUE) = [u EXCEPT !.receiveCount = @ + 1]
  BY <1>6, <1>7, <1>8
<1>10. [u EXCEPT !.receiveCount = @ + 1] \in State
  BY <1>7 DEF State
<1> QED
  BY <1>9, <1>10, FailedIsNoState

\* A message neither read nor destroyed opens: with the key stored for it, on the
\* current chain, or on the peer's next one.
LEMMA Opens ==
    ASSUME TypeInv, NEW lead \in Ends, NEW st \in [Ends -> State], Sync(lead, st, read),
           NEW m \in network, m.number \notin AllRead(m.to),
           m.key \notin st[m.to].forgotten, ~TooFar(st[m.to], m)
    PROVE  DecryptInto(st[m.to], m, TRUE) # Failed
<1> DEFINE e == m.to
           s == st[e]
           p == st[Peer(e)]
<1>1. /\ m \in Message /\ e \in Ends /\ Peer(e) \in Ends /\ s \in State /\ p \in State
      /\ now \in Nat /\ pairs \in Nat
  BY Peers DEF TypeInv, Message
<1>2. /\ m.n \in Nat /\ m.pn \in Nat /\ m.dh \in Nat /\ m.key \in Key /\ s.receiveCount \in Nat
      /\ MaxSkip \in Nat
  BY <1>1, BoundsAssumption DEF Message, State
<1>3. /\ m.key.n = m.n /\ m.key.chain # Null
      /\ m.key.chain = p.sendChain => m.dh = p.self
      /\ m.key.chain # p.sendChain =>
           Settled(m, st, read) \/ (Peer(e) = lead /\ m.key.chain = s.receiveChain)
      /\ m.key.chain = s.receiveChain /\ m.n < s.receiveCount => Settled(m, st, read)
  BY DEF Sync, Placed
<1>4. Link(m.header, m.key.chain) \in LinksTo(e, st)
  BY DEF LinksTo, To
<1>5. /\ Link(s.receiveHeader, s.receiveChain) \in LinksTo(e, st)
      /\ Link(p.sendHeader, p.sendChain) \in LinksTo(e, st)
      /\ \A k \in s.skipped : Link(k.header, k.key.chain) \in LinksTo(e, st)
  BY DEF LinksTo
<1>6. \A x \in LinksTo(e, st) : m.key.chain = x.chain <=> m.header = x.header
  BY <1>1, <1>4 DEF Sync, Matched, Link
<1>7. /\ m.key.chain = s.receiveChain <=> m.header = s.receiveHeader
      /\ m.key.chain = p.sendChain <=> m.header = p.sendHeader
      /\ \A k \in s.skipped : m.key.chain = k.key.chain <=> m.header = k.header
  BY <1>5, <1>6 DEF Link
<1>8. ~(read[e][m.number] > 0)
  BY Counted DEF AllRead
<1>9. Settled(m, st, read) => m.key \in KeysOf(s.skipped)
  BY <1>8 DEF Settled
<1>10. \A k \in s.skipped : k.key \in Key /\ k.key.n = k.n
  BY <1>1 DEF Sync, Within, State, Entry
<1> HIDE DEF e, s, p
<1>11. CASE AtSkipped(s, m) # {}
  <2> DEFINE k == CHOOSE j \in AtSkipped(s, m) : TRUE
  <2>1. k \in AtSkipped(s, m)
    BY <1>11
  <2>2. DecryptInto(s, m, TRUE) = IF TRUE /\ k.key = m.key THEN Spend(s, k) ELSE Failed
    BY <1>11 DEF DecryptInto
  <2> HIDE DEF k
  <2>3. k \in s.skipped /\ k.header = m.header /\ k.n = m.n
    BY <2>1 DEF AtSkipped
  <2>4. k.key = m.key
    BY <1>2, <1>3, <1>7, <1>10, <2>3 DEF Key
  <2>5. Spend(s, k) \in State
    BY <1>1 DEF Spend, State
  <2> QED
    BY <2>2, <2>4, <2>5, FailedIsNoState DEF s, e
<1>12. CASE AtSkipped(s, m) = {}
  <2>1. m.key \notin KeysOf(s.skipped)
    BY <1>3, <1>7, <1>10, <1>12 DEF AtSkipped, KeysOf
  <2>2. ~Settled(m, st, read)
    BY <1>9, <2>1
  <2>3. CASE m.key.chain = s.receiveChain
    <3>1. DecryptInto(s, m, TRUE) = Receive(s, m, TRUE)
      BY <1>7, <1>12, <2>3 DEF DecryptInto
    <3>2. s.receiveCount <= m.n
      BY <1>2, <1>3, <2>2, <2>3
    <3>3. m.n <= s.receiveCount + MaxSkip
      BY <1>2, <1>7, <2>3 DEF TooFar, s, e
    <3>4. Receive(s, m, TRUE) # Failed
      BY <1>1, <1>3, <2>3, <3>2, <3>3, ReceiveOpens
    <3> QED
      BY <3>1, <3>4 DEF s, e
  <2>4. CASE m.key.chain # s.receiveChain
    <3>1. m.key.chain = p.sendChain /\ m.dh = p.self
      BY <1>3, <2>2, <2>4
    <3>2. e # lead
      BY <1>1, <2>4, <3>1 DEF Sync, InStep, s, p
    <3>3. e = Peer(lead) /\ Peer(e) = lead
      BY <1>1, <3>2, Peers
    <3>4. /\ p.root = KdfRootKey(s.root, DH(s.self, p.self)) /\ p.sendChain = p.root
          /\ s.nextReceiveHeader = p.sendHeader
      BY <3>3 DEF Sync, InStep, s, p
    <3>5. m.header = s.nextReceiveHeader /\ m.header # s.receiveHeader
      BY <1>7, <2>4, <3>1, <3>4
    <3> DEFINE u == SkipMessageKeys(s, m.pn)
               w == PerformDhRatchet(u, m.dh)
    <3>6. DecryptInto(s, m, TRUE) = IF u = Failed THEN Failed ELSE Receive(w, m, TRUE)
      BY <1>12, <3>5 DEF DecryptInto
    <3>7. u # Failed
      BY <1>1, <1>2, <3>5, SkipFails DEF TooFar, s, e
    <3>8. Moved(s, u, Reached(s, m.pn))
      BY <1>1, <1>2, <3>7, SkipMoves
    <3> HIDE DEF u
    <3>9. u \in State /\ u.root = s.root /\ u.self = s.self
      BY <3>8 DEF Moved, Same
    <3>10. w.receiveChain = KdfRootKey(u.root, DH(u.self, m.dh)) /\ w.receiveCount = 0
      BY DEF PerformDhRatchet
    <3>11. w \in State
      BY <1>1, <1>2, <3>9, RatchetTypes
    <3> HIDE DEF w
    <3>12. w.receiveChain = m.key.chain
      BY <3>1, <3>4, <3>9, <3>10
    <3>13. m.n <= MaxSkip
      BY <1>2, <3>5 DEF TooFar, s, e
    <3>14. w.receiveCount <= m.n /\ m.n <= w.receiveCount + MaxSkip
      BY <1>2, <3>10, <3>13
    <3>15. Receive(w, m, TRUE) # Failed
      BY <1>1, <1>3, <3>11, <3>12, <3>14, ReceiveOpens
    <3> QED
      BY <3>6, <3>7, <3>15 DEF s, e
  <2> QED
    BY <2>3, <2>4
<1> QED
  BY <1>11, <1>12

LEMMA OthersStayOpen ==
    ASSUME TypeInv, SyncInv
    PROVE  OthersOpen
<1> SUFFICES ASSUME NEW m \in network, m.number \notin AllRead(m.to),
                    m.key \notin Pruned(states[m.to]).forgotten, ~TooFar(Pruned(states[m.to]), m)
             PROVE  DecryptInto(Pruned(states[m.to]), m, TRUE) # Failed
  BY DEF OthersOpen
<1> DEFINE e == m.to
           t == Pruned(states[e])
           st == [states EXCEPT ![e] = t]
<1>1. PICK lead \in Ends : Sync(lead, states, read)
  BY DEF SyncInv
<1>2. states \in [Ends -> State] /\ e \in Ends /\ now \in Nat
  BY DEF TypeInv, Message
<1>3. Moved(states[e], t, states[e].receiveCount)
  BY <1>2, PrunedMoves
<1>4. t \in State
  BY <1>3 DEF Moved
<1> HIDE DEF t
<1>5. Sync(lead, st, read)
  <2>1. states[e].receiveChain # Null /\ states[e].receiveChain = states[Peer(e)].sendChain
            => states[e].receiveCount <= states[Peer(e)].sendCount
    BY <1>1, <1>2 DEF Sync, Within
  <2> QED
    BY <1>1, <1>2, <1>3, <2>1, RefuseSync
<1>6. st \in [Ends -> State] /\ st[e] = t
  BY <1>2, <1>4
<1> HIDE DEF st
<1>7. m.key \notin st[m.to].forgotten /\ ~TooFar(st[m.to], m)
  BY <1>6 DEF t, e
<1>8. DecryptInto(st[m.to], m, TRUE) # Failed
  BY <1>5, <1>6, <1>7, Opens
<1> QED
  BY <1>6, <1>8 DEF t, e

\* KeysLiveUntilRead: for any bounds on stored keys and any deliveries, a message
\* on its way opens unless its key was destroyed or too many before it are
\* missing, and a message read leaves its key in neither end's state
\* (ratchetDecrypt, skipMessageKeys, performDhRatchet).
THEOREM RatchetStaysInStep == Spec => []KeysLiveUntilRead
<1>1. TypeInv /\ OnceInv /\ SyncInv => KeysLiveUntilRead
  BY ReadKeysGone, OthersStayOpen DEF KeysLiveUntilRead
<1>2. Spec => [](TypeInv /\ OnceInv /\ SyncInv)
  BY SyncHolds
<1> QED
  BY <1>1, <1>2, PTL

=============================================================================
