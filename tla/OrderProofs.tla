---------------------------- MODULE OrderProofs ----------------------------
(***************************************************************************)
(* What TLAPS proves of the order of messages.  Wires and queues are first *)
(* in, first out, so only what comes a second time can be late: a message  *)
(* that has been taken from the queue is Past, by its time, by the replay  *)
(* guard of the key it was sealed with, or because that key is gone.       *)
(***************************************************************************)
EXTENDS AgreementProofs

(***************************************************************************)
(* Queues.                                                                 *)
(***************************************************************************)

\* What is left of a queue when k items have been taken, and any at its end lost.
Part(t, s, k) == \A i \in DOMAIN t : i \in Nat /\ i + k \in DOMAIN s /\ t[i] = s[i + k]

Cut(t, s) == \E k \in Nat : Part(t, s, k)

\* A queue that stays,
LEMMA CutSame ==
    ASSUME NEW S, NEW s \in Seq(S)
    PROVE  Cut(s, s)
<1>1. Part(s, s, 0)
  BY DEF Part
<1>2. QED
  BY <1>1 DEF Cut

\* loses its first,
LEMMA CutTail ==
    ASSUME NEW S, NEW s \in Seq(S), s # << >>
    PROVE  Part(Tail(s), s, 1) /\ Cut(Tail(s), s) /\ 1 \in DOMAIN s /\ Head(s) = s[1]
<1>1. Len(s) \in Nat /\ Len(s) # 0
  BY LenProperties
<1>2. Part(Tail(s), s, 1)
  BY <1>1 DEF Part
<1>3. QED
  BY <1>1, <1>2 DEF Cut

\* or is cut on both sides.
LEMMA CutMiddle ==
    ASSUME NEW S, NEW s \in Seq(S), NEW k \in Nat, NEW n \in 0 .. Len(s)
    PROVE  Part(SubSeq(s, k + 1, n), s, k) /\ Cut(SubSeq(s, k + 1, n), s)
<1>1. Len(s) \in Nat
  BY LenProperties
<1>2. Part(SubSeq(s, k + 1, n), s, k)
  BY <1>1 DEF Part
<1>3. QED
  BY <1>2 DEF Cut

\* A queue with one more at its end.
LEMMA Queued ==
    ASSUME NEW S, NEW s \in Seq(S), NEW f
    PROVE  /\ Len(s) + 1 \in DOMAIN Append(s, f) /\ Append(s, f)[Len(s) + 1] = f
           /\ \A i \in DOMAIN s : /\ i \in DOMAIN Append(s, f) /\ i < Len(s) + 1
                                  /\ Append(s, f)[i] = s[i]
           /\ \A i \in DOMAIN Append(s, f) : i = Len(s) + 1 \/ i \in DOMAIN s
<1>1. Len(s) \in Nat /\ DOMAIN s = 1 .. Len(s)
  BY LenProperties
<1>2. QED
  BY <1>1

\* Positions are numbers.
LEMMA Positions ==
    ASSUME NEW S, NEW s \in Seq(S), NEW i \in DOMAIN s
    PROVE  i \in Nat /\ i # 0 /\ s[i] \in S
<1>1. Len(s) \in Nat /\ DOMAIN s = 1 .. Len(s)
  BY LenProperties
<1>2. QED
  BY <1>1

-----------------------------------------------------------------------------
(***************************************************************************)
(* Messages.                                                               *)
(***************************************************************************)

\* A message under way has its number and its keys from the process that made it, so
\* a key made later is not in its secret.
LEMMA MessageMade ==
    ASSUME AcceptedMade, KETypeOK, NEW m \in Genuine, m.type = "MESSAGE"
    PROVE  /\ m.from \in Clients /\ m.to \in Clients /\ m.from # m.to
           /\ m.nonce \in LocalNonces
           /\ m.nonce[1] = m.from /\ m.nonce[2] \in Nat /\ m.nonce[2] <= msgsMade[m.from]
           /\ m.at \in Nat
           /\ Receipt(m) \in accepted[m.from]
           /\ m.key # NoSecret /\ NoKey \notin m.key
           /\ \E k \in MadeKeys(m.from), h \in MadeKeys(m.to) : m.key = DeriveKey(k, h)
           /\ \A d \in Clients : FreshKey(d) \notin m.key
<1>1. /\ m.from \in Clients /\ m.to \in Clients /\ m.from # m.to
      /\ Receipt(m) \in accepted[m.from] /\ m \in Frames
  BY ClientsAreUsers DEF Genuine, Frames
<1>2. m.nonce \in LocalNonces /\ m.at \in Nat
  BY <1>1, BoundsAssumption DEF Frames
<1>3. m.nonce[2] \in Nat
  BY <1>2, BoundsAssumption DEF LocalNonces
<1>4. /\ m.nonce[1] = m.from /\ m.nonce[2] <= msgsMade[m.from]
      /\ \E k \in MadeKeys(m.from), h \in MadeKeys(m.to) : m.key = DeriveKey(k, h)
  BY <1>1 DEF AcceptedMade, Receipt
<1>5. PICK k \in MadeKeys(m.from), h \in MadeKeys(m.to) : m.key = DeriveKey(k, h)
  BY <1>4
<1>6. m.key # NoSecret
  BY <1>5 DEF DeriveKey, NoSecret
<1>7. \A d \in Clients : MadeKeys(d) \subseteq LocalKeys /\ FreshKey(d) \notin MadeKeys(d)
  BY BoundsAssumption DEF KETypeOK, MadeKeys, LocalKeys, FreshKey
<1>8. NoKey \notin m.key
  BY <1>1, <1>5, <1>7, KeysAssumption DEF KeyIds, DeriveKey
<1>9. \A d \in Clients : FreshKey(d) \notin m.key
  BY <1>1, <1>5, <1>7 DEF MadeKeys, FreshKey, DeriveKey
<1>10. QED
  BY <1>1, <1>2, <1>3, <1>4, <1>6, <1>8, <1>9

\* Two messages of one sender with one number have one nonce.
LEMMA SameNumber ==
    ASSUME NEW x \in LocalNonces, NEW y \in LocalNonces, x[1] = y[1], x[2] = y[2]
    PROVE  x = y
BY DEF LocalNonces

\* A handshake frame that carries a key of a message comes from its sender.
LEMMA CarrierFrom ==
    ASSUME AcceptedMade, KETypeOK, NEW m \in Genuine, m.type = "MESSAGE",
           NEW f \in Genuine, CarriesKeyOf(f, m)
    PROVE  f.from = m.from /\ f.to = m.to
<1>1. PICK k \in MadeKeys(m.from), h \in MadeKeys(m.to) : m.key = DeriveKey(k, h)
  BY MessageMade
<1>2. f.pub \in MadeKeys(f.from) /\ f.from # f.to
  BY GenuineParts DEF CarriesKeyOf
<1>3. f.pub = k \/ f.pub = h
  BY <1>1 DEF CarriesKeyOf, DeriveKey
<1>4. f.from = m.from \/ f.from = m.to
  BY <1>1, <1>2, <1>3 DEF MadeKeys
<1>5. QED
  BY <1>2, <1>4 DEF CarriesKeyOf

-----------------------------------------------------------------------------
(***************************************************************************)
(* Wires.                                                                  *)
(***************************************************************************)

\* What a process sends is its own, and new.
Sendable(c, f) ==
    /\ f.from = c
    /\ f.type = "MESSAGE" => f.at <= clock' /\ f.nonce[2] = msgsMade[c] + 1
    /\ f.type = "HANDSHAKE_INIT" => f.pub = FreshKey(c)

\* A step that takes from the wires, loses their ends, or sends.
WireStep ==
    /\ UNCHANGED relayed /\ clock <= clock'
    /\ \A c \in Clients :
           /\ Cut(incoming'[c], incoming[c])
           /\ \/ Cut(uplink'[c], uplink[c])
              \/ \E f : Sendable(c, f) /\ uplink'[c] = Append(uplink[c], f)

\* What is sent stays in order,
LEMMA SentInOrder ==
    ASSUME ACTypeOK, AcceptedMade, WiresGenuine, UplinkInOrder, QueuedRelayed, WireStep,
           clock' \in Nat
    PROVE  UplinkInOrder'
<1>1. KETypeOK /\ clock \in Nat /\ clock <= clock' /\ relayed' = relayed
  BY BoundsAssumption DEF ACTypeOK, KETypeOK, WireStep
<1>a. \A d \in Clients : msgsMade[d] \in Nat /\ uplink[d] \in Seq(Genuine)
  BY BoundsAssumption DEF ACTypeOK, WiresGenuine
<1> SUFFICES ASSUME NEW c \in Clients, NEW j \in DOMAIN uplink'[c]
             PROVE  /\ uplink'[c][j].from = c
                    /\ uplink'[c][j].type = "MESSAGE" =>
                       /\ uplink'[c][j].at <= clock'
                       /\ \A m \in relayed :
                              m.from = c => m.nonce[2] < uplink'[c][j].nonce[2]
                       /\ \A i \in DOMAIN uplink'[c] :
                              i < j /\ uplink'[c][i].type = "MESSAGE"
                                  => Newer(uplink'[c][i], uplink'[c][j])
  BY <1>1 DEF UplinkInOrder, Newer
<1>2. CASE Cut(uplink'[c], uplink[c])
  <2>1. PICK k \in Nat : \A i \in DOMAIN uplink'[c] :
                i \in Nat /\ i + k \in DOMAIN uplink[c] /\ uplink'[c][i] = uplink[c][i + k]
    BY <1>2 DEF Cut, Part
  <2>2. j + k \in DOMAIN uplink[c] /\ uplink'[c][j] = uplink[c][j + k]
    BY <2>1
  <2>3. uplink[c][j + k].type = "MESSAGE" => uplink[c][j + k].at \in Nat
    BY <1>1, <1>a, <2>2, Positions, MessageMade
  <2>4. ASSUME NEW i \in DOMAIN uplink'[c], i < j
        PROVE  i + k \in DOMAIN uplink[c] /\ i + k < j + k
               /\ uplink'[c][i] = uplink[c][i + k]
    <3>1. i + k \in DOMAIN uplink[c] /\ uplink'[c][i] = uplink[c][i + k]
      BY <2>1
    <3>2. QED
      BY <2>1, <2>4, <3>1
  <2>5. QED
    BY <1>1, <2>2, <2>3, <2>4 DEF UplinkInOrder
<1>3. CASE \E f : Sendable(c, f) /\ uplink'[c] = Append(uplink[c], f)
  <2>1. PICK f : Sendable(c, f) /\ uplink'[c] = Append(uplink[c], f)
    BY <1>3
  <2>2. CASE j \in DOMAIN uplink[c]
    <3>1. uplink'[c][j] = uplink[c][j]
      BY <1>a, <2>1, <2>2, Queued
    <3>2. uplink[c][j].type = "MESSAGE" => uplink[c][j].at \in Nat
      BY <1>1, <1>a, <2>2, Positions, MessageMade
    <3>3. \A i \in DOMAIN uplink'[c] : i < j =>
             i \in DOMAIN uplink[c] /\ uplink'[c][i] = uplink[c][i]
      <4>1. Len(uplink[c]) \in Nat /\ DOMAIN uplink[c] = 1 .. Len(uplink[c])
        BY <1>a, LenProperties
      <4>2. QED
        BY <1>a, <2>1, <2>2, <4>1, Queued
    <3>4. QED
      BY <1>1, <2>2, <3>1, <3>2, <3>3 DEF UplinkInOrder
  <2>3. CASE j = Len(uplink[c]) + 1
    <3>1. uplink'[c][j] = f /\ f.from = c
      BY <1>a, <2>1, <2>3, Queued DEF Sendable
    <3>2. ASSUME f.type = "MESSAGE"
          PROVE  f.at <= clock' /\ f.nonce[2] = msgsMade[c] + 1
      BY <2>1, <3>2 DEF Sendable
    <3>3. ASSUME NEW m \in relayed, m.from = c
          PROVE  m.nonce[2] \in Nat /\ m.nonce[2] <= msgsMade[c]
      BY <1>1, <3>3, MessageMade DEF QueuedRelayed, WiresGenuine
    <3>4. ASSUME NEW i \in DOMAIN uplink[c], uplink[c][i].type = "MESSAGE"
          PROVE  /\ uplink[c][i].from = c
                 /\ uplink[c][i].nonce[2] \in Nat /\ uplink[c][i].nonce[2] <= msgsMade[c]
      <4>1. uplink[c][i] \in Genuine /\ uplink[c][i].from = c
        BY <1>a, Positions DEF UplinkInOrder
      <4>2. QED
        BY <1>1, <3>4, <4>1, MessageMade
    <3>5. \A i \in DOMAIN uplink'[c] : i < j =>
             i \in DOMAIN uplink[c] /\ uplink'[c][i] = uplink[c][i]
      BY <1>a, <2>1, <2>3, Queued
    <3>6. QED
      BY <1>a, <3>1, <3>2, <3>3, <3>4, <3>5 DEF Newer
  <2>4. QED
    BY <1>a, <2>1, <2>2, <2>3, Queued
<1>4. QED
  BY <1>2, <1>3 DEF WireStep

\* what comes has been relayed,
LEMMA QueuedStill ==
    ASSUME WireStep, NEW c \in Clients, incoming[c] \in Seq(Genuine)
    PROVE  Range(incoming'[c]) \subseteq Range(incoming[c])
<1>1. PICK k \in Nat : \A i \in DOMAIN incoming'[c] :
              i \in Nat /\ i + k \in DOMAIN incoming[c] /\ incoming'[c][i] = incoming[c][i + k]
  BY DEF WireStep, Cut, Part
<1>2. QED
  BY <1>1 DEF Range

\* and keys stay ahead of what was sealed with them.
LEMMA OffersStep ==
    ASSUME ACTypeOK, AcceptedMade, WiresGenuine, QueuedRelayed, OffersFirst, WireStep
    PROVE  OffersFirst'
<1>1. KETypeOK /\ relayed' = relayed
  BY DEF ACTypeOK, WireStep
<1> SUFFICES ASSUME NEW c \in Clients
             PROVE  /\ \A i, j \in DOMAIN uplink'[c] :
                         uplink'[c][j].type = "MESSAGE"
                         /\ CarriesKeyOf(uplink'[c][i], uplink'[c][j]) => i < j
                    /\ \A m \in relayed : \A f \in Range(uplink'[c]) : ~ CarriesKeyOf(f, m)
                    /\ \A i, j \in DOMAIN incoming'[c] :
                         incoming'[c][j].type = "MESSAGE"
                         /\ CarriesKeyOf(incoming'[c][i], incoming'[c][j]) => i < j
  BY <1>1 DEF OffersFirst, CarriesKeyOf
<1>2. uplink[c] \in Seq(Genuine) /\ incoming[c] \in Seq(Genuine)
  BY DEF WiresGenuine
<1>3. \A i, j \in DOMAIN incoming'[c] :
         incoming'[c][j].type = "MESSAGE"
         /\ CarriesKeyOf(incoming'[c][i], incoming'[c][j]) => i < j
  <2>1. PICK k \in Nat : \A i \in DOMAIN incoming'[c] :
                i \in Nat /\ i + k \in DOMAIN incoming[c] /\ incoming'[c][i] = incoming[c][i + k]
    BY DEF WireStep, Cut, Part
  <2>3. QED
    BY <2>1 DEF OffersFirst
<1>4. CASE Cut(uplink'[c], uplink[c])
  <2>1. PICK k \in Nat : \A i \in DOMAIN uplink'[c] :
                i \in Nat /\ i + k \in DOMAIN uplink[c] /\ uplink'[c][i] = uplink[c][i + k]
    BY <1>4 DEF Cut, Part
  <2>3. Range(uplink'[c]) \subseteq Range(uplink[c])
    BY <2>1 DEF Range
  <2>4. QED
    BY <1>3, <2>1, <2>3 DEF OffersFirst
<1>5. CASE \E f : Sendable(c, f) /\ uplink'[c] = Append(uplink[c], f)
  <2>1. PICK f : Sendable(c, f) /\ uplink'[c] = Append(uplink[c], f)
    BY <1>5
  <2>2. \A m \in Genuine : m.type = "MESSAGE" => ~ CarriesKeyOf(f, m)
    BY <1>1, <2>1, MessageMade DEF Sendable, CarriesKeyOf
  <2>3. Range(uplink'[c]) \subseteq Range(uplink[c]) \union {f}
    BY <1>2, <2>1, RangeQueued
  <2>4. \A m \in relayed : \A g \in Range(uplink'[c]) : ~ CarriesKeyOf(g, m)
    BY <2>2, <2>3 DEF OffersFirst, QueuedRelayed, WiresGenuine
  <2>5. ASSUME NEW i \in DOMAIN uplink'[c], NEW j \in DOMAIN uplink'[c],
               uplink'[c][j].type = "MESSAGE",
               CarriesKeyOf(uplink'[c][i], uplink'[c][j])
        PROVE  i < j
    <3>1. CASE i \in DOMAIN uplink[c] /\ j \in DOMAIN uplink[c]
      <4>1. uplink'[c][i] = uplink[c][i] /\ uplink'[c][j] = uplink[c][j]
        BY <1>2, <2>1, <3>1, Queued
      <4>2. QED
        BY <2>5, <3>1, <4>1 DEF OffersFirst
    <3>2. CASE i \in DOMAIN uplink[c] /\ j = Len(uplink[c]) + 1
      BY <1>2, <3>2, Queued
    <3>3. CASE i = Len(uplink[c]) + 1 /\ j \in DOMAIN uplink[c]
      <4>1. uplink'[c][i] = f /\ uplink'[c][j] \in Genuine
        BY <1>2, <2>1, <3>3, Queued, Positions
      <4>2. QED
        BY <2>2, <2>5, <4>1
    <3>4. CASE i = Len(uplink[c]) + 1 /\ j = Len(uplink[c]) + 1
      <4>1. uplink'[c][i] = f /\ uplink'[c][j] = f
        BY <1>2, <2>1, <3>4, Queued
      <4>2. QED
        BY <2>5, <4>1 DEF CarriesKeyOf
    <3>5. QED
      BY <1>2, <2>1, <3>1, <3>2, <3>3, <3>4, Queued
  <2>6. QED
    BY <1>3, <2>4, <2>5
<1>6. QED
  BY <1>4, <1>5 DEF WireStep

-----------------------------------------------------------------------------
(***************************************************************************)
(* What is past stays past.                                                *)
(***************************************************************************)

\* What becomes of the keys and nonces of a pair: they stay, a new key may become
\* pending and nonces be added,
Kept(c, p) ==
    /\ sessionKey'[c][p] = sessionKey[c][p]
    /\ seenNonces[c][p] \subseteq seenNonces'[c][p]
    /\ pendingKey'[c][p] \in {pendingKey[c][p], FreshKey(c)}

\* they are dropped,
Dropped(c, p) == sessionKey'[c][p] = NoSecret /\ pendingKey'[c][p] = NoKey

\* or a secret is made of a key that waits and one that has come.
Opened(c, p) ==
    /\ sessionKey[c][p] = NoSecret
    /\ pendingKey'[c][p] = NoKey
    /\ \E f \in Range(incoming[c]), k \in {pendingKey[c][p], FreshKey(c)} \ {NoKey} :
           /\ f.type = "HANDSHAKE_INIT" /\ PairKey(f.from, f.to) = p
           /\ sessionKey'[c][p] = DeriveKey(k, f.pub)

\* What is in a queue is under way, and what waits for a process is for it.
LEMMA WaitingFor ==
    ASSUME WiresGenuine, NEW c \in Clients, NEW f \in Range(incoming[c])
    PROVE  f \in Genuine /\ f.to = c /\ f \in InTransit
<1>1. incoming[c] \in Seq(GenuineFor(c))
  BY DEF WiresGenuine
<1>2. PICK i \in DOMAIN incoming[c] : f = incoming[c][i]
  BY DEF Range
<1>3. f \in GenuineFor(c)
  BY <1>1, <1>2, Positions
<1>4. QED
  BY <1>3 DEF GenuineFor, InTransit

\* No step sends the key of a message that has been sent.
LEMMA CarriersStay ==
    ASSUME ACTypeOK, AcceptedMade, WiresGenuine, WireStep, NEW m \in Genuine, m.type = "MESSAGE"
    PROVE  \A f \in InTransit' : CarriesKeyOf(f, m) => f \in InTransit
<1> SUFFICES ASSUME NEW f \in InTransit', CarriesKeyOf(f, m)
             PROVE  f \in InTransit
  OBVIOUS
<1>1. PICK c \in Clients : f \in Range(uplink'[c]) \/ f \in Range(incoming'[c])
  BY DEF InTransit
<1>2. uplink[c] \in Seq(Genuine) /\ incoming[c] \in Seq(Genuine)
  BY DEF WiresGenuine
<1>3. CASE f \in Range(incoming'[c])
  BY <1>2, <1>3, QueuedStill DEF InTransit
<1>4. CASE f \in Range(uplink'[c]) /\ Cut(uplink'[c], uplink[c])
  <2>1. f \in Range(uplink[c])
    BY <1>4 DEF Cut, Part, Range
  <2>2. QED
    BY <2>1 DEF InTransit
<1>5. CASE /\ f \in Range(uplink'[c])
           /\ \E g : Sendable(c, g) /\ uplink'[c] = Append(uplink[c], g)
  <2>1. PICK g : Sendable(c, g) /\ uplink'[c] = Append(uplink[c], g)
    BY <1>5
  <2>2. f # g
    BY <2>1, MessageMade DEF ACTypeOK, Sendable, CarriesKeyOf
  <2>3. f \in Range(uplink[c])
    BY <1>2, <1>5, <2>1, <2>2, RangeQueued
  <2>4. QED
    BY <2>3 DEF InTransit
<1>6. QED
  BY <1>1, <1>3, <1>4, <1>5 DEF WireStep

\* A secret that is gone does not come back: it takes a private key of each end, and
\* none is made or sent twice.
LEMMA PastStays ==
    ASSUME ACTypeOK, AcceptedMade, WiresGenuine, NEW c \in Clients,
           NEW m \in Genuine, m.type = "MESSAGE", m.to = c, Past(c, m),
           clock' \in Nat, clock <= clock',
           \A f \in InTransit' : CarriesKeyOf(f, m) => f \in InTransit,
           \/ Kept(c, PairKey(m.from, m.to)) \/ Dropped(c, PairKey(m.from, m.to))
           \/ Opened(c, PairKey(m.from, m.to))
    PROVE  Past(c, m)'
<1> DEFINE p == PairKey(m.from, m.to)
<1>1. /\ clock \in Nat /\ m.at \in Nat /\ Tolerance \in Nat
      /\ m.key # NoSecret /\ NoKey \notin m.key /\ FreshKey(c) \notin m.key
  BY MessageMade, BoundsAssumption DEF ACTypeOK, KETypeOK
<1>2. CASE clock - m.at > Tolerance
  <2>1. clock' - m.at > Tolerance
    BY <1>1, <1>2
  <2>2. QED
    BY <2>1 DEF Past
<1>3. CASE Dropped(c, p)
  BY <1>1, <1>3 DEF Dropped, Past, NeverOpens
<1>4. CASE Kept(c, p)
  <2>1. CASE sessionKey[c][p] = m.key /\ m.nonce \in seenNonces[c][p]
    BY <1>4, <2>1 DEF Kept, Past
  <2>2. CASE NeverOpens(c, m)
    <3>1. sessionKey'[c][p] # m.key
      BY <1>4, <2>2 DEF Kept, NeverOpens
    <3>2. pendingKey'[c][p] \in m.key => pendingKey[c][p] \in m.key
      BY <1>1, <1>4 DEF Kept
    <3>3. pendingKey'[c][p] \notin m.key \/ \A f \in InTransit' : ~ CarriesKeyOf(f, m)
      BY <2>2, <3>2 DEF NeverOpens
    <3>4. QED
      BY <3>1, <3>3 DEF Past, NeverOpens, CarriesKeyOf
  <2>3. QED
    BY <1>2, <2>1, <2>2 DEF Past
<1>5. CASE Opened(c, p) /\ ~ clock - m.at > Tolerance
  <2>1. PICK f \in Range(incoming[c]), k \in {pendingKey[c][p], FreshKey(c)} \ {NoKey} :
           /\ f.type = "HANDSHAKE_INIT" /\ PairKey(f.from, f.to) = p
           /\ sessionKey'[c][p] = DeriveKey(k, f.pub)
    BY <1>5 DEF Opened
  <2>2. NeverOpens(c, m)
    BY <1>1, <1>5 DEF Opened, Past
  <2>3. sessionKey'[c][p] # m.key
    <3> SUFFICES ASSUME sessionKey'[c][p] = m.key PROVE FALSE
      OBVIOUS
    <3>1. k \in m.key /\ f.pub \in m.key
      BY <2>1 DEF DeriveKey
    <3>2. k = pendingKey[c][p]
      BY <1>1, <2>1, <3>1
    <3>3. f \in InTransit /\ CarriesKeyOf(f, m)
      BY <2>1, <3>1, WaitingFor DEF CarriesKeyOf
    <3>4. QED
      BY <2>2, <3>1, <3>2, <3>3 DEF NeverOpens
  <2>4. pendingKey'[c][p] \notin m.key
    BY <1>1, <1>5 DEF Opened
  <2>5. QED
    BY <2>3, <2>4 DEF Past, NeverOpens
<1>6. QED
  BY <1>2, <1>3, <1>4, <1>5

-----------------------------------------------------------------------------
(***************************************************************************)
(* What has come to a process, after a step.                               *)
(***************************************************************************)

\* Where nothing is taken or shown, what was past is.
LEMMA BackSame ==
    ASSUME NEW c \in Clients, NEW m, StaysPast(c, m), Past(c, m) => Past(c, m)',
           incoming'[c] = incoming[c], seenIds'[c] = seenIds[c],
           delivered'[c] = delivered[c]
    PROVE  StaysPast(c, m)'
BY DEF StaysPast, Newer, Receipt, Range

\* The first frame is taken, and if it is a message that is shown, whatever is older was
\* past.
LEMMA BackTaken ==
    ASSUME ACTypeOK, AcceptedMade, WiresGenuine, QueuedRelayed,
           NEW c \in Clients, NEW m \in relayed, m.to = c,
           StaysPast(c, m), Past(c, m) => Past(c, m)',
           NEW h, incoming[c] # << >>, h = Head(incoming[c]),
           incoming'[c] = Tail(incoming[c]), h.type = "MESSAGE" => Past(c, h)',
           \A i \in DOMAIN seenIds'[c] :
               \/ seenIds'[c][i] \in Range(seenIds[c])
               \/ h.type = "MESSAGE" /\ seenIds'[c][i] = h.nonce,
           \/ delivered'[c] = delivered[c]
           \/ h.type = "MESSAGE" /\ delivered'[c] = Append(delivered[c], Receipt(h))
    PROVE  StaysPast(c, m)'
<1>1. /\ incoming[c] \in Seq(Genuine) /\ m \in Genuine /\ m.type = "MESSAGE"
      /\ delivered[c] \in Seq(Receipts) /\ KETypeOK
  BY DEF WiresGenuine, QueuedRelayed, ACTypeOK
<1>2. /\ \A i \in DOMAIN incoming'[c] : /\ i \in Nat /\ i + 1 \in DOMAIN incoming[c]
                                        /\ incoming'[c][i] = incoming[c][i + 1]
      /\ 1 \in DOMAIN incoming[c] /\ incoming[c][1] = h
  BY <1>1, CutTail DEF Part
<1>3. /\ h \in Genuine /\ h \in Range(incoming[c])
      /\ h.type = "MESSAGE" => h \in relayed
  BY <1>1, <1>2, Positions DEF QueuedRelayed, Range
<1>4. m = h => Past(c, m)'
  BY <1>1
<1>5. m \in Range(incoming'[c]) \/ Past(c, m)'
  <2>1. CASE m \in Range(incoming[c]) /\ m # h
    <3>1. PICK i \in DOMAIN incoming[c] : m = incoming[c][i] /\ i # 1
      BY <1>2, <2>1 DEF Range
    <3>2. Len(incoming[c]) \in Nat /\ i \in 1 .. Len(incoming[c]) /\ i # 1
      BY <1>1, <3>1, LenProperties
    <3>3. i - 1 \in DOMAIN Tail(incoming[c]) /\ Tail(incoming[c])[i - 1] = incoming[c][i]
      BY <1>1, <3>2
    <3>4. QED
      BY <3>1, <3>3 DEF Range
  <2>2. QED
    BY <1>4, <2>1 DEF StaysPast
<1>6. m.nonce \in Range(seenIds'[c]) => Past(c, m)'
  <2>1. h.type = "MESSAGE" /\ m.nonce = h.nonce => m = h
    BY <1>3 DEF QueuedRelayed
  <2>2. QED
    BY <1>4, <2>1 DEF StaysPast, Range
<1>7. ASSUME NEW i \in DOMAIN delivered'[c],
             delivered'[c][i] = Receipt(m) \/ Newer(m, delivered'[c][i])
      PROVE  Past(c, m)'
  <2>1. CASE i \in DOMAIN delivered[c] /\ delivered'[c][i] = delivered[c][i]
    BY <1>7, <2>1 DEF StaysPast
  <2>2. CASE h.type = "MESSAGE" /\ delivered'[c][i] = Receipt(h)
    <3>1. CASE Receipt(h) = Receipt(m)
      <4>1. h.nonce = m.nonce
        BY <3>1 DEF Receipt
      <4>2. QED
        BY <1>3, <1>4, <2>2, <4>1 DEF QueuedRelayed
    <3>2. CASE Newer(m, Receipt(h))
      <4>1. Newer(m, h)
        BY <3>2 DEF Newer, Receipt
      <4>2. Past(c, m) \/ \E k \in DOMAIN incoming[c] : k < 1 /\ incoming[c][k] = m
        BY <1>2, <2>2, <4>1 DEF StaysPast
      <4>3. QED
        BY <1>1, <4>2, Positions
    <3>3. QED
      BY <1>7, <2>2, <3>1, <3>2
  <2>3. QED
    BY <1>1, <2>1, <2>2, Queued
<1>8. ASSUME NEW i \in DOMAIN incoming'[c], incoming'[c][i].type = "MESSAGE",
             Newer(m, incoming'[c][i])
      PROVE  Past(c, m)' \/ \E k \in DOMAIN incoming'[c] : k < i /\ incoming'[c][k] = m
  <2>1. /\ i \in Nat /\ i + 1 \in DOMAIN incoming[c]
        /\ incoming'[c][i] = incoming[c][i + 1]
    BY <1>2
  <2>2. CASE Past(c, m)
    BY <2>2
  <2>3. CASE \E k \in DOMAIN incoming[c] : k < i + 1 /\ incoming[c][k] = m
    <3>1. PICK k \in DOMAIN incoming[c] : k < i + 1 /\ incoming[c][k] = m
      BY <2>3
    <3>2. CASE k = 1
      BY <1>2, <1>4, <3>1, <3>2
    <3>3. CASE k # 1
      <4>1. Len(incoming[c]) \in Nat /\ k \in 1 .. Len(incoming[c]) /\ k # 1
        BY <1>1, <3>1, <3>3, LenProperties
      <4>2. /\ k - 1 \in DOMAIN Tail(incoming[c]) /\ k - 1 < i
            /\ Tail(incoming[c])[k - 1] = incoming[c][k]
        BY <1>1, <2>1, <3>1, <4>1
      <4>3. QED
        BY <3>1, <4>2
    <3>4. QED
      BY <3>2, <3>3
  <2>4. QED
    BY <1>8, <2>1, <2>2, <2>3 DEF StaysPast
<1>9. QED
  BY <1>5, <1>6, <1>7, <1>8 DEF StaysPast, Newer, Receipt, Range

\* A frame that comes is behind all that wait,
LEMMA BackQueued ==
    ASSUME WiresGenuine, NEW c \in Clients, NEW m,
           StaysPast(c, m), Past(c, m) => Past(c, m)',
           NEW f, incoming'[c] = Append(incoming[c], f),
           seenIds'[c] = seenIds[c], delivered'[c] = delivered[c]
    PROVE  StaysPast(c, m)'
<1>1. incoming[c] \in Seq(Genuine)
  BY DEF WiresGenuine
<1>2. m \in Range(incoming[c]) => m \in Range(incoming'[c])
  BY <1>1, Queued DEF Range
<1>3. ASSUME NEW i \in DOMAIN incoming'[c], incoming'[c][i].type = "MESSAGE",
             Newer(m, incoming'[c][i])
      PROVE  Past(c, m)' \/ \E k \in DOMAIN incoming'[c] : k < i /\ incoming'[c][k] = m
  <2>1. CASE i \in DOMAIN incoming[c]
    <3>1. incoming'[c][i] = incoming[c][i]
      BY <1>1, <2>1, Queued
    <3>2. Past(c, m) \/ \E k \in DOMAIN incoming[c] : k < i /\ incoming[c][k] = m
      BY <1>3, <2>1, <3>1 DEF StaysPast
    <3>3. QED
      BY <1>1, <3>2, Queued
  <2>2. CASE i = Len(incoming[c]) + 1
    <3>1. Past(c, m) \/ \E k \in DOMAIN incoming[c] : incoming[c][k] = m
      BY DEF StaysPast, Range
    <3>2. QED
      BY <1>1, <2>2, <3>1, Queued
  <2>3. QED
    BY <1>1, <2>1, <2>2, Queued
<1>4. QED
  BY <1>2, <1>3 DEF StaysPast, Newer, Receipt, Range

\* also one the relay had not handed over yet.
LEMMA BackNew ==
    ASSUME ACTypeOK, AcceptedMade, WiresGenuine, QueuedRelayed,
           NEW c \in Clients, NEW f \in Genuine, f.type = "MESSAGE",
           \A n \in relayed : n.from = f.from => n.nonce[2] < f.nonce[2],
           incoming'[c] = Append(incoming[c], f),
           seenIds'[c] = seenIds[c], delivered'[c] = delivered[c]
    PROVE  StaysPast(c, f)'
<1>1. /\ incoming[c] \in Seq(Genuine) /\ relayed \subseteq Genuine /\ KETypeOK
      /\ \A n \in relayed : n.type = "MESSAGE"
  BY DEF WiresGenuine, QueuedRelayed, ACTypeOK
<1>2. f.nonce[2] \in Nat /\ f.nonce[1] = f.from
  BY <1>1, MessageMade
<1>3. \A n \in relayed : /\ n.nonce # f.nonce /\ ~ Newer(f, n)
                         /\ n.nonce[2] \in Nat /\ n.nonce[1] = n.from
  <2> TAKE n \in relayed
  <2>1. n.nonce[2] \in Nat /\ n.nonce[1] = n.from
    BY <1>1, MessageMade
  <2>2. n.from = f.from => n.nonce[2] < f.nonce[2]
    OBVIOUS
  <2>3. QED
    BY <1>2, <2>1, <2>2 DEF Newer
<1>4. f \in Range(incoming'[c])
  BY <1>1, Queued DEF Range
<1>5. f.nonce \notin Range(seenIds'[c])
  BY <1>3 DEF QueuedRelayed, Range
<1>6. \A i \in DOMAIN delivered'[c] :
         delivered'[c][i] # Receipt(f) /\ ~ Newer(f, delivered'[c][i])
  <2> TAKE i \in DOMAIN delivered'[c]
  <2>1. PICK n \in relayed : delivered'[c][i] = Receipt(n)
    BY DEF QueuedRelayed
  <2>2. Receipt(n) = Receipt(f) => n.nonce = f.nonce
    BY DEF Receipt
  <2>3. Newer(f, Receipt(n)) => Newer(f, n)
    BY DEF Newer, Receipt
  <2>4. QED
    BY <1>3, <2>1, <2>2, <2>3
<1>7. \A i \in DOMAIN incoming'[c] :
         incoming'[c][i].type = "MESSAGE" => ~ Newer(f, incoming'[c][i])
  <2> SUFFICES ASSUME NEW i \in DOMAIN incoming'[c], incoming'[c][i].type = "MESSAGE"
               PROVE  ~ Newer(f, incoming'[c][i])
    OBVIOUS
  <2>1. CASE i \in DOMAIN incoming[c]
    <3>1. incoming'[c][i] \in Range(incoming[c])
      BY <1>1, <2>1, Queued DEF Range
    <3>2. QED
      BY <1>3, <3>1 DEF QueuedRelayed
  <2>2. CASE i = Len(incoming[c]) + 1
    <3>1. incoming'[c][i] = f
      BY <1>1, <2>2, Queued
    <3>2. QED
      BY <1>2, <3>1 DEF Newer
  <2>3. QED
    BY <1>1, <2>1, <2>2, Queued
<1>8. QED
  BY <1>4, <1>5, <1>6, <1>7 DEF StaysPast, Newer, Receipt, Range

-----------------------------------------------------------------------------
(***************************************************************************)
(* What is shown.                                                          *)
(***************************************************************************)

\* A step shows nothing, or the message that was first in its queue.
Shows(c) ==
    \/ delivered'[c] = delivered[c]
    \/ /\ incoming[c] # << >> /\ Head(incoming[c]).type = "MESSAGE"
       /\ incoming'[c] = Tail(incoming[c])
       /\ delivered'[c] = Append(delivered[c], Receipt(Head(incoming[c])))

\* It was relayed,
LEMMA ShownRelayed ==
    ASSUME ACTypeOK, WiresGenuine, QueuedRelayed, NEW c \in Clients, Shows(c)
    PROVE  \A i \in DOMAIN delivered'[c] : \E m \in relayed : delivered'[c][i] = Receipt(m)
<1>1. delivered[c] \in Seq(Receipts) /\ incoming[c] \in Seq(Genuine)
  BY DEF ACTypeOK, WiresGenuine
<1>2. CASE delivered'[c] = delivered[c]
  BY <1>2 DEF QueuedRelayed
<1>3. CASE delivered'[c] # delivered[c]
  <2>1. PICK h : /\ h = Head(incoming[c]) /\ incoming[c] # << >> /\ h.type = "MESSAGE"
                 /\ delivered'[c] = Append(delivered[c], Receipt(h))
    BY <1>3 DEF Shows
  <2>2. h \in relayed
    BY <1>1, <2>1, RangeTail DEF QueuedRelayed
  <2>3. \A i \in DOMAIN delivered'[c] :
           \/ i \in DOMAIN delivered[c] /\ delivered'[c][i] = delivered[c][i]
           \/ delivered'[c][i] = Receipt(h)
    BY <1>1, <2>1, Queued
  <2>4. QED
    BY <2>2, <2>3 DEF QueuedRelayed
<1>4. QED
  BY <1>2, <1>3

\* and what comes, is shown or remembered goes on to be what was relayed.
LEMMA QueuedStep ==
    ASSUME ACTypeOK, AcceptedMade, WiresGenuine, QueuedRelayed, WireStep, clock' \in Nat,
           \A c \in Clients :
               /\ Shows(c)
               /\ \A i \in DOMAIN seenIds'[c] : \E m \in relayed : seenIds'[c][i] = m.nonce
    PROVE  QueuedRelayed'
<1>1. relayed' = relayed /\ clock <= clock' /\ clock \in Nat /\ KETypeOK
  BY BoundsAssumption DEF WireStep, ACTypeOK, KETypeOK
<1>2. \A m \in relayed : m.type = "MESSAGE" /\ m.at <= clock'
  BY <1>1, MessageMade DEF QueuedRelayed, WiresGenuine
<1>3. \A c \in Clients : \A f \in Range(incoming'[c]) : f.type = "MESSAGE" => f \in relayed
  BY QueuedStill DEF WiresGenuine, QueuedRelayed
<1>4. \A c \in Clients : \A i \in DOMAIN delivered'[c] :
         \E m \in relayed : delivered'[c][i] = Receipt(m)
  BY ShownRelayed
<1>5. QED
  BY <1>1, <1>2, <1>3, <1>4 DEF QueuedRelayed, Receipt, Range

\* A queue in order stays so when frames are taken from it, lost or shown.
LEMMA QueueStep ==
    ASSUME ACTypeOK, WiresGenuine, QueueInOrder, WireStep, \A c \in Clients : Shows(c)
    PROVE  QueueInOrder'
<1> SUFFICES ASSUME NEW c \in Clients, NEW j \in DOMAIN incoming'[c],
                    incoming'[c][j].type = "MESSAGE"
             PROVE  /\ \A i \in DOMAIN incoming'[c] :
                         i < j /\ incoming'[c][i].type = "MESSAGE"
                         /\ incoming'[c][i].from = incoming'[c][j].from
                             => Newer(incoming'[c][i], incoming'[c][j])
                    /\ \A i \in DOMAIN delivered'[c] :
                         delivered'[c][i].from = incoming'[c][j].from
                             => Newer(delivered'[c][i], incoming'[c][j])
  BY DEF QueueInOrder, Newer
<1>1. incoming[c] \in Seq(Genuine) /\ delivered[c] \in Seq(Receipts)
  BY DEF WiresGenuine, ACTypeOK
<1>2. PICK k \in Nat : \A i \in DOMAIN incoming'[c] :
              i \in Nat /\ i + k \in DOMAIN incoming[c] /\ incoming'[c][i] = incoming[c][i + k]
  BY DEF WireStep, Cut, Part
<1>3. ASSUME NEW i \in DOMAIN incoming'[c], i < j, incoming'[c][i].type = "MESSAGE",
             incoming'[c][i].from = incoming'[c][j].from
      PROVE  Newer(incoming'[c][i], incoming'[c][j])
  BY <1>2, <1>3 DEF QueueInOrder
<1>4. ASSUME NEW i \in DOMAIN delivered'[c], delivered'[c][i].from = incoming'[c][j].from
      PROVE  Newer(delivered'[c][i], incoming'[c][j])
  <2>1. CASE i \in DOMAIN delivered[c] /\ delivered'[c][i] = delivered[c][i]
    BY <1>2, <1>4, <2>1 DEF QueueInOrder
  <2>2. CASE /\ incoming[c] # << >> /\ Head(incoming[c]).type = "MESSAGE"
             /\ incoming'[c] = Tail(incoming[c])
             /\ delivered'[c][i] = Receipt(Head(incoming[c]))
    <3>1. PICK h : h = Head(incoming[c])
      OBVIOUS
    <3>2. /\ j \in Nat /\ j + 1 \in DOMAIN incoming[c]
          /\ incoming'[c][j] = incoming[c][j + 1]
          /\ 1 \in DOMAIN incoming[c] /\ h = incoming[c][1]
      BY <1>1, <2>2, <3>1, CutTail DEF Part
    <3>3. j # 0
      <4>1. Tail(incoming[c]) \in Seq(Genuine)
        BY <1>1, <2>2
      <4>2. QED
        BY <2>2, <4>1, Positions
    <3>4. h.from = incoming[c][j + 1].from
      BY <1>4, <2>2, <3>1, <3>2 DEF Receipt
    <3>5. Newer(h, incoming[c][j + 1])
      BY <2>2, <3>1, <3>2, <3>3, <3>4 DEF QueueInOrder
    <3>6. QED
      BY <2>2, <3>1, <3>2, <3>5 DEF Newer, Receipt
  <2>3. QED
    BY <1>1, <2>1, <2>2, Queued DEF Shows
<1>5. QED
  BY <1>3, <1>4

\* What is shown is newer than what has been: because it was behind that in the queue,
\* or because it would be past otherwise.
LEMMA ShownInOrder ==
    ASSUME ACTypeOK, AcceptedMade, WiresGenuine, QueuedRelayed, DeliveredInOrder,
           \A c \in Clients : Shows(c),
           \A c \in Clients : delivered'[c] # delivered[c] =>
               \/ QueueInOrder
               \/ NothingComesBack /\ ~ Past(c, Head(incoming[c]))
    PROVE  DeliveredInOrder'
<1> SUFFICES ASSUME NEW c \in Clients, NEW i \in DOMAIN delivered'[c],
                    NEW j \in DOMAIN delivered'[c], i < j,
                    delivered'[c][i].from = delivered'[c][j].from
             PROVE  delivered'[c][i].nonce[2] < delivered'[c][j].nonce[2]
  BY DEF DeliveredInOrder
<1>1. /\ incoming[c] \in Seq(Genuine) /\ delivered[c] \in Seq(Receipts) /\ KETypeOK
      /\ incoming[c] \in Seq(GenuineFor(c))
  BY DEF WiresGenuine, ACTypeOK
<1>2. CASE delivered'[c] = delivered[c]
  BY <1>2 DEF DeliveredInOrder
<1>3. CASE delivered'[c] # delivered[c]
  <2>1. PICK h : /\ h = Head(incoming[c]) /\ incoming[c] # << >> /\ h.type = "MESSAGE"
                 /\ delivered'[c] = Append(delivered[c], Receipt(h))
    BY <1>3 DEF Shows
  <2>2. i \in Nat /\ j \in Nat /\ i \in DOMAIN delivered[c]
        /\ delivered'[c][i] = delivered[c][i]
    <3>1. Append(delivered[c], Receipt(h)) \in Seq(Receipts \union {Receipt(h)})
          /\ Len(delivered[c]) \in Nat /\ DOMAIN delivered[c] = 1 .. Len(delivered[c])
      BY <1>1, LenProperties
    <3>2. i \in Nat /\ j \in Nat
      BY <2>1, <3>1, Positions
    <3>3. QED
      BY <1>1, <2>1, <3>1, <3>2, Queued
  <2>3. CASE j \in DOMAIN delivered[c]
    BY <1>1, <2>1, <2>2, <2>3, Queued DEF DeliveredInOrder
  <2>4. CASE delivered'[c][j] = Receipt(h)
    <3>1. /\ h \in Genuine /\ h.to = c /\ h \in relayed /\ 1 \in DOMAIN incoming[c]
          /\ h = incoming[c][1]
      <4>1. h \in Range(incoming[c]) /\ 1 \in DOMAIN incoming[c] /\ h = incoming[c][1]
        BY <1>1, <2>1, RangeTail, CutTail
      <4>2. QED
        BY <2>1, <4>1, WaitingFor DEF QueuedRelayed
    <3>2. PICK n \in relayed : delivered[c][i] = Receipt(n)
      BY <2>2 DEF QueuedRelayed
    <3>3. n.from = h.from
      BY <2>2, <2>4, <3>2 DEF Receipt
    <3>4. /\ n.nonce \in LocalNonces /\ h.nonce \in LocalNonces
          /\ n.nonce[1] = h.nonce[1] /\ n.nonce[2] \in Nat /\ h.nonce[2] \in Nat
      <4>1. n \in Genuine /\ n.type = "MESSAGE"
        BY DEF WiresGenuine, QueuedRelayed
      <4>2. QED
        BY <1>1, <2>1, <3>1, <3>3, <4>1, MessageMade
    <3>5. n.nonce[2] < h.nonce[2]
      <4>1. CASE QueueInOrder
        <5>1. Newer(Receipt(n), h)
          BY <2>1, <2>2, <3>1, <3>2, <3>3, <4>1 DEF QueueInOrder, Receipt
        <5>2. QED
          BY <5>1 DEF Newer, Receipt
      <4>2. CASE NothingComesBack /\ ~ Past(c, h)
        <5>1. StaysPast(c, h)
          BY <3>1, <4>2 DEF NothingComesBack
        <5>2. Receipt(n) # Receipt(h) /\ ~ Newer(h, Receipt(n))
          BY <2>2, <3>2, <4>2, <5>1 DEF StaysPast
        <5>3. n.nonce # h.nonce
          BY <3>1, <5>2 DEF QueuedRelayed
        <5>4. n.nonce[2] # h.nonce[2]
          BY <3>4, <5>3, SameNumber
        <5>5. ~ h.nonce[2] < n.nonce[2]
          BY <3>3, <5>2 DEF Newer, Receipt
        <5>6. QED
          BY <3>4, <5>4, <5>5
      <4>3. QED
        BY <1>3, <2>1, <4>1, <4>2
    <3>6. QED
      BY <2>2, <2>4, <3>2, <3>5 DEF Receipt
  <2>5. QED
    BY <1>1, <2>1, <2>3, <2>4, Queued
<1>4. QED
  BY <1>2, <1>3

-----------------------------------------------------------------------------
(***************************************************************************)
(* The parts of the invariant after a step.                                *)
(***************************************************************************)

\* What becomes of the keys of a process: new ones are for a process with a session,
\* and all go with it.
KeyStep ==
    \A c \in Clients :
        /\ \A p \in Pairs : c \in p =>
               \/ Kept(c, p) /\ (pendingKey'[c][p] # pendingKey[c][p] => LoggedIn(c)')
               \/ Dropped(c, p)
               \/ Opened(c, p) /\ LoggedIn(c)'
        /\ LoggedIn(c) /\ ~ LoggedIn(c)' => \A p \in Pairs : c \in p => Dropped(c, p)

\* A step that leaves keys alone, and logs nobody out,
LEMMA KeysStill ==
    ASSUME UNCHANGED <<sessionKey, seenNonces, pendingKey>>,
           \A c \in Clients : LoggedIn(c) => LoggedIn(c)'
    PROVE  KeyStep
BY DEF KeyStep, Kept

\* wires that only a sender adds to,
LEMMA WiresStill ==
    ASSUME WiresGenuine, \A c \in Clients : Cut(incoming'[c], incoming[c]),
           UNCHANGED relayed, clock <= clock',
           \/ UNCHANGED uplink
           \/ \E c \in Clients : \E f : Sendable(c, f) /\ Transmit(c, f)
    PROVE  WireStep
<1>1. \A c \in Clients : Cut(incoming'[c], incoming[c]) /\ Cut(uplink[c], uplink[c])
  BY CutSame DEF WiresGenuine
<1>2. CASE UNCHANGED uplink
  BY <1>1, <1>2 DEF WireStep
<1>3. ASSUME NEW c \in Clients, NEW f, Sendable(c, f), Transmit(c, f)
      PROVE  WireStep
  <2>1. UNCHANGED uplink \/ uplink' = [uplink EXCEPT ![c] = Append(@, f)]
    BY <1>3 DEF Transmit
  <2>2. CASE uplink' = [uplink EXCEPT ![c] = Append(@, f)]
    <3>1. /\ uplink'[c] = Append(uplink[c], f)
          /\ \A d \in Clients : d # c => uplink'[d] = uplink[d]
      BY <2>2 DEF WiresGenuine
    <3>2. QED
      BY <1>1, <1>3, <3>1 DEF WireStep
  <2>3. QED
    BY <1>2, <2>1, <2>2
<1>4. QED
  BY <1>2, <1>3

\* and sessions and keys after such steps.
LEMMA SessionsStep ==
    ASSUME SessionsKept, KeyStep,
           \A c \in Clients : knownUsers'[c] \ {c} \subseteq activeSessions'[c]
    PROVE  SessionsKept'
<1> SUFFICES ASSUME NEW c \in Clients, ~ LoggedIn(c)', NEW p \in Pairs, c \in p
             PROVE  sessionKey'[c][p] = NoSecret /\ pendingKey'[c][p] = NoKey
  BY DEF SessionsKept
<1>1. CASE LoggedIn(c)
  BY <1>1 DEF KeyStep, Dropped
<1>2. CASE ~ LoggedIn(c)
  BY <1>2 DEF KeyStep, Dropped, Kept, SessionsKept
<1>3. QED
  BY <1>1, <1>2

\* Who has been met stays met.
LEMMA KnownStill ==
    ASSUME ACTypeOK, SessionsKept,
           \/ UNCHANGED <<activeSessions, knownUsers>>
           \/ \E c \in Clients, u \in Users : u # c /\ EnsureKnown(c, u)
    PROVE  /\ \A c \in Clients : knownUsers'[c] \ {c} \subseteq activeSessions'[c]
           /\ \A c \in Clients : LoggedIn(c)' <=> LoggedIn(c)
<1>1. CASE UNCHANGED <<activeSessions, knownUsers>>
  BY <1>1 DEF SessionsKept, LoggedIn, IsActive
<1>2. ASSUME NEW c \in Clients, NEW u \in Users, u # c, EnsureKnown(c, u)
      PROVE  \A d \in Clients : knownUsers'[d] \ {d} \subseteq activeSessions'[d]
  <2>1. activeSessions \in [Clients -> SUBSET Users] /\ knownUsers \in [Clients -> SUBSET Users]
    BY DEF ACTypeOK
  <2>2. CASE UNCHANGED <<activeSessions, knownUsers>>
    BY <2>2 DEF SessionsKept
  <2>3. CASE /\ activeSessions' = [activeSessions EXCEPT ![c] = @ \union {u}]
             /\ knownUsers' = [knownUsers EXCEPT ![c] = @ \union {u}]
    BY <2>1, <2>3 DEF SessionsKept
  <2>4. QED
    BY <1>2, <2>2, <2>3 DEF EnsureKnown, RegisterUser
<1>3. QED
  BY <1>1, <1>2, MeetsOthers

\* Nothing is accepted,
LEMMA AcceptedStill ==
    ASSUME ACTypeOK, AcceptedMade, UNCHANGED <<accepted, msgsMade>>,
           UNCHANGED keysMade \/ \E c \in Clients : GenerateKeypair(c)
    PROVE  AcceptedMade'
<1>1. \A d \in Clients : MadeKeys(d) \subseteq MadeKeys(d)'
  BY MadeGrow DEF MadeKeys, ACTypeOK
<1> SUFFICES ASSUME NEW c \in Clients, NEW r \in accepted[c]
             PROVE  \E k \in MadeKeys(r.from)', h \in MadeKeys(r.to)' : r.key = DeriveKey(k, h)
  BY DEF AcceptedMade
<1>2. r.from \in Clients /\ r.to \in Clients
  BY ClientsAreUsers DEF ACTypeOK, Receipts
<1>3. QED
  BY <1>1, <1>2 DEF AcceptedMade

\* or a message that is numbered and sealed.
LEMMA AcceptedOne ==
    ASSUME ACTypeOK, KeysOwned, AcceptedMade, NEW c \in Clients, NEW t \in Others(c),
           AcceptMessage(c, c, t), sessionKey[c][PairKey(c, t)] # NoSecret
    PROVE  AcceptedMade'
<1> DEFINE n == Receipt(OutgoingFrame(c, c, t))
<1>1. /\ n.from = c /\ n.to = t /\ n.nonce = <<c, msgsMade[c] + 1>>
      /\ n.key = sessionKey[c][PairKey(c, t)]
  BY DEF Receipt, OutgoingFrame, MessageFrame
<1>2. /\ accepted' = [accepted EXCEPT ![c] = @ \union {n}]
      /\ msgsMade' = [msgsMade EXCEPT ![c] = @ + 1]
      /\ UNCHANGED keysMade
  BY DEF AcceptMessage
<1>3. PairKey(c, t) \in Pairs /\ t \in Clients
  BY UsersPair, ClientsAreUsers DEF Others
<1>4. SecretOf(c, PairKey(c, t))
  BY <1>3 DEF KeysOwned
<1>5. \E k \in MadeKeys(c), h \in MadeKeys(t) : n.key = DeriveKey(k, h)
  <2>1. PICK d \in Others(c) : /\ PairKey(c, t) = PairKey(c, d)
                               /\ \E k \in MadeKeys(c), h \in MadeKeys(d) :
                                      sessionKey[c][PairKey(c, t)] = DeriveKey(k, h)
    BY <1>4 DEF SecretOf
  <2>2. d = t
    BY <2>1, PairsApart DEF Others
  <2>3. QED
    BY <1>1, <2>1, <2>2
<1> HIDE DEF n
<1>6. \A d \in Clients : MadeKeys(d)' = MadeKeys(d)
  BY <1>2 DEF MadeKeys
<1>7. msgsMade \in [Clients -> Nat] /\ accepted \in [Clients -> SUBSET Receipts]
  BY BoundsAssumption DEF ACTypeOK
<1> SUFFICES ASSUME NEW d \in Clients, NEW r \in accepted'[d]
             PROVE  /\ r.from = d /\ r.nonce[1] = d /\ r.nonce[2] \in 1 .. msgsMade'[d]
                    /\ \E k \in MadeKeys(r.from)', h \in MadeKeys(r.to)' :
                           r.key = DeriveKey(k, h)
  BY DEF AcceptedMade
<1>8. msgsMade'[d] = IF d = c THEN msgsMade[d] + 1 ELSE msgsMade[d]
  BY <1>2, <1>7
<1>9. CASE r = n /\ d = c
  <2>1. MadeKeys(c)' = MadeKeys(c) /\ MadeKeys(t)' = MadeKeys(t)
    BY <1>3, <1>6
  <2>2. n.nonce[1] = c /\ n.nonce[2] \in 1 .. msgsMade'[d]
    BY <1>1, <1>7, <1>8, <1>9
  <2>3. QED
    BY <1>1, <1>5, <1>9, <2>1, <2>2
<1>10. CASE r \in accepted[d]
  <2>1. r.from \in Clients /\ r.to \in Clients
    BY <1>7, <1>10, ClientsAreUsers DEF Receipts
  <2>2. /\ r.from = d /\ r.nonce[1] = d /\ r.nonce[2] \in 1 .. msgsMade[d]
        /\ \E k \in MadeKeys(r.from), h \in MadeKeys(r.to) : r.key = DeriveKey(k, h)
    BY <1>10 DEF AcceptedMade
  <2>3. r.nonce[2] \in 1 .. msgsMade'[d]
    BY <1>7, <1>8, <2>2
  <2>4. QED
    BY <1>6, <2>1, <2>2, <2>3
<1>11. QED
  BY <1>2, <1>7, <1>9, <1>10

\* What was past is past.
LEMMA PastStep ==
    ASSUME ACTypeOK, AcceptedMade, WiresGenuine, WireStep, KeyStep, clock' \in Nat,
           NEW c \in Clients, NEW m \in Genuine, m.type = "MESSAGE", m.to = c, Past(c, m)
    PROVE  Past(c, m)'
<1> DEFINE p == PairKey(m.from, m.to)
<1>1. p \in Pairs /\ c \in p
  BY GenuineParts DEF PairKey
<1>2. \A f \in InTransit' : CarriesKeyOf(f, m) => f \in InTransit
  BY CarriersStay
<1>3. Kept(c, p) \/ Dropped(c, p) \/ Opened(c, p)
  BY <1>1 DEF KeyStep
<1>4. clock <= clock'
  BY DEF WireStep
<1>5. QED
  BY <1>2, <1>3, <1>4, PastStays

\* What has come to the processes, when some take a frame and some log out.
LEMMA BackStep ==
    ASSUME ACTypeOK, WiresGenuine, AcceptedMade, QueuedRelayed, NothingComesBack,
           SessionsKept', WireStep, KeyStep, clock' \in Nat,
           \A c \in Clients : LoggedIn(c)' => c \in connected',
           \A c \in Clients :
               \/ incoming'[c] = incoming[c] /\ seenIds'[c] = seenIds[c]
                  /\ delivered'[c] = delivered[c]
               \/ ~ LoggedIn(c)'
               \/ /\ incoming[c] # << >> /\ incoming'[c] = Tail(incoming[c])
                  /\ \A h : h = Head(incoming[c]) /\ h.type = "MESSAGE" => Past(c, h)'
                  /\ \A i \in DOMAIN seenIds'[c] :
                         \/ seenIds'[c][i] \in Range(seenIds[c])
                         \/ /\ Head(incoming[c]).type = "MESSAGE"
                            /\ seenIds'[c][i] = Head(incoming[c]).nonce
                  /\ Shows(c)
    PROVE  NothingComesBack'
<1> SUFFICES ASSUME NEW c \in Clients, NEW m \in relayed, m.to = c
             PROVE  StaysPast(c, m)'
  BY DEF NothingComesBack, WireStep
<1> DEFINE p == PairKey(m.from, m.to)
<1>1. /\ m \in Genuine /\ m.type = "MESSAGE" /\ p \in Pairs /\ c \in p
      /\ m.key # NoSecret /\ NoKey \notin m.key
  <2>1. m \in Genuine /\ m.type = "MESSAGE"
    BY DEF WiresGenuine, QueuedRelayed
  <2>2. m.key # NoSecret /\ NoKey \notin m.key
    BY <2>1, MessageMade DEF ACTypeOK
  <2>3. p \in Pairs /\ c \in p
    BY <2>1, GenuineParts DEF PairKey
  <2>4. QED
    BY <2>1, <2>2, <2>3
<1>2. StaysPast(c, m)
  BY DEF NothingComesBack
<1>3. Past(c, m) => Past(c, m)'
  BY <1>1, PastStep
<1>4. CASE ~ LoggedIn(c)'
  <2>1. sessionKey'[c][p] = NoSecret /\ pendingKey'[c][p] = NoKey
    BY <1>1, <1>4 DEF SessionsKept
  <2>2. Past(c, m)'
    BY <1>1, <2>1 DEF Past, NeverOpens
  <2>3. QED
    BY <2>2 DEF StaysPast
<1>5. CASE incoming'[c] = incoming[c] /\ seenIds'[c] = seenIds[c]
           /\ delivered'[c] = delivered[c]
  BY <1>2, <1>3, <1>5, BackSame
<1>6. CASE /\ incoming[c] # << >> /\ incoming'[c] = Tail(incoming[c])
           /\ \A h : h = Head(incoming[c]) /\ h.type = "MESSAGE" => Past(c, h)'
           /\ \A i \in DOMAIN seenIds'[c] :
                  \/ seenIds'[c][i] \in Range(seenIds[c])
                  \/ /\ Head(incoming[c]).type = "MESSAGE"
                     /\ seenIds'[c][i] = Head(incoming[c]).nonce
           /\ Shows(c)
  <2>1. PICK h : h = Head(incoming[c])
    OBVIOUS
  <2>2. h.type = "MESSAGE" => Past(c, h)'
    BY <1>6, <2>1
  <2>3. \A i \in DOMAIN seenIds'[c] :
           \/ seenIds'[c][i] \in Range(seenIds[c])
           \/ h.type = "MESSAGE" /\ seenIds'[c][i] = h.nonce
    BY <1>6, <2>1
  <2>4. \/ delivered'[c] = delivered[c]
        \/ h.type = "MESSAGE" /\ delivered'[c] = Append(delivered[c], Receipt(h))
    BY <1>6, <2>1 DEF Shows
  <2>5. QED
    BY <1>2, <1>3, <1>6, <2>1, <2>2, <2>3, <2>4, BackTaken
<1>7. QED
  BY <1>4, <1>5, <1>6

\* What a step does to what has come to a process: it shows and remembers nothing, and
\* loses frames only with a connection; or it takes the first frame.
Flow(c) ==
    \/ /\ seenIds'[c] = seenIds[c] /\ delivered'[c] = delivered[c]
       /\ incoming'[c] = incoming[c] \/ ~ LoggedIn(c)' \/ losses' # 0
    \/ /\ incoming[c] # << >> /\ incoming'[c] = Tail(incoming[c])
       /\ losses = 0 =>
              \A h : h = Head(incoming[c]) /\ h.type = "MESSAGE" => Past(c, h)'
       /\ \A i \in DOMAIN seenIds'[c] :
              \/ seenIds'[c][i] \in Range(seenIds[c])
              \/ /\ Head(incoming[c]).type = "MESSAGE"
                 /\ seenIds'[c][i] = Head(incoming[c]).nonce
       /\ Shows(c)
       /\ delivered'[c] # delivered[c] => ~ Past(c, Head(incoming[c]))

\* A step of a process keeps the order.
LEMMA OrderStep ==
    ASSUME IInv, IInv', OrderInv, WireStep, KeyStep, AcceptedMade', PendingOnlyEstablishing',
           \A c \in Clients : knownUsers'[c] \ {c} \subseteq activeSessions'[c],
           losses' = 0 => losses = 0, dups' = 0 => dups = 0,
           losses' = 0 => \A c \in Clients : LoggedIn(c)' => c \in connected',
           \A c \in Clients : Flow(c)
    PROVE  OrderInv'
<1>1. /\ ACTypeOK /\ WiresGenuine /\ clock' \in Nat
      /\ AcceptedMade /\ UplinkInOrder /\ QueuedRelayed /\ OffersFirst /\ SessionsKept
  BY BoundsAssumption DEF IInv, WireInv, TypeOK, ACTypeOK, KETypeOK, OrderInv
<1>2. \A c \in Clients : Shows(c)
  BY DEF Flow, Shows
<1>3. SessionsKept'
  BY <1>1, SessionsStep
<1>4. UplinkInOrder'
  BY <1>1, SentInOrder
<1>5. OffersFirst'
  BY <1>1, OffersStep
<1>6. ASSUME NEW c \in Clients, NEW i \in DOMAIN seenIds'[c]
      PROVE  \E m \in relayed : seenIds'[c][i] = m.nonce
  <2>1. CASE seenIds'[c][i] \in Range(seenIds[c])
    BY <1>1, <2>1 DEF QueuedRelayed, Range
  <2>2. CASE /\ incoming[c] # << >> /\ Head(incoming[c]).type = "MESSAGE"
             /\ seenIds'[c][i] = Head(incoming[c]).nonce
    <3>1. incoming[c] \in Seq(Genuine)
      BY <1>1 DEF WiresGenuine
    <3>2. Head(incoming[c]) \in Range(incoming[c])
      BY <2>2, <3>1, RangeTail
    <3>3. QED
      BY <1>1, <2>2, <3>2 DEF QueuedRelayed
  <2>3. CASE seenIds'[c] = seenIds[c]
    BY <1>1, <2>3 DEF QueuedRelayed
  <2>4. QED
    BY <2>1, <2>2, <2>3 DEF Flow
<1>7. QueuedRelayed'
  BY <1>1, <1>2, <1>6, QueuedStep
<1>8. ASSUME losses' = 0
      PROVE  NothingComesBack'
  <2>1. losses = 0 /\ NothingComesBack
    BY <1>8 DEF OrderInv
  <2>2. ASSUME NEW c \in Clients
        PROVE  \/ incoming'[c] = incoming[c] /\ seenIds'[c] = seenIds[c]
                  /\ delivered'[c] = delivered[c]
               \/ ~ LoggedIn(c)'
               \/ /\ incoming[c] # << >> /\ incoming'[c] = Tail(incoming[c])
                  /\ \A h : h = Head(incoming[c]) /\ h.type = "MESSAGE" => Past(c, h)'
                  /\ \A i \in DOMAIN seenIds'[c] :
                         \/ seenIds'[c][i] \in Range(seenIds[c])
                         \/ /\ Head(incoming[c]).type = "MESSAGE"
                            /\ seenIds'[c][i] = Head(incoming[c]).nonce
                  /\ Shows(c)
    BY <1>8, <2>1 DEF Flow
  <2>3. \A c \in Clients : LoggedIn(c)' => c \in connected'
    BY <1>8
  <2>4. QED
    BY <1>1, <1>3, <2>1, <2>2, <2>3, BackStep
<1>9. ASSUME dups' = 0
      PROVE  QueueInOrder'
  BY <1>1, <1>2, <1>9, QueueStep DEF OrderInv
<1>10. ASSUME losses' = 0 \/ dups' = 0
       PROVE  DeliveredInOrder'
  <2>1. DeliveredInOrder
    BY <1>10 DEF OrderInv
  <2>2. NothingComesBack \/ QueueInOrder
    BY <1>10 DEF OrderInv
  <2>3. \A c \in Clients : delivered'[c] # delivered[c] => ~ Past(c, Head(incoming[c]))
    BY DEF Flow
  <2>4. QED
    BY <1>1, <1>2, <2>1, <2>2, <2>3, ShownInOrder
<1>11. QED
  BY <1>3, <1>4, <1>5, <1>7, <1>8, <1>9, <1>10 DEF OrderInv

-----------------------------------------------------------------------------
(***************************************************************************)
(* Commands.                                                               *)
(***************************************************************************)

\* What holds before a step.
LEMMA OrderParts ==
    ASSUME IInv, OrderInv
    PROVE  /\ ACTypeOK /\ KETypeOK /\ WiresGenuine /\ KeysOwned /\ KeyIffActive
           /\ clock \in Nat
           /\ activeSessions \in [Clients -> SUBSET Users]
           /\ knownUsers \in [Clients -> SUBSET Users]
           /\ PendingOnlyEstablishing /\ SessionsKept /\ AcceptedMade
<1>1. ACTypeOK /\ WiresGenuine /\ KeysOwned /\ KeyIffActive
  BY DEF IInv, WireInv, TypeOK
<1>2. clock \in 0 .. MaxClock
  BY <1>1 DEF ACTypeOK, KETypeOK
<1>3. QED
  BY <1>1, <1>2, BoundsAssumption DEF ACTypeOK, OrderInv

\* A step that takes nothing from the queues and may send a frame.
LEMMA OrderQuiet ==
    ASSUME IInv, IInv', OrderInv,
           UNCHANGED <<incoming, relayed, seenIds, delivered, losses, dups>>,
           clock <= clock', connected \subseteq connected',
           \A c \in Clients : LoggedIn(c)' => LoggedIn(c) \/ c \in connected',
           \A c \in Clients : knownUsers'[c] \ {c} \subseteq activeSessions'[c],
           KeyStep, AcceptedMade', PendingOnlyEstablishing',
           \/ UNCHANGED uplink
           \/ \E c \in Clients : \E f : Sendable(c, f) /\ Transmit(c, f)
    PROVE  OrderInv'
<1>1. WireStep
  <2>1. WiresGenuine
    BY OrderParts
  <2>2. \A c \in Clients : Cut(incoming'[c], incoming[c])
    BY <2>1, CutSame DEF WiresGenuine
  <2>3. QED
    BY <2>1, <2>2, WiresStill
<1>2. \A c \in Clients : Flow(c)
  BY DEF Flow
<1>3. losses' = 0 => \A c \in Clients : LoggedIn(c)' => c \in connected'
  BY DEF OrderInv, NothingComesBack
<1>4. QED
  BY <1>1, <1>2, <1>3, OrderStep

\* /user opens a session and a connection.
LEMMA OrderUser ==
    ASSUME IInv, IInv', OrderInv, NEW c \in Clients, HandleUser(c)
    PROVE  OrderInv'
<1>1. /\ RegisterUser(c, c) /\ connected' = connected \union {c}
      /\ UNCHANGED <<clock, keVars, keysMade, msgsMade, accepted, delivered, seenIds,
                     uplink, incoming, relayed, losses, dups>>
  BY DEF HandleUser, Register, cliVars
<1>2. /\ activeSessions \in [Clients -> SUBSET Users] /\ clock \in Nat
      /\ knownUsers \in [Clients -> SUBSET Users] /\ ACTypeOK
  BY OrderParts
<1>3. \A d \in Clients : /\ LoggedIn(d)' <=> LoggedIn(d) \/ d = c
                         /\ knownUsers'[d] \ {d} \subseteq activeSessions'[d]
  BY <1>1, <1>2 DEF RegisterUser, LoggedIn, IsActive, OrderInv, SessionsKept
<1>4. KeyStep
  <2>1. UNCHANGED <<sessionKey, seenNonces, pendingKey>>
    BY <1>1 DEF keVars
  <2>2. \A d \in Clients : LoggedIn(d) => LoggedIn(d)'
    BY <1>3
  <2>3. QED
    BY <2>1, <2>2, KeysStill
<1>5. AcceptedMade'
  BY <1>1, <1>2, AcceptedStill DEF OrderInv
<1>6. PendingOnlyEstablishing'
  BY <1>1 DEF keVars, PendingOnlyEstablishing, OrderInv
<1>7. clock <= clock'
  BY <1>1, <1>2
<1>8. QED
  BY <1>1, <1>3, <1>4, <1>5, <1>6, <1>7, OrderQuiet

\* /logout drops the keys of every pair of the user.
LEMMA OrderLogout ==
    ASSUME IInv, IInv', OrderInv, NEW c \in Clients, HandleLogout(c)
    PROVE  OrderInv'
<1>1. /\ ACTypeOK /\ KETypeOK /\ WiresGenuine /\ clock \in Nat /\ KeyIffActive
      /\ PendingOnlyEstablishing /\ SessionsKept /\ AcceptedMade
  BY OrderParts
<1>2. /\ Disconnect(c, c) /\ connected' = connected \ {c}
      /\ UNCHANGED <<clock, uplink, relayed, seenIds, delivered, accepted, msgsMade,
                     keysMade, knownUsers, losses, dups>>
      /\ \E n \in 0 .. Len(incoming[c]) :
             incoming' = [incoming EXCEPT ![c] = SubSeq(@, 1, n)]
  BY DEF HandleLogout, Disconnect
<1>3. \A d \in Clients, q \in Pairs :
         \/ /\ pendingKey'[d][q] = pendingKey[d][q]
            /\ sessionKey'[d][q] = sessionKey[d][q]
            /\ seenNonces'[d][q] = seenNonces[d][q] /\ chan'[d][q] = chan[d][q]
            /\ d = c /\ c \in q => chan[d][q] = "NONE"
         \/ /\ pendingKey'[d][q] = NoKey /\ sessionKey'[d][q] = NoSecret
            /\ chan'[d][q] = "INVALID"
  BY <1>1, <1>2 DEF KETypeOK, Disconnect, InvalidateUserChannels, Without, Invalidated
<1>4. \A d \in Clients : LoggedIn(d)' <=> LoggedIn(d) /\ d # c
  BY <1>1, <1>2 DEF Disconnect, LoggedIn, IsActive, ACTypeOK
<1>5. KeyStep
  <2>1. \A d \in Clients, q \in Pairs :
           \/ Kept(d, q) /\ pendingKey'[d][q] = pendingKey[d][q]
           \/ Dropped(d, q)
    BY <1>3 DEF Kept, Dropped
  <2>2. \A q \in Pairs : c \in q => Dropped(c, q)
    BY <1>1, <1>3 DEF Dropped, KeyIffActive, PendingOnlyEstablishing
  <2>3. QED
    BY <1>4, <2>1, <2>2 DEF KeyStep
<1>6. AcceptedMade'
  BY <1>1, <1>2, AcceptedStill
<1>7. PendingOnlyEstablishing'
  BY <1>1, <1>3 DEF PendingOnlyEstablishing
<1>8. \A d \in Clients : knownUsers'[d] \ {d} \subseteq activeSessions'[d]
  BY <1>1, <1>2 DEF SessionsKept, Disconnect, ACTypeOK
<1>9. \A d \in Clients : /\ Cut(incoming'[d], incoming[d]) /\ Cut(uplink'[d], uplink[d])
                         /\ d # c => incoming'[d] = incoming[d]
  <2>1. PICK n \in 0 .. Len(incoming[c]) :
                incoming' = [incoming EXCEPT ![c] = SubSeq(@, 1, n)]
    BY <1>2
  <2>2. \A d \in Clients : incoming'[d] = IF d = c THEN SubSeq(incoming[c], 1, n)
                                                   ELSE incoming[d]
    BY <1>1, <2>1 DEF WiresGenuine
  <2>3. Cut(SubSeq(incoming[c], 1, n), incoming[c])
    <3>1. incoming[c] \in Seq(Genuine)
      BY <1>1 DEF WiresGenuine
    <3>2. Cut(SubSeq(incoming[c], 0 + 1, n), incoming[c])
      BY <3>1, CutMiddle
    <3>3. QED
      BY <3>2
  <2>4. \A d \in Clients : Cut(incoming[d], incoming[d]) /\ Cut(uplink[d], uplink[d])
    BY <1>1, CutSame DEF WiresGenuine
  <2>5. QED
    BY <1>2, <2>2, <2>3, <2>4
<1>10. WireStep
  BY <1>1, <1>2, <1>9 DEF WireStep
<1>11. \A d \in Clients : Flow(d)
  BY <1>2, <1>4, <1>9 DEF Flow
<1>12. losses' = 0 => \A d \in Clients : LoggedIn(d)' => d \in connected'
  BY <1>2, <1>4 DEF OrderInv, NothingComesBack
<1>13. QED
  BY <1>2, <1>5, <1>6, <1>7, <1>8, <1>10, <1>11, <1>12, OrderStep

\* A handshake started and offered: the key that goes out is new.
LEMMA OrderOffered ==
    ASSUME IInv, IInv', OrderInv, NEW c \in Clients, NEW t \in Others(c),
           LoggedIn(c), \A d \in Clients : LoggedIn(d)' <=> LoggedIn(d),
           \A d \in Clients : knownUsers'[d] \ {d} \subseteq activeSessions'[d],
           StartHandshake(c, PairKey(c, t)), OfferChannel(c, t),
           chan[c][PairKey(c, t)] \notin Live,
           UNCHANGED <<clock, sessionKey, seenNonces, accepted, msgsMade, delivered,
                       seenIds, incoming, connected, relayed, losses, dups>>
    PROVE  OrderInv'
<1>a. PICK p, k : p = PairKey(c, t) /\ k = FreshKey(c)
  OBVIOUS
<1>1. ACTypeOK /\ KETypeOK /\ clock \in Nat /\ PendingOnlyEstablishing /\ AcceptedMade
  BY OrderParts
<1>2. p \in Pairs
  BY <1>a, UsersPair, ClientsAreUsers DEF Others
<1>3. /\ GenerateKeypair(c) /\ pendingKey' = [pendingKey EXCEPT ![c][p] = k]
      /\ Transmit(c, OfferFrame(c, c, t))
  BY <1>a DEF OfferChannel, SetPendingKey
<1>4. \A d \in Clients, q \in Pairs :
         pendingKey'[d][q] = IF d = c /\ q = p THEN k ELSE pendingKey[d][q]
  BY <1>1, <1>3 DEF KETypeOK
<1>5. /\ \A d \in Clients, q \in Pairs : chan'[d][q] = chan[d][q] \/ chan'[d][q] = "ESTABLISHING"
      /\ chan'[c][p] = "ESTABLISHING"
  <2>1. chan' = [chan EXCEPT ![c][p] = "ESTABLISHING"]
    BY <1>a DEF StartHandshake
  <2>2. QED
    BY <1>1, <1>2, <2>1 DEF KETypeOK
<1>6. KeyStep
  BY <1>a, <1>4 DEF KeyStep, Kept
<1>7. AcceptedMade'
  BY <1>1, <1>3, AcceptedStill
<1>8. PendingOnlyEstablishing'
  BY <1>1, <1>4, <1>5 DEF PendingOnlyEstablishing
<1>9. Sendable(c, OfferFrame(c, c, t))
  BY DEF Sendable, OfferFrame, HandshakeFrame
<1>10. clock <= clock'
  BY <1>1
<1>11. QED
  BY <1>3, <1>6, <1>7, <1>8, <1>9, <1>10, OrderQuiet

\* A message accepted: its number is new, and it goes out behind those before it.
LEMMA OrderAccepted ==
    ASSUME IInv, IInv', OrderInv, NEW c \in Clients, NEW t \in Others(c),
           \A d \in Clients : LoggedIn(d)' <=> LoggedIn(d),
           \A d \in Clients : knownUsers'[d] \ {d} \subseteq activeSessions'[d],
           chan[c][PairKey(c, t)] = "ACTIVE",
           AcceptMessage(c, c, t), Transmit(c, OutgoingFrame(c, c, t)),
           UNCHANGED <<clock, seenIds, incoming, connected, relayed, losses, dups>>
    PROVE  OrderInv'
<1>1. ACTypeOK /\ clock \in Nat /\ PendingOnlyEstablishing /\ AcceptedMade /\ KeysOwned
      /\ KeyIffActive
  BY OrderParts
<1>2. PairKey(c, t) \in Pairs
  BY UsersPair, ClientsAreUsers DEF Others
<1>3. sessionKey[c][PairKey(c, t)] # NoSecret
  BY <1>1, <1>2 DEF KeyIffActive
<1>4. AcceptedMade'
  BY <1>1, <1>3, AcceptedOne
<1>5. /\ UNCHANGED <<sessionKey, seenNonces, pendingKey, chan, delivered>>
      /\ clock <= clock'
  BY <1>1 DEF AcceptMessage, keVars
<1>6. KeyStep
  BY <1>5, KeysStill
<1>7. PendingOnlyEstablishing'
  BY <1>1, <1>5 DEF PendingOnlyEstablishing
<1>8. Sendable(c, OutgoingFrame(c, c, t))
  <2>1. PICK f : f = OutgoingFrame(c, c, t)
    OBVIOUS
  <2>2. f.from = c /\ f.type = "MESSAGE" /\ f.at = clock /\ f.nonce = <<c, msgsMade[c] + 1>>
    BY <2>1 DEF OutgoingFrame, MessageFrame
  <2>3. QED
    BY <1>1, <2>1, <2>2 DEF Sendable
<1>9. QED
  BY <1>4, <1>5, <1>6, <1>7, <1>8, OrderQuiet

\* A step that sends nothing and makes no keys.
LEMMA OrderIdle ==
    ASSUME IInv, IInv', OrderInv,
           \A d \in Clients : LoggedIn(d)' <=> LoggedIn(d),
           \A d \in Clients : knownUsers'[d] \ {d} \subseteq activeSessions'[d],
           UNCHANGED <<sessionKey, seenNonces, pendingKey, keysMade, accepted, msgsMade,
                       delivered, seenIds, uplink, incoming, connected, relayed, losses,
                       dups>>,
           clock <= clock',
           \A d \in Clients, q \in Pairs :
               chan'[d][q] = chan[d][q] \/ chan'[d][q] = "ESTABLISHING"
    PROVE  OrderInv'
<1>1. ACTypeOK /\ PendingOnlyEstablishing /\ AcceptedMade
  BY OrderParts
<1>2. KeyStep
  BY KeysStill
<1>3. AcceptedMade'
  BY <1>1, AcceptedStill
<1>4. PendingOnlyEstablishing'
  BY <1>1 DEF PendingOnlyEstablishing
<1>5. QED
  BY <1>2, <1>3, <1>4, OrderQuiet

\* /chat offers a channel where there is none under way,
LEMMA OrderChat ==
    ASSUME IInv, IInv', OrderInv, NEW c \in Clients, NEW t \in Others(c), HandleChat(c, t)
    PROVE  OrderInv'
<1>1. ACTypeOK /\ KETypeOK /\ clock \in Nat /\ SessionsKept /\ t \in Users /\ t # c
  BY OrderParts DEF Others
<1>2. /\ LoggedIn(c) /\ EnsureKnown(c, t) /\ StartHandshake(c, PairKey(c, t))
      /\ UNCHANGED <<clock, sessionKey, seenNonces, accepted, msgsMade, delivered,
                     seenIds, incoming, connected, relayed, losses, dups>>
      /\ IF chan[c][PairKey(c, t)] \in Live
         THEN UNCHANGED <<pendingKey, keysMade, uplink>>
         ELSE OfferChannel(c, t)
  BY DEF HandleChat
<1>3. /\ \A d \in Clients : knownUsers'[d] \ {d} \subseteq activeSessions'[d]
      /\ \A d \in Clients : LoggedIn(d)' <=> LoggedIn(d)
  BY <1>1, <1>2, KnownStill
<1>4. CASE chan[c][PairKey(c, t)] \in Live
  <2>1. UNCHANGED chan
    BY <1>2, <1>4 DEF StartHandshake
  <2>2. clock <= clock'
    BY <1>1, <1>2
  <2>3. QED
    BY <1>2, <1>3, <1>4, <2>1, <2>2, OrderIdle
<1>5. CASE chan[c][PairKey(c, t)] \notin Live
  BY <1>2, <1>3, <1>5, OrderOffered
<1>6. QED
  BY <1>4, <1>5

\* and a text is numbered and sent, or refused.
LEMMA OrderText ==
    ASSUME IInv, IInv', OrderInv, NEW c \in Clients, NEW t \in Others(c), LoggedIn(c),
           SendText(c, t), \A d \in Clients : LoggedIn(d)' <=> LoggedIn(d),
           \A d \in Clients : knownUsers'[d] \ {d} \subseteq activeSessions'[d]
    PROVE  OrderInv'
<1> DEFINE verdict == SendVerdict(activeSessions'[c], c, c, t)
<1>1. /\ clock \in Nat
      /\ UNCHANGED <<clock, seenIds, incoming, connected, relayed, losses, dups>>
  BY OrderParts DEF SendText, cliVars
<1>2. CASE verdict = "MESSAGE_ACCEPTED"
  <2>1. AcceptMessage(c, c, t) /\ Transmit(c, OutgoingFrame(c, c, t))
    BY <1>2 DEF SendText
  <2>2. chan[c][PairKey(c, t)] = "ACTIVE"
    BY <1>2 DEF SendVerdict
  <2>3. QED
    BY <1>1, <2>1, <2>2, OrderAccepted
<1>3. CASE verdict # "MESSAGE_ACCEPTED"
  <2>1. /\ RefuseMessage(c, c, t, verdict)
        /\ IF verdict = "403_SECURE_CHANNEL_REQUIRED" /\ chan[c][PairKey(c, t)] \notin Live
           THEN OfferChannel(c, t)
           ELSE UNCHANGED <<pendingKey, keysMade, uplink>>
    BY <1>3 DEF SendText
  <2> HIDE DEF verdict
  <2>2. UNCHANGED <<sessionKey, seenNonces, accepted, msgsMade, delivered>>
    BY <2>1 DEF RefuseMessage
  <2>3. CASE verdict = "403_SECURE_CHANNEL_REQUIRED" /\ chan[c][PairKey(c, t)] \notin Live
    <3>1. StartHandshake(c, PairKey(c, t)) /\ OfferChannel(c, t)
      BY <2>1, <2>3 DEF RefuseMessage
    <3>2. QED
      BY <1>1, <2>2, <2>3, <3>1, OrderOffered
  <2>4. CASE ~ (verdict = "403_SECURE_CHANNEL_REQUIRED" /\ chan[c][PairKey(c, t)] \notin Live)
    <3>1. UNCHANGED <<chan, pendingKey, keysMade, uplink>>
      BY <2>1, <2>4 DEF RefuseMessage, StartHandshake
    <3>2. clock <= clock'
      BY <1>1
    <3>3. QED
      BY <1>1, <2>2, <3>1, <3>2, OrderIdle
  <2>5. QED
    BY <2>3, <2>4
<1>4. QED
  BY <1>2, <1>3

\* A command of a user.
LEMMA OrderCommand ==
    ASSUME IInv, IInv', OrderInv, NEW c \in Clients, Commands(c)
    PROVE  OrderInv'
<1>1. ACTypeOK /\ SessionsKept /\ clock \in Nat /\ CommandLines
  BY OrderParts, Parts DEF IInv
<1>2. ASSUME NEW t \in Others(c), HandleMsg(c, t)
      PROVE  OrderInv'
  <2>1. LoggedIn(c) /\ EnsureKnown(c, t) /\ SendText(c, t) /\ t \in Users /\ t # c
    BY <1>2 DEF HandleMsg, Others
  <2>2. /\ \A d \in Clients : knownUsers'[d] \ {d} \subseteq activeSessions'[d]
        /\ \A d \in Clients : LoggedIn(d)' <=> LoggedIn(d)
    BY <1>1, <2>1, KnownStill
  <2>3. QED
    BY <2>1, <2>2, OrderText
<1>3. ASSUME UNCHANGED <<activeSessions, knownUsers>>
      PROVE  /\ \A d \in Clients : knownUsers'[d] \ {d} \subseteq activeSessions'[d]
             /\ \A d \in Clients : LoggedIn(d)' <=> LoggedIn(d)
  BY <1>1, <1>3, KnownStill
<1>4. ASSUME HandleFreeText(c)
      PROVE  OrderInv'
  <2>1. PICK t : t = chatTarget[c]
    OBVIOUS
  <2>2. /\ LoggedIn(c) /\ t \in Others(c) /\ SendText(c, t)
        /\ UNCHANGED <<activeSessions, knownUsers>>
    BY <1>1, <1>4, <2>1 DEF HandleFreeText, CommandLines, Others
  <2>3. QED
    BY <1>3, <2>2, OrderText
<1>5. CASE HandleLeave(c) \/ PollNotifications(c)
  <2>1. UNCHANGED <<clock, chan, sessionKey, seenNonces, pendingKey, keysMade, accepted,
                    msgsMade, delivered, activeSessions, knownUsers, seenIds, netVars>>
    BY <1>5 DEF HandleLeave, PollNotifications, PullNotifications, acVars, keVars, cliVars
  <2>2. clock <= clock'
    BY <1>1, <2>1
  <2>3. QED
    BY <1>3, <2>1, <2>2, OrderIdle DEF netVars
<1>6. QED
  BY <1>2, <1>4, <1>5, OrderUser, OrderLogout, OrderChat DEF Commands

-----------------------------------------------------------------------------
(***************************************************************************)
(* Frames drained.                                                         *)
(***************************************************************************)

\* What a process does with the first frame of its queue.
LEMMA OrderTaken ==
    ASSUME IInv, IInv', OrderInv, NEW c \in Clients, incoming[c] # << >>,
           incoming' = [incoming EXCEPT ![c] = Tail(@)],
           \A d \in Clients : LoggedIn(d)' <=> LoggedIn(d),
           \A d \in Clients : knownUsers'[d] \ {d} \subseteq activeSessions'[d],
           UNCHANGED <<clock, relayed, connected, losses, dups>>,
           \/ UNCHANGED uplink
           \/ \E f : Sendable(c, f) /\ Transmit(c, f),
           KeyStep, AcceptedMade', PendingOnlyEstablishing',
           incoming'[c] = Tail(incoming[c]) => Flow(c),
           \A d \in Clients : d # c => seenIds'[d] = seenIds[d] /\ delivered'[d] = delivered[d]
    PROVE  OrderInv'
<1>1. WiresGenuine /\ clock <= clock'
  BY OrderParts
<1>2. \A d \in Clients : incoming'[d] = IF d = c THEN Tail(incoming[c]) ELSE incoming[d]
  BY <1>1 DEF WiresGenuine
<1>3. \A d \in Clients : Cut(incoming'[d], incoming[d])
  BY <1>1, <1>2, CutTail, CutSame DEF WiresGenuine
<1>4. WireStep
  BY <1>1, <1>3, WiresStill
<1>5. \A d \in Clients : Flow(d)
  BY <1>2 DEF Flow
<1>6. losses' = 0 => \A d \in Clients : LoggedIn(d)' => d \in connected'
  BY DEF OrderInv, NothingComesBack
<1>7. QED
  BY <1>4, <1>5, <1>6, OrderStep

\* An establishment opens the pair of its frame, with a key that waited or a new one.
LEMMA EstablishedKeys ==
    ASSUME IInv, OrderInv, NEW c \in Clients, NEW f \in Range(incoming[c]),
           f.type = "HANDSHAKE_INIT", AnswerHandshake(c, f) \/ CompleteHandshake(c, f)
    PROVE  /\ KeyStep /\ PendingOnlyEstablishing' /\ LoggedIn(c)
           /\ UNCHANGED keysMade \/ GenerateKeypair(c)
           /\ UNCHANGED <<activeSessions, knownUsers, accepted, msgsMade, delivered>>
<1>a. PICK p, h : p = PairKey(f.from, f.to) /\ h = FreshKey(c)
  OBVIOUS
<1>1. /\ KETypeOK /\ KeyIffActive /\ PendingOnlyEstablishing
      /\ p \in Pairs /\ f.to = c
  BY <1>a, OrderParts, WaitingFor, GenuineParts
<1>2. PICK k \in {pendingKey[c][p], h} :
           /\ EstablishChannel(c, f, k)
           /\ (k = pendingKey[c][p] /\ k # NoKey) \/ (k = h /\ CanMakeKey(c))
  BY <1>a DEF AnswerHandshake, CompleteHandshake
<1>3. /\ HandshakeHeeded(c, f)
      /\ chan' = [chan EXCEPT ![c][p] = "ACTIVE"]
      /\ sessionKey' = [sessionKey EXCEPT ![c][p] = DeriveKey(k, f.pub)]
      /\ seenNonces' = [seenNonces EXCEPT ![c][p] = {}]
      /\ pendingKey' = [pendingKey EXCEPT ![c][p] = NoKey]
      /\ UNCHANGED <<activeSessions, knownUsers, accepted, msgsMade, delivered>>
  BY <1>a, <1>2
  DEF EstablishChannel, ActivateSecureChannel, PopPendingKey, SetPendingKey
<1>4. \A d \in Clients, q \in Pairs :
         IF d = c /\ q = p
         THEN /\ chan'[d][q] = "ACTIVE" /\ pendingKey'[d][q] = NoKey
              /\ sessionKey'[d][q] = DeriveKey(k, f.pub)
         ELSE /\ chan'[d][q] = chan[d][q] /\ pendingKey'[d][q] = pendingKey[d][q]
              /\ sessionKey'[d][q] = sessionKey[d][q]
              /\ seenNonces'[d][q] = seenNonces[d][q]
  BY <1>1, <1>3 DEF KETypeOK
<1>5. /\ LoggedIn(c) /\ sessionKey[c][p] = NoSecret
      /\ \A d \in Clients : LoggedIn(d)' <=> LoggedIn(d)
  BY <1>a, <1>1, <1>3 DEF HandshakeHeeded, KeyIffActive, LoggedIn, IsActive
<1>6. k # NoKey
  <2>1. CanMakeKey(c) => h \in LocalKeys
    BY <1>a, <1>1, FreshKeyLocal
  <2>2. QED
    BY <1>2, <2>1, KeysAssumption DEF KeyIds
<1>7. Opened(c, p)
  <2>1. pendingKey'[c][p] = NoKey /\ sessionKey'[c][p] = DeriveKey(k, f.pub)
    BY <1>1, <1>4
  <2>2. k \in {pendingKey[c][p], FreshKey(c)} \ {NoKey}
    BY <1>a, <1>2, <1>6
  <2>3. QED
    BY <1>a, <1>5, <2>1, <2>2 DEF Opened
<1>8. KeyStep
  <2>1. \A d \in Clients, q \in Pairs : d # c \/ q # p =>
           Kept(d, q) /\ pendingKey'[d][q] = pendingKey[d][q]
    BY <1>4 DEF Kept
  <2>2. QED
    BY <1>5, <1>7, <2>1 DEF KeyStep
<1>9. PendingOnlyEstablishing'
  BY <1>1, <1>4 DEF PendingOnlyEstablishing
<1>10. UNCHANGED keysMade \/ GenerateKeypair(c)
  BY DEF AnswerHandshake, CompleteHandshake
<1>11. QED
  BY <1>3, <1>5, <1>8, <1>9, <1>10

\* A handshake frame, answered, completed or ignored.
LEMMA OrderHandshake ==
    ASSUME IInv, IInv', OrderInv, NEW c \in Clients, DrainHandshake(c)
    PROVE  OrderInv'
<1>a. PICK f : f = Head(incoming[c])
  OBVIOUS
<1>1. /\ f.type = "HANDSHAKE_INIT" /\ incoming[c] # << >>
      /\ incoming' = [incoming EXCEPT ![c] = Tail(@)]
      /\ UNCHANGED <<clock, seenIds, connected, relayed, losses, dups>>
      /\ \/ AnswerHandshake(c, f) /\ Transmit(c, ReplyFrame(c, f))
         \/ CompleteHandshake(c, f) /\ UNCHANGED uplink
         \/ UNCHANGED <<acVars, uplink>>
  BY <1>a DEF DrainHandshake, TakeFrame
<1>2. /\ ACTypeOK /\ AcceptedMade /\ PendingOnlyEstablishing /\ SessionsKept
      /\ WiresGenuine /\ incoming[c] \in Seq(Genuine)
  BY OrderParts DEF WiresGenuine
<1>3. f \in Range(incoming[c]) /\ f \in Genuine /\ f.to = c
  BY <1>a, <1>1, <1>2, RangeTail, WaitingFor
<1>4. /\ KeyStep /\ PendingOnlyEstablishing'
      /\ UNCHANGED keysMade \/ GenerateKeypair(c)
      /\ UNCHANGED <<activeSessions, knownUsers, accepted, msgsMade, delivered>>
  <2>1. CASE AnswerHandshake(c, f) \/ CompleteHandshake(c, f)
    BY <1>1, <1>3, <2>1, EstablishedKeys
  <2>2. CASE UNCHANGED acVars
    <3>1. UNCHANGED <<sessionKey, seenNonces, pendingKey, chan, keysMade, activeSessions,
                      knownUsers, accepted, msgsMade, delivered>>
      BY <2>2 DEF acVars, keVars
    <3>2. \A d \in Clients : LoggedIn(d) => LoggedIn(d)'
      BY <3>1 DEF LoggedIn, IsActive
    <3>3. PendingOnlyEstablishing'
      BY <1>2, <3>1 DEF PendingOnlyEstablishing
    <3>4. KeyStep
      BY <3>1, <3>2, KeysStill
    <3>5. QED
      BY <3>1, <3>3, <3>4
  <2>3. QED
    BY <1>1, <2>1, <2>2
<1>5. AcceptedMade'
  BY <1>2, <1>4, AcceptedStill
<1>6. /\ \A d \in Clients : knownUsers'[d] \ {d} \subseteq activeSessions'[d]
      /\ \A d \in Clients : LoggedIn(d)' <=> LoggedIn(d)
  BY <1>2, <1>4, KnownStill
<1>7. UNCHANGED uplink \/ \E g : Sendable(c, g) /\ Transmit(c, g)
  <2>1. Sendable(c, ReplyFrame(c, f))
    BY <1>3 DEF Sendable, ReplyFrame, HandshakeFrame
  <2>2. QED
    BY <1>1, <2>1
<1>8. incoming'[c] = Tail(incoming[c]) => Flow(c)
  BY <1>a, <1>1, <1>4 DEF Flow, Shows, Range
<1>9. QED
  BY <1>1, <1>4, <1>5, <1>6, <1>7, <1>8, OrderTaken

\* A batch is lost only by a process that has lost its connection, or by a reply that
\* timed out, which counts as a loss.
LEMMA OrderLost ==
    ASSUME IInv, IInv', OrderInv, NEW c \in Clients, LoseBatch(c)
    PROVE  OrderInv'
<1>a. PICK f : f = Head(incoming[c])
  OBVIOUS
<1>1. /\ f.type = "HANDSHAKE_INIT" /\ incoming[c] # << >>
      /\ AnswerHandshake(c, f) /\ Transmit(c, ReplyFrame(c, f))
      /\ \E n \in 2 .. Len(incoming[c]) :
             incoming' = [incoming EXCEPT ![c] = SubSeq(@, n + 1, Len(@))]
      /\ (c \notin connected /\ losses' = losses) \/ losses' = losses + 1
      /\ UNCHANGED <<clock, seenIds, connected, relayed, dups>>
  BY <1>a DEF LoseBatch
<1>2. /\ ACTypeOK /\ AcceptedMade /\ SessionsKept /\ clock \in Nat
      /\ WiresGenuine /\ incoming[c] \in Seq(Genuine)
  BY OrderParts DEF WiresGenuine
<1>3. f \in Range(incoming[c]) /\ f \in Genuine /\ f.to = c
  BY <1>a, <1>1, <1>2, RangeTail, WaitingFor
<1>4. /\ KeyStep /\ PendingOnlyEstablishing' /\ LoggedIn(c)
      /\ UNCHANGED keysMade \/ GenerateKeypair(c)
      /\ UNCHANGED <<activeSessions, knownUsers, accepted, msgsMade, delivered>>
  BY <1>1, <1>3, EstablishedKeys
<1>5. AcceptedMade'
  BY <1>2, <1>4, AcceptedStill
<1>6. \A d \in Clients : knownUsers'[d] \ {d} \subseteq activeSessions'[d]
  BY <1>2, <1>4, KnownStill
<1>7. losses' # 0
  <2>1. losses \in 0 .. MaxLosses
    BY DEF IInv, WireInv, TypeOK
  <2>2. losses \in Nat
    BY <2>1, MessengerBounds
  <2>3. c \notin connected => losses # 0
    BY <1>4 DEF OrderInv, NothingComesBack
  <2>4. QED
    BY <1>1, <2>2, <2>3
<1>8. WireStep
  <2>1. PICK n \in 2 .. Len(incoming[c]) :
                incoming' = [incoming EXCEPT ![c] = SubSeq(@, n + 1, Len(@))]
    BY <1>1
  <2>2. \A d \in Clients : incoming'[d] =
           IF d = c THEN SubSeq(incoming[c], n + 1, Len(incoming[c])) ELSE incoming[d]
    BY <1>2, <2>1 DEF WiresGenuine
  <2>3. Len(incoming[c]) \in Nat
    BY <1>2, LenProperties
  <2>4. n \in Nat /\ Len(incoming[c]) \in 0 .. Len(incoming[c])
    BY <2>3
  <2>5. Cut(SubSeq(incoming[c], n + 1, Len(incoming[c])), incoming[c])
    BY <1>2, <2>4, CutMiddle
  <2>6. \A d \in Clients : Cut(incoming'[d], incoming[d])
    BY <1>2, <2>2, <2>5, CutSame DEF WiresGenuine
  <2>7. clock <= clock'
    BY <1>1, <1>2
  <2>8. Sendable(c, ReplyFrame(c, f))
    BY <1>3 DEF Sendable, ReplyFrame, HandshakeFrame
  <2>9. QED
    BY <1>1, <1>2, <2>6, <2>7, <2>8, WiresStill
<1>9. \A d \in Clients : Flow(d)
  BY <1>1, <1>4, <1>7 DEF Flow
<1>10. QED
  BY <1>1, <1>4, <1>5, <1>6, <1>7, <1>8, <1>9, OrderStep

\* No handshake under way carries a key of a message that is first in its queue.
LEMMA NoCarrier ==
    ASSUME IInv, OrderInv, NEW c \in Clients, incoming[c] # << >>,
           NEW m, m = Head(incoming[c]), m.type = "MESSAGE", NEW f \in InTransit
    PROVE  ~ CarriesKeyOf(f, m)
<1>1. WiresGenuine /\ OffersFirst /\ QueuedRelayed /\ incoming[c] \in Seq(Genuine)
  BY OrderParts DEF OrderInv, WiresGenuine
<1>2. 1 \in DOMAIN incoming[c] /\ m = incoming[c][1] /\ m \in Range(incoming[c])
  BY <1>1, CutTail, RangeTail
<1>3. m \in relayed /\ m.to = c
  BY <1>1, <1>2, WaitingFor DEF QueuedRelayed
<1>4. PICK d \in Clients : f \in Range(uplink[d]) \/ f \in Range(incoming[d])
  BY DEF InTransit
<1>5. CASE f \in Range(uplink[d])
  BY <1>1, <1>3, <1>5 DEF OffersFirst
<1>6. CASE f \in Range(incoming[d]) /\ CarriesKeyOf(f, m)
  <2>1. d = c
    BY <1>1, <1>3, <1>6, WaitingFor DEF CarriesKeyOf
  <2>2. PICK i \in DOMAIN incoming[c] : f = incoming[c][i]
    BY <1>6, <2>1 DEF Range
  <2>3. i < 1
    BY <1>1, <1>2, <1>6, <2>2 DEF OffersFirst
  <2>4. QED
    BY <1>1, <2>2, <2>3, Positions
<1>7. QED
  BY <1>4, <1>5, <1>6

\* The first message of a queue is past, or it is sealed with the secret of its pair
\* and the replay guard lets it through.
LEMMA PastOrFresh ==
    ASSUME IInv, OrderInv, NEW c \in Clients, incoming[c] # << >>,
           NEW m, m = Head(incoming[c]), m.type = "MESSAGE"
    PROVE  \/ Past(c, m)
           \/ /\ sessionKey[c][PairKey(m.from, m.to)] = m.key /\ m.key # NoSecret
              /\ PassesReplayGuard(c, m)
<1>a. PICK p : p = PairKey(m.from, m.to)
  OBVIOUS
<1>1. /\ KETypeOK /\ AcceptedMade /\ KeyIffActive /\ PendingOnlyEstablishing
      /\ WiresGenuine /\ QueuedRelayed /\ clock \in Nat
      /\ incoming[c] \in Seq(Genuine)
  BY OrderParts DEF OrderInv, WiresGenuine
<1>2. m \in Genuine /\ m \in relayed /\ p \in Pairs
  BY <1>a, <1>1, RangeTail, WaitingFor, GenuineParts DEF QueuedRelayed
<1>3. /\ m.at \in Nat /\ m.at <= clock /\ Tolerance \in Nat
      /\ m.key # NoSecret /\ NoKey \notin m.key
  BY <1>1, <1>2, MessageMade, BoundsAssumption DEF QueuedRelayed
<1>4. CASE clock - m.at > Tolerance
  BY <1>4 DEF Past
<1>5. CASE ~ clock - m.at > Tolerance /\ chan[c][p] # "ACTIVE"
  <2>1. sessionKey[c][p] # m.key
    BY <1>1, <1>2, <1>3, <1>5 DEF KeyIffActive
  <2>2. \A f \in InTransit : ~ CarriesKeyOf(f, m)
    BY NoCarrier
  <2>3. QED
    BY <1>a, <2>1, <2>2 DEF Past, NeverOpens
<1>6. CASE ~ clock - m.at > Tolerance /\ chan[c][p] = "ACTIVE"
  <2>1. pendingKey[c][p] = NoKey
    BY <1>1, <1>2, <1>6 DEF PendingOnlyEstablishing
  <2>2. CASE sessionKey[c][p] # m.key
    BY <1>a, <1>3, <2>1, <2>2 DEF Past, NeverOpens
  <2>3. CASE sessionKey[c][p] = m.key /\ m.nonce \in seenNonces[c][p]
    BY <1>a, <2>3 DEF Past
  <2>4. CASE sessionKey[c][p] = m.key /\ m.nonce \notin seenNonces[c][p]
    <3>1. Recent(m.at)
      BY <1>1, <1>3, <1>6 DEF Recent
    <3>2. PassesReplayGuard(c, m)
      BY <1>a, <1>6, <2>4, <3>1 DEF PassesReplayGuard, ReplayVerdict
    <3>3. QED
      BY <1>a, <1>3, <2>4, <3>2
  <2>5. QED
    BY <2>2, <2>3, <2>4
<1>7. QED
  BY <1>4, <1>5, <1>6

\* A message that opens under the secret of its pair and passes the guard is not past.
LEMMA FreshIsNotPast ==
    ASSUME NEW c \in Clients, NEW m, m.at \in Nat, clock \in Nat,
           PassesReplayGuard(c, m), Decrypts(c, m)
    PROVE  ~ Past(c, m)
<1>1. /\ Recent(m.at) /\ sessionKey[c][PairKey(m.from, m.to)] = m.key
      /\ m.nonce \notin seenNonces[c][PairKey(m.from, m.to)]
  BY DEF PassesReplayGuard, ReplayVerdict, Decrypts
<1>2. ~ NeverOpens(c, m)
  BY <1>1 DEF NeverOpens
<1>3. QED
  BY <1>1, <1>2, BoundsAssumption DEF Past, Recent

\* A duplicate is past, since it is remembered.
LEMMA OrderDuplicate ==
    ASSUME IInv, IInv', OrderInv, NEW c \in Clients, DrainDuplicate(c)
    PROVE  OrderInv'
<1>a. PICK m : m = Head(incoming[c])
  OBVIOUS
<1>1. /\ m.type = "MESSAGE" /\ incoming[c] # << >>
      /\ incoming' = [incoming EXCEPT ![c] = Tail(@)] /\ Contains(seenIds[c], m.nonce)
      /\ UNCHANGED <<clock, acVars, cliVars, uplink, connected, relayed, losses, dups>>
  BY <1>a DEF DrainDuplicate, TakeFrame
<1>2. UNCHANGED <<sessionKey, seenNonces, pendingKey, chan, keysMade, activeSessions,
                  knownUsers, accepted, msgsMade, delivered, seenIds>>
  BY <1>1 DEF acVars, keVars, cliVars
<1>3. /\ ACTypeOK /\ AcceptedMade /\ PendingOnlyEstablishing /\ SessionsKept /\ clock \in Nat
      /\ WiresGenuine /\ incoming[c] \in Seq(Genuine) /\ QueuedRelayed
  BY OrderParts DEF WiresGenuine, OrderInv
<1>4. m \in Genuine /\ m.to = c /\ m \in relayed
  BY <1>a, <1>1, <1>3, RangeTail, WaitingFor DEF QueuedRelayed
<1>5. KeyStep
  <2>1. \A d \in Clients : LoggedIn(d) => LoggedIn(d)'
    BY <1>2 DEF LoggedIn, IsActive
  <2>2. QED
    BY <1>2, <2>1, KeysStill
<1>6. AcceptedMade' /\ PendingOnlyEstablishing'
  <2>1. AcceptedMade'
    BY <1>2, <1>3, AcceptedStill
  <2>2. PendingOnlyEstablishing'
    BY <1>2, <1>3 DEF PendingOnlyEstablishing
  <2>3. QED
    BY <2>1, <2>2
<1>7. /\ \A d \in Clients : knownUsers'[d] \ {d} \subseteq activeSessions'[d]
      /\ \A d \in Clients : LoggedIn(d)' <=> LoggedIn(d)
  BY <1>2, <1>3, KnownStill
<1>8. losses = 0 => Past(c, m)'
  <2>1. losses = 0 => Past(c, m)
    <3>1. seenIds[c] \in Seq(LocalNonces)
      BY DEF IInv, WireInv, TypeOK
    <3>2. m.nonce \in Range(seenIds[c])
      BY <1>1, <3>1 DEF Contains, Range
    <3>3. QED
      BY <1>4, <3>2 DEF OrderInv, NothingComesBack, StaysPast
  <2>2. \A d \in Clients : incoming'[d] = IF d = c THEN Tail(incoming[c]) ELSE incoming[d]
    BY <1>1, <1>3 DEF WiresGenuine
  <2>3. \A d \in Clients : Cut(incoming'[d], incoming[d])
    BY <1>1, <1>3, <2>2, CutTail, CutSame DEF WiresGenuine
  <2>4. clock <= clock' /\ clock' \in Nat
    BY <1>1, <1>3
  <2>5. WireStep
    BY <1>1, <1>3, <2>3, <2>4, WiresStill
  <2>6. QED
    BY <1>1, <1>3, <1>4, <1>5, <2>1, <2>4, <2>5, PastStep
<1>9. incoming'[c] = Tail(incoming[c]) => Flow(c)
  BY <1>a, <1>1, <1>2, <1>8 DEF Flow, Shows, Range
<1>10. QED
  BY <1>1, <1>2, <1>5, <1>6, <1>7, <1>9, OrderTaken

\* What the window holds after a message was there before, or is its identifier.
LEMMA RememberedBefore ==
    ASSUME IInv, NEW c \in Clients, NEW id \in LocalNonces, Remember(c, id)
    PROVE  /\ \A i \in DOMAIN seenIds'[c] : seenIds'[c][i] \in Range(seenIds[c]) \union {id}
           /\ \A d \in Clients : d # c => seenIds'[d] = seenIds[d]
<1>a. PICK s, r : s = seenIds[c] /\ r = IF Len(s) < DedupWindow THEN s ELSE Tail(s)
  OBVIOUS
<1>1. seenIds \in [Clients -> Seq(LocalNonces)] /\ s \in Seq(LocalNonces)
  BY <1>a DEF IInv, WireInv, TypeOK
<1>2. seenIds' = [seenIds EXCEPT ![c] = Append(r, id)]
  BY <1>a DEF Remember
<1>3. r \in Seq(LocalNonces) /\ Range(r) \subseteq Range(s)
  <2>1. CASE Len(s) < DedupWindow
    BY <1>a, <1>1, <2>1
  <2>2. CASE ~ Len(s) < DedupWindow
    <3>1. s # << >>
      BY <2>2, MessengerBounds
    <3>2. r = Tail(s)
      BY <1>a, <2>2
    <3>3. QED
      BY <1>1, <3>1, <3>2, RangeTail, HeadTailProperties
  <2>3. QED
    BY <2>1, <2>2
<1>4. Range(Append(r, id)) \subseteq Range(s) \union {id}
  BY <1>3, RangeQueued
<1>5. \A i \in DOMAIN seenIds'[c] : seenIds'[c][i] \in Range(Append(r, id))
  BY <1>1, <1>2 DEF Range
<1>6. QED
  BY <1>a, <1>1, <1>2, <1>4, <1>5

\* A message shown, refused or not understood.
LEMMA OrderMessage ==
    ASSUME IInv, IInv', OrderInv, NEW c \in Clients, DrainMessage(c)
    PROVE  OrderInv'
<1>a. PICK m, p : m = Head(incoming[c]) /\ p = PairKey(m.from, m.to)
  OBVIOUS
<1>1. /\ m.type = "MESSAGE" /\ incoming[c] # << >>
      /\ incoming' = [incoming EXCEPT ![c] = Tail(@)]
      /\ Remember(c, m.nonce) /\ EnsureKnown(c, m.from)
      /\ UNCHANGED <<clock, uplink, connected, relayed, losses, dups>>
      /\ \/ DecryptMessage(c, m)
         \/ /\ ~ ({m.from, m.to} \subseteq activeSessions'[c] /\ PassesReplayGuard(c, m))
            /\ UNCHANGED <<keVars, keysMade, msgsMade, accepted, delivered>>
  BY <1>a DEF DrainMessage, TakeFrame
<1>2. /\ ACTypeOK /\ KETypeOK /\ AcceptedMade /\ PendingOnlyEstablishing /\ SessionsKept
      /\ clock \in Nat /\ activeSessions \in [Clients -> SUBSET Users]
      /\ WiresGenuine /\ incoming[c] \in Seq(Genuine) /\ QueuedRelayed
  BY OrderParts DEF WiresGenuine, OrderInv
<1>3. /\ m \in Genuine /\ m.to = c /\ m \in relayed /\ p \in Pairs /\ c \in p
      /\ m.from \in Users /\ m.from # c /\ m.nonce \in LocalNonces /\ m.at \in Nat
  <2>1. m \in Genuine /\ m.to = c /\ m \in relayed
    BY <1>a, <1>1, <1>2, RangeTail, WaitingFor DEF QueuedRelayed
  <2>2. QED
    BY <1>a, <1>1, <1>2, <2>1, GenuineParts, MessageMade DEF PairKey
<1>4. /\ UNCHANGED <<sessionKey, pendingKey, chan, keysMade, msgsMade, accepted>>
      /\ \/ UNCHANGED seenNonces
         \/ seenNonces' = [seenNonces EXCEPT ![c][p] = @ \union {m.nonce}]
  BY <1>a, <1>1 DEF DecryptMessage, RecordNonce, keVars
<1>5. /\ \A d \in Clients : knownUsers'[d] \ {d} \subseteq activeSessions'[d]
      /\ \A d \in Clients : LoggedIn(d)' <=> LoggedIn(d)
  BY <1>1, <1>2, <1>3, KnownStill
<1>6. KeyStep
  <2>1. \A d \in Clients, q \in Pairs : seenNonces[d][q] \subseteq seenNonces'[d][q]
    <3>1. seenNonces \in [Clients -> [Pairs -> SUBSET Nonces]]
      BY <1>2 DEF KETypeOK
    <3>2. CASE seenNonces' = [seenNonces EXCEPT ![c][p] = @ \union {m.nonce}]
      <4>1. \A d \in Clients, q \in Pairs : seenNonces'[d][q] =
               IF d = c /\ q = p THEN seenNonces[d][q] \union {m.nonce} ELSE seenNonces[d][q]
        BY <1>3, <3>1, <3>2
      <4>2. QED
        BY <4>1
    <3>3. QED
      BY <1>4, <3>2
  <2>2. QED
    BY <1>4, <1>5, <2>1 DEF KeyStep, Kept
<1>7. AcceptedMade'
  BY <1>2, <1>4, AcceptedStill
<1>8. PendingOnlyEstablishing'
  BY <1>2, <1>4 DEF PendingOnlyEstablishing
<1>9. Past(c, m)'
  <2>1. CASE Past(c, m)
    <3>1. \A d \in Clients : incoming'[d] = IF d = c THEN Tail(incoming[c]) ELSE incoming[d]
      BY <1>1, <1>2 DEF WiresGenuine
    <3>2. \A d \in Clients : Cut(incoming'[d], incoming[d])
      BY <1>1, <1>2, <3>1, CutTail, CutSame DEF WiresGenuine
    <3>3. clock <= clock' /\ clock' \in Nat
      BY <1>1, <1>2
    <3>4. WireStep
      BY <1>1, <1>2, <3>2, <3>3, WiresStill
    <3>5. QED
      BY <1>1, <1>2, <1>3, <1>6, <2>1, <3>3, <3>4, PastStep
  <2>2. CASE sessionKey[c][p] = m.key /\ m.key # NoSecret /\ PassesReplayGuard(c, m)
    <3>1. LoggedIn(c)
      BY <1>2, <1>3, <2>2 DEF SessionsKept
    <3>2. m.from \in knownUsers'[c]
      BY <1>1, <1>2, <1>3 DEF EnsureKnown, RegisterUser, ACTypeOK
    <3>3. {m.from, m.to} \subseteq activeSessions'[c]
      <4>1. LoggedIn(c)'
        BY <1>5, <3>1
      <4>2. QED
        BY <1>3, <1>5, <3>2, <4>1 DEF LoggedIn, IsActive
    <3>4. RecordNonce(c, p, m.nonce)
      BY <1>a, <1>1, <2>2, <3>3 DEF DecryptMessage
    <3>5. m.nonce \in seenNonces'[c][p] /\ sessionKey'[c][p] = m.key
      BY <1>2, <1>3, <1>4, <2>2, <3>4 DEF RecordNonce, KETypeOK
    <3>6. QED
      BY <1>a, <3>5 DEF Past
  <2>3. QED
    BY <1>a, <1>1, <2>1, <2>2, PastOrFresh
<1>10. /\ Shows(c) /\ (delivered'[c] # delivered[c] => ~ Past(c, m))
       /\ \A d \in Clients : d # c => delivered'[d] = delivered[d]
  <2>1. CASE UNCHANGED delivered
    BY <2>1 DEF Shows
  <2>2. CASE /\ PassesReplayGuard(c, m) /\ Decrypts(c, m)
             /\ delivered' = [delivered EXCEPT ![c] = Append(@, Receipt(m))]
    <3>1. ~ Past(c, m)
      BY <1>2, <1>3, <2>2, FreshIsNotPast
    <3>2. delivered \in [Clients -> Seq(Receipts)] /\ incoming'[c] = Tail(incoming[c])
      BY <1>1, <1>2 DEF ACTypeOK, WiresGenuine
    <3>3. delivered'[c] = Append(delivered[c], Receipt(m))
      BY <2>2, <3>2
    <3>4. \A d \in Clients : d # c => delivered'[d] = delivered[d]
      BY <2>2, <3>2
    <3>5. QED
      BY <1>a, <1>1, <3>1, <3>2, <3>3, <3>4 DEF Shows
  <2>3. QED
    BY <1>1, <2>1, <2>2 DEF DecryptMessage
<1>11. /\ \A i \in DOMAIN seenIds'[c] : seenIds'[c][i] \in Range(seenIds[c]) \union {m.nonce}
       /\ \A d \in Clients : d # c => seenIds'[d] = seenIds[d]
  BY <1>1, <1>3, RememberedBefore
<1>12. incoming'[c] = Tail(incoming[c]) => Flow(c)
  BY <1>a, <1>1, <1>9, <1>10, <1>11 DEF Flow
<1>13. QED
  BY <1>1, <1>5, <1>6, <1>7, <1>8, <1>10, <1>11, <1>12, OrderTaken

\* A frame drained.
LEMMA OrderDrain ==
    ASSUME IInv, IInv', OrderInv, NEW c \in Clients, Drain(c)
    PROVE  OrderInv'
BY OrderHandshake, OrderLost, OrderDuplicate, OrderMessage DEF Drain

-----------------------------------------------------------------------------
(***************************************************************************)
(* The relay, the transport and the clock.                                 *)
(***************************************************************************)

\* Frames lost, with their connection or for want of one.
LEMMA OrderCut ==
    ASSUME IInv, IInv', OrderInv, UNCHANGED <<clock, acVars, seenIds, relayed, dups>>,
           \A d \in Clients : Cut(incoming'[d], incoming[d]) /\ Cut(uplink'[d], uplink[d]),
           losses' = 0 => losses = 0 /\ UNCHANGED <<incoming, connected>>
    PROVE  OrderInv'
<1>1. UNCHANGED <<sessionKey, seenNonces, pendingKey, chan, keysMade, activeSessions,
                  knownUsers, accepted, msgsMade, delivered>>
  BY DEF acVars, keVars
<1>2. /\ ACTypeOK /\ AcceptedMade /\ PendingOnlyEstablishing /\ SessionsKept
      /\ clock <= clock'
  BY OrderParts
<1>3. /\ \A d \in Clients : knownUsers'[d] \ {d} \subseteq activeSessions'[d]
      /\ \A d \in Clients : LoggedIn(d)' <=> LoggedIn(d)
  BY <1>1, <1>2, KnownStill
<1>4. KeyStep
  BY <1>1, <1>3, KeysStill
<1>5. AcceptedMade'
  BY <1>1, <1>2, AcceptedStill
<1>6. PendingOnlyEstablishing'
  BY <1>1, <1>2 DEF PendingOnlyEstablishing
<1>7. WireStep
  BY <1>2 DEF WireStep
<1>8. \A d \in Clients : Flow(d)
  BY <1>1 DEF Flow
<1>9. losses' = 0 => \A d \in Clients : LoggedIn(d)' => d \in connected'
  BY <1>3 DEF OrderInv, NothingComesBack
<1>10. QED
  BY <1>3, <1>4, <1>5, <1>6, <1>7, <1>8, <1>9, OrderStep

\* A connection lost.
LEMMA OrderLinkLost ==
    ASSUME IInv, IInv', OrderInv, NEW c \in Clients, LinkLost(c)
    PROVE  OrderInv'
<1>1. /\ WiresGenuine /\ losses \in Nat
      /\ uplink[c] \in Seq(Genuine) /\ incoming[c] \in Seq(Genuine)
  <2>1. losses \in 0 .. MaxLosses
    BY DEF IInv, WireInv, TypeOK
  <2>2. losses \in Nat
    BY <2>1, MessengerBounds
  <2>3. QED
    BY <2>2, OrderParts DEF WiresGenuine
<1>2. /\ UNCHANGED <<clock, acVars, seenIds, relayed, dups>> /\ losses' = losses + 1
      /\ \E n \in 0 .. Len(incoming[c]) :
             incoming' = [incoming EXCEPT ![c] = SubSeq(@, 1, n)]
      /\ \E n \in 0 .. Len(uplink[c]) : uplink' = [uplink EXCEPT ![c] = SubSeq(@, 1, n)]
  BY DEF LinkLost, cliVars
<1>3. ASSUME NEW s \in Seq(Genuine), NEW n \in 0 .. Len(s)
      PROVE  Cut(SubSeq(s, 1, n), s)
  <2>1. Cut(SubSeq(s, 0 + 1, n), s)
    BY CutMiddle
  <2>2. QED
    BY <2>1
<1>4. \A d \in Clients : Cut(incoming'[d], incoming[d])
  <2>1. PICK n \in 0 .. Len(incoming[c]) :
                incoming' = [incoming EXCEPT ![c] = SubSeq(@, 1, n)]
    BY <1>2
  <2>2. \A d \in Clients : incoming'[d] = IF d = c THEN SubSeq(incoming[c], 1, n)
                                                   ELSE incoming[d]
    BY <1>1, <2>1 DEF WiresGenuine
  <2>3. QED
    BY <1>1, <1>3, <2>2, CutSame DEF WiresGenuine
<1>5. \A d \in Clients : Cut(uplink'[d], uplink[d])
  <2>1. PICK n \in 0 .. Len(uplink[c]) : uplink' = [uplink EXCEPT ![c] = SubSeq(@, 1, n)]
    BY <1>2
  <2>2. \A d \in Clients : uplink'[d] = IF d = c THEN SubSeq(uplink[c], 1, n)
                                                 ELSE uplink[d]
    BY <1>1, <2>1 DEF WiresGenuine
  <2>3. QED
    BY <1>1, <1>3, <2>2, CutSame DEF WiresGenuine
<1>6. losses' # 0
  BY <1>1, <1>2
<1>7. QED
  BY <1>2, <1>4, <1>5, <1>6, OrderCut

\* Time passes, or nothing happens.
LEMMA OrderTime ==
    ASSUME IInv, IInv', OrderInv, TimePasses \/ UNCHANGED vars
    PROVE  OrderInv'
<1>1. ACTypeOK /\ SessionsKept /\ clock \in Nat
  BY OrderParts
<1>2. /\ UNCHANGED <<chan, sessionKey, seenNonces, pendingKey, keysMade, accepted, msgsMade,
                     delivered, activeSessions, knownUsers, seenIds, netVars>>
      /\ clock' = clock \/ clock' = clock + 1
  BY DEF TimePasses, Tick, vars, acVars, keVars, cliVars
<1>3. /\ \A d \in Clients : knownUsers'[d] \ {d} \subseteq activeSessions'[d]
      /\ \A d \in Clients : LoggedIn(d)' <=> LoggedIn(d)
  BY <1>1, <1>2, KnownStill
<1>4. clock <= clock'
  BY <1>1, <1>2
<1>5. QED
  BY <1>2, <1>3, <1>4, OrderIdle DEF netVars

\* A frame queued brings nothing back,
LEMMA QueuedBack ==
    ASSUME WiresGenuine, NothingComesBack, NEW f,
           incoming' = [incoming EXCEPT ![f.to] = Append(@, f)],
           UNCHANGED <<clock, sessionKey, seenNonces, pendingKey, seenIds, delivered>>,
           \A g \in InTransit' : g.type = "HANDSHAKE_INIT" => g \in InTransit
    PROVE  \A d \in Clients : \A m \in relayed : m.to = d => StaysPast(d, m)'
<1> SUFFICES ASSUME NEW d \in Clients, NEW m \in relayed, m.to = d
             PROVE  StaysPast(d, m)'
  OBVIOUS
<1>1. StaysPast(d, m)
  BY DEF NothingComesBack
<1>2. Past(d, m) => Past(d, m)'
  <2>1. NeverOpens(d, m) => NeverOpens(d, m)'
    BY DEF NeverOpens, CarriesKeyOf
  <2>2. QED
    BY <2>1 DEF Past
<1>3. CASE d = f.to
  <2>1. incoming'[d] = Append(incoming[d], f) /\ seenIds'[d] = seenIds[d]
        /\ delivered'[d] = delivered[d]
    BY <1>3 DEF WiresGenuine
  <2>2. QED
    BY <1>1, <1>2, <2>1, BackQueued
<1>4. CASE d # f.to
  <2>1. incoming'[d] = incoming[d] /\ seenIds'[d] = seenIds[d]
        /\ delivered'[d] = delivered[d]
    BY <1>4 DEF WiresGenuine
  <2>2. QED
    BY <1>1, <1>2, <2>1, BackSame
<1>5. QED
  BY <1>3, <1>4

\* and no key after its messages.
LEMMA QueuedBehind ==
    ASSUME WiresGenuine, QueuedRelayed, OffersFirst, NEW f,
           \A m \in relayed : ~ CarriesKeyOf(f, m),
           incoming' = [incoming EXCEPT ![f.to] = Append(@, f)],
           NEW c \in Clients, NEW i \in DOMAIN incoming'[c], NEW j \in DOMAIN incoming'[c],
           incoming'[c][j].type = "MESSAGE",
           CarriesKeyOf(incoming'[c][i], incoming'[c][j])
    PROVE  i < j
<1>1. incoming[c] \in Seq(Genuine)
  BY DEF WiresGenuine
<1>2. CASE incoming'[c] = incoming[c]
  BY <1>2 DEF OffersFirst
<1>3. CASE incoming'[c] = Append(incoming[c], f)
  <2>1. CASE i \in DOMAIN incoming[c] /\ j \in DOMAIN incoming[c]
    <3>1. incoming'[c][i] = incoming[c][i] /\ incoming'[c][j] = incoming[c][j]
      BY <1>1, <1>3, <2>1, Queued
    <3>2. QED
      BY <2>1, <3>1 DEF OffersFirst
  <2>2. CASE i \in DOMAIN incoming[c] /\ j = Len(incoming[c]) + 1
    BY <1>1, <1>3, <2>2, Queued
  <2>3. CASE i = Len(incoming[c]) + 1 /\ j \in DOMAIN incoming[c]
    <3>1. incoming'[c][i] = f /\ incoming'[c][j] = incoming[c][j]
      BY <1>1, <1>3, <2>3, Queued
    <3>2. incoming[c][j] \in relayed
      BY <2>3, <3>1 DEF QueuedRelayed, Range
    <3>3. QED
      BY <3>1, <3>2
  <2>4. CASE i = Len(incoming[c]) + 1 /\ j = Len(incoming[c]) + 1
    <3>1. incoming'[c][i] = f /\ incoming'[c][j] = f
      BY <1>1, <1>3, <2>4, Queued
    <3>2. QED
      BY <3>1 DEF CarriesKeyOf
  <2>5. QED
    BY <1>1, <1>3, <2>1, <2>2, <2>3, <2>4, Queued
<1>4. QED
  BY <1>2, <1>3 DEF WiresGenuine

\* What is in the queues after a frame is queued.
LEMMA QueuedRange ==
    ASSUME WiresGenuine, NEW f, incoming' = [incoming EXCEPT ![f.to] = Append(@, f)]
    PROVE  \A d \in Clients : Range(incoming'[d]) \subseteq Range(incoming[d]) \union {f}
<1> TAKE d \in Clients
<1>1. incoming[d] \in Seq(Genuine)
  BY DEF WiresGenuine
<1>2. incoming'[d] = incoming[d] \/ incoming'[d] = Append(incoming[d], f)
  BY DEF WiresGenuine
<1>3. QED
  BY <1>1, <1>2, RangeQueued

\* A message delivered again is behind all that wait, and past once it has been taken.
LEMMA OrderRedeliver ==
    ASSUME IInv, IInv', OrderInv, NEW c \in Clients, Redeliver(c)
    PROVE  OrderInv'
<1>1. /\ dups \in Nat /\ WiresGenuine /\ AcceptedMade /\ UplinkInOrder /\ QueuedRelayed
      /\ OffersFirst /\ SessionsKept /\ PendingOnlyEstablishing
  BY OrderParts, MessengerBounds DEF IInv, WireInv, TypeOK, OrderInv
<1>2. PICK f \in relayed : incoming' = [incoming EXCEPT ![f.to] = Append(@, f)]
  BY DEF Redeliver
<1>3. /\ dups' # 0
      /\ UNCHANGED <<clock, seenIds, uplink, connected, relayed, losses, sessionKey,
                     seenNonces, pendingKey, chan, keysMade, activeSessions, knownUsers,
                     accepted, msgsMade, delivered>>
  BY <1>1 DEF Redeliver, acVars, keVars, cliVars
<1>4. f.type = "MESSAGE"
  BY <1>1 DEF QueuedRelayed
<1>5. \A d \in Clients : Range(incoming'[d]) \subseteq Range(incoming[d]) \union {f}
  BY <1>1, <1>2, QueuedRange
<1>6. QueuedRelayed'
  BY <1>1, <1>3, <1>5 DEF QueuedRelayed, Receipt
<1>7. OffersFirst'
  <2>1. \A m \in relayed : ~ CarriesKeyOf(f, m)
    BY <1>4 DEF CarriesKeyOf
  <2>2. \A d \in Clients : \A i, j \in DOMAIN incoming'[d] :
           incoming'[d][j].type = "MESSAGE"
           /\ CarriesKeyOf(incoming'[d][i], incoming'[d][j]) => i < j
    BY <1>1, <1>2, <2>1, QueuedBehind
  <2>3. QED
    BY <1>1, <1>3, <2>2 DEF OffersFirst, CarriesKeyOf
<1>8. ASSUME NothingComesBack
      PROVE  NothingComesBack'
  <2>1. \A d \in Clients : Range(uplink'[d]) \subseteq Range(uplink[d]) \union {f}
    BY <1>3
  <2>2. InTransit' \subseteq InTransit \union {f}
    BY <1>5, <2>1, TransitWithin
  <2>3. \A g \in InTransit' : g.type = "HANDSHAKE_INIT" => g \in InTransit
    BY <1>4, <2>2
  <2>4. \A d \in Clients : \A m \in relayed : m.to = d => StaysPast(d, m)'
    BY <1>1, <1>2, <1>3, <1>8, <2>3, QueuedBack
  <2>5. \A d \in Clients : LoggedIn(d)' => d \in connected'
    BY <1>3, <1>8 DEF NothingComesBack, LoggedIn, IsActive
  <2>6. QED
    BY <1>3, <2>4, <2>5 DEF NothingComesBack
<1>9. AcceptedMade' /\ UplinkInOrder' /\ SessionsKept' /\ PendingOnlyEstablishing'
  <2>1. AcceptedMade'
    BY <1>1, <1>3 DEF AcceptedMade, MadeKeys
  <2>2. UplinkInOrder'
    BY <1>1, <1>3 DEF UplinkInOrder, Newer
  <2>3. SessionsKept'
    BY <1>1, <1>3 DEF SessionsKept, LoggedIn, IsActive
  <2>4. PendingOnlyEstablishing'
    BY <1>1, <1>3 DEF PendingOnlyEstablishing
  <2>5. QED
    BY <2>1, <2>2, <2>3, <2>4
<1>10. losses' = 0 => NothingComesBack' /\ DeliveredInOrder'
  BY <1>3, <1>8 DEF OrderInv, DeliveredInOrder
<1>11. QED
  BY <1>3, <1>6, <1>7, <1>9, <1>10 DEF OrderInv

\* The first of what a client sent is newer than what was relayed, older than what is
\* behind it, and no key of an earlier message.
LEMMA FirstSent ==
    ASSUME IInv, OrderInv, NEW c \in Clients, uplink[c] # << >>, NEW f, f = Head(uplink[c])
    PROVE  /\ f \in Genuine /\ f.from = c /\ f \in Range(uplink[c])
           /\ \A m \in relayed : ~ CarriesKeyOf(f, m)
           /\ Part(Tail(uplink[c]), uplink[c], 1)
           /\ f.type = "MESSAGE" =>
                  /\ f.at <= clock
                  /\ \A m \in relayed : m.from = c => m.nonce[2] < f.nonce[2]
                  /\ \A j \in DOMAIN uplink[c] :
                         uplink[c][j].type = "MESSAGE" /\ j # 1 => Newer(f, uplink[c][j])
                  /\ \A j \in DOMAIN uplink[c] : ~ CarriesKeyOf(uplink[c][j], f)
<1>1. /\ uplink[c] \in Seq(Genuine) /\ UplinkInOrder /\ OffersFirst
  BY OrderParts DEF WiresGenuine, OrderInv
<1>2. /\ Part(Tail(uplink[c]), uplink[c], 1) /\ 1 \in DOMAIN uplink[c] /\ f = uplink[c][1]
      /\ f \in Range(uplink[c]) /\ f \in Genuine
  BY <1>1, CutTail, RangeTail, Positions
<1>3. \A j \in DOMAIN uplink[c] : j \in Nat /\ j # 0
  BY <1>1, Positions
<1>4. /\ f.from = c
      /\ f.type = "MESSAGE" =>
             /\ f.at <= clock
             /\ \A m \in relayed : m.from = c => m.nonce[2] < f.nonce[2]
  BY <1>1, <1>2 DEF UplinkInOrder
<1>5. ASSUME f.type = "MESSAGE", NEW j \in DOMAIN uplink[c]
      PROVE  /\ uplink[c][j].type = "MESSAGE" /\ j # 1 => Newer(f, uplink[c][j])
             /\ ~ CarriesKeyOf(uplink[c][j], f)
  <2>1. j \in Nat /\ j # 0
    BY <1>3
  <2>2. ~ j < 1
    BY <2>1
  <2>3. j # 1 => 1 < j
    BY <2>1
  <2>4. uplink[c][j].type = "MESSAGE" /\ j # 1 => Newer(f, uplink[c][j])
    BY <1>1, <1>2, <1>5, <2>3 DEF UplinkInOrder
  <2>5. ~ CarriesKeyOf(uplink[c][j], f)
    BY <1>1, <1>2, <1>5, <2>2 DEF OffersFirst
  <2>6. QED
    BY <2>4, <2>5
<1>6. \A m \in relayed : ~ CarriesKeyOf(f, m)
  BY <1>1, <1>2 DEF OffersFirst
<1>7. QED
  BY <1>2, <1>4, <1>5, <1>6

\* A frame handed over: in the order of its sender, its key before it.
LEMMA OrderForward ==
    ASSUME IInv, IInv', OrderInv, NEW c \in Clients, RelayForward(c)
    PROVE  OrderInv'
<1>a. PICK f : f = Head(uplink[c])
  OBVIOUS
<1>1. /\ ACTypeOK /\ KETypeOK /\ WiresGenuine /\ AcceptedMade /\ UplinkInOrder
      /\ QueuedRelayed /\ OffersFirst /\ SessionsKept /\ PendingOnlyEstablishing
      /\ clock \in Nat /\ uplink[c] \in Seq(Genuine)
  BY OrderParts DEF OrderInv, WiresGenuine
<1>2. /\ uplink[c] # << >> /\ uplink' = [uplink EXCEPT ![c] = Tail(@)]
      /\ UNCHANGED <<clock, acVars, seenIds, connected, dups, losses>>
      /\ \/ UNCHANGED <<incoming, relayed>>
         \/ /\ incoming' = [incoming EXCEPT ![f.to] = Append(@, f)]
            /\ relayed' = IF f.type = "MESSAGE" THEN relayed \union {f} ELSE relayed
  BY <1>a DEF RelayForward, cliVars
<1>3. \A d \in Clients : uplink'[d] = IF d = c THEN Tail(uplink[c]) ELSE uplink[d]
  BY <1>1, <1>2 DEF WiresGenuine
<1>4. CASE UNCHANGED <<incoming, relayed>>
  <2>1. \A d \in Clients : Cut(incoming'[d], incoming[d]) /\ Cut(uplink'[d], uplink[d])
    BY <1>1, <1>2, <1>3, <1>4, CutSame, CutTail DEF WiresGenuine
  <2>2. QED
    BY <1>2, <1>4, <2>1, OrderCut
<1>5. CASE /\ incoming' = [incoming EXCEPT ![f.to] = Append(@, f)]
           /\ relayed' = IF f.type = "MESSAGE" THEN relayed \union {f} ELSE relayed
  <2>1. /\ f \in Genuine /\ f.from = c /\ f \in Range(uplink[c])
        /\ \A m \in relayed : ~ CarriesKeyOf(f, m)
        /\ Part(Tail(uplink[c]), uplink[c], 1)
        /\ f.type = "MESSAGE" =>
               /\ f.at <= clock
               /\ \A m \in relayed : m.from = c => m.nonce[2] < f.nonce[2]
               /\ \A j \in DOMAIN uplink[c] :
                      uplink[c][j].type = "MESSAGE" /\ j # 1 => Newer(f, uplink[c][j])
               /\ \A j \in DOMAIN uplink[c] : ~ CarriesKeyOf(uplink[c][j], f)
    BY <1>a, <1>2, FirstSent
  <2>2. UNCHANGED <<sessionKey, seenNonces, pendingKey, chan, keysMade, activeSessions,
                    knownUsers, accepted, msgsMade, delivered, clock, seenIds, connected,
                    dups, losses>>
    BY <1>2 DEF acVars, keVars
  <2>3. \A i \in DOMAIN uplink'[c] : /\ i \in Nat /\ i # 0 /\ i + 1 \in DOMAIN uplink[c]
                                     /\ uplink'[c][i] = uplink[c][i + 1]
    <3>1. Tail(uplink[c]) \in Seq(Genuine) /\ uplink'[c] = Tail(uplink[c])
      BY <1>1, <1>2, <1>3
    <3>2. QED
      BY <2>1, <3>1, Positions DEF Part
  <2>4. f.type = "MESSAGE" => f.nonce[2] \in Nat /\ f.nonce[1] = c
    BY <1>1, <2>1, MessageMade
  <2>5. \A m \in relayed' : m \in relayed \/ (m = f /\ f.type = "MESSAGE")
    BY <1>5
  <2>6. \A d \in Clients : Range(incoming'[d]) \subseteq Range(incoming[d]) \union {f}
    BY <1>1, <1>5, QueuedRange
  <2>7. \A d \in Clients : Range(uplink'[d]) \subseteq Range(uplink[d])
    BY <1>1, <1>2, <1>3, RangeTail
  <2>8. UplinkInOrder'
    <3> SUFFICES ASSUME NEW d \in Clients, NEW j \in DOMAIN uplink'[d]
                 PROVE  /\ uplink'[d][j].from = d
                        /\ uplink'[d][j].type = "MESSAGE" =>
                           /\ uplink'[d][j].at <= clock
                           /\ \A m \in relayed' :
                                  m.from = d => m.nonce[2] < uplink'[d][j].nonce[2]
                           /\ \A i \in DOMAIN uplink'[d] :
                                  i < j /\ uplink'[d][i].type = "MESSAGE"
                                      => Newer(uplink'[d][i], uplink'[d][j])
      BY <2>2 DEF UplinkInOrder, Newer
    <3>1. CASE d = c
      <4>1. /\ j \in Nat /\ j # 0 /\ j + 1 \in DOMAIN uplink[c] /\ j + 1 # 1
            /\ uplink'[c][j] = uplink[c][j + 1]
        BY <2>3, <3>1
      <4>2. uplink'[c][j].type = "MESSAGE" /\ f.type = "MESSAGE" =>
               f.nonce[2] < uplink'[c][j].nonce[2]
        BY <2>1, <4>1 DEF Newer
      <4>3. \A i \in DOMAIN uplink'[c] : i < j =>
               /\ i + 1 \in DOMAIN uplink[c] /\ i + 1 < j + 1
               /\ uplink'[c][i] = uplink[c][i + 1]
        <5> TAKE i \in DOMAIN uplink'[c]
        <5>1. i \in Nat /\ i + 1 \in DOMAIN uplink[c] /\ uplink'[c][i] = uplink[c][i + 1]
          BY <2>3
        <5>2. QED
          BY <4>1, <5>1
      <4>4. QED
        BY <1>1, <2>5, <3>1, <4>1, <4>2, <4>3 DEF UplinkInOrder
    <3>2. CASE d # c
      <4>1. uplink'[d] = uplink[d]
        BY <1>3, <3>2
      <4>2. \A m \in relayed' : m.from = d => m \in relayed
        BY <2>1, <2>5, <3>2
      <4>3. QED
        BY <1>1, <4>1, <4>2 DEF UplinkInOrder
    <3>3. QED
      BY <3>1, <3>2
  <2>9. QueuedRelayed'
    <3>1. \A m \in relayed' : m.type = "MESSAGE" /\ m.at <= clock
      BY <1>1, <2>1, <2>5 DEF QueuedRelayed
    <3>2. ASSUME NEW m \in relayed, f.type = "MESSAGE", m.nonce = f.nonce
          PROVE  FALSE
      <4>1. m.from = m.nonce[1] /\ m.nonce[2] \in Nat
        BY <1>1, MessageMade DEF QueuedRelayed, WiresGenuine
      <4>2. m.nonce[2] < f.nonce[2]
        BY <2>1, <2>4, <3>2, <4>1
      <4>3. QED
        BY <2>4, <3>2, <4>1, <4>2
    <3>3. \A m, n \in relayed' : m.nonce = n.nonce => m = n
      BY <1>1, <2>5, <3>2 DEF QueuedRelayed
    <3>4. relayed \subseteq relayed' /\ (f.type = "MESSAGE" => f \in relayed')
      BY <1>5
    <3>5. \A d \in Clients : \A g \in Range(incoming'[d]) : g.type = "MESSAGE" => g \in relayed'
      BY <1>1, <2>6, <3>4 DEF QueuedRelayed
    <3>6. QED
      BY <1>1, <2>2, <3>1, <3>3, <3>4, <3>5 DEF QueuedRelayed, Receipt
  <2>10. OffersFirst'
    <3>1. \A d \in Clients : \A i, j \in DOMAIN incoming'[d] :
             incoming'[d][j].type = "MESSAGE"
             /\ CarriesKeyOf(incoming'[d][i], incoming'[d][j]) => i < j
      BY <1>1, <1>5, <2>1, QueuedBehind
    <3>2. \A d \in Clients : \A i, j \in DOMAIN uplink'[d] :
             uplink'[d][j].type = "MESSAGE"
             /\ CarriesKeyOf(uplink'[d][i], uplink'[d][j]) => i < j
      <4> SUFFICES ASSUME NEW d \in Clients, NEW i \in DOMAIN uplink'[d],
                          NEW j \in DOMAIN uplink'[d], uplink'[d][j].type = "MESSAGE",
                          CarriesKeyOf(uplink'[d][i], uplink'[d][j])
                   PROVE  i < j
        OBVIOUS
      <4>1. CASE d = c
        <5>1. /\ i \in Nat /\ j \in Nat /\ i + 1 \in DOMAIN uplink[c]
              /\ j + 1 \in DOMAIN uplink[c] /\ uplink'[c][i] = uplink[c][i + 1]
              /\ uplink'[c][j] = uplink[c][j + 1]
          BY <2>3, <4>1
        <5>2. i + 1 < j + 1
          BY <1>1, <4>1, <5>1 DEF OffersFirst
        <5>3. QED
          BY <5>1, <5>2
      <4>2. CASE d # c
        BY <1>1, <1>3, <4>2 DEF OffersFirst
      <4>3. QED
        BY <4>1, <4>2
    <3>3. ASSUME NEW d \in Clients, NEW m \in relayed', NEW g \in Range(uplink'[d])
          PROVE  ~ CarriesKeyOf(g, m)
      <4>1. g \in Range(uplink[d])
        BY <2>7
      <4>2. CASE m \in relayed
        BY <1>1, <4>1, <4>2 DEF OffersFirst
      <4>3. CASE m = f /\ f.type = "MESSAGE"
        <5>1. PICK i \in DOMAIN uplink[d] : g = uplink[d][i]
          BY <4>1 DEF Range
        <5>2. g.from = d /\ g \in Genuine
          BY <1>1, <5>1, Positions DEF UplinkInOrder, WiresGenuine
        <5>3. CarriesKeyOf(g, m) => d = c
          BY <1>1, <2>1, <4>3, <5>2, CarrierFrom
        <5>4. QED
          BY <2>1, <4>3, <5>1, <5>3
      <4>4. QED
        BY <2>5, <4>2, <4>3
    <3>4. QED
      BY <3>1, <3>2, <3>3 DEF OffersFirst, CarriesKeyOf
  <2>11. ASSUME NothingComesBack
         PROVE  NothingComesBack'
    <3>1. InTransit' \subseteq InTransit \union {f}
      BY <2>6, <2>7, TransitWithin
    <3>2. \A g \in InTransit' : g.type = "HANDSHAKE_INIT" => g \in InTransit
      BY <2>1, <3>1 DEF InTransit
    <3>3. \A d \in Clients : \A m \in relayed : m.to = d => StaysPast(d, m)'
      BY <1>1, <1>5, <2>2, <2>11, <3>2, QueuedBack
    <3>4. f.type = "MESSAGE" => \A d \in Clients : f.to = d => StaysPast(d, f)'
      <4> SUFFICES ASSUME f.type = "MESSAGE", NEW d \in Clients, f.to = d
                   PROVE  StaysPast(d, f)'
        OBVIOUS
      <4>1. /\ incoming'[d] = Append(incoming[d], f)
            /\ seenIds'[d] = seenIds[d] /\ delivered'[d] = delivered[d]
        BY <1>1, <1>5, <2>2 DEF WiresGenuine
      <4>2. QED
        BY <1>1, <2>1, <4>1, BackNew
    <3>5. \A d \in Clients : LoggedIn(d)' => d \in connected'
      BY <2>2, <2>11 DEF NothingComesBack, LoggedIn, IsActive
    <3>6. QED
      BY <2>5, <3>3, <3>4, <3>5 DEF NothingComesBack
  <2>12. ASSUME QueueInOrder
         PROVE  QueueInOrder'
    <3> SUFFICES ASSUME NEW d \in Clients, NEW j \in DOMAIN incoming'[d],
                        incoming'[d][j].type = "MESSAGE"
                 PROVE  /\ \A i \in DOMAIN incoming'[d] :
                             i < j /\ incoming'[d][i].type = "MESSAGE"
                             /\ incoming'[d][i].from = incoming'[d][j].from
                                 => Newer(incoming'[d][i], incoming'[d][j])
                        /\ \A i \in DOMAIN delivered[d] :
                             delivered[d][i].from = incoming'[d][j].from
                                 => Newer(delivered[d][i], incoming'[d][j])
      BY <2>2 DEF QueueInOrder, Newer
    <3>1. incoming[d] \in Seq(Genuine)
      BY <1>1 DEF WiresGenuine
    <3>2. CASE incoming'[d] = incoming[d]
      BY <2>12, <3>2 DEF QueueInOrder
    <3>3. CASE incoming'[d] = Append(incoming[d], f) /\ j \in DOMAIN incoming[d]
      <4>1. incoming'[d][j] = incoming[d][j]
        BY <3>1, <3>3, Queued
      <4>2. \A i \in DOMAIN incoming'[d] : i < j =>
               i \in DOMAIN incoming[d] /\ incoming'[d][i] = incoming[d][i]
        <5>1. Len(incoming[d]) \in Nat /\ DOMAIN incoming[d] = 1 .. Len(incoming[d])
          BY <3>1, LenProperties
        <5>2. QED
          BY <3>1, <3>3, <5>1, Queued
      <4>3. QED
        BY <2>12, <3>3, <4>1, <4>2 DEF QueueInOrder
    <3>4. CASE incoming'[d] = Append(incoming[d], f) /\ j = Len(incoming[d]) + 1
      <4>1. incoming'[d][j] = f /\ f.type = "MESSAGE"
        BY <3>1, <3>4, Queued
      <4>2. \A n \in relayed : n.from = c => Newer(n, f)
        BY <2>1, <4>1 DEF Newer
      <4>3. ASSUME NEW i \in DOMAIN incoming'[d], i < j, incoming'[d][i].type = "MESSAGE",
                   incoming'[d][i].from = f.from
            PROVE  Newer(incoming'[d][i], f)
        <5>1. i \in DOMAIN incoming[d] /\ incoming'[d][i] = incoming[d][i]
          BY <3>1, <3>4, <4>3, Queued
        <5>2. incoming[d][i] \in relayed
          BY <1>1, <4>3, <5>1 DEF QueuedRelayed, Range
        <5>3. QED
          BY <2>1, <4>2, <4>3, <5>1, <5>2
      <4>4. ASSUME NEW i \in DOMAIN delivered[d], delivered[d][i].from = f.from
            PROVE  Newer(delivered[d][i], f)
        <5>1. PICK n \in relayed : delivered[d][i] = Receipt(n)
          BY <1>1 DEF QueuedRelayed
        <5>2. n.from = c
          BY <2>1, <4>4, <5>1 DEF Receipt
        <5>3. Newer(n, f)
          BY <4>2, <5>2
        <5>4. QED
          BY <5>1, <5>3 DEF Newer, Receipt
      <4>5. QED
        BY <4>1, <4>3, <4>4
    <3>5. QED
      BY <1>1, <1>5, <3>1, <3>2, <3>3, <3>4, Queued DEF WiresGenuine
  <2>13. AcceptedMade' /\ SessionsKept' /\ PendingOnlyEstablishing'
    <3>1. AcceptedMade'
      BY <1>1, <2>2 DEF AcceptedMade, MadeKeys
    <3>2. SessionsKept'
      BY <1>1, <2>2 DEF SessionsKept, LoggedIn, IsActive
    <3>3. PendingOnlyEstablishing'
      BY <1>1, <2>2 DEF PendingOnlyEstablishing
    <3>4. QED
      BY <3>1, <3>2, <3>3
  <2>14. losses' = 0 \/ dups' = 0 => DeliveredInOrder'
    BY <2>2 DEF OrderInv, DeliveredInOrder
  <2>15. QED
    BY <2>2, <2>8, <2>9, <2>10, <2>11, <2>12, <2>13, <2>14 DEF OrderInv
<1>6. QED
  BY <1>2, <1>4, <1>5

-----------------------------------------------------------------------------
(***************************************************************************)
(* The messenger keeps the order.                                          *)
(***************************************************************************)

\* The relay and the network,
LEMMA OrderNetwork ==
    ASSUME IInv, IInv', OrderInv, NEW c \in Clients,
           RelayForward(c) \/ Redeliver(c) \/ LinkLost(c)
    PROVE  OrderInv'
BY OrderForward, OrderRedeliver, OrderLinkLost

\* and every step of the messenger.
LEMMA OrderNext == IInv /\ OrderInv /\ [Next]_vars => OrderInv'
<1> SUFFICES ASSUME IInv, OrderInv, [Next]_vars PROVE OrderInv'
  OBVIOUS
<1>1. IInv'
  BY InvNext
<1>2. ASSUME NEW c \in Clients, Commands(c) PROVE OrderInv'
  BY <1>1, <1>2, OrderCommand
<1>3. ASSUME NEW c \in Clients, Drain(c) PROVE OrderInv'
  BY <1>1, <1>3, OrderDrain
<1>4. ASSUME NEW c \in Clients, RelayForward(c) \/ Redeliver(c) \/ LinkLost(c)
      PROVE  OrderInv'
  BY <1>1, <1>4, OrderNetwork
<1>5. CASE TimePasses \/ UNCHANGED vars
  BY <1>1, <1>5, OrderTime
<1>6. QED
  BY <1>2, <1>3, <1>4, <1>5 DEF Next, Command

\* Before anything is offered, accepted or sent there is nothing to put in order.
LEMMA OrderNothing ==
    ASSUME KEInit, accepted = [c \in Clients |-> {}],
           delivered = [c \in Clients |-> << >>], seenIds = [c \in Clients |-> << >>],
           uplink = [c \in Clients |-> << >>], incoming = [c \in Clients |-> << >>],
           relayed = {}, \A c \in Clients : LoggedIn(c) => c \in connected,
           \A c \in Clients : knownUsers[c] \subseteq activeSessions[c]
    PROVE  OrderInv
<1>1. \A c \in Clients : /\ accepted[c] = {} /\ delivered[c] = << >> /\ seenIds[c] = << >>
                         /\ uplink[c] = << >> /\ incoming[c] = << >>
  OBVIOUS
<1>2. \A c \in Clients : /\ DOMAIN delivered[c] = {} /\ DOMAIN seenIds[c] = {}
                         /\ DOMAIN uplink[c] = {} /\ DOMAIN incoming[c] = {}
                         /\ Range(uplink[c]) = {} /\ Range(incoming[c]) = {}
  BY <1>1 DEF Range
<1>3. /\ \A c \in Clients, p \in Pairs : sessionKey[c][p] = NoSecret /\ pendingKey[c][p] = NoKey
  BY DEF KEInit
<1>4. AcceptedMade /\ UplinkInOrder
  BY <1>1, <1>2 DEF AcceptedMade, UplinkInOrder
<1>5. QueuedRelayed /\ OffersFirst
  BY <1>2 DEF QueuedRelayed, OffersFirst
<1>6. SessionsKept /\ PendingOnlyEstablishing
  BY <1>3 DEF SessionsKept, PendingOnlyEstablishing
<1>7. NothingComesBack /\ QueueInOrder /\ DeliveredInOrder
  BY <1>2 DEF NothingComesBack, QueueInOrder, DeliveredInOrder
<1>8. QED
  BY <1>4, <1>5, <1>6, <1>7 DEF OrderInv

\* What is on the wires, remembered and shown stays in order, up to the first loss: of a
\* connection, or of a batch whose reply timed out (cli_app.py:728).
THEOREM OrderInvariance == Spec => []OrderInv
<1>1. Init => OrderInv
  BY OrderNothing DEF Init, ACInit, LoggedIn, IsActive
<1>2. QED
  BY <1>1, OrderNext, InvInitially, InvNext, PTL DEF Spec

\* Where neither a connection nor a batch is lost, or where the relay repeats nothing, a
\* user reads the messages of another in the order they were accepted in.
THEOREM OrderHolds == Spec => [](losses = 0 \/ dups = 0 => DeliveredInOrder)
<1>1. OrderInv => (losses = 0 \/ dups = 0 => DeliveredInOrder)
  BY DEF OrderInv
<1>2. QED
  BY <1>1, OrderInvariance, PTL

\* A process that waits for an answer has a record in ESTABLISHING, in every run of the
\* messenger: no interleaving of commands and frames leaves a private key behind.
THEOREM PendingHolds == Spec => []PendingOnlyEstablishing
<1>1. OrderInv => PendingOnlyEstablishing
  BY DEF OrderInv
<1>2. QED
  BY <1>1, OrderInvariance, PTL

Lossless == losses = 0

\* While connections stay and no send times out nothing is lost,
LEMMA NothingLost == Lossless /\ [OnlineNext]_vars => Lossless'
BY DEF Lossless, OnlineNext, vars, netVars

\* While connections stay and no send times out, a user reads the messages of another in
\* the order they were accepted in, whatever the relay hands over twice.
THEOREM DeliveredInOrderHolds == OnlineSpec => []DeliveredInOrder
<1>1. OnlineInit => OrderInv /\ Lossless
  BY OrderNothing, ClientsAreUsers DEF OnlineInit, Lossless
<1>2. IInv /\ OrderInv /\ [OnlineNext]_vars => (IInv /\ OrderInv)'
  BY OnlineSteps, InvNext, OrderNext
<1>3. OrderInv /\ Lossless => DeliveredInOrder
  BY DEF OrderInv, Lossless
<1>4. QED
  BY <1>1, <1>2, <1>3, NothingLost, OnlineInitially, PTL DEF OnlineSpec
=============================================================================
