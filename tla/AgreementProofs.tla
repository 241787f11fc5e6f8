-------------------------- MODULE AgreementProofs --------------------------
(***************************************************************************)
(* What TLAPS proves of the two ends of a channel.  A process makes a key  *)
(* for a peer when it has no record of their channel, or an INVALID one;   *)
(* before its second login there is no INVALID record it could use, so it  *)
(* makes at most one key for each peer (OneKeyEach), and an ACTIVE channel *)
(* can only be of the one key of each end.                                 *)
(***************************************************************************)
EXTENDS MCMessenger, MessengerProofs

\* A pair has its two users and no others.
LEMMA PairsApart ==
    \A a, b, u, v : PairKey(a, b) = PairKey(u, v) => (a = u /\ b = v) \/ (a = v /\ b = u)
BY DEF PairKey

-----------------------------------------------------------------------------
(***************************************************************************)
(* What is under way after a step.                                         *)
(***************************************************************************)

\* What is under way is what the wires hold.
LEMMA TransitWithin ==
    ASSUME NEW S,
           \A d \in Clients : /\ Range(uplink'[d]) \subseteq Range(uplink[d]) \union S
                              /\ Range(incoming'[d]) \subseteq Range(incoming[d]) \union S
    PROVE  InTransit' \subseteq InTransit \union S
BY DEF InTransit

\* A frame queued behind others is the only one that is new,
LEMMA RangeQueued ==
    ASSUME NEW S, NEW s \in Seq(S), NEW f
    PROVE  Range(Append(s, f)) \subseteq Range(s) \union {f}
<1>1. Len(s) \in Nat
  BY LenProperties
<1>2. QED
  BY <1>1 DEF Range

\* a part of a sequence has no others,
LEMMA RangeCut ==
    ASSUME NEW S, NEW s \in Seq(S), NEW m \in Nat, m # 0, NEW n \in 0 .. Len(s)
    PROVE  Range(SubSeq(s, m, n)) \subseteq Range(s)
<1>1. Len(s) \in Nat
  BY LenProperties
<1>2. QED
  BY <1>1 DEF Range

\* nor has what is left after its first.
LEMMA RangeTail ==
    ASSUME NEW S, NEW s \in Seq(S), s # << >>
    PROVE  Range(Tail(s)) \subseteq Range(s) /\ Head(s) \in Range(s)
<1>1. Len(s) \in Nat /\ Len(s) # 0
  BY LenProperties
<1>2. QED
  BY <1>1 DEF Range

\* A step that sends a frame, or none,
LEMMA UplinkSent ==
    ASSUME WiresGenuine, NEW c \in Clients, NEW f,
           Transmit(c, f) \/ UNCHANGED uplink
    PROVE  \A d \in Clients : Range(uplink'[d]) \subseteq Range(uplink[d]) \union {f}
<1> TAKE d \in Clients
<1>1. uplink'[d] = uplink[d] \/ uplink'[d] = Append(uplink[d], f)
  BY DEF Transmit, WiresGenuine
<1>2. uplink[d] \in Seq(Genuine)
  BY DEF WiresGenuine
<1>3. QED
  BY <1>1, <1>2, RangeQueued

\* and one that takes frames from a queue.
LEMMA QueueTaken ==
    ASSUME WiresGenuine, NEW c \in Clients,
           \/ incoming[c] # << >> /\ incoming' = [incoming EXCEPT ![c] = Tail(@)]
           \/ \E n \in 2 .. Len(incoming[c]) :
                  incoming' = [incoming EXCEPT ![c] = SubSeq(@, n + 1, Len(@))]
           \/ \E n \in 0 .. Len(incoming[c]) :
                  incoming' = [incoming EXCEPT ![c] = SubSeq(@, 1, n)]
    PROVE  \A d \in Clients : Range(incoming'[d]) \subseteq Range(incoming[d])
<1>1. incoming \in [Clients -> Seq(Genuine)] /\ Len(incoming[c]) \in Nat
  BY LenProperties DEF WiresGenuine
<1>2. Range(incoming'[c]) \subseteq Range(incoming[c])
  <2>1. CASE incoming[c] # << >> /\ incoming' = [incoming EXCEPT ![c] = Tail(@)]
    BY <1>1, <2>1, RangeTail
  <2>2. CASE \E n \in 2 .. Len(incoming[c]) :
                 incoming' = [incoming EXCEPT ![c] = SubSeq(@, n + 1, Len(@))]
    <3>1. PICK n \in 2 .. Len(incoming[c]) :
              incoming' = [incoming EXCEPT ![c] = SubSeq(@, n + 1, Len(@))]
      BY <2>2
    <3>2. incoming'[c] = SubSeq(incoming[c], n + 1, Len(incoming[c]))
      BY <1>1, <3>1
    <3>3. n + 1 \in Nat /\ n + 1 # 0 /\ Len(incoming[c]) \in 0 .. Len(incoming[c])
      BY <1>1
    <3>4. QED
      BY <1>1, <3>2, <3>3, RangeCut
  <2>3. CASE \E n \in 0 .. Len(incoming[c]) :
                 incoming' = [incoming EXCEPT ![c] = SubSeq(@, 1, n)]
    BY <1>1, <2>3, RangeCut
  <2>4. QED
    BY <2>1, <2>2, <2>3
<1>3. \A d \in Clients : d # c => incoming'[d] = incoming[d]
  BY <1>1
<1>4. QED
  BY <1>2, <1>3

-----------------------------------------------------------------------------
(***************************************************************************)
(* The keys of a process and a peer after a step.                          *)
(***************************************************************************)

\* A key of a process counts for a peer before or after a step alike, if it was
\* pending, part of a secret or on the way.
LEMMA KeysForFrom ==
    ASSUME NEW a \in Clients, NEW b \in Clients, NEW k \in KeysFor(a, b)',
           k = pendingKey'[a][PairKey(a, b)] => k = pendingKey[a][PairKey(a, b)],
           k \in sessionKey'[a][PairKey(a, b)] => k \in sessionKey[a][PairKey(a, b)],
           k \in sessionKey'[b][PairKey(a, b)] => k \in sessionKey[b][PairKey(a, b)],
           (\E f \in Offers(a, b)' : f.pub = k) => \E f \in Offers(a, b) : f.pub = k
    PROVE  k \in KeysFor(a, b)
BY DEF KeysFor

\* Each process keeps to one key for each peer if the only new one is made where
\* there was no record, or after a second login.
LEMMA OneKeyStill ==
    ASSUME OneKeyEach, logins \in [Clients -> 0 .. MaxLogins],
           \A a, b \in Clients : a # b =>
               /\ logins'[a] \in Nat /\ logins[a] <= logins'[a]
               /\ chan'[a][PairKey(a, b)] = "NONE" =>
                      /\ chan[a][PairKey(a, b)] = "NONE"
                      /\ KeysFor(a, b)' \subseteq KeysFor(a, b)
               /\ \A k \in KeysFor(a, b)' :
                      \/ k \in KeysFor(a, b)
                      \/ chan[a][PairKey(a, b)] = "NONE" /\ k = FreshKey(a)
                      \/ logins[a] > 1
    PROVE  OneKeyEach'
<1> SUFFICES ASSUME NEW a \in Clients, NEW b \in Clients, a # b
             PROVE  /\ chan'[a][PairKey(a, b)] = "NONE" => KeysFor(a, b)' = {}
                    /\ logins'[a] <= 1 => \A x, y \in KeysFor(a, b)' : x = y
  BY DEF OneKeyEach, PairKey
<1>1. chan'[a][PairKey(a, b)] = "NONE" => KeysFor(a, b)' = {}
  BY DEF OneKeyEach
<1>2. ASSUME logins'[a] <= 1, NEW x \in KeysFor(a, b)', NEW y \in KeysFor(a, b)'
      PROVE  x = y
  <2>1. logins[a] <= 1
    BY <1>2, MessengerBounds
  <2>2. CASE chan[a][PairKey(a, b)] = "NONE"
    BY <1>2, <2>1, <2>2 DEF OneKeyEach
  <2>3. CASE chan[a][PairKey(a, b)] # "NONE"
    BY <1>2, <2>1, <2>3 DEF OneKeyEach
  <2>4. QED
    BY <2>2, <2>3
<1>3. QED
  BY <1>1, <1>2

\* A step that leaves channels, keys and sessions alone, and puts no handshake on
\* the wires, leaves agreement alone.
LEMMA AgreeQuiet ==
    ASSUME IInv, AgreementInv, UNCHANGED <<chan, sessionKey, pendingKey, logins>>,
           \A d \in Clients : LoggedIn(d)' <=> LoggedIn(d),
           NEW S, InTransit' \subseteq InTransit \union S,
           \A f \in S : f.type = "MESSAGE",
           \A f \in relayed' : f.type = "MESSAGE"
    PROVE  AgreementInv'
<1>1. logins \in [Clients -> 0 .. MaxLogins] /\ OneKeyEach
  BY DEF IInv, WireInv, TypeOK, AgreementInv
<1>2. \A a, b \in Clients : KeysFor(a, b)' \subseteq KeysFor(a, b)
  <2> SUFFICES ASSUME NEW a \in Clients, NEW b \in Clients, NEW k \in KeysFor(a, b)'
               PROVE  k \in KeysFor(a, b)
    OBVIOUS
  <2>1. Offers(a, b)' \subseteq Offers(a, b)
    BY DEF Offers
  <2>2. QED
    BY <2>1, KeysForFrom
<1>3. OneKeyEach'
  BY <1>1, <1>2, MessengerBounds, OneKeyStill
<1>4. SessionsCounted'
  BY DEF AgreementInv, SessionsCounted
<1>5. QED
  BY <1>3, <1>4 DEF AgreementInv

-----------------------------------------------------------------------------
(***************************************************************************)
(* Commands.                                                               *)
(***************************************************************************)

\* /user begins a session, the second if there was one.
LEMMA AgreeUser ==
    ASSUME IInv, AgreementInv, NEW c \in Clients, HandleUser(c)
    PROVE  AgreementInv'
<1>1. /\ logins \in [Clients -> 0 .. MaxLogins] /\ OneKeyEach /\ ACTypeOK
      /\ SessionsCounted
  BY DEF IInv, WireInv, TypeOK, AgreementInv
<1>2. /\ logins' = [logins EXCEPT ![c] = @ + 1]
      /\ activeSessions' = [activeSessions EXCEPT ![c] = @ \union {c}]
      /\ UNCHANGED <<chan, sessionKey, pendingKey, uplink, incoming, relayed>>
  BY DEF HandleUser, Register, RegisterUser, keVars
<1>3. \A a, b \in Clients : KeysFor(a, b)' = KeysFor(a, b)
  BY <1>2 DEF KeysFor, Offers, InTransit
<1>4. \A d \in Clients : /\ logins'[d] \in Nat /\ logins[d] \in Nat
                         /\ logins'[d] = IF d = c THEN logins[d] + 1 ELSE logins[d]
                         /\ d # c => (LoggedIn(d)' <=> LoggedIn(d))
  BY <1>1, <1>2, MessengerBounds DEF LoggedIn, IsActive, ACTypeOK
<1>5. OneKeyEach'
  BY <1>1, <1>2, <1>3, <1>4, OneKeyStill
<1>6. SessionsCounted'
  BY <1>1, <1>2, <1>4 DEF SessionsCounted
<1>7. QED
  BY <1>2, <1>5, <1>6 DEF AgreementInv

\* /logout drops what it makes INVALID.
LEMMA AgreeLogout ==
    ASSUME IInv, AgreementInv, NEW c \in Clients, HandleLogout(c)
    PROVE  AgreementInv'
<1>1. /\ logins \in [Clients -> 0 .. MaxLogins] /\ OneKeyEach /\ ACTypeOK /\ KETypeOK
      /\ SessionsCounted /\ WiresGenuine
  BY DEF IInv, WireInv, TypeOK, AgreementInv, ACTypeOK
<1>2. /\ Disconnect(c, c) /\ UNCHANGED <<uplink, relayed, logins>> /\ LoggedIn(c)
      /\ \E n \in 0 .. Len(incoming[c]) :
             incoming' = [incoming EXCEPT ![c] = SubSeq(@, 1, n)]
  BY DEF HandleLogout
<1>3. \A d \in Clients, q \in Pairs :
         /\ pendingKey'[d][q] \in {pendingKey[d][q], NoKey}
         /\ sessionKey'[d][q] \in {sessionKey[d][q], NoSecret}
         /\ chan'[d][q] = "NONE" <=> chan[d][q] = "NONE"
         /\ chan'[d][q] = chan[d][q] \/ (d = c /\ chan'[d][q] = "INVALID")
         /\ chan'[d][q] = "ESTABLISHING" => pendingKey'[d][q] = pendingKey[d][q]
  BY <1>1, <1>2 DEF KETypeOK, Disconnect, InvalidateUserChannels, Without, Invalidated
<1>4. InTransit' \subseteq InTransit
  <2>1. \A d \in Clients : Range(incoming'[d]) \subseteq Range(incoming[d])
    BY <1>1, <1>2, QueueTaken
  <2>2. QED
    BY <1>2, <2>1 DEF InTransit
<1>5. \A a, b \in Clients : a # b => KeysFor(a, b)' \subseteq KeysFor(a, b)
  <2> SUFFICES ASSUME NEW a \in Clients, NEW b \in Clients, a # b,
                      NEW k \in KeysFor(a, b)'
               PROVE  k \in KeysFor(a, b)
    OBVIOUS
  <2>1. PairKey(a, b) \in Pairs
    BY UsersPair, ClientsAreUsers
  <2>2. Offers(a, b)' \subseteq Offers(a, b)
    BY <1>4 DEF Offers
  <2>3. k # NoKey /\ k \notin NoSecret
    BY KeysAssumption DEF KeysFor, KeyIds, NoSecret
  <2>4. QED
    BY <1>3, <2>1, <2>2, <2>3, KeysForFrom
<1>6. OneKeyEach'
  <2>1. \A a, b \in Clients : a # b => PairKey(a, b) \in Pairs
    BY UsersPair, ClientsAreUsers
  <2>2. QED
    BY <1>1, <1>2, <1>3, <1>5, <2>1, MessengerBounds, OneKeyStill
<1>7. SessionsCounted'
  <2>1. \A d \in Clients : LoggedIn(d)' <=> LoggedIn(d) /\ d # c
    BY <1>1, <1>2 DEF Disconnect, LoggedIn, IsActive, ACTypeOK
  <2>2. QED
    BY <1>1, <1>2, <1>3, <2>1 DEF SessionsCounted
<1>8. \A d \in Clients, q \in Pairs :
         chan'[d][q] = "ESTABLISHING" => pendingKey'[d][q] # NoKey
  BY <1>3 DEF AgreementInv
<1>9. QED
  BY <1>2, <1>6, <1>7, <1>8 DEF AgreementInv

\* In the first session a process that has no live channel has no record of one.
LEMMA NoRecordYet ==
    ASSUME AgreementInv, NEW c \in Clients, NEW p \in Pairs, KETypeOK,
           LoggedIn(c), chan[c][p] \notin Live
    PROVE  chan[c][p] = "NONE" \/ logins[c] > 1
BY DEF AgreementInv, SessionsCounted, KETypeOK, ChannelStates, Live

\* A channel offered is a record, a key, and a frame that carries it.
LEMMA AgreeOffered ==
    ASSUME IInv, AgreementInv, NEW c \in Clients, NEW t \in Others(c), LoggedIn(c),
           chan[c][PairKey(c, t)] \notin Live,
           StartHandshake(c, PairKey(c, t)), OfferChannel(c, t),
           UNCHANGED <<sessionKey, logins, incoming, relayed>>,
           \A d \in Clients : LoggedIn(d)' <=> LoggedIn(d)
    PROVE  AgreementInv'
<1>a. PICK p, g, h : p = PairKey(c, t) /\ g = OfferFrame(c, c, t) /\ h = FreshKey(c)
  OBVIOUS
<1>1. /\ logins \in [Clients -> 0 .. MaxLogins] /\ OneKeyEach /\ KETypeOK
      /\ SessionsCounted /\ WiresGenuine
      /\ p \in Pairs /\ t \in Clients /\ t # c
  BY <1>a, UsersPair, ClientsAreUsers
  DEF IInv, WireInv, TypeOK, AgreementInv, ACTypeOK, Others
<1>2. /\ chan' = [chan EXCEPT ![c][p] = "ESTABLISHING"]
      /\ pendingKey' = [pendingKey EXCEPT ![c][p] = h]
      /\ Transmit(c, g)
      /\ g.from = c /\ g.to = t /\ g.pub = h
      /\ h \in LocalKeys
  BY <1>a, <1>1, FreshKeyLocal
  DEF StartHandshake, OfferChannel, SetPendingKey, OfferFrame, HandshakeFrame
<1>3. InTransit' \subseteq InTransit \union {g}
  BY <1>1, <1>2, UplinkSent, TransitWithin
<1>4. \A d \in Clients, q \in Pairs :
         /\ chan'[d][q] = IF d = c /\ q = p THEN "ESTABLISHING" ELSE chan[d][q]
         /\ pendingKey'[d][q] = IF d = c /\ q = p THEN h ELSE pendingKey[d][q]
  BY <1>1, <1>2 DEF KETypeOK
<1>5. chan[c][p] = "NONE" \/ logins[c] > 1
  BY <1>a, <1>1, NoRecordYet
<1>6. ASSUME NEW a \in Clients, NEW b \in Clients, a # b, NEW k \in KeysFor(a, b)'
      PROVE  k \in KeysFor(a, b) \/ (a = c /\ b = t /\ k = h)
  <2>1. PairKey(a, b) \in Pairs
    BY <1>6, UsersPair, ClientsAreUsers
  <2>2. a = c /\ PairKey(a, b) = p => b = t
    BY <1>a, <1>6, PairsApart
  <2>3. ASSUME NEW f \in Offers(a, b)', f.pub = k
        PROVE  f \in Offers(a, b) \/ (a = c /\ b = t /\ k = h)
    BY <1>2, <1>3, <2>3 DEF Offers
  <2>4. k = pendingKey'[a][PairKey(a, b)] =>
           k = pendingKey[a][PairKey(a, b)] \/ (a = c /\ b = t /\ k = h)
    BY <1>4, <2>1, <2>2
  <2>5. QED
    BY <2>3, <2>4, KeysForFrom
<1>7. OneKeyEach'
  <2>1. \A a, b \in Clients : a # b => PairKey(a, b) \in Pairs
    BY UsersPair, ClientsAreUsers
  <2>2. \A a, b \in Clients : a # b =>
           /\ chan'[a][PairKey(a, b)] = "NONE" =>
                  /\ chan[a][PairKey(a, b)] = "NONE"
                  /\ KeysFor(a, b)' \subseteq KeysFor(a, b)
           /\ \A k \in KeysFor(a, b)' :
                  \/ k \in KeysFor(a, b)
                  \/ chan[a][PairKey(a, b)] = "NONE" /\ k = FreshKey(a)
                  \/ logins[a] > 1
    BY <1>a, <1>4, <1>5, <1>6, <2>1
  <2>3. QED
    BY <1>1, <2>2, MessengerBounds, OneKeyStill
<1>8. SessionsCounted'
  BY <1>1, <1>4 DEF SessionsCounted
<1>9. h # NoKey
  BY <1>2, KeysAssumption DEF KeyIds
<1>10. QED
  BY <1>4, <1>7, <1>8, <1>9 DEF AgreementInv

\* /chat offers a channel where there is none,
LEMMA AgreeChat ==
    ASSUME IInv, AgreementInv, NEW c \in Clients, NEW t \in Others(c), HandleChat(c, t)
    PROVE  AgreementInv'
<1>1. ACTypeOK /\ t \in Users /\ t # c
  BY DEF IInv, WireInv, TypeOK, Others
<1>2. /\ LoggedIn(c) /\ EnsureKnown(c, t) /\ StartHandshake(c, PairKey(c, t))
      /\ UNCHANGED <<sessionKey, logins, incoming, relayed>>
      /\ IF chan[c][PairKey(c, t)] \in Live
         THEN UNCHANGED <<pendingKey, uplink>>
         ELSE OfferChannel(c, t)
  BY DEF HandleChat
<1>3. \A d \in Clients : LoggedIn(d)' <=> LoggedIn(d)
  BY <1>1, <1>2, MeetsOthers
<1>4. CASE chan[c][PairKey(c, t)] \in Live
  <2>1. UNCHANGED chan
    BY <1>2, <1>4 DEF StartHandshake
  <2>2. InTransit' \subseteq InTransit \union {}
    BY <1>2, <1>4 DEF InTransit
  <2>3. QED
    BY <1>2, <1>3, <1>4, <2>1, <2>2, AgreeQuiet DEF AgreementInv
<1>5. CASE chan[c][PairKey(c, t)] \notin Live
  BY <1>2, <1>3, <1>5, AgreeOffered
<1>6. QED
  BY <1>4, <1>5

\* and so does a text that is refused for want of one.
LEMMA AgreeText ==
    ASSUME IInv, AgreementInv, NEW c \in Clients, NEW t \in Others(c), LoggedIn(c),
           SendText(c, t), \A d \in Clients : LoggedIn(d)' <=> LoggedIn(d)
    PROVE  AgreementInv'
<1> DEFINE verdict == SendVerdict(activeSessions'[c], c, c, t)
<1>1. WiresGenuine /\ UNCHANGED <<logins, incoming, relayed>>
  BY DEF SendText, IInv, WireInv
<1>2. CASE verdict = "MESSAGE_ACCEPTED"
  <2>1. AcceptMessage(c, c, t) /\ Transmit(c, OutgoingFrame(c, c, t))
    BY <1>2 DEF SendText
  <2>2. UNCHANGED <<chan, sessionKey, pendingKey>>
    BY <2>1 DEF AcceptMessage, keVars
  <2>3. InTransit' \subseteq InTransit \union {OutgoingFrame(c, c, t)}
    BY <1>1, <2>1, UplinkSent, TransitWithin
  <2>4. \A f \in {OutgoingFrame(c, c, t)} : f.type = "MESSAGE"
    BY DEF OutgoingFrame, MessageFrame
  <2>5. QED
    BY <1>1, <2>2, <2>3, <2>4, AgreeQuiet DEF AgreementInv
<1>3. CASE verdict # "MESSAGE_ACCEPTED"
  <2>1. /\ RefuseMessage(c, c, t, verdict)
        /\ IF verdict = "403_SECURE_CHANNEL_REQUIRED" /\ chan[c][PairKey(c, t)] \notin Live
           THEN OfferChannel(c, t)
           ELSE UNCHANGED <<pendingKey, uplink>>
    BY <1>3 DEF SendText
  <2> HIDE DEF verdict
  <2>2. UNCHANGED sessionKey
    BY <2>1 DEF RefuseMessage
  <2>3. CASE verdict = "403_SECURE_CHANNEL_REQUIRED" /\ chan[c][PairKey(c, t)] \notin Live
    <3>1. StartHandshake(c, PairKey(c, t)) /\ OfferChannel(c, t)
      BY <2>1, <2>3 DEF RefuseMessage
    <3>2. QED
      BY <1>1, <2>2, <2>3, <3>1, AgreeOffered
  <2>4. CASE ~ (verdict = "403_SECURE_CHANNEL_REQUIRED" /\ chan[c][PairKey(c, t)] \notin Live)
    <3>1. UNCHANGED <<chan, pendingKey, uplink>>
      BY <2>1, <2>4 DEF RefuseMessage, StartHandshake
    <3>2. InTransit' \subseteq InTransit \union {}
      BY <1>1, <3>1 DEF InTransit
    <3>3. QED
      BY <1>1, <2>2, <3>1, <3>2, AgreeQuiet DEF AgreementInv
  <2>5. QED
    BY <2>3, <2>4
<1>4. QED
  BY <1>2, <1>3

\* A command of a user.
LEMMA AgreeCommand ==
    ASSUME IInv, AgreementInv, NEW c \in Clients, Commands(c)
    PROVE  AgreementInv'
<1>1. ACTypeOK /\ CommandLines
  BY Parts DEF IInv, Controllers
<1>2. ASSUME NEW t \in Others(c), HandleMsg(c, t)
      PROVE  AgreementInv'
  <2>1. LoggedIn(c) /\ EnsureKnown(c, t) /\ SendText(c, t)
    BY <1>2 DEF HandleMsg
  <2>2. \A d \in Clients : LoggedIn(d)' <=> LoggedIn(d)
    BY <1>1, <2>1, MeetsOthers DEF Others
  <2>3. QED
    BY <2>1, <2>2, AgreeText
<1>3. ASSUME HandleFreeText(c)
      PROVE  AgreementInv'
  <2>1. PICK t : t = chatTarget[c]
    OBVIOUS
  <2>2. LoggedIn(c) /\ t \in Others(c) /\ SendText(c, t) /\ UNCHANGED activeSessions
    BY <1>1, <1>3, <2>1 DEF HandleFreeText, CommandLines, Others
  <2>3. \A d \in Clients : LoggedIn(d)' <=> LoggedIn(d)
    BY <2>2 DEF LoggedIn, IsActive
  <2>4. QED
    BY <2>2, <2>3, AgreeText
<1>4. CASE HandleLeave(c) \/ PollNotifications(c)
  <2>1. UNCHANGED <<chan, sessionKey, pendingKey, activeSessions, netVars>>
    BY <1>4 DEF HandleLeave, PollNotifications, PullNotifications, acVars, keVars
  <2>2. \A d \in Clients : LoggedIn(d)' <=> LoggedIn(d)
    BY <2>1 DEF LoggedIn, IsActive
  <2>3. InTransit' \subseteq InTransit \union {}
    BY <2>1 DEF InTransit, netVars
  <2>4. QED
    BY <2>1, <2>2, <2>3, AgreeQuiet DEF netVars, AgreementInv
<1>5. QED
  BY <1>2, <1>3, <1>4, AgreeUser, AgreeLogout, AgreeChat DEF Commands

-----------------------------------------------------------------------------
(***************************************************************************)
(* Incoming frames, and the wires.                                         *)
(***************************************************************************)

\* A channel established is of the pending key, or of a new one where there was no
\* record, and of a key of the peer's that was on the way.
LEMMA AgreeEstablished ==
    ASSUME IInv, IInv', AgreementInv, NEW c \in Clients,
           NEW f \in Genuine, f \in InTransit, f.type = "HANDSHAKE_INIT", f.to = c,
           NEW g, InTransit' \subseteq InTransit \union {g},
           \/ AnswerHandshake(c, f) /\ g = ReplyFrame(c, f)
           \/ CompleteHandshake(c, f) /\ g = f,
           UNCHANGED <<logins, relayed>>
    PROVE  AgreementInv'
<1>a. PICK p, r, d, h :
          p = PairKey(f.from, f.to) /\ r = f.pub /\ d = f.from /\ h = FreshKey(c)
  OBVIOUS
<1>1. /\ logins \in [Clients -> 0 .. MaxLogins] /\ OneKeyEach /\ KETypeOK
      /\ SessionsCounted /\ WiresGenuine /\ KeysOwned /\ KeyIffActive
      /\ p \in Pairs /\ d \in Clients /\ d # c /\ p = PairKey(c, d)
      /\ r \in MadeKeys(d)
  BY <1>a, GenuineParts, ClientsAreUsers
  DEF IInv, WireInv, TypeOK, AgreementInv, ACTypeOK, PairKey
<1>2. PICK k : /\ EstablishChannel(c, f, k)
               /\ \/ /\ k = pendingKey[c][p] /\ k # NoKey /\ g = f
                  \/ /\ k = h /\ CanMakeKey(c) /\ pendingKey[c][p] = NoKey
                     /\ g = ReplyFrame(c, f)
  BY <1>a DEF AnswerHandshake, CompleteHandshake
<1>3. /\ HandshakeHeeded(c, f) /\ LoggedIn(c)
      /\ chan' = [chan EXCEPT ![c][p] = "ACTIVE"]
      /\ sessionKey' = [sessionKey EXCEPT ![c][p] = DeriveKey(k, r)]
      /\ pendingKey' = [pendingKey EXCEPT ![c][p] = NoKey]
      /\ UNCHANGED activeSessions
  BY <1>a, <1>2
  DEF EstablishChannel, ActivateSecureChannel, PopPendingKey, SetPendingKey,
      HandshakeHeeded, LoggedIn
<1>4. \A a \in Clients, q \in Pairs :
         /\ chan'[a][q] = IF a = c /\ q = p THEN "ACTIVE" ELSE chan[a][q]
         /\ sessionKey'[a][q] = IF a = c /\ q = p THEN DeriveKey(k, r) ELSE sessionKey[a][q]
         /\ pendingKey'[a][q] = IF a = c /\ q = p THEN NoKey ELSE pendingKey[a][q]
  BY <1>1, <1>3 DEF KETypeOK
<1>5. k # pendingKey[c][p] => chan[c][p] = "NONE" \/ logins[c] > 1
  <2>1. ASSUME pendingKey[c][p] = NoKey
        PROVE  chan[c][p] \notin Live
    <3>1. chan[c][p] # "ESTABLISHING"
      BY <1>1, <2>1 DEF AgreementInv
    <3>2. chan[c][p] # "ACTIVE"
      BY <1>a, <1>1, <1>3 DEF HandshakeHeeded, KeyIffActive
    <3>3. QED
      BY <3>1, <3>2 DEF Live
  <2>2. QED
    BY <1>1, <1>2, <1>3, <2>1, NoRecordYet
<1>6. k \in LocalKeys /\ k[1] = c /\ r[1] = d
  <2>1. MadeKeys(c) \subseteq LocalKeys
    BY <1>1, BoundsAssumption DEF KETypeOK, MadeKeys, LocalKeys
  <2>2. pendingKey[c][p] # NoKey => pendingKey[c][p] \in MadeKeys(c)
    BY <1>1 DEF KeysOwned
  <2>3. CanMakeKey(c) => h \in LocalKeys /\ h[1] = c
    BY <1>a, <1>1, FreshKeyLocal DEF FreshKey
  <2>4. QED
    BY <1>1, <1>2, <2>1, <2>2, <2>3 DEF MadeKeys
<1>7. ASSUME NEW a \in Clients, NEW b \in Clients, a # b, NEW x \in KeysFor(a, b)'
      PROVE  x \in KeysFor(a, b) \/ (a = c /\ b = d /\ x = h /\ k # pendingKey[c][p])
  <2> DEFINE new == a = c /\ b = d /\ x = h /\ k # pendingKey[c][p]
  <2>1. PairKey(a, b) \in Pairs /\ x # NoKey /\ x \in LocalKeys /\ x[1] = a
    BY <1>7, UsersPair, ClientsAreUsers, KeysAssumption DEF KeysFor, KeyIds
  <2>2. PairKey(a, b) = p => (a = c /\ b = d) \/ (a = d /\ b = c)
    BY <1>1, PairsApart
  <2>3. x = pendingKey'[a][PairKey(a, b)] => x = pendingKey[a][PairKey(a, b)]
    BY <1>4, <2>1
  <2>4. f \in Offers(d, c) /\ f.pub = r
    BY <1>a DEF Offers
  <2>5. x \in DeriveKey(k, r) /\ PairKey(a, b) = p => x \in KeysFor(a, b) \/ new
    <3>1. CASE a = c /\ b = d /\ x = k
      <4>1. k = pendingKey[c][p] => k \in KeysFor(c, d)
        BY <1>1, <1>6 DEF KeysFor
      <4>2. k # pendingKey[c][p] => k = h
        BY <1>2
      <4>3. QED
        BY <3>1, <4>1, <4>2
    <3>2. CASE a = d /\ b = c /\ x = r
      <4>1. x \in KeysFor(d, c)
        BY <2>1, <2>4, <3>2 DEF KeysFor
      <4>2. QED
        BY <3>2, <4>1
    <3>3. x \in DeriveKey(k, r) /\ PairKey(a, b) = p =>
             (a = c /\ b = d /\ x = k) \/ (a = d /\ b = c /\ x = r)
      BY <1>1, <1>6, <2>1, <2>2 DEF DeriveKey
    <3>4. QED
      BY <3>1, <3>2, <3>3
  <2>6. ASSUME NEW e \in Offers(a, b)', e.pub = x
        PROVE  e \in Offers(a, b) \/ new
    <3>1. CASE e \in InTransit
      BY <2>6, <3>1 DEF Offers
    <3>2. CASE e = g /\ e \notin InTransit
      <4>1. g = ReplyFrame(c, f) /\ k = h /\ pendingKey[c][p] = NoKey
        BY <1>2, <3>2
      <4>2. e.from = c /\ e.to = d /\ e.pub = h
        BY <1>a, <3>2, <4>1 DEF ReplyFrame, HandshakeFrame
      <4>3. k # NoKey
        BY <1>6, KeysAssumption DEF KeyIds
      <4>4. e.from = a /\ e.to = b
        BY <2>6 DEF Offers
      <4>5. QED
        BY <2>6, <4>1, <4>2, <4>3, <4>4
    <3>3. QED
      BY <2>6, <3>1, <3>2 DEF Offers
  <2> HIDE DEF new
  <2>7. x \in KeysFor(a, b) \/ new
    <3>1. \A e \in {a, b} : x \in sessionKey'[e][PairKey(a, b)] =>
             \/ x \in sessionKey[e][PairKey(a, b)]
             \/ x \in DeriveKey(k, r) /\ PairKey(a, b) = p
      BY <1>4, <2>1
    <3>2. QED
      BY <1>7, <2>3, <2>5, <2>6, <3>1, KeysForFrom
  <2>8. QED
    BY <2>7 DEF new
<1>8. OneKeyEach'
  <2>1. \A a, b \in Clients : a # b => PairKey(a, b) \in Pairs
    BY UsersPair, ClientsAreUsers
  <2>2. \A a, b \in Clients : a # b =>
           /\ chan'[a][PairKey(a, b)] = "NONE" =>
                  /\ chan[a][PairKey(a, b)] = "NONE"
                  /\ KeysFor(a, b)' \subseteq KeysFor(a, b)
           /\ \A x \in KeysFor(a, b)' :
                  \/ x \in KeysFor(a, b)
                  \/ chan[a][PairKey(a, b)] = "NONE" /\ x = FreshKey(a)
                  \/ logins[a] > 1
    BY <1>a, <1>1, <1>4, <1>5, <1>7, <2>1
  <2>3. QED
    BY <1>1, <2>2, MessengerBounds, OneKeyStill
<1>9. SessionsCounted'
  <2>1. \A a \in Clients : LoggedIn(a)' <=> LoggedIn(a)
    BY <1>3 DEF LoggedIn, IsActive
  <2>2. QED
    BY <1>1, <1>4, <2>1 DEF SessionsCounted
<1>10. QED
  BY <1>4, <1>8, <1>9 DEF AgreementInv

\* A frame drained.
LEMMA AgreeDrain ==
    ASSUME IInv, IInv', AgreementInv, NEW c \in Clients, Drain(c)
    PROVE  AgreementInv'
<1>a. PICK f : f = Head(incoming[c])
  OBVIOUS
<1>1. ACTypeOK /\ WiresGenuine /\ incoming[c] \in Seq(Genuine)
  BY DEF IInv, WireInv, TypeOK, WiresGenuine
<1>2. incoming[c] # << >> /\ f \in Genuine /\ f.to = c /\ f \in InTransit
  <2>1. incoming[c] # << >>
    BY DEF Drain, DrainHandshake, LoseBatch, DrainDuplicate, DrainMessage, TakeFrame
  <2>2. f \in Range(incoming[c])
    BY <1>a, <1>1, <2>1, RangeTail
  <2>3. QED
    BY <1>a, <1>1, <2>1, <2>2, HeadGenuine DEF InTransit
<1>3. CASE DrainHandshake(c) \/ LoseBatch(c)
  <2>1. PICK g : \/ AnswerHandshake(c, f) /\ g = ReplyFrame(c, f)
                 \/ CompleteHandshake(c, f) /\ g = f
                 \/ UNCHANGED acVars /\ g = f
    BY <1>a, <1>3 DEF DrainHandshake, LoseBatch
  <2>2. \A d \in Clients : Range(incoming'[d]) \subseteq Range(incoming[d])
    BY <1>1, <1>2, <1>3, QueueTaken DEF DrainHandshake, LoseBatch, TakeFrame
  <2>3. /\ f.type = "HANDSHAKE_INIT" /\ UNCHANGED <<logins, relayed>>
        /\ \/ UNCHANGED uplink
           \/ AnswerHandshake(c, f) /\ Transmit(c, ReplyFrame(c, f))
    BY <1>a, <1>3 DEF DrainHandshake, LoseBatch, TakeFrame
  <2>4. CASE UNCHANGED uplink
    <3>1. InTransit' \subseteq InTransit \union {}
      BY <2>2, <2>4, TransitWithin
    <3>2. CASE UNCHANGED acVars
      <4>1. UNCHANGED <<chan, sessionKey, pendingKey, activeSessions>>
        BY <3>2 DEF acVars, keVars
      <4>2. \A d \in Clients : LoggedIn(d)' <=> LoggedIn(d)
        BY <4>1 DEF LoggedIn, IsActive
      <4>3. QED
        BY <2>3, <3>1, <4>1, <4>2, AgreeQuiet DEF AgreementInv
    <3>3. CASE AnswerHandshake(c, f) \/ CompleteHandshake(c, f)
      BY <1>2, <2>3, <3>1, <3>3, AgreeEstablished
    <3>4. QED
      BY <2>1, <3>2, <3>3
  <2>5. CASE AnswerHandshake(c, f) /\ Transmit(c, ReplyFrame(c, f))
    <3>1. InTransit' \subseteq InTransit \union {ReplyFrame(c, f)}
      BY <1>1, <2>2, <2>5, UplinkSent, TransitWithin
    <3>2. QED
      BY <1>2, <2>3, <2>5, <3>1, AgreeEstablished
  <2>6. QED
    BY <2>3, <2>4, <2>5
<1>4. CASE DrainDuplicate(c) \/ DrainMessage(c)
  <2>1. /\ incoming' = [incoming EXCEPT ![c] = Tail(@)]
        /\ UNCHANGED <<chan, sessionKey, pendingKey, logins, relayed, uplink>>
        /\ UNCHANGED activeSessions \/ EnsureKnown(c, f.from)
    BY <1>a, <1>4
    DEF DrainDuplicate, DrainMessage, DecryptMessage, TakeFrame, acVars, keVars
  <2>2. f.from \in Users /\ f.from # c
    BY <1>2, GenuineParts
  <2>3. \A d \in Clients : LoggedIn(d)' <=> LoggedIn(d)
    <3>1. CASE UNCHANGED activeSessions
      BY <3>1 DEF LoggedIn, IsActive
    <3>2. CASE EnsureKnown(c, f.from)
      BY <1>1, <2>2, <3>2, MeetsOthers
    <3>3. QED
      BY <2>1, <3>1, <3>2
  <2>4. \A d \in Clients : Range(incoming'[d]) \subseteq Range(incoming[d])
    BY <1>1, <1>2, <2>1, QueueTaken
  <2>5. InTransit' \subseteq InTransit \union {}
    BY <2>1, <2>4, TransitWithin
  <2>6. QED
    BY <2>1, <2>3, <2>5, AgreeQuiet DEF AgreementInv
<1>5. QED
  BY <1>3, <1>4 DEF Drain

\* A frame moved along the wires, delivered again or lost with its connection, is no
\* new handshake.
LEMMA AgreeWires ==
    ASSUME IInv, AgreementInv, NEW c \in Clients,
           RelayForward(c) \/ Redeliver(c) \/ LinkLost(c)
    PROVE  AgreementInv'
<1>1. /\ WiresGenuine /\ uplink[c] \in Seq(Genuine) /\ Len(uplink[c]) \in Nat
      /\ \A f \in relayed : f.type = "MESSAGE"
  BY LenProperties DEF IInv, WireInv, WiresGenuine, AgreementInv
<1>2. UNCHANGED <<chan, sessionKey, pendingKey, activeSessions, logins>>
  BY DEF RelayForward, Redeliver, LinkLost, acVars, keVars
<1>3. \A d \in Clients : LoggedIn(d)' <=> LoggedIn(d)
  BY <1>2 DEF LoggedIn, IsActive
<1>4. CASE RelayForward(c)
  <2>1. PICK f : f = Head(uplink[c])
    OBVIOUS
  <2>2. /\ uplink[c] # << >> /\ uplink' = [uplink EXCEPT ![c] = Tail(@)]
        /\ \/ incoming' = [incoming EXCEPT ![f.to] = Append(@, f)]
           \/ UNCHANGED incoming
        /\ \/ UNCHANGED relayed
           \/ relayed' = relayed \union {f} /\ f.type = "MESSAGE"
    BY <1>4, <2>1 DEF RelayForward
  <2>3. Range(Tail(uplink[c])) \subseteq Range(uplink[c]) /\ f \in Range(uplink[c])
    BY <1>1, <2>1, <2>2, RangeTail
  <2>4. \A d \in Clients : Range(uplink'[d]) \subseteq Range(uplink[d]) \union {f}
    BY <1>1, <2>2, <2>3 DEF WiresGenuine
  <2>5. ASSUME NEW d \in Clients
        PROVE  Range(incoming'[d]) \subseteq Range(incoming[d]) \union {f}
    <3>1. incoming[d] \in Seq(Genuine)
      BY <1>1 DEF WiresGenuine
    <3>2. incoming'[d] = incoming[d] \/ incoming'[d] = Append(incoming[d], f)
      BY <1>1, <2>2 DEF WiresGenuine
    <3>3. QED
      BY <3>1, <3>2, RangeQueued
  <2>6. InTransit' \subseteq InTransit \union {f}
    BY <2>4, <2>5, TransitWithin
  <2>7. f \in InTransit
    BY <2>3 DEF InTransit
  <2>8. InTransit' \subseteq InTransit \union {}
    BY <2>6, <2>7
  <2>9. QED
    BY <1>1, <1>2, <1>3, <2>2, <2>8, AgreeQuiet
<1>5. CASE Redeliver(c)
  <2>1. PICK f \in relayed : incoming' = [incoming EXCEPT ![c] = Append(@, f)]
    BY <1>5 DEF Redeliver
  <2>2. UNCHANGED <<uplink, relayed>>
    BY <1>5 DEF Redeliver
  <2>3. ASSUME NEW d \in Clients
        PROVE  Range(incoming'[d]) \subseteq Range(incoming[d]) \union {f}
    <3>1. incoming[d] \in Seq(Genuine)
      BY <1>1 DEF WiresGenuine
    <3>2. incoming'[d] = incoming[d] \/ incoming'[d] = Append(incoming[d], f)
      BY <1>1, <2>1 DEF WiresGenuine
    <3>3. QED
      BY <3>1, <3>2, RangeQueued
  <2>4. InTransit' \subseteq InTransit \union {f}
    BY <2>2, <2>3, TransitWithin
  <2>5. QED
    BY <1>1, <1>2, <1>3, <2>2, <2>4, AgreeQuiet
<1>6. CASE LinkLost(c)
  <2>1. /\ UNCHANGED relayed
        /\ \E n \in 0 .. Len(incoming[c]) :
               incoming' = [incoming EXCEPT ![c] = SubSeq(@, 1, n)]
    BY <1>6 DEF LinkLost
  <2>2. PICK n \in 0 .. Len(uplink[c]) : uplink' = [uplink EXCEPT ![c] = SubSeq(@, 1, n)]
    BY <1>6 DEF LinkLost
  <2>3. \A d \in Clients : Range(incoming'[d]) \subseteq Range(incoming[d])
    BY <1>1, <2>1, QueueTaken
  <2>4. \A d \in Clients : Range(uplink'[d]) \subseteq Range(uplink[d])
    BY <1>1, <2>2, RangeCut DEF WiresGenuine
  <2>5. InTransit' \subseteq InTransit \union {}
    BY <2>3, <2>4, TransitWithin
  <2>6. QED
    BY <1>1, <1>2, <1>3, <2>1, <2>5, AgreeQuiet
<1>7. QED
  BY <1>4, <1>5, <1>6

\* Every step keeps each process to one key for each peer, until it logs in anew.
LEMMA AgreeNext == IInv /\ AgreementInv /\ [Next]_vars => AgreementInv'
<1> SUFFICES ASSUME IInv, AgreementInv, [Next]_vars
             PROVE  AgreementInv'
  OBVIOUS
<1>1. IInv'
  BY InvNext
<1>2. ASSUME NEW c \in Clients, Command(c)
      PROVE  AgreementInv'
  BY <1>2, AgreeCommand DEF Command
<1>3. ASSUME NEW c \in Clients, Drain(c)
      PROVE  AgreementInv'
  BY <1>1, <1>3, AgreeDrain
<1>4. CASE TimePasses \/ UNCHANGED vars
  <2>1. UNCHANGED <<chan, sessionKey, pendingKey, activeSessions, netVars>>
    BY <1>4 DEF TimePasses, vars, acVars, keVars
  <2>2. \A d \in Clients : LoggedIn(d)' <=> LoggedIn(d)
    BY <2>1 DEF LoggedIn, IsActive
  <2>3. InTransit' \subseteq InTransit \union {}
    BY <2>1 DEF InTransit, netVars
  <2>4. QED
    BY <2>1, <2>2, <2>3, AgreeQuiet DEF netVars, AgreementInv
<1>5. QED
  BY <1>2, <1>3, <1>4, AgreeWires DEF Next

-----------------------------------------------------------------------------
(***************************************************************************)
(* Agreement.                                                              *)
(***************************************************************************)

\* Where there are no records, no frames and no keys, nothing disagrees.
LEMMA AgreeNothing ==
    ASSUME KEInit, uplink = [c \in Clients |-> << >>],
           incoming = [c \in Clients |-> << >>], relayed = {},
           \A c \in Clients : LoggedIn(c) => logins[c] # 0
    PROVE  AgreementInv
<1>1. InTransit = {}
  BY DEF InTransit, Range
<1>2. \A a, b \in Clients : a # b => KeysFor(a, b) = {}
  <2> SUFFICES ASSUME NEW a \in Clients, NEW b \in Clients, a # b,
                      NEW k \in KeysFor(a, b)
               PROVE  FALSE
    OBVIOUS
  <2>1. PairKey(a, b) \in Pairs
    BY UsersPair, ClientsAreUsers
  <2>2. k # NoKey
    BY KeysAssumption DEF KeysFor, KeyIds
  <2>3. QED
    BY <1>1, <2>1, <2>2 DEF KeysFor, KEInit, NoSecret, Offers
<1>3. \A c \in Clients, p \in Pairs : chan[c][p] = "NONE"
  BY DEF KEInit
<1>4. QED
  BY <1>2, <1>3 DEF AgreementInv, OneKeyEach, SessionsCounted

\* Two ends that hold one key each for the other hold the same secret.
LEMMA OneKeyAgrees ==
    ASSUME IInv, AgreementInv, NEW c \in Clients, NEW d \in Clients, c # d,
           logins[c] <= 1, logins[d] <= 1,
           chan[c][PairKey(c, d)] = "ACTIVE", chan[d][PairKey(c, d)] = "ACTIVE"
    PROVE  sessionKey[c][PairKey(c, d)] = sessionKey[d][PairKey(c, d)]
<1>a. PICK p : p = PairKey(c, d)
  OBVIOUS
<1>1. /\ p \in Pairs /\ p = PairKey(d, c) /\ OneKeyEach /\ KETypeOK /\ KeysOwned
      /\ sessionKey[c][p] # NoSecret /\ sessionKey[d][p] # NoSecret
  BY <1>a, UsersPair, ClientsAreUsers
  DEF PairKey, AgreementInv, IInv, WireInv, TypeOK, ACTypeOK, KeyIffActive
<1>2. PICK k \in MadeKeys(c), r \in MadeKeys(d) : sessionKey[c][p] = DeriveKey(k, r)
  <2>1. PICK e \in Others(c) :
            /\ p = PairKey(c, e)
            /\ \E k \in MadeKeys(c), r \in MadeKeys(e) : sessionKey[c][p] = DeriveKey(k, r)
    BY <1>1 DEF KeysOwned, SecretOf
  <2>2. e = d
    BY <1>a, <2>1, PairsApart
  <2>3. QED
    BY <2>1, <2>2
<1>3. PICK l \in MadeKeys(d), s \in MadeKeys(c) : sessionKey[d][p] = DeriveKey(l, s)
  <2>1. PICK e \in Others(d) :
            /\ p = PairKey(d, e)
            /\ \E l \in MadeKeys(d), s \in MadeKeys(e) : sessionKey[d][p] = DeriveKey(l, s)
    BY <1>1 DEF KeysOwned, SecretOf
  <2>2. e = c
    BY <1>a, <1>1, <2>1, PairsApart
  <2>3. QED
    BY <2>1, <2>2
<1>4. \A a \in Clients : \A x \in MadeKeys(a) : x \in LocalKeys /\ x[1] = a
  BY <1>1, BoundsAssumption DEF KETypeOK, MadeKeys, LocalKeys
<1>5. k \in KeysFor(c, d) /\ s \in KeysFor(c, d)
  BY <1>a, <1>2, <1>3, <1>4 DEF KeysFor, DeriveKey
<1>6. r \in KeysFor(d, c) /\ l \in KeysFor(d, c)
  BY <1>1, <1>2, <1>3, <1>4 DEF KeysFor, DeriveKey
<1>7. k = s /\ r = l
  BY <1>5, <1>6 DEF AgreementInv, OneKeyEach
<1>8. QED
  BY <1>a, <1>2, <1>3, <1>7 DEF DeriveKey

\* Each process keeps to one key for each peer until its second login.
THEOREM AgreementInvariance == Spec => []AgreementInv
<1>1. Init => AgreementInv
  BY AgreeNothing DEF Init, ACInit, LoggedIn, IsActive
<1>2. QED
  BY <1>1, AgreeNext, InvInitially, InvNext, PTL DEF Spec

\* Offers that cross, replies that come late, frames that go stale or are lost: in the
\* first session of both, two ACTIVE ends hold the same secret.
THEOREM FirstSessionAgreementHolds == Spec => []FirstSessionAgreement
<1>1. IInv /\ AgreementInv => FirstSessionAgreement
  BY OneKeyAgrees DEF FirstSessionAgreement
<1>2. QED
  BY <1>1, Invariance, AgreementInvariance, PTL

-----------------------------------------------------------------------------
(***************************************************************************)
(* Both users connected, and staying so.                                   *)
(***************************************************************************)
Staying == \A c \in Clients : logins[c] = 1 /\ LoggedIn(c)

\* Two users who have just logged in satisfy the invariant,
LEMMA OnlineInitially == OnlineInit => IInv /\ AgreementInv /\ Staying
<1> SUFFICES ASSUME OnlineInit PROVE IInv /\ AgreementInv /\ Staying
  OBVIOUS
<1>1. Controllers
  BY BoundsAssumption, ClientsAreUsers
  DEF OnlineInit, KEInit, Controllers, ACTypeOK, KETypeOK, ChannelStates, KeysOwned
<1>2. CommandLines
  BY ClientsAreUsers, MessengerBounds DEF OnlineInit, CommandLines
<1>3. WiresGenuine
  BY EmptySeq DEF OnlineInit, WiresGenuine
<1>4. Links
  BY MessengerBounds, OneLogin DEF OnlineInit, Links
<1>5. DeliveredWasAccepted
  BY DEF OnlineInit, DeliveredWasAccepted
<1>6. Sealed
  BY DEF OnlineInit, KEInit, Sealed, KeyIffActive, AcceptedSealed
<1>7. IInv
  BY <1>1, <1>2, <1>3, <1>4, <1>5, <1>6, Parts, InvSplit
<1>8. Staying
  BY DEF Staying, OnlineInit, LoggedIn, IsActive
<1>9. AgreementInv
  BY <1>8, AgreeNothing DEF OnlineInit, Staying
<1>10. QED
  BY <1>7, <1>8, <1>9

\* their steps are steps of the messenger,
LEMMA OnlineSteps == [OnlineNext]_vars => [Next]_vars
BY DEF OnlineNext, Next

\* and nobody logs out or in again.
LEMMA StayingNext == IInv /\ Staying /\ [OnlineNext]_vars => Staying'
<1> SUFFICES ASSUME IInv, Staying, [OnlineNext]_vars
             PROVE  Staying'
  OBVIOUS
<1>1. ACTypeOK /\ WiresGenuine /\ CommandLines
  BY Parts DEF IInv, Controllers
<1>2. ASSUME UNCHANGED logins,
             \/ UNCHANGED activeSessions
             \/ \E c \in Clients, u \in Users : u # c /\ EnsureKnown(c, u)
      PROVE  Staying'
  <2>1. \A d \in Clients : LoggedIn(d)' <=> LoggedIn(d)
    BY <1>1, <1>2, MeetsOthers DEF LoggedIn, IsActive
  <2>2. QED
    BY <1>2, <2>1 DEF Staying
<1>3. ASSUME NEW c \in Clients, Commands(c), connected' = Users
      PROVE  Staying'
  <2>1. ~ HandleUser(c)
    BY DEF Staying, HandleUser, Register, RegisterUser, LoggedIn
  <2>2. ~ HandleLogout(c)
    BY <1>3, ClientsAreUsers DEF HandleLogout
  <2>3. UNCHANGED logins
    BY <1>3, <2>1, <2>2
    DEF Commands, HandleChat, HandleMsg, HandleFreeText, SendText, HandleLeave,
        PollNotifications, netVars
  <2>4. \/ UNCHANGED activeSessions
        \/ \E u \in Users : u # c /\ EnsureKnown(c, u)
    BY <1>3, <2>1, <2>2
    DEF Commands, HandleChat, HandleMsg, HandleFreeText, HandleLeave, Others,
        PollNotifications, PullNotifications, acVars
  <2>5. QED
    BY <1>2, <2>3, <2>4
<1>4. ASSUME NEW c \in Clients, Drain(c)
      PROVE  Staying'
  <2>1. PICK f : f = Head(incoming[c])
    OBVIOUS
  <2>2. CASE DrainMessage(c)
    <3>1. /\ incoming[c] # << >> /\ EnsureKnown(c, f.from) /\ UNCHANGED logins
      BY <2>1, <2>2 DEF DrainMessage, TakeFrame
    <3>2. f.from \in Users /\ f.from # c
      BY <1>1, <2>1, <3>1, HeadGenuine, GenuineParts
    <3>3. QED
      BY <1>2, <3>1, <3>2
  <2>3. CASE DrainHandshake(c) \/ LoseBatch(c) \/ DrainDuplicate(c)
    <3>1. UNCHANGED <<activeSessions, logins>>
      BY <2>3
      DEF DrainHandshake, LoseBatch, DrainDuplicate, AnswerHandshake, CompleteHandshake,
          EstablishChannel, acVars
    <3>2. QED
      BY <1>2, <3>1
  <2>4. QED
    BY <1>4, <2>2, <2>3 DEF Drain
<1>5. ASSUME NEW c \in Clients, RelayForward(c) \/ Redeliver(c)
      PROVE  Staying'
  BY <1>2, <1>5 DEF RelayForward, Redeliver, acVars
<1>6. CASE TimePasses \/ UNCHANGED vars
  BY <1>2, <1>6 DEF TimePasses, vars, acVars, netVars
<1>7. ASSUME NEW c \in Clients, LinkLost(c), connected' = Users
      PROVE  FALSE
  BY <1>7, ClientsAreUsers DEF LinkLost
<1>8. QED
  BY <1>3, <1>4, <1>5, <1>6, <1>7 DEF OnlineNext, Next, Command

\* While connections stay and no send times out the two ends of an ACTIVE channel hold
\* the same secret, whoever offered first and whatever is delivered twice.
THEOREM KeyAgreementHolds == OnlineSpec => []KeyAgreement
<1>1. IInv /\ AgreementInv /\ Staying => KeyAgreement
  BY OneKeyAgrees DEF KeyAgreement, Staying
<1>2. IInv /\ AgreementInv /\ Staying /\ [OnlineNext]_vars
          => (IInv /\ AgreementInv /\ Staying)'
  BY OnlineSteps, InvNext, AgreeNext, StayingNext
<1>3. QED
  BY <1>1, <1>2, OnlineInitially, PTL DEF OnlineSpec
=============================================================================
