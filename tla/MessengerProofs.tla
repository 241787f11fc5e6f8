-------------------------- MODULE MessengerProofs --------------------------
(***************************************************************************)
(* What TLAPS proves of Messenger, for every value of the constants.       *)
(*                                                                         *)
(* WireInv says of the frames under way what the properties say of the     *)
(* messages that were read: nobody but their sender made them, nor the     *)
(* keys they carry.  It is split by who writes a variable: the controllers *)
(* (Controllers), the command lines (CommandLines), the wires              *)
(* (WiresGenuine) and the environment (Links).  A handler keeps the parts  *)
(* it does not write because what a controller has accepted, and the keys  *)
(* it has made, only grow.  That nothing is sent in clear comes on top, by *)
(* the agreement of key and state, which takes whole handlers.             *)
(***************************************************************************)
EXTENDS Messenger, AppControllerProofs, SequenceTheorems

Controllers == ACTypeOK /\ KeysOwned

CommandLines ==
    /\ chatTarget \in [Clients -> Users \union {NoUser}]
    /\ \A c \in Clients : chatTarget[c] # c
    /\ seenIds \in [Clients -> Seq(LocalNonces)]
    /\ \A c \in Clients : Len(seenIds[c]) <= DedupWindow

Links ==
    /\ connected \subseteq Users /\ ended \subseteq Clients
    /\ logins \in [Clients -> 0 .. MaxLogins]
    /\ dups \in 0 .. MaxDups /\ losses \in 0 .. MaxLosses

\* What only grows, whatever a controller does.
Grows ==
    \A d \in Clients : /\ accepted[d] \subseteq accepted'[d]
                       /\ MadeKeys(d) \subseteq MadeKeys(d)'

\* The invariant is these parts.
LEMMA Parts ==
    WireInv <=> /\ Controllers /\ CommandLines /\ WiresGenuine /\ Links
             /\ DeliveredWasAccepted
<1>1. Genuine \subseteq Frames
  BY DEF Genuine
<1>2. WiresGenuine => /\ uplink \in [Clients -> Seq(Frames)]
                      /\ incoming \in [Clients -> Seq(Frames)]
                      /\ relayed \subseteq Frames
  BY <1>1, SeqMonotonic DEF WiresGenuine
<1>3. QED
  BY <1>2 DEF WireInv, TypeOK, Controllers, CommandLines, Links

\* What the frames of the wires are made of.
LEMMA GenuineParts ==
    \A f \in Genuine :
        /\ f.from \in Users /\ f.to \in Users /\ f.from # f.to
        /\ PairKey(f.from, f.to) \in Pairs
        /\ f.type \in {"HANDSHAKE_INIT", "MESSAGE"}
        /\ f.type = "HANDSHAKE_INIT" =>
               /\ f.pub \in LocalKeys /\ f.pub \in KeyIds
               /\ f.pub \in MadeKeys(f.from)
        /\ f.type = "MESSAGE" =>
               /\ f.nonce \in LocalNonces /\ f.nonce \in Nonces
               /\ Receipt(f) \in Receipts
               /\ Receipt(f) \in accepted[f.from]
<1> TAKE f \in Genuine
<1>1. /\ f \in Frames /\ f.from # f.to
      /\ f.type = "HANDSHAKE_INIT" => f.pub \in MadeKeys(f.from)
      /\ f.type = "MESSAGE" => Receipt(f) \in accepted[f.from]
  BY DEF Genuine
<1>2. CASE f \in [type : {"HANDSHAKE_INIT"}, from : Users, to : Users,
                  pub : LocalKeys, at : 0 .. MaxClock]
  BY <1>1, <1>2, UsersPair DEF KeyIds
<1>3. CASE f \in [type : {"MESSAGE"}, from : Users, to : Users,
                  nonce : LocalNonces, key : Secret, at : 0 .. MaxClock]
  BY <1>1, <1>3, UsersPair DEF Receipts, Receipt, Nonces
<1>4. QED
  BY <1>1, <1>2, <1>3 DEF Frames

\* A step that accepts nothing and makes no key,
LEMMA GrowsSame ==
    ASSUME UNCHANGED <<accepted, keysMade>>
    PROVE  Grows
BY DEF Grows, MadeKeys

\* and one that makes a key, which is then one of those made.
LEMMA MadeGrow ==
    ASSUME KETypeOK, NEW c \in Clients, GenerateKeypair(c)
    PROVE  /\ \A d \in Clients : MadeKeys(d) \subseteq MadeKeys(d)'
           /\ FreshKey(c) \in MadeKeys(c)'
BY BoundsAssumption DEF KETypeOK, GenerateKeypair, MadeKeys, FreshKey

\* A store that is not written keeps what is its own,
LEMMA KeysSame ==
    ASSUME KeysOwned, UNCHANGED <<sessionKey, pendingKey, keysMade>>
    PROVE  KeysOwned'
BY DEF KeysOwned, SecretOf, MadeKeys

\* and so does one whose entries stay, are dropped, or are made of the keys there are.
LEMMA KeysOwnedStep ==
    ASSUME KeysOwned, Grows,
           \A d \in Clients, q \in Pairs :
               /\ pendingKey'[d][q] \in {pendingKey[d][q], NoKey} \union MadeKeys(d)'
               /\ \/ sessionKey'[d][q] \in {sessionKey[d][q], NoSecret}
                  \/ SecretOf(d, q)'
    PROVE  KeysOwned'
<1> SUFFICES ASSUME NEW d \in Clients, NEW q \in Pairs
             PROVE  /\ pendingKey'[d][q] # NoKey => pendingKey'[d][q] \in MadeKeys(d)'
                    /\ sessionKey'[d][q] # NoSecret => SecretOf(d, q)'
  BY DEF KeysOwned
<1>1. pendingKey'[d][q] # NoKey => pendingKey'[d][q] \in MadeKeys(d)'
  BY DEF KeysOwned, Grows
<1>2. ASSUME sessionKey'[d][q] = sessionKey[d][q], sessionKey[d][q] # NoSecret
      PROVE  SecretOf(d, q)'
  <2>1. PICK e \in Others(d) : /\ q = PairKey(d, e)
                              /\ \E k \in MadeKeys(d), r \in MadeKeys(e) :
                                     sessionKey[d][q] = DeriveKey(k, r)
    BY <1>2 DEF KeysOwned, SecretOf
  <2>2. MadeKeys(d) \subseteq MadeKeys(d)' /\ MadeKeys(e) \subseteq MadeKeys(e)'
    BY ClientsAreUsers DEF Grows, Others
  <2>3. QED
    BY <1>2, <2>1, <2>2 DEF SecretOf
<1>3. QED
  BY <1>1, <1>2

\* What was genuine stays so while what the controllers accepted and the keys they
\* made only grow.
LEMMA GenuineGrows ==
    ASSUME Grows
    PROVE  /\ Genuine \subseteq Genuine'
           /\ \A c \in Clients : GenuineFor(c) \subseteq GenuineFor(c)'
<1>1. ASSUME NEW f \in Genuine
      PROVE  f \in Genuine'
  <2>1. f.from \in Clients
    BY GenuineParts, ClientsAreUsers
  <2>2. QED
    BY <2>1 DEF Genuine, Grows
<1>2. QED
  BY <1>1 DEF GenuineFor

\* Wires nobody writes stay genuine.
LEMMA WiresStay ==
    ASSUME WiresGenuine, Grows
    PROVE  /\ uplink \in [Clients -> Seq(Genuine')]
           /\ incoming \in [Clients -> Seq(Genuine')]
           /\ \A c \in Clients : incoming[c] \in Seq(GenuineFor(c)')
           /\ relayed \subseteq Genuine'
<1>1. /\ Genuine \subseteq Genuine'
      /\ \A c \in Clients : GenuineFor(c) \subseteq GenuineFor(c)'
  BY GenuineGrows
<1>2. \A c \in Clients : /\ uplink[c] \in Seq(Genuine')
                         /\ incoming[c] \in Seq(Genuine')
                         /\ incoming[c] \in Seq(GenuineFor(c)')
  BY <1>1, SeqMonotonic DEF WiresGenuine
<1>3. QED
  BY <1>1, <1>2 DEF WiresGenuine

\* The same, of the whole invariant on wires.
LEMMA WiresUnchanged ==
    ASSUME WiresGenuine, Grows,
           UNCHANGED <<uplink, incoming, relayed>>
    PROVE  WiresGenuine'
BY WiresStay DEF WiresGenuine

\* A frame sent is queued behind the others, or lost.
LEMMA TransmitKeeps ==
    ASSUME NEW S, uplink \in [Clients -> Seq(S)], ended \subseteq Clients,
           NEW c \in Clients, NEW f \in S, Transmit(c, f)
    PROVE  uplink' \in [Clients -> Seq(S)] /\ ended' \subseteq Clients
<1>1. Append(uplink[c], f) \in Seq(S)
  OBVIOUS
<1>2. QED
  BY <1>1 DEF Transmit

\* A prefix of a sequence, and what is left after one, have its elements.
LEMMA CutSeq ==
    ASSUME NEW S, NEW s \in Seq(S), NEW n \in 0 .. Len(s)
    PROVE  SubSeq(s, 1, n) \in Seq(S) /\ SubSeq(s, n + 1, Len(s)) \in Seq(S)
<1>1. /\ Len(s) \in Nat
      /\ \A i \in 1 .. Len(s) : s[i] \in S
  BY ElementOfSeq, LenProperties
<1>2. SubSeq(s, 1, n) \in Seq(S)
  BY <1>1, SubSeqProperties
<1>3. SubSeq(s, n + 1, Len(s)) \in Seq(S)
  BY <1>1, SubSeqProperties
<1>4. QED
  BY <1>2, <1>3

\* What was read before stays accepted.
LEMMA DeliveredStays ==
    ASSUME ACTypeOK, DeliveredWasAccepted,
           Grows,
           UNCHANGED delivered
    PROVE  DeliveredWasAccepted'
<1> SUFFICES ASSUME NEW c \in Clients, NEW i \in DOMAIN delivered[c]
             PROVE  /\ delivered[c][i].to = c
                    /\ delivered[c][i] \in accepted'[delivered[c][i].from]
  BY DEF DeliveredWasAccepted
<1>1. delivered[c][i] \in Receipts
  BY DEF ACTypeOK
<1>2. delivered[c][i].from \in Clients
  BY <1>1, ClientsAreUsers DEF Receipts
<1>3. QED
  BY <1>2 DEF DeliveredWasAccepted, Grows

\* The parts after a step make the invariant after it.
LEMMA PartsNext ==
    ASSUME Controllers', CommandLines', WiresGenuine', Links', DeliveredWasAccepted'
    PROVE  WireInv'
<1>1. Genuine' \subseteq Frames
  BY DEF Genuine, Frames
<1>2. /\ uplink' \in [Clients -> Seq(Frames)]
      /\ incoming' \in [Clients -> Seq(Frames)]
      /\ relayed' \subseteq Frames
  BY <1>1, SeqMonotonic DEF WiresGenuine
<1>3. QED
  BY <1>2 DEF WireInv, TypeOK, Controllers, CommandLines, Links

\* Initially everything is empty.
LEMMA InvInit == Init => WireInv
<1> SUFFICES ASSUME Init PROVE WireInv
  OBVIOUS
<1>1. Controllers
  BY BoundsAssumption DEF Init, ACInit, KEInit, Controllers, ACTypeOK, KETypeOK,
                          ChannelStates, KeysOwned
<1>2. CommandLines
  BY ClientsAreUsers, MessengerBounds DEF Init, CommandLines
<1>3. WiresGenuine
  BY EmptySeq DEF Init, WiresGenuine
<1>4. Links
  BY MessengerBounds DEF Init, Links
<1>5. DeliveredWasAccepted
  BY DEF Init, ACInit, DeliveredWasAccepted
<1>6. QED
  BY <1>1, <1>2, <1>3, <1>4, <1>5, Parts

-----------------------------------------------------------------------------
(***************************************************************************)
(* Commands.                                                               *)
(***************************************************************************)

\* /user opens a session and a connection.
LEMMA InvUser ==
    ASSUME WireInv, NEW c \in Clients, HandleUser(c)
    PROVE  WireInv'
<1>1. /\ Controllers /\ CommandLines /\ WiresGenuine /\ Links /\ DeliveredWasAccepted
      /\ c \in Users
  BY Parts, ClientsAreUsers
<1>2. Register(c, c) /\ UNCHANGED <<clock, cliVars, uplink, incoming, relayed, dups, losses>>
  BY DEF HandleUser
<1>3. /\ UNCHANGED <<sessionKey, pendingKey, keysMade, accepted, delivered>>
      /\ Grows
  BY <1>2, GrowsSame DEF Register, keVars
<1>4. Controllers'
  BY <1>1, <1>2, <1>3, TypeRegister, KeysSame DEF Controllers
<1>5. CommandLines'
  BY <1>1, <1>2 DEF CommandLines, cliVars
<1>6. WiresGenuine'
  BY <1>1, <1>2, <1>3, WiresUnchanged
<1>7. Links'
  BY <1>1, MessengerBounds DEF HandleUser, Links
<1>8. DeliveredWasAccepted'
  BY <1>1, <1>3, DeliveredStays DEF Controllers
<1>9. QED
  BY <1>4, <1>5, <1>6, <1>7, <1>8, PartsNext

\* /logout closes both, and what was on the wire may be cut short.
LEMMA InvLogout ==
    ASSUME WireInv, NEW c \in Clients, HandleLogout(c)
    PROVE  WireInv'
<1>1. /\ Controllers /\ CommandLines /\ WiresGenuine /\ Links /\ DeliveredWasAccepted
      /\ c \in Users
  BY Parts, ClientsAreUsers
<1>2. /\ Disconnect(c, c)
      /\ UNCHANGED <<clock, seenIds, uplink, relayed, logins, dups, ended, losses>>
  BY DEF HandleLogout
<1>3. UNCHANGED <<keysMade, accepted, delivered>> /\ Grows
  BY <1>2, GrowsSame DEF Disconnect
<1>4. Controllers'
  <2>1. \A d \in Clients, q \in Pairs :
           /\ pendingKey'[d][q] \in {pendingKey[d][q], NoKey}
           /\ sessionKey'[d][q] \in {sessionKey[d][q], NoSecret}
    BY <1>1, <1>2 DEF Controllers, ACTypeOK, KETypeOK, Disconnect,
                      InvalidateUserChannels, Without
  <2>2. KeysOwned'
    BY <1>1, <1>3, <2>1, KeysOwnedStep DEF Controllers
  <2>3. QED
    BY <1>1, <1>2, <2>2, TypeDisconnect DEF Controllers
<1>5. CommandLines'
  <2>1. chatTarget' = [chatTarget EXCEPT ![c] = NoUser] /\ NoUser \notin Clients
    BY ClientsAreUsers DEF HandleLogout
  <2>2. QED
    BY <1>1, <1>2, <2>1 DEF CommandLines
<1>6. WiresGenuine'
  <2>1. PICK n \in 0 .. Len(incoming[c]) :
            incoming' = [incoming EXCEPT ![c] = SubSeq(@, 1, n)]
    BY DEF HandleLogout
  <2>2. /\ uplink' \in [Clients -> Seq(Genuine')]
        /\ incoming \in [Clients -> Seq(Genuine')]
        /\ \A d \in Clients : incoming[d] \in Seq(GenuineFor(d)')
        /\ relayed' \subseteq Genuine'
    BY <1>1, <1>2, <1>3, WiresStay
  <2>3. /\ SubSeq(incoming[c], 1, n) \in Seq(Genuine')
        /\ SubSeq(incoming[c], 1, n) \in Seq(GenuineFor(c)')
    BY <2>2, CutSeq
  <2>4. QED
    BY <2>1, <2>2, <2>3 DEF WiresGenuine
<1>7. Links'
  BY <1>1, <1>2 DEF HandleLogout, Links
<1>8. DeliveredWasAccepted'
  BY <1>1, <1>3, DeliveredStays DEF Controllers
<1>9. QED
  BY <1>4, <1>5, <1>6, <1>7, <1>8, PartsNext

\* A name that gets a session on sight is a user.
LEMMA EnsureKnownType ==
    ASSUME ACTypeOK, NEW c \in Clients, NEW u \in Users, EnsureKnown(c, u)
    PROVE  /\ activeSessions' \in [Clients -> SUBSET Users]
           /\ knownUsers' \in [Clients -> SUBSET Users]
<1>1. CASE u \in knownUsers[c]
  BY <1>1 DEF ACTypeOK, EnsureKnown
<1>2. CASE u \notin knownUsers[c]
  <2>1. RegisterUser(c, u)
    BY <1>2 DEF EnsureKnown
  <2>2. QED
    BY <2>1 DEF ACTypeOK, RegisterUser
<1>3. QED
  BY <1>1, <1>2

\* Meeting somebody else neither opens nor closes a session of one's own.
LEMMA MeetsOthers ==
    ASSUME ACTypeOK, NEW c \in Clients, NEW u \in Users, u # c, EnsureKnown(c, u)
    PROVE  \A d \in Clients : LoggedIn(d)' <=> LoggedIn(d)
<1>1. CASE u \in knownUsers[c]
  BY <1>1 DEF EnsureKnown, LoggedIn, IsActive
<1>2. CASE u \notin knownUsers[c]
  <2>1. activeSessions' = [activeSessions EXCEPT ![c] = @ \union {u}]
    BY <1>2 DEF EnsureKnown, RegisterUser
  <2>2. \A d \in Clients : d \in activeSessions'[d] <=> d \in activeSessions[d]
    BY <2>1 DEF ACTypeOK
  <2>3. QED
    BY <2>2 DEF LoggedIn, IsActive
<1>3. QED
  BY <1>1, <1>2

\* An offer goes out under a fresh key.
LEMMA OfferGenuine ==
    ASSUME ACTypeOK, KeysOwned, WiresGenuine, NEW c \in Clients, NEW t \in Others(c),
           OfferChannel(c, t), UNCHANGED <<sessionKey, accepted>>,
           ended \subseteq Clients
    PROVE  /\ KeysOwned' /\ Grows
           /\ pendingKey' \in [Clients -> [Pairs -> LocalKeys \union {NoKey}]]
           /\ keysMade' \in [Clients -> 0 .. MaxKeys]
           /\ uplink' \in [Clients -> Seq(Genuine')]
           /\ ended' \subseteq Clients
<1>1. c \in Users /\ t \in Users /\ c # t /\ PairKey(c, t) \in Pairs
  BY ClientsAreUsers, UsersPair DEF Others
<1>2. /\ pendingKey' \in [Clients -> [Pairs -> LocalKeys \union {NoKey}]]
      /\ keysMade' \in [Clients -> 0 .. MaxKeys]
  BY <1>1, PendingType DEF OfferChannel
<1>3. FreshKey(c) \in LocalKeys
  BY FreshKeyLocal DEF OfferChannel, ACTypeOK
<1>a. FreshKey(c) \in MadeKeys(c)' /\ Grows
  BY MadeGrow DEF OfferChannel, ACTypeOK, Grows
<1>b. KeysOwned'
  <2>1. \A d \in Clients, q \in Pairs :
           pendingKey'[d][q] \in {pendingKey[d][q], NoKey} \union MadeKeys(d)'
    BY <1>1, <1>a DEF OfferChannel, SetPendingKey, ACTypeOK, KETypeOK
  <2>2. QED
    BY <1>a, <2>1, KeysOwnedStep
<1>4. OfferFrame(c, c, t) \in Genuine'
  BY <1>1, <1>3, <1>a DEF OfferFrame, HandshakeFrame, Genuine, Frames, ACTypeOK, KETypeOK
<1>5. uplink \in [Clients -> Seq(Genuine')]
  BY <1>a, WiresStay
<1> HIDE DEF Genuine, OfferFrame
<1>6. uplink' \in [Clients -> Seq(Genuine')] /\ ended' \subseteq Clients
  BY <1>4, <1>5, TransmitKeeps DEF OfferChannel
<1>7. QED
  BY <1>2, <1>6, <1>a, <1>b

\* /chat starts a handshake unless there is one, and offers a key.
LEMMA InvChat ==
    ASSUME WireInv, NEW c \in Clients, NEW t \in Others(c), HandleChat(c, t)
    PROVE  WireInv'
<1>1. /\ Controllers /\ CommandLines /\ WiresGenuine /\ Links /\ DeliveredWasAccepted
      /\ ACTypeOK /\ KETypeOK
      /\ c \in Users /\ t \in Users /\ c # t /\ PairKey(c, t) \in Pairs
  BY Parts, ClientsAreUsers, UsersPair DEF Controllers, ACTypeOK, Others
<1>2. /\ EnsureKnown(c, t)
      /\ chatTarget' = [chatTarget EXCEPT ![c] = t]
      /\ StartHandshake(c, PairKey(c, t))
      /\ \/ UNCHANGED <<pendingKey, keysMade, uplink, ended>>
         \/ OfferChannel(c, t)
      /\ UNCHANGED <<clock, sessionKey, remoteFp, seenNonces, mailbox, msgsMade,
                     accepted, delivered, seenIds, incoming, connected, relayed,
                     logins, dups, losses>>
  BY DEF HandleChat
<1>3. /\ KeysOwned' /\ Grows
      /\ pendingKey' \in [Clients -> [Pairs -> LocalKeys \union {NoKey}]]
      /\ keysMade' \in [Clients -> 0 .. MaxKeys]
      /\ uplink' \in [Clients -> Seq(Genuine')]
      /\ ended' \subseteq Clients
  <2>1. CASE UNCHANGED <<pendingKey, keysMade, uplink, ended>>
    BY <1>1, <1>2, <2>1, GrowsSame, KeysSame, WiresStay
    DEF Controllers, ACTypeOK, KETypeOK, Links
  <2>2. CASE OfferChannel(c, t)
    BY <1>1, <1>2, <2>2, OfferGenuine DEF Controllers, Links
  <2>3. QED
    BY <1>2, <2>1, <2>2
<1>4. Controllers'
  <2>1. /\ chan' \in [Clients -> [Pairs -> ChannelStates]]
        /\ startedAt' \in [Clients -> [Pairs -> 0 .. MaxClock]]
    BY <1>1, <1>2, StartHandshakeType
  <2>2. /\ activeSessions' \in [Clients -> SUBSET Users]
        /\ knownUsers' \in [Clients -> SUBSET Users]
    BY <1>1, <1>2, EnsureKnownType
  <2>3. ACTypeOK'
    BY <1>1, <1>2, <1>3, <2>1, <2>2 DEF ACTypeOK, KETypeOK
  <2>4. QED
    BY <1>3, <2>3 DEF Controllers
<1>5. CommandLines'
  BY <1>1, <1>2 DEF CommandLines
<1>6. WiresGenuine'
  BY <1>1, <1>2, <1>3, WiresStay DEF WiresGenuine
<1>7. Links'
  BY <1>1, <1>2, <1>3 DEF Links
<1>8. DeliveredWasAccepted'
  BY <1>1, <1>2, <1>3, DeliveredStays
<1>9. QED
  BY <1>4, <1>5, <1>6, <1>7, <1>8, PartsNext

\* An accepted text goes out under the key of the channel.
LEMMA InvSendAccepted ==
    ASSUME WireInv, NEW c \in Clients, NEW t \in Others(c),
           SendVerdict(activeSessions'[c], c, c, t) = "MESSAGE_ACCEPTED",
           SendText(c, t),
           activeSessions' \in [Clients -> SUBSET Users],
           knownUsers' \in [Clients -> SUBSET Users]
    PROVE  WireInv'
<1> DEFINE p == PairKey(c, t)
           f == OutgoingFrame(c, c, t)
<1>1. /\ Controllers /\ CommandLines /\ WiresGenuine /\ Links /\ DeliveredWasAccepted
      /\ ACTypeOK /\ KETypeOK
      /\ c \in Users /\ t \in Users /\ c # t /\ p \in Pairs
  BY Parts, ClientsAreUsers, UsersPair DEF Controllers, ACTypeOK, Others
<1>2. /\ AcceptMessage(c, c, t) /\ Transmit(c, f)
      /\ UNCHANGED <<clock, cliVars, incoming, connected, relayed, logins, dups, losses>>
  BY DEF SendText
<1>3. /\ msgsMade' \in [Clients -> 0 .. MaxMsgs]
      /\ accepted' \in [Clients -> SUBSET Receipts]
      /\ msgsMade[c] + 1 \in 1 .. MaxMsgs
  BY <1>1, <1>2, AcceptType
<1>4. UNCHANGED <<keVars, keysMade, mailbox, delivered>>
  BY <1>2 DEF AcceptMessage
<1>5. accepted' = [accepted EXCEPT ![c] = @ \union {Receipt(f)}]
  BY <1>2 DEF AcceptMessage
<1>6. Grows /\ Receipt(f) \in accepted'[c]
  BY <1>1, <1>4, <1>5 DEF ACTypeOK, Grows, MadeKeys
<1>8. f \in Genuine'
  <2>1. sessionKey[c][p] \in Secret
    BY <1>1 DEF KETypeOK, Secret
  <2>2. /\ f.type = "MESSAGE" /\ f.from = c /\ f.to = t /\ f.key = sessionKey[c][p]
        /\ f \in Frames
    BY <1>1, <1>3, <2>1 DEF OutgoingFrame, MessageFrame, Frames, LocalNonces, KETypeOK
  <2> HIDE DEF f
  <2>3. QED
    BY <1>1, <1>6, <2>1, <2>2 DEF Genuine
<1> HIDE DEF f
<1>9. Controllers'
  <2>1. ACTypeOK'
    BY <1>1, <1>2, <1>3, <1>4 DEF ACTypeOK, KETypeOK, keVars
  <2>2. QED
    BY <1>1, <1>4, <2>1, KeysSame DEF Controllers, keVars
<1>10. CommandLines'
  BY <1>1, <1>2 DEF CommandLines, cliVars
<1>11. WiresGenuine' /\ ended' \subseteq Clients
  <2>1. /\ uplink \in [Clients -> Seq(Genuine')]
        /\ incoming \in [Clients -> Seq(Genuine')]
        /\ \A d \in Clients : incoming[d] \in Seq(GenuineFor(d)')
        /\ relayed \subseteq Genuine'
    BY <1>1, <1>6, WiresStay
  <2>2. uplink' \in [Clients -> Seq(Genuine')] /\ ended' \subseteq Clients
    BY <1>1, <1>2, <1>8, <2>1, TransmitKeeps DEF Links
  <2>3. QED
    BY <1>2, <2>1, <2>2 DEF WiresGenuine
<1>12. Links'
  BY <1>1, <1>2, <1>11 DEF Links
<1>13. DeliveredWasAccepted'
  BY <1>1, <1>4, <1>6, DeliveredStays
<1>14. QED
  BY <1>9, <1>10, <1>11, <1>12, <1>13, PartsNext

\* A refused one may send an offer instead.
LEMMA InvSendRefused ==
    ASSUME WireInv, NEW c \in Clients, NEW t \in Others(c),
           SendVerdict(activeSessions'[c], c, c, t) # "MESSAGE_ACCEPTED",
           SendText(c, t),
           activeSessions' \in [Clients -> SUBSET Users],
           knownUsers' \in [Clients -> SUBSET Users]
    PROVE  WireInv'
<1> DEFINE p == PairKey(c, t)
           verdict == SendVerdict(activeSessions'[c], c, c, t)
<1>1. /\ Controllers /\ CommandLines /\ WiresGenuine /\ Links /\ DeliveredWasAccepted
      /\ ACTypeOK /\ KETypeOK
      /\ c \in Users /\ t \in Users /\ c # t /\ p \in Pairs
  BY Parts, ClientsAreUsers, UsersPair DEF Controllers, ACTypeOK, Others
<1>2. /\ RefuseMessage(c, c, t, verdict)
      /\ \/ UNCHANGED <<pendingKey, keysMade, uplink, ended>>
         \/ OfferChannel(c, t)
      /\ UNCHANGED <<clock, cliVars, incoming, connected, relayed, logins, dups, losses>>
  BY DEF SendText
<1>3. /\ \/ StartHandshake(c, p)
         \/ UNCHANGED <<chan, startedAt>>
      /\ UNCHANGED <<sessionKey, remoteFp, seenNonces, msgsMade, accepted, delivered>>
  BY <1>2 DEF RefuseMessage
<1>4. /\ KeysOwned' /\ Grows
      /\ pendingKey' \in [Clients -> [Pairs -> LocalKeys \union {NoKey}]]
      /\ keysMade' \in [Clients -> 0 .. MaxKeys]
      /\ uplink' \in [Clients -> Seq(Genuine')]
      /\ ended' \subseteq Clients
  <2>1. CASE UNCHANGED <<pendingKey, keysMade, uplink, ended>>
    BY <1>1, <1>3, <2>1, GrowsSame, KeysSame, WiresStay
    DEF Controllers, ACTypeOK, KETypeOK, Links
  <2>2. CASE OfferChannel(c, t)
    BY <1>1, <1>3, <2>2, OfferGenuine DEF Controllers, Links
  <2>3. QED
    BY <1>2, <2>1, <2>2
<1>5. Controllers'
  <2>1. /\ chan' \in [Clients -> [Pairs -> ChannelStates]]
        /\ startedAt' \in [Clients -> [Pairs -> 0 .. MaxClock]]
        /\ mailbox' \in [Clients -> [Users -> SUBSET NoticeCodes]]
    BY <1>1, <1>2, RefuseType
  <2>2. ACTypeOK'
    BY <1>1, <1>2, <1>3, <1>4, <2>1 DEF ACTypeOK, KETypeOK
  <2>3. QED
    BY <1>4, <2>2 DEF Controllers
<1>6. CommandLines'
  BY <1>1, <1>2 DEF CommandLines, cliVars
<1>7. WiresGenuine'
  BY <1>1, <1>2, <1>3, <1>4, WiresStay DEF WiresGenuine
<1>8. Links'
  BY <1>1, <1>2, <1>4 DEF Links
<1>9. DeliveredWasAccepted'
  BY <1>1, <1>3, <1>4, DeliveredStays
<1>10. QED
  BY <1>5, <1>6, <1>7, <1>8, <1>9, PartsNext

\* /msg sends to the name given,
LEMMA InvMsg ==
    ASSUME WireInv, NEW c \in Clients, NEW t \in Others(c), HandleMsg(c, t)
    PROVE  WireInv'
<1>1. /\ activeSessions' \in [Clients -> SUBSET Users]
      /\ knownUsers' \in [Clients -> SUBSET Users]
  BY Parts, EnsureKnownType DEF HandleMsg, Controllers, Others
<1>2. QED
  BY <1>1, InvSendAccepted, InvSendRefused DEF HandleMsg

\* and a line of free text to the chat's target.
LEMMA InvFreeText ==
    ASSUME WireInv, NEW c \in Clients, HandleFreeText(c)
    PROVE  WireInv'
<1> DEFINE t == chatTarget[c]
<1>1. t \in Others(c)
  BY Parts DEF CommandLines, HandleFreeText, Others
<1>2. /\ activeSessions' \in [Clients -> SUBSET Users]
      /\ knownUsers' \in [Clients -> SUBSET Users]
  BY Parts DEF HandleFreeText, Controllers, ACTypeOK
<1>3. SendText(c, t)
  BY DEF HandleFreeText
<1> HIDE DEF t
<1>4. QED
  BY <1>1, <1>2, <1>3, InvSendAccepted, InvSendRefused

\* /leave forgets the target,
LEMMA InvLeave ==
    ASSUME WireInv, NEW c \in Clients, HandleLeave(c)
    PROVE  WireInv'
<1>1. /\ Controllers /\ CommandLines /\ WiresGenuine /\ Links /\ DeliveredWasAccepted
  BY Parts
<1>2. UNCHANGED <<clock, acVars, seenIds, netVars>>
  BY DEF HandleLeave
<1>3. Controllers' /\ Grows
  BY <1>1, <1>2, KeysSame, GrowsSame DEF Controllers, ACTypeOK, KETypeOK, acVars, keVars
<1>4. CommandLines'
  BY <1>1, <1>2, ClientsAreUsers DEF CommandLines, HandleLeave
<1>5. WiresGenuine' /\ DeliveredWasAccepted'
  BY <1>1, <1>2, <1>3, WiresUnchanged, DeliveredStays DEF Controllers, acVars, netVars
<1>6. Links'
  BY <1>1, <1>2 DEF Links, netVars
<1>7. QED
  BY <1>3, <1>4, <1>5, <1>6, PartsNext

\* and a pull empties the user's box.
LEMMA InvPoll ==
    ASSUME WireInv, NEW c \in Clients, PollNotifications(c)
    PROVE  WireInv'
<1>1. /\ Controllers /\ CommandLines /\ WiresGenuine /\ Links /\ DeliveredWasAccepted
      /\ c \in Users
  BY Parts, ClientsAreUsers
<1>2. PullNotifications(c, c) /\ UNCHANGED <<clock, cliVars, netVars>>
  BY DEF PollNotifications
<1>3. /\ UNCHANGED <<sessionKey, pendingKey, keysMade, accepted, delivered>>
      /\ Grows
  BY <1>2, GrowsSame DEF PullNotifications, keVars
<1>4. Controllers'
  BY <1>1, <1>2, <1>3, TypePull, KeysSame DEF Controllers
<1>5. CommandLines'
  BY <1>1, <1>2 DEF CommandLines, cliVars
<1>6. WiresGenuine' /\ DeliveredWasAccepted'
  BY <1>1, <1>2, <1>3, WiresUnchanged, DeliveredStays DEF Controllers, netVars
<1>7. Links'
  BY <1>1, <1>2 DEF Links, netVars
<1>8. QED
  BY <1>4, <1>5, <1>6, <1>7, PartsNext

-----------------------------------------------------------------------------
(***************************************************************************)
(* Incoming frames.                                                        *)
(***************************************************************************)

\* The frame taken from a queue is genuine, and so is what stays in it.
LEMMA HeadGenuine ==
    ASSUME WiresGenuine, NEW c \in Clients, incoming[c] # << >>
    PROVE  /\ Head(incoming[c]) \in Genuine
           /\ Head(incoming[c]).to = c
           /\ Tail(incoming[c]) \in Seq(GenuineFor(c))
           /\ \A n \in 0 .. Len(incoming[c]) :
                  SubSeq(incoming[c], n + 1, Len(incoming[c])) \in Seq(GenuineFor(c))
<1>1. incoming[c] \in Seq(GenuineFor(c))
  BY DEF WiresGenuine
<1>2. /\ Head(incoming[c]) \in GenuineFor(c)
      /\ Tail(incoming[c]) \in Seq(GenuineFor(c))
  BY <1>1, HeadTailProperties
<1>3. \A n \in 0 .. Len(incoming[c]) :
          SubSeq(incoming[c], n + 1, Len(incoming[c])) \in Seq(GenuineFor(c))
  BY <1>1, CutSeq
<1>4. QED
  BY <1>2, <1>3 DEF GenuineFor

\* Taking frames from the front of a queue keeps the wires genuine.
LEMMA WiresTaken ==
    ASSUME WiresGenuine, NEW c \in Clients,
           NEW rest \in Seq(GenuineFor(c)), incoming' = [incoming EXCEPT ![c] = rest],
           Grows,
           uplink' \in [Clients -> Seq(Genuine')], UNCHANGED relayed
    PROVE  WiresGenuine'
<1>1. /\ incoming \in [Clients -> Seq(Genuine')]
      /\ \A d \in Clients : incoming[d] \in Seq(GenuineFor(d)')
      /\ relayed \subseteq Genuine'
  BY WiresStay
<1>2. GenuineFor(c) \subseteq GenuineFor(c)' /\ GenuineFor(c)' \subseteq Genuine'
  BY GenuineGrows DEF GenuineFor
<1>3. rest \in Seq(GenuineFor(c)') /\ rest \in Seq(Genuine')
  <2>1. rest \in Seq(GenuineFor(c)')
    BY <1>2, SeqMonotonic
  <2>2. QED
    BY <1>2, <2>1, SeqMonotonic
<1>4. QED
  BY <1>1, <1>3 DEF WiresGenuine

\* The chat a frame opens is with its sender, who is somebody else.
LEMMA TargetType ==
    ASSUME CommandLines, NEW c \in Clients, NEW u \in Users, u # c, AutoTarget(c, u)
    PROVE  /\ chatTarget' \in [Clients -> Users \union {NoUser}]
           /\ \A d \in Clients : chatTarget'[d] # d
<1>1. chatTarget' \in {chatTarget, [chatTarget EXCEPT ![c] = u]}
  BY DEF AutoTarget, CommandLines
<1>2. QED
  BY <1>1 DEF CommandLines

\* Establishing a channel under a key of one's own with a genuine frame makes a
\* secret of the pair.
LEMMA EstablishOwned ==
    ASSUME ACTypeOK, KeysOwned, Grows, NEW c \in Clients, NEW f \in Genuine,
           f.type = "HANDSHAKE_INIT", f.to = c,
           NEW private \in MadeKeys(c)', EstablishChannel(c, f, private)
    PROVE  KeysOwned'
<1> DEFINE p == PairKey(f.from, f.to)
           key == DeriveKey(private, f.pub)
<1>1. /\ f.from \in Others(c) /\ p = PairKey(c, f.from) /\ p \in Pairs
      /\ f.pub \in MadeKeys(f.from)'
  BY GenuineParts, ClientsAreUsers DEF Others, PairKey, Grows
<1>2. /\ sessionKey' = [sessionKey EXCEPT ![c][p] = key]
      /\ pendingKey' = [pendingKey EXCEPT ![c][p] = NoKey]
  BY DEF EstablishChannel, ActivateSecureChannel, PopPendingKey, SetPendingKey
<1>3. sessionKey'[c][p] = key
  BY <1>1, <1>2 DEF ACTypeOK, KETypeOK
<1>4. SecretOf(c, p)'
  BY <1>1, <1>3 DEF SecretOf
<1> HIDE DEF p, key
<1>5. \A d \in Clients, q \in Pairs :
         /\ pendingKey'[d][q] \in {pendingKey[d][q], NoKey}
         /\ \/ sessionKey'[d][q] = sessionKey[d][q]
            \/ d = c /\ q = p
  BY <1>1, <1>2 DEF ACTypeOK, KETypeOK
<1>6. QED
  BY <1>4, <1>5, KeysOwnedStep

\* A handshake frame that is heeded makes a channel and nothing else.
LEMMA HeededKeeps ==
    ASSUME Controllers, NEW c \in Clients, NEW f \in Genuine,
           f.type = "HANDSHAKE_INIT", f.to = c,
           AnswerHandshake(c, f) \/ CompleteHandshake(c, f), UNCHANGED clock
    PROVE  Controllers' /\ Grows /\ UNCHANGED <<accepted, delivered>>
<1>1. /\ f.to \in Users /\ f.pub \in KeyIds /\ PairKey(f.from, f.to) \in Pairs
  BY GenuineParts
<1>2. ACTypeOK'
  BY <1>1, TypeProcess DEF Controllers, ProcessHandshakeFrame
<1>3. UNCHANGED <<accepted, delivered>>
  BY DEF AnswerHandshake, CompleteHandshake, EstablishChannel
<1>4. Grows /\ \E private \in MadeKeys(c)' : EstablishChannel(c, f, private)
  <2>1. CASE AnswerHandshake(c, f)
    BY <1>3, <2>1, MadeGrow DEF Controllers, ACTypeOK, AnswerHandshake, Grows
  <2>2. CASE CompleteHandshake(c, f)
    <3>1. Grows
      BY <1>3, <2>2, GrowsSame DEF CompleteHandshake
    <3>2. pendingKey[c][PairKey(f.from, f.to)] \in MadeKeys(c)'
      BY <1>1, <2>2, <3>1 DEF CompleteHandshake, Controllers, KeysOwned, Grows
    <3>3. QED
      BY <2>2, <3>1, <3>2 DEF CompleteHandshake
  <2>3. QED
    BY <2>1, <2>2
<1>5. QED
  BY <1>2, <1>3, <1>4, EstablishOwned DEF Controllers

\* The answer to a genuine offer is genuine.
LEMMA ReplyGenuine ==
    ASSUME ACTypeOK, NEW c \in Clients, NEW f \in Genuine, f.to = c, AnswerHandshake(c, f)
    PROVE  ReplyFrame(c, f) \in Genuine'
<1>1. f.from \in Users /\ f.to \in Users /\ f.from # f.to
  BY GenuineParts
<1>2. FreshKey(c) \in LocalKeys /\ FreshKey(c) \in MadeKeys(c)'
  BY FreshKeyLocal, MadeGrow DEF ACTypeOK, AnswerHandshake
<1>3. QED
  BY <1>1, <1>2 DEF ReplyFrame, HandshakeFrame, Genuine, Frames, ACTypeOK, KETypeOK

\* A handshake frame is drained.
LEMMA InvDrainHandshake ==
    ASSUME WireInv, NEW c \in Clients, DrainHandshake(c)
    PROVE  WireInv'
<1> DEFINE f == Head(incoming[c])
<1>1. /\ Controllers /\ CommandLines /\ WiresGenuine /\ Links /\ DeliveredWasAccepted
      /\ ACTypeOK
  BY Parts DEF Controllers
<1>2. /\ incoming[c] # << >> /\ f.type = "HANDSHAKE_INIT"
      /\ incoming' = [incoming EXCEPT ![c] = Tail(@)]
      /\ AutoTarget(c, f.from)
      /\ \/ AnswerHandshake(c, f) /\ Transmit(c, ReplyFrame(c, f))
         \/ CompleteHandshake(c, f) /\ UNCHANGED <<uplink, ended>>
         \/ UNCHANGED <<acVars, uplink, ended>>
      /\ UNCHANGED <<clock, seenIds, connected, relayed, logins, dups, losses>>
  BY DEF DrainHandshake, TakeFrame
<1>3. /\ f \in Genuine /\ f.to = c
      /\ Tail(incoming[c]) \in Seq(GenuineFor(c))
  BY <1>1, <1>2, HeadGenuine
<1>4. f.from \in Users /\ f.from # c
  BY <1>3, GenuineParts
<1> HIDE DEF f
<1>5. Controllers' /\ Grows /\ UNCHANGED <<accepted, delivered>>
  <2>1. CASE AnswerHandshake(c, f) \/ CompleteHandshake(c, f)
    BY <1>1, <1>2, <1>3, <2>1, HeededKeeps
  <2>2. CASE UNCHANGED acVars
    BY <1>1, <1>2, <2>2, KeysSame, GrowsSame DEF Controllers, ACTypeOK, KETypeOK, acVars, keVars
  <2>3. QED
    BY <1>2, <2>1, <2>2
<1>6. uplink' \in [Clients -> Seq(Genuine')] /\ ended' \subseteq Clients
  <2>1. uplink \in [Clients -> Seq(Genuine')]
    BY <1>1, <1>5, WiresStay
  <2>2. CASE AnswerHandshake(c, f) /\ Transmit(c, ReplyFrame(c, f))
    BY <1>1, <1>3, <2>1, <2>2, ReplyGenuine, TransmitKeeps DEF Links
  <2>3. CASE UNCHANGED <<uplink, ended>>
    BY <1>1, <2>1, <2>3 DEF Links
  <2>4. QED
    BY <1>2, <2>2, <2>3
<1>7. WiresGenuine'
  BY <1>1, <1>2, <1>3, <1>5, <1>6, WiresTaken
<1>8. CommandLines'
  BY <1>1, <1>2, <1>4, TargetType DEF CommandLines
<1>9. Links'
  BY <1>1, <1>2, <1>6 DEF Links
<1>10. DeliveredWasAccepted'
  BY <1>1, <1>5, DeliveredStays
<1>11. QED
  BY <1>5, <1>7, <1>8, <1>9, <1>10, PartsNext

\* The answer cannot be sent, or not in time, and the rest of the batch is lost.
LEMMA InvLoseBatch ==
    ASSUME WireInv, NEW c \in Clients, LoseBatch(c)
    PROVE  WireInv'
<1> DEFINE f == Head(incoming[c])
<1>1. /\ Controllers /\ CommandLines /\ WiresGenuine /\ Links /\ DeliveredWasAccepted
      /\ ACTypeOK
  BY Parts DEF Controllers
<1>2. /\ incoming[c] # << >> /\ f.type = "HANDSHAKE_INIT"
      /\ AutoTarget(c, f.from)
      /\ AnswerHandshake(c, f) /\ Transmit(c, ReplyFrame(c, f))
      /\ \/ UNCHANGED losses
         \/ losses < MaxLosses /\ losses' = losses + 1
      /\ UNCHANGED <<clock, seenIds, connected, ended, relayed, logins, dups>>
  BY DEF LoseBatch
<1>3. PICK n \in 2 .. Len(incoming[c]) :
          incoming' = [incoming EXCEPT ![c] = SubSeq(@, n + 1, Len(@))]
  BY DEF LoseBatch
<1>4. Len(incoming[c]) \in Nat
  BY <1>1, LenProperties DEF WiresGenuine
<1>5. /\ f \in Genuine /\ f.to = c
      /\ SubSeq(incoming[c], n + 1, Len(incoming[c])) \in Seq(GenuineFor(c))
  BY <1>1, <1>2, <1>4, HeadGenuine
<1>6. f.from \in Users /\ f.from # c
  BY <1>5, GenuineParts
<1> HIDE DEF f
<1>7. Controllers' /\ Grows /\ UNCHANGED <<accepted, delivered>>
  BY <1>1, <1>2, <1>5, HeededKeeps
<1>8. WiresGenuine'
  <2>1. uplink' \in [Clients -> Seq(Genuine')]
    <3>1. uplink \in [Clients -> Seq(Genuine')]
      BY <1>1, <1>7, WiresStay
    <3>2. QED
      BY <1>1, <1>2, <1>5, <3>1, ReplyGenuine, TransmitKeeps DEF Links
  <2>2. incoming' = [incoming EXCEPT ![c] = SubSeq(incoming[c], n + 1, Len(incoming[c]))]
    BY <1>3
  <2>3. QED
    BY <1>1, <1>2, <1>5, <1>7, <2>1, <2>2, WiresTaken
<1>9. CommandLines'
  BY <1>1, <1>2, <1>6, TargetType DEF CommandLines
<1>10. Links'
  BY <1>1, <1>2, MessengerBounds DEF Links
<1>11. DeliveredWasAccepted'
  BY <1>1, <1>7, DeliveredStays
<1>12. QED
  BY <1>7, <1>8, <1>9, <1>10, <1>11, PartsNext

\* A duplicate is dropped.
LEMMA InvDrainDuplicate ==
    ASSUME WireInv, NEW c \in Clients, DrainDuplicate(c)
    PROVE  WireInv'
<1>1. /\ Controllers /\ CommandLines /\ WiresGenuine /\ Links /\ DeliveredWasAccepted
  BY Parts
<1>2. /\ incoming[c] # << >>
      /\ incoming' = [incoming EXCEPT ![c] = Tail(incoming[c])]
      /\ UNCHANGED <<clock, acVars, cliVars, uplink, connected, relayed, logins,
                     dups, ended, losses>>
  BY DEF DrainDuplicate, TakeFrame
<1>3. Controllers' /\ Grows /\ UNCHANGED <<accepted, delivered>>
  BY <1>1, <1>2, KeysSame, GrowsSame DEF Controllers, ACTypeOK, KETypeOK, acVars, keVars
<1>4. WiresGenuine'
  <2>1. uplink' \in [Clients -> Seq(Genuine')]
    BY <1>1, <1>2, <1>3, WiresStay
  <2>2. QED
    BY <1>1, <1>2, <1>3, <2>1, HeadGenuine, WiresTaken
<1>5. CommandLines' /\ Links'
  BY <1>1, <1>2 DEF CommandLines, Links, cliVars
<1>6. DeliveredWasAccepted'
  BY <1>1, <1>3, DeliveredStays DEF Controllers
<1>7. QED
  BY <1>3, <1>4, <1>5, <1>6, PartsNext

\* The window of identifiers stays within its size.
LEMMA RememberType ==
    ASSUME CommandLines, NEW c \in Clients, NEW id \in LocalNonces, Remember(c, id)
    PROVE  /\ seenIds' \in [Clients -> Seq(LocalNonces)]
           /\ \A d \in Clients : Len(seenIds'[d]) <= DedupWindow
<1> DEFINE s == seenIds[c]
           r == IF Len(s) < DedupWindow THEN s ELSE Tail(s)
<1>1. s \in Seq(LocalNonces) /\ Len(s) \in Nat /\ Len(s) <= DedupWindow
  BY LenProperties DEF CommandLines
<1>2. r \in Seq(LocalNonces) /\ Len(r) < DedupWindow /\ Len(r) \in Nat
  <2>1. CASE Len(s) < DedupWindow
    BY <1>1, <2>1
  <2>2. CASE ~ (Len(s) < DedupWindow)
    <3>1. Len(s) = DedupWindow /\ s # << >>
      BY <1>1, <2>2, MessengerBounds
    <3>2. Tail(s) \in Seq(LocalNonces) /\ Len(Tail(s)) = Len(s) - 1
      BY <1>1, <3>1, HeadTailProperties
    <3>3. QED
      BY <1>1, <2>2, <3>1, <3>2, MessengerBounds
  <2>3. QED
    BY <2>1, <2>2
<1>3. seenIds' = [seenIds EXCEPT ![c] = Append(r, id)]
  BY DEF Remember
<1> HIDE DEF r
<1>4. Append(r, id) \in Seq(LocalNonces) /\ Len(Append(r, id)) <= DedupWindow
  BY <1>2, MessengerBounds
<1>5. QED
  BY <1>3, <1>4 DEF CommandLines

\* A message is handed to the user at most once more, as its sender accepted it.
LEMMA InvDrainMessage ==
    ASSUME WireInv, NEW c \in Clients, DrainMessage(c)
    PROVE  WireInv'
<1> DEFINE m == Head(incoming[c])
<1>1. /\ Controllers /\ CommandLines /\ WiresGenuine /\ Links /\ DeliveredWasAccepted
      /\ ACTypeOK
  BY Parts DEF Controllers
<1>2. /\ incoming[c] # << >> /\ m.type = "MESSAGE"
      /\ incoming' = [incoming EXCEPT ![c] = Tail(incoming[c])]
      /\ Remember(c, m.nonce) /\ EnsureKnown(c, m.from) /\ AutoTarget(c, m.from)
      /\ \/ DecryptMessage(c, m)
         \/ UNCHANGED <<keVars, keysMade, mailbox, msgsMade, accepted, delivered>>
      /\ UNCHANGED <<clock, uplink, connected, relayed, logins, dups, ended, losses>>
  BY DEF DrainMessage, TakeFrame
<1>3. /\ m \in Genuine /\ m.to = c
      /\ Tail(incoming[c]) \in Seq(GenuineFor(c))
  BY <1>1, <1>2, HeadGenuine
<1>4. /\ m.from \in Users /\ m.from # c /\ PairKey(m.from, m.to) \in Pairs
      /\ m.nonce \in LocalNonces /\ m.nonce \in Nonces
      /\ Receipt(m) \in Receipts /\ Receipt(m) \in accepted[m.from]
  BY <1>2, <1>3, GenuineParts
<1> HIDE DEF m
<1>5. /\ UNCHANGED <<chan, startedAt, sessionKey, remoteFp, pendingKey, keysMade,
                     mailbox, msgsMade, accepted>>
      /\ Grows
  BY <1>2, GrowsSame DEF DecryptMessage, keVars
<1>6. /\ seenNonces' \in [Clients -> [Pairs -> SUBSET Nonces]]
      /\ delivered' \in [Clients -> Seq(Receipts)]
  <2>1. CASE DecryptMessage(c, m)
    BY <1>1, <1>4, <2>1, DecryptType
  <2>2. CASE UNCHANGED <<keVars, delivered>>
    BY <1>1, <2>2 DEF ACTypeOK, KETypeOK, keVars
  <2>3. QED
    BY <1>2, <2>1, <2>2
<1>7. Controllers'
  <2>1. /\ activeSessions' \in [Clients -> SUBSET Users]
        /\ knownUsers' \in [Clients -> SUBSET Users]
    BY <1>1, <1>2, <1>4, EnsureKnownType
  <2>2. ACTypeOK'
    BY <1>1, <1>2, <1>5, <1>6, <2>1 DEF ACTypeOK, KETypeOK
  <2>3. QED
    BY <1>1, <1>5, <2>2, KeysSame DEF Controllers
<1>8. CommandLines'
  BY <1>1, <1>2, <1>4, TargetType, RememberType DEF CommandLines
<1>9. WiresGenuine'
  <2>1. uplink' \in [Clients -> Seq(Genuine')]
    BY <1>1, <1>2, <1>5, WiresStay
  <2>2. QED
    BY <1>1, <1>2, <1>3, <1>5, <2>1, WiresTaken
<1>10. Links'
  BY <1>1, <1>2 DEF Links
<1>11. DeliveredWasAccepted'
  <2>1. CASE UNCHANGED delivered
    BY <1>1, <1>5, <2>1, DeliveredStays
  <2>2. CASE delivered' = [delivered EXCEPT ![c] = Append(@, Receipt(m))]
    <3> SUFFICES ASSUME NEW d \in Clients, NEW i \in DOMAIN delivered'[d]
                 PROVE  /\ delivered'[d][i].to = d
                        /\ delivered'[d][i] \in accepted[delivered'[d][i].from]
      BY <1>5 DEF DeliveredWasAccepted
    <3>1. Receipt(m).to = c /\ Receipt(m).from = m.from
      BY <1>3 DEF Receipt
    <3>2. delivered[c] \in Seq(Receipts) /\ delivered \in [Clients -> Seq(Receipts)]
      BY <1>1 DEF ACTypeOK
    <3>3. CASE d = c /\ i = Len(delivered[c]) + 1
      <4>1. delivered'[d][i] = Receipt(m)
        BY <2>2, <3>2, <3>3
      <4>2. QED
        BY <1>4, <3>1, <3>3, <4>1
    <3>4. CASE ~ (d = c /\ i = Len(delivered[c]) + 1)
      <4>1. i \in DOMAIN delivered[d] /\ delivered'[d][i] = delivered[d][i]
        BY <2>2, <3>2, <3>4
      <4>2. QED
        BY <1>1, <4>1 DEF DeliveredWasAccepted
    <3>5. QED
      BY <3>3, <3>4
  <2>3. QED
    BY <1>2, <2>1, <2>2 DEF DecryptMessage
<1>12. QED
  BY <1>7, <1>8, <1>9, <1>10, <1>11, PartsNext

-----------------------------------------------------------------------------
(***************************************************************************)
(* The relay, the transport and the clock.                                 *)
(***************************************************************************)

\* A frame queued for its addressee keeps the wires genuine.
LEMMA QueueGenuine ==
    ASSUME WiresGenuine, NEW f \in Genuine,
           incoming' = [incoming EXCEPT ![f.to] = Append(@, f)]
    PROVE  /\ incoming' \in [Clients -> Seq(Genuine)]
           /\ \A c \in Clients : incoming'[c] \in Seq(GenuineFor(c))
<1>1. f.to \in Clients /\ f \in GenuineFor(f.to)
  BY GenuineParts, ClientsAreUsers DEF GenuineFor
<1>2. /\ Append(incoming[f.to], f) \in Seq(Genuine)
      /\ Append(incoming[f.to], f) \in Seq(GenuineFor(f.to))
  BY <1>1 DEF WiresGenuine
<1>3. QED
  BY <1>1, <1>2 DEF WiresGenuine

\* A step of the environment that leaves what was accepted leaves alone what
\* is genuine.
LEMMA GenuineSame ==
    ASSUME UNCHANGED <<accepted, keysMade>>
    PROVE  Genuine' = Genuine /\ \A c : GenuineFor(c)' = GenuineFor(c)
BY DEF Genuine, GenuineFor, MadeKeys

\* The controllers and the command lines have no part in such a step.
LEMMA OthersStay ==
    ASSUME WireInv, UNCHANGED <<acVars, cliVars>>, clock' \in 0 .. MaxClock
    PROVE  /\ Controllers' /\ CommandLines' /\ DeliveredWasAccepted'
           /\ Grows /\ UNCHANGED <<accepted, keysMade>>
<1>1. Controllers /\ CommandLines /\ DeliveredWasAccepted
  BY Parts
<1>2. Controllers' /\ Grows /\ UNCHANGED <<accepted, keysMade, delivered>>
  BY <1>1, KeysSame, GrowsSame DEF Controllers, ACTypeOK, KETypeOK, acVars, keVars
<1>3. CommandLines'
  BY <1>1 DEF CommandLines, cliVars
<1>4. QED
  BY <1>1, <1>2, <1>3, DeliveredStays DEF Controllers

\* The relay routes the oldest frame of a connection.
LEMMA InvRelay ==
    ASSUME WireInv, NEW c \in Clients, RelayForward(c)
    PROVE  WireInv'
<1> DEFINE f == Head(uplink[c])
<1>1. WiresGenuine /\ Links /\ clock \in 0 .. MaxClock
  BY Parts DEF Controllers, ACTypeOK, KETypeOK
<1>2. /\ uplink[c] # << >>
      /\ uplink' = [uplink EXCEPT ![c] = Tail(@)]
      /\ \/ /\ incoming' = [incoming EXCEPT ![f.to] = Append(@, f)]
            /\ relayed' \in {relayed, relayed \union {f}}
         \/ UNCHANGED <<incoming, relayed>>
      /\ UNCHANGED <<clock, acVars, cliVars, connected, logins, dups, ended, losses>>
  BY DEF RelayForward
<1>3. f \in Genuine /\ Tail(uplink[c]) \in Seq(Genuine)
  BY <1>1, <1>2, HeadTailProperties DEF WiresGenuine
<1> HIDE DEF f
<1>4. /\ Controllers' /\ CommandLines' /\ DeliveredWasAccepted'
      /\ Grows /\ UNCHANGED <<accepted, keysMade>>
  BY <1>1, <1>2, OthersStay
<1>5. uplink' \in [Clients -> Seq(Genuine)] /\ relayed' \subseteq Genuine
  BY <1>1, <1>2, <1>3 DEF WiresGenuine
<1>6. /\ incoming' \in [Clients -> Seq(Genuine)]
      /\ \A d \in Clients : incoming'[d] \in Seq(GenuineFor(d))
  BY <1>1, <1>2, <1>3, QueueGenuine DEF WiresGenuine
<1>7. WiresGenuine'
  BY <1>4, <1>5, <1>6, GenuineSame DEF WiresGenuine
<1>8. Links'
  BY <1>1, <1>2 DEF Links
<1>9. QED
  BY <1>4, <1>7, <1>8, PartsNext

\* A message is delivered again.
LEMMA InvRedeliver ==
    ASSUME WireInv, NEW c \in Clients, Redeliver(c)
    PROVE  WireInv'
<1>1. WiresGenuine /\ Links /\ clock \in 0 .. MaxClock
  BY Parts DEF Controllers, ACTypeOK, KETypeOK
<1>2. PICK f \in relayed :
          f.to = c /\ incoming' = [incoming EXCEPT ![c] = Append(@, f)]
  BY DEF Redeliver
<1>3. /\ dups < MaxDups /\ dups' = dups + 1
      /\ UNCHANGED <<clock, acVars, cliVars, uplink, connected, ended, relayed,
                     logins, losses>>
  BY DEF Redeliver
<1>4. /\ Controllers' /\ CommandLines' /\ DeliveredWasAccepted'
      /\ Grows /\ UNCHANGED <<accepted, keysMade>>
  BY <1>1, <1>3, OthersStay
<1>5. f \in Genuine
  BY <1>1 DEF WiresGenuine
<1>6. /\ incoming' \in [Clients -> Seq(Genuine)]
      /\ \A d \in Clients : incoming'[d] \in Seq(GenuineFor(d))
  BY <1>1, <1>2, <1>5, QueueGenuine
<1>7. WiresGenuine'
  BY <1>1, <1>3, <1>4, <1>6, GenuineSame DEF WiresGenuine
<1>8. Links'
  BY <1>1, <1>3, MessengerBounds DEF Links
<1>9. QED
  BY <1>4, <1>7, <1>8, PartsNext

\* A connection is lost with what was on it.
LEMMA InvLinkLost ==
    ASSUME WireInv, NEW c \in Clients, LinkLost(c)
    PROVE  WireInv'
<1>1. WiresGenuine /\ Links /\ clock \in 0 .. MaxClock
  BY Parts DEF Controllers, ACTypeOK, KETypeOK
<1>2. /\ losses < MaxLosses /\ losses' = losses + 1
      /\ connected' = connected \ {c}
      /\ UNCHANGED <<clock, acVars, cliVars, ended, relayed, logins, dups>>
  BY DEF LinkLost
<1>3. PICK n \in 0 .. Len(incoming[c]) :
          incoming' = [incoming EXCEPT ![c] = SubSeq(@, 1, n)]
  BY DEF LinkLost
<1>4. PICK k \in 0 .. Len(uplink[c]) : uplink' = [uplink EXCEPT ![c] = SubSeq(@, 1, k)]
  BY DEF LinkLost
<1>5. /\ Controllers' /\ CommandLines' /\ DeliveredWasAccepted'
      /\ Grows /\ UNCHANGED <<accepted, keysMade>>
  BY <1>1, <1>2, OthersStay
<1>6. WiresGenuine'
  <2>1. /\ SubSeq(incoming[c], 1, n) \in Seq(Genuine)
        /\ SubSeq(incoming[c], 1, n) \in Seq(GenuineFor(c))
        /\ SubSeq(uplink[c], 1, k) \in Seq(Genuine)
    BY <1>1, CutSeq DEF WiresGenuine
  <2>2. /\ incoming' \in [Clients -> Seq(Genuine)]
        /\ \A d \in Clients : incoming'[d] \in Seq(GenuineFor(d))
        /\ uplink' \in [Clients -> Seq(Genuine)]
    BY <1>1, <1>3, <1>4, <2>1 DEF WiresGenuine
  <2>3. QED
    BY <1>1, <1>2, <1>5, <2>2, GenuineSame DEF WiresGenuine
<1>7. Links'
  BY <1>1, <1>2, MessengerBounds DEF Links
<1>8. QED
  BY <1>5, <1>6, <1>7, PartsNext

\* The clock runs, or nothing happens.
LEMMA InvIdle ==
    ASSUME WireInv, TimePasses \/ UNCHANGED vars
    PROVE  WireInv'
<1>1. WiresGenuine /\ Links /\ clock \in 0 .. MaxClock
  BY Parts DEF Controllers, ACTypeOK, KETypeOK
<1>2. UNCHANGED <<acVars, cliVars, netVars>> /\ clock' \in 0 .. MaxClock
  BY <1>1, BoundsAssumption DEF TimePasses, Tick, vars
<1>3. /\ Controllers' /\ CommandLines' /\ DeliveredWasAccepted'
      /\ Grows /\ UNCHANGED <<accepted, keysMade>>
  BY <1>2, OthersStay
<1>4. WiresGenuine' /\ Links'
  BY <1>1, <1>2, <1>3, WiresUnchanged DEF netVars, Links
<1>5. QED
  BY <1>3, <1>4, PartsNext

\* Every step keeps what holds of the wires.
LEMMA WireNext == WireInv /\ [Next]_vars => WireInv'
<1> SUFFICES ASSUME WireInv, [Next]_vars
             PROVE  WireInv'
  OBVIOUS
<1>1. ASSUME NEW c \in Clients, Command(c)
      PROVE  WireInv'
  BY <1>1, InvUser, InvLogout, InvChat, InvMsg, InvFreeText, InvLeave, InvPoll
  DEF Command, Commands
<1>2. ASSUME NEW c \in Clients, Drain(c)
      PROVE  WireInv'
  BY <1>2, InvDrainHandshake, InvLoseBatch, InvDrainDuplicate, InvDrainMessage DEF Drain
<1>3. QED
  BY <1>1, <1>2, InvRelay, InvRedeliver, InvLinkLost, InvIdle DEF Next

-----------------------------------------------------------------------------
(***************************************************************************)
(* Nothing in clear: what whole handlers add.                              *)
(***************************************************************************)
AcceptedSealed == \A c \in Clients : \A r \in accepted[c] : r.key # NoSecret

Sealed == KeyIffActive /\ AcceptedSealed

\* What is read was accepted, so it is sealed if that is.
LEMMA ReadSealed ==
    ASSUME WireInv, AcceptedSealed
    PROVE  MessagesSealed
<1> SUFFICES ASSUME NEW c \in Clients, NEW i \in DOMAIN delivered[c]
             PROVE  delivered[c][i].key # NoSecret
  BY DEF MessagesSealed, AcceptedSealed
<1>1. delivered[c][i] \in Receipts /\ delivered[c][i] \in accepted[delivered[c][i].from]
  BY Parts DEF Controllers, ACTypeOK, DeliveredWasAccepted
<1>2. delivered[c][i].from \in Clients
  BY <1>1, ClientsAreUsers DEF Receipts
<1>3. QED
  BY <1>1, <1>2 DEF AcceptedSealed

\* The same after a step.
LEMMA ReadSealedNext ==
    ASSUME WireInv', AcceptedSealed'
    PROVE  MessagesSealed'
<1> SUFFICES ASSUME NEW c \in Clients, NEW i \in DOMAIN delivered'[c]
             PROVE  delivered'[c][i].key # NoSecret
  BY DEF MessagesSealed, AcceptedSealed
<1>1. /\ delivered'[c][i] \in Receipts
      /\ delivered'[c][i] \in accepted'[delivered'[c][i].from]
  BY DEF WireInv, TypeOK, ACTypeOK, DeliveredWasAccepted
<1>2. delivered'[c][i].from \in Clients
  BY <1>1, ClientsAreUsers DEF Receipts
<1>3. QED
  BY <1>1, <1>2 DEF AcceptedSealed

\* A text is accepted while its channel is ACTIVE and so has a key.
LEMMA SealedText ==
    ASSUME ACTypeOK, Sealed, NEW c \in Clients, NEW t \in Others(c), SendText(c, t)
    PROVE  Sealed'
<1> DEFINE p == PairKey(c, t)
           verdict == SendVerdict(activeSessions'[c], c, c, t)
<1>1. p \in Pairs
  BY ClientsAreUsers, UsersPair DEF Others
<1>2. CASE verdict = "MESSAGE_ACCEPTED"
  <2>1. AcceptMessage(c, c, t)
    BY <1>2 DEF SendText
  <2>2. chan[c][p] = "ACTIVE"
    BY <1>2 DEF SendVerdict
  <2>3. sessionKey[c][p] # NoSecret
    BY <1>1, <2>2 DEF Sealed, KeyIffActive
  <2>4. Receipt(OutgoingFrame(c, c, t)).key # NoSecret
    BY <2>3 DEF Receipt, OutgoingFrame, MessageFrame
  <2>5. accepted' = [accepted EXCEPT ![c] = @ \union {Receipt(OutgoingFrame(c, c, t))}]
    BY <2>1 DEF AcceptMessage
  <2>6. AcceptedSealed'
    BY <2>4, <2>5 DEF Sealed, AcceptedSealed, ACTypeOK
  <2>7. QED
    BY <2>1, <2>6 DEF AcceptMessage, Sealed, KeyIffActive, keVars
<1>3. CASE verdict # "MESSAGE_ACCEPTED"
  <2>1. RefuseMessage(c, c, t, verdict)
    BY <1>3 DEF SendText
  <2> HIDE DEF verdict
  <2>2. /\ StartHandshake(c, p) \/ UNCHANGED <<chan, startedAt>>
        /\ UNCHANGED <<sessionKey, accepted>>
    BY <2>1 DEF RefuseMessage
  <2>3. KeyIffActive'
    BY <1>1, <2>2, KeyIffStart DEF Sealed, KeyIffActive
  <2>4. QED
    BY <2>2, <2>3 DEF Sealed, AcceptedSealed
<1>4. QED
  BY <1>2, <1>3

\* A channel is established with its key.
LEMMA SealedHandshake ==
    ASSUME ACTypeOK, Sealed, NEW c \in Clients, NEW f \in Genuine,
           AnswerHandshake(c, f) \/ CompleteHandshake(c, f)
    PROVE  Sealed'
<1>1. PICK private : EstablishChannel(c, f, private)
  BY DEF AnswerHandshake, CompleteHandshake
<1>2. KeyIffActive'
  BY <1>1, GenuineParts, KeyIffEstablish DEF Sealed
<1>3. QED
  BY <1>1, <1>2 DEF EstablishChannel, Sealed, AcceptedSealed

\* Every step keeps what is accepted sealed.
LEMMA SealedNext == WireInv /\ Sealed /\ [Next]_vars => Sealed'
<1> SUFFICES ASSUME WireInv, Sealed, [Next]_vars
             PROVE  Sealed'
  OBVIOUS
<1>1. ACTypeOK /\ WiresGenuine /\ CommandLines
  BY Parts DEF Controllers
<1>2. ASSUME UNCHANGED <<chan, sessionKey, accepted>>
      PROVE  Sealed'
  BY <1>2 DEF Sealed, KeyIffActive, AcceptedSealed
<1>3. ASSUME NEW c \in Clients, HandleLogout(c)
      PROVE  Sealed'
  <2>1. c \in Users /\ Disconnect(c, c)
    BY <1>3, ClientsAreUsers DEF HandleLogout
  <2>2. KeyIffActive'
    BY <1>1, <2>1, KeyIffDisconnect DEF Sealed
  <2>3. QED
    BY <2>1, <2>2 DEF Disconnect, Sealed, AcceptedSealed
<1>4. ASSUME NEW c \in Clients, NEW t \in Others(c), HandleChat(c, t)
      PROVE  Sealed'
  <2>1. StartHandshake(c, PairKey(c, t)) /\ UNCHANGED <<sessionKey, accepted>>
    BY <1>4 DEF HandleChat
  <2>2. PairKey(c, t) \in Pairs
    BY ClientsAreUsers, UsersPair DEF Others
  <2>3. QED
    BY <1>1, <2>1, <2>2, KeyIffStart DEF Sealed, AcceptedSealed
<1>5. ASSUME NEW c \in Clients, HandleFreeText(c)
      PROVE  Sealed'
  <2>1. chatTarget[c] \in Others(c) /\ SendText(c, chatTarget[c])
    BY <1>1, <1>5 DEF CommandLines, HandleFreeText, Others
  <2>2. QED
    BY <1>1, <2>1, SealedText
<1>6. ASSUME NEW c \in Clients, Command(c)
      PROVE  Sealed'
  <2>1. CASE HandleUser(c)
    BY <1>2, <2>1 DEF HandleUser, Register, keVars
  <2>2. CASE HandleLeave(c)
    BY <1>2, <2>2 DEF HandleLeave, acVars, keVars
  <2>3. CASE PollNotifications(c)
    BY <1>2, <2>3 DEF PollNotifications, PullNotifications, keVars
  <2>4. CASE \E t \in Others(c) : HandleMsg(c, t)
    BY <1>1, <2>4, SealedText DEF HandleMsg
  <2>5. QED
    BY <1>3, <1>4, <1>5, <1>6, <2>1, <2>2, <2>3, <2>4 DEF Command, Commands
<1>7. ASSUME NEW c \in Clients, Drain(c)
      PROVE  Sealed'
  <2> DEFINE f == Head(incoming[c])
  <2>1. CASE DrainHandshake(c) \/ LoseBatch(c)
    <3>1. /\ incoming[c] # << >>
          /\ AnswerHandshake(c, f) \/ CompleteHandshake(c, f) \/ UNCHANGED acVars
      BY <2>1 DEF DrainHandshake, LoseBatch, TakeFrame
    <3>2. f \in Genuine
      BY <1>1, <3>1, HeadGenuine
    <3> HIDE DEF f
    <3>3. QED
      BY <1>1, <1>2, <3>1, <3>2, SealedHandshake DEF acVars, keVars
  <2>2. CASE DrainDuplicate(c)
    BY <1>2, <2>2 DEF DrainDuplicate, acVars, keVars
  <2>3. CASE DrainMessage(c)
    BY <1>2, <2>3 DEF DrainMessage, DecryptMessage, keVars
  <2>4. QED
    BY <1>7, <2>1, <2>2, <2>3 DEF Drain
<1>8. ASSUME NEW c \in Clients, RelayForward(c) \/ Redeliver(c) \/ LinkLost(c)
      PROVE  Sealed'
  BY <1>2, <1>8 DEF RelayForward, Redeliver, LinkLost, acVars, keVars
<1>9. CASE TimePasses \/ UNCHANGED vars
  BY <1>2, <1>9 DEF TimePasses, vars, acVars, keVars
<1>10. QED
  BY <1>6, <1>7, <1>8, <1>9 DEF Next

\* The invariant is what holds of the wires and what is sealed.
LEMMA InvSplit == IInv <=> WireInv /\ Sealed
BY ReadSealed DEF IInv, Sealed, AcceptedSealed, MessagesSealed

\* Initially nothing has been made, so nothing is in clear.
LEMMA InvInitially == Init => IInv
<1>1. Init => Sealed
  BY DEF Init, ACInit, KEInit, Sealed, KeyIffActive, AcceptedSealed
<1>2. QED
  BY <1>1, InvInit, InvSplit

\* Every step keeps the invariant.
LEMMA InvNext == IInv /\ [Next]_vars => IInv'
BY InvSplit, WireNext, SealedNext, ReadSealedNext DEF IInv, Sealed

\* The invariant holds in every reachable state, for any number of users.
THEOREM Invariance == Spec => []IInv
BY InvInitially, InvNext, PTL DEF Spec

\* Every reachable state is well typed, and the duplicate window within its size.
THEOREM TypeCorrect == Spec => []TypeOK
<1>1. IInv => TypeOK
  BY DEF IInv, WireInv
<1>2. QED
  BY <1>1, Invariance, PTL

\* No message travels in clear.
THEOREM SealedOnWireHolds == Spec => []SealedOnWire
<1>1. IInv => SealedOnWire
  <2> SUFFICES ASSUME IInv, NEW f \in InTransit, f.type = "MESSAGE"
               PROVE  f.key # NoSecret
    BY DEF SealedOnWire
  <2>1. PICK c \in Clients : f \in Range(uplink[c]) \union Range(incoming[c])
    BY DEF InTransit
  <2>2. uplink[c] \in Seq(Genuine) /\ incoming[c] \in Seq(Genuine)
    BY DEF IInv, WireInv, WiresGenuine
  <2>3. f \in Genuine
    BY <2>1, <2>2, ElementOfSeq, LenProperties DEF Range
  <2>4. Receipt(f) \in accepted[f.from] /\ f.from \in Clients
    BY <2>3, GenuineParts, ClientsAreUsers
  <2>5. QED
    BY <2>4 DEF IInv, MessagesSealed, Receipt
<1>2. QED
  BY <1>1, Invariance, PTL

\* A process has a key for a pair exactly while their channel is ACTIVE, and
\* accepts and shows nothing in clear.
THEOREM SealedByHandlers == Spec => [](KeyIffActive /\ MessagesSealed)
<1>1. IInv => KeyIffActive /\ MessagesSealed
  BY DEF IInv
<1>2. QED
  BY <1>1, Invariance, PTL

\* What a user reads is what the named sender accepted for them.
THEOREM DeliveredWasAcceptedHolds == Spec => []DeliveredWasAccepted
<1>1. IInv => DeliveredWasAccepted
  BY DEF IInv, WireInv
<1>2. QED
  BY <1>1, Invariance, PTL
=============================================================================
