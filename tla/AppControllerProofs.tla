------------------------- MODULE AppControllerProofs -------------------------
(***************************************************************************)
(* What TLAPS proves of each handler of AppController alone, whoever calls *)
(* it: that it keeps the types of what it writes.  The proofs about        *)
(* LocalRuntime and about Messenger, which compose the handlers            *)
(* differently, rest on these lemmas.                                      *)
(***************************************************************************)
EXTENDS AppController, TLAPS

\* Any two names make a pair,
LEMMA UsersPair == \A a, b \in Users : PairKey(a, b) \in Pairs
BY DEF Pairs

\* and so do the two ends of a receipt.
LEMMA ReceiptsPair ==
    \A r \in Receipts : PairKey(r.from, r.to) \in Pairs
BY UsersPair DEF Receipts

\* While the bound allows another key pair, the next one is a local key and its
\* number is in range.
LEMMA FreshKeyLocal ==
    ASSUME KETypeOK, NEW c \in Clients, CanMakeKey(c)
    PROVE  /\ FreshKey(c) \in LocalKeys
           /\ keysMade[c] + 1 \in 0 .. MaxKeys
BY BoundsAssumption DEF KETypeOK, CanMakeKey, FreshKey, LocalKeys

\* Key agreement over two key identifiers makes a secret.
LEMMA SecretMade ==
    \A k, r \in KeyIds : DeriveKey(k, r) \in Secrets
BY DEF Secrets

\* A registration,
LEMMA TypeRegister ==
    ASSUME ACTypeOK, NEW c \in Clients, NEW u \in Users, Register(c, u), UNCHANGED clock
    PROVE  ACTypeOK'
BY DEF ACTypeOK, KETypeOK, Register, RegisterUser, keVars

\* a disconnection with all it invalidates,
LEMMA TypeDisconnect ==
    ASSUME ACTypeOK, NEW c \in Clients, NEW u \in Users, Disconnect(c, u), UNCHANGED clock
    PROVE  ACTypeOK'
BY DEF ACTypeOK, KETypeOK, Disconnect, InvalidateUserChannels, Without, ChannelStates

\* and a pull of notifications keep the types.
LEMMA TypePull ==
    ASSUME ACTypeOK, NEW c \in Clients, NEW u \in Users, PullNotifications(c, u), UNCHANGED clock
    PROVE  ACTypeOK'
BY DEF ACTypeOK, KETypeOK, PullNotifications, keVars

\* start_handshake keeps the type of the two fields it writes.
LEMMA StartHandshakeType ==
    ASSUME KETypeOK, NEW c \in Clients, NEW p \in Pairs, StartHandshake(c, p)
    PROVE  /\ chan' \in [Clients -> [Pairs -> ChannelStates]]
           /\ startedAt' \in [Clients -> [Pairs -> 0 .. MaxClock]]
<1>1. CASE chan[c][p] \in Live
  BY <1>1 DEF KETypeOK, StartHandshake
<1>2. CASE chan[c][p] \notin Live
  <2>1. /\ chan' = [chan EXCEPT ![c][p] = "ESTABLISHING"]
        /\ startedAt' = [startedAt EXCEPT ![c][p] = clock]
    BY <1>2 DEF StartHandshake
  <2>2. chan' \in [Clients -> [Pairs -> ChannelStates]]
    BY <2>1 DEF KETypeOK, ChannelStates
  <2>3. startedAt' \in [Clients -> [Pairs -> 0 .. MaxClock]]
    BY <2>1 DEF KETypeOK
  <2>4. QED
    BY <2>2, <2>3
<1>3. QED
  BY <1>1, <1>2

\* Starting a handshake touches the channel alone, and only one that is not
\* live, so it neither strands a key nor a pending private key.
LEMMA StartAt ==
    ASSUME KETypeOK, NEW c \in Clients, NEW p \in Pairs, StartHandshake(c, p)
    PROVE  \A d \in Clients, q \in Pairs :
              \/ chan'[d][q] = chan[d][q]
              \/ /\ d = c /\ q = p
                 /\ chan[d][q] \notin Live
                 /\ chan'[d][q] = "ESTABLISHING"
BY DEF KETypeOK, StartHandshake

\* activate_secure_channel, given a secret and a key, keeps the types of the five
\* stores it writes.
LEMMA ActivateType ==
    ASSUME KETypeOK, NEW c \in Clients, NEW p \in Pairs,
           NEW key \in Secrets, NEW fp \in KeyIds,
           ActivateSecureChannel(c, p, key, fp)
    PROVE  /\ chan' \in [Clients -> [Pairs -> ChannelStates]]
           /\ startedAt' \in [Clients -> [Pairs -> 0 .. MaxClock]]
           /\ sessionKey' \in [Clients -> [Pairs -> Secrets \union {NoSecret}]]
           /\ remoteFp' \in [Clients -> [Pairs -> KeyIds \union {NoKey}]]
           /\ seenNonces' \in [Clients -> [Pairs -> SUBSET Nonces]]
<1>1. chan' \in [Clients -> [Pairs -> ChannelStates]]
  BY DEF KETypeOK, ActivateSecureChannel, ChannelStates
<1>2. startedAt' \in [Clients -> [Pairs -> 0 .. MaxClock]]
  BY DEF KETypeOK, ActivateSecureChannel
<1>3. sessionKey' \in [Clients -> [Pairs -> Secrets \union {NoSecret}]]
  BY DEF KETypeOK, ActivateSecureChannel
<1>4. remoteFp' \in [Clients -> [Pairs -> KeyIds \union {NoKey}]]
  BY DEF KETypeOK, ActivateSecureChannel
<1>5. seenNonces' \in [Clients -> [Pairs -> SUBSET Nonces]]
  BY DEF KETypeOK, ActivateSecureChannel
<1>6. QED
  BY <1>1, <1>2, <1>3, <1>4, <1>5

\* Publishing a known code keeps the type of the bus.
LEMMA PublishType ==
    ASSUME mailbox \in [Clients -> [Users -> SUBSET NoticeCodes]],
           NEW c \in Clients, NEW u \in Users, NEW code \in NoticeCodes,
           Publish(c, u, code)
    PROVE  mailbox' \in [Clients -> [Users -> SUBSET NoticeCodes]]
BY DEF Publish

\* handshake_init keeps the types.
LEMMA TypeHandshakeInit ==
    ASSUME ACTypeOK, NEW c \in Clients, NEW a, NEW b, PairKey(a, b) \in Pairs,
           HandshakeInit(c, a, b), UNCHANGED clock
    PROVE  ACTypeOK'
<1>1. /\ chan' \in [Clients -> [Pairs -> ChannelStates]]
      /\ startedAt' \in [Clients -> [Pairs -> 0 .. MaxClock]]
  BY StartHandshakeType DEF ACTypeOK, HandshakeInit
<1>2. QED
  BY <1>1 DEF ACTypeOK, KETypeOK, HandshakeInit

\* A fresh key pair, kept as the pending one of a pair, keeps the types.
LEMMA PendingType ==
    ASSUME ACTypeOK, NEW c \in Clients, NEW p \in Pairs,
           CanMakeKey(c), GenerateKeypair(c), SetPendingKey(c, p, FreshKey(c))
    PROVE  /\ pendingKey' \in [Clients -> [Pairs -> LocalKeys \union {NoKey}]]
           /\ keysMade' \in [Clients -> 0 .. MaxKeys]
<1>1. FreshKey(c) \in LocalKeys /\ keysMade[c] + 1 \in 0 .. MaxKeys
  BY FreshKeyLocal DEF ACTypeOK
<1>2. pendingKey' \in [Clients -> [Pairs -> LocalKeys \union {NoKey}]]
  BY <1>1 DEF ACTypeOK, KETypeOK, SetPendingKey
<1>3. keysMade' \in [Clients -> 0 .. MaxKeys]
  BY <1>1 DEF ACTypeOK, KETypeOK, GenerateKeypair
<1>4. QED
  BY <1>2, <1>3

\* create_handshake_offer keeps the types.
LEMMA TypeOffer ==
    ASSUME ACTypeOK, NEW c \in Clients, NEW a, NEW b, PairKey(a, b) \in Pairs,
           CreateHandshakeOffer(c, a, b), UNCHANGED clock
    PROVE  ACTypeOK'
<1>1. /\ pendingKey' \in [Clients -> [Pairs -> LocalKeys \union {NoKey}]]
      /\ keysMade' \in [Clients -> 0 .. MaxKeys]
  BY PendingType DEF CreateHandshakeOffer
<1>2. /\ chan' \in [Clients -> [Pairs -> ChannelStates]]
      /\ startedAt' \in [Clients -> [Pairs -> 0 .. MaxClock]]
  BY StartHandshakeType DEF ACTypeOK, CreateHandshakeOffer
<1>3. QED
  BY <1>1, <1>2 DEF ACTypeOK, KETypeOK, CreateHandshakeOffer

\* A handshake frame with an unusable key keeps the types.
LEMMA TypeReject ==
    ASSUME ACTypeOK, NEW c \in Clients, NEW f, PairKey(f.from, f.to) \in Pairs,
           RejectHandshake(c, f), UNCHANGED clock
    PROVE  ACTypeOK'
<1>1. pendingKey' \in [Clients -> [Pairs -> LocalKeys \union {NoKey}]]
  BY DEF ACTypeOK, KETypeOK, RejectHandshake, PopPendingKey, SetPendingKey
<1>2. QED
  BY <1>1 DEF ACTypeOK, KETypeOK, RejectHandshake

\* Establishing a channel with a local private key keeps the types.
LEMMA TypeEstablish ==
    ASSUME ACTypeOK, NEW c \in Clients, NEW f, PairKey(f.from, f.to) \in Pairs,
           f.to \in Users, f.pub \in KeyIds, NEW private \in LocalKeys,
           EstablishChannel(c, f, private),
           keysMade' \in [Clients -> 0 .. MaxKeys], UNCHANGED clock
    PROVE  ACTypeOK'
<1> DEFINE p == PairKey(f.from, f.to)
<1>1. DeriveKey(private, f.pub) \in Secrets
  BY SecretMade DEF KeyIds
<1>2. Fingerprint(f.pub) \in KeyIds
  BY DEF Fingerprint
<1>3. /\ chan' \in [Clients -> [Pairs -> ChannelStates]]
      /\ startedAt' \in [Clients -> [Pairs -> 0 .. MaxClock]]
      /\ sessionKey' \in [Clients -> [Pairs -> Secrets \union {NoSecret}]]
      /\ remoteFp' \in [Clients -> [Pairs -> KeyIds \union {NoKey}]]
      /\ seenNonces' \in [Clients -> [Pairs -> SUBSET Nonces]]
  <2>1. ActivateSecureChannel(c, p, DeriveKey(private, f.pub), Fingerprint(f.pub))
    BY DEF EstablishChannel
  <2>2. QED
    BY <1>1, <1>2, <2>1, ActivateType DEF ACTypeOK
<1>4. pendingKey' \in [Clients -> [Pairs -> LocalKeys \union {NoKey}]]
  BY DEF ACTypeOK, KETypeOK, EstablishChannel, PopPendingKey, SetPendingKey
<1>5. mailbox' \in [Clients -> [Users -> SUBSET NoticeCodes]]
  <2>1. UNCHANGED mailbox \/ Publish(c, f.to, "409_REMOTE_KEY_CHANGED")
    BY DEF EstablishChannel
  <2>2. QED
    BY <2>1, PublishType DEF ACTypeOK, NoticeCodes
<1>6. QED
  BY <1>3, <1>4, <1>5 DEF ACTypeOK, KETypeOK, EstablishChannel

\* process_handshake_frame keeps the types, whatever it decides.
LEMMA TypeProcess ==
    ASSUME ACTypeOK, NEW c \in Clients, NEW f, PairKey(f.from, f.to) \in Pairs,
           f.to \in Users, f.pub \in KeyIds \union {BadKey},
           ProcessHandshakeFrame(c, f), UNCHANGED clock
    PROVE  ACTypeOK'
<1>1. CASE RejectHandshake(c, f)
  BY <1>1, TypeReject
<1>2. CASE AnswerHandshake(c, f)
  <2>1. FreshKey(c) \in LocalKeys /\ keysMade[c] + 1 \in 0 .. MaxKeys
    BY <1>2, FreshKeyLocal DEF ACTypeOK, AnswerHandshake
  <2>2. keysMade' \in [Clients -> 0 .. MaxKeys]
    BY <1>2, <2>1 DEF ACTypeOK, KETypeOK, AnswerHandshake, GenerateKeypair
  <2>3. EstablishChannel(c, f, FreshKey(c)) /\ f.pub \in KeyIds
    BY <1>2 DEF AnswerHandshake, EstablishChannel
  <2>4. QED
    BY <2>1, <2>2, <2>3, TypeEstablish
<1>3. CASE CompleteHandshake(c, f)
  <2> DEFINE private == pendingKey[c][PairKey(f.from, f.to)]
  <2>1. private \in LocalKeys
    BY <1>3 DEF ACTypeOK, KETypeOK, CompleteHandshake
  <2>2. EstablishChannel(c, f, private) /\ f.pub \in KeyIds /\ UNCHANGED keysMade
    BY <1>3 DEF CompleteHandshake, EstablishChannel
  <2>3. keysMade' \in [Clients -> 0 .. MaxKeys]
    BY <2>2 DEF ACTypeOK, KETypeOK
  <2>4. QED
    BY <2>1, <2>2, <2>3, TypeEstablish
<1>4. QED
  BY <1>1, <1>2, <1>3 DEF ProcessHandshakeFrame

\* An accepted message is counted and remembered,
LEMMA AcceptType ==
    ASSUME ACTypeOK, NEW c \in Clients, NEW a \in Users, NEW b \in Users, a # b,
           PairKey(a, b) \in Pairs, AcceptMessage(c, a, b)
    PROVE  /\ msgsMade' \in [Clients -> 0 .. MaxMsgs]
           /\ accepted' \in [Clients -> SUBSET Receipts]
           /\ msgsMade[c] + 1 \in 1 .. MaxMsgs
<1>1. msgsMade[c] + 1 \in 1 .. MaxMsgs
  BY BoundsAssumption DEF AcceptMessage, ACTypeOK
<1>2. Receipt(OutgoingFrame(c, a, b)) \in Receipts
  BY <1>1 DEF Receipt, OutgoingFrame, MessageFrame, Receipts, Nonces, LocalNonces,
              Secret, ACTypeOK, KETypeOK
<1>3. QED
  BY <1>1, <1>2 DEF AcceptMessage, ACTypeOK

\* and a refused one may start a handshake and is published.
LEMMA RefuseType ==
    ASSUME ACTypeOK, NEW c \in Clients, NEW a \in Users, NEW b \in Users,
           PairKey(a, b) \in Pairs, NEW sessions,
           NEW verdict, verdict = SendVerdict(sessions, c, a, b),
           verdict # "MESSAGE_ACCEPTED", RefuseMessage(c, a, b, verdict)
    PROVE  /\ chan' \in [Clients -> [Pairs -> ChannelStates]]
           /\ startedAt' \in [Clients -> [Pairs -> 0 .. MaxClock]]
           /\ mailbox' \in [Clients -> [Users -> SUBSET NoticeCodes]]
<1>1. verdict \in NoticeCodes
  BY DEF SendVerdict, NoticeCodes
<1>2. /\ chan' \in [Clients -> [Pairs -> ChannelStates]]
      /\ startedAt' \in [Clients -> [Pairs -> 0 .. MaxClock]]
  BY StartHandshakeType DEF RefuseMessage, ACTypeOK, KETypeOK
<1>3. mailbox' \in [Clients -> [Users -> SUBSET NoticeCodes]]
  BY <1>1, PublishType DEF RefuseMessage, ACTypeOK
<1>4. QED
  BY <1>2, <1>3

\* send_text_message keeps the types, accepted or refused.
LEMMA TypeSend ==
    ASSUME ACTypeOK, NEW c \in Clients, NEW a \in Users, NEW b \in Users,
           a # b, PairKey(a, b) \in Pairs, SendTextMessage(c, a, b), UNCHANGED clock
    PROVE  ACTypeOK'
<1> DEFINE verdict == SendVerdict(activeSessions[c], c, a, b)
<1>1. CASE verdict = "MESSAGE_ACCEPTED"
  <2>1. AcceptMessage(c, a, b) /\ UNCHANGED <<activeSessions, knownUsers>>
    BY <1>1 DEF SendTextMessage
  <2>2. /\ msgsMade' \in [Clients -> 0 .. MaxMsgs]
        /\ accepted' \in [Clients -> SUBSET Receipts]
    BY <2>1, AcceptType
  <2>3. QED
    BY <2>1, <2>2 DEF ACTypeOK, KETypeOK, AcceptMessage, keVars
<1>2. CASE verdict # "MESSAGE_ACCEPTED"
  <2>1. /\ RefuseMessage(c, a, b, verdict)
        /\ UNCHANGED <<pendingKey, keysMade, activeSessions, knownUsers>>
    BY <1>2 DEF SendTextMessage
  <2>2. /\ chan' \in [Clients -> [Pairs -> ChannelStates]]
        /\ startedAt' \in [Clients -> [Pairs -> 0 .. MaxClock]]
        /\ mailbox' \in [Clients -> [Users -> SUBSET NoticeCodes]]
    BY <1>2, <2>1, RefuseType
  <2>3. QED
    BY <2>1, <2>2 DEF ACTypeOK, KETypeOK, RefuseMessage
<1>3. QED
  BY <1>1, <1>2

\* A message that passed the replay guard is remembered and perhaps handed over.
LEMMA DecryptType ==
    ASSUME ACTypeOK, NEW c \in Clients, NEW m, PairKey(m.from, m.to) \in Pairs,
           m.nonce \in Nonces, Receipt(m) \in Receipts, DecryptMessage(c, m)
    PROVE  /\ seenNonces' \in [Clients -> [Pairs -> SUBSET Nonces]]
           /\ delivered' \in [Clients -> Seq(Receipts)]
<1>1. seenNonces' \in [Clients -> [Pairs -> SUBSET Nonces]]
  BY DEF ACTypeOK, KETypeOK, DecryptMessage, RecordNonce
<1>2. Append(delivered[c], Receipt(m)) \in Seq(Receipts)
  BY DEF ACTypeOK
<1>3. delivered' \in [Clients -> Seq(Receipts)]
  BY <1>2 DEF ACTypeOK, DecryptMessage
<1>4. QED
  BY <1>1, <1>3

\* receive_message keeps the types.
LEMMA TypeReceive ==
    ASSUME ACTypeOK, NEW c \in Clients, NEW m, PairKey(m.from, m.to) \in Pairs,
           m.nonce \in Nonces, Receipt(m) \in Receipts,
           ReceiveMessage(c, m), UNCHANGED clock
    PROVE  ACTypeOK'
<1>1. /\ seenNonces' \in [Clients -> [Pairs -> SUBSET Nonces]]
      /\ delivered' \in [Clients -> Seq(Receipts)]
  BY DecryptType DEF ReceiveMessage
<1>2. QED
  BY <1>1 DEF ACTypeOK, KETypeOK, ReceiveMessage, DecryptMessage

-----------------------------------------------------------------------------
(***************************************************************************)
(* Key and state: each operation that writes one of the two keeps their    *)
(* agreement.                                                              *)
(***************************************************************************)

\* Starting a handshake touches no channel that is ACTIVE,
LEMMA KeyIffStart ==
    ASSUME ACTypeOK, KeyIffActive, NEW c \in Clients, NEW p \in Pairs,
           StartHandshake(c, p), UNCHANGED sessionKey
    PROVE  KeyIffActive'
<1>1. \A d \in Clients, q \in Pairs :
         \/ chan'[d][q] = chan[d][q]
         \/ chan[d][q] # "ACTIVE" /\ chan'[d][q] = "ESTABLISHING"
  BY StartAt DEF ACTypeOK, Live
<1>2. QED
  BY <1>1 DEF KeyIffActive

\* an establishment stores the key of the channel it makes ACTIVE,
LEMMA KeyIffEstablish ==
    ASSUME ACTypeOK, KeyIffActive, NEW c \in Clients, NEW f, NEW private,
           PairKey(f.from, f.to) \in Pairs, EstablishChannel(c, f, private)
    PROVE  KeyIffActive'
<1> DEFINE p == PairKey(f.from, f.to)
           key == DeriveKey(private, f.pub)
<1>1. ActivateSecureChannel(c, p, key, Fingerprint(f.pub))
  BY DEF EstablishChannel
<1>2. key # NoSecret
  BY DEF DeriveKey, NoSecret
<1> HIDE DEF p, key
<1>3. \A d \in Clients, q \in Pairs :
         /\ chan'[d][q] = IF d = c /\ q = p THEN "ACTIVE" ELSE chan[d][q]
         /\ sessionKey'[d][q] = IF d = c /\ q = p THEN key ELSE sessionKey[d][q]
  BY <1>1 DEF ACTypeOK, KETypeOK, ActivateSecureChannel
<1>4. QED
  BY <1>2, <1>3 DEF KeyIffActive

\* and a disconnection drops the two together.
LEMMA KeyIffDisconnect ==
    ASSUME ACTypeOK, KeyIffActive, NEW c \in Clients, NEW u \in Users, Disconnect(c, u)
    PROVE  KeyIffActive'
<1>1. \A d \in Clients, q \in Pairs :
         \/ chan'[d][q] = chan[d][q] /\ sessionKey'[d][q] = sessionKey[d][q]
         \/ chan'[d][q] = "INVALID" /\ sessionKey'[d][q] = NoSecret
  BY DEF ACTypeOK, KETypeOK, Disconnect, InvalidateUserChannels, Without
<1>2. QED
  BY <1>1 DEF KeyIffActive
=============================================================================
