------------------------- MODULE LocalRuntimeProofs -------------------------
(***************************************************************************)
(* What TLAPS proves of LocalRuntime, for every value of the constants.    *)
(*                                                                         *)
(* The argument is the usual one: IInv holds initially (InvInit), every    *)
(* handler preserves it (the Inv lemmas, joined by InvNext), so it always  *)
(* holds (Invariance), and the properties are among its conjuncts or       *)
(* follow from it.  What makes it inductive is PendingUnused: the private  *)
(* half of a handshake in progress belongs to one pair and was part of no  *)
(* secret of it, so an establishment makes a secret the pair has sealed no *)
(* message with, and forgetting its nonces forgets nothing that matters.   *)
(***************************************************************************)
EXTENDS LocalRuntime, AppControllerProofs

\* Two users, different or not, make a pair.
LEMMA PeersPair ==
    \A e \in Peers : /\ e[1] \in Users /\ e[2] \in Users /\ e[1] # e[2]
                      /\ PairKey(e[1], e[2]) \in Pairs
BY UsersPair DEF Peers

\* Type correctness, one lemma for each handler: the initial state,
LEMMA TypeInit == Init => TypeOK
BY BoundsAssumption DEF Init, ACInit, KEInit, TypeOK, ACTypeOK, KETypeOK, ChannelStates

\* What a peer can derive is a secret, and what messages were sealed with is one.
LEMMA KnownSecretsType ==
    ASSUME TypeOK
    PROVE  /\ Published \subseteq LocalKeys
           /\ KnownSecrets \union SealedWith \subseteq Secret
<1>1. \A c \in Clients : MadeKeys(c) \subseteq LocalKeys
  BY BoundsAssumption DEF MadeKeys, LocalKeys, TypeOK, ACTypeOK, KETypeOK
<1>2. Published \subseteq LocalKeys
  BY <1>1 DEF Published
<1>3. KnownSecrets \subseteq Secrets
  BY <1>2, SecretMade DEF KnownSecrets, KeyIds
<1>4. SealedWith \subseteq Secret
  <2>1. \A c \in Clients : accepted[c] \subseteq Receipts
    BY DEF TypeOK, ACTypeOK
  <2>2. \A r \in Receipts : r.key \in Secret
    BY DEF Receipts
  <2>3. QED
    BY <2>1, <2>2 DEF SealedWith
<1>5. QED
  BY <1>2, <1>3, <1>4 DEF Secret

\* What arrives is a handshake frame with some key for some pair, or a message
\* between two users.
LEMMA ArrivalCases ==
    ASSUME TypeOK, NEW c \in Clients, Arrival(c)
    PROVE  \/ \E f : /\ ProcessHandshakeFrame(c, f)
                     /\ f.to \in Users /\ PairKey(f.from, f.to) \in Pairs
                     /\ f.pub \in RemoteKeys \union Published \union {BadKey}
           \/ \E m : /\ ReceiveMessage(c, m)
                     /\ PairKey(m.from, m.to) \in Pairs
                     /\ m.nonce \in Nonces /\ Receipt(m) \in Receipts
<1> PICK at \in 0 .. MaxClock :
      \/ \E from, to \in Users, k \in RemoteKeys \union Published \union {BadKey} :
             ForeignHandshake(c, from, to, k, at)
      \/ \E e \in Peers, n \in Nonces, k \in KnownSecrets \union SealedWith \union {NoSecret} :
             ForeignMessage(c, e, n, k, at)
  BY DEF Arrival
<1>1. ASSUME NEW from \in Users, NEW to \in Users,
             NEW k \in RemoteKeys \union Published \union {BadKey},
             ForeignHandshake(c, from, to, k, at)
      PROVE  \E f : /\ ProcessHandshakeFrame(c, f)
                    /\ f.to \in Users /\ PairKey(f.from, f.to) \in Pairs
                    /\ f.pub \in RemoteKeys \union Published \union {BadKey}
  <2> DEFINE f == HandshakeFrame(from, to, k, at)
  <2>1. f.from = from /\ f.to = to /\ f.pub = k
    BY DEF HandshakeFrame
  <2>2. ProcessHandshakeFrame(c, f)
    BY <1>1 DEF ForeignHandshake
  <2>3. PairKey(f.from, f.to) \in Pairs
    BY <2>1, UsersPair
  <2> HIDE DEF f
  <2>4. QED
    BY <2>1, <2>2, <2>3
<1>2. ASSUME NEW e \in Peers, NEW n \in Nonces,
             NEW k \in KnownSecrets \union SealedWith \union {NoSecret},
             ForeignMessage(c, e, n, k, at)
      PROVE  \E m : /\ ReceiveMessage(c, m)
                    /\ PairKey(m.from, m.to) \in Pairs
                    /\ m.nonce \in Nonces /\ Receipt(m) \in Receipts
  <2> DEFINE m == MessageFrame(e[1], e[2], n, k, at)
  <2>1. m.from = e[1] /\ m.to = e[2] /\ m.nonce = n /\ m.key = k
    BY DEF MessageFrame
  <2>2. ReceiveMessage(c, m)
    BY <1>2 DEF ForeignMessage
  <2>3. k \in Secret
    BY KnownSecretsType DEF Secret
  <2> HIDE DEF m
  <2>4. Receipt(m) \in Receipts
    BY <2>1, <2>3, PeersPair DEF Receipt, Receipts
  <2>5. QED
    BY <2>1, <2>2, <2>4, PeersPair
<1>3. QED
  BY <1>1, <1>2

\* Every step keeps the types.
LEMMA TypeNext == TypeOK /\ [Next]_vars => TypeOK'
<1> SUFFICES ASSUME ACTypeOK, [Next]_vars
             PROVE  ACTypeOK'
  BY DEF TypeOK
<1>1. ASSUME NEW c \in Clients, Call(c), UNCHANGED clock
      PROVE  ACTypeOK'
  <2>1. CASE \E u \in Users : Register(c, u) \/ Disconnect(c, u) \/ PullNotifications(c, u)
    BY <1>1, <2>1, TypeRegister, TypeDisconnect, TypePull
  <2>2. ASSUME NEW e \in Peers,
               \/ HandshakeInit(c, e[1], e[2])
               \/ CreateHandshakeOffer(c, e[1], e[2])
               \/ SendTextMessage(c, e[1], e[2])
        PROVE  ACTypeOK'
    <3>1. e[1] \in Users /\ e[2] \in Users /\ e[1] # e[2] /\ PairKey(e[1], e[2]) \in Pairs
      BY PeersPair
    <3>2. QED
      BY <1>1, <2>2, <3>1, TypeHandshakeInit, TypeOffer, TypeSend
  <2>3. QED
    BY <1>1, <2>1, <2>2 DEF Call
<1>2. ASSUME NEW c \in Clients, Arrival(c), UNCHANGED clock
      PROVE  ACTypeOK'
  <2>1. ASSUME NEW f, ProcessHandshakeFrame(c, f),
               f.to \in Users, PairKey(f.from, f.to) \in Pairs,
               f.pub \in RemoteKeys \union Published \union {BadKey}
        PROVE  ACTypeOK'
    <3>1. f.pub \in KeyIds \union {BadKey}
      BY <2>1, KnownSecretsType DEF TypeOK, KeyIds
    <3>2. QED
      BY <1>2, <2>1, <3>1, TypeProcess
  <2>2. ASSUME NEW m, ReceiveMessage(c, m), PairKey(m.from, m.to) \in Pairs,
               m.nonce \in Nonces, Receipt(m) \in Receipts
        PROVE  ACTypeOK'
    BY <1>2, <2>2, TypeReceive
  <2>3. QED
    BY <1>2, <2>1, <2>2, ArrivalCases DEF TypeOK
<1>3. CASE TimePasses
  BY <1>3, BoundsAssumption
  DEF TimePasses, Tick, acVars, keVars, ACTypeOK, KETypeOK
<1>4. CASE UNCHANGED vars
  BY <1>4 DEF vars, acVars, keVars, ACTypeOK, KETypeOK
<1>5. QED
  BY <1>1, <1>2, <1>3, <1>4 DEF Next

\* Every reachable state of the controllers has the shape TypeOK states, for
\* any number of processes, users, keys and messages.
THEOREM TypeCorrect == Spec => []TypeOK
BY TypeInit, TypeNext, PTL DEF Spec
-----------------------------------------------------------------------------
(***************************************************************************)
(* The inductive invariant.  Each lemma first states what the action does  *)
(* to the variables pointwise, then takes the conjuncts it can disturb.    *)
(***************************************************************************)

Histories ==
    /\ MessagesSealed /\ PendingUnused /\ UsedKeysMade
    /\ GuardRemembers /\ DeliveredOnce

\* The conjuncts of the inductive invariant that the proofs use under a prime.
LEMMA IInvParts ==
    IInv <=> /\ TypeOK /\ KeyIffActive /\ PendingOnlyEstablishing
             /\ LiveNeedsSession /\ Histories
BY DEF IInv, Histories

\* A step that leaves keys, channels and messages alone keeps what the invariant
\* says of them.
LEMMA HistoriesStay ==
    ASSUME Histories,
           UNCHANGED <<sessionKey, pendingKey, seenNonces, keysMade, accepted, delivered>>
    PROVE  Histories'
<1>1. MessagesSealed' /\ DeliveredOnce'
  BY DEF Histories, MessagesSealed, DeliveredOnce
<1>2. GuardRemembers'
  BY DEF Histories, GuardRemembers
<1>3. \A c, p, k : KeyUsed(c, p, k)' <=> KeyUsed(c, p, k)
  BY DEF KeyUsed
<1>4. PendingUnused'
  BY <1>3 DEF Histories, PendingUnused, MadeKeys
<1>5. UsedKeysMade'
  BY <1>3 DEF Histories, UsedKeysMade, Published, MadeKeys
<1>6. QED
  BY <1>1, <1>2, <1>4, <1>5 DEF Histories

\* The inductive invariant holds initially.
LEMMA InvInit == Init => IInv
<1> SUFFICES ASSUME Init
             PROVE  IInv
  OBVIOUS
<1>1. TypeOK
  BY TypeInit
<1>2. KeyIffActive /\ PendingOnlyEstablishing /\ LiveNeedsSession
  BY DEF Init, ACInit, KEInit, KeyIffActive, PendingOnlyEstablishing, LiveNeedsSession
<1>3. MessagesSealed /\ GuardRemembers /\ DeliveredOnce
  BY DEF Init, ACInit, KEInit, MessagesSealed, GuardRemembers, DeliveredOnce
<1>4. \A c \in Clients, p \in Pairs : \A k : ~ KeyUsed(c, p, k)
  BY DEF Init, ACInit, KEInit, KeyUsed, NoSecret
<1>5. PendingUnused /\ UsedKeysMade
  BY <1>4 DEF Init, ACInit, KEInit, PendingUnused, UsedKeysMade
<1>6. QED
  BY <1>1, <1>2, <1>3, <1>5 DEF IInv

\* A registration keeps the inductive invariant.
LEMMA InvRegister ==
    ASSUME IInv, TypeOK', NEW c \in Clients, NEW u \in Users, Register(c, u)
    PROVE  IInv'
<1>1. \A d \in Clients : activeSessions[d] \subseteq activeSessions'[d]
  BY DEF IInv, TypeOK, ACTypeOK, Register, RegisterUser
<1>2. LiveNeedsSession'
  BY <1>1 DEF IInv, LiveNeedsSession, Register, keVars
<1>3. KeyIffActive' /\ PendingOnlyEstablishing'
  BY DEF IInv, KeyIffActive, PendingOnlyEstablishing, Register, keVars
<1>4. Histories'
  BY HistoriesStay, IInvParts DEF Register, keVars
<1>5. QED
  BY <1>2, <1>3, <1>4, IInvParts DEF IInv, Histories

\* A disconnection keeps it: the channels it drops lose key, nonces and pending
\* key together.
LEMMA InvDisconnect ==
    ASSUME IInv, TypeOK', NEW c \in Clients, NEW u \in Users, Disconnect(c, u)
    PROVE  IInv'
<1> DEFINE Gone(d, q) == d = c /\ q \in Invalidated(c, u)
<1>1. \A d \in Clients, q \in Pairs :
         /\ chan'[d][q] = IF Gone(d, q) THEN "INVALID" ELSE chan[d][q]
         /\ sessionKey'[d][q] = IF Gone(d, q) THEN NoSecret ELSE sessionKey[d][q]
         /\ seenNonces'[d][q] = IF Gone(d, q) THEN {} ELSE seenNonces[d][q]
         /\ pendingKey'[d][q] = IF Gone(d, q) THEN NoKey ELSE pendingKey[d][q]
  BY DEF IInv, TypeOK, ACTypeOK, KETypeOK, Disconnect, InvalidateUserChannels, Without
<1>2. \A d \in Clients : activeSessions'[d] = IF d = c THEN activeSessions[d] \ {u}
                                                       ELSE activeSessions[d]
  BY DEF IInv, TypeOK, ACTypeOK, Disconnect
<1>3. UNCHANGED <<keysMade, accepted, delivered>>
  BY DEF Disconnect
<1>4. \A q \in Pairs : q \in Invalidated(c, u) <=> u \in q /\ chan[c][q] # "NONE"
  BY DEF Invalidated
<1> HIDE DEF Gone
<1>5. KeyIffActive'
  BY <1>1 DEF IInv, KeyIffActive
<1>6. PendingOnlyEstablishing'
  BY <1>1 DEF IInv, PendingOnlyEstablishing
<1>7. LiveNeedsSession'
  <2> SUFFICES ASSUME NEW d \in Clients, NEW q \in Pairs
               PROVE  /\ chan'[d][q] = "ESTABLISHING" => q \subseteq activeSessions'[d]
                      /\ chan'[d][q] = "ACTIVE" => q \cap activeSessions'[d] # {}
    BY DEF LiveNeedsSession
  <2>1. CASE d = c /\ u \in q
    BY <1>1, <1>4, <2>1 DEF Gone
  <2>2. CASE ~ (d = c /\ u \in q)
    <3>1. chan'[d][q] = chan[d][q]
      BY <1>1, <1>4, <2>2 DEF Gone
    <3>2. /\ q \subseteq activeSessions[d] => q \subseteq activeSessions'[d]
          /\ q \cap activeSessions'[d] = q \cap activeSessions[d]
      BY <1>2, <2>2
    <3>3. QED
      BY <3>1, <3>2 DEF IInv, LiveNeedsSession
  <2>3. QED
    BY <2>1, <2>2
<1>8. \A d \in Clients, q \in Pairs : \A k : KeyUsed(d, q, k)' => KeyUsed(d, q, k)
  BY <1>1, <1>3 DEF KeyUsed, NoSecret
<1>9. PendingUnused'
  BY <1>1, <1>3, <1>8 DEF IInv, PendingUnused, MadeKeys
<1>10. UsedKeysMade'
  BY <1>3, <1>8 DEF IInv, UsedKeysMade, Published, MadeKeys
<1>12. GuardRemembers'
  <2> SUFFICES ASSUME NEW d \in Clients, NEW i \in DOMAIN delivered[d],
                      NEW q, q = PairKey(delivered[d][i].from, delivered[d][i].to),
                      sessionKey'[d][q] = delivered[d][i].key
               PROVE  delivered[d][i].nonce \in seenNonces'[d][q]
    BY <1>3 DEF GuardRemembers
  <2>1. q \in Pairs /\ delivered[d][i].key # NoSecret
    BY ReceiptsPair DEF IInv, TypeOK, ACTypeOK, MessagesSealed
  <2>2. ~ Gone(d, q)
    BY <1>1, <2>1
  <2>3. QED
    BY <1>1, <2>1, <2>2 DEF IInv, GuardRemembers
<1>13. MessagesSealed' /\ DeliveredOnce'
  BY <1>3 DEF IInv, MessagesSealed, DeliveredOnce
<1>14. QED
  BY <1>5, <1>6, <1>7, <1>9, <1>10, <1>12, <1>13 DEF IInv

\* A pull of notifications keeps it.
LEMMA InvPull ==
    ASSUME IInv, TypeOK', NEW c \in Clients, NEW u \in Users, PullNotifications(c, u)
    PROVE  IInv'
<1>1. KeyIffActive' /\ PendingOnlyEstablishing' /\ LiveNeedsSession'
  BY DEF IInv, KeyIffActive, PendingOnlyEstablishing, LiveNeedsSession,
         PullNotifications, keVars
<1>2. Histories'
  BY HistoriesStay, IInvParts DEF PullNotifications, keVars
<1>3. QED
  BY <1>1, <1>2, IInvParts DEF IInv, Histories

\* Starting a handshake between two active users keeps it, in whichever handler
\* it happens.
LEMMA InvStart ==
    ASSUME IInv, TypeOK', NEW c \in Clients, NEW p \in Pairs, StartHandshake(c, p),
           p \subseteq activeSessions[c],
           UNCHANGED <<sessionKey, pendingKey, seenNonces, keysMade, activeSessions,
                       accepted, delivered>>
    PROVE  IInv'
<1>1. \A d \in Clients, q \in Pairs :
         \/ chan'[d][q] = chan[d][q]
         \/ /\ d = c /\ q = p
            /\ chan[d][q] \notin Live
            /\ chan'[d][q] = "ESTABLISHING"
  BY StartAt DEF IInv, TypeOK, ACTypeOK
<1>2. KeyIffActive'
  BY <1>1 DEF IInv, KeyIffActive, Live
<1>3. PendingOnlyEstablishing'
  BY <1>1 DEF IInv, PendingOnlyEstablishing
<1>4. LiveNeedsSession'
  BY <1>1 DEF IInv, LiveNeedsSession
<1>5. Histories'
  BY HistoriesStay, IInvParts
<1>6. QED
  BY <1>2, <1>3, <1>4, <1>5 DEF IInv, Histories

\* handshake_init keeps it.
LEMMA InvHandshakeInit ==
    ASSUME IInv, TypeOK', NEW c \in Clients, NEW a, NEW b, PairKey(a, b) \in Pairs,
           HandshakeInit(c, a, b)
    PROVE  IInv'
<1>1. PairKey(a, b) \subseteq activeSessions[c]
  BY DEF HandshakeInit, BothActive, IsActive, PairKey
<1>2. QED
  BY <1>1, InvStart DEF HandshakeInit

\* The key an offer or an answer makes has not been used, and becomes one of
\* the keys made.
LEMMA FreshUnused ==
    ASSUME IInv, NEW c \in Clients, CanMakeKey(c), GenerateKeypair(c)
    PROVE  /\ \A q \in Pairs : ~ KeyUsed(c, q, FreshKey(c))
           /\ \A q \in Pairs : pendingKey[c][q] # FreshKey(c)
           /\ FreshKey(c) \in MadeKeys(c)' /\ FreshKey(c) \in LocalKeys
           /\ \A d \in Clients : MadeKeys(d) \subseteq MadeKeys(d)'
<1>1. keysMade[c] \in Nat /\ FreshKey(c) \in LocalKeys
  BY FreshKeyLocal DEF IInv, TypeOK, ACTypeOK, KETypeOK
<1>2. FreshKey(c) \notin MadeKeys(c)
  BY <1>1 DEF FreshKey, MadeKeys
<1>3. \A q \in Pairs : ~ KeyUsed(c, q, FreshKey(c))
  <2>1. FreshKey(c) \notin Published
    BY <1>2 DEF Published, MadeKeys, FreshKey
  <2>2. QED
    BY <1>1, <2>1 DEF IInv, UsedKeysMade
<1>4. \A q \in Pairs : pendingKey[c][q] # FreshKey(c)
  BY <1>1, <1>2, KeysAssumption DEF IInv, PendingUnused, KeyIds
<1>5. keysMade'[c] = keysMade[c] + 1 /\ \A d \in Clients : d # c => keysMade'[d] = keysMade[d]
  BY DEF GenerateKeypair, IInv, TypeOK, ACTypeOK, KETypeOK
<1>6. FreshKey(c) \in MadeKeys(c)'
  BY <1>1, <1>5 DEF FreshKey, MadeKeys
<1>7. ASSUME NEW d \in Clients
      PROVE  MadeKeys(d) \subseteq MadeKeys(d)'
  <2>1. keysMade[d] \in Nat
    BY BoundsAssumption DEF IInv, TypeOK, ACTypeOK, KETypeOK
  <2>2. keysMade'[d] \in {keysMade[d], keysMade[d] + 1}
    BY <1>5
  <2>3. QED
    BY <2>1, <2>2 DEF MadeKeys
<1>8. QED
  BY <1>1, <1>3, <1>4, <1>6, <1>7

\* create_handshake_offer keeps it: the new pending key is unused and belongs to
\* one pair.
LEMMA InvOffer ==
    ASSUME IInv, TypeOK', NEW c \in Clients, NEW a, NEW b, PairKey(a, b) \in Pairs,
           CreateHandshakeOffer(c, a, b)
    PROVE  IInv'
<1> DEFINE p == PairKey(a, b)
<1>1. /\ StartHandshake(c, p) /\ CanMakeKey(c) /\ GenerateKeypair(c)
      /\ SetPendingKey(c, p, FreshKey(c))
      /\ p \subseteq activeSessions[c]
      /\ ~ OfferSuppressed(c, p)
      /\ UNCHANGED <<sessionKey, seenNonces, activeSessions, accepted, delivered>>
  BY DEF CreateHandshakeOffer, BothActive, IsActive, PairKey
<1>2. \A d \in Clients, q \in Pairs :
         \/ chan'[d][q] = chan[d][q]
         \/ /\ d = c /\ q = p
            /\ chan[d][q] \notin Live
            /\ chan'[d][q] = "ESTABLISHING"
  BY <1>1, StartAt DEF IInv, TypeOK, ACTypeOK
<1>3. chan'[c][p] = "ESTABLISHING"
  BY <1>1 DEF IInv, TypeOK, ACTypeOK, KETypeOK, StartHandshake, OfferSuppressed, Live
<1>4. \A d \in Clients, q \in Pairs :
         pendingKey'[d][q] = IF d = c /\ q = p THEN FreshKey(c) ELSE pendingKey[d][q]
  BY <1>1 DEF IInv, TypeOK, ACTypeOK, KETypeOK, SetPendingKey
<1>5. /\ \A q \in Pairs : ~ KeyUsed(c, q, FreshKey(c))
      /\ \A q \in Pairs : pendingKey[c][q] # FreshKey(c)
      /\ FreshKey(c) \in MadeKeys(c)'
      /\ \A d \in Clients : MadeKeys(d) \subseteq MadeKeys(d)'
  BY <1>1, FreshUnused
<1>6. \A d, q, k : KeyUsed(d, q, k)' <=> KeyUsed(d, q, k)
  BY <1>1 DEF KeyUsed
<1> HIDE DEF p
<1>7. KeyIffActive'
  BY <1>1, <1>2 DEF IInv, KeyIffActive, Live
<1>8. PendingOnlyEstablishing'
  BY <1>2, <1>3, <1>4 DEF IInv, PendingOnlyEstablishing
<1>9. LiveNeedsSession'
  BY <1>1, <1>2 DEF IInv, LiveNeedsSession
<1>10. PendingUnused'
  BY <1>4, <1>5, <1>6 DEF IInv, PendingUnused
<1>11. UsedKeysMade'
  BY <1>5, <1>6 DEF IInv, UsedKeysMade, Published
<1>12. MessagesSealed' /\ DeliveredOnce'
  BY <1>1 DEF IInv, MessagesSealed, DeliveredOnce
<1>13. GuardRemembers'
  BY <1>1 DEF IInv, GuardRemembers
<1>14. QED
  BY <1>7, <1>8, <1>9, <1>10, <1>11, <1>12, <1>13 DEF IInv

\* A refused handshake frame keeps it.
LEMMA InvReject ==
    ASSUME IInv, TypeOK', NEW c \in Clients, NEW f, PairKey(f.from, f.to) \in Pairs,
           RejectHandshake(c, f)
    PROVE  IInv'
<1>1. \A d \in Clients, q \in Pairs : pendingKey'[d][q] \in {pendingKey[d][q], NoKey}
  BY DEF IInv, TypeOK, ACTypeOK, KETypeOK, RejectHandshake, PopPendingKey, SetPendingKey
<1>2. UNCHANGED <<chan, sessionKey, seenNonces, keysMade, activeSessions, accepted, delivered>>
  BY DEF RejectHandshake
<1>3. KeyIffActive' /\ PendingOnlyEstablishing' /\ LiveNeedsSession'
  BY <1>1, <1>2 DEF IInv, KeyIffActive, PendingOnlyEstablishing, LiveNeedsSession
<1>4. \A d, q, k : KeyUsed(d, q, k)' <=> KeyUsed(d, q, k)
  BY <1>2 DEF KeyUsed
<1>5. PendingUnused' /\ UsedKeysMade'
  BY <1>1, <1>2, <1>4 DEF IInv, PendingUnused, UsedKeysMade, Published, MadeKeys
<1>6. MessagesSealed' /\ DeliveredOnce'
  BY <1>2 DEF IInv, MessagesSealed, DeliveredOnce
<1>7. GuardRemembers'
  BY <1>2 DEF IInv, GuardRemembers
<1>8. QED
  BY <1>3, <1>5, <1>6, <1>7 DEF IInv

\* An establishment.  The private key is one this process made and the pair has not
\* used, so the secret differs from every one the pair had a message sealed with.
LEMMA InvEstablish ==
    ASSUME IInv, TypeOK', NEW c \in Clients, NEW f, PairKey(f.from, f.to) \in Pairs,
           NEW private \in LocalKeys, f.pub \in RemoteKeys \union Published,
           EstablishChannel(c, f, private),
           ~ KeyUsed(c, PairKey(f.from, f.to), private), private \in MadeKeys(c)',
           \A d \in Clients : MadeKeys(d) \subseteq MadeKeys(d)'
    PROVE  IInv'
<1> DEFINE p == PairKey(f.from, f.to)
           new == DeriveKey(private, f.pub)
           At(d, q) == d = c /\ q = p
<1>1. /\ ActivateSecureChannel(c, p, new, Fingerprint(f.pub))
      /\ PopPendingKey(c, p)
      /\ HandshakeHeeded(c, f)
      /\ UNCHANGED <<activeSessions, accepted, delivered>>
  BY DEF EstablishChannel
<1>2. \A d \in Clients, q \in Pairs :
         /\ chan'[d][q] = IF At(d, q) THEN "ACTIVE" ELSE chan[d][q]
         /\ sessionKey'[d][q] = IF At(d, q) THEN new ELSE sessionKey[d][q]
         /\ seenNonces'[d][q] = IF At(d, q) THEN {} ELSE seenNonces[d][q]
         /\ pendingKey'[d][q] = IF At(d, q) THEN NoKey ELSE pendingKey[d][q]
  BY <1>1 DEF IInv, TypeOK, ACTypeOK, KETypeOK, ActivateSecureChannel, PopPendingKey,
              SetPendingKey
<1>3. private \in new /\ new # NoSecret
  BY DEF DeriveKey, NoSecret
<1>4. Published \subseteq Published' /\ \A k \in new \cap LocalKeys : k \in Published'
  <2>1. Published \subseteq Published' /\ private \in Published'
    BY DEF Published
  <2>2. QED
    BY <2>1, KeysAssumption DEF DeriveKey
<1>5. f.to \in p \cap activeSessions[c]
  BY <1>1 DEF HandshakeHeeded, IsActive, PairKey
<1>6. \A d \in Clients, q \in Pairs : \A k :
         KeyUsed(d, q, k)' => KeyUsed(d, q, k) \/ (At(d, q) /\ k \in new)
  BY <1>1, <1>2 DEF KeyUsed
<1>7. \A i \in DOMAIN delivered[c] :
         PairKey(delivered[c][i].from, delivered[c][i].to) = p => delivered[c][i].key # new
  BY <1>3 DEF KeyUsed
<1> HIDE DEF p, new
<1>8. KeyIffActive'
  BY <1>2, <1>3 DEF IInv, KeyIffActive
<1>9. PendingOnlyEstablishing'
  BY <1>2 DEF IInv, PendingOnlyEstablishing
<1>10. LiveNeedsSession'
  <2> SUFFICES ASSUME NEW d \in Clients, NEW q \in Pairs
               PROVE  /\ chan'[d][q] = "ESTABLISHING" => q \subseteq activeSessions[d]
                      /\ chan'[d][q] = "ACTIVE" => q \cap activeSessions[d] # {}
    BY <1>1 DEF LiveNeedsSession
  <2>1. CASE At(d, q)
    BY <1>2, <1>5, <2>1
  <2>2. CASE ~ At(d, q)
    BY <1>2, <2>2 DEF IInv, LiveNeedsSession
  <2>3. QED
    BY <2>1, <2>2
<1>11. PendingUnused'
  <2> SUFFICES ASSUME NEW d \in Clients, NEW q \in Pairs,
                      NEW k, k = pendingKey'[d][q], k # NoKey
               PROVE  /\ k \in MadeKeys(d)' /\ ~ KeyUsed(d, q, k)'
                      /\ \A r \in Pairs \ {q} : pendingKey'[d][r] # k
    BY DEF PendingUnused
  <2>1. ~ At(d, q) /\ k = pendingKey[d][q]
    BY <1>2
  <2>2. /\ k \in MadeKeys(d) /\ ~ KeyUsed(d, q, k)
        /\ \A r \in Pairs \ {q} : pendingKey[d][r] # k
    BY <2>1 DEF IInv, PendingUnused
  <2>3. ~ KeyUsed(d, q, k)'
    BY <1>6, <2>1, <2>2
  <2>4. QED
    BY <1>2, <2>1, <2>2, <2>3
<1>12. UsedKeysMade'
  BY <1>4, <1>6 DEF IInv, UsedKeysMade
<1>14. GuardRemembers'
  <2> SUFFICES ASSUME NEW d \in Clients, NEW i \in DOMAIN delivered[d],
                      NEW q, q = PairKey(delivered[d][i].from, delivered[d][i].to),
                      sessionKey'[d][q] = delivered[d][i].key
               PROVE  delivered[d][i].nonce \in seenNonces'[d][q]
    BY <1>1 DEF GuardRemembers
  <2>1. q \in Pairs
    BY ReceiptsPair DEF IInv, TypeOK, ACTypeOK
  <2>2. ~ At(d, q)
    BY <1>2, <1>7, <2>1
  <2>3. QED
    BY <1>2, <2>1, <2>2 DEF IInv, GuardRemembers
<1>15. MessagesSealed' /\ DeliveredOnce'
  BY <1>1 DEF IInv, MessagesSealed, DeliveredOnce
<1>16. QED
  BY <1>8, <1>9, <1>10, <1>11, <1>12, <1>14, <1>15 DEF IInv

\* The private half an establishment uses, pending or fresh, was not used by the
\* pair before.
LEMMA PrivateUnused ==
    ASSUME IInv, NEW c \in Clients, NEW f, PairKey(f.from, f.to) \in Pairs,
           NEW private,
           \/ /\ AnswerHandshake(c, f) /\ private = FreshKey(c)
           \/ /\ CompleteHandshake(c, f)
              /\ private = pendingKey[c][PairKey(f.from, f.to)]
    PROVE  /\ private \in LocalKeys /\ EstablishChannel(c, f, private)
           /\ ~ KeyUsed(c, PairKey(f.from, f.to), private) /\ private \in MadeKeys(c)'
           /\ \A d \in Clients : MadeKeys(d) \subseteq MadeKeys(d)'
<1>1. CASE AnswerHandshake(c, f) /\ private = FreshKey(c)
  BY <1>1, FreshUnused DEF AnswerHandshake
<1>2. CASE CompleteHandshake(c, f) /\ private = pendingKey[c][PairKey(f.from, f.to)]
  <2>1. /\ private # NoKey /\ EstablishChannel(c, f, private) /\ UNCHANGED keysMade
    BY <1>2 DEF CompleteHandshake
  <2>2. private \in LocalKeys
    BY <1>2, <2>1 DEF IInv, TypeOK, ACTypeOK, KETypeOK
  <2>3. ~ KeyUsed(c, PairKey(f.from, f.to), private) /\ private \in MadeKeys(c)
    BY <1>2, <2>1 DEF IInv, PendingUnused
  <2>4. QED
    BY <2>1, <2>2, <2>3 DEF MadeKeys
<1>3. QED
  BY <1>1, <1>2

\* process_handshake_frame keeps it.
LEMMA InvProcess ==
    ASSUME IInv, TypeOK', NEW c \in Clients, NEW f, PairKey(f.from, f.to) \in Pairs,
           f.pub \in RemoteKeys \union Published \union {BadKey}, ProcessHandshakeFrame(c, f)
    PROVE  IInv'
<1>1. CASE RejectHandshake(c, f)
  BY <1>1, InvReject
<1>2. ASSUME NEW private,
             \/ /\ AnswerHandshake(c, f) /\ private = FreshKey(c)
             \/ /\ CompleteHandshake(c, f)
                /\ private = pendingKey[c][PairKey(f.from, f.to)]
      PROVE  IInv'
  <2>1. /\ private \in LocalKeys /\ EstablishChannel(c, f, private)
        /\ ~ KeyUsed(c, PairKey(f.from, f.to), private) /\ private \in MadeKeys(c)'
        /\ \A d \in Clients : MadeKeys(d) \subseteq MadeKeys(d)'
    BY <1>2, PrivateUnused
  <2>2. f.pub \in RemoteKeys \union Published
    BY <2>1 DEF EstablishChannel
  <2>3. QED
    BY <2>1, <2>2, InvEstablish
<1>3. QED
  BY <1>1, <1>2 DEF ProcessHandshakeFrame

\* send_text_message keeps it: what is accepted is sealed with the key of an
\* ACTIVE channel.
LEMMA InvSend ==
    ASSUME IInv, TypeOK', NEW c \in Clients, NEW a \in Users, NEW b \in Users,
           a # b, PairKey(a, b) \in Pairs, SendTextMessage(c, a, b)
    PROVE  IInv'
<1> DEFINE p == PairKey(a, b)
           verdict == SendVerdict(activeSessions[c], c, a, b)
<1>1. CASE verdict = "MESSAGE_ACCEPTED"
  <2> DEFINE r == Receipt(OutgoingFrame(c, a, b))
  <2>1. /\ accepted' = [accepted EXCEPT ![c] = @ \union {r}]
        /\ UNCHANGED <<chan, sessionKey, pendingKey, seenNonces, keysMade,
                       activeSessions, delivered>>
    BY <1>1 DEF SendTextMessage, AcceptMessage, keVars
  <2>2. \A d \in Clients :
           accepted'[d] = IF d = c THEN accepted[d] \union {r} ELSE accepted[d]
    BY <2>1 DEF IInv, TypeOK, ACTypeOK
  <2>3. r.key = sessionKey[c][p] /\ PairKey(r.from, r.to) = p
    BY DEF Receipt, OutgoingFrame, MessageFrame
  <2>4. chan[c][p] = "ACTIVE"
    BY <1>1 DEF SendVerdict
  <2>5. r.key # NoSecret
    BY <2>3, <2>4 DEF IInv, KeyIffActive
  <2> HIDE DEF r
  <2>6. \A d \in Clients, q \in Pairs : \A k : KeyUsed(d, q, k)' => KeyUsed(d, q, k)
    BY <2>1, <2>2, <2>3 DEF KeyUsed
  <2>7. KeyIffActive' /\ PendingOnlyEstablishing' /\ LiveNeedsSession'
    BY <2>1 DEF IInv, KeyIffActive, PendingOnlyEstablishing, LiveNeedsSession
  <2>8. MessagesSealed'
    BY <2>1, <2>2, <2>5 DEF IInv, MessagesSealed
  <2>9. PendingUnused' /\ UsedKeysMade'
    BY <2>1, <2>6 DEF IInv, PendingUnused, UsedKeysMade, Published, MadeKeys
  <2>10. DeliveredOnce'
    BY <2>1 DEF IInv, DeliveredOnce
  <2>11. GuardRemembers'
    BY <2>1 DEF IInv, GuardRemembers
  <2>12. QED
    BY <2>7, <2>8, <2>9, <2>10, <2>11 DEF IInv
<1>2. CASE verdict # "MESSAGE_ACCEPTED"
  <2>1. /\ RefuseMessage(c, a, b, verdict)
        /\ UNCHANGED <<pendingKey, keysMade, activeSessions, knownUsers>>
    BY <1>2 DEF SendTextMessage
  <2>2. UNCHANGED <<sessionKey, seenNonces, pendingKey, keysMade, activeSessions,
                    accepted, delivered>>
    BY <2>1 DEF RefuseMessage
  <2>3. CASE verdict = "403_SECURE_CHANNEL_REQUIRED"
    <3>1. p \subseteq activeSessions[c]
      BY <2>3 DEF SendVerdict, PairKey
    <3>2. StartHandshake(c, p)
      BY <2>1, <2>3 DEF RefuseMessage
    <3>3. QED
      BY <2>2, <3>1, <3>2, InvStart
  <2>4. CASE verdict # "403_SECURE_CHANNEL_REQUIRED"
    <3>1. UNCHANGED chan
      BY <2>1, <2>4 DEF RefuseMessage
    <3>2. KeyIffActive' /\ PendingOnlyEstablishing' /\ LiveNeedsSession'
      BY <2>2, <3>1 DEF IInv, KeyIffActive, PendingOnlyEstablishing, LiveNeedsSession
    <3>3. QED
      BY <2>2, <3>2, HistoriesStay, IInvParts DEF IInv, Histories
  <2>5. QED
    BY <2>3, <2>4
<1>3. QED
  BY <1>1, <1>2

\* receive_message keeps it: what is shown was not shown before, since the guard
\* remembers every nonce delivered under the key the channel has.
LEMMA InvReceive ==
    ASSUME IInv, TypeOK', NEW c \in Clients, NEW m, PairKey(m.from, m.to) \in Pairs,
           Receipt(m) \in Receipts, ReceiveMessage(c, m)
    PROVE  IInv'
<1> DEFINE p == PairKey(m.from, m.to)
           rcpt == Receipt(m)
<1>1. UNCHANGED <<chan, sessionKey, pendingKey, keysMade, activeSessions, accepted>>
  BY DEF ReceiveMessage, DecryptMessage
<1>2. \A d \in Clients, q \in Pairs :
         seenNonces'[d][q] = IF d = c /\ q = p THEN seenNonces[d][q] \union {m.nonce}
                                               ELSE seenNonces[d][q]
  BY DEF ReceiveMessage, DecryptMessage, RecordNonce, IInv, TypeOK, ACTypeOK, KETypeOK
<1>3. m.nonce \notin seenNonces[c][p]
  BY DEF ReceiveMessage, DecryptMessage, PassesReplayGuard, ReplayVerdict
<1>4. /\ rcpt.from = m.from /\ rcpt.to = m.to /\ rcpt.nonce = m.nonce /\ rcpt.key = m.key
  BY DEF Receipt
<1>5. KeyIffActive' /\ PendingOnlyEstablishing' /\ LiveNeedsSession'
  BY <1>1 DEF IInv, KeyIffActive, PendingOnlyEstablishing, LiveNeedsSession
<1>6. CASE ~ Decrypts(c, m)
  <2>1. UNCHANGED delivered
    BY <1>6 DEF ReceiveMessage, DecryptMessage
  <2>2. \A d, q, k : KeyUsed(d, q, k)' <=> KeyUsed(d, q, k)
    BY <1>1, <2>1 DEF KeyUsed
  <2>3. PendingUnused' /\ UsedKeysMade'
    BY <1>1, <2>2 DEF IInv, PendingUnused, UsedKeysMade, Published, MadeKeys
  <2>4. MessagesSealed' /\ DeliveredOnce'
    BY <1>1, <2>1 DEF IInv, MessagesSealed, DeliveredOnce
  <2>5. GuardRemembers'
    <3> SUFFICES ASSUME NEW d \in Clients, NEW i \in DOMAIN delivered[d],
                        NEW q, q = PairKey(delivered[d][i].from, delivered[d][i].to),
                        sessionKey[d][q] = delivered[d][i].key
                 PROVE  delivered[d][i].nonce \in seenNonces'[d][q]
      BY <1>1, <2>1 DEF GuardRemembers
    <3>1. q \in Pairs
      BY ReceiptsPair DEF IInv, TypeOK, ACTypeOK
    <3>2. delivered[d][i].nonce \in seenNonces[d][q]
      BY DEF IInv, GuardRemembers
    <3>3. QED
      BY <1>2, <3>1, <3>2
  <2>6. QED
    BY <1>5, <2>3, <2>4, <2>5 DEF IInv
<1>7. CASE Decrypts(c, m)
  <2>1. /\ sessionKey[c][p] # NoSecret /\ rcpt.key = sessionKey[c][p]
    BY <1>4, <1>7 DEF Decrypts
  <2>2. delivered' = [delivered EXCEPT ![c] = Append(@, rcpt)]
    BY <1>7 DEF ReceiveMessage, DecryptMessage
  <2>3. \A d \in Clients : delivered[d] \in Seq(Receipts) /\ delivered'[d] \in Seq(Receipts)
    BY DEF IInv, TypeOK, ACTypeOK
  <2>4. \A d \in Clients : d # c => delivered'[d] = delivered[d]
    BY <2>2, <2>3 DEF IInv, TypeOK, ACTypeOK
  <2>5. delivered'[c] = Append(delivered[c], rcpt)
    BY <2>2 DEF IInv, TypeOK, ACTypeOK
  <2> HIDE DEF rcpt, p
  <2>6. /\ DOMAIN delivered'[c] = DOMAIN delivered[c] \union {Len(delivered[c]) + 1}
        /\ Len(delivered[c]) + 1 \notin DOMAIN delivered[c]
        /\ delivered'[c][Len(delivered[c]) + 1] = rcpt
        /\ \A i \in DOMAIN delivered[c] : delivered'[c][i] = delivered[c][i]
    BY <2>3, <2>5
  <2>7. \A d \in Clients : \A i \in DOMAIN delivered'[d] :
           \/ i \in DOMAIN delivered[d] /\ delivered'[d][i] = delivered[d][i]
           \/ d = c /\ delivered'[d][i] = rcpt
    BY <2>4, <2>6
  <2>8. \A d \in Clients, q \in Pairs : \A k : KeyUsed(d, q, k)' => KeyUsed(d, q, k)
    <3> SUFFICES ASSUME NEW d \in Clients, NEW q \in Pairs, NEW k, KeyUsed(d, q, k)'
                 PROVE  KeyUsed(d, q, k)
      OBVIOUS
    <3>1. ASSUME NEW i \in DOMAIN delivered'[d], k \in delivered'[d][i].key,
                 PairKey(delivered'[d][i].from, delivered'[d][i].to) = q
          PROVE  KeyUsed(d, q, k)
      <4>1. CASE i \in DOMAIN delivered[d] /\ delivered'[d][i] = delivered[d][i]
        BY <3>1, <4>1 DEF KeyUsed
      <4>2. CASE d = c /\ delivered'[d][i] = rcpt
        BY <1>4, <2>1, <3>1, <4>2 DEF KeyUsed, p
      <4>3. QED
        BY <2>7, <4>1, <4>2
    <3>2. QED
      BY <1>1, <3>1 DEF KeyUsed
  <2>9. PendingUnused' /\ UsedKeysMade'
    BY <1>1, <2>8 DEF IInv, PendingUnused, UsedKeysMade, Published, MadeKeys
  <2>10. MessagesSealed'
    BY <1>1, <2>1, <2>7 DEF IInv, MessagesSealed
  <2>11. GuardRemembers'
    <3> SUFFICES ASSUME NEW d \in Clients, NEW i \in DOMAIN delivered'[d],
                        NEW q, q = PairKey(delivered'[d][i].from, delivered'[d][i].to),
                        sessionKey[d][q] = delivered'[d][i].key
                 PROVE  delivered'[d][i].nonce \in seenNonces'[d][q]
      BY <1>1 DEF GuardRemembers
    <3>1. q \in Pairs
      BY <2>3, ReceiptsPair
    <3>2. CASE i \in DOMAIN delivered[d] /\ delivered'[d][i] = delivered[d][i]
      <4>1. q = PairKey(delivered[d][i].from, delivered[d][i].to)
        BY <3>2
      <4>2. delivered[d][i].nonce \in seenNonces[d][q]
        BY <3>2, <4>1 DEF IInv, GuardRemembers
      <4>3. QED
        BY <1>2, <3>1, <3>2, <4>2
    <3>3. CASE d = c /\ delivered'[d][i] = rcpt
      BY <1>2, <1>4, <3>1, <3>3 DEF p
    <3>4. QED
      BY <2>7, <3>2, <3>3
  <2>12. \A i \in DOMAIN delivered[c] : delivered[c][i] # rcpt
    BY <1>3, <1>4, <2>1 DEF IInv, GuardRemembers, p
  <2>13. DeliveredOnce'
    BY <2>4, <2>6, <2>12 DEF IInv, DeliveredOnce
  <2>14. QED
    BY <1>5, <2>9, <2>10, <2>11, <2>13 DEF IInv
<1>8. QED
  BY <1>6, <1>7

\* Every step keeps the inductive invariant.
LEMMA InvNext == IInv /\ [Next]_vars => IInv'
<1> SUFFICES ASSUME IInv, [Next]_vars
             PROVE  IInv'
  OBVIOUS
<1>1. TypeOK'
  BY TypeNext DEF IInv
<1>2. ASSUME NEW c \in Clients, Call(c)
      PROVE  IInv'
  <2>1. CASE \E u \in Users : Register(c, u) \/ Disconnect(c, u) \/ PullNotifications(c, u)
    BY <1>1, <2>1, InvRegister, InvDisconnect, InvPull
  <2>2. ASSUME NEW e \in Peers,
               \/ HandshakeInit(c, e[1], e[2])
               \/ CreateHandshakeOffer(c, e[1], e[2])
               \/ SendTextMessage(c, e[1], e[2])
        PROVE  IInv'
    <3>1. e[1] \in Users /\ e[2] \in Users /\ e[1] # e[2] /\ PairKey(e[1], e[2]) \in Pairs
      BY PeersPair
    <3>2. QED
      BY <1>1, <2>2, <3>1, InvHandshakeInit, InvOffer, InvSend
  <2>3. QED
    BY <1>2, <2>1, <2>2 DEF Call
<1>3. ASSUME NEW c \in Clients, Arrival(c)
      PROVE  IInv'
  BY <1>1, <1>3, ArrivalCases, InvProcess, InvReceive DEF IInv
<1>4. CASE TimePasses \/ UNCHANGED vars
  <2>1. UNCHANGED acVars
    BY <1>4 DEF TimePasses, vars
  <2>2. KeyIffActive' /\ PendingOnlyEstablishing' /\ LiveNeedsSession'
    BY <2>1 DEF IInv, KeyIffActive, PendingOnlyEstablishing, LiveNeedsSession,
                acVars, keVars
  <2>3. Histories'
    BY <2>1, HistoriesStay, IInvParts DEF acVars, keVars
  <2>4. QED
    BY <1>1, <2>2, <2>3 DEF IInv, Histories
<1>5. QED
  BY <1>2, <1>3, <1>4 DEF Next

\* The inductive invariant of LocalRuntime holds in every reachable state, for all
\* values of the constants: every handler of the controller preserves it.
THEOREM Invariance == Spec => []IInv
BY InvInit, InvNext, PTL DEF Spec

\* A pair has a session key exactly while its channel is ACTIVE.
THEOREM KeyIffActiveHolds == Spec => []KeyIffActive
<1>1. IInv => KeyIffActive
  BY DEF IInv
<1>2. QED
  BY <1>1, Invariance, PTL

\* No message is accepted for sending, or shown, in clear.
THEOREM MessagesSealedHolds == Spec => []MessagesSealed
<1>1. IInv => MessagesSealed
  BY DEF IInv
<1>2. QED
  BY <1>1, Invariance, PTL

\* No message is handed to the user twice, in any number of sessions.
THEOREM DeliveredOnceHolds == Spec => []DeliveredOnce
<1>1. IInv => DeliveredOnce
  BY DEF IInv
<1>2. QED
  BY <1>1, Invariance, PTL

\* Presence and channels agree.
THEOREM LiveNeedsSessionHolds == Spec => []LiveNeedsSession
<1>1. IInv => LiveNeedsSession
  BY DEF IInv
<1>2. QED
  BY <1>1, Invariance, PTL

\* The replay guard remembers what was delivered under the current key.
THEOREM GuardRemembersHolds == Spec => []GuardRemembers
<1>1. IInv => GuardRemembers
  BY DEF IInv
<1>2. QED
  BY <1>1, Invariance, PTL

\* A private key waits for an answer only while its handshake is in progress.
THEOREM PendingOnlyEstablishingHolds == Spec => []PendingOnlyEstablishing
<1>1. IInv => PendingOnlyEstablishing
  BY DEF IInv
<1>2. QED
  BY <1>1, Invariance, PTL

-----------------------------------------------------------------------------
(***************************************************************************)
(* What a step may do to a channel and its secret, and what follows: the   *)
(* secret of every establishment is fresh, and the controllers implement   *)
(* the promised life of a channel.                                         *)
(***************************************************************************)
Opens(c, p) ==
    /\ chan[c][p] \notin Live
    /\ chan' = [chan EXCEPT ![c][p] = "ESTABLISHING"]
    /\ UNCHANGED sessionKey

Establishes(c, p, s) ==
    /\ chan[c][p] # "ACTIVE" /\ s \in Secrets
    /\ chan' = [chan EXCEPT ![c][p] = "ACTIVE"]
    /\ sessionKey' = [sessionKey EXCEPT ![c][p] = s]
    /\ \E k \in s : ~ KeyUsed(c, p, k)

Drops(c, u) ==
    /\ chan' = Without(chan, c, u, "INVALID")
    /\ sessionKey' = Without(sessionKey, c, u, NoSecret)

ChannelStep ==
    \/ UNCHANGED <<chan, sessionKey>>
    \/ \E c \in Clients, p \in Pairs : Opens(c, p)
    \/ \E c \in Clients, p \in Pairs, s \in Secrets : Establishes(c, p, s)
    \/ \E c \in Clients, u \in Users : Drops(c, u)

\* start_handshake opens a channel or leaves it alone.
LEMMA StartIsChannelStep ==
    ASSUME NEW c \in Clients, NEW p \in Pairs, StartHandshake(c, p), UNCHANGED sessionKey
    PROVE  ChannelStep
<1>1. CASE chan[c][p] \in Live
  BY <1>1 DEF StartHandshake, ChannelStep
<1>2. CASE chan[c][p] \notin Live
  BY <1>2 DEF StartHandshake, Opens, ChannelStep
<1>3. QED
  BY <1>1, <1>2

\* process_handshake_frame establishes a channel or leaves it alone.
LEMMA ProcessIsChannelStep ==
    ASSUME IInv, NEW c \in Clients, NEW f, PairKey(f.from, f.to) \in Pairs,
           f.pub \in RemoteKeys \union Published \union {BadKey}, ProcessHandshakeFrame(c, f)
    PROVE  ChannelStep
<1> DEFINE p == PairKey(f.from, f.to)
<1>1. CASE RejectHandshake(c, f)
  BY <1>1 DEF RejectHandshake, ChannelStep
<1>2. ASSUME NEW private,
             \/ /\ AnswerHandshake(c, f) /\ private = FreshKey(c)
             \/ /\ CompleteHandshake(c, f)
                /\ private = pendingKey[c][PairKey(f.from, f.to)]
      PROVE  ChannelStep
  <2> DEFINE s == DeriveKey(private, f.pub)
  <2>1. private \in LocalKeys /\ EstablishChannel(c, f, private) /\ ~ KeyUsed(c, p, private)
    BY <1>2, PrivateUnused
  <2>2. /\ ActivateSecureChannel(c, p, s, Fingerprint(f.pub))
        /\ HandshakeHeeded(c, f) /\ f.pub \in RemoteKeys \union Published
    BY <2>1 DEF EstablishChannel
  <2>3. chan[c][p] # "ACTIVE"
    BY <2>2 DEF HandshakeHeeded, IInv, KeyIffActive
  <2>4. s \in Secrets
    BY <2>1, <2>2, SecretMade, KnownSecretsType DEF KeyIds, IInv
  <2>5. \E k \in s : ~ KeyUsed(c, p, k)
    BY <2>1 DEF DeriveKey
  <2>6. Establishes(c, p, s)
    BY <2>2, <2>3, <2>4, <2>5 DEF ActivateSecureChannel, Establishes
  <2>7. QED
    BY <2>4, <2>6 DEF ChannelStep
<1>3. QED
  BY <1>1, <1>2 DEF ProcessHandshakeFrame

\* Every step leaves the channels alone, opens one, establishes one or drops those
\* of one user.
LEMMA StepIsChannelStep ==
    ASSUME IInv, [Next]_vars
    PROVE  ChannelStep
<1>1. ASSUME NEW c \in Clients, Call(c)
      PROVE  ChannelStep
  <2>1. ASSUME NEW u \in Users, Register(c, u) \/ PullNotifications(c, u)
        PROVE  ChannelStep
    BY <2>1 DEF Register, PullNotifications, keVars, ChannelStep
  <2>2. ASSUME NEW u \in Users, Disconnect(c, u)
        PROVE  ChannelStep
    BY <2>2 DEF Disconnect, InvalidateUserChannels, Drops, ChannelStep
  <2>3. ASSUME NEW e \in Peers,
               \/ HandshakeInit(c, e[1], e[2])
               \/ CreateHandshakeOffer(c, e[1], e[2])
               \/ SendTextMessage(c, e[1], e[2])
        PROVE  ChannelStep
    <3>1. PairKey(e[1], e[2]) \in Pairs
      BY PeersPair
    <3>2. \/ StartHandshake(c, PairKey(e[1], e[2])) /\ UNCHANGED sessionKey
          \/ UNCHANGED <<chan, sessionKey>>
      BY <2>3 DEF HandshakeInit, CreateHandshakeOffer, SendTextMessage, RefuseMessage,
                  AcceptMessage, keVars
    <3>3. QED
      BY <3>1, <3>2, StartIsChannelStep DEF ChannelStep
  <2>4. QED
    BY <1>1, <2>1, <2>2, <2>3 DEF Call
<1>2. ASSUME NEW c \in Clients, Arrival(c)
      PROVE  ChannelStep
  <2>1. ASSUME NEW m, ReceiveMessage(c, m)
        PROVE  ChannelStep
    BY <2>1 DEF ReceiveMessage, DecryptMessage, ChannelStep
  <2>2. QED
    BY <1>2, <2>1, ArrivalCases, ProcessIsChannelStep DEF IInv
<1>3. CASE TimePasses \/ UNCHANGED vars
  BY <1>3 DEF TimePasses, vars, acVars, keVars, ChannelStep
<1>4. QED
  BY <1>1, <1>2, <1>3 DEF Next

\* Every establishment makes a secret with a half that is in no secret under which
\* the pair exchanged a message, also when the network sends this process one of
\* its own public keys, or one it has sent before.
THEOREM SecretsFreshHolds == Spec => SecretsFresh
<1> DEFINE Fresh == \A c \in Clients, p \in Pairs :
                       chan[c][p] # "ACTIVE" /\ chan'[c][p] = "ACTIVE"
                           => \E k \in sessionKey'[c][p] : ~ KeyUsed(c, p, k)
<1>1. ASSUME IInv, [Next]_vars
      PROVE  Fresh
  <2> SUFFICES ASSUME NEW c \in Clients, NEW p \in Pairs,
                      chan[c][p] # "ACTIVE", chan'[c][p] = "ACTIVE"
               PROVE  \E k \in sessionKey'[c][p] : ~ KeyUsed(c, p, k)
    OBVIOUS
  <2>1. TypeOK
    BY <1>1 DEF IInv
  <2>2. CASE UNCHANGED <<chan, sessionKey>>
    BY <2>2
  <2>3. ASSUME NEW d \in Clients, NEW q \in Pairs, Opens(d, q)
        PROVE  FALSE
    BY <2>1, <2>3 DEF Opens, TypeOK, ACTypeOK, KETypeOK
  <2>4. ASSUME NEW d \in Clients, NEW q \in Pairs, NEW s \in Secrets, Establishes(d, q, s)
        PROVE  \E k \in sessionKey'[c][p] : ~ KeyUsed(c, p, k)
    <3>1. d = c /\ q = p
      BY <2>1, <2>4 DEF Establishes, TypeOK, ACTypeOK, KETypeOK
    <3>2. sessionKey'[c][p] = s
      BY <2>1, <2>4, <3>1 DEF Establishes, TypeOK, ACTypeOK, KETypeOK
    <3>3. QED
      BY <2>4, <3>1, <3>2 DEF Establishes
  <2>5. ASSUME NEW d \in Clients, NEW u \in Users, Drops(d, u)
        PROVE  FALSE
    BY <2>1, <2>5 DEF Drops, Without, TypeOK, ACTypeOK, KETypeOK
  <2>6. QED
    BY <1>1, <2>2, <2>3, <2>4, <2>5, StepIsChannelStep DEF ChannelStep
<1>2. QED
  BY <1>1, Invariance, PTL DEF Spec, SecretsFresh

\* Only an establishment touches a pin: it pins the key of the frame, and tells
\* the frame's addressee when another one was pinned.
Pins(c, f) ==
    LET p == PairKey(f.from, f.to) IN
    /\ remoteFp' = [remoteFp EXCEPT ![c][p] = f.pub]
    /\ IF remoteFp[c][p] \notin {NoKey, f.pub}
       THEN Publish(c, f.to, "409_REMOTE_KEY_CHANGED")
       ELSE UNCHANGED mailbox

\* A handshake frame changes no pin, or pins its key as above.
LEMMA ProcessPins ==
    ASSUME NEW c \in Clients, NEW f, ProcessHandshakeFrame(c, f)
    PROVE  UNCHANGED remoteFp \/ (Pins(c, f) /\ f.pub # BadKey)
<1>1. CASE RejectHandshake(c, f)
  BY <1>1 DEF RejectHandshake
<1>2. ASSUME NEW private, EstablishChannel(c, f, private)
      PROVE  Pins(c, f) /\ f.pub # BadKey
  BY <1>2 DEF EstablishChannel, ActivateSecureChannel, KeyChanged, Fingerprint, Pins
<1>3. QED
  BY <1>1, <1>2 DEF ProcessHandshakeFrame, AnswerHandshake, CompleteHandshake

\* A call of the command line changes no pin.
LEMMA CallPins ==
    ASSUME NEW c \in Clients, Call(c)
    PROVE  UNCHANGED remoteFp
BY DEF Call, Register, Disconnect, PullNotifications, HandshakeInit,
       CreateHandshakeOffer, SendTextMessage, RefuseMessage, AcceptMessage,
       InvalidateUserChannels, keVars

\* A pinned remote key is never forgotten, and its replacement is announced to
\* one of the two users by the handler that makes it.
THEOREM PinChangeAnnouncedHolds == Spec => PinChangeAnnounced
<1> DEFINE Told(c, p) == remoteFp[c][p] # NoKey /\ remoteFp'[c][p] # remoteFp[c][p]
                => /\ remoteFp'[c][p] # NoKey
                   /\ \E u \in p : "409_REMOTE_KEY_CHANGED" \in mailbox'[c][u]
<1> DEFINE AllTold == \A c \in Clients, p \in Pairs : Told(c, p)
<1>1. ASSUME TypeOK, [Next]_vars, NEW c \in Clients, NEW p \in Pairs
      PROVE  Told(c, p)
  <2>1. CASE UNCHANGED remoteFp
    BY <2>1
  <2>2. ASSUME NEW d \in Clients, NEW f, ProcessHandshakeFrame(d, f), f.to \in Users,
               PairKey(f.from, f.to) \in Pairs,
               f.pub \in RemoteKeys \union Published \union {BadKey}
        PROVE  Told(c, p)
    <3>1. CASE UNCHANGED remoteFp
      BY <3>1
    <3>2. CASE Pins(d, f) /\ f.pub # BadKey
      <4>1. f.pub # NoKey
        BY <1>1, <2>2, <3>2, KnownSecretsType, KeysAssumption DEF KeyIds
      <4>2. remoteFp' = [remoteFp EXCEPT ![d][PairKey(f.from, f.to)] = f.pub]
        BY <3>2 DEF Pins
      <4>3. SUFFICES ASSUME remoteFp[c][p] # NoKey, remoteFp'[c][p] # remoteFp[c][p]
                     PROVE  remoteFp'[c][p] # NoKey
                            /\ "409_REMOTE_KEY_CHANGED" \in mailbox'[c][f.to]
                            /\ f.to \in p
        OBVIOUS
      <4>4. d = c /\ p = PairKey(f.from, f.to) /\ remoteFp'[c][p] = f.pub
        BY <1>1, <2>2, <4>2, <4>3 DEF TypeOK, ACTypeOK, KETypeOK
      <4>5. Publish(c, f.to, "409_REMOTE_KEY_CHANGED")
        BY <3>2, <4>3, <4>4 DEF Pins
      <4>6. "409_REMOTE_KEY_CHANGED" \in mailbox'[c][f.to]
        BY <1>1, <2>2, <4>5 DEF Publish, TypeOK, ACTypeOK
      <4>7. QED
        BY <4>1, <4>4, <4>6 DEF PairKey
    <3>3. QED
      BY <2>2, <3>1, <3>2, ProcessPins
  <2>3. ASSUME NEW d \in Clients, Arrival(d)
        PROVE  Told(c, p)
    <3>1. ASSUME NEW m, ReceiveMessage(d, m)
          PROVE  UNCHANGED remoteFp
      BY <3>1 DEF ReceiveMessage, DecryptMessage
    <3>2. QED
      BY <1>1, <2>1, <2>2, <2>3, <3>1, ArrivalCases
  <2>4. CASE TimePasses \/ UNCHANGED vars
    BY <2>1, <2>4 DEF TimePasses, vars, acVars, keVars
  <2>5. QED
    BY <1>1, <2>1, <2>3, <2>4, CallPins DEF Next
<1>2. TypeOK /\ [Next]_vars => AllTold
  BY <1>1
<1>3. QED
  BY <1>2, TypeCorrect, PTL DEF Spec, PinChangeAnnounced

-----------------------------------------------------------------------------
\* The refinement mapping, slot by slot.
StateOf  == [x \in Slots |-> chan[x[1]][x[2]]]
SecretOf == [x \in Slots |-> sessionKey[x[1]][x[2]]]

\* A slot is a client and a pair.
LEMMA SlotParts ==
    \A x \in Slots : x[1] \in Clients /\ x[2] \in Pairs /\ x = <<x[1], x[2]>>
BY DEF Slots

\* A write to the record of one pair is a write to its slot.
LEMMA StateWrite ==
    ASSUME TypeOK, NEW c \in Clients, NEW p \in Pairs, NEW v,
           chan' = [chan EXCEPT ![c][p] = v]
    PROVE  StateOf' = [StateOf EXCEPT ![<<c, p>>] = v]
<1>1. <<c, p>> \in Slots
  BY DEF Slots
<1>2. \A x \in Slots : chan'[x[1]][x[2]] =
          IF x[1] = c /\ x[2] = p THEN v ELSE chan[x[1]][x[2]]
  BY SlotParts DEF TypeOK, ACTypeOK, KETypeOK
<1>3. \A x \in Slots : x[1] = c /\ x[2] = p <=> x = <<c, p>>
  BY SlotParts
<1>4. \A x \in Slots : StateOf'[x] = IF x = <<c, p>> THEN v ELSE StateOf[x]
  BY <1>2, <1>3 DEF StateOf
<1>5. StateOf' = [x \in Slots |-> IF x = <<c, p>> THEN v ELSE StateOf[x]]
  BY <1>4 DEF StateOf
<1>6. QED
  BY <1>1, <1>5 DEF StateOf

\* A write to the session key of one pair is a write to its slot.
LEMMA SecretWrite ==
    ASSUME TypeOK, NEW c \in Clients, NEW p \in Pairs, NEW v,
           sessionKey' = [sessionKey EXCEPT ![c][p] = v]
    PROVE  SecretOf' = [SecretOf EXCEPT ![<<c, p>>] = v]
<1>1. <<c, p>> \in Slots
  BY DEF Slots
<1>2. \A x \in Slots : sessionKey'[x[1]][x[2]] =
          IF x[1] = c /\ x[2] = p THEN v ELSE sessionKey[x[1]][x[2]]
  BY SlotParts DEF TypeOK, ACTypeOK, KETypeOK
<1>3. \A x \in Slots : x[1] = c /\ x[2] = p <=> x = <<c, p>>
  BY SlotParts
<1>4. \A x \in Slots : SecretOf'[x] = IF x = <<c, p>> THEN v ELSE SecretOf[x]
  BY <1>2, <1>3 DEF SecretOf
<1>5. SecretOf' = [x \in Slots |-> IF x = <<c, p>> THEN v ELSE SecretOf[x]]
  BY <1>4 DEF SecretOf
<1>6. QED
  BY <1>1, <1>5 DEF SecretOf

\* Every step maps to a step of the abstract channel life, or to a stutter.
LEMMA LifecycleStep ==
    ASSUME IInv, [Next]_vars
    PROVE  [Channel!Next]_(Channel!vars)
<1>1. TypeOK
  BY DEF IInv
<1>2. chan \in [Clients -> [Pairs -> ChannelStates]]
  BY <1>1 DEF TypeOK, ACTypeOK, KETypeOK
<1>3. sessionKey \in [Clients -> [Pairs -> Secrets \union {NoSecret}]]
  BY <1>1 DEF TypeOK, ACTypeOK, KETypeOK
<1>4. CASE UNCHANGED <<chan, sessionKey>>
  BY <1>4 DEF Channel!vars
<1>5. ASSUME NEW c \in Clients, NEW p \in Pairs, Opens(c, p)
      PROVE  Channel!Next
  <2>1. <<c, p>> \in Slots /\ StateOf[<<c, p>>] = chan[c][p]
    BY DEF Slots, StateOf
  <2>2. chan[c][p] \in {"NONE", "INVALID"}
    BY <1>2, <1>5 DEF Opens, ChannelStates, Live
  <2>3. StateOf' = [StateOf EXCEPT ![<<c, p>>] = "ESTABLISHING"]
    BY <1>1, <1>5, StateWrite DEF Opens
  <2>4. SecretOf' = SecretOf
    BY <1>5 DEF Opens, SecretOf
  <2>5. Channel!Open(<<c, p>>)
    BY <2>1, <2>2, <2>3, <2>4 DEF Channel!Open, StateOf, SecretOf
  <2>6. QED
    BY <2>1, <2>5 DEF Channel!Next
<1>6. ASSUME NEW c \in Clients, NEW p \in Pairs, NEW s \in Secrets, Establishes(c, p, s)
      PROVE  Channel!Next
  <2>1. <<c, p>> \in Slots /\ StateOf[<<c, p>>] = chan[c][p]
    BY DEF Slots, StateOf
  <2>2. StateOf' = [StateOf EXCEPT ![<<c, p>>] = "ACTIVE"]
    BY <1>1, <1>6, StateWrite DEF Establishes
  <2>3. SecretOf' = [SecretOf EXCEPT ![<<c, p>>] = s]
    BY <1>1, <1>6, SecretWrite DEF Establishes
  <2>4. Channel!Establish(<<c, p>>, s)
    BY <1>6, <2>1, <2>2, <2>3 DEF Establishes, Channel!Establish, StateOf, SecretOf
  <2>5. QED
    BY <2>1, <2>4 DEF Channel!Next
<1>7. ASSUME NEW c \in Clients, NEW u \in Users, Drops(c, u)
      PROVE  Channel!Next
  <2> DEFINE S == {x \in Slots : x[1] = c /\ x[2] \in Invalidated(c, u)}
  <2>1. \A x \in S : StateOf[x] # "NONE"
    BY DEF StateOf, Invalidated
  <2>2. StateOf' = [x \in Slots |-> IF x \in S THEN "INVALID" ELSE StateOf[x]]
    <3>1. \A x \in Slots : chan'[x[1]][x[2]] =
              IF x[1] = c /\ x[2] \in Invalidated(c, u) THEN "INVALID" ELSE chan[x[1]][x[2]]
      BY <1>2, <1>7, SlotParts DEF Drops, Without
    <3>2. QED
      BY <3>1 DEF StateOf
  <2>3. SecretOf' = [x \in Slots |-> IF x \in S THEN NoSecret ELSE SecretOf[x]]
    <3>1. \A x \in Slots : sessionKey'[x[1]][x[2]] =
              IF x[1] = c /\ x[2] \in Invalidated(c, u) THEN NoSecret
                                                       ELSE sessionKey[x[1]][x[2]]
      BY <1>3, <1>7, SlotParts DEF Drops, Without
    <3>2. QED
      BY <3>1 DEF SecretOf
  <2>4. S \in SUBSET Slots
    OBVIOUS
  <2> HIDE DEF S
  <2>5. PICK T \in SUBSET Slots : T = S
    BY <2>4
  <2>6. Channel!Drop(T)
    BY <2>1, <2>2, <2>3, <2>5 DEF Channel!Drop, StateOf, SecretOf
  <2>7. QED
    BY <2>6 DEF Channel!Next
<1>8. QED
  BY <1>4, <1>5, <1>6, <1>7, StepIsChannelStep DEF ChannelStep

\* The initial states map to initial states.
LEMMA LifecycleInit == Init => Channel!Init
BY SlotParts DEF Init, ACInit, KEInit, Channel!Init

\* The controllers implement the promised life of a channel.
THEOREM Implements == Spec => ImplementsLifecycle
BY LifecycleInit, LifecycleStep, Invariance, PTL DEF Spec, ImplementsLifecycle, Channel!Spec
=============================================================================
