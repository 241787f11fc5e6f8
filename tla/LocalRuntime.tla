---------------------------- MODULE LocalRuntime ----------------------------
(***************************************************************************)
(* One or more controllers, each alone with its callers and with frames    *)
(* from a network that owes it nothing: any handshake frame, between any   *)
(* two names or one, with a foreign key, a key a process itself published  *)
(* or an unusable one, and any message under no key, a key some peer can   *)
(* hold or one a message was sealed with, under any nonce, again and again *)
(* and in any order.                                                       *)
(***************************************************************************)
EXTENDS AppController

vars == <<acVars, clock>>

Init == ACInit

Peers == {e \in Users \X Users : e[1] # e[2]}

\* The public keys of the processes, which the network has seen.
MadeKeys(c) == {c} \X (1 .. keysMade[c])
Published == UNION {MadeKeys(c) : c \in Clients}

\* A secret some peer can hold, and one a process has sealed a message with: the
\* network may send that message back.
KnownSecrets == {DeriveKey(k, r) : k \in Published, r \in RemoteKeys}
SealedWith == {r.key : r \in UNION {accepted[c] : c \in Clients}}

ForeignHandshake(c, from, to, k, at) ==
    ProcessHandshakeFrame(c, HandshakeFrame(from, to, k, at))

ForeignMessage(c, e, n, k, at) ==
    ReceiveMessage(c, MessageFrame(e[1], e[2], n, k, at))

Call(c) ==
    \/ \E u \in Users : Register(c, u) \/ Disconnect(c, u) \/ PullNotifications(c, u)
    \/ \E e \in Peers : \/ HandshakeInit(c, e[1], e[2])
                        \/ CreateHandshakeOffer(c, e[1], e[2])
                        \/ SendTextMessage(c, e[1], e[2])

Arrival(c) ==
    \E at \in 0 .. MaxClock :
        \/ \E from, to \in Users, k \in RemoteKeys \union Published \union {BadKey} :
               ForeignHandshake(c, from, to, k, at)
        \/ \E e \in Peers, n \in Nonces,
              k \in KnownSecrets \union SealedWith \union {NoSecret} :
               ForeignMessage(c, e, n, k, at)

TimePasses == Tick /\ UNCHANGED acVars

Next ==
    \/ \E c \in Clients : Call(c) /\ UNCHANGED clock
    \/ \E c \in Clients : Arrival(c) /\ UNCHANGED clock
    \/ TimePasses

Spec == Init /\ [][Next]_vars

-----------------------------------------------------------------------------
\* Every variable keeps the shape the dictionaries and lists of the code have.
TypeOK == ACTypeOK

\* The key is half of a secret the pair has, or has had a message sealed with.
KeyUsed(c, p, k) ==
    \/ k \in sessionKey[c][p]
    \/ \E r \in accepted[c] : PairKey(r.from, r.to) = p /\ k \in r.key
    \/ \E i \in DOMAIN delivered[c] :
           PairKey(delivered[c][i].from, delivered[c][i].to) = p
           /\ k \in delivered[c][i].key

\* A private key that waits for an answer is one this process made, for that
\* pair alone, and has never been half of a secret of that pair.  Of another pair
\* it may be: the network can give its public half for somebody else's.
PendingUnused ==
    \A c \in Clients, p \in Pairs :
        LET k == pendingKey[c][p] IN
        k # NoKey => /\ k \in MadeKeys(c) /\ ~ KeyUsed(c, p, k)
                     /\ \A q \in Pairs \ {p} : pendingKey[c][q] # k

\* A process's key that is half of a secret has been made: the next key pair is
\* therefore unused, everywhere.
UsedKeysMade ==
    \A c \in Clients, p \in Pairs : \A k \in LocalKeys :
        KeyUsed(c, p, k) => k \in Published

\* The inductive invariant of the proofs: what makes an establishment fresh,
\* and what the replay guard has to remember for as long as the key lasts.
IInv ==
    /\ TypeOK
    /\ KeyIffActive /\ PendingOnlyEstablishing /\ LiveNeedsSession
    /\ MessagesSealed
    /\ PendingUnused /\ UsedKeysMade
    /\ GuardRemembers /\ DeliveredOnce

\* A channel that becomes ACTIVE does so under a secret with a half that no secret
\* under which the pair exchanged a message has, whatever keys the network sends,
\* so the nonces that are forgotten then cannot come back under it.
SecretsFresh ==
    [][\A c \in Clients, p \in Pairs :
          chan[c][p] # "ACTIVE" /\ chan'[c][p] = "ACTIVE"
              => \E k \in sessionKey'[c][p] : ~ KeyUsed(c, p, k)]_vars

\* A fingerprint once pinned is never forgotten, and replacing it by another
\* leaves a 409_REMOTE_KEY_CHANGED for one of the two users in the same call.
PinChangeAnnounced ==
    [][\A c \in Clients, p \in Pairs :
          remoteFp[c][p] # NoKey /\ remoteFp'[c][p] # remoteFp[c][p]
              => /\ remoteFp'[c][p] # NoKey
                 /\ \E u \in p : "409_REMOTE_KEY_CHANGED" \in mailbox'[c][u]]_vars

\* The controllers implement the promised life of a channel, one channel for
\* each client and pair.
Slots == Clients \X Pairs

Channel == INSTANCE ChannelLifecycle WITH
    Channels <- Slots, SharedSecrets <- Secrets, None <- NoSecret,
    state <- [x \in Slots |-> chan[x[1]][x[2]]],
    secret <- [x \in Slots |-> sessionKey[x[1]][x[2]]]

ImplementsLifecycle == Channel!Spec
=============================================================================
