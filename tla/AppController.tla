--------------------------- MODULE AppController ---------------------------
(***************************************************************************)
(* The handlers of app/app_controller.py with the session table they       *)
(* consult (app/services/user_service.py) and the notification bus they    *)
(* publish to (app/interfaces.py).  One handler call is one action here:   *)
(* these modules describe a process whose calls do not overlap.            *)
(*                                                                         *)
(* A handler that returns an error and changes nothing is a disabled       *)
(* action.  Frames are records: a handshake frame carries a public key, a  *)
(* message the nonce that identifies it and the secret its ciphertext was  *)
(* made with, NoSecret for text that was not encrypted.  Both carry the    *)
(* instant they were made at.                                              *)
(***************************************************************************)
EXTENDS KeyExchange

VARIABLES
    activeSessions, \* names with a session in the client's table
    knownUsers,     \* names the table has ever seen
    mailbox,        \* codes waiting in the bus, by client and by name
    msgsMade,       \* how many messages the client has built
    accepted,       \* what send_message answered MESSAGE_ACCEPTED for
    delivered       \* what receive_message answered MESSAGE_RECEIVED for

acVars == <<keVars, keysMade, activeSessions, knownUsers, mailbox, msgsMade,
            accepted, delivered>>

NoticeCodes == {"401_NOT_REGISTERED", "404_USER_OFFLINE",
                "403_SECURE_CHANNEL_REQUIRED", "409_REMOTE_KEY_CHANGED"}

Secret == Secrets \union {NoSecret}

HandshakeFrame(from, to, public, at) ==
    [type |-> "HANDSHAKE_INIT", from |-> from, to |-> to, pub |-> public, at |-> at]

MessageFrame(from, to, nonce, key, at) ==
    [type |-> "MESSAGE", from |-> from, to |-> to, nonce |-> nonce, key |-> key,
     at |-> at]

\* The protocol refuses a MESSAGE whose from and to are the same.
Receipts ==
    {r \in [from : Users, to : Users, nonce : Nonces, key : Secret] : r.from # r.to}
Receipt(m) == [from |-> m.from, to |-> m.to, nonce |-> m.nonce, key |-> m.key]

ACTypeOK ==
    /\ KETypeOK
    /\ activeSessions \in [Clients -> SUBSET Users]
    /\ knownUsers \in [Clients -> SUBSET Users]
    /\ mailbox \in [Clients -> [Users -> SUBSET NoticeCodes]]
    /\ msgsMade \in [Clients -> 0 .. MaxMsgs]
    /\ accepted \in [Clients -> SUBSET Receipts]
    /\ delivered \in [Clients -> Seq(Receipts)]

ACInit ==
    /\ KEInit
    /\ activeSessions = [c \in Clients |-> {}]
    /\ knownUsers = [c \in Clients |-> {}]
    /\ mailbox = [c \in Clients |-> [u \in Users |-> {}]]
    /\ msgsMade = [c \in Clients |-> 0]
    /\ accepted = [c \in Clients |-> {}]
    /\ delivered = [c \in Clients |-> << >>]

IsActive(c, u) == u \in activeSessions[c]

\* The error is addressed to u and put in the box of that name.
Publish(c, u, code) == mailbox' = [mailbox EXCEPT ![c][u] = @ \union {code}]

(***************************************************************************)
(* Sessions.  A name that has a session is refused with 409_USERNAME_TAKEN.*)
(***************************************************************************)
RegisterUser(c, u) ==
    /\ ~ IsActive(c, u)
    /\ activeSessions' = [activeSessions EXCEPT ![c] = @ \union {u}]
    /\ knownUsers' = [knownUsers EXCEPT ![c] = @ \union {u}]

Register(c, u) ==
    /\ RegisterUser(c, u)
    /\ UNCHANGED <<keVars, keysMade, mailbox, msgsMade, accepted, delivered>>

Disconnect(c, u) ==
    /\ IsActive(c, u)
    /\ activeSessions' = [activeSessions EXCEPT ![c] = @ \ {u}]
    /\ InvalidateUserChannels(c, u)
    /\ UNCHANGED <<keysMade, knownUsers, mailbox, msgsMade, accepted, delivered>>

PullNotifications(c, u) ==
    /\ mailbox[c][u] # {}
    /\ mailbox' = [mailbox EXCEPT ![c][u] = {}]
    /\ UNCHANGED <<keVars, keysMade, activeSessions, knownUsers, msgsMade,
                   accepted, delivered>>

(***************************************************************************)
(* Handshake.                                                              *)
(***************************************************************************)
\* Deliberately wrong variant: only the sender is looked up.
SenderActive(c, a, b) == IsActive(c, a)

BothActive(c, a, b) == IsActive(c, a) /\ IsActive(c, b)

HandshakeInit(c, a, b) ==
    /\ BothActive(c, a, b)
    /\ StartHandshake(c, PairKey(a, b))
    /\ UNCHANGED <<sessionKey, remoteFp, seenNonces, pendingKey, keysMade,
                   activeSessions, knownUsers, mailbox, msgsMade, accepted, delivered>>

\* An offer answers "frame": None while the channel is ACTIVE, or ESTABLISHING
\* with a private key still pending.
OfferSuppressed(c, p) ==
    \/ chan[c][p] = "ACTIVE"
    \/ chan[c][p] = "ESTABLISHING" /\ pendingKey[c][p] # NoKey

CreateHandshakeOffer(c, a, b) ==
    LET p == PairKey(a, b) IN
    /\ ~ OfferSuppressed(c, p)
    /\ BothActive(c, a, b)
    /\ CanMakeKey(c)
    /\ GenerateKeypair(c)
    /\ SetPendingKey(c, p, FreshKey(c))
    /\ StartHandshake(c, p)
    /\ UNCHANGED <<sessionKey, remoteFp, seenNonces, activeSessions, knownUsers,
                   mailbox, msgsMade, accepted, delivered>>

OfferFrame(c, a, b) == HandshakeFrame(a, b, FreshKey(c), clock)

\* Deliberately wrong variant: an ACTIVE channel is negotiated anew.
HandshakeAlwaysHeeded(c, f) ==
    /\ Recent(f.at)
    /\ IsActive(c, f.to)

\* The checks of process_handshake_frame that end the call with no effect: a
\* frame outside the time window, a channel that is ACTIVE with its key, a
\* target with no session here.
HandshakeHeeded(c, f) ==
    LET p == PairKey(f.from, f.to) IN
    /\ Recent(f.at)
    /\ ~ (chan[c][p] = "ACTIVE" /\ sessionKey[c][p] # NoSecret)
    /\ IsActive(c, f.to)

\* A key that cannot be loaded: the pending private key is popped by then.
\* (The pair generated when none was pending is dropped unused.)
RejectHandshake(c, f) ==
    /\ HandshakeHeeded(c, f)
    /\ f.pub = BadKey
    /\ PopPendingKey(c, PairKey(f.from, f.to))
    /\ UNCHANGED <<chan, startedAt, sessionKey, remoteFp, seenNonces, keysMade,
                   activeSessions, knownUsers, mailbox, msgsMade, accepted, delivered>>

\* Deliberately wrong variant: the pending private key is read and left there.
EstablishLeavingPending(c, f, private) ==
    LET p == PairKey(f.from, f.to) IN
    /\ HandshakeHeeded(c, f)
    /\ f.pub # BadKey
    /\ ActivateSecureChannel(c, p, DeriveKey(private, f.pub), Fingerprint(f.pub))
    /\ IF KeyChanged(c, p, Fingerprint(f.pub))
       THEN Publish(c, f.to, "409_REMOTE_KEY_CHANGED")
       ELSE UNCHANGED mailbox
    /\ UNCHANGED <<pendingKey, activeSessions, knownUsers, msgsMade, accepted,
                   delivered>>

\* Deliberately wrong variant: the ValueError of an unusable key is swallowed.
EstablishUnchecked(c, f, private) ==
    LET p == PairKey(f.from, f.to) IN
    /\ HandshakeHeeded(c, f)
    /\ PopPendingKey(c, p)
    /\ ActivateSecureChannel(c, p, DeriveKey(private, f.pub), Fingerprint(f.pub))
    /\ UNCHANGED mailbox
    /\ UNCHANGED <<activeSessions, knownUsers, msgsMade, accepted, delivered>>

EstablishChannel(c, f, private) ==
    LET p == PairKey(f.from, f.to) IN
    /\ HandshakeHeeded(c, f)
    /\ f.pub # BadKey
    /\ PopPendingKey(c, p)
    /\ ActivateSecureChannel(c, p, DeriveKey(private, f.pub), Fingerprint(f.pub))
    /\ IF KeyChanged(c, p, Fingerprint(f.pub))
       THEN Publish(c, f.to, "409_REMOTE_KEY_CHANGED")
       ELSE UNCHANGED mailbox
    /\ UNCHANGED <<activeSessions, knownUsers, msgsMade, accepted, delivered>>

\* Deliberately wrong variant: a fresh pair answers whatever is pending.
AnswerAlways(c, f) ==
    /\ CanMakeKey(c)
    /\ GenerateKeypair(c)
    /\ EstablishChannel(c, f, FreshKey(c))

\* Nothing pending: a pair is made for this frame and its public half sent back.
AnswerHandshake(c, f) ==
    /\ pendingKey[c][PairKey(f.from, f.to)] = NoKey
    /\ CanMakeKey(c)
    /\ GenerateKeypair(c)
    /\ EstablishChannel(c, f, FreshKey(c))

ReplyFrame(c, f) == HandshakeFrame(f.to, f.from, FreshKey(c), clock)

\* A pending key is consumed and no frame goes back.
CompleteHandshake(c, f) ==
    LET private == pendingKey[c][PairKey(f.from, f.to)] IN
    /\ private # NoKey
    /\ EstablishChannel(c, f, private)
    /\ UNCHANGED keysMade

ProcessHandshakeFrame(c, f) ==
    RejectHandshake(c, f) \/ AnswerHandshake(c, f) \/ CompleteHandshake(c, f)

(***************************************************************************)
(* Messages.  send_text_message builds the frame first, under whatever key *)
(* the store holds, and validates afterwards.                              *)
(***************************************************************************)
\* Deliberately wrong variant: a handshake under way is enough.
SendVerdictEarly(sessions, c, a, b) ==
    CASE a \notin sessions                           -> "401_NOT_REGISTERED"
      [] a \in sessions /\ b \notin sessions         -> "404_USER_OFFLINE"
      [] {a, b} \subseteq sessions /\ chan[c][PairKey(a, b)] \notin Live
                                                     -> "403_SECURE_CHANNEL_REQUIRED"
      [] OTHER                                       -> "MESSAGE_ACCEPTED"

\* sessions: the names active when the participants are checked.
SendVerdict(sessions, c, a, b) ==
    CASE a \notin sessions                           -> "401_NOT_REGISTERED"
      [] a \in sessions /\ b \notin sessions         -> "404_USER_OFFLINE"
      [] {a, b} \subseteq sessions /\ chan[c][PairKey(a, b)] # "ACTIVE"
                                                     -> "403_SECURE_CHANNEL_REQUIRED"
      [] OTHER                                       -> "MESSAGE_ACCEPTED"

\* Every refusal is published to the sender; a missing channel starts one.
RefuseMessage(c, a, b, code) ==
    /\ IF code = "403_SECURE_CHANNEL_REQUIRED"
       THEN StartHandshake(c, PairKey(a, b))
       ELSE UNCHANGED <<chan, startedAt>>
    /\ Publish(c, a, code)
    /\ UNCHANGED <<sessionKey, remoteFp, seenNonces, msgsMade, accepted, delivered>>

OutgoingFrame(c, a, b) ==
    MessageFrame(a, b, <<c, msgsMade[c] + 1>>, sessionKey[c][PairKey(a, b)], clock)

AcceptMessage(c, a, b) ==
    /\ msgsMade[c] < MaxMsgs
    /\ msgsMade' = [msgsMade EXCEPT ![c] = @ + 1]
    /\ accepted' = [accepted EXCEPT ![c] = @ \union {Receipt(OutgoingFrame(c, a, b))}]
    /\ UNCHANGED <<keVars, keysMade, mailbox, delivered>>

SendTextMessage(c, a, b) ==
    LET verdict == SendVerdict(activeSessions[c], c, a, b) IN
    /\ IF verdict = "MESSAGE_ACCEPTED"
       THEN AcceptMessage(c, a, b)
       ELSE RefuseMessage(c, a, b, verdict) /\ UNCHANGED <<pendingKey, keysMade>>
    /\ UNCHANGED <<activeSessions, knownUsers>>

\* receive_message consumes the nonce before it tries the key, so a frame that
\* does not decrypt has used its nonce up.
PassesReplayGuard(c, m) ==
    /\ Recent(m.at)
    /\ ReplayVerdict(c, PairKey(m.from, m.to), m.nonce, m.at) = "FRESH"

Decrypts(c, m) ==
    LET key == sessionKey[c][PairKey(m.from, m.to)] IN key # NoSecret /\ m.key = key

DecryptMessage(c, m) ==
    /\ PassesReplayGuard(c, m)
    /\ RecordNonce(c, PairKey(m.from, m.to), m.nonce)
    /\ IF Decrypts(c, m)
       THEN delivered' = [delivered EXCEPT ![c] = Append(@, Receipt(m))]
       ELSE UNCHANGED delivered
    /\ UNCHANGED <<chan, startedAt, sessionKey, remoteFp, pendingKey, keysMade,
                   mailbox, msgsMade, accepted>>

ReceiveMessage(c, m) ==
    /\ BothActive(c, m.from, m.to)
    /\ DecryptMessage(c, m)
    /\ UNCHANGED <<activeSessions, knownUsers>>

-----------------------------------------------------------------------------
(***************************************************************************)
(* What holds of a controller wherever its callers and frames come from.   *)
(***************************************************************************)

\* The hard rule of the message path: a pair has a session key exactly while
\* its channel is ACTIVE.  send_text_message encrypts by the key and is let
\* through by the state, receive_message the other way round, so a pair with
\* only one of the two sends plaintext or drops what it receives.
KeyIffActive ==
    \A c \in Clients, p \in Pairs :
        chan[c][p] = "ACTIVE" <=> sessionKey[c][p] # NoSecret

\* An unfinished private key belongs to a handshake in progress: none outlives
\* the handshake it was made for, through invalidation or establishment, to be
\* mistaken for the answer to a later one.
PendingOnlyEstablishing ==
    \A c \in Clients, p \in Pairs :
        pendingKey[c][p] # NoKey => chan[c][p] = "ESTABLISHING"

\* Presence and channels agree although they live in two services: a channel
\* is being established only while both users have a session in the runtime,
\* and no channel is ACTIVE once neither of them has.
LiveNeedsSession ==
    \A c \in Clients, p \in Pairs :
        /\ chan[c][p] = "ESTABLISHING" => p \subseteq activeSessions[c]
        /\ chan[c][p] = "ACTIVE" => p \cap activeSessions[c] # {}

\* No message is accepted for sending in clear, and none is shown that came in
\* clear, however sends, handshakes and disconnections follow each other.
MessagesSealed ==
    \A c \in Clients :
        /\ \A r \in accepted[c] : r.key # NoSecret
        /\ \A i \in DOMAIN delivered[c] : delivered[c][i].key # NoSecret

\* A message is handed to the user at most once in the life of the process.
\* activate_secure_channel forgets the nonces of the pair, so this rests on
\* every establishment making a secret no earlier message was sealed with.
DeliveredOnce ==
    \A c \in Clients : \A i, j \in DOMAIN delivered[c] :
        i # j => delivered[c][i] # delivered[c][j]

\* The nonces the replay guard still remembers include those of every message
\* delivered under the key the channel has now.
GuardRemembers ==
    \A c \in Clients : \A i \in DOMAIN delivered[c] :
        LET r == delivered[c][i] IN
        sessionKey[c][PairKey(r.from, r.to)] = r.key
            => r.nonce \in seenNonces[c][PairKey(r.from, r.to)]
=============================================================================
