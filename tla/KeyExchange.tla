---------------------------- MODULE KeyExchange ----------------------------
(***************************************************************************)
(* The runtime store of app/services/key_exchange_service.py: one record   *)
(* per pair of users, the session key, the pinned remote fingerprint, the  *)
(* nonces already seen and the private key of an unfinished handshake.     *)
(*                                                                         *)
(* A process of the messenger ("client") owns one store, so every variable *)
(* is indexed by the client first and by the pair second.  Each operation  *)
(* of the service is an operator over the primed variables it assigns; the *)
(* handlers of AppController compose them into whole actions.              *)
(***************************************************************************)
EXTENDS Integers, FiniteSets, Sequences

CONSTANTS
    Clients,        \* running processes, each with its own controller
    Users,          \* usernames
    RemoteKeys,     \* public keys made outside the modelled processes
    RemoteNonces,   \* message nonces made outside the modelled processes
    NoKey,          \* "no key": None in the dictionaries of the service
    BadKey,         \* a public key load_der_public_key refuses
    MaxKeys,        \* bound: key pairs one client may generate
    MaxMsgs,        \* bound: messages one client may build
    MaxClock,       \* bound: last instant of the clock
    Tolerance       \* TIMESTAMP_TOLERANCE_SECONDS

LocalKeys   == Clients \X (1 .. MaxKeys)
KeyIds      == LocalKeys \union RemoteKeys
LocalNonces == Clients \X (1 .. MaxMsgs)
Nonces      == LocalNonces \union RemoteNonces

ASSUME BoundsAssumption ==
    /\ MaxKeys \in Nat /\ MaxMsgs \in Nat /\ MaxClock \in Nat /\ Tolerance \in Nat

ASSUME KeysAssumption ==
    /\ \A k \in LocalKeys : k \notin RemoteKeys
    /\ \A n \in LocalNonces : n \notin RemoteNonces
    /\ NoKey \notin KeyIds /\ BadKey \notin KeyIds /\ BadKey # NoKey

VARIABLES
    chan,           \* state of the pair's record, "NONE" when there is none
    startedAt,      \* its started_at, meaningful once a record exists
    sessionKey,     \* _session_keys
    remoteFp,       \* _remote_fingerprints
    seenNonces,     \* _seen_nonces
    pendingKey,     \* _pending_private_keys
    keysMade,       \* how many key pairs the client's crypto engine made
    clock           \* the clock every process reads

keVars == <<chan, startedAt, sessionKey, remoteFp, seenNonces, pendingKey>>

(***************************************************************************)
(* Data.  The service sorts the two names into one string; an unordered    *)
(* pair is what that key tells apart.  A name may be paired with itself:   *)
(* the command line refuses its own name, a HANDSHAKE_INIT need not.       *)
(***************************************************************************)
PairKey(a, b) == {a, b}
Pairs == {PairKey(a, b) : a, b \in Users}

\* ECDH and HKDF give both ends one secret exactly when each holds the
\* private half of a key the other one knows.  A fingerprint is a digest of
\* the remote public key, so the key itself stands for it.
NoSecret == {}
DeriveKey(private, public) == {private, public}
Fingerprint(public) == public
Secrets == {DeriveKey(k, r) : k, r \in KeyIds}

ChannelStates == {"NONE", "ESTABLISHING", "ACTIVE", "INVALID"}
Live == {"ESTABLISHING", "ACTIVE"}

FreshKey(c) == <<c, keysMade[c] + 1>>
CanMakeKey(c) == keysMade[c] < MaxKeys

\* Deliberately wrong variant: the engine hands the same pair out again.
GenerateKeypairCached(c) == UNCHANGED keysMade

GenerateKeypair(c) == keysMade' = [keysMade EXCEPT ![c] = @ + 1]

KETypeOK ==
    /\ chan \in [Clients -> [Pairs -> ChannelStates]]
    /\ startedAt \in [Clients -> [Pairs -> 0 .. MaxClock]]
    /\ sessionKey \in [Clients -> [Pairs -> Secrets \union {NoSecret}]]
    /\ remoteFp \in [Clients -> [Pairs -> KeyIds \union {NoKey}]]
    /\ seenNonces \in [Clients -> [Pairs -> SUBSET Nonces]]
    /\ pendingKey \in [Clients -> [Pairs -> LocalKeys \union {NoKey}]]
    /\ keysMade \in [Clients -> 0 .. MaxKeys]
    /\ clock \in 0 .. MaxClock

KEInit ==
    /\ chan = [c \in Clients |-> [p \in Pairs |-> "NONE"]]
    /\ startedAt = [c \in Clients |-> [p \in Pairs |-> 0]]
    /\ sessionKey = [c \in Clients |-> [p \in Pairs |-> NoSecret]]
    /\ remoteFp = [c \in Clients |-> [p \in Pairs |-> NoKey]]
    /\ seenNonces = [c \in Clients |-> [p \in Pairs |-> {}]]
    /\ pendingKey = [c \in Clients |-> [p \in Pairs |-> NoKey]]
    /\ keysMade = [c \in Clients |-> 0]
    /\ clock = 0

(***************************************************************************)
(* Operations of the service.                                              *)
(***************************************************************************)

\* A pair already ESTABLISHING or ACTIVE is left alone, a new or INVALID one
\* gets a fresh record.
StartHandshake(c, p) ==
    IF chan[c][p] \in Live
    THEN UNCHANGED <<chan, startedAt>>
    ELSE /\ chan' = [chan EXCEPT ![c][p] = "ESTABLISHING"]
         /\ startedAt' = [startedAt EXCEPT ![c][p] = clock]

\* Stores the key and the fingerprint, forgets the nonces, and replaces the
\* record; started_at survives from the record there was.
ActivateSecureChannel(c, p, key, fp) ==
    /\ sessionKey' = [sessionKey EXCEPT ![c][p] = key]
    /\ remoteFp' = [remoteFp EXCEPT ![c][p] = fp]
    /\ seenNonces' = [seenNonces EXCEPT ![c][p] = {}]
    /\ startedAt' = [startedAt EXCEPT ![c][p] =
                        IF chan[c][p] = "NONE" THEN clock ELSE @]
    /\ chan' = [chan EXCEPT ![c][p] = "ACTIVE"]

\* The warning activate_secure_channel leaves for its caller to consume in the
\* same handler: the pair had another key pinned.
KeyChanged(c, p, fp) == remoteFp[c][p] \notin {NoKey, fp}

\* validate_replay: the code it refuses with, or "FRESH".
Recent(at) == clock - at <= Tolerance /\ at - clock <= Tolerance

\* Deliberately wrong variant: timeliness is checked, repetition is not.
ReplayVerdictByTime(c, p, nonce, at) ==
    CASE chan[c][p] # "ACTIVE"                    -> "403_SECURE_CHANNEL_REQUIRED"
      [] chan[c][p] = "ACTIVE" /\ ~ Recent(at)    -> "400_REPLAY_TIMESTAMP_INVALID"
      [] OTHER                                    -> "FRESH"

ReplayVerdict(c, p, nonce, at) ==
    CASE chan[c][p] # "ACTIVE"        -> "403_SECURE_CHANNEL_REQUIRED"
      [] chan[c][p] = "ACTIVE" /\ ~ Recent(at)
                                      -> "400_REPLAY_TIMESTAMP_INVALID"
      [] chan[c][p] = "ACTIVE" /\ Recent(at) /\ nonce \in seenNonces[c][p]
                                      -> "409_REPLAY_DETECTED"
      [] OTHER                        -> "FRESH"

\* Deliberately wrong variant: the nonce is checked and not kept.
RecordNonceNot(c, p, nonce) == UNCHANGED seenNonces

RecordNonce(c, p, nonce) ==
    seenNonces' = [seenNonces EXCEPT ![c][p] = @ \union {nonce}]

SetPendingKey(c, p, key) == pendingKey' = [pendingKey EXCEPT ![c][p] = key]
PopPendingKey(c, p)      == SetPendingKey(c, p, NoKey)

\* Every record the user takes part in becomes INVALID and loses its key, its
\* nonces and its pending private key; the pinned fingerprint stays.
Invalidated(c, u) == {p \in Pairs : u \in p /\ chan[c][p] # "NONE"}

Without(store, c, u, empty) ==
    [store EXCEPT ![c] = [p \in Pairs |-> IF p \in Invalidated(c, u)
                                          THEN empty ELSE store[c][p]]]

\* Deliberately wrong variant: the session keys survive.
InvalidateKeepingKeys(c, u) ==
    /\ chan' = Without(chan, c, u, "INVALID")
    /\ seenNonces' = Without(seenNonces, c, u, {})
    /\ pendingKey' = Without(pendingKey, c, u, NoKey)
    /\ UNCHANGED <<sessionKey, startedAt, remoteFp>>

\* Deliberately wrong variant: the private key of the handshake survives.
InvalidateKeepingPending(c, u) ==
    /\ chan' = Without(chan, c, u, "INVALID")
    /\ sessionKey' = Without(sessionKey, c, u, NoSecret)
    /\ seenNonces' = Without(seenNonces, c, u, {})
    /\ UNCHANGED <<pendingKey, startedAt, remoteFp>>

\* Deliberately wrong variant: the pinned fingerprints are forgotten too.
InvalidateForgettingPins(c, u) ==
    /\ chan' = Without(chan, c, u, "INVALID")
    /\ sessionKey' = Without(sessionKey, c, u, NoSecret)
    /\ seenNonces' = Without(seenNonces, c, u, {})
    /\ pendingKey' = Without(pendingKey, c, u, NoKey)
    /\ remoteFp' = Without(remoteFp, c, u, NoKey)
    /\ UNCHANGED startedAt

InvalidateUserChannels(c, u) ==
    /\ chan' = Without(chan, c, u, "INVALID")
    /\ sessionKey' = Without(sessionKey, c, u, NoSecret)
    /\ seenNonces' = Without(seenNonces, c, u, {})
    /\ pendingKey' = Without(pendingKey, c, u, NoKey)
    /\ UNCHANGED <<startedAt, remoteFp>>

Tick ==
    /\ clock < MaxClock
    /\ clock' = clock + 1
=============================================================================
