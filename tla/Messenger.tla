----------------------------- MODULE Messenger -----------------------------
(***************************************************************************)
(* The whole messenger: one process per user, each a command line          *)
(* (cli/cli_app.py) over its controller, joined by a relay that routes     *)
(* frames by their "to" (infrastructure/minimal_relay_server.py) through   *)
(* the gateways (infrastructure/runtime_transport_gateway.py).             *)
(*                                                                         *)
(* A process serves one identity, its own name: current_user is that name  *)
(* while its session lasts and None otherwise, so it is not a variable.    *)
(* Commands and the handling of one incoming frame are atomic steps here.  *)
(***************************************************************************)
EXTENDS AppController, SequencesExt

CONSTANTS
    NoUser,         \* chat_target None
    DedupWindow,    \* maxlen of _seen_transport_message_ids
    MaxLogins,      \* bound: sessions one user may open
    MaxDups,        \* bound: messages the transport delivers twice
    MaxLosses       \* bound: connections lost while their user is logged in, and
                    \* batches lost to a send that timed out

ASSUME ClientsAreUsers == Clients = Users /\ NoUser \notin Users

ASSUME MessengerBounds ==
    /\ DedupWindow \in Nat \ {0}
    /\ MaxLogins \in Nat /\ MaxDups \in Nat /\ MaxLosses \in Nat

VARIABLES
    chatTarget,     \* _chat_target
    seenIds,        \* _seen_transport_message_ids
    uplink,         \* frames on their way from a client to the relay
    incoming,       \* frames the relay sent to a client, not yet drained
    connected,      \* names with a connection at the relay
    ended,          \* processes a send that raised has ended
    relayed,        \* messages that reached a client's queue once
    logins, dups, losses    \* counters for the bounds

netVars == <<uplink, incoming, connected, ended, relayed, logins, dups, losses>>
cliVars == <<chatTarget, seenIds>>
vars == <<acVars, clock, cliVars, netVars>>

LoggedIn(c) == IsActive(c, c)
Others(c) == Users \ {c}

\* A message is identified by its nonce: one frame carries each payload.
Frames == [type : {"HANDSHAKE_INIT"}, from : Users, to : Users, pub : LocalKeys,
           at : 0 .. MaxClock]
          \union
          [type : {"MESSAGE"}, from : Users, to : Users, nonce : LocalNonces,
           key : Secret, at : 0 .. MaxClock]

Init ==
    /\ ACInit
    /\ chatTarget = [c \in Clients |-> NoUser]
    /\ seenIds = [c \in Clients |-> << >>]
    /\ uplink = [c \in Clients |-> << >>]
    /\ incoming = [c \in Clients |-> << >>]
    /\ connected = {}
    /\ ended = {}
    /\ relayed = {}
    /\ logins = [c \in Clients |-> 0]
    /\ dups = 0 /\ losses = 0

\* A send may raise, which no command catches: because the connection is gone,
\* unless the frame is lost before the gateway knows, or because the loop takes
\* longer than send_frame waits, and then the frame goes out all the same.
Transmit(c, f) ==
    /\ uplink' = IF c \in connected THEN [uplink EXCEPT ![c] = Append(@, f)] ELSE uplink
    /\ ended' \in {ended, ended \union {c}}

\* A name the session table has never seen gets a session in it on sight.
EnsureKnown(c, u) ==
    IF u \in knownUsers[c]
    THEN UNCHANGED <<activeSessions, knownUsers>>
    ELSE RegisterUser(c, u)

(***************************************************************************)
(* Commands.                                                               *)
(***************************************************************************)

\* /user with the client's own name: a session, then a connection and a REGISTER
\* whose send may time out.
HandleUser(c) ==
    /\ logins[c] < MaxLogins
    /\ logins' = [logins EXCEPT ![c] = @ + 1]
    /\ Register(c, c)
    /\ connected' = connected \union {c}
    /\ ended' \in {ended, ended \union {c}}
    /\ UNCHANGED <<clock, cliVars, uplink, incoming, relayed, dups, losses>>

\* /logout.  The gateway's queue outlives the connection, what was still on
\* the wire towards it is lost, and what the client sent still arrives.
HandleLogout(c) ==
    /\ LoggedIn(c)
    /\ Disconnect(c, c)
    /\ chatTarget' = [chatTarget EXCEPT ![c] = NoUser]
    /\ connected' = connected \ {c}
    /\ \E n \in 0 .. Len(incoming[c]) :
           incoming' = [incoming EXCEPT ![c] = SubSeq(@, 1, n)]
    /\ UNCHANGED <<clock, seenIds, uplink, relayed, logins, dups, ended,
                   losses>>

\* create_handshake_offer, called when start_handshake has just been: the pair
\* is ESTABLISHING and, as PendingOnlyEstablishing says, was not before, so
\* nothing is pending and the offer has a frame to send.
OfferChannel(c, t) ==
    /\ CanMakeKey(c)
    /\ GenerateKeypair(c)
    /\ SetPendingKey(c, PairKey(c, t), FreshKey(c))
    /\ Transmit(c, OfferFrame(c, c, t))

\* /chat: only a pair in no state or INVALID starts a handshake; the other two
\* states just print a line.
HandleChat(c, t) ==
    /\ LoggedIn(c)
    /\ EnsureKnown(c, t)
    /\ t \in activeSessions'[c]
    /\ chatTarget' = [chatTarget EXCEPT ![c] = t]
    /\ StartHandshake(c, PairKey(c, t))
    /\ IF chan[c][PairKey(c, t)] \in Live
       THEN UNCHANGED <<pendingKey, keysMade, uplink, ended>>
       ELSE OfferChannel(c, t)
    /\ UNCHANGED <<clock, sessionKey, remoteFp, seenNonces, mailbox, msgsMade,
                   accepted, delivered, seenIds, incoming, connected, relayed,
                   logins, dups, losses>>

\* send_text_message and _print_send_response: the accepted message goes out;
\* a refusal that has just started a handshake sends the offer instead.
SendText(c, t) ==
    LET verdict == SendVerdict(activeSessions'[c], c, c, t)
        starts == verdict = "403_SECURE_CHANNEL_REQUIRED"
                      /\ chan[c][PairKey(c, t)] \notin Live IN
    /\ IF verdict = "MESSAGE_ACCEPTED"
       THEN AcceptMessage(c, c, t) /\ Transmit(c, OutgoingFrame(c, c, t))
       ELSE /\ RefuseMessage(c, c, t, verdict)
            /\ IF starts THEN OfferChannel(c, t)
                         ELSE UNCHANGED <<pendingKey, keysMade, uplink, ended>>
    /\ UNCHANGED <<clock, cliVars, incoming, connected, relayed, logins, dups,
                   losses>>

\* /msg <user> <text>
HandleMsg(c, t) ==
    /\ LoggedIn(c)
    /\ EnsureKnown(c, t)
    /\ t \in activeSessions'[c]
    /\ SendText(c, t)

\* A line that is not a command goes to the chat's target, known here or not.
HandleFreeText(c) ==
    /\ LoggedIn(c)
    /\ chatTarget[c] # NoUser
    /\ UNCHANGED <<activeSessions, knownUsers>>
    /\ SendText(c, chatTarget[c])

\* /leave
HandleLeave(c) ==
    /\ chatTarget[c] # NoUser
    /\ chatTarget' = [chatTarget EXCEPT ![c] = NoUser]
    /\ UNCHANGED <<clock, acVars, seenIds, netVars>>

PollNotifications(c) ==
    /\ LoggedIn(c)
    /\ PullNotifications(c, c)
    /\ UNCHANGED <<clock, cliVars, netVars>>

(***************************************************************************)
(* Draining one frame of the gateway's queue.  /notif drains it even when  *)
(* nobody is logged in.                                                    *)
(***************************************************************************)
TakeFrame(c, type) ==
    /\ incoming[c] # << >>
    /\ Head(incoming[c]).type = type
    /\ incoming' = [incoming EXCEPT ![c] = Tail(@)]

\* A frame from somebody opens a chat with them when there is none.
AutoTarget(c, u) ==
    chatTarget' = [chatTarget EXCEPT ![c] =
        IF @ = NoUser /\ ~ (LoggedIn(c) /\ u = c) THEN u ELSE @]

\* Deliberately wrong variant: the answer is computed and never sent.
DrainHandshakeMute(c) ==
    LET f == Head(incoming[c]) IN
    /\ TakeFrame(c, "HANDSHAKE_INIT")
    /\ AutoTarget(c, f.from)
    /\ \/ AnswerHandshake(c, f)
       \/ CompleteHandshake(c, f)
       \/ ~ HandshakeHeeded(c, f) /\ UNCHANGED acVars
    /\ UNCHANGED <<clock, uplink, seenIds, connected, relayed, logins, dups,
                   ended, losses>>

DrainHandshake(c) ==
    LET f == Head(incoming[c]) IN
    /\ TakeFrame(c, "HANDSHAKE_INIT")
    /\ AutoTarget(c, f.from)
    /\ \/ AnswerHandshake(c, f) /\ Transmit(c, ReplyFrame(c, f))
       \/ CompleteHandshake(c, f) /\ UNCHANGED <<uplink, ended>>
       \/ ~ HandshakeHeeded(c, f) /\ UNCHANGED <<acVars, uplink, ended>>
    /\ UNCHANGED <<clock, seenIds, connected, relayed, logins, dups, losses>>

\* The polling thread swallows the exception of a reply it could not send, or
\* not in time, and with it the frames it had taken from the queue in the same
\* batch.
LoseBatch(c) ==
    LET f == Head(incoming[c]) IN
    /\ incoming[c] # << >> /\ f.type = "HANDSHAKE_INIT"
    /\ AutoTarget(c, f.from)
    /\ AnswerHandshake(c, f)
    /\ \E n \in 2 .. Len(incoming[c]) :
           incoming' = [incoming EXCEPT ![c] = SubSeq(@, n + 1, Len(@))]
    /\ Transmit(c, ReplyFrame(c, f)) /\ UNCHANGED ended
    /\ \/ c \notin connected /\ UNCHANGED losses
       \/ c \in connected /\ losses < MaxLosses /\ losses' = losses + 1
    /\ UNCHANGED <<clock, seenIds, connected, relayed, logins, dups>>

\* Deliberately wrong variant: the window only grows.
RememberForever(c, id) ==
    seenIds' = [seenIds EXCEPT ![c] = Append(@, id)]

\* The window of identifiers forgets its oldest when it is full.
Remember(c, id) ==
    seenIds' = [seenIds EXCEPT ![c] =
        Append(IF Len(@) < DedupWindow THEN @ ELSE Tail(@), id)]

DrainDuplicate(c) ==
    /\ TakeFrame(c, "MESSAGE")
    /\ Contains(seenIds[c], Head(incoming[c]).nonce)
    /\ UNCHANGED <<clock, acVars, cliVars, uplink, connected, relayed, logins,
                   dups, ended, losses>>

\* Deliberately wrong variant: the sender is not given a session.
DrainMessageUnknown(c) ==
    LET m == Head(incoming[c]) IN
    /\ TakeFrame(c, "MESSAGE")
    /\ ~ Contains(seenIds[c], m.nonce)
    /\ Remember(c, m.nonce)
    /\ AutoTarget(c, m.from)
    /\ IF BothActive(c, m.from, m.to) /\ PassesReplayGuard(c, m)
       THEN DecryptMessage(c, m)
       ELSE UNCHANGED <<keVars, keysMade, mailbox, msgsMade, accepted, delivered>>
    /\ UNCHANGED <<clock, activeSessions, knownUsers, uplink, connected,
                   relayed, logins, dups, ended, losses>>

\* The identifier is remembered before the controller has its say, and the
\* sender gets a session here whatever becomes of the message.
DrainMessage(c) ==
    LET m == Head(incoming[c]) IN
    /\ TakeFrame(c, "MESSAGE")
    /\ ~ Contains(seenIds[c], m.nonce)
    /\ Remember(c, m.nonce)
    /\ EnsureKnown(c, m.from)
    /\ AutoTarget(c, m.from)
    /\ IF {m.from, m.to} \subseteq activeSessions'[c] /\ PassesReplayGuard(c, m)
       THEN DecryptMessage(c, m)
       ELSE UNCHANGED <<keVars, keysMade, mailbox, msgsMade, accepted, delivered>>
    /\ UNCHANGED <<clock, uplink, connected, relayed, logins, dups, ended,
                   losses>>

(***************************************************************************)
(* The relay: first in, first out per connection; a frame for a name with  *)
(* no connection is dropped.                                               *)
(***************************************************************************)
\* Deliberately wrong variant: the newest frame is queued in front.
RelayForwardLifo(c) ==
    LET f == Head(uplink[c]) IN
    /\ uplink[c] # << >>
    /\ uplink' = [uplink EXCEPT ![c] = Tail(@)]
    /\ IF f.to \in connected
       THEN /\ incoming' = [incoming EXCEPT ![f.to] = <<f>> \o @]
            /\ relayed' = IF f.type = "MESSAGE" THEN relayed \union {f} ELSE relayed
       ELSE UNCHANGED <<incoming, relayed>>
    /\ UNCHANGED <<clock, acVars, cliVars, connected, logins, dups, ended,
                   losses>>

\* Deliberately wrong variant: a message goes to its sender's connection too.
RelayEcho(c) ==
    LET f == Head(uplink[c])
        to == {f.to} \union IF f.type = "MESSAGE" THEN {f.from} ELSE {} IN
    /\ uplink[c] # << >>
    /\ uplink' = [uplink EXCEPT ![c] = Tail(@)]
    /\ incoming' = [d \in Clients |-> IF d \in connected \cap to
                                     THEN Append(incoming[d], f) ELSE incoming[d]]
    /\ UNCHANGED <<clock, acVars, cliVars, connected, relayed, logins, dups,
                   ended, losses>>

RelayForward(c) ==
    LET f == Head(uplink[c]) IN
    /\ uplink[c] # << >>
    /\ uplink' = [uplink EXCEPT ![c] = Tail(@)]
    /\ IF f.to \in connected
       THEN /\ incoming' = [incoming EXCEPT ![f.to] = Append(@, f)]
            /\ relayed' = IF f.type = "MESSAGE" THEN relayed \union {f} ELSE relayed
       ELSE UNCHANGED <<incoming, relayed>>
    /\ UNCHANGED <<clock, acVars, cliVars, connected, logins, dups, ended,
                   losses>>

\* The transport may hand a message over again, however late.
Redeliver(c) ==
    /\ dups < MaxDups
    /\ c \in connected
    /\ dups' = dups + 1
    /\ \E f \in relayed :
           f.to = c /\ incoming' = [incoming EXCEPT ![c] = Append(@, f)]
    /\ UNCHANGED <<clock, acVars, cliVars, uplink, connected, ended, relayed,
                   logins, losses>>

TimePasses == Tick /\ UNCHANGED <<acVars, cliVars, netVars>>

\* A connection is lost while its user is logged in, or with the program that
\* ended: what was on the wire goes with it, any tail of it, and nothing connects
\* again before /logout.
LinkLost(c) ==
    /\ losses < MaxLosses
    /\ losses' = losses + 1
    /\ c \in connected
    /\ connected' = connected \ {c}
    /\ \E n \in 0 .. Len(incoming[c]) :
           incoming' = [incoming EXCEPT ![c] = SubSeq(@, 1, n)]
    /\ \E n \in 0 .. Len(uplink[c]) :
           uplink' = [uplink EXCEPT ![c] = SubSeq(@, 1, n)]
    /\ UNCHANGED <<clock, acVars, cliVars, ended, relayed, logins, dups>>

Drain(c) ==
    /\ c \notin ended
    /\ DrainHandshake(c) \/ LoseBatch(c) \/ DrainDuplicate(c) \/ DrainMessage(c)

Commands(c) ==
    \/ HandleUser(c) \/ HandleLogout(c) \/ HandleFreeText(c) \/ HandleLeave(c)
    \/ PollNotifications(c)
    \/ \E t \in Others(c) : HandleChat(c, t) \/ HandleMsg(c, t)

\* The main loop runs until a send that raised ends it.
Command(c) == c \notin ended /\ Commands(c)

Next ==
    \/ \E c \in Clients : \/ Command(c) \/ Drain(c)
                         \/ RelayForward(c) \/ Redeliver(c) \/ LinkLost(c)
    \/ TimePasses

Spec == Init /\ [][Next]_vars

-----------------------------------------------------------------------------
\* Every variable keeps the shape of what it stands for, and the duplicate
\* window never grows beyond its maxlen.
TypeOK ==
    /\ ACTypeOK
    /\ chatTarget \in [Clients -> Users \union {NoUser}]
    /\ \A c \in Clients : chatTarget[c] # c
    /\ seenIds \in [Clients -> Seq(LocalNonces)]
    /\ \A c \in Clients : Len(seenIds[c]) <= DedupWindow
    /\ uplink \in [Clients -> Seq(Frames)]
    /\ incoming \in [Clients -> Seq(Frames)]
    /\ connected \subseteq Users /\ ended \subseteq Clients
    /\ relayed \subseteq Frames
    /\ logins \in [Clients -> 0 .. MaxLogins]
    /\ dups \in 0 .. MaxDups /\ losses \in 0 .. MaxLosses

InTransit == UNION {Range(uplink[c]) \union Range(incoming[c]) : c \in Clients}

\* The relay and the wires never carry a message in clear: every MESSAGE frame
\* was encrypted under the secret of an established channel.
SealedOnWire ==
    \A f \in InTransit : f.type = "MESSAGE" => f.key # NoSecret

\* What a process hands to its user is what the named sender's process accepted
\* for that user, under the same secret: nothing invented, nothing misrouted.
DeliveredWasAccepted ==
    \A c \in Clients : \A i \in DOMAIN delivered[c] :
        LET r == delivered[c][i] IN r.to = c /\ r \in accepted[r.from]

\* Messages of one sender are read in the order they were accepted, across
\* handshakes, refusals and new sessions.
DeliveredInOrder ==
    \A c \in Clients : \A i, j \in DOMAIN delivered[c] :
        i < j /\ delivered[c][i].from = delivered[c][j].from
            => delivered[c][i].nonce[2] < delivered[c][j].nonce[2]

\* Both ends of an ACTIVE channel hold the same secret, also when both offered
\* at once or one of them was answered late.
KeyAgreement ==
    \A c, d \in Clients :
        c # d /\ chan[c][PairKey(c, d)] = "ACTIVE" /\ chan[d][PairKey(c, d)] = "ACTIVE"
            => sessionKey[c][PairKey(c, d)] = sessionKey[d][PairKey(c, d)]

\* Both ends of an ACTIVE channel agree, also when frames go stale on the way,
\* until one of the two logs in a second time.
FirstSessionAgreement ==
    \A c, d \in Clients :
        c # d /\ logins[c] = 1 /\ logins[d] = 1
        /\ chan[c][PairKey(c, d)] = "ACTIVE" /\ chan[d][PairKey(c, d)] = "ACTIVE"
            => sessionKey[c][PairKey(c, d)] = sessionKey[d][PairKey(c, d)]

-----------------------------------------------------------------------------
\* The key pairs a client has made so far.
MadeKeys(c) == {c} \X (1 .. keysMade[c])

\* Frames as this code makes them: for somebody else than their sender, a public
\* key only from the process that made it, a message only as the process it
\* names accepted it.
Genuine ==
    {f \in Frames :
        /\ f.from # f.to
        /\ f.type = "HANDSHAKE_INIT" => f.pub \in MadeKeys(f.from)
        /\ f.type = "MESSAGE" => Receipt(f) \in accepted[f.from]}

GenuineFor(c) == {f \in Genuine : f.to = c}

\* Nothing else is on the wires, and what waits for a process is for it.
WiresGenuine ==
    /\ uplink \in [Clients -> Seq(Genuine)]
    /\ incoming \in [Clients -> Seq(Genuine)]
    /\ \A c \in Clients : incoming[c] \in Seq(GenuineFor(c))
    /\ relayed \subseteq Genuine

\* A secret of the pair of two users is made of a key of each.
SecretOf(c, p) ==
    \E d \in Others(c) : /\ p = PairKey(c, d)
                         /\ \E k \in MadeKeys(c), r \in MadeKeys(d) :
                                sessionKey[c][p] = DeriveKey(k, r)

\* A process keeps private keys of its own, and secrets it has a part in.
KeysOwned ==
    \A c \in Clients, p \in Pairs :
        /\ pendingKey[c][p] # NoKey => pendingKey[c][p] \in MadeKeys(c)
        /\ sessionKey[c][p] # NoSecret => SecretOf(c, p)

\* The inductive invariant of the proofs: what holds of the wires and stores
\* however the steps of a process are cut, and what holds of whole handlers.
WireInv == TypeOK /\ WiresGenuine /\ KeysOwned /\ DeliveredWasAccepted

IInv == WireInv /\ KeyIffActive /\ MessagesSealed

-----------------------------------------------------------------------------
\* Handshake frames on their way from one process to another.
Offers(c, d) ==
    {f \in InTransit : f.type = "HANDSHAKE_INIT" /\ f.from = c /\ f.to = d}

\* The keys of one process that its handshakes with another are about: pending, on
\* the way, or part of a secret at either end.
KeysFor(c, d) ==
    LET p == PairKey(c, d) IN
    {k \in LocalKeys :
        /\ k[1] = c
        /\ \/ k = pendingKey[c][p]
           \/ k \in sessionKey[c][p] \union sessionKey[d][p]
           \/ \E f \in Offers(c, d) : f.pub = k}

\* No two of them before a second login; and none before there is a record.
OneKeyEach ==
    \A c, d \in Clients : c # d =>
        /\ chan[c][PairKey(c, d)] = "NONE" => KeysFor(c, d) = {}
        /\ logins[c] <= 1 => \A x, y \in KeysFor(c, d) : x = y

\* A record is INVALID only after a /logout, and a session after one is the second.
SessionsCounted ==
    \A c \in Clients :
        /\ LoggedIn(c) => logins[c] # 0
        /\ \A p \in Pairs : chan[c][p] = "INVALID" =>
               logins[c] # 0 /\ (LoggedIn(c) => logins[c] > 1)

\* The inductive invariant of agreement.
AgreementInv ==
    /\ OneKeyEach
    /\ SessionsCounted
    /\ \A c \in Clients, p \in Pairs :
           chan[c][p] = "ESTABLISHING" => pendingKey[c][p] # NoKey
    /\ \A f \in relayed : f.type = "MESSAGE"

-----------------------------------------------------------------------------
\* A message, and one of the same sender that was accepted after it.
Newer(m, n) == n.from = m.from /\ m.nonce[2] < n.nonce[2]

\* What was accepted was numbered, and sealed with a key of each end, by then.
AcceptedMade ==
    \A c \in Clients : \A r \in accepted[c] :
        /\ r.from = c /\ r.nonce[1] = c /\ r.nonce[2] \in 1 .. msgsMade[c]
        /\ \E k \in MadeKeys(r.from), h \in MadeKeys(r.to) : r.key = DeriveKey(k, h)

\* A client sends its messages in order, none that the relay has had before.
UplinkInOrder ==
    \A c \in Clients : \A j \in DOMAIN uplink[c] :
        LET n == uplink[c][j] IN
        /\ n.from = c
        /\ n.type = "MESSAGE" =>
               /\ n.at <= clock
               /\ \A m \in relayed : m.from = c => m.nonce[2] < n.nonce[2]
               /\ \A i \in DOMAIN uplink[c] :
                      i < j /\ uplink[c][i].type = "MESSAGE" => Newer(uplink[c][i], n)

\* A process gets, shows and remembers no message that the relay has not handed over.
QueuedRelayed ==
    /\ \A m \in relayed : m.type = "MESSAGE" /\ m.at <= clock
    /\ \A m, n \in relayed : m.nonce = n.nonce => m = n
    /\ \A c \in Clients :
           /\ \A f \in Range(incoming[c]) : f.type = "MESSAGE" => f \in relayed
           /\ \A i \in DOMAIN delivered[c] : \E m \in relayed : delivered[c][i] = Receipt(m)
           /\ \A i \in DOMAIN seenIds[c] : \E m \in relayed : seenIds[c][i] = m.nonce

\* The handshake frame of a key is ahead of the messages sealed with it.
CarriesKeyOf(f, m) == f.type = "HANDSHAKE_INIT" /\ f.to = m.to /\ f.pub \in m.key

OffersFirst ==
    \A c \in Clients :
        /\ \A i, j \in DOMAIN uplink[c] :
               uplink[c][j].type = "MESSAGE" /\ CarriesKeyOf(uplink[c][i], uplink[c][j])
                   => i < j
        /\ \A m \in relayed : \A f \in Range(uplink[c]) : ~ CarriesKeyOf(f, m)
        /\ \A i, j \in DOMAIN incoming[c] :
               incoming[c][j].type = "MESSAGE" /\ CarriesKeyOf(incoming[c][i], incoming[c][j])
                   => i < j

\* Other users are never logged out here; a process without a session has no keys.
SessionsKept ==
    \A c \in Clients :
        /\ knownUsers[c] \ {c} \subseteq activeSessions[c]
        /\ ~ LoggedIn(c) => \A p \in Pairs :
               c \in p => sessionKey[c][p] = NoSecret /\ pendingKey[c][p] = NoKey

\* The secret a message was sealed with is not the one of its pair, nor will it be:
\* one half is no longer pending, or the other no longer on its way.
NeverOpens(c, m) ==
    LET p == PairKey(m.from, m.to) IN
    /\ sessionKey[c][p] # m.key
    /\ pendingKey[c][p] \notin m.key \/ \A f \in InTransit : ~ CarriesKeyOf(f, m)

\* A message a process will not show, whenever it comes again.
Past(c, m) ==
    LET p == PairKey(m.from, m.to) IN
    \/ clock - m.at > Tolerance
    \/ sessionKey[c][p] = m.key /\ m.nonce \in seenNonces[c][p]
    \/ NeverOpens(c, m)

\* What has come is waiting or past; what is shown, remembered, or older than what
\* is shown or is ahead of it in the queue, is past.
StaysPast(c, m) ==
    /\ m \in Range(incoming[c]) \/ Past(c, m)
    /\ m.nonce \in Range(seenIds[c]) => Past(c, m)
    /\ \A i \in DOMAIN delivered[c] :
           delivered[c][i] = Receipt(m) \/ Newer(m, delivered[c][i]) => Past(c, m)
    /\ \A i \in DOMAIN incoming[c] :
           incoming[c][i].type = "MESSAGE" /\ Newer(m, incoming[c][i])
               => Past(c, m) \/ \E k \in DOMAIN incoming[c] : k < i /\ incoming[c][k] = m

NothingComesBack ==
    \A c \in Clients : /\ LoggedIn(c) => c \in connected
                       /\ \A m \in relayed : m.to = c => StaysPast(c, m)

\* What waits is in order, and newer than what was shown.
QueueInOrder ==
    \A c \in Clients : \A j \in DOMAIN incoming[c] :
        incoming[c][j].type = "MESSAGE" =>
            /\ \A i \in DOMAIN incoming[c] :
                   i < j /\ incoming[c][i].type = "MESSAGE"
                   /\ incoming[c][i].from = incoming[c][j].from
                       => Newer(incoming[c][i], incoming[c][j])
            /\ \A i \in DOMAIN delivered[c] :
                   delivered[c][i].from = incoming[c][j].from
                       => Newer(delivered[c][i], incoming[c][j])

\* The inductive invariant of order.  It takes both a lost batch, by a connection
\* that is lost or a reply that times out, and a duplicate of a message of that
\* batch, to break the order.
OrderInv ==
    /\ AcceptedMade /\ UplinkInOrder /\ QueuedRelayed /\ OffersFirst /\ SessionsKept
    /\ PendingOnlyEstablishing
    /\ losses = 0 => NothingComesBack
    /\ dups = 0 => QueueInOrder
    /\ losses = 0 \/ dups = 0 => DeliveredInOrder

-----------------------------------------------------------------------------
\* The relay's loop and the 0.25 s polling thread keep running; what the users
\* type is their own affair.
Fairness == \A c \in Clients : WF_vars(RelayForward(c)) /\ WF_vars(Drain(c))
=============================================================================
