---------------------------- MODULE MCMessenger ----------------------------
(***************************************************************************)
(* TLC instances of Messenger: two users, their processes and the relay.   *)
(***************************************************************************)
EXTENDS Messenger

\* The two users are interchangeable.
Symmetry == Permutations(Users)

-----------------------------------------------------------------------------
(***************************************************************************)
(* Liveness while both users are logged in and stay so: the state two      *)
(* HandleUser steps lead to, and no step that closes a connection or in    *)
(* which a send raises.                                                    *)
(***************************************************************************)
\* They have logged in once each.
ASSUME OneLogin == MaxLogins # 0

OnlineInit ==
    /\ KEInit
    /\ activeSessions = [c \in Clients |-> {c}]
    /\ knownUsers = [c \in Clients |-> {c}]
    /\ mailbox = [c \in Clients |-> [u \in Users |-> {}]]
    /\ msgsMade = [c \in Clients |-> 0]
    /\ accepted = [c \in Clients |-> {}]
    /\ delivered = [c \in Clients |-> << >>]
    /\ chatTarget = [c \in Clients |-> NoUser]
    /\ seenIds = [c \in Clients |-> << >>]
    /\ uplink = [c \in Clients |-> << >>]
    /\ incoming = [c \in Clients |-> << >>]
    /\ connected = Users
    /\ ended = {}
    /\ relayed = {}
    /\ logins = [c \in Clients |-> 1]
    /\ dups = 0 /\ losses = 0

\* Connections stay, and every send returns in time.
OnlineNext == Next /\ connected' = Users /\ UNCHANGED <<ended, losses>>

OnlineSpec == OnlineInit /\ [][OnlineNext]_vars /\ Fairness

\* An offered channel is established, and at both ends, whoever else offered
\* at the same time: no end is left waiting for an answer.
HandshakeCompletes ==
    \A c, d \in Clients : c # d =>
        (pendingKey[c][PairKey(c, d)] # NoKey
            ~> chan[c][PairKey(c, d)] = "ACTIVE" /\ chan[d][PairKey(c, d)] = "ACTIVE")

\* An accepted message is read by the user it was for: the answer to an offer
\* arrives before the first message sealed under it.
AcceptedIsDelivered ==
    \A c, d \in Clients : \A n \in LocalNonces :
        (\E r \in accepted[c] : r.nonce = n /\ r.to = d)
            ~> (\E i \in DOMAIN delivered[d] : delivered[d][i].nonce = n)

(***************************************************************************)
(* Users who come and go: one of the two comes back.                       *)
(***************************************************************************)
ReconnectNext ==
    Next /\ \A c, d \in Clients : c # d => logins'[c] + logins'[d] <= 3

ReconnectSpec == Init /\ [][ReconnectNext]_vars

-----------------------------------------------------------------------------
(***************************************************************************)
(* Questions about sessions that come and go, answered by a counterexample.*)
(***************************************************************************)
FairSpec == Spec /\ Fairness

RetrySpec == FairSpec /\ \A c \in Clients, t \in Users : WF_vars(t # c /\ HandleMsg(c, t))

\* What the interface tells a user whose message was refused: the secure
\* channel is on its way, retry in a few seconds.  While both ends stay
\* connected and running, a user who keeps retrying gets a message through.
RetryGetsThrough ==
    \A c \in Clients :
        <>[](connected = Users /\ ended = {}) => <>(accepted[c] # {})
=============================================================================
