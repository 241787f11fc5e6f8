--------------------------- MODULE ClientThreads ---------------------------
(***************************************************************************)
(* The messenger with processes whose two threads overlap: the main thread *)
(* runs commands and drains frames between them, the polling thread of     *)
(* cli/cli_app.py drains frames every 0.25 s, and nothing locks what they  *)
(* share.  A handler is cut where it reads something the other thread may  *)
(* change before the value is used: the session key and then the channel   *)
(* state in send_text_message, the state and then the write in             *)
(* start_handshake, the pending key and then the activation in             *)
(* process_handshake_frame, one record after the other in                  *)
(* invalidate_user_channels.                                               *)
(*                                                                         *)
(* A thread between two of its steps holds the locals it has read.  A      *)
(* MESSAGE frame is still drained in one step, and so are /user, /leave    *)
(* and the pull of notifications.                                          *)
(***************************************************************************)
EXTENDS Messenger

CONSTANTS Threaded      \* the processes whose threads may overlap

ASSUME ThreadedAssumption == Threaded \subseteq Clients

\* A name has at most 32 characters, so there are finitely many.
ASSUME FiniteUsers == IsFiniteSet(Users)

VARIABLES op            \* where each thread is, and the locals it holds

Threads == {"main", "poll"}
tvars == <<vars, op>>

Steps == {"idle", "dead", "validate", "start", "offer", "keygen", "send",
          "next", "clear", "close", "pop", "key", "record", "reply"}

Idle == [at |-> "idle", peer |-> NoUser, key |-> NoSecret, pub |-> NoKey,
         private |-> NoKey, answers |-> FALSE, changed |-> FALSE,
         left |-> {}, size |-> 0]

Goto(c, t, o) == op' = [op EXCEPT ![c][t] = o]
Rest(c, t)    == Goto(c, t, Idle)

\* The program ends with the exception that leaves the main loop: one of a send,
\* or the one that /logout's loop raises.
Running(c)   == c \notin ended /\ op[c]["main"].at # "dead"
Doing(c, t, step) == Running(c) /\ op[c][t].at = step
Pair(c, t)   == PairKey(c, op[c][t].peer)

\* current_user outlives the session for the length of /logout.
CurrentUser(c) ==
    LoggedIn(c) \/ op[c]["main"].at \in {"next", "clear", "close"}

TInit == Init /\ op = [c \in Clients |-> [t \in Threads |-> Idle]]

storeVars == <<chan, startedAt, sessionKey, remoteFp, seenNonces, pendingKey, keysMade>>
sessionVars == <<activeSessions, knownUsers>>
historyVars == <<msgsMade, accepted, delivered>>

(***************************************************************************)
(* Main thread: a message.  The frame is built with the key there is now.  *)
(***************************************************************************)
BuildMessage(c, u) ==
    /\ Goto(c, "main", [Idle EXCEPT !.at = "validate", !.peer = u,
                                    !.key = sessionKey[c][PairKey(c, u)]])
    /\ UNCHANGED <<clock, storeVars, mailbox, historyVars, cliVars, netVars>>

BeginMsg(c, u) ==
    /\ Doing(c, "main", "idle")
    /\ LoggedIn(c)
    /\ EnsureKnown(c, u)
    /\ u \in activeSessions'[c]
    /\ BuildMessage(c, u)

BeginFreeText(c) ==
    /\ Doing(c, "main", "idle")
    /\ LoggedIn(c)
    /\ chatTarget[c] # NoUser
    /\ UNCHANGED sessionVars
    /\ BuildMessage(c, chatTarget[c])

\* Participants and channel are looked up now; the frame keeps its key.
HeldFrame(c) ==
    LET o == op[c]["main"] IN
    MessageFrame(c, o.peer, <<c, msgsMade[c] + 1>>, o.key, clock)

SendHeld(c) ==
    /\ msgsMade[c] < MaxMsgs
    /\ msgsMade' = [msgsMade EXCEPT ![c] = @ + 1]
    /\ accepted' = [accepted EXCEPT ![c] = @ \union {Receipt(HeldFrame(c))}]
    /\ Transmit(c, HeldFrame(c))
    /\ Rest(c, "main")
    /\ UNCHANGED <<mailbox, delivered>>

ValidateMessage(c) ==
    LET o == op[c]["main"]
        verdict == SendVerdict(activeSessions[c], c, c, o.peer)
        starts == verdict = "403_SECURE_CHANNEL_REQUIRED"
                      /\ chan[c][Pair(c, "main")] \notin Live IN
    /\ Doing(c, "main", "validate")
    /\ IF verdict = "MESSAGE_ACCEPTED"
       THEN SendHeld(c)
       ELSE /\ Publish(c, c, verdict)
            /\ IF starts
               THEN Goto(c, "main", [o EXCEPT !.at = "start"])
               ELSE Rest(c, "main")
            /\ UNCHANGED <<uplink, ended, historyVars>>
    /\ UNCHANGED <<clock, storeVars, sessionVars, cliVars, incoming, connected,
                   relayed, logins, dups, losses>>

(***************************************************************************)
(* Main thread: a handshake.  The record is written on the strength of a   *)
(* state read a step ago.                                                  *)
(***************************************************************************)
BeginChat(c, u) ==
    /\ Doing(c, "main", "idle")
    /\ LoggedIn(c)
    /\ EnsureKnown(c, u)
    /\ u \in activeSessions'[c]
    /\ chatTarget' = [chatTarget EXCEPT ![c] = u]
    /\ IF chan[c][PairKey(c, u)] \in Live
       THEN UNCHANGED op
       ELSE Goto(c, "main", [Idle EXCEPT !.at = "start", !.peer = u])
    /\ UNCHANGED <<clock, storeVars, mailbox, historyVars, seenIds, netVars>>

\* Deliberately wrong variant: a new handshake forgets the key of the last one.
WriteEstablishingForgetting(c) ==
    /\ Doing(c, "main", "start")
    /\ chan' = [chan EXCEPT ![c][Pair(c, "main")] = "ESTABLISHING"]
    /\ startedAt' = [startedAt EXCEPT ![c][Pair(c, "main")] = clock]
    /\ sessionKey' = [sessionKey EXCEPT ![c][Pair(c, "main")] = NoSecret]
    /\ Goto(c, "main", [op[c]["main"] EXCEPT !.at = "offer"])
    /\ UNCHANGED <<clock, remoteFp, seenNonces, pendingKey, keysMade,
                   sessionVars, mailbox, historyVars, cliVars, netVars>>

WriteEstablishing(c) ==
    /\ Doing(c, "main", "start")
    /\ chan' = [chan EXCEPT ![c][Pair(c, "main")] = "ESTABLISHING"]
    /\ startedAt' = [startedAt EXCEPT ![c][Pair(c, "main")] = clock]
    /\ Goto(c, "main", [op[c]["main"] EXCEPT !.at = "offer"])
    /\ UNCHANGED <<clock, sessionKey, remoteFp, seenNonces, pendingKey, keysMade,
                   sessionVars, mailbox, historyVars, cliVars, netVars>>

\* start_handshake reads the state once more; by then the channel may be there.
FoundLive(c) ==
    /\ Doing(c, "main", "start")
    /\ chan[c][Pair(c, "main")] \in Live
    /\ Goto(c, "main", [op[c]["main"] EXCEPT !.at = "offer"])
    /\ UNCHANGED vars

\* A suppressed offer has no frame: what is sent then is no frame to the relay,
\* but the send may raise like any other.
CheckOffer(c) ==
    /\ Doing(c, "main", "offer")
    /\ IF OfferSuppressed(c, Pair(c, "main"))
       THEN Rest(c, "main") /\ ended' \in {ended, ended \union {c}}
       ELSE Goto(c, "main", [op[c]["main"] EXCEPT !.at = "keygen"]) /\ UNCHANGED ended
    /\ UNCHANGED <<clock, acVars, cliVars, uplink, incoming, connected, relayed,
                   logins, dups, losses>>

\* The pair is ESTABLISHING or ACTIVE by now, so the handshake_init that follows
\* the key finds nothing to do.
MakeOffer(c) ==
    /\ Doing(c, "main", "keygen")
    /\ CanMakeKey(c)
    /\ GenerateKeypair(c)
    /\ SetPendingKey(c, Pair(c, "main"), FreshKey(c))
    /\ Goto(c, "main", [op[c]["main"] EXCEPT !.at = "send", !.private = FreshKey(c)])
    /\ UNCHANGED <<clock, chan, startedAt, sessionKey, remoteFp, seenNonces,
                   sessionVars, mailbox, historyVars, cliVars, netVars>>

SendOffer(c) ==
    LET o == op[c]["main"] IN
    /\ Doing(c, "main", "send")
    /\ Transmit(c, HandshakeFrame(c, o.peer, o.private, clock))
    /\ Rest(c, "main")
    /\ UNCHANGED <<clock, acVars, cliVars, incoming, connected, relayed, logins,
                   dups, losses>>

(***************************************************************************)
(* Main thread: /logout.  The loop over the dictionary of channels raises  *)
(* when it finds the dictionary grown, and ends the program.               *)
(***************************************************************************)
Records(c) == {p \in Pairs : chan[c][p] # "NONE"}

BeginLogout(c) ==
    /\ Doing(c, "main", "idle")
    /\ LoggedIn(c)
    /\ activeSessions' = [activeSessions EXCEPT ![c] = @ \ {c}]
    /\ Goto(c, "main", [Idle EXCEPT !.at = "next", !.left = Records(c),
                                    !.size = Cardinality(Records(c))])
    /\ UNCHANGED <<clock, storeVars, knownUsers, mailbox, historyVars, cliVars, netVars>>

\* The next record of the loop; one of two other users is passed over.
NextRecord(c) ==
    LET o == op[c]["main"] IN
    /\ Doing(c, "main", "next")
    /\ IF o.size # Cardinality(Records(c))
       THEN Goto(c, "main", [Idle EXCEPT !.at = "dead"]) /\ UNCHANGED chan
       ELSE IF o.left = {}
       THEN Goto(c, "main", [Idle EXCEPT !.at = "close"]) /\ UNCHANGED chan
       ELSE \E p \in o.left :
              IF c \in p
              THEN /\ chan' = [chan EXCEPT ![c][p] = "INVALID"]
                   /\ \E u \in p \ {c} :
                        Goto(c, "main", [o EXCEPT !.at = "clear", !.peer = u,
                                                  !.left = @ \ {p}])
              ELSE Goto(c, "main", [o EXCEPT !.left = @ \ {p}]) /\ UNCHANGED chan
    /\ UNCHANGED <<clock, startedAt, sessionKey, remoteFp, seenNonces, pendingKey,
                   keysMade, sessionVars, mailbox, historyVars, cliVars, netVars>>

ClearStores(c) ==
    LET p == Pair(c, "main") IN
    /\ Doing(c, "main", "clear")
    /\ sessionKey' = [sessionKey EXCEPT ![c][p] = NoSecret]
    /\ seenNonces' = [seenNonces EXCEPT ![c][p] = {}]
    /\ PopPendingKey(c, p)
    /\ Goto(c, "main", [op[c]["main"] EXCEPT !.at = "next", !.peer = NoUser])
    /\ UNCHANGED <<clock, chan, startedAt, remoteFp, keysMade, sessionVars, mailbox,
                   historyVars, cliVars, netVars>>

CloseConnection(c) ==
    /\ Doing(c, "main", "close")
    /\ chatTarget' = [chatTarget EXCEPT ![c] = NoUser]
    /\ connected' = connected \ {c}
    /\ \E n \in 0 .. Len(incoming[c]) :
           incoming' = [incoming EXCEPT ![c] = SubSeq(@, 1, n)]
    /\ Rest(c, "main")
    /\ UNCHANGED <<clock, acVars, seenIds, uplink, relayed, logins, dups, ended,
                   losses>>

(***************************************************************************)
(* Either thread: a handshake frame.  The polling thread starts a drain    *)
(* only while there is a current user.                                     *)
(***************************************************************************)
CanDrain(c, t) == Doing(c, t, "idle") /\ (t = "poll" => CurrentUser(c))

TakeHandshake(c, t) ==
    LET f == Head(incoming[c]) IN
    /\ CanDrain(c, t)
    /\ TakeFrame(c, "HANDSHAKE_INIT")
    /\ AutoTarget(c, f.from)
    /\ IF HandshakeHeeded(c, f)
       THEN Goto(c, t, [Idle EXCEPT !.at = "pop", !.peer = f.from, !.pub = f.pub])
       ELSE UNCHANGED op
    /\ UNCHANGED <<clock, acVars, seenIds, uplink, connected, relayed, logins,
                   dups, ended, losses>>

\* Deliberately wrong variant: the private key is read and left in its store.
TakePendingLeft(c, t) ==
    LET o == op[c][t]
        mine == pendingKey[c][Pair(c, t)] IN
    /\ Doing(c, t, "pop")
    /\ \/ /\ mine # NoKey
          /\ Goto(c, t, [o EXCEPT !.at = "key", !.private = mine])
          /\ UNCHANGED keysMade
       \/ /\ mine = NoKey
          /\ CanMakeKey(c)
          /\ GenerateKeypair(c)
          /\ Goto(c, t, [o EXCEPT !.at = "key", !.private = FreshKey(c),
                                  !.answers = TRUE])
    /\ UNCHANGED <<clock, chan, startedAt, sessionKey, remoteFp, seenNonces, pendingKey,
                   sessionVars, mailbox, historyVars, cliVars, netVars>>

\* Deliberately wrong variant: every frame is taken for the answer to an offer.
TakePendingUnchecked(c, t) ==
    LET o == op[c][t] IN
    /\ Doing(c, t, "pop")
    /\ PopPendingKey(c, Pair(c, t))
    /\ Goto(c, t, [o EXCEPT !.at = "key", !.private = pendingKey[c][Pair(c, t)]])
    /\ UNCHANGED <<clock, chan, startedAt, sessionKey, remoteFp, seenNonces, keysMade,
                   sessionVars, mailbox, historyVars, cliVars, netVars>>

TakePending(c, t) ==
    LET o == op[c][t]
        mine == pendingKey[c][Pair(c, t)] IN
    /\ Doing(c, t, "pop")
    /\ PopPendingKey(c, Pair(c, t))
    /\ \/ /\ mine # NoKey
          /\ Goto(c, t, [o EXCEPT !.at = "key", !.private = mine])
          /\ UNCHANGED keysMade
       \/ /\ mine = NoKey
          /\ CanMakeKey(c)
          /\ GenerateKeypair(c)
          /\ Goto(c, t, [o EXCEPT !.at = "key", !.private = FreshKey(c),
                                  !.answers = TRUE])
    /\ UNCHANGED <<clock, chan, startedAt, sessionKey, remoteFp, seenNonces,
                   sessionVars, mailbox, historyVars, cliVars, netVars>>

\* activate_secure_channel stores the key before the record that says ACTIVE.
StoreKey(c, t) ==
    LET o == op[c][t]
        p == Pair(c, t) IN
    /\ Doing(c, t, "key")
    /\ sessionKey' = [sessionKey EXCEPT ![c][p] = DeriveKey(o.private, o.pub)]
    /\ remoteFp' = [remoteFp EXCEPT ![c][p] = Fingerprint(o.pub)]
    /\ seenNonces' = [seenNonces EXCEPT ![c][p] = {}]
    /\ Goto(c, t, [o EXCEPT !.at = "record",
                            !.changed = KeyChanged(c, p, Fingerprint(o.pub))])
    /\ UNCHANGED <<clock, chan, startedAt, pendingKey, keysMade, sessionVars, mailbox,
                   historyVars, cliVars, netVars>>

StoreRecord(c, t) ==
    LET o == op[c][t]
        p == Pair(c, t) IN
    /\ Doing(c, t, "record")
    /\ chan' = [chan EXCEPT ![c][p] = "ACTIVE"]
    /\ startedAt' = [startedAt EXCEPT ![c][p] = IF chan[c][p] = "NONE" THEN clock ELSE @]
    /\ IF o.changed THEN Publish(c, c, "409_REMOTE_KEY_CHANGED") ELSE UNCHANGED mailbox
    /\ IF o.answers THEN Goto(c, t, [o EXCEPT !.at = "reply"]) ELSE Rest(c, t)
    /\ UNCHANGED <<clock, sessionKey, remoteFp, seenNonces, pendingKey, keysMade,
                   sessionVars, historyVars, cliVars, netVars>>

\* When send_frame raises, the main thread ends the program; the polling thread
\* goes on without the rest of the batch it had taken from the queue.
SendReply(c, t) ==
    LET o == op[c][t] IN
    /\ Doing(c, t, "reply")
    /\ Transmit(c, HandshakeFrame(c, o.peer, o.private, clock))
    /\ t = "poll" => UNCHANGED ended
    /\ \E n \in 0 .. IF t = "poll" THEN Len(incoming[c]) ELSE 0 :
           incoming' = [incoming EXCEPT ![c] = SubSeq(@, n + 1, Len(@))]
    /\ Rest(c, t)
    /\ UNCHANGED <<clock, acVars, cliVars, connected, relayed, logins, dups, losses>>

DrainWhole(c, t) ==
    /\ CanDrain(c, t)
    /\ DrainDuplicate(c) \/ DrainMessage(c)
    /\ UNCHANGED op

\* Commands of the main thread that stay in one step.
WholeCommand(c) ==
    /\ Doing(c, "main", "idle")
    /\ HandleUser(c) \/ HandleLeave(c) \/ PollNotifications(c)
    /\ UNCHANGED op

MainStep(c) ==
    \/ \E u \in Others(c) : BeginMsg(c, u) \/ BeginChat(c, u)
    \/ BeginFreeText(c) \/ ValidateMessage(c)
    \/ WriteEstablishing(c) \/ FoundLive(c)
    \/ CheckOffer(c) \/ MakeOffer(c) \/ SendOffer(c)
    \/ BeginLogout(c) \/ NextRecord(c) \/ ClearStores(c) \/ CloseConnection(c)
    \/ WholeCommand(c)

DrainStep(c, t) ==
    \/ TakeHandshake(c, t) \/ TakePending(c, t) \/ StoreKey(c, t)
    \/ StoreRecord(c, t) \/ SendReply(c, t) \/ DrainWhole(c, t)

\* Where the threads do not overlap, Messenger has the steps.
WholeStep(c) == (Command(c) \/ Drain(c)) /\ UNCHANGED op

TNext ==
    \/ \E c \in Threaded : MainStep(c)
    \/ \E c \in Threaded, t \in Threads : DrainStep(c, t)
    \/ \E c \in Clients \ Threaded : WholeStep(c)
    \/ \E c \in Clients : RelayForward(c) /\ UNCHANGED op

TSpec == TInit /\ [][TNext]_tvars

-----------------------------------------------------------------------------
\* Every variable keeps the shape of what it stands for, and a thread holds what
\* the step it has reached needs.
TTypeOK ==
    /\ TypeOK
    /\ op \in [Clients -> [Threads ->
                 [at : Steps, peer : Users \union {NoUser}, key : Secret,
                  pub : LocalKeys \union {NoKey}, private : LocalKeys \union {NoKey},
                  answers : BOOLEAN, changed : BOOLEAN, left : SUBSET Pairs,
                  size : 0 .. Cardinality(Pairs)]]]
    /\ \A c \in Clients, t \in Threads :
           /\ op[c][t].at \in {"key", "record", "reply", "send"} => op[c][t].private # NoKey
           /\ op[c][t].at = "clear" => op[c][t].peer # NoUser
           /\ op[c][t].at = "keygen" => chan[c][Pair(c, t)] \in Live

\* Two handshake frames never finish with one private key, whichever threads have
\* them: the key a thread is about to establish a channel with is not the other
\* thread's, and no secret was made with it.
PrivateTakenOnce ==
    \A c \in Clients, t, s \in Threads :
        op[c][t].at = "key" =>
            /\ \A p \in Pairs : op[c][t].private \notin sessionKey[c][p]
            /\ s # t /\ op[c][s].at \in {"key", "record"}
                   => op[c][s].private # op[c][t].private

\* In the first session of a process, before it logs out, whoever reads ACTIVE
\* finds the key: the record is written after the key, whatever the threads do.
ActiveHasKey ==
    \A c \in Clients, p \in Pairs :
        c \in p /\ logins[c] = 1 /\ LoggedIn(c) /\ chan[c][p] = "ACTIVE"
            => sessionKey[c][p] # NoSecret

Resting(c) == \A t \in Threads : op[c][t] = Idle

\* What the specification says of bypassing a channel, there is none: a pair whose
\* channel is ACTIVE has a key to seal with, once nothing is under way.
NoBypass ==
    \A c \in Clients, p \in Pairs :
        Resting(c) /\ chan[c][p] = "ACTIVE" => sessionKey[c][p] # NoSecret

\* What it says of failures: none is silent, errors are answered.  No command
\* ends the program with an exception of its own making, whatever its sends do.
NoCommandRaises == \A c \in Clients : op[c]["main"].at # "dead"

-----------------------------------------------------------------------------
(***************************************************************************)
(* The inductive invariant of the proofs.                                  *)
(***************************************************************************)

\* What a thread holds at the step it has reached: somebody to talk to, a key of
\* theirs, a key of its own; and what it may rely on: a channel it found or made
\* live stays so, nobody opens a session during /logout.
ThreadHolds(c, t) ==
    LET o == op[c][t] IN
    /\ c \notin Threaded => o.at = "idle"
    /\ t = "poll" => o.at \in {"idle", "pop", "key", "record", "reply"}
    /\ o.at \notin {"idle", "dead", "next", "close"} => o.peer \in Others(c)
    /\ o.at \in {"pop", "key"} => o.pub \in MadeKeys(o.peer)
    /\ o.at \in {"key", "record", "reply", "send"} => o.private \in MadeKeys(c)
    /\ o.at \in {"offer", "keygen"} => chan[c][Pair(c, t)] \in Live
    /\ o.at \in {"next", "clear", "close"} => ~ LoggedIn(c) /\ logins[c] # 0

\* The private keys of unfinished handshakes, in the store and in the hands of the
\* threads, differ from each other and are part of no secret.
Taken(c, t) == op[c][t].at \in {"key", "record"}

KeysOnce ==
    \A c \in Clients :
        /\ \A p, q \in Pairs :
               pendingKey[c][p] # NoKey =>
                   /\ pendingKey[c][p] \notin sessionKey[c][q]
                   /\ pendingKey[c][p] = pendingKey[c][q] => p = q
        /\ \A t \in Threads : Taken(c, t) =>
               /\ \A p \in Pairs :
                      /\ pendingKey[c][p] # op[c][t].private
                      /\ op[c][t].at = "key" => op[c][t].private \notin sessionKey[c][p]
               /\ \A s \in Threads :
                      s # t /\ Taken(c, s) => op[c][s].private # op[c][t].private

\* No process has begun its first /logout.
First(c) == logins[c] = 0 \/ (logins[c] = 1 /\ LoggedIn(c))

\* Until then a key, once stored, stays, and the record comes after it.
FirstHasKey ==
    \A c \in Clients :
        /\ LoggedIn(c) => logins[c] # 0
        /\ First(c) =>
             /\ \A p \in Pairs : chan[c][p] = "ACTIVE" => sessionKey[c][p] # NoSecret
             /\ \A t \in Threads : op[c][t].at = "record"
                                      => sessionKey[c][Pair(c, t)] # NoSecret

TInv ==
    /\ WireInv
    /\ TTypeOK
    /\ \A c \in Clients, t \in Threads : ThreadHolds(c, t)
    /\ KeysOnce
    /\ FirstHasKey
=============================================================================
