----------------------------- MODULE Transport -----------------------------
(***************************************************************************)
(* The relay of infrastructure/minimal_relay_server.py and the gateways of *)
(* infrastructure/runtime_transport_gateway.py that connect to it, driven  *)
(* by /user, /logout and the frames of cli/cli_app.py.  The relay is one   *)
(* event loop: a handler runs alone until it awaits, which is where it     *)
(* reads the next item and where it sends one to another connection.       *)
(*                                                                         *)
(* A gateway's thread outlives a connect that timed out: the process goes  *)
(* on without the relay, the thread goes on dialing.                       *)
(***************************************************************************)
EXTENDS Naturals, Sequences

CONSTANTS
    Clients,            \* processes
    Names,              \* user names
    NamesOf,            \* which names the user of a process types
    MaxConns,           \* bound: connections ever dialed
    MaxFrames,          \* bound: frames a process sends
    MaxRestarts,        \* bound: stops of the relay
    NoConn, NoUser

Conns == 1 .. MaxConns

ASSUME TransportAssumption ==
    /\ MaxConns \in Nat /\ MaxFrames \in Nat /\ MaxRestarts \in Nat
    /\ NamesOf \in [Clients -> SUBSET Names]
    /\ NoConn \notin Conns /\ NoUser \notin Names

VARIABLES
    sessions,   \* names with a session in a process's table
    user,       \* the command line's current user
    gateway,    \* the process still has its gateway
    thread,     \* the connection of the gateway's thread
    waiting,    \* the main thread is inside connect
    ended,      \* the program is over
    sent,       \* how many frames a process has sent
    link,       \* the state of a connection
    name,       \* the name the connection's handler knows it by
    wire,       \* what the connection carries to the relay and is not settled
    handler,    \* the relay's handler of the connection
    dest,       \* where the handler is sending the head of the wire
    users,      \* the relay's table
    announced,  \* history: the connections that ever took a name
    latest,     \* history: the connection that took it last
    box,        \* history: what was handed to a connection
    restarts

procVars == <<sessions, user, gateway, thread, waiting, ended, sent>>
relayVars == <<handler, dest, users, announced, latest, box>>
vars == <<procVars, link, name, wire, relayVars, restarts>>

LinkStates == {"unused", "dialing", "refused", "open", "closing", "closed"}
Items == [kind : {"REGISTER", "FRAME"}, name : Names]
Item(kind, n) == [kind |-> kind, name |-> n]

Typed ==
    /\ sessions \in [Clients -> SUBSET Names]
    /\ user \in [Clients -> Names \union {NoUser}]
    /\ gateway \in [Clients -> BOOLEAN]
    /\ thread \in [Clients -> Conns \union {NoConn}]
    /\ waiting \in [Clients -> BOOLEAN]
    /\ ended \in [Clients -> BOOLEAN]
    /\ sent \in [Clients -> 0 .. MaxFrames]
    /\ link \in [Conns -> LinkStates]
    /\ name \in [Conns -> Names \union {NoUser}]
    /\ wire \in [Conns -> Seq(Items)]
    /\ handler \in [Conns -> {"none", "loop", "ended"}]
    /\ dest \in [Conns -> Conns \union {NoConn}]
    /\ users \in [Names -> Conns \union {NoConn}]
    /\ announced \in [Names -> SUBSET Conns]
    /\ latest \in [Names -> Conns \union {NoConn}]
    /\ box \in [Conns -> Seq(Items)]
    /\ restarts \in 0 .. MaxRestarts

\* A handler that awaits a send holds the frame it sends.
TypeOK == Typed /\ \A i \in Conns : dest[i] # NoConn => wire[i] # << >>

Init ==
    /\ sessions = [c \in Clients |-> {}]
    /\ user = [c \in Clients |-> NoUser]
    /\ gateway = [c \in Clients |-> TRUE]
    /\ thread = [c \in Clients |-> NoConn]
    /\ waiting = [c \in Clients |-> FALSE]
    /\ ended = [c \in Clients |-> FALSE]
    /\ sent = [c \in Clients |-> 0]
    /\ link = [i \in Conns |-> "unused"]
    /\ name = [i \in Conns |-> NoUser]
    /\ wire = [i \in Conns |-> << >>]
    /\ handler = [i \in Conns |-> "none"]
    /\ dest = [i \in Conns |-> NoConn]
    /\ users = [n \in Names |-> NoConn]
    /\ announced = [n \in Names |-> {}]
    /\ latest = [n \in Names |-> NoConn]
    /\ box = [i \in Conns |-> << >>]
    /\ restarts = 0

(***************************************************************************)
(* The process: its main thread, and the connection of its gateway.        *)
(***************************************************************************)
Broken(i) == link[i] \in {"closing", "closed"}

\* The prompt takes commands.
AtPrompt(c) == ~ ended[c] /\ ~ waiting[c]

\* The controller accepts the name, and it becomes the current user; the
\* session of the user before it stays.
RegisterUser(c, n) ==
    /\ n \notin sessions[c]
    /\ sessions' = [sessions EXCEPT ![c] = @ \union {n}]
    /\ user' = [user EXCEPT ![c] = n]

\* The frame is written, or the loop takes longer than the command line waits.
\* On a broken connection it is lost, or the send raises, which nothing catches.
SendItem(c, x) ==
    LET i == thread[c] IN
    \/ /\ link[i] = "open"
       /\ wire' = [wire EXCEPT ![i] = Append(@, x)]
       /\ UNCHANGED <<ended, link>>
    \/ /\ link[i] = "open"
       /\ ended' = [ended EXCEPT ![c] = TRUE]
       /\ link' = [link EXCEPT ![i] = "closing"]
       /\ UNCHANGED wire
    \/ /\ link[i] = "closing"
       /\ UNCHANGED <<ended, link, wire>>
    \/ /\ Broken(i)
       /\ ended' = [ended EXCEPT ![c] = TRUE]
       /\ UNCHANGED <<link, wire>>

\* /user without a gateway, or with one whose thread does not run yet.
UserLocally(c, n) ==
    /\ AtPrompt(c) /\ ~ gateway[c]
    /\ RegisterUser(c, n)
    /\ UNCHANGED <<gateway, thread, waiting, ended, sent, link, name, wire,
                   relayVars, restarts>>

UserDials(c, n, i) ==
    /\ AtPrompt(c) /\ gateway[c] /\ thread[c] = NoConn
    /\ RegisterUser(c, n)
    /\ link[i] = "unused" /\ \A j \in Conns : j < i => link[j] # "unused"
    /\ link' = [link EXCEPT ![i] = "dialing"]
    /\ name' = [name EXCEPT ![i] = n]
    /\ thread' = [thread EXCEPT ![c] = i]
    /\ waiting' = [waiting EXCEPT ![c] = TRUE]
    /\ UNCHANGED <<gateway, ended, sent, wire, relayVars, restarts>>

\* /user without /logout: connect finds a thread and returns at once.
UserAgain(c, n) ==
    /\ AtPrompt(c) /\ gateway[c] /\ thread[c] # NoConn
    /\ RegisterUser(c, n)
    /\ SendItem(c, Item("REGISTER", n))
    /\ UNCHANGED <<gateway, thread, waiting, sent, name, relayVars, restarts>>

\* connect returns and REGISTER is sent, or the thread had failed.
ConnectReturns(c) ==
    /\ waiting[c] /\ ~ ended[c]
    /\ waiting' = [waiting EXCEPT ![c] = FALSE]
    /\ \/ /\ link[thread[c]] \in {"open", "closing", "closed"}
          /\ SendItem(c, Item("REGISTER", user[c]))
          /\ UNCHANGED gateway
       \/ /\ link[thread[c]] = "refused"
          /\ gateway' = [gateway EXCEPT ![c] = FALSE]
          /\ UNCHANGED <<ended, link, wire>>
    /\ UNCHANGED <<sessions, user, thread, sent, name, relayVars, restarts>>

\* The wait of connect is shorter than the one of the handshake it waits for.
ConnectTimesOut(c) ==
    /\ waiting[c] /\ ~ ended[c]
    /\ link[thread[c]] = "dialing"
    /\ waiting' = [waiting EXCEPT ![c] = FALSE]
    /\ gateway' = [gateway EXCEPT ![c] = FALSE]
    /\ UNCHANGED <<sessions, user, thread, ended, sent, link, name, wire,
                   relayVars, restarts>>

\* An offer, a reply or a message.
SendFrame(c, n) ==
    /\ AtPrompt(c) /\ gateway[c] /\ thread[c] # NoConn
    /\ user[c] \notin {NoUser, n}
    /\ sent[c] < MaxFrames
    /\ sent' = [sent EXCEPT ![c] = @ + 1]
    /\ SendItem(c, Item("FRAME", n))
    /\ UNCHANGED <<sessions, user, gateway, thread, waiting, name, relayVars,
                   restarts>>

\* Deliberately wrong variant of CloseLink: the thread is forgotten but its
\* connection left to itself.
LinkForgotten(i) == UNCHANGED link

\* What close leaves behind: the closing handshake may outlast its join.
CloseLink(i) ==
    link' = [link EXCEPT ![i] = CASE @ = "open" -> "closing"
                                  [] @ = "dialing" -> "refused"
                                  [] OTHER -> @]

Logout(c) ==
    /\ AtPrompt(c) /\ user[c] # NoUser
    /\ sessions' = [sessions EXCEPT ![c] = @ \ {user[c]}]
    /\ user' = [user EXCEPT ![c] = NoUser]
    /\ \/ /\ gateway[c] /\ thread[c] # NoConn
          /\ CloseLink(thread[c])
          /\ thread' = [thread EXCEPT ![c] = NoConn]
       \/ /\ ~ gateway[c]
          /\ UNCHANGED <<link, thread>>
    /\ UNCHANGED <<gateway, waiting, ended, sent, name, wire, relayVars, restarts>>

\* /exit, the end of the input or a kill; the gateway's thread is a daemon.
Quit(c) ==
    /\ ~ ended[c]
    /\ ended' = [ended EXCEPT ![c] = TRUE]
    /\ \/ thread[c] # NoConn /\ CloseLink(thread[c])
       \/ thread[c] = NoConn /\ UNCHANGED link
    /\ UNCHANGED <<sessions, user, gateway, thread, waiting, sent, name, wire,
                   relayVars, restarts>>

(***************************************************************************)
(* The connections.                                                        *)
(***************************************************************************)
\* The relay takes a name for the connection its handler runs on.
Announce(i, n) ==
    /\ users' = [users EXCEPT ![n] = i]
    /\ announced' = [announced EXCEPT ![n] = @ \union {i}]
    /\ latest' = [latest EXCEPT ![n] = i]

\* The relay accepts the connection and runs its handler to the first await.
DialOpens(i) ==
    /\ link[i] = "dialing"
    /\ link' = [link EXCEPT ![i] = "open"]
    /\ handler' = [handler EXCEPT ![i] = "loop"]
    /\ Announce(i, name[i])
    /\ UNCHANGED <<procVars, name, wire, dest, box, restarts>>

DialRefused(i) ==
    /\ link[i] = "dialing"
    /\ link' = [link EXCEPT ![i] = "refused"]
    /\ UNCHANGED <<procVars, name, wire, relayVars, restarts>>

LinkLost(i) ==
    /\ link[i] = "open"
    /\ link' = [link EXCEPT ![i] = "closing"]
    /\ UNCHANGED <<procVars, name, wire, relayVars, restarts>>

\* The relay learns that the connection is closed: what came before has been
\* read, the rest is lost.  A handler inside a send goes on with its item and
\* with what came by then.
LinkCloses(i) ==
    /\ link[i] = "closing"
    /\ link' = [link EXCEPT ![i] = "closed"]
    /\ \/ /\ dest[i] = NoConn
          /\ wire' = [wire EXCEPT ![i] = << >>]
       \/ /\ dest[i] # NoConn
          /\ \E k \in 1 .. Len(wire[i]) : wire' = [wire EXCEPT ![i] = SubSeq(@, 1, k)]
    /\ UNCHANGED <<procVars, name, relayVars, restarts>>

(***************************************************************************)
(* The relay's handler of a connection.                                    *)
(***************************************************************************)
Reading(i, kind) ==
    /\ handler[i] = "loop" /\ dest[i] = NoConn
    /\ wire[i] # << >> /\ Head(wire[i]).kind = kind

\* Deliberately wrong variant of Settle: the handler goes on with the address
\* of the frame before.
SettleStale(i) ==
    /\ wire' = [wire EXCEPT ![i] = Tail(@)]
    /\ UNCHANGED dest

Settle(i) ==
    /\ wire' = [wire EXCEPT ![i] = Tail(@)]
    /\ dest' = [dest EXCEPT ![i] = NoConn]

HandleRegister(i) ==
    /\ Reading(i, "REGISTER")
    /\ Settle(i)
    /\ Announce(i, Head(wire[i]).name)
    /\ name' = [name EXCEPT ![i] = Head(wire[i]).name]
    /\ UNCHANGED <<procVars, link, handler, box, restarts>>

\* Deliberately wrong variant of LookUp: the sender's name is looked up.
LookUpSender(i) ==
    /\ Reading(i, "FRAME")
    /\ users[name[i]] # NoConn
    /\ dest' = [dest EXCEPT ![i] = users[name[i]]]
    /\ UNCHANGED <<procVars, link, name, wire, handler, users, announced, latest,
                   box, restarts>>

\* The table is read before the await of the send; without an entry the frame
\* is dropped.
LookUp(i) ==
    /\ Reading(i, "FRAME")
    /\ LET d == users[Head(wire[i]).name] IN
       \/ /\ d # NoConn
          /\ dest' = [dest EXCEPT ![i] = d]
          /\ UNCHANGED wire
       \/ /\ d = NoConn
          /\ Settle(i)
    /\ UNCHANGED <<procVars, link, name, handler, users, announced, latest, box, restarts>>

\* The client is still there, or the relay does not know yet that it is not.
SendCompletes(i) ==
    /\ dest[i] # NoConn /\ link[dest[i]] \in {"open", "closing"}
    /\ Settle(i)
    /\ box' = IF link[dest[i]] = "open"
              THEN [box EXCEPT ![dest[i]] = Append(@, Head(wire[i]))] ELSE box
    /\ UNCHANGED <<procVars, link, name, handler, users, announced, latest, restarts>>

\* Deliberately wrong variant of SendFails: the send is tried again.
SendRetried(i) ==
    /\ dest[i] # NoConn /\ link[dest[i]] = "closed"
    /\ UNCHANGED vars

\* ConnectionClosed: the name goes, whoever has it by now.
SendFails(i) ==
    /\ dest[i] # NoConn /\ link[dest[i]] = "closed"
    /\ Settle(i)
    /\ users' = [users EXCEPT ![Head(wire[i]).name] = NoConn]
    /\ UNCHANGED <<procVars, link, name, handler, announced, latest, box, restarts>>

\* Deliberately wrong variants of HandlerEnds: without the finally clause, with
\* its test turned round, and without its test.
HandlerJustEnds(i) ==
    /\ handler[i] = "loop" /\ link[i] = "closed" /\ wire[i] = << >>
    /\ handler' = [handler EXCEPT ![i] = "ended"]
    /\ UNCHANGED <<procVars, link, name, wire, dest, users, announced, latest,
                   box, restarts>>

HandlerFreesOthers(i) ==
    /\ handler[i] = "loop" /\ link[i] = "closed" /\ wire[i] = << >>
    /\ handler' = [handler EXCEPT ![i] = "ended"]
    /\ users' = IF users[name[i]] # i
                THEN [users EXCEPT ![name[i]] = NoConn] ELSE users
    /\ UNCHANGED <<procVars, link, name, wire, dest, announced, latest, box, restarts>>

HandlerEndsUntested(i) ==
    /\ handler[i] = "loop" /\ link[i] = "closed" /\ wire[i] = << >>
    /\ handler' = [handler EXCEPT ![i] = "ended"]
    /\ users' = [users EXCEPT ![name[i]] = NoConn]
    /\ UNCHANGED <<procVars, link, name, wire, dest, announced, latest, box, restarts>>

\* The finally clause frees the name unless another connection has taken it.
HandlerEnds(i) ==
    /\ handler[i] = "loop" /\ link[i] = "closed" /\ wire[i] = << >>
    /\ handler' = [handler EXCEPT ![i] = "ended"]
    /\ users' = IF users[name[i]] = i
                THEN [users EXCEPT ![name[i]] = NoConn] ELSE users
    /\ UNCHANGED <<procVars, link, name, wire, dest, announced, latest, box, restarts>>

Handle(i) ==
    \/ HandleRegister(i)
    \/ LookUp(i)
    \/ SendCompletes(i)
    \/ SendFails(i)
    \/ HandlerEnds(i)

\* stop closes every connection, waits for the handlers and clears the table;
\* the relay may be started again at once.
RelayStops ==
    /\ restarts < MaxRestarts
    /\ restarts' = restarts + 1
    /\ LET gone == {i \in Conns : link[i] = "open" \/ Broken(i)} IN
       /\ link' = [i \in Conns |-> IF i \in gone THEN "closed" ELSE link[i]]
       /\ handler' = [i \in Conns |-> IF i \in gone THEN "ended" ELSE handler[i]]
    /\ wire' = [i \in Conns |-> << >>]
    /\ dest' = [i \in Conns |-> NoConn]
    /\ users' = [n \in Names |-> NoConn]
    /\ UNCHANGED <<procVars, name, announced, latest, box>>

Next ==
    \/ \E c \in Clients : \E n \in NamesOf[c] :
         \/ UserLocally(c, n)
         \/ UserAgain(c, n)
         \/ \E i \in Conns : UserDials(c, n, i)
    \/ \E c \in Clients, n \in Names : SendFrame(c, n)
    \/ \E c \in Clients :
         \/ ConnectReturns(c) \/ ConnectTimesOut(c)
         \/ Logout(c) \/ Quit(c)
    \/ \E i \in Conns :
         \/ DialOpens(i) \/ DialRefused(i)
         \/ LinkLost(i) \/ LinkCloses(i) \/ Handle(i)
    \/ RelayStops

\* The relay's loop runs its handlers, and closing handshakes have timeouts.
Fairness == \A i \in Conns : WF_vars(Handle(i)) /\ WF_vars(LinkCloses(i))

Spec == Init /\ [][Next]_vars /\ Fairness

(***************************************************************************)
(* Properties.                                                             *)
(***************************************************************************)
\* The relay's table never routes a name to a connection whose handler is gone,
\* except a name its user gave up by taking another one: the finally clause
\* frees the last name only.
RouteNotDangling ==
    \A n \in Names : users[n] # NoConn =>
        handler[users[n]] = "loop" \/ name[users[n]] # n

\* A process never keeps two connections: /logout closes the one it has before
\* /user can dial another, and a rename reuses it.
OneLiveConnection ==
    \A i \in Conns : link[i] \in {"dialing", "open"} =>
        \E c \in Clients : thread[c] = i /\ ~ ended[c]

\* Whoever is routed to keeps the route: while a connection is not closed the
\* table gives it up only for one that announces the name after it, when the
\* relay stops, or when a frame for the name fails at another connection that
\* had the name when the frame was looked up.  The end of a handler never takes
\* the route of another connection.
LateFailure(n) ==
    \E i \in Conns :
        /\ dest[i] # NoConn /\ dest[i] # users[n] /\ link[dest[i]] = "closed"
        /\ Head(wire[i]).name = n /\ dest'[i] = NoConn
RouteKept ==
    [][\A n \in Names :
         users[n] # NoConn /\ link[users[n]] # "closed" /\ users'[n] # users[n] =>
             \/ users'[n] # NoConn /\ users'[n] = latest'[n]
             \/ restarts' # restarts
             \/ LateFailure(n)]_vars

\* What the relay promises (Router): frames are handed once and in order, only
\* to who announced the addressee, and dropped only if nobody did or somebody
\* who did has gone, for all that handlers overlap at their awaits.
Abstract == INSTANCE Router WITH
    Links <- Conns, queue <- wire, broken <- {i \in Conns : Broken(i)}
ImplementsRouter == Abstract!RouterSpec

\* A connection that is closed does not hold its name for ever.
LastNameFreed ==
    \A i \in Conns : link[i] = "closed" ~>
        \A n \in Names : users[n] = i => name[i] # n

\* No connection is stuck behind another one: what a client sent is settled,
\* although its handler waits for the addressee of each frame in turn.
FramesResolved == \A i \in Conns : wire[i] # << >> ~> wire[i] = << >>

(***************************************************************************)
(* The inductive invariant behind them.                                    *)
(***************************************************************************)
\* A route leads to a connection that took the name.
RouteAnnounced == \A n \in Names : users[n] # NoConn => users[n] \in announced[n]

\* Only accepted connections take names and carry items, and a running handler
\* has a name.
AnnouncedAccepted ==
    /\ \A i \in Conns : wire[i] # << >> => link[i] = "open" \/ Broken(i)
    /\ \A n \in Names : \A i \in announced[n] : link[i] = "open" \/ Broken(i)
    /\ \A i \in Conns :
         handler[i] = "loop" => name[i] \in Names /\ i \in announced[name[i]]
    /\ \A i \in Conns : link[i] # "unused" => name[i] \in Names

\* The connection looked up before the await once took the name the frame is
\* for, whatever became of the table meanwhile.
DestAnnounced ==
    \A i \in Conns : dest[i] # NoConn =>
        /\ wire[i] # << >> /\ Head(wire[i]).kind = "FRAME"
        /\ dest[i] \in announced[Head(wire[i]).name]

\* A name that was taken is without a route only if somebody who took it broke.
FreedWhenBroken ==
    \A n \in Names : announced[n] # {} /\ users[n] = NoConn =>
        \E i \in announced[n] : Broken(i)

ConnectingHasThread ==
    \A c \in Clients : waiting[c] => thread[c] # NoConn /\ user[c] # NoUser

IInv ==
    /\ Typed
    /\ RouteAnnounced
    /\ AnnouncedAccepted
    /\ DestAnnounced
    /\ FreedWhenBroken
    /\ ConnectingHasThread
    /\ RouteNotDangling
    /\ OneLiveConnection

(***************************************************************************)
(* What the documents say and the code does not keep.                      *)
(***************************************************************************)
\* A process whose connection is open and was the last to register n.
Reachable(n) ==
    \E c \in Clients :
        /\ gateway[c] /\ ~ waiting[c] /\ user[c] = n
        /\ thread[c] # NoConn /\ thread[c] = latest[n] /\ link[thread[c]] = "open"

\* docs/SYSTEM_SPECIFICATION.md:88: no failure is silent.  A frame for somebody
\* who is connected and registered is not dropped for want of an address.
NoSilentLoss ==
    [][\A i \in Conns :
         LookUp(i) /\ wire' # wire => ~ Reachable(Head(wire[i]).name)]_vars
=============================================================================
