-------------------------- MODULE TransportProofs --------------------------
(***************************************************************************)
(* What TLAPS proves of Transport, for any processes, names, connections   *)
(* and bounds.                                                             *)
(*                                                                         *)
(* IInv is inductive.  What the clients and the network do leaves the      *)
(* relay's variables alone and only breaks connections, which keeps the    *)
(* part of IInv about routes (QuietKeepsRoutes); each step of a handler is *)
(* a lemma of its own.  DestAnnounced carries what the handler knew before *)
(* its await across it: a frame may go to a connection the table has       *)
(* forgotten, never to one that did not take the name.  Together with      *)
(* FreedWhenBroken it is what the steps of the abstract Router ask.        *)
(***************************************************************************)
EXTENDS Transport, TLAPS

\* The part of IInv about the relay's table.
Routes ==
    /\ RouteAnnounced
    /\ AnnouncedAccepted
    /\ DestAnnounced
    /\ FreedWhenBroken
    /\ RouteNotDangling

\* A connection advances towards its end and keeps its name; what its handler is
\* sending stays.
Advances(i) ==
    /\ \/ link'[i] = link[i]
       \/ link[i] = "unused" /\ link'[i] = "dialing"
       \/ link[i] = "dialing" /\ link'[i] = "refused"
       \/ link[i] \in {"open", "closing"} /\ link'[i] \in {"closing", "closed"}
    /\ link[i] # "unused" => name'[i] = name[i]
    /\ link'[i] # "unused" => name'[i] \in Names
    /\ dest[i] # NoConn => wire'[i] # << >> /\ Head(wire'[i]) = Head(wire[i])
    /\ wire'[i] # << >> => wire[i] # << >> \/ link[i] = "open"

\* A step that leaves the relay's variables alone keeps the routes.
LEMMA QuietKeepsRoutes ==
    ASSUME Typed, Routes, relayVars' = relayVars, \A i \in Conns : Advances(i)
    PROVE  Routes'
<1>0. /\ handler' = handler /\ dest' = dest /\ users' = users
      /\ announced' = announced
  BY DEF relayVars
<1>1. RouteAnnounced'
  BY <1>0 DEF Routes, RouteAnnounced
<1>2. AnnouncedAccepted'
  <2>1. \A n \in Names : \A i \in announced[n] : i \in Conns
    BY DEF Typed
  <2>2. \A i \in Conns : link[i] = "open" \/ Broken(i) =>
            (link[i] = "open" \/ Broken(i))' /\ name'[i] = name[i]
    BY DEF Advances, Broken
  <2>3. \A i \in Conns : handler[i] = "loop" => link[i] = "open" \/ Broken(i)
    BY DEF Routes, AnnouncedAccepted
  <2>4. QED
    BY <1>0, <2>1, <2>2, <2>3 DEF Routes, AnnouncedAccepted, Advances
<1>3. DestAnnounced'
  BY <1>0 DEF Routes, DestAnnounced, Advances
<1>4. FreedWhenBroken'
  <2>1. \A n \in Names : \A i \in announced[n] : i \in Conns
    BY DEF Typed
  <2>2. \A i \in Conns : Broken(i) => Broken(i)'
    BY DEF Advances, Broken
  <2>3. QED
    BY <1>0, <2>1, <2>2 DEF Routes, FreedWhenBroken
<1>5. RouteNotDangling'
  <2>1. \A n \in Names : users[n] # NoConn =>
            users[n] \in Conns /\ link[users[n]] # "unused"
    BY DEF Typed, Routes, RouteAnnounced, AnnouncedAccepted, Broken
  <2>2. QED
    BY <1>0, <2>1 DEF Routes, RouteNotDangling, Advances
<1>6. QED
  BY <1>1, <1>2, <1>3, <1>4, <1>5 DEF Routes

\* The first of a wire is an item.
LEMMA HeadIsItem ==
    ASSUME Typed, NEW i \in Conns, wire[i] # << >>
    PROVE  Head(wire[i]) \in Items /\ Head(wire[i]).name \in Names
<1>1. wire[i] \in Seq(Items)
  BY DEF Typed
<1>2. Head(wire[i]) \in Items
  BY <1>1
<1>3. QED
  BY <1>2 DEF Items

\* Sending on the thread's connection appends to its wire, breaks it, loses the
\* item or ends the program; nothing before the item is disturbed.
LEMMA SendItemEffect ==
    ASSUME Typed, Routes, NEW c \in Clients, NEW x \in Items, thread[c] \in Conns,
           SendItem(c, x), name' = name
    PROVE  /\ ended' \in [Clients -> BOOLEAN]
           /\ link' \in [Conns -> LinkStates]
           /\ wire' \in [Conns -> Seq(Items)]
           /\ \A i \in Conns : Advances(i)
           /\ \A i \in Conns : link'[i] \in {"dialing", "open"} => link'[i] = link[i]
           /\ \A d \in Clients : ended'[d] # ended[d] => d = c /\ link'[thread[c]] \in {"closing", "closed"}
<1> DEFINE j == thread[c]
<1>0. /\ link \in [Conns -> LinkStates] /\ ended \in [Clients -> BOOLEAN]
      /\ wire \in [Conns -> Seq(Items)] /\ Append(wire[j], x) \in Seq(Items)
  BY DEF Typed
<1>1. /\ ended' \in [Clients -> BOOLEAN]
      /\ link' \in [Conns -> LinkStates]
      /\ wire' \in [Conns -> Seq(Items)]
  BY <1>0 DEF SendItem, LinkStates
<1>2. wire' = wire \/ wire' = [wire EXCEPT ![j] = Append(@, x)]
  BY DEF SendItem
<1>3. \A i \in Conns : wire[i] # << >> =>
          wire'[i] # << >> /\ Head(wire'[i]) = Head(wire[i])
  <2>1. \A s \in Seq(Items) : s # << >> =>
            Append(s, x) # << >> /\ Head(Append(s, x)) = Head(s)
    OBVIOUS
  <2>2. \A i \in Conns : wire[i] \in Seq(Items)
    BY <1>0
  <2>3. \A i \in Conns : wire'[i] = wire[i] \/ wire'[i] = Append(wire[i], x)
    BY <1>0, <1>2
  <2>4. ASSUME NEW i \in Conns, wire[i] # << >>
        PROVE  wire'[i] # << >> /\ Head(wire'[i]) = Head(wire[i])
    <3>1. wire[i] \in Seq(Items) /\ Append(wire[i], x) # << >>
          /\ Head(Append(wire[i], x)) = Head(wire[i])
      BY <2>1, <2>2, <2>4
    <3>2. CASE wire'[i] = wire[i]
      BY <2>4, <3>2
    <3>3. CASE wire'[i] = Append(wire[i], x)
      BY <3>1, <3>3
    <3>4. QED
      BY <2>3, <3>2, <3>3
  <2>5. QED
    BY <2>4
<1>4. \A i \in Conns : link'[i] = link[i] \/ (link[i] = "open" /\ link'[i] = "closing")
  <2>1. CASE UNCHANGED link
    BY <2>1
  <2>2. CASE link[j] = "open" /\ link' = [link EXCEPT ![j] = "closing"]
    BY <1>0, <2>2
  <2>3. QED
    BY <2>1, <2>2 DEF SendItem
<1>5. \A i \in Conns : link[i] # "unused" => name[i] \in Names
  BY DEF Routes, AnnouncedAccepted
<1>6. \A i \in Conns : Advances(i)
  <2>1. \A i \in Conns : wire'[i] # << >> => wire[i] # << >> \/ link[i] = "open"
    <3>1. \/ wire' = wire
          \/ link[j] = "open" /\ wire' = [wire EXCEPT ![j] = Append(@, x)]
      BY DEF SendItem
    <3>2. QED
      BY <1>0, <3>1
  <2>2. QED
    BY <1>3, <1>4, <1>5, <2>1 DEF Advances, Routes, DestAnnounced
<1>7. \A d \in Clients : ended'[d] # ended[d] => d = c /\ link'[j] \in {"closing", "closed"}
  BY <1>0 DEF SendItem, Broken
<1>8. QED
  BY <1>1, <1>4, <1>6, <1>7

\* Both kinds of item are items.
LEMMA ItemIsItem == \A n \in Names : \A k \in {"REGISTER", "FRAME"} : Item(k, n) \in Items
BY DEF Item, Items

\* One lemma for each step of a process: registering without a gateway,
LEMMA InvUserLocally ==
    ASSUME IInv, NEW c \in Clients, NEW n \in Names, UserLocally(c, n)
    PROVE  IInv'
<1> USE DEF IInv
<1>1. Typed'
  BY DEF Typed, UserLocally, RegisterUser, relayVars
<1>2. Routes'
  BY QuietKeepsRoutes DEF UserLocally, Routes, Advances, AnnouncedAccepted, DestAnnounced
<1>3. ConnectingHasThread' /\ OneLiveConnection'
  BY TransportAssumption DEF UserLocally, RegisterUser, ConnectingHasThread, OneLiveConnection, Typed, AtPrompt
<1>4. QED
  BY <1>1, <1>2, <1>3 DEF Routes

\* dialing,
LEMMA InvUserDials ==
    ASSUME IInv, NEW c \in Clients, NEW n \in Names, NEW i \in Conns, UserDials(c, n, i)
    PROVE  IInv'
<1> USE DEF IInv
<1>1. Typed'
  BY DEF Typed, UserDials, RegisterUser, relayVars, LinkStates
<1>2. Routes'
  BY QuietKeepsRoutes DEF Typed, UserDials, Routes, Advances, AnnouncedAccepted, DestAnnounced
<1>3. ConnectingHasThread'
  BY TransportAssumption DEF UserDials, RegisterUser, ConnectingHasThread, Typed
<1>4. OneLiveConnection'
  BY TransportAssumption DEF UserDials, OneLiveConnection, Typed, AtPrompt
<1>5. QED
  BY <1>1, <1>2, <1>3, <1>4 DEF Routes

\* changing the name on the same connection,
LEMMA InvUserAgain ==
    ASSUME IInv, NEW c \in Clients, NEW n \in Names, UserAgain(c, n)
    PROVE  IInv'
<1> USE DEF IInv
<1>0. thread[c] \in Conns /\ Item("REGISTER", n) \in Items
  BY ItemIsItem DEF UserAgain, Typed
<1>e. /\ ended' \in [Clients -> BOOLEAN]
      /\ link' \in [Conns -> LinkStates]
      /\ wire' \in [Conns -> Seq(Items)]
      /\ \A i \in Conns : Advances(i)
      /\ \A i \in Conns : link'[i] \in {"dialing", "open"} => link'[i] = link[i]
      /\ \A d \in Clients : ended'[d] # ended[d] => d = c /\ link'[thread[c]] \in {"closing", "closed"}
  BY <1>0, SendItemEffect DEF UserAgain, Routes
<1>1. Typed'
  BY <1>e DEF Typed, UserAgain, RegisterUser, relayVars
<1>2. Routes'
  BY <1>e, QuietKeepsRoutes DEF UserAgain, Routes
<1>3. ConnectingHasThread'
  BY TransportAssumption DEF UserAgain, RegisterUser, ConnectingHasThread, Typed
<1>4. OneLiveConnection'
  BY <1>e DEF UserAgain, OneLiveConnection
<1>5. QED
  BY <1>1, <1>2, <1>3, <1>4 DEF Routes

\* the return of connect,
LEMMA InvConnectReturns ==
    ASSUME IInv, NEW c \in Clients, ConnectReturns(c)
    PROVE  IInv'
<1> USE DEF IInv
<1>0. thread[c] \in Conns /\ Item("REGISTER", user[c]) \in Items
  BY ItemIsItem DEF ConnectReturns, Typed, ConnectingHasThread
<1>e. /\ ended' \in [Clients -> BOOLEAN]
      /\ link' \in [Conns -> LinkStates]
      /\ wire' \in [Conns -> Seq(Items)]
      /\ \A i \in Conns : Advances(i)
      /\ \A i \in Conns : link'[i] \in {"dialing", "open"} => link'[i] = link[i]
      /\ \A d \in Clients : ended'[d] # ended[d] => d = c /\ link'[thread[c]] \in {"closing", "closed"}
  <2>1. CASE SendItem(c, Item("REGISTER", user[c]))
    BY <1>0, <2>1, SendItemEffect DEF ConnectReturns, Routes
  <2>2. CASE UNCHANGED <<ended, link, wire>>
    BY <2>2 DEF ConnectReturns, Routes, Advances, AnnouncedAccepted, DestAnnounced, Typed
  <2>3. QED
    BY <2>1, <2>2 DEF ConnectReturns
<1>1. Typed'
  BY <1>e DEF Typed, ConnectReturns, relayVars
<1>2. Routes'
  BY <1>e, QuietKeepsRoutes DEF ConnectReturns, Routes
<1>3. ConnectingHasThread'
  BY DEF ConnectReturns, ConnectingHasThread, Typed
<1>4. OneLiveConnection'
  BY <1>e DEF ConnectReturns, OneLiveConnection
<1>5. QED
  BY <1>1, <1>2, <1>3, <1>4 DEF Routes

\* its timeout,
LEMMA InvConnectTimesOut ==
    ASSUME IInv, NEW c \in Clients, ConnectTimesOut(c)
    PROVE  IInv'
<1> USE DEF IInv
<1>1. Typed'
  BY DEF Typed, ConnectTimesOut, relayVars
<1>2. Routes'
  BY QuietKeepsRoutes DEF ConnectTimesOut, Routes, Advances, AnnouncedAccepted, DestAnnounced
<1>3. ConnectingHasThread' /\ OneLiveConnection'
  BY DEF ConnectTimesOut, ConnectingHasThread, OneLiveConnection, Typed
<1>4. QED
  BY <1>1, <1>2, <1>3 DEF Routes

\* a frame sent,
LEMMA InvSendFrame ==
    ASSUME IInv, NEW c \in Clients, NEW n \in Names, SendFrame(c, n)
    PROVE  IInv'
<1> USE DEF IInv
<1>0. thread[c] \in Conns /\ Item("FRAME", n) \in Items
  BY ItemIsItem DEF SendFrame, Typed
<1>e. /\ ended' \in [Clients -> BOOLEAN]
      /\ link' \in [Conns -> LinkStates]
      /\ wire' \in [Conns -> Seq(Items)]
      /\ \A i \in Conns : Advances(i)
      /\ \A i \in Conns : link'[i] \in {"dialing", "open"} => link'[i] = link[i]
      /\ \A d \in Clients : ended'[d] # ended[d] => d = c /\ link'[thread[c]] \in {"closing", "closed"}
  BY <1>0, SendItemEffect DEF SendFrame, Routes
<1>1. Typed'
  <2>1. sent' \in [Clients -> 0 .. MaxFrames]
    BY TransportAssumption DEF SendFrame, Typed
  <2>2. QED
    BY <1>e, <2>1 DEF Typed, SendFrame, relayVars
<1>2. Routes'
  BY <1>e, QuietKeepsRoutes DEF SendFrame, Routes
<1>3. ConnectingHasThread'
  BY DEF SendFrame, ConnectingHasThread
<1>4. OneLiveConnection'
  BY <1>e DEF SendFrame, OneLiveConnection
<1>5. QED
  BY <1>1, <1>2, <1>3, <1>4 DEF Routes

\* /logout
LEMMA InvLogout ==
    ASSUME IInv, NEW c \in Clients, Logout(c)
    PROVE  IInv'
<1> USE DEF IInv
<1>1. Typed'
  BY DEF Typed, Logout, CloseLink, relayVars, LinkStates
<1>2. Routes'
  BY QuietKeepsRoutes DEF Typed, Logout, CloseLink, Routes, Advances, AnnouncedAccepted, DestAnnounced
<1>3. ConnectingHasThread'
  BY DEF Logout, AtPrompt, ConnectingHasThread, Typed
<1>4. OneLiveConnection'
  BY DEF Logout, AtPrompt, CloseLink, OneLiveConnection, Typed
<1>5. QED
  BY <1>1, <1>2, <1>3, <1>4 DEF Routes

\* and the end of the program keep the invariant.
LEMMA InvQuit ==
    ASSUME IInv, NEW c \in Clients, Quit(c)
    PROVE  IInv'
<1> USE DEF IInv
<1>1. Typed'
  BY DEF Typed, Quit, CloseLink, relayVars, LinkStates
<1>2. Routes'
  BY QuietKeepsRoutes DEF Typed, Quit, CloseLink, Routes, Advances, AnnouncedAccepted, DestAnnounced
<1>3. ConnectingHasThread'
  BY DEF Quit, ConnectingHasThread
<1>4. OneLiveConnection'
  BY TransportAssumption DEF Quit, CloseLink, OneLiveConnection, Typed
<1>5. QED
  BY <1>1, <1>2, <1>3, <1>4 DEF Routes

\* What the network does keeps it too: a refused dial,
LEMMA InvDialRefused ==
    ASSUME IInv, NEW i \in Conns, DialRefused(i)
    PROVE  IInv'
<1> USE DEF IInv
<1>1. Typed'
  BY DEF Typed, DialRefused, procVars, relayVars, LinkStates
<1>2. Routes'
  BY QuietKeepsRoutes DEF Typed, DialRefused, Routes, Advances, AnnouncedAccepted, DestAnnounced
<1>3. ConnectingHasThread' /\ OneLiveConnection'
  BY DEF DialRefused, procVars, ConnectingHasThread, OneLiveConnection, Typed
<1>4. QED
  BY <1>1, <1>2, <1>3 DEF Routes

\* a lost connection,
LEMMA InvLinkLost ==
    ASSUME IInv, NEW i \in Conns, LinkLost(i)
    PROVE  IInv'
<1> USE DEF IInv
<1>1. Typed'
  BY DEF Typed, LinkLost, procVars, relayVars, LinkStates
<1>2. Routes'
  BY QuietKeepsRoutes DEF Typed, LinkLost, Routes, Advances, AnnouncedAccepted, DestAnnounced
<1>3. ConnectingHasThread' /\ OneLiveConnection'
  BY DEF LinkLost, procVars, ConnectingHasThread, OneLiveConnection, Typed
<1>4. QED
  BY <1>1, <1>2, <1>3 DEF Routes

\* A non-empty beginning of a sequence of items begins as the sequence does.
LEMMA Beginning ==
    \A s \in Seq(Items) : \A k \in 1 .. Len(s) :
        /\ SubSeq(s, 1, k) \in Seq(Items) /\ SubSeq(s, 1, k) # << >>
        /\ Head(SubSeq(s, 1, k)) = Head(s)
<1> SUFFICES ASSUME NEW s \in Seq(Items), NEW k \in 1 .. Len(s)
             PROVE  /\ SubSeq(s, 1, k) \in Seq(Items) /\ SubSeq(s, 1, k) # << >>
                    /\ Head(SubSeq(s, 1, k)) = Head(s)
  OBVIOUS
<1>1. SubSeq(s, 1, k) \in Seq(Items) /\ Len(SubSeq(s, 1, k)) = k
  OBVIOUS
<1>2. SubSeq(s, 1, k)[1] = s[1]
  OBVIOUS
<1>3. QED
  BY <1>1, <1>2

\* and one the relay knows to be closed.
LEMMA InvLinkCloses ==
    ASSUME IInv, NEW i \in Conns, LinkCloses(i)
    PROVE  IInv'
<1> USE DEF IInv
<1>0. wire \in [Conns -> Seq(Items)] /\ link \in [Conns -> LinkStates]
  BY DEF Typed
<1>1. wire' \in [Conns -> Seq(Items)]
  <2>1. CASE wire' = [wire EXCEPT ![i] = << >>]
    BY <1>0, <2>1
  <2>2. CASE \E k \in 1 .. Len(wire[i]) : wire' = [wire EXCEPT ![i] = SubSeq(@, 1, k)]
    BY <1>0, <2>2, Beginning
  <2>3. QED
    BY <2>1, <2>2 DEF LinkCloses
<1>2. Typed'
  BY <1>1 DEF Typed, LinkCloses, procVars, relayVars, LinkStates
<1>3. \A j \in Conns : dest[j] # NoConn => wire'[j] # << >> /\ Head(wire'[j]) = Head(wire[j])
  <2>1. CASE dest[i] = NoConn
    BY <1>0, <2>1 DEF LinkCloses, DestAnnounced
  <2>2. CASE dest[i] # NoConn
    <3>1. PICK k \in 1 .. Len(wire[i]) : wire' = [wire EXCEPT ![i] = SubSeq(@, 1, k)]
      BY <2>2 DEF LinkCloses
    <3>2. wire'[i] # << >> /\ Head(wire'[i]) = Head(wire[i])
      BY <1>0, <3>1, Beginning
    <3>3. QED
      BY <1>0, <3>1, <3>2 DEF DestAnnounced
  <2>3. QED
    BY <2>1, <2>2
<1>4. Routes'
  <2>1. \A j \in Conns : Advances(j)
    BY <1>0, <1>3 DEF LinkCloses, Advances, AnnouncedAccepted
  <2>2. QED
    BY <2>1, QuietKeepsRoutes DEF LinkCloses, Routes
<1>5. ConnectingHasThread' /\ OneLiveConnection'
  BY DEF LinkCloses, procVars, ConnectingHasThread, OneLiveConnection, Typed
<1>6. QED
  BY <1>2, <1>4, <1>5 DEF Routes

\* The steps of a handler.  What it settles leaves a shorter wire.
LEMMA SettleEffect ==
    ASSUME Typed, NEW i \in Conns, wire[i] # << >>, Settle(i)
    PROVE  /\ wire' \in [Conns -> Seq(Items)]
           /\ dest' \in [Conns -> Conns \union {NoConn}]
           /\ Head(wire[i]) \in Items
           /\ dest'[i] = NoConn
           /\ \A j \in Conns \ {i} : wire'[j] = wire[j] /\ dest'[j] = dest[j]
<1>1. wire \in [Conns -> Seq(Items)] /\ wire[i] \in Seq(Items)
  BY DEF Typed
<1>2. Tail(wire[i]) \in Seq(Items) /\ Head(wire[i]) \in Items
  BY <1>1
<1>3. QED
  BY <1>1, <1>2 DEF Typed, Settle

\* Being accepted,
LEMMA InvDialOpens ==
    ASSUME IInv, NEW i \in Conns, DialOpens(i)
    PROVE  IInv'
<1> USE DEF IInv
<1>0. name[i] \in Names /\ link[i] = "dialing"
  BY DEF DialOpens, AnnouncedAccepted
<1>1. Typed'
  BY <1>0 DEF Typed, DialOpens, Announce, procVars, LinkStates
<1>2. RouteAnnounced'
  BY <1>0 DEF Typed, DialOpens, Announce, RouteAnnounced
<1>3. AnnouncedAccepted'
  BY <1>0 DEF Typed, DialOpens, Announce, AnnouncedAccepted, Broken
<1>4. DestAnnounced'
  <2>1. \A j \in Conns : dest[j] # NoConn => Head(wire[j]) \in Items
    BY DEF Typed, DestAnnounced
  <2>2. QED
    BY <1>0, <2>1 DEF Typed, DialOpens, Announce, DestAnnounced, Items
<1>5. FreedWhenBroken'
  <2>1. \A j \in Conns : Broken(j) => Broken(j)'
    BY <1>0 DEF Typed, DialOpens, Broken
  <2>2. /\ users' = [users EXCEPT ![name[i]] = i] /\ i # NoConn
        /\ announced' = [announced EXCEPT ![name[i]] = @ \union {i}]
    BY TransportAssumption DEF DialOpens, Announce
  <2>3. \A n \in Names : users'[n] = NoConn =>
            n # name[i] /\ users[n] = NoConn /\ announced'[n] = announced[n]
    BY <2>2 DEF Typed
  <2>4. QED
    BY <2>1, <2>3 DEF Typed, FreedWhenBroken
<1>6. RouteNotDangling'
  BY <1>0 DEF Typed, DialOpens, Announce, RouteNotDangling
<1>7. ConnectingHasThread' /\ OneLiveConnection'
  BY <1>0 DEF DialOpens, procVars, ConnectingHasThread, OneLiveConnection, Typed
<1>8. QED
  BY <1>1, <1>2, <1>3, <1>4, <1>5, <1>6, <1>7

\* REGISTER,
LEMMA InvHandleRegister ==
    ASSUME IInv, NEW i \in Conns, HandleRegister(i)
    PROVE  IInv'
<1> USE DEF IInv
<1> DEFINE n == Head(wire[i]).name
<1>0. /\ wire' \in [Conns -> Seq(Items)]
      /\ dest' \in [Conns -> Conns \union {NoConn}]
      /\ n \in Names
      /\ dest'[i] = NoConn
      /\ \A j \in Conns \ {i} : wire'[j] = wire[j] /\ dest'[j] = dest[j]
      /\ handler[i] = "loop"
      /\ handler' = handler /\ link' = link
  BY SettleEffect DEF HandleRegister, Reading, Items
<1>a. /\ users' = [users EXCEPT ![n] = i]
      /\ announced' = [announced EXCEPT ![n] = @ \union {i}]
      /\ latest' = [latest EXCEPT ![n] = i]
      /\ name' = [name EXCEPT ![i] = n]
  BY DEF HandleRegister, Announce
<1>k. link[i] = "open" \/ Broken(i)
  BY <1>0 DEF AnnouncedAccepted
<1> HIDE DEF n
<1>1. Typed'
  BY <1>0, <1>a DEF Typed, HandleRegister, procVars
<1>2. RouteAnnounced'
  BY <1>0, <1>a DEF Typed, RouteAnnounced
<1>3. AnnouncedAccepted'
  BY <1>0, <1>a, <1>k DEF Typed, AnnouncedAccepted, Broken
<1>4. DestAnnounced'
  <2>1. \A m \in Names : announced[m] \subseteq announced'[m]
    BY <1>0, <1>a DEF Typed
  <2>2. \A j \in Conns : dest[j] # NoConn => Head(wire[j]).name \in Names
    BY HeadIsItem DEF DestAnnounced
  <2>3. QED
    BY <1>0, <2>1, <2>2 DEF DestAnnounced
<1>5. FreedWhenBroken'
  BY <1>0, <1>a, TransportAssumption DEF Typed, FreedWhenBroken, Broken
<1>6. RouteNotDangling'
  BY <1>0, <1>a DEF Typed, RouteNotDangling
<1>7. ConnectingHasThread' /\ OneLiveConnection'
  BY <1>0 DEF HandleRegister, procVars, ConnectingHasThread, OneLiveConnection, Typed
<1>8. QED
  BY <1>1, <1>2, <1>3, <1>4, <1>5, <1>6, <1>7

\* A handler's step that leaves table, names and links alone, settles at most an
\* item and looks a destination up where it was announced, keeps the routes.
LEMMA SendingKeepsRoutes ==
    ASSUME Typed, Routes, NEW i \in Conns,
           UNCHANGED <<link, name, handler, users, announced>>,
           wire[i] # << >>,
           \A j \in Conns \ {i} : wire'[j] = wire[j] /\ dest'[j] = dest[j],
           dest'[i] # NoConn =>
               /\ wire'[i] # << >> /\ Head(wire'[i]).kind = "FRAME"
               /\ dest'[i] \in announced[Head(wire'[i]).name]
    PROVE  Routes'
BY DEF Routes, RouteAnnounced, AnnouncedAccepted, DestAnnounced, FreedWhenBroken,
       RouteNotDangling, Broken

\* looking an addressee up,
LEMMA InvLookUp ==
    ASSUME IInv, NEW i \in Conns, LookUp(i)
    PROVE  IInv'
<1> USE DEF IInv
<1>0. wire[i] # << >> /\ Head(wire[i]) \in Items /\ Head(wire[i]).name \in Names
  BY HeadIsItem DEF LookUp, Reading
<1>1. CASE users[Head(wire[i]).name] # NoConn
  <2>1. Typed'
    BY <1>0, <1>1 DEF Typed, LookUp, Settle, procVars
  <2>2. Routes'
    BY <1>0, <1>1, SendingKeepsRoutes
       DEF Typed, LookUp, Settle, Reading, Routes, RouteAnnounced
  <2>3. QED
    BY <2>1, <2>2 DEF Routes, LookUp, procVars, ConnectingHasThread, OneLiveConnection
<1>2. CASE users[Head(wire[i]).name] = NoConn
  <2>0. Settle(i)
    BY <1>2 DEF LookUp
  <2>1. Typed'
    BY <1>0, <2>0, SettleEffect DEF Typed, LookUp, procVars
  <2>2. Routes'
    BY <1>0, <2>0, SettleEffect, SendingKeepsRoutes DEF LookUp, Routes
  <2>3. QED
    BY <2>1, <2>2 DEF Routes, LookUp, procVars, ConnectingHasThread, OneLiveConnection
<1>3. QED
  BY <1>1, <1>2

\* a send that completes,
LEMMA InvSendCompletes ==
    ASSUME IInv, NEW i \in Conns, SendCompletes(i)
    PROVE  IInv'
<1> USE DEF IInv
<1>0. wire[i] # << >> /\ Settle(i)
  BY DEF SendCompletes, DestAnnounced
<1>1. box' \in [Conns -> Seq(Items)]
  <2>1. Head(wire[i]) \in Items /\ dest[i] \in Conns
    BY <1>0, SettleEffect DEF SendCompletes, Typed
  <2>2. Append(box[dest[i]], Head(wire[i])) \in Seq(Items)
    BY <2>1 DEF Typed
  <2>3. QED
    BY <2>1, <2>2 DEF Typed, SendCompletes
<1>2. Typed'
  BY <1>0, <1>1, SettleEffect DEF Typed, SendCompletes, procVars
<1>3. Routes'
  BY <1>0, SettleEffect, SendingKeepsRoutes DEF SendCompletes, Routes
<1>4. QED
  BY <1>2, <1>3 DEF Routes, SendCompletes, procVars, ConnectingHasThread, OneLiveConnection

\* a send that fails, which frees a name somebody who broke had taken,
LEMMA InvSendFails ==
    ASSUME IInv, NEW i \in Conns, SendFails(i)
    PROVE  IInv'
<1> USE DEF IInv
<1> DEFINE n == Head(wire[i]).name
<1>0. /\ wire[i] # << >> /\ Settle(i)
      /\ n \in Names /\ dest[i] \in announced[n] /\ Broken(dest[i])
      /\ dest[i] \in Conns
      /\ users' = [users EXCEPT ![n] = NoConn]
      /\ UNCHANGED <<procVars, link, name, handler, announced, latest, box, restarts>>
  <2>1. wire[i] # << >> /\ dest[i] \in announced[n] /\ dest[i] \in Conns
    BY DEF SendFails, DestAnnounced, Typed
  <2>2. QED
    BY <2>1, HeadIsItem DEF SendFails, Broken
<1> HIDE DEF n
<1>e. /\ wire' \in [Conns -> Seq(Items)]
      /\ dest' \in [Conns -> Conns \union {NoConn}]
      /\ dest'[i] = NoConn
      /\ \A j \in Conns \ {i} : wire'[j] = wire[j] /\ dest'[j] = dest[j]
  BY <1>0, SettleEffect
<1>1. Typed'
  BY <1>0, <1>e DEF Typed, procVars
<1>2. RouteAnnounced' /\ RouteNotDangling'
  BY <1>0, TransportAssumption DEF Typed, RouteAnnounced, RouteNotDangling
<1>3. AnnouncedAccepted'
  BY <1>0, <1>e DEF AnnouncedAccepted, Broken
<1>4. DestAnnounced'
  BY <1>0, <1>e DEF DestAnnounced
<1>5. FreedWhenBroken'
  BY <1>0 DEF Typed, FreedWhenBroken, Broken
<1>6. ConnectingHasThread' /\ OneLiveConnection'
  BY <1>0 DEF procVars, ConnectingHasThread, OneLiveConnection
<1>7. QED
  BY <1>1, <1>2, <1>3, <1>4, <1>5, <1>6

\* the end of the handler,
LEMMA InvHandlerEnds ==
    ASSUME IInv, NEW i \in Conns, HandlerEnds(i)
    PROVE  IInv'
<1> USE DEF IInv
<1>0. /\ name[i] \in Names /\ i \in announced[name[i]] /\ Broken(i)
      /\ handler' = [handler EXCEPT ![i] = "ended"]
      /\ UNCHANGED <<procVars, link, name, wire, dest, announced, latest, box, restarts>>
      /\ users' = IF users[name[i]] = i
                  THEN [users EXCEPT ![name[i]] = NoConn] ELSE users
  BY DEF HandlerEnds, AnnouncedAccepted, Broken
<1>1. Typed'
  BY <1>0 DEF Typed, procVars
<1>2. RouteAnnounced'
  BY <1>0, TransportAssumption DEF Typed, RouteAnnounced
<1>3. RouteNotDangling'
  BY <1>0, TransportAssumption DEF Typed, RouteNotDangling
<1>4. AnnouncedAccepted' /\ DestAnnounced'
  BY <1>0 DEF Typed, AnnouncedAccepted, DestAnnounced, Broken
<1>5. FreedWhenBroken'
  BY <1>0 DEF Typed, FreedWhenBroken, Broken
<1>6. ConnectingHasThread' /\ OneLiveConnection'
  BY <1>0 DEF procVars, ConnectingHasThread, OneLiveConnection
<1>7. QED
  BY <1>1, <1>2, <1>3, <1>4, <1>5, <1>6

\* and the end of the relay.
LEMMA InvRelayStops ==
    ASSUME IInv, RelayStops
    PROVE  IInv'
<1> USE DEF IInv
<1>1. Typed'
  BY TransportAssumption DEF Typed, RelayStops, procVars, LinkStates
<1>2. RouteAnnounced' /\ RouteNotDangling' /\ DestAnnounced'
  BY DEF RelayStops, RouteAnnounced, RouteNotDangling, DestAnnounced
<1>3. AnnouncedAccepted'
  BY DEF Typed, RelayStops, AnnouncedAccepted, Broken
<1>4. FreedWhenBroken'
  BY DEF Typed, RelayStops, FreedWhenBroken, AnnouncedAccepted, Broken
<1>5. ConnectingHasThread' /\ OneLiveConnection'
  BY DEF Typed, RelayStops, procVars, ConnectingHasThread, OneLiveConnection
<1>6. QED
  BY <1>1, <1>2, <1>3, <1>4, <1>5

\* The initial state has no route to lose.
LEMMA InvInit == Init => IInv
BY TransportAssumption DEF Init, IInv, Typed, LinkStates, RouteAnnounced,
   AnnouncedAccepted, DestAnnounced, FreedWhenBroken, ConnectingHasThread,
   RouteNotDangling, OneLiveConnection

\* Every step keeps the invariant.
LEMMA InvNext == IInv /\ [Next]_vars => IInv'
<1> SUFFICES ASSUME IInv, [Next]_vars PROVE IInv'
  OBVIOUS
<1>1. CASE UNCHANGED vars
  BY <1>1 DEF IInv, vars, procVars, relayVars, Typed, RouteAnnounced, AnnouncedAccepted,
     DestAnnounced, FreedWhenBroken, ConnectingHasThread, RouteNotDangling,
     OneLiveConnection, Broken
<1>2. ASSUME NEW c \in Clients, NEW n \in NamesOf[c],
             UserLocally(c, n) \/ UserAgain(c, n) \/ \E i \in Conns : UserDials(c, n, i)
      PROVE  IInv'
  <2>1. n \in Names
    BY TransportAssumption
  <2>2. QED
    BY <1>2, <2>1, InvUserLocally, InvUserAgain, InvUserDials
<1>3. ASSUME NEW c \in Clients, NEW n \in Names, SendFrame(c, n)
      PROVE  IInv'
  BY <1>3, InvSendFrame
<1>4. ASSUME NEW c \in Clients,
             ConnectReturns(c) \/ ConnectTimesOut(c) \/ Logout(c) \/ Quit(c)
      PROVE  IInv'
  BY <1>4, InvConnectReturns, InvConnectTimesOut, InvLogout, InvQuit
<1>5. ASSUME NEW i \in Conns,
             DialOpens(i) \/ DialRefused(i) \/ LinkLost(i) \/ LinkCloses(i) \/ Handle(i)
      PROVE  IInv'
  BY <1>5, InvDialOpens, InvDialRefused, InvLinkLost, InvLinkCloses, InvHandleRegister,
     InvLookUp, InvSendCompletes, InvSendFails, InvHandlerEnds DEF Handle
<1>6. CASE RelayStops
  BY <1>6, InvRelayStops
<1>7. QED
  BY <1>1, <1>2, <1>3, <1>4, <1>5, <1>6 DEF Next

\* The inductive invariant always holds.
THEOREM Invariance == Spec => []IInv
BY InvInit, InvNext, PTL DEF Spec

\* Every variable keeps its type, and a handler that awaits a send its frame.
THEOREM TypeCorrect == Spec => []TypeOK
<1>1. IInv => TypeOK
  BY DEF IInv, TypeOK, DestAnnounced
<1>2. QED
  BY <1>1, Invariance, PTL

\* No route to a connection whose handler is gone, but for a name given up.
THEOREM RouteNotDanglingHolds == Spec => []RouteNotDangling
<1>1. IInv => RouteNotDangling
  BY DEF IInv
<1>2. QED
  BY <1>1, Invariance, PTL

\* A process has one live connection at most: its thread's.
THEOREM OneLiveConnectionHolds == Spec => []OneLiveConnection
<1>1. IInv => OneLiveConnection
  BY DEF IInv
<1>2. QED
  BY <1>1, Invariance, PTL

\* A route to a connection that is not closed is given up for a later one that
\* announces the name, by a stop, or by a frame that fails at an earlier
\* connection of that name; never by the end of a handler.
THEOREM RouteKeptHolds == Spec => RouteKept
<1> DEFINE Kept(n) ==
        users[n] # NoConn /\ link[users[n]] # "closed" /\ users'[n] # users[n] =>
            \/ users'[n] # NoConn /\ users'[n] = latest'[n]
            \/ restarts' # restarts
            \/ LateFailure(n)
<1>1. ASSUME IInv, [Next]_vars, NEW n \in Names
      PROVE  Kept(n)
  <2>0. /\ users \in [Names -> Conns \union {NoConn}] /\ dest \in [Conns -> Conns \union {NoConn}]
        /\ latest \in [Names -> Conns \union {NoConn}] /\ restarts \in Nat
    BY <1>1 DEF IInv, Typed
  <2>1. ASSUME users' = users
        PROVE  Kept(n)
    BY <2>1
  <2>2. ASSUME NEW i \in Conns, NEW m \in Names, Announce(i, m)
        PROVE  Kept(n)
    BY <2>0, <2>2, TransportAssumption DEF Announce
  <2>3. ASSUME NEW i \in Conns, DialOpens(i)
        PROVE  Kept(n)
    <3>1. name[i] \in Names
      BY <1>1, <2>3 DEF IInv, AnnouncedAccepted, DialOpens
    <3>2. QED
      BY <2>2, <2>3, <3>1 DEF DialOpens
  <2>4. ASSUME NEW i \in Conns, HandleRegister(i)
        PROVE  Kept(n)
    <3>1. Head(wire[i]).name \in Names
      BY <1>1, <2>4, HeadIsItem DEF IInv, HandleRegister, Reading
    <3>2. QED
      BY <2>2, <2>4, <3>1 DEF HandleRegister
  <2>5. ASSUME NEW i \in Conns, SendFails(i)
        PROVE  Kept(n)
    <3>1. /\ dest[i] # NoConn /\ link[dest[i]] = "closed" /\ dest'[i] = NoConn
          /\ users'[n] # users[n] => n = Head(wire[i]).name
      BY <2>0, <2>5 DEF SendFails, Settle
    <3>2. QED
      BY <3>1 DEF LateFailure
  <2>6. ASSUME NEW i \in Conns, HandlerEnds(i)
        PROVE  Kept(n)
    BY <2>0, <2>6 DEF HandlerEnds
  <2>7. ASSUME RelayStops
        PROVE  Kept(n)
    BY <2>0, <2>7 DEF RelayStops
  <2>8. ASSUME NEW i \in Conns, Handle(i)
        PROVE  Kept(n)
    BY <2>1, <2>4, <2>5, <2>6, <2>8 DEF Handle, LookUp, SendCompletes
  <2>9. ASSUME UNCHANGED relayVars
        PROVE  Kept(n)
    BY <2>1, <2>9 DEF relayVars
  <2> HIDE DEF Kept
  <2>10. ASSUME NEW c \in Clients
         PROVE  /\ \A m \in Names : UserLocally(c, m) \/ UserAgain(c, m) \/ SendFrame(c, m) => Kept(n)
                /\ \A m \in Names : \A i \in Conns : UserDials(c, m, i) => Kept(n)
                /\ ConnectReturns(c) \/ ConnectTimesOut(c) \/ Logout(c) \/ Quit(c) => Kept(n)
    BY <2>9 DEF UserLocally, UserAgain, SendFrame, UserDials, ConnectReturns,
       ConnectTimesOut, Logout, Quit
  <2>11. ASSUME NEW i \in Conns, DialRefused(i) \/ LinkLost(i) \/ LinkCloses(i)
         PROVE  Kept(n)
    BY <2>9, <2>11 DEF DialRefused, LinkLost, LinkCloses
  <2>12. \A c \in Clients : NamesOf[c] \subseteq Names
    BY TransportAssumption
  <2>13. CASE UNCHANGED vars
    BY <2>9, <2>13 DEF vars
  <2>14. QED
    BY <1>1, <2>3, <2>7, <2>8, <2>10, <2>11, <2>12, <2>13 DEF Next
<1>2. IInv /\ [Next]_vars => [\A n \in Names : Kept(n)]_vars
  BY <1>1
<1>3. QED
  BY <1>2, Invariance, PTL DEF Spec, RouteKept

(***************************************************************************)
(* Every step of Transport is a step of Router or leaves its variables     *)
(* alone.                                                                  *)
(***************************************************************************)
BrokenConns == {i \in Conns : Broken(i)}

\* A step that breaks connections and shortens their wires breaks the Router's.
LEMMA BreakStep ==
    ASSUME Typed, UNCHANGED <<announced, box>>,
           \A i \in Conns : Broken(i) => Broken(i)',
           wire' \in [Conns -> Seq(Items)],
           \A i \in Conns : \/ wire'[i] = wire[i]
                            \/ /\ Broken(i)'
                               /\ \E k \in 0 .. Len(wire[i]) :
                                      wire'[i] = SubSeq(wire[i], 1, k)
    PROVE  Abstract!Break
<1>1. \A i \in Conns : wire[i] = SubSeq(wire[i], 1, Len(wire[i])) /\ Len(wire[i]) \in Nat
  <2>1. \A s \in Seq(Items) : s = SubSeq(s, 1, Len(s)) /\ Len(s) \in Nat
    OBVIOUS
  <2>2. QED
    BY <2>1 DEF Typed
<1>2. \A i \in Conns : \E k \in 0 .. Len(wire[i]) : wire'[i] = SubSeq(wire[i], 1, k)
  <2> SUFFICES ASSUME NEW i \in Conns
               PROVE  \E k \in 0 .. Len(wire[i]) : wire'[i] = SubSeq(wire[i], 1, k)
    OBVIOUS
  <2>1. CASE wire'[i] = wire[i]
    <3>1. Len(wire[i]) \in 0 .. Len(wire[i])
      BY <1>1
    <3>2. QED
      BY <1>1, <2>1, <3>1
  <2>2. QED
    BY <2>1
<1>3. BrokenConns \subseteq BrokenConns' /\ BrokenConns' \subseteq Conns
  BY DEF BrokenConns
<1>4. \A i \in Conns \ BrokenConns' : wire'[i] = wire[i]
  BY DEF BrokenConns
<1>5. QED
  BY <1>2, <1>3, <1>4 DEF Abstract!Break, BrokenConns

\* Sending an item puts it on the wire, breaks the connection, or is nothing.
LEMMA SendItemStep ==
    ASSUME IInv, NEW c \in Clients, NEW x \in Items, thread[c] \in Conns,
           SendItem(c, x), UNCHANGED <<announced, box>>
    PROVE  [Abstract!RouterNext]_(Abstract!routerVars)
<1> DEFINE j == thread[c]
<1>0. Typed
  BY DEF IInv
<1>1. CASE link[j] = "open" /\ wire' = [wire EXCEPT ![j] = Append(@, x)] /\ link' = link
  <2>1. ~ Broken(j)
    BY <1>1 DEF Broken
  <2>2. Abstract!Put(j, x)
    BY <1>1, <2>1 DEF Abstract!Put, Broken
  <2>3. QED
    BY <2>2 DEF Abstract!RouterNext
<1>2. CASE link[j] = "open" /\ wire' = wire /\ link' = [link EXCEPT ![j] = "closing"]
  <2>1. \A i \in Conns : Broken(i) => Broken(i)'
    BY <1>0, <1>2 DEF Typed, Broken
  <2>2. Abstract!Break
    BY <1>0, <1>2, <2>1, BreakStep DEF Typed
  <2>3. QED
    BY <2>2 DEF Abstract!RouterNext
<1>3. CASE UNCHANGED <<link, wire>>
  BY <1>3 DEF Abstract!routerVars, Broken
<1>4. QED
  BY <1>1, <1>2, <1>3 DEF SendItem

\* Steps of processes and of the network.
LEMMA ClientIsRouterStep ==
    ASSUME IInv, NEW c \in Clients,
           \/ \E n \in Names : \/ UserLocally(c, n)
                               \/ UserAgain(c, n)
                               \/ SendFrame(c, n)
                               \/ \E i \in Conns : UserDials(c, n, i)
           \/ ConnectReturns(c)
           \/ ConnectTimesOut(c)
           \/ Logout(c)
           \/ Quit(c)
    PROVE  [Abstract!RouterNext]_(Abstract!routerVars)
<1>0. Typed
  BY DEF IInv
<1>1. ASSUME NEW n \in Names, UserLocally(c, n) PROVE UNCHANGED Abstract!routerVars
  BY <1>1 DEF UserLocally, relayVars, Abstract!routerVars, Broken
<1>2. ASSUME NEW n \in Names, UserAgain(c, n)
      PROVE  [Abstract!RouterNext]_(Abstract!routerVars)
  BY <1>0, <1>2, ItemIsItem, SendItemStep DEF UserAgain, relayVars, Typed
<1>3. ASSUME NEW n \in Names, SendFrame(c, n)
      PROVE  [Abstract!RouterNext]_(Abstract!routerVars)
  BY <1>0, <1>3, ItemIsItem, SendItemStep DEF SendFrame, relayVars, Typed
<1>4. ASSUME NEW n \in Names, NEW i \in Conns, UserDials(c, n, i)
      PROVE  UNCHANGED Abstract!routerVars
  <2>1. \A j \in Conns : Broken(j)' <=> Broken(j)
    BY <1>0, <1>4 DEF UserDials, Broken, Typed
  <2>2. QED
    BY <1>4, <2>1 DEF UserDials, relayVars, Abstract!routerVars
<1>5. CASE ConnectReturns(c)
  <2>1. CASE SendItem(c, Item("REGISTER", user[c]))
    <3>1. thread[c] \in Conns /\ Item("REGISTER", user[c]) \in Items
      BY <1>0, <1>5, ItemIsItem DEF ConnectReturns, Typed, IInv, ConnectingHasThread
    <3>2. QED
      BY <1>5, <2>1, <3>1, SendItemStep DEF ConnectReturns, relayVars
  <2>2. CASE UNCHANGED <<ended, link, wire>>
    BY <1>5, <2>2 DEF ConnectReturns, relayVars, Abstract!routerVars, Broken
  <2>3. QED
    BY <1>5, <2>1, <2>2 DEF ConnectReturns
<1>6. CASE ConnectTimesOut(c)
  BY <1>6 DEF ConnectTimesOut, relayVars, Abstract!routerVars, Broken
<1>7. CASE Logout(c) \/ Quit(c)
  <2>1. \A j \in Conns : Broken(j) => Broken(j)'
    BY <1>0, <1>7 DEF Logout, Quit, CloseLink, Broken, Typed
  <2>2. UNCHANGED <<announced, box, wire>> /\ wire \in [Conns -> Seq(Items)]
    BY <1>0, <1>7 DEF Logout, Quit, relayVars, Typed
  <2>3. Abstract!Break
    BY <1>0, <2>1, <2>2, BreakStep
  <2>4. QED
    BY <2>3 DEF Abstract!RouterNext
<1>8. QED
  BY <1>1, <1>2, <1>3, <1>4, <1>5, <1>6, <1>7

LEMMA LinkIsRouterStep ==
    ASSUME IInv, NEW i \in Conns,
           DialOpens(i) \/ DialRefused(i) \/ LinkLost(i) \/ LinkCloses(i)
    PROVE  [Abstract!RouterNext]_(Abstract!routerVars)
<1>0. Typed
  BY DEF IInv
<1>1. CASE DialOpens(i)
  <2>1. \A j \in Conns : Broken(j)' <=> Broken(j)
    BY <1>0, <1>1 DEF DialOpens, Broken, Typed
  <2>2. Abstract!Join(i, name[i]) /\ name[i] \in Names
    BY <1>1, <2>1 DEF DialOpens, Announce, Abstract!Join, IInv, AnnouncedAccepted
  <2>3. QED
    BY <2>2 DEF Abstract!RouterNext
<1>2. CASE DialRefused(i)
  <2>1. \A j \in Conns : Broken(j)' <=> Broken(j)
    BY <1>0, <1>2 DEF DialRefused, Broken, Typed
  <2>2. QED
    BY <1>2, <2>1 DEF DialRefused, relayVars, Abstract!routerVars
<1>3. CASE LinkLost(i)
  <2>1. \A j \in Conns : Broken(j) => Broken(j)'
    BY <1>0, <1>3 DEF LinkLost, Broken, Typed
  <2>2. Abstract!Break
    BY <1>0, <1>3, <2>1, BreakStep DEF LinkLost, relayVars, Typed
  <2>3. QED
    BY <2>2 DEF Abstract!RouterNext
<1>4. CASE LinkCloses(i)
  <2>1. \A j \in Conns : (Broken(j) => Broken(j)') /\ Broken(i)'
    BY <1>0, <1>4 DEF LinkCloses, Broken, Typed
  <2>2. wire' \in [Conns -> Seq(Items)]
    BY <1>4, InvLinkCloses DEF IInv, Typed
  <2>3. \A s \in Seq(Items) : << >> = SubSeq(s, 1, 0) /\ Len(s) \in Nat
    OBVIOUS
  <2>4. \A j \in Conns : \/ wire'[j] = wire[j]
                         \/ /\ j = i
                            /\ \E k \in 0 .. Len(wire[j]) : wire'[j] = SubSeq(wire[j], 1, k)
    <3>1. CASE wire' = [wire EXCEPT ![i] = << >>]
      <4>1. wire'[i] = SubSeq(wire[i], 1, 0) /\ 0 \in 0 .. Len(wire[i])
        BY <1>0, <2>3, <3>1 DEF Typed
      <4>2. QED
        BY <1>0, <3>1, <4>1 DEF Typed
    <3>2. CASE \E k \in 1 .. Len(wire[i]) : wire' = [wire EXCEPT ![i] = SubSeq(@, 1, k)]
      <4>1. PICK k \in 1 .. Len(wire[i]) : wire' = [wire EXCEPT ![i] = SubSeq(@, 1, k)]
        BY <3>2
      <4>2. wire'[i] = SubSeq(wire[i], 1, k) /\ k \in 0 .. Len(wire[i])
        BY <1>0, <4>1 DEF Typed
      <4>3. QED
        BY <1>0, <4>1, <4>2 DEF Typed
    <3>3. QED
      BY <1>4, <3>1, <3>2 DEF LinkCloses
  <2>5. Abstract!Break
    BY <1>0, <1>4, <2>1, <2>2, <2>4, BreakStep DEF LinkCloses, relayVars
  <2>6. QED
    BY <2>5 DEF Abstract!RouterNext
<1>5. QED
  BY <1>1, <1>2, <1>3, <1>4

\* Steps of handlers.
LEMMA HandlerIsRouterStep ==
    ASSUME IInv, NEW i \in Conns, Handle(i)
    PROVE  [Abstract!RouterNext]_(Abstract!routerVars)
<1>0. Typed
  BY DEF IInv
<1>1. CASE HandleRegister(i)
  <2>1. Abstract!Rename(i)
    BY <1>1 DEF HandleRegister, Reading, Settle, Announce, Abstract!Rename, Abstract!Settle,
       Broken
  <2>2. QED
    BY <2>1 DEF Abstract!RouterNext
<1>2. CASE LookUp(i)
  <2>1. CASE wire' = wire
    BY <1>2, <2>1 DEF LookUp, Abstract!routerVars, Broken
  <2>2. CASE users[Head(wire[i]).name] = NoConn /\ Settle(i)
    <3>1. Head(wire[i]).name \in Names
      BY <1>0, <1>2, HeadIsItem DEF LookUp, Reading
    <3>2. \/ announced[Head(wire[i]).name] = {}
          \/ announced[Head(wire[i]).name] \intersect BrokenConns # {}
      BY <1>0, <2>2, <3>1 DEF IInv, FreedWhenBroken, BrokenConns, Typed
    <3>3. Abstract!Drop(i)
      BY <1>2, <2>2, <3>2 DEF LookUp, Reading, Settle, Abstract!Drop, Abstract!Settle,
         BrokenConns, Broken
    <3>4. QED
      BY <3>3 DEF Abstract!RouterNext
  <2>3. QED
    BY <1>2, <2>1, <2>2 DEF LookUp
<1>3. CASE SendCompletes(i) \/ SendFails(i)
  <2> DEFINE d == dest[i]
  <2>1. /\ wire[i] # << >> /\ Head(wire[i]).kind = "FRAME" /\ Settle(i)
        /\ d \in announced[Head(wire[i]).name] /\ d \in Conns
        /\ announced' = announced /\ link' = link
    BY <1>0, <1>3 DEF SendCompletes, SendFails, IInv, DestAnnounced, Typed
  <2>2. CASE box' = [box EXCEPT ![d] = Append(@, Head(wire[i]))] /\ link[d] = "open"
    <3>1. d \notin BrokenConns
      BY <2>2 DEF BrokenConns, Broken
    <3>2. Abstract!Hand(i, d)
      BY <2>1, <2>2, <3>1 DEF Settle, Abstract!Hand, Abstract!Settle, BrokenConns, Broken
    <3>3. QED
      BY <2>1, <3>2 DEF Abstract!RouterNext
  <2>3. CASE box' = box /\ Broken(d)
    <3>1. d \in announced[Head(wire[i]).name] \intersect BrokenConns
      BY <2>1, <2>3 DEF BrokenConns
    <3>2. Abstract!Drop(i)
      BY <2>1, <2>3, <3>1 DEF Settle, Abstract!Drop, Abstract!Settle, BrokenConns, Broken
    <3>3. QED
      BY <3>2 DEF Abstract!RouterNext
  <2>4. QED
    BY <1>3, <2>2, <2>3 DEF SendCompletes, SendFails, Broken
<1>4. CASE HandlerEnds(i)
  BY <1>4 DEF HandlerEnds, Abstract!routerVars, Broken
<1>5. QED
  BY <1>1, <1>2, <1>3, <1>4 DEF Handle

LEMMA StopIsRouterStep ==
    ASSUME IInv, RelayStops
    PROVE  [Abstract!RouterNext]_(Abstract!routerVars)
<1>0. Typed
  BY DEF IInv
<1>1. \A j \in Conns : Broken(j) => Broken(j)'
  BY <1>0 DEF RelayStops, Broken, Typed
<1>2. wire' \in [Conns -> Seq(Items)] /\ UNCHANGED <<announced, box>>
  BY DEF RelayStops
<1>3. \A j \in Conns : \/ wire'[j] = wire[j]
                       \/ /\ Broken(j)'
                          /\ \E k \in 0 .. Len(wire[j]) : wire'[j] = SubSeq(wire[j], 1, k)
  <2> SUFFICES ASSUME NEW j \in Conns, wire[j] # << >>
               PROVE  /\ Broken(j)'
                      /\ \E k \in 0 .. Len(wire[j]) : wire'[j] = SubSeq(wire[j], 1, k)
    BY DEF RelayStops
  <2>1. \A s \in Seq(Items) : << >> = SubSeq(s, 1, 0) /\ 0 \in 0 .. Len(s)
    OBVIOUS
  <2>2. link[j] = "open" \/ Broken(j)
    BY DEF IInv, AnnouncedAccepted
  <2>3. QED
    BY <1>0, <2>1, <2>2 DEF RelayStops, Broken, Typed
<1>4. QED
  BY <1>0, <1>1, <1>2, <1>3, BreakStep DEF RelayStops, Abstract!RouterNext

\* Frames are handed once, in order, only to who announced the addressee, and
\* dropped only if nobody did or somebody who did has gone.
THEOREM ImplementsRouterHolds == Spec => ImplementsRouter
<1>1. Init => Abstract!RouterInit
  BY DEF Init, Abstract!RouterInit, Broken
<1>2. IInv /\ [Next]_vars => [Abstract!RouterNext]_(Abstract!routerVars)
  <2> SUFFICES ASSUME IInv, [Next]_vars
               PROVE  [Abstract!RouterNext]_(Abstract!routerVars)
    OBVIOUS
  <2>1. CASE UNCHANGED vars
    BY <2>1 DEF vars, relayVars, Abstract!routerVars, Broken
  <2>2. CASE Next
    <3>1. \A c \in Clients : NamesOf[c] \subseteq Names
      BY TransportAssumption
    <3>2. QED
      BY <2>2, <3>1, ClientIsRouterStep, LinkIsRouterStep, HandlerIsRouterStep,
         StopIsRouterStep DEF Next
  <2>3. QED
    BY <2>1, <2>2
<1>3. QED
  BY <1>1, <1>2, Invariance, PTL DEF Spec, ImplementsRouter, Abstract!RouterSpec
=============================================================================
