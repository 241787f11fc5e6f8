------------------------ MODULE ClientThreadsProofs ------------------------
(***************************************************************************)
(* What TLAPS proves of ClientThreads: what processes still get right when *)
(* their two threads overlap inside the handlers.                          *)
(*                                                                         *)
(* TInv has four parts that a step may disturb: the wires and stores       *)
(* (WireInv, from MessengerProofs, which holds however the steps are cut), *)
(* what the threads hold (Holding), the private keys (KeysOnce) and the    *)
(* keys of the first session (FirstHasKey).  For each part one lemma says  *)
(* which changes leave it alone; the lemma of an action adds what that     *)
(* action does change.                                                     *)
(***************************************************************************)
EXTENDS ClientThreads, MessengerProofs, FiniteSetTheorems

ThreadRecords ==
    [at : Steps, peer : Users \union {NoUser}, key : Secret,
     pub : LocalKeys \union {NoKey}, private : LocalKeys \union {NoKey},
     answers : BOOLEAN, changed : BOOLEAN, left : SUBSET Pairs,
     size : 0 .. Cardinality(Pairs)]

OpTyped == op \in [Clients -> [Threads -> ThreadRecords]]

Holding == \A c \in Clients, t \in Threads : ThreadHolds(c, t)

\* There are finitely many pairs.
LEMMA PairsFinite == IsFiniteSet(Pairs) /\ Cardinality(Pairs) \in Nat
<1>1. Pairs \subseteq SUBSET Users
  BY DEF Pairs, PairKey
<1>2. IsFiniteSet(SUBSET Users)
  BY FiniteUsers, FS_SUBSET
<1>3. IsFiniteSet(Pairs)
  BY <1>1, <1>2, FS_Subset
<1>4. QED
  BY <1>3, FS_CardinalityType

\* The keys a process has made are keys.
LEMMA MadeAreKeys ==
    ASSUME KETypeOK, NEW c \in Clients
    PROVE  MadeKeys(c) \subseteq LocalKeys /\ NoKey \notin MadeKeys(c)
<1>1. MadeKeys(c) \subseteq LocalKeys
  BY BoundsAssumption DEF KETypeOK, MadeKeys, LocalKeys
<1>2. QED
  BY <1>1, KeysAssumption DEF KeyIds

\* The invariant is these parts,
LEMMA TParts ==
    TInv <=> WireInv /\ OpTyped /\ Holding /\ KeysOnce /\ FirstHasKey
<1>1. ASSUME WireInv, OpTyped, Holding, NEW c \in Clients, NEW t \in Threads
      PROVE  /\ op[c][t].at \in {"key", "record", "reply", "send"} => op[c][t].private # NoKey
             /\ op[c][t].at = "clear" => op[c][t].peer # NoUser
             /\ op[c][t].at = "keygen" => chan[c][Pair(c, t)] \in Live
  <2>1. ThreadHolds(c, t)
    BY <1>1 DEF Holding
  <2>2. NoKey \notin MadeKeys(c) /\ NoUser \notin Others(c)
    BY <1>1, MadeAreKeys, ClientsAreUsers DEF WireInv, TypeOK, ACTypeOK, Others
  <2>3. QED
    BY <2>1, <2>2 DEF ThreadHolds
<1>2. WireInv => TypeOK
  BY DEF WireInv
<1>3. WireInv /\ OpTyped /\ Holding => TTypeOK
  BY <1>1, <1>2 DEF TTypeOK, OpTyped, ThreadRecords
<1>4. TTypeOK => OpTyped
  BY DEF TTypeOK, OpTyped, ThreadRecords
<1>5. QED
  BY <1>3, <1>4 DEF TInv, Holding

\* also after a step.
LEMMA TPartsNext ==
    ASSUME WireInv', OpTyped', Holding', KeysOnce', FirstHasKey'
    PROVE  TInv'
<1>1. ASSUME NEW c \in Clients, NEW t \in Threads
      PROVE  /\ op'[c][t].at \in {"key", "record", "reply", "send"}
                    => op'[c][t].private # NoKey
             /\ op'[c][t].at = "clear" => op'[c][t].peer # NoUser
             /\ op'[c][t].at = "keygen" => chan'[c][Pair(c, t)'] \in Live
  <2>1. ThreadHolds(c, t)'
    BY <1>1 DEF Holding
  <2>2. keysMade'[c] \in 0 .. MaxKeys
    BY DEF WireInv, TypeOK, ACTypeOK, KETypeOK
  <2>3. MadeKeys(c)' \subseteq LocalKeys
    BY <2>2, BoundsAssumption DEF MadeKeys, LocalKeys
  <2>4. NoKey \notin MadeKeys(c)' /\ NoUser \notin Others(c)
    BY <2>3, KeysAssumption, ClientsAreUsers DEF KeyIds, Others
  <2>5. QED
    BY <2>1, <2>4 DEF ThreadHolds
<1>2. TTypeOK'
  BY <1>1 DEF TTypeOK, OpTyped, ThreadRecords, WireInv
<1>3. QED
  BY <1>2 DEF TInv, Holding

\* A thread at rest,
LEMMA IdleTyped == Idle \in ThreadRecords
BY PairsFinite DEF Idle, ThreadRecords, Steps, Secret

\* and one that moves on, is in a step with locals of the right kinds.
LEMMA GotoTyped ==
    ASSUME OpTyped, NEW c \in Clients, NEW t \in Threads, NEW o \in ThreadRecords,
           Goto(c, t, o)
    PROVE  /\ OpTyped'
           /\ \A d \in Clients, s \in Threads :
                  op'[d][s] = IF d = c /\ s = t THEN o ELSE op[d][s]
BY DEF OpTyped, Goto

\* A thread that does not move keeps what it holds, while keys are not unmade,
\* the channel it relies on stays live and nobody opens a session during /logout.
LEMMA HoldsStill ==
    ASSUME Grows, NEW c \in Clients, NEW t \in Threads, ThreadHolds(c, t),
           op'[c][t] = op[c][t],
           op[c][t].at \in {"offer", "keygen"} => chan'[c][Pair(c, t)] \in Live,
           op[c][t].at \in {"next", "clear", "close"} => ~ LoggedIn(c)' /\ logins'[c] # 0
    PROVE  ThreadHolds(c, t)'
<1> DEFINE o == op[c][t]
<1>1. Pair(c, t)' = Pair(c, t)
  BY DEF Pair
<1>2. MadeKeys(c) \subseteq MadeKeys(c)'
  BY DEF Grows
<1>3. o.peer \in Others(c) => MadeKeys(o.peer) \subseteq MadeKeys(o.peer)'
  BY ClientsAreUsers DEF Grows, Others
<1>4. o.at \in {"pop", "key"} => o.peer \in Others(c)
  BY DEF ThreadHolds
<1>5. QED
  BY <1>1, <1>2, <1>3, <1>4 DEF ThreadHolds, MadeKeys

\* Dropping keys and secrets, and moving threads that take no key, leaves the
\* private keys distinct.
LEMMA KeysOnceStill ==
    ASSUME KeysOnce,
           \A d \in Clients, q \in Pairs :
               /\ pendingKey'[d][q] \in {pendingKey[d][q], NoKey}
               /\ sessionKey'[d][q] \in {sessionKey[d][q], NoSecret},
           \A d \in Clients, s \in Threads : Taken(d, s)' =>
               /\ Taken(d, s) /\ op'[d][s].private = op[d][s].private
               /\ op'[d][s].at = "key" => op[d][s].at = "key",
           \A d \in Clients, s \in Threads : Taken(d, s) => op[d][s].private # NoKey
    PROVE  KeysOnce'
<1> SUFFICES ASSUME NEW d \in Clients
             PROVE  /\ \A p, q \in Pairs :
                          pendingKey'[d][p] # NoKey =>
                              /\ pendingKey'[d][p] \notin sessionKey'[d][q]
                              /\ pendingKey'[d][p] = pendingKey'[d][q] => p = q
                    /\ \A t \in Threads : Taken(d, t)' =>
                          /\ \A p \in Pairs :
                                 /\ pendingKey'[d][p] # op'[d][t].private
                                 /\ op'[d][t].at = "key"
                                        => op'[d][t].private \notin sessionKey'[d][p]
                          /\ \A s \in Threads :
                                 s # t /\ Taken(d, s)'
                                     => op'[d][s].private # op'[d][t].private
  BY DEF KeysOnce
<1>1. ASSUME NEW p \in Pairs, NEW q \in Pairs, pendingKey'[d][p] # NoKey
      PROVE  /\ pendingKey'[d][p] \notin sessionKey'[d][q]
             /\ pendingKey'[d][p] = pendingKey'[d][q] => p = q
  <2>1. pendingKey'[d][p] = pendingKey[d][p]
    BY <1>1
  <2>2. QED
    BY <1>1, <2>1 DEF KeysOnce, NoSecret
<1>2. ASSUME NEW t \in Threads, Taken(d, t)', NEW p \in Pairs
      PROVE  /\ pendingKey'[d][p] # op'[d][t].private
             /\ op'[d][t].at = "key" => op'[d][t].private \notin sessionKey'[d][p]
  <2>1. /\ Taken(d, t) /\ op'[d][t].private = op[d][t].private /\ op[d][t].private # NoKey
        /\ op'[d][t].at = "key" => op[d][t].at = "key"
    BY <1>2
  <2>2. /\ pendingKey[d][p] # op[d][t].private
        /\ op[d][t].at = "key" => op[d][t].private \notin sessionKey[d][p]
    BY <2>1 DEF KeysOnce
  <2>3. QED
    BY <2>1, <2>2 DEF NoSecret
<1>3. ASSUME NEW t \in Threads, Taken(d, t)', NEW s \in Threads, s # t, Taken(d, s)'
      PROVE  op'[d][s].private # op'[d][t].private
  <2>1. /\ Taken(d, t) /\ op'[d][t].private = op[d][t].private
        /\ Taken(d, s) /\ op'[d][s].private = op[d][s].private
    BY <1>3
  <2>2. QED
    BY <1>3, <2>1 DEF KeysOnce
<1>4. QED
  BY <1>1, <1>2, <1>3

\* A step keeps the keys of the first session if it begins none, and writes ACTIVE,
\* or sends a thread to write it, only where a key is stored.
LEMMA FirstStill ==
    ASSUME FirstHasKey,
           \A d \in Clients : /\ LoggedIn(d)' => logins'[d] # 0
                              /\ First(d)' => First(d),
           \A d \in Clients, q \in Pairs : First(d)' =>
               /\ \/ chan'[d][q] = "ACTIVE" => chan[d][q] = "ACTIVE"
                  \/ sessionKey'[d][q] # NoSecret
               /\ sessionKey[d][q] # NoSecret => sessionKey'[d][q] # NoSecret,
           \A d \in Clients, s \in Threads :
               First(d)' /\ op'[d][s].at = "record" =>
                   /\ Pair(d, s)' \in Pairs
                   /\ \/ op[d][s].at = "record" /\ Pair(d, s)' = Pair(d, s)
                      \/ sessionKey'[d][Pair(d, s)'] # NoSecret
    PROVE  FirstHasKey'
<1> SUFFICES ASSUME NEW d \in Clients, First(d)'
             PROVE  /\ \A p \in Pairs :
                           chan'[d][p] = "ACTIVE" => sessionKey'[d][p] # NoSecret
                    /\ \A t \in Threads : op'[d][t].at = "record"
                                          => sessionKey'[d][Pair(d, t)'] # NoSecret
  BY DEF FirstHasKey
<1>1. First(d)
  OBVIOUS
<1>2. ASSUME NEW p \in Pairs, chan'[d][p] = "ACTIVE"
      PROVE  sessionKey'[d][p] # NoSecret
  BY <1>1, <1>2 DEF FirstHasKey
<1>3. ASSUME NEW t \in Threads, op'[d][t].at = "record"
      PROVE  sessionKey'[d][Pair(d, t)'] # NoSecret
  BY <1>1, <1>3 DEF FirstHasKey
<1>4. QED
  BY <1>2, <1>3

-----------------------------------------------------------------------------
(***************************************************************************)
(* What the steps of the threads have in common.                           *)
(***************************************************************************)

\* The parts of the invariant, and what they say of a thread.
LEMMA ThreadFacts ==
    ASSUME TInv, NEW c \in Clients, NEW t \in Threads
    PROVE  /\ WireInv /\ ACTypeOK /\ KETypeOK /\ OpTyped
           /\ ThreadHolds(c, t) /\ op[c][t] \in ThreadRecords
           /\ op[c][t].at \notin {"idle", "dead", "next", "close"}
                  => op[c][t].peer \in Users /\ op[c][t].peer # c /\ Pair(c, t) \in Pairs
           /\ Taken(c, t) => op[c][t].private # NoKey
<1>1. WireInv /\ ACTypeOK /\ KETypeOK /\ OpTyped /\ ThreadHolds(c, t)
  BY TParts DEF Holding, WireInv, TypeOK, ACTypeOK
<1>2. op[c][t] \in ThreadRecords
  BY <1>1 DEF OpTyped
<1>3. ASSUME op[c][t].at \notin {"idle", "dead", "next", "close"}
      PROVE  op[c][t].peer \in Users /\ op[c][t].peer # c /\ Pair(c, t) \in Pairs
  <2>1. op[c][t].peer \in Others(c)
    BY <1>1, <1>3 DEF ThreadHolds
  <2>2. QED
    BY <2>1, UsersPair, ClientsAreUsers DEF Others, Pair
<1>4. Taken(c, t) => op[c][t].private # NoKey
  <2>1. Taken(c, t) => op[c][t].private \in MadeKeys(c)
    BY <1>1 DEF ThreadHolds, Taken
  <2>2. QED
    BY <1>1, <2>1, MadeAreKeys
<1>5. QED
  BY <1>1, <1>2, <1>3, <1>4

\* A thread's move keeps the invariant if it keeps the parts, the other threads
\* being where they were.
LEMMA ThreadMoves ==
    ASSUME TInv, WireInv', Grows, KeysOnce', FirstHasKey',
           NEW c \in Clients, NEW t \in Threads, NEW o \in ThreadRecords, Goto(c, t, o),
           ThreadHolds(c, t)', UNCHANGED logins,
           \A d \in Clients : LoggedIn(d)' => LoggedIn(d),
           \A d \in Clients, q \in Pairs :
               chan[d][q] \in Live => chan'[d][q] \in Live \/ (d = c /\ t = "main")
    PROVE  TInv'
<1>1. /\ OpTyped'
      /\ \A d \in Clients, s \in Threads :
             op'[d][s] = IF d = c /\ s = t THEN o ELSE op[d][s]
  BY GotoTyped, TParts
<1>2. ASSUME NEW d \in Clients, NEW s \in Threads, ~ (d = c /\ s = t)
      PROVE  ThreadHolds(d, s)'
  <2>1. ThreadHolds(d, s) /\ op'[d][s] = op[d][s]
    BY <1>1, <1>2, ThreadFacts
  <2>2. ASSUME op[d][s].at \in {"offer", "keygen"}
        PROVE  chan'[d][Pair(d, s)] \in Live
    <3>1. s = "main" /\ chan[d][Pair(d, s)] \in Live
      BY <2>1, <2>2 DEF ThreadHolds, Threads
    <3>2. Pair(d, s) \in Pairs
      BY <2>2, ThreadFacts
    <3>3. QED
      BY <1>2, <3>1, <3>2
  <2>3. op[d][s].at \in {"next", "clear", "close"} => ~ LoggedIn(d)' /\ logins'[d] # 0
    BY <2>1 DEF ThreadHolds
  <2>4. QED
    BY <2>1, <2>2, <2>3, HoldsStill
<1>3. Holding'
  BY <1>2 DEF Holding
<1>4. QED
  BY <1>1, <1>3, TPartsNext

\* Where no thread moves, no key is made or dropped and nothing is opened or
\* closed, the invariant rests on the wires.
LEMMA NobodyMoves ==
    ASSUME TInv, WireInv', Grows, UNCHANGED <<op, chan, sessionKey, pendingKey, logins>>,
           \A d \in Clients : LoggedIn(d)' <=> LoggedIn(d)
    PROVE  TInv'
<1>1. OpTyped' /\ KeysOnce'
  BY TParts DEF OpTyped, KeysOnce, Taken
<1>2. FirstHasKey'
  BY TParts DEF FirstHasKey, First, Pair
<1>3. Holding'
  <2> SUFFICES ASSUME NEW d \in Clients, NEW s \in Threads
               PROVE  ThreadHolds(d, s)'
    BY DEF Holding
  <2>1. ThreadHolds(d, s)
    BY ThreadFacts
  <2>2. QED
    BY <2>1, HoldsStill DEF ThreadHolds
<1>4. QED
  BY <1>1, <1>2, <1>3, TPartsNext

\* A move that takes no key and at most drops some leaves the keys distinct.
LEMMA KeysOnceMoved ==
    ASSUME TInv, NEW c \in Clients, NEW t \in Threads, NEW o \in ThreadRecords,
           Goto(c, t, o), o.at \notin {"key", "record"},
           \A d \in Clients, q \in Pairs :
               /\ pendingKey'[d][q] \in {pendingKey[d][q], NoKey}
               /\ sessionKey'[d][q] \in {sessionKey[d][q], NoSecret}
    PROVE  KeysOnce'
<1>1. \A d \in Clients, s \in Threads :
         op'[d][s] = IF d = c /\ s = t THEN o ELSE op[d][s]
  BY GotoTyped, TParts
<1>2. \A d \in Clients, s \in Threads : Taken(d, s)' =>
         /\ Taken(d, s) /\ op'[d][s].private = op[d][s].private
         /\ op'[d][s].at = "key" => op[d][s].at = "key"
  BY <1>1 DEF Taken
<1>3. \A d \in Clients, s \in Threads : Taken(d, s) => op[d][s].private # NoKey
  BY ThreadFacts
<1>4. QED
  BY <1>2, <1>3, KeysOnceStill, TParts

\* A thread that is not sent to write ACTIVE, when ACTIVE is not written either,
\* keeps the keys of the first session.
LEMMA FirstMoved ==
    ASSUME TInv, NEW c \in Clients, NEW t \in Threads, NEW o \in ThreadRecords,
           Goto(c, t, o), o.at # "record", UNCHANGED <<sessionKey, logins>>,
           \A d \in Clients : LoggedIn(d)' => LoggedIn(d),
           \A d \in Clients, q \in Pairs : chan'[d][q] = "ACTIVE" => chan[d][q] = "ACTIVE"
    PROVE  FirstHasKey'
<1>1. \A d \in Clients, s \in Threads :
         op'[d][s] = IF d = c /\ s = t THEN o ELSE op[d][s]
  BY GotoTyped, TParts
<1>2. \A d \in Clients : /\ LoggedIn(d)' => logins'[d] # 0
                         /\ First(d)' => First(d)
  BY TParts DEF FirstHasKey, First
<1>3. ASSUME NEW d \in Clients, NEW s \in Threads, op'[d][s].at = "record"
      PROVE  /\ op[d][s].at = "record" /\ Pair(d, s)' = Pair(d, s)
             /\ Pair(d, s)' \in Pairs
  <2>1. op'[d][s] = op[d][s] /\ op[d][s].at = "record"
    BY <1>1, <1>3
  <2>2. Pair(d, s)' = Pair(d, s)
    BY <2>1 DEF Pair
  <2>3. QED
    BY <2>1, <2>2, ThreadFacts
<1>4. QED
  BY <1>2, <1>3, FirstStill, TParts

\* A move that makes, takes and drops no key.
LEMMA QuietMove ==
    ASSUME TInv, WireInv', Grows,
           NEW c \in Clients, NEW t \in Threads, NEW o \in ThreadRecords, Goto(c, t, o),
           ThreadHolds(c, t)', o.at \notin {"key", "record"},
           UNCHANGED <<sessionKey, pendingKey, logins>>,
           \A d \in Clients : LoggedIn(d)' => LoggedIn(d),
           \A d \in Clients, q \in Pairs :
               /\ chan'[d][q] = "ACTIVE" => chan[d][q] = "ACTIVE"
               /\ chan[d][q] \in Live => chan'[d][q] \in Live \/ (d = c /\ t = "main")
    PROVE  TInv'
BY KeysOnceMoved, FirstMoved, ThreadMoves

\* A step that writes the controllers' stores only keeps what holds of the wires,
LEMMA StoreStep ==
    ASSUME WireInv, ACTypeOK', KeysOwned', Grows, UNCHANGED <<delivered, cliVars, netVars>>
    PROVE  WireInv'
<1>1. CommandLines /\ WiresGenuine /\ Links /\ DeliveredWasAccepted /\ ACTypeOK
  BY Parts DEF Controllers
<1>2. CommandLines' /\ Links'
  BY <1>1 DEF CommandLines, Links, cliVars, netVars
<1>3. WiresGenuine' /\ DeliveredWasAccepted'
  BY <1>1, WiresUnchanged, DeliveredStays DEF netVars
<1>4. QED
  BY <1>2, <1>3, PartsNext DEF Controllers

\* and so does one that sends a genuine frame besides, or drops what a batch had taken.
LEMMA SendStep ==
    ASSUME WireInv, ACTypeOK', KeysOwned', Grows,
           NEW c \in Clients, NEW f \in Genuine', Transmit(c, f),
           \/ UNCHANGED incoming
           \/ \E n \in 0 .. Len(incoming[c]) :
                  incoming' = [incoming EXCEPT ![c] = SubSeq(@, n + 1, Len(@))],
           UNCHANGED <<delivered, cliVars, connected, relayed, logins, dups, losses>>
    PROVE  WireInv'
<1>1. CommandLines /\ WiresGenuine /\ Links /\ DeliveredWasAccepted /\ ACTypeOK
  BY Parts DEF Controllers
<1>2. /\ uplink \in [Clients -> Seq(Genuine')]
      /\ incoming \in [Clients -> Seq(Genuine')]
      /\ \A d \in Clients : incoming[d] \in Seq(GenuineFor(d)')
      /\ relayed \subseteq Genuine'
  BY <1>1, WiresStay
<1>3. uplink' \in [Clients -> Seq(Genuine')] /\ ended' \subseteq Clients
  BY <1>1, <1>2, TransmitKeeps DEF Links
<1>4. /\ incoming' \in [Clients -> Seq(Genuine')]
      /\ \A d \in Clients : incoming'[d] \in Seq(GenuineFor(d)')
  <2>1. ASSUME NEW n \in 0 .. Len(incoming[c]),
               incoming' = [incoming EXCEPT ![c] = SubSeq(@, n + 1, Len(@))]
        PROVE  /\ incoming' \in [Clients -> Seq(Genuine')]
               /\ \A d \in Clients : incoming'[d] \in Seq(GenuineFor(d)')
    <3>1. /\ SubSeq(incoming[c], n + 1, Len(incoming[c])) \in Seq(Genuine')
          /\ SubSeq(incoming[c], n + 1, Len(incoming[c])) \in Seq(GenuineFor(c)')
      BY <1>2, <2>1, CutSeq
    <3>2. QED
      BY <1>2, <2>1, <3>1
  <2>2. QED
    BY <1>2, <2>1
<1>5. WiresGenuine' /\ DeliveredWasAccepted'
  BY <1>1, <1>2, <1>3, <1>4, DeliveredStays DEF WiresGenuine
<1>6. CommandLines' /\ Links'
  BY <1>1, <1>3 DEF CommandLines, Links, cliVars
<1>7. QED
  BY <1>5, <1>6, PartsNext DEF Controllers

-----------------------------------------------------------------------------
(***************************************************************************)
(* Main thread: a message.                                                 *)
(***************************************************************************)

\* The frame of a message is built with whatever key there is,
LEMMA TBuild ==
    ASSUME TInv, NEW c \in Threaded, NEW u \in Users, u # c, BuildMessage(c, u),
           activeSessions' \in [Clients -> SUBSET Users],
           knownUsers' \in [Clients -> SUBSET Users],
           \A d \in Clients : LoggedIn(d)' <=> LoggedIn(d)
    PROVE  TInv'
<1> DEFINE o == [Idle EXCEPT !.at = "validate", !.peer = u,
                             !.key = sessionKey[c][PairKey(c, u)]]
<1>1. c \in Clients /\ "main" \in Threads /\ c \in Users
  BY ThreadedAssumption, ClientsAreUsers DEF Threads
<1>2. WireInv /\ ACTypeOK /\ KETypeOK /\ OpTyped
  BY <1>1, ThreadFacts
<1>3. /\ Goto(c, "main", o)
      /\ UNCHANGED <<clock, storeVars, mailbox, historyVars, cliVars, netVars>>
  BY DEF BuildMessage
<1>4. sessionKey[c][PairKey(c, u)] \in Secret
  BY <1>1, <1>2, UsersPair DEF KETypeOK, Secret
<1>5. o \in ThreadRecords
  BY <1>4, IdleTyped DEF ThreadRecords, Steps
<1>6. o.at = "validate" /\ o.peer = u
  BY DEF Idle
<1> HIDE DEF o
<1>7. op'[c]["main"] = o
  BY <1>1, <1>2, <1>3, <1>5, GotoTyped
<1>8. Grows /\ KeysOwned'
  BY <1>2, <1>3, GrowsSame, KeysSame, Parts DEF storeVars, historyVars, Controllers
<1>9. ACTypeOK'
  BY <1>2, <1>3 DEF ACTypeOK, KETypeOK, storeVars, historyVars
<1>10. WireInv'
  BY <1>2, <1>3, <1>8, <1>9, StoreStep DEF historyVars
<1>11. ThreadHolds(c, "main")'
  BY <1>1, <1>6, <1>7 DEF ThreadHolds, Others
<1>12. QED
  BY <1>1, <1>3, <1>5, <1>6, <1>8, <1>10, <1>11, QuietMove DEF storeVars, netVars

\* for the name given to /msg
LEMMA TBeginMsg ==
    ASSUME TInv, NEW c \in Threaded, NEW u \in Others(c), BeginMsg(c, u)
    PROVE  TInv'
<1>1. c \in Clients /\ "main" \in Threads /\ u \in Users /\ u # c
  BY ThreadedAssumption DEF Threads, Others
<1>2. ACTypeOK /\ EnsureKnown(c, u) /\ BuildMessage(c, u)
  BY <1>1, ThreadFacts DEF BeginMsg
<1>3. QED
  BY <1>1, <1>2, EnsureKnownType, MeetsOthers, TBuild

\* or the target of the chat.
LEMMA TBeginFreeText ==
    ASSUME TInv, NEW c \in Threaded, BeginFreeText(c)
    PROVE  TInv'
<1> DEFINE u == chatTarget[c]
<1>1. c \in Clients /\ "main" \in Threads
  BY ThreadedAssumption DEF Threads
<1>2. ACTypeOK /\ CommandLines
  BY <1>1, ThreadFacts, Parts
<1>3. u \in Users /\ u # c /\ UNCHANGED sessionVars /\ BuildMessage(c, u)
  BY <1>1, <1>2 DEF BeginFreeText, CommandLines
<1> HIDE DEF u
<1>4. \A d \in Clients : LoggedIn(d)' <=> LoggedIn(d)
  BY <1>3 DEF sessionVars, LoggedIn, IsActive
<1>5. /\ activeSessions' \in [Clients -> SUBSET Users]
      /\ knownUsers' \in [Clients -> SUBSET Users]
  BY <1>2, <1>3 DEF sessionVars, ACTypeOK
<1>6. QED
  BY <1>3, <1>4, <1>5, TBuild

\* An accepted message goes out under the key its frame was built with.
LEMMA TSendHeld ==
    ASSUME TInv, NEW c \in Threaded, ValidateMessage(c), SendHeld(c)
    PROVE  TInv'
<1> DEFINE o == op[c]["main"]
           f == HeldFrame(c)
<1>1. c \in Clients /\ "main" \in Threads /\ c \in Users
  BY ThreadedAssumption, ClientsAreUsers DEF Threads
<1>2. /\ WireInv /\ ACTypeOK /\ KETypeOK /\ OpTyped
      /\ o.at = "validate" /\ o.peer \in Users /\ o.peer # c /\ o.key \in Secret
  BY <1>1, ThreadFacts DEF ValidateMessage, Doing, ThreadRecords
<1>3. /\ msgsMade[c] < MaxMsgs
      /\ msgsMade' = [msgsMade EXCEPT ![c] = @ + 1]
      /\ accepted' = [accepted EXCEPT ![c] = @ \union {Receipt(f)}]
      /\ Transmit(c, f)
      /\ Goto(c, "main", Idle)
      /\ UNCHANGED <<mailbox, delivered>>
  BY DEF SendHeld, Rest
<1>4. UNCHANGED <<clock, storeVars, sessionVars, cliVars, incoming, connected,
                  relayed, logins, dups, losses>>
  BY DEF ValidateMessage
<1>5. msgsMade[c] + 1 \in 1 .. MaxMsgs
  BY <1>1, <1>2, <1>3, BoundsAssumption DEF ACTypeOK
<1>6. /\ f \in Frames /\ f.type = "MESSAGE" /\ f.from = c /\ f.from # f.to
      /\ Receipt(f) \in Receipts
  BY <1>1, <1>2, <1>5
  DEF HeldFrame, MessageFrame, Frames, LocalNonces, Nonces, Receipt, Receipts, KETypeOK
<1> HIDE DEF f, o
<1>7. ACTypeOK'
  <2>1. /\ msgsMade' \in [Clients -> 0 .. MaxMsgs]
        /\ accepted' \in [Clients -> SUBSET Receipts]
    BY <1>1, <1>2, <1>3, <1>5, <1>6 DEF ACTypeOK
  <2>2. QED
    BY <1>2, <1>3, <1>4, <2>1 DEF ACTypeOK, KETypeOK, storeVars, sessionVars
<1>8. Grows /\ KeysOwned' /\ f \in Genuine'
  <2>1. Grows /\ Receipt(f) \in accepted'[c]
    BY <1>1, <1>2, <1>3, <1>4 DEF ACTypeOK, Grows, MadeKeys, storeVars
  <2>2. KeysOwned'
    BY <1>2, <1>4, KeysSame, Parts DEF Controllers, storeVars
  <2>3. QED
    BY <1>6, <2>1, <2>2 DEF Genuine
<1> HIDE DEF Genuine
<1>9. WireInv'
  BY <1>1, <1>2, <1>3, <1>4, <1>7, <1>8, SendStep
<1>10. op'[c]["main"] = Idle
  BY <1>1, <1>2, <1>3, IdleTyped, GotoTyped
<1>11. ThreadHolds(c, "main")'
  BY <1>10 DEF ThreadHolds, Idle
<1>12. Idle.at = "idle"
  BY DEF Idle
<1>13. \A d \in Clients : LoggedIn(d)' <=> LoggedIn(d)
  BY <1>4 DEF sessionVars, LoggedIn, IsActive
<1>14. QED
  BY <1>1, <1>3, <1>4, <1>8, <1>9, <1>11, <1>12, <1>13, IdleTyped, QuietMove DEF storeVars

\* A refused one is published, and may start a handshake.
LEMMA TRefuse ==
    ASSUME TInv, NEW c \in Threaded, ValidateMessage(c),
           SendVerdict(activeSessions[c], c, c, op[c]["main"].peer) # "MESSAGE_ACCEPTED"
    PROVE  TInv'
<1> DEFINE o == op[c]["main"]
           verdict == SendVerdict(activeSessions[c], c, c, o.peer)
<1>1. c \in Clients /\ "main" \in Threads /\ c \in Users
  BY ThreadedAssumption, ClientsAreUsers DEF Threads
<1>2. /\ WireInv /\ ACTypeOK /\ KETypeOK /\ OpTyped
      /\ o \in ThreadRecords /\ o.at = "validate" /\ o.peer \in Users /\ o.peer # c
  BY <1>1, ThreadFacts DEF ValidateMessage, Doing
<1>3. PICK n \in {Idle, [o EXCEPT !.at = "start"]} : Goto(c, "main", n)
  BY DEF ValidateMessage, Rest
<1>4. /\ Publish(c, c, verdict)
      /\ UNCHANGED <<clock, storeVars, sessionVars, historyVars, cliVars, netVars>>
  BY DEF ValidateMessage, netVars
<1>5. verdict \in NoticeCodes
  BY DEF SendVerdict, NoticeCodes
<1> HIDE DEF verdict
<1>6. ACTypeOK'
  <2>1. mailbox' \in [Clients -> [Users -> SUBSET NoticeCodes]]
    BY <1>1, <1>2, <1>4, <1>5, PublishType DEF ACTypeOK
  <2>2. QED
    BY <1>2, <1>4, <2>1 DEF ACTypeOK, KETypeOK, storeVars, sessionVars, historyVars
<1>7. Grows /\ KeysOwned'
  BY <1>2, <1>4, GrowsSame, KeysSame, Parts DEF storeVars, historyVars, Controllers
<1>8. WireInv'
  BY <1>2, <1>4, <1>6, <1>7, StoreStep DEF historyVars
<1>9. /\ n \in ThreadRecords
      /\ n.at = "idle" \/ (n.at = "start" /\ n.peer \in Others(c))
  BY <1>2, IdleTyped DEF ThreadRecords, Steps, Idle, Others
<1> HIDE DEF o
<1>10. op'[c]["main"] = n
  BY <1>1, <1>2, <1>3, <1>9, GotoTyped
<1>11. ThreadHolds(c, "main")'
  BY <1>1, <1>9, <1>10 DEF ThreadHolds
<1>12. \A d \in Clients : LoggedIn(d)' <=> LoggedIn(d)
  BY <1>4 DEF sessionVars, LoggedIn, IsActive
<1>13. QED
  BY <1>1, <1>3, <1>4, <1>7, <1>8, <1>9, <1>11, <1>12, QuietMove DEF storeVars, netVars

\* A message that was built is sent or refused.
LEMMA TValidate ==
    ASSUME TInv, NEW c \in Threaded, ValidateMessage(c)
    PROVE  TInv'
BY TSendHeld, TRefuse DEF ValidateMessage

-----------------------------------------------------------------------------
(***************************************************************************)
(* Main thread: a handshake.                                               *)
(***************************************************************************)

\* A step that changes the controllers' stores and somebody's chat keeps what holds
\* of the wires.
LEMMA ChatStep ==
    ASSUME WireInv, ACTypeOK', KeysOwned', Grows, UNCHANGED <<delivered, seenIds, netVars>>,
           chatTarget' \in [Clients -> Users \union {NoUser}],
           \A d \in Clients : chatTarget'[d] # d
    PROVE  WireInv'
<1>1. CommandLines /\ WiresGenuine /\ Links /\ DeliveredWasAccepted /\ ACTypeOK
  BY Parts DEF Controllers
<1>2. CommandLines' /\ Links'
  BY <1>1 DEF CommandLines, Links, netVars
<1>3. WiresGenuine' /\ DeliveredWasAccepted'
  BY <1>1, WiresUnchanged, DeliveredStays DEF netVars
<1>4. QED
  BY <1>2, <1>3, PartsNext DEF Controllers

\* /chat picks a target, and goes on to a handshake if there is no channel.
LEMMA TBeginChat ==
    ASSUME TInv, NEW c \in Threaded, NEW u \in Others(c), BeginChat(c, u)
    PROVE  TInv'
<1> DEFINE o == IF chan[c][PairKey(c, u)] \in Live THEN op[c]["main"]
                ELSE [Idle EXCEPT !.at = "start", !.peer = u]
<1>1. c \in Clients /\ "main" \in Threads /\ u \in Users /\ u # c
  BY ThreadedAssumption DEF Threads, Others
<1>2. /\ WireInv /\ ACTypeOK /\ KETypeOK /\ OpTyped /\ CommandLines
      /\ op[c]["main"] \in ThreadRecords /\ op[c]["main"].at = "idle"
  BY <1>1, ThreadFacts, Parts DEF BeginChat, Doing
<1>3. /\ EnsureKnown(c, u)
      /\ chatTarget' = [chatTarget EXCEPT ![c] = u]
      /\ UNCHANGED <<clock, storeVars, mailbox, historyVars, seenIds, netVars>>
  BY DEF BeginChat
<1>4. Goto(c, "main", o)
  BY <1>1, <1>2 DEF BeginChat, Goto, OpTyped
<1>5. /\ o \in ThreadRecords
      /\ o.at \in {"idle", "start"} /\ (o.at = "start" => o.peer = u)
  BY <1>1, <1>2, IdleTyped DEF ThreadRecords, Steps, Idle
<1> HIDE DEF o
<1>6. op'[c]["main"] = o
  BY <1>1, <1>2, <1>4, <1>5, GotoTyped
<1>7. Grows /\ KeysOwned'
  BY <1>2, <1>3, GrowsSame, KeysSame, Parts DEF storeVars, historyVars, Controllers
<1>8. ACTypeOK'
  BY <1>1, <1>2, <1>3, EnsureKnownType DEF ACTypeOK, KETypeOK, storeVars, historyVars
<1>9. WireInv'
  BY <1>1, <1>2, <1>3, <1>7, <1>8, ChatStep DEF historyVars, CommandLines
<1>10. ThreadHolds(c, "main")'
  BY <1>1, <1>5, <1>6 DEF ThreadHolds, Others
<1>11. \A d \in Clients : LoggedIn(d)' <=> LoggedIn(d)
  BY <1>1, <1>2, <1>3, MeetsOthers
<1>12. QED
  BY <1>1, <1>3, <1>4, <1>5, <1>7, <1>9, <1>10, <1>11, QuietMove DEF storeVars, netVars

\* The record says ESTABLISHING, whatever it said a step ago.
LEMMA TWriteEstablishing ==
    ASSUME TInv, NEW c \in Threaded, WriteEstablishing(c)
    PROVE  TInv'
<1> DEFINE o == [op[c]["main"] EXCEPT !.at = "offer"]
           p == Pair(c, "main")
<1>1. c \in Clients /\ "main" \in Threads
  BY ThreadedAssumption DEF Threads
<1>2. /\ WireInv /\ ACTypeOK /\ KETypeOK /\ OpTyped
      /\ op[c]["main"] \in ThreadRecords /\ p \in Pairs /\ ThreadHolds(c, "main")
      /\ op[c]["main"].at = "start" /\ op[c]["main"].peer \in Others(c)
  BY <1>1, ThreadFacts DEF WriteEstablishing, Doing, ThreadHolds
<1>3. /\ chan' = [chan EXCEPT ![c][p] = "ESTABLISHING"]
      /\ startedAt' = [startedAt EXCEPT ![c][p] = clock]
      /\ Goto(c, "main", o)
      /\ UNCHANGED <<clock, sessionKey, remoteFp, seenNonces, pendingKey, keysMade,
                     sessionVars, mailbox, historyVars, cliVars, netVars>>
  BY DEF WriteEstablishing
<1>4. o \in ThreadRecords /\ o.at = "offer" /\ o.peer = op[c]["main"].peer
  BY <1>2 DEF ThreadRecords, Steps
<1> HIDE DEF o, p
<1>5. op'[c]["main"] = o
  BY <1>1, <1>2, <1>3, <1>4, GotoTyped
<1>6. p = Pair(c, "main")'
  BY <1>4, <1>5 DEF Pair, p
<1>7. Grows /\ KeysOwned'
  BY <1>2, <1>3, GrowsSame, KeysSame, Parts DEF historyVars, Controllers
<1>8. ACTypeOK'
  BY <1>1, <1>2, <1>3
  DEF ACTypeOK, KETypeOK, ChannelStates, sessionVars, historyVars
<1>9. WireInv'
  BY <1>2, <1>3, <1>7, <1>8, StoreStep DEF historyVars
<1>10. ThreadHolds(c, "main")'
  BY <1>1, <1>2, <1>3, <1>4, <1>5, <1>6 DEF ThreadHolds, KETypeOK, Live
<1>11. \A d \in Clients : LoggedIn(d)' <=> LoggedIn(d)
  BY <1>3 DEF sessionVars, LoggedIn, IsActive
<1>12. \A d \in Clients, q \in Pairs :
          /\ chan'[d][q] = "ACTIVE" => chan[d][q] = "ACTIVE"
          /\ chan[d][q] \in Live => chan'[d][q] \in Live
  BY <1>1, <1>2, <1>3 DEF KETypeOK, Live
<1>13. QED
  BY <1>1, <1>3, <1>4, <1>7, <1>9, <1>10, <1>11, <1>12, QuietMove DEF netVars

\* A move that writes nothing but the thread's own place.
LEMMA MainMoves ==
    ASSUME TInv, NEW c \in Threaded, NEW o \in ThreadRecords, Goto(c, "main", o),
           o.at \notin {"key", "record"},
           UNCHANGED <<clock, acVars, cliVars, uplink, incoming, connected, relayed,
                       logins, dups, losses>>,
           ended' \in {ended, ended \union {c}},
           op'[c]["main"] = o => ThreadHolds(c, "main")'
    PROVE  TInv'
<1>1. c \in Clients /\ "main" \in Threads
  BY ThreadedAssumption DEF Threads
<1>2. /\ WireInv /\ OpTyped /\ ACTypeOK /\ KeysOwned
      /\ CommandLines /\ WiresGenuine /\ Links /\ DeliveredWasAccepted
  BY <1>1, ThreadFacts, Parts DEF Controllers
<1>3. WireInv'
  <2>1. Grows /\ KeysOwned' /\ ACTypeOK'
    BY <1>2, GrowsSame, KeysSame DEF acVars, keVars, ACTypeOK, KETypeOK
  <2>2. CommandLines' /\ Links'
    BY <1>1, <1>2 DEF CommandLines, Links, cliVars
  <2>3. WiresGenuine' /\ DeliveredWasAccepted'
    BY <1>2, <2>1, WiresUnchanged, DeliveredStays DEF acVars
  <2>4. QED
    BY <2>1, <2>2, <2>3, PartsNext DEF Controllers
<1>4. op'[c]["main"] = o
  BY <1>1, <1>2, GotoTyped
<1>5. UNCHANGED <<sessionKey, pendingKey, logins, chan, activeSessions, accepted, keysMade>>
  BY DEF acVars, keVars
<1>6. \A d \in Clients : LoggedIn(d)' <=> LoggedIn(d)
  BY <1>5 DEF LoggedIn, IsActive
<1>7. Grows
  BY <1>5, GrowsSame
<1>8. QED
  BY <1>1, <1>3, <1>4, <1>5, <1>6, <1>7, QuietMove

\* The channel was established between the two looks at it.
LEMMA TFoundLive ==
    ASSUME TInv, NEW c \in Threaded, FoundLive(c)
    PROVE  TInv'
<1> DEFINE o == [op[c]["main"] EXCEPT !.at = "offer"]
<1>1. c \in Clients /\ "main" \in Threads
  BY ThreadedAssumption DEF Threads
<1>2. /\ op[c]["main"] \in ThreadRecords /\ ThreadHolds(c, "main")
      /\ op[c]["main"].at = "start" /\ op[c]["main"].peer \in Others(c)
  BY <1>1, ThreadFacts DEF FoundLive, Doing, ThreadHolds
<1>3. o \in ThreadRecords /\ o.at = "offer" /\ o.peer = op[c]["main"].peer
  BY <1>2 DEF ThreadRecords, Steps
<1>4. chan[c][Pair(c, "main")] \in Live /\ Goto(c, "main", o) /\ UNCHANGED vars
  BY DEF FoundLive
<1> HIDE DEF o
<1>5. ASSUME op'[c]["main"] = o
      PROVE  ThreadHolds(c, "main")'
  <2>1. chan'[c][Pair(c, "main")'] \in Live
    BY <1>3, <1>4, <1>5 DEF Pair, vars, acVars, keVars
  <2>2. QED
    BY <1>1, <1>2, <1>3, <1>5, <2>1 DEF ThreadHolds
<1>6. QED
  BY <1>3, <1>4, <1>5, MainMoves DEF vars, netVars

\* An offer is suppressed, or a key is to be made.
LEMMA TCheckOffer ==
    ASSUME TInv, NEW c \in Threaded, CheckOffer(c)
    PROVE  TInv'
<1>1. c \in Clients /\ "main" \in Threads
  BY ThreadedAssumption DEF Threads
<1>2. /\ op[c]["main"] \in ThreadRecords /\ ThreadHolds(c, "main")
      /\ op[c]["main"].at = "offer" /\ op[c]["main"].peer \in Others(c)
      /\ chan[c][Pair(c, "main")] \in Live
  BY <1>1, ThreadFacts DEF CheckOffer, Doing, ThreadHolds
<1>3. PICK o \in {Idle, [op[c]["main"] EXCEPT !.at = "keygen"]} : Goto(c, "main", o)
  BY DEF CheckOffer, Rest
<1>4. /\ o \in ThreadRecords
      /\ \/ o.at = "idle"
         \/ o.at = "keygen" /\ o.peer = op[c]["main"].peer
  BY <1>2, IdleTyped DEF ThreadRecords, Steps, Idle
<1>5. /\ UNCHANGED <<clock, acVars, cliVars, uplink, incoming, connected, relayed,
                     logins, dups, losses>>
      /\ ended' \in {ended, ended \union {c}}
  BY DEF CheckOffer
<1>6. ASSUME op'[c]["main"] = o
      PROVE  ThreadHolds(c, "main")'
  <2>1. CASE o.at = "idle"
    BY <1>6, <2>1 DEF ThreadHolds
  <2>2. CASE o.at = "keygen" /\ o.peer = op[c]["main"].peer
    <3>1. chan'[c][Pair(c, "main")'] \in Live
      BY <1>2, <1>5, <1>6, <2>2 DEF Pair, acVars, keVars
    <3>2. QED
      BY <1>1, <1>2, <1>6, <2>2, <3>1 DEF ThreadHolds
  <2>3. QED
    BY <1>4, <2>1, <2>2
<1>7. QED
  BY <1>3, <1>4, <1>5, <1>6, MainMoves

\* A key about to be made is none of those there are.
LEMMA FreshIsNew ==
    ASSUME WireInv, NEW c \in Clients, CanMakeKey(c)
    PROVE  /\ FreshKey(c) \in LocalKeys /\ FreshKey(c) # NoKey
           /\ FreshKey(c) \notin MadeKeys(c)
           /\ \A q \in Pairs : /\ FreshKey(c) \notin sessionKey[c][q]
                              /\ FreshKey(c) # pendingKey[c][q]
<1>1. KeysOwned /\ KETypeOK
  BY Parts DEF Controllers, ACTypeOK
<1>2. FreshKey(c) \in LocalKeys /\ FreshKey(c) # NoKey
  BY <1>1, FreshKeyLocal, KeysAssumption DEF KeyIds
<1>3. FreshKey(c) \notin MadeKeys(c)
  <2>1. keysMade[c] \in Nat
    BY <1>1, BoundsAssumption DEF KETypeOK
  <2>2. QED
    BY <2>1 DEF FreshKey, MadeKeys
<1>4. ASSUME NEW q \in Pairs
      PROVE  FreshKey(c) \notin sessionKey[c][q]
  <2>1. CASE sessionKey[c][q] = NoSecret
    BY <2>1 DEF NoSecret
  <2>2. CASE sessionKey[c][q] # NoSecret
    <3>1. PICK d \in Others(c) : \E k \in MadeKeys(c), r \in MadeKeys(d) :
                                     sessionKey[c][q] = DeriveKey(k, r)
      BY <1>1, <2>2 DEF KeysOwned, SecretOf
    <3>2. FreshKey(c) \notin MadeKeys(d)
      BY <3>1 DEF FreshKey, MadeKeys, Others
    <3>3. QED
      BY <1>3, <3>1, <3>2 DEF DeriveKey
  <2>3. QED
    BY <2>1, <2>2
<1>5. \A q \in Pairs : FreshKey(c) # pendingKey[c][q]
  BY <1>1, <1>2, <1>3 DEF KeysOwned
<1>6. QED
  BY <1>2, <1>3, <1>4, <1>5

\* The keys of two processes differ.
LEMMA KeysApart ==
    ASSUME NEW c, NEW d \in Others(c), NEW k \in MadeKeys(c), NEW r \in MadeKeys(d)
    PROVE  k # r
BY DEF MadeKeys, Others

\* A new key put in the store of pending ones leaves the private keys distinct.
LEMMA KeysOnceOffered ==
    ASSUME TInv, NEW c \in Clients, NEW p \in Pairs, CanMakeKey(c),
           SetPendingKey(c, p, FreshKey(c)), UNCHANGED sessionKey,
           \A d \in Clients, s \in Threads : Taken(d, s)' => Taken(d, s) /\ op'[d][s] = op[d][s]
    PROVE  KeysOnce'
<1> DEFINE k == FreshKey(c)
<1>1. WireInv /\ KETypeOK /\ KeysOnce
  BY TParts DEF WireInv, TypeOK, ACTypeOK
<1>2. /\ k \notin MadeKeys(c)
      /\ \A q \in Pairs : k \notin sessionKey[c][q] /\ k # pendingKey[c][q]
  BY <1>1, FreshIsNew
<1>3. pendingKey' = [pendingKey EXCEPT ![c][p] = k]
  BY DEF SetPendingKey
<1> HIDE DEF k
<1>4. \A s \in Threads : Taken(c, s) => op[c][s].private # k
  <2>1. \A s \in Threads : Taken(c, s) => op[c][s].private \in MadeKeys(c)
    BY ThreadFacts DEF ThreadHolds, Taken
  <2>2. QED
    BY <1>2, <2>1
<1>5. ASSUME NEW d \in Clients, NEW q \in Pairs, NEW r \in Pairs,
             pendingKey'[d][q] # NoKey
      PROVE  /\ pendingKey'[d][q] \notin sessionKey'[d][r]
             /\ pendingKey'[d][q] = pendingKey'[d][r] => q = r
  <2>1. CASE d # c
    <3>1. pendingKey'[d] = pendingKey[d]
      BY <1>1, <1>3, <2>1 DEF KETypeOK
    <3>2. QED
      BY <1>1, <1>5, <3>1 DEF KeysOnce
  <2>2. CASE d = c
    <3>1. \A x \in Pairs : pendingKey'[c][x] = IF x = p THEN k ELSE pendingKey[c][x]
      BY <1>1, <1>3 DEF KETypeOK
    <3>2. QED
      BY <1>1, <1>2, <1>5, <2>2, <3>1 DEF KeysOnce
  <2>3. QED
    BY <2>1, <2>2
<1>6. ASSUME NEW d \in Clients, NEW t \in Threads, Taken(d, t)', NEW q \in Pairs
      PROVE  /\ pendingKey'[d][q] # op'[d][t].private
             /\ op'[d][t].at = "key" => op'[d][t].private \notin sessionKey'[d][q]
  <2>1. Taken(d, t) /\ op'[d][t] = op[d][t]
    BY <1>6
  <2>2. pendingKey'[d][q] \in {pendingKey[d][q], k} /\ (d # c => pendingKey'[d] = pendingKey[d])
    BY <1>1, <1>3 DEF KETypeOK
  <2>3. QED
    BY <1>1, <1>4, <2>1, <2>2 DEF KeysOnce
<1>7. ASSUME NEW d \in Clients, NEW t \in Threads, NEW s \in Threads,
             Taken(d, t)', Taken(d, s)', s # t
      PROVE  op'[d][s].private # op'[d][t].private
  BY <1>1, <1>7 DEF KeysOnce
<1>8. QED
  BY <1>5, <1>6, <1>7 DEF KeysOnce

\* The key pair of an offer is new.
LEMMA TMakeOffer ==
    ASSUME TInv, NEW c \in Threaded, MakeOffer(c)
    PROVE  TInv'
<1> DEFINE o == [op[c]["main"] EXCEPT !.at = "send", !.private = FreshKey(c)]
           p == Pair(c, "main")
<1>1. c \in Clients /\ "main" \in Threads
  BY ThreadedAssumption DEF Threads
<1>2. /\ WireInv /\ ACTypeOK /\ KETypeOK /\ OpTyped /\ KeysOwned
      /\ op[c]["main"] \in ThreadRecords /\ p \in Pairs
      /\ op[c]["main"].at = "keygen" /\ op[c]["main"].peer \in Others(c)
  BY <1>1, ThreadFacts, Parts DEF MakeOffer, Doing, ThreadHolds, Controllers
<1>3. /\ CanMakeKey(c) /\ GenerateKeypair(c) /\ SetPendingKey(c, p, FreshKey(c))
      /\ Goto(c, "main", o)
      /\ UNCHANGED <<clock, chan, startedAt, sessionKey, remoteFp, seenNonces,
                     sessionVars, mailbox, historyVars, cliVars, netVars>>
  BY DEF MakeOffer
<1>4. FreshKey(c) \in LocalKeys /\ FreshKey(c) # NoKey
  BY <1>1, <1>2, <1>3, FreshIsNew
<1>5. /\ o \in ThreadRecords /\ o.at = "send" /\ o.private = FreshKey(c)
      /\ o.peer = op[c]["main"].peer
  BY <1>2, <1>4 DEF ThreadRecords, Steps
<1> HIDE DEF o, p
<1>6. \A d \in Clients, s \in Threads :
         op'[d][s] = IF d = c /\ s = "main" THEN o ELSE op[d][s]
  BY <1>1, <1>2, <1>3, <1>5, GotoTyped
<1>7. FreshKey(c) \in MadeKeys(c)' /\ Grows
  BY <1>1, <1>2, <1>3, MadeGrow DEF Grows, historyVars
<1>8. ACTypeOK'
  BY <1>1, <1>2, <1>3, PendingType DEF ACTypeOK, KETypeOK, sessionVars, historyVars
<1>9. KeysOwned'
  <2>1. \A d \in Clients, q \in Pairs :
           pendingKey'[d][q] \in {pendingKey[d][q], NoKey} \union MadeKeys(d)'
    BY <1>1, <1>2, <1>3, <1>7 DEF SetPendingKey, KETypeOK
  <2>2. QED
    BY <1>2, <1>3, <1>7, <2>1, KeysOwnedStep
<1>10. WireInv'
  BY <1>2, <1>3, <1>7, <1>8, <1>9, StoreStep DEF historyVars
<1>11. KeysOnce'
  <2>1. \A d \in Clients, s \in Threads :
           Taken(d, s)' => Taken(d, s) /\ op'[d][s] = op[d][s]
    BY <1>5, <1>6 DEF Taken
  <2>2. QED
    BY <1>1, <1>2, <1>3, <2>1, KeysOnceOffered
<1>12. ThreadHolds(c, "main")'
  BY <1>1, <1>2, <1>5, <1>6, <1>7 DEF ThreadHolds
<1>13. \A d \in Clients : LoggedIn(d)' <=> LoggedIn(d)
  BY <1>3 DEF sessionVars, LoggedIn, IsActive
<1>14. FirstHasKey'
  BY <1>1, <1>3, <1>5, <1>13, FirstMoved DEF netVars
<1>15. QED
  BY <1>1, <1>3, <1>5, <1>7, <1>10, <1>11, <1>12, <1>13, <1>14, ThreadMoves DEF netVars

\* A thread that sends its public key rests, and the frame is genuine.
LEMMA TSendKey ==
    ASSUME TInv, NEW c \in Threaded, NEW t \in Threads,
           op[c][t].at \in {"send", "reply"},
           Transmit(c, HandshakeFrame(c, op[c][t].peer, op[c][t].private, clock)),
           \/ UNCHANGED incoming
           \/ \E n \in 0 .. Len(incoming[c]) :
                  incoming' = [incoming EXCEPT ![c] = SubSeq(@, n + 1, Len(@))],
           Rest(c, t),
           UNCHANGED <<clock, acVars, cliVars, connected, relayed, logins, dups, losses>>
    PROVE  TInv'
<1> DEFINE f == HandshakeFrame(c, op[c][t].peer, op[c][t].private, clock)
<1>1. c \in Clients /\ c \in Users
  BY ThreadedAssumption, ClientsAreUsers
<1>2. /\ WireInv /\ ACTypeOK /\ KETypeOK /\ OpTyped /\ KeysOwned
      /\ op[c][t].peer \in Others(c) /\ op[c][t].private \in MadeKeys(c)
  BY <1>1, ThreadFacts, Parts DEF ThreadHolds, Controllers
<1>3. Grows /\ KeysOwned' /\ ACTypeOK'
  BY <1>2, GrowsSame, KeysSame DEF acVars, keVars, ACTypeOK, KETypeOK
<1>4. WireInv'
  <2>1. op[c][t].private \in LocalKeys /\ op[c][t].private \in MadeKeys(c)'
    BY <1>1, <1>2, <1>3, MadeAreKeys DEF Grows
  <2>2. f \in Genuine'
    BY <1>1, <1>2, <2>1 DEF HandshakeFrame, Genuine, Frames, Others, KETypeOK
  <2>3. Transmit(c, f)
    OBVIOUS
  <2> HIDE DEF f, Genuine
  <2>4. QED
    BY <1>1, <1>2, <1>3, <2>2, <2>3, SendStep DEF acVars
<1>5. Idle.at = "idle" /\ Goto(c, t, Idle)
  BY DEF Idle, Rest
<1>6. op'[c][t] = Idle
  BY <1>1, <1>2, <1>5, IdleTyped, GotoTyped
<1>7. ThreadHolds(c, t)'
  BY <1>5, <1>6 DEF ThreadHolds
<1>8. \A d \in Clients : LoggedIn(d)' <=> LoggedIn(d)
  BY DEF acVars, LoggedIn, IsActive
<1>9. QED
  BY <1>1, <1>3, <1>4, <1>5, <1>7, <1>8, IdleTyped, QuietMove DEF acVars, keVars

\* An offer is sent with the key that was made for it.
LEMMA TSendOffer ==
    ASSUME TInv, NEW c \in Threaded, SendOffer(c)
    PROVE  TInv'
BY TSendKey DEF SendOffer, Doing, Threads

-----------------------------------------------------------------------------
(***************************************************************************)
(* Main thread: /logout.                                                   *)
(***************************************************************************)

\* A set of pairs is no larger than all of them.
LEMMA RecordsCounted ==
    ASSUME NEW R \in SUBSET Pairs
    PROVE  Cardinality(R) \in 0 .. Cardinality(Pairs)
<1>1. IsFiniteSet(R) /\ Cardinality(R) <= Cardinality(Pairs)
  BY PairsFinite, FS_Subset
<1>2. Cardinality(R) \in Nat
  BY <1>1, FS_CardinalityType
<1>3. QED
  BY <1>1, <1>2, PairsFinite

\* A move that writes neither keys nor wires.
LEMMA StoreMove ==
    ASSUME TInv, ACTypeOK', NEW c \in Threaded, NEW o \in ThreadRecords,
           Goto(c, "main", o), op'[c]["main"] = o => ThreadHolds(c, "main")',
           o.at \notin {"key", "record"},
           UNCHANGED <<sessionKey, pendingKey, keysMade, accepted, delivered, cliVars, netVars>>,
           \A d \in Clients : LoggedIn(d)' => LoggedIn(d),
           \A d \in Clients, q \in Pairs :
               /\ chan'[d][q] = "ACTIVE" => chan[d][q] = "ACTIVE"
               /\ chan[d][q] \in Live => chan'[d][q] \in Live \/ d = c
    PROVE  TInv'
<1>1. c \in Clients /\ "main" \in Threads
  BY ThreadedAssumption DEF Threads
<1>2. WireInv /\ OpTyped /\ KeysOwned
  BY <1>1, ThreadFacts, Parts DEF Controllers
<1>3. Grows /\ KeysOwned'
  BY <1>2, GrowsSame, KeysSame
<1>4. WireInv'
  BY <1>2, <1>3, StoreStep
<1>5. ThreadHolds(c, "main")'
  BY <1>1, <1>2, GotoTyped
<1>6. QED
  BY <1>1, <1>3, <1>4, <1>5, QuietMove DEF netVars

\* The session ends first,
LEMMA TBeginLogout ==
    ASSUME TInv, NEW c \in Threaded, BeginLogout(c)
    PROVE  TInv'
<1> DEFINE o == [Idle EXCEPT !.at = "next", !.left = Records(c),
                             !.size = Cardinality(Records(c))]
<1>1. c \in Clients /\ "main" \in Threads /\ c \in Users
  BY ThreadedAssumption, ClientsAreUsers DEF Threads
<1>2. ACTypeOK /\ LoggedIn(c) /\ logins[c] # 0
  BY <1>1, ThreadFacts, TParts DEF BeginLogout, FirstHasKey
<1>3. /\ activeSessions' = [activeSessions EXCEPT ![c] = @ \ {c}]
      /\ Goto(c, "main", o)
      /\ UNCHANGED <<clock, storeVars, knownUsers, mailbox, historyVars, cliVars, netVars>>
  BY DEF BeginLogout
<1>4. Records(c) \in SUBSET Pairs
  BY DEF Records
<1>5. o \in ThreadRecords /\ o.at = "next"
  BY <1>4, RecordsCounted, IdleTyped DEF ThreadRecords, Steps, Idle
<1> HIDE DEF o
<1>6. \A d \in Clients : LoggedIn(d)' <=> LoggedIn(d) /\ d # c
  BY <1>1, <1>2, <1>3 DEF LoggedIn, IsActive, ACTypeOK
<1>7. ASSUME op'[c]["main"] = o
      PROVE  ThreadHolds(c, "main")'
  BY <1>1, <1>2, <1>3, <1>5, <1>6, <1>7 DEF ThreadHolds, netVars
<1>8. ACTypeOK'
  BY <1>1, <1>2, <1>3 DEF ACTypeOK, KETypeOK, storeVars, historyVars
<1>9. QED
  BY <1>3, <1>5, <1>6, <1>7, <1>8, StoreMove DEF storeVars, historyVars

\* then each of its records, unless there are more than there were,
LEMMA TNextRecord ==
    ASSUME TInv, NEW c \in Threaded, NextRecord(c)
    PROVE  TInv'
<1> DEFINE o == op[c]["main"]
<1>1. c \in Clients /\ "main" \in Threads
  BY ThreadedAssumption DEF Threads
<1>2. /\ ACTypeOK /\ KETypeOK /\ o \in ThreadRecords /\ o.at = "next"
      /\ ~ LoggedIn(c) /\ logins[c] # 0 /\ o.left \subseteq Pairs
  BY <1>1, ThreadFacts DEF NextRecord, Doing, ThreadHolds, ThreadRecords
<1>3. UNCHANGED <<clock, startedAt, sessionKey, remoteFp, seenNonces, pendingKey,
                  keysMade, sessionVars, mailbox, historyVars, cliVars, netVars>>
  BY DEF NextRecord
<1>4. \A d \in Clients : LoggedIn(d)' <=> LoggedIn(d)
  BY <1>3 DEF sessionVars, LoggedIn, IsActive
<1>5. ASSUME NEW n \in ThreadRecords, n.at \in {"dead", "close", "next", "clear"},
             n.at = "clear" => n.peer \in Others(c), op'[c]["main"] = n
      PROVE  ThreadHolds(c, "main")'
  BY <1>1, <1>2, <1>3, <1>4, <1>5 DEF ThreadHolds, netVars
<1>6. ASSUME NEW n \in ThreadRecords, n.at \in {"dead", "close", "next", "clear"},
             n.at = "clear" => n.peer \in Others(c), Goto(c, "main", n),
             \/ UNCHANGED chan
             \/ \E p \in Pairs : chan' = [chan EXCEPT ![c][p] = "INVALID"]
      PROVE  TInv'
  <2>1. /\ chan' \in [Clients -> [Pairs -> ChannelStates]]
        /\ \A d \in Clients, q \in Pairs :
               chan'[d][q] = chan[d][q] \/ (d = c /\ chan'[d][q] = "INVALID")
    <3>1. CASE UNCHANGED chan
      BY <1>2, <3>1 DEF KETypeOK
    <3>2. ASSUME NEW p \in Pairs, chan' = [chan EXCEPT ![c][p] = "INVALID"]
          PROVE  /\ chan' \in [Clients -> [Pairs -> ChannelStates]]
                 /\ \A d \in Clients, q \in Pairs :
                        chan'[d][q] = chan[d][q] \/ (d = c /\ chan'[d][q] = "INVALID")
      BY <1>1, <1>2, <3>2 DEF KETypeOK, ChannelStates
    <3>3. QED
      BY <1>6, <3>1, <3>2
  <2>2. ACTypeOK'
    BY <1>2, <1>3, <2>1 DEF ACTypeOK, KETypeOK, sessionVars, historyVars
  <2>3. QED
    BY <1>3, <1>4, <1>5, <1>6, <2>1, <2>2, StoreMove DEF historyVars, Live
<1>7. CASE \/ Goto(c, "main", [Idle EXCEPT !.at = "dead"]) /\ UNCHANGED chan
           \/ Goto(c, "main", [Idle EXCEPT !.at = "close"]) /\ UNCHANGED chan
  <2>1. /\ [Idle EXCEPT !.at = "dead"] \in ThreadRecords
        /\ [Idle EXCEPT !.at = "close"] \in ThreadRecords
        /\ [Idle EXCEPT !.at = "dead"].at = "dead"
        /\ [Idle EXCEPT !.at = "close"].at = "close"
    BY IdleTyped DEF ThreadRecords, Steps, Idle
  <2>2. QED
    BY <1>6, <1>7, <2>1
<1>8. ASSUME NEW p \in o.left, c \in p, chan' = [chan EXCEPT ![c][p] = "INVALID"],
             NEW u \in p \ {c},
             Goto(c, "main", [o EXCEPT !.at = "clear", !.peer = u, !.left = @ \ {p}])
      PROVE  TInv'
  <2> DEFINE n == [o EXCEPT !.at = "clear", !.peer = u, !.left = @ \ {p}]
  <2>1. p \in Pairs /\ u \in Others(c)
    BY <1>2, <1>8 DEF Pairs, PairKey, Others
  <2>2. n \in ThreadRecords /\ n.at = "clear" /\ n.peer = u
    BY <1>2, <2>1 DEF ThreadRecords, Steps, Others
  <2> HIDE DEF n
  <2>3. Goto(c, "main", n)
    BY <1>8 DEF n
  <2>4. QED
    BY <1>6, <1>8, <2>1, <2>2, <2>3
<1>9. ASSUME NEW p \in o.left, UNCHANGED chan,
             Goto(c, "main", [o EXCEPT !.left = @ \ {p}])
      PROVE  TInv'
  <2> DEFINE n == [o EXCEPT !.left = @ \ {p}]
  <2>1. n \in ThreadRecords /\ n.at = "next"
    BY <1>2 DEF ThreadRecords
  <2> HIDE DEF n
  <2>2. Goto(c, "main", n)
    BY <1>9 DEF n
  <2>3. QED
    BY <1>6, <1>9, <2>1, <2>2
<1>10. QED
  BY <1>7, <1>8, <1>9 DEF NextRecord

\* whose keys go after its state,
LEMMA TClearStores ==
    ASSUME TInv, NEW c \in Threaded, ClearStores(c)
    PROVE  TInv'
<1> DEFINE p == Pair(c, "main")
           o == [op[c]["main"] EXCEPT !.at = "next", !.peer = NoUser]
<1>1. c \in Clients /\ "main" \in Threads
  BY ThreadedAssumption DEF Threads
<1>2. /\ WireInv /\ ACTypeOK /\ KETypeOK /\ OpTyped /\ KeysOwned
      /\ op[c]["main"] \in ThreadRecords /\ p \in Pairs
      /\ ~ LoggedIn(c) /\ logins[c] # 0
  BY <1>1, ThreadFacts, Parts DEF ClearStores, Doing, ThreadHolds, Controllers
<1>3. /\ sessionKey' = [sessionKey EXCEPT ![c][p] = NoSecret]
      /\ seenNonces' = [seenNonces EXCEPT ![c][p] = {}]
      /\ PopPendingKey(c, p)
      /\ Goto(c, "main", o)
      /\ UNCHANGED <<clock, chan, startedAt, remoteFp, keysMade, sessionVars, mailbox,
                     historyVars, cliVars, netVars>>
  BY DEF ClearStores
<1>4. o \in ThreadRecords /\ o.at = "next"
  BY <1>2 DEF ThreadRecords, Steps
<1> HIDE DEF o, p
<1>5. \A d \in Clients, q \in Pairs :
         /\ pendingKey'[d][q] \in {pendingKey[d][q], NoKey}
         /\ sessionKey'[d][q] \in {sessionKey[d][q], NoSecret}
         /\ d # c => sessionKey'[d][q] = sessionKey[d][q]
  BY <1>1, <1>2, <1>3 DEF KETypeOK, PopPendingKey, SetPendingKey
<1>6. Grows /\ KeysOwned'
  BY <1>2, <1>3, <1>5, GrowsSame, KeysOwnedStep DEF historyVars
<1>7. ACTypeOK'
  BY <1>1, <1>2, <1>3
  DEF ACTypeOK, KETypeOK, PopPendingKey, SetPendingKey, sessionVars, historyVars
<1>8. WireInv'
  BY <1>2, <1>3, <1>6, <1>7, StoreStep DEF historyVars
<1>9. \A d \in Clients : LoggedIn(d)' <=> LoggedIn(d)
  BY <1>3 DEF sessionVars, LoggedIn, IsActive
<1>10. \A d \in Clients, s \in Threads :
          op'[d][s] = IF d = c /\ s = "main" THEN o ELSE op[d][s]
  BY <1>1, <1>2, <1>3, <1>4, GotoTyped
<1>11. ThreadHolds(c, "main")'
  BY <1>1, <1>2, <1>3, <1>4, <1>9, <1>10 DEF ThreadHolds, netVars
<1>12. KeysOnce'
  BY <1>1, <1>3, <1>4, <1>5, KeysOnceMoved
<1>13. FirstHasKey'
  <2>1. FirstHasKey /\ UNCHANGED <<logins, chan>>
    BY <1>3, TParts DEF netVars
  <2>2. \A d \in Clients : /\ LoggedIn(d)' => logins'[d] # 0
                           /\ First(d)' => First(d) /\ d # c
    BY <1>2, <1>9, <2>1 DEF FirstHasKey, First
  <2>3. ASSUME NEW d \in Clients, NEW s \in Threads, First(d)', op'[d][s].at = "record"
        PROVE  /\ op[d][s].at = "record" /\ Pair(d, s)' = Pair(d, s)
               /\ Pair(d, s)' \in Pairs
    <3>1. op'[d][s] = op[d][s] /\ op[d][s].at = "record"
      BY <1>4, <1>10, <2>3
    <3>2. Pair(d, s)' = Pair(d, s)
      BY <3>1 DEF Pair
    <3>3. QED
      BY <3>1, <3>2, ThreadFacts
  <2>4. QED
    BY <1>5, <2>1, <2>2, <2>3, FirstStill
<1>14. QED
  BY <1>1, <1>3, <1>4, <1>6, <1>8, <1>9, <1>11, <1>12, <1>13, ThreadMoves DEF netVars

\* and the connection last.
LEMMA TCloseConnection ==
    ASSUME TInv, NEW c \in Threaded, CloseConnection(c)
    PROVE  TInv'
<1>1. c \in Clients /\ "main" \in Threads
  BY ThreadedAssumption DEF Threads
<1>2. /\ WireInv /\ ACTypeOK /\ OpTyped /\ KeysOwned
      /\ CommandLines /\ WiresGenuine /\ Links /\ DeliveredWasAccepted
  BY <1>1, ThreadFacts, Parts DEF Controllers
<1>3. /\ chatTarget' = [chatTarget EXCEPT ![c] = NoUser]
      /\ connected' = connected \ {c}
      /\ Goto(c, "main", Idle)
      /\ UNCHANGED <<clock, acVars, seenIds, uplink, relayed, logins, dups, ended, losses>>
  BY DEF CloseConnection, Rest
<1>4. Grows /\ KeysOwned' /\ ACTypeOK'
  BY <1>2, <1>3, GrowsSame, KeysSame DEF acVars, keVars, ACTypeOK, KETypeOK
<1>5. CommandLines' /\ Links'
  BY <1>2, <1>3, ClientsAreUsers DEF CommandLines, Links
<1>6. WiresGenuine'
  <2>1. PICK n \in 0 .. Len(incoming[c]) :
            incoming' = [incoming EXCEPT ![c] = SubSeq(@, 1, n)]
    BY DEF CloseConnection
  <2>2. /\ uplink' \in [Clients -> Seq(Genuine')]
        /\ incoming \in [Clients -> Seq(Genuine')]
        /\ \A d \in Clients : incoming[d] \in Seq(GenuineFor(d)')
        /\ relayed' \subseteq Genuine'
    BY <1>2, <1>3, <1>4, WiresStay
  <2>3. /\ SubSeq(incoming[c], 1, n) \in Seq(Genuine')
        /\ SubSeq(incoming[c], 1, n) \in Seq(GenuineFor(c)')
    BY <1>1, <2>2, CutSeq
  <2>4. QED
    BY <2>1, <2>2, <2>3 DEF WiresGenuine
<1>7. DeliveredWasAccepted'
  BY <1>2, <1>3, <1>4, DeliveredStays DEF acVars
<1>8. WireInv'
  BY <1>4, <1>5, <1>6, <1>7, PartsNext DEF Controllers
<1>9. Idle.at = "idle"
  BY DEF Idle
<1>10. ThreadHolds(c, "main")'
  <2>1. op'[c]["main"] = Idle
    BY <1>1, <1>2, <1>3, IdleTyped, GotoTyped
  <2>2. QED
    BY <1>9, <2>1 DEF ThreadHolds
<1>11. \A d \in Clients : LoggedIn(d)' <=> LoggedIn(d)
  BY <1>3 DEF acVars, LoggedIn, IsActive
<1>12. QED
  BY <1>1, <1>3, <1>4, <1>8, <1>9, <1>10, <1>11, IdleTyped, QuietMove DEF acVars, keVars

-----------------------------------------------------------------------------
(***************************************************************************)
(* Either thread: a handshake frame.                                       *)
(***************************************************************************)

\* A frame is taken from the queue, and what it brought is the sender's.
LEMMA TTakeHandshake ==
    ASSUME TInv, NEW c \in Threaded, NEW t \in Threads, TakeHandshake(c, t)
    PROVE  TInv'
<1> DEFINE f == Head(incoming[c])
           o == IF HandshakeHeeded(c, f)
                THEN [Idle EXCEPT !.at = "pop", !.peer = f.from, !.pub = f.pub]
                ELSE op[c][t]
<1>1. c \in Clients
  BY ThreadedAssumption
<1>2. /\ WireInv /\ ACTypeOK /\ OpTyped /\ KeysOwned
      /\ CommandLines /\ WiresGenuine /\ Links /\ DeliveredWasAccepted
      /\ op[c][t] \in ThreadRecords /\ op[c][t].at = "idle"
  BY <1>1, ThreadFacts, Parts DEF Controllers, TakeHandshake, CanDrain, Doing
<1>3. /\ incoming[c] # << >> /\ f.type = "HANDSHAKE_INIT"
      /\ incoming' = [incoming EXCEPT ![c] = Tail(incoming[c])]
      /\ AutoTarget(c, f.from)
      /\ UNCHANGED <<clock, acVars, seenIds, uplink, connected, relayed, logins,
                     dups, ended, losses>>
  BY DEF TakeHandshake, TakeFrame
<1>4. Goto(c, t, o)
  BY <1>1, <1>2 DEF TakeHandshake, Goto, OpTyped
<1>5. f \in Genuine /\ f.to = c /\ Tail(incoming[c]) \in Seq(GenuineFor(c))
  BY <1>1, <1>2, <1>3, HeadGenuine
<1>6. /\ f.from \in Users /\ f.from # c
      /\ f.pub \in LocalKeys /\ f.pub \in MadeKeys(f.from)
  BY <1>3, <1>5, GenuineParts
<1>7. /\ o \in ThreadRecords
      /\ \/ o.at = "idle"
         \/ o.at = "pop" /\ o.peer = f.from /\ o.pub = f.pub
  BY <1>2, <1>6, IdleTyped DEF ThreadRecords, Steps, Idle
<1> HIDE DEF f, o
<1>8. Grows /\ KeysOwned' /\ ACTypeOK' /\ UNCHANGED <<accepted, delivered>>
  BY <1>2, <1>3, GrowsSame, KeysSame DEF acVars, keVars, ACTypeOK, KETypeOK
<1>9. WireInv'
  <2>1. uplink' \in [Clients -> Seq(Genuine')]
    BY <1>2, <1>3, <1>8, WiresStay
  <2>2. WiresGenuine'
    BY <1>1, <1>2, <1>3, <1>5, <1>8, <2>1, WiresTaken
  <2>3. CommandLines' /\ Links'
    BY <1>1, <1>2, <1>3, <1>6, TargetType DEF CommandLines, Links
  <2>4. DeliveredWasAccepted'
    BY <1>2, <1>8, DeliveredStays
  <2>5. QED
    BY <1>8, <2>2, <2>3, <2>4, PartsNext DEF Controllers
<1>10. op'[c][t] = o
  BY <1>1, <1>2, <1>4, <1>7, GotoTyped
<1>11. PICK u, k : u \in Others(c) /\ u = f.from /\ k = f.pub /\ k \in MadeKeys(u)
  BY <1>6 DEF Others
<1>12. ThreadHolds(c, t)'
  <2>1. k \in MadeKeys(u)'
    BY <1>8, <1>11, ClientsAreUsers DEF Grows, Others
  <2>2. o.at = "pop" => o.peer = u /\ o.pub = k
    BY <1>7, <1>11
  <2>3. QED
    BY <1>1, <1>7, <1>10, <1>11, <2>1, <2>2 DEF ThreadHolds
<1>13. \A d \in Clients : LoggedIn(d)' <=> LoggedIn(d)
  BY <1>3 DEF acVars, LoggedIn, IsActive
<1>14. QED
  BY <1>1, <1>3, <1>4, <1>7, <1>8, <1>9, <1>12, <1>13, QuietMove DEF acVars, keVars

\* A thread takes a key that is in nobody else's hands.
LEMMA KeysOnceTaken ==
    ASSUME TInv, NEW c \in Clients, NEW t \in Threads, NEW o \in ThreadRecords,
           Goto(c, t, o), o.at = "key", UNCHANGED sessionKey,
           \A d \in Clients, q \in Pairs : pendingKey'[d][q] \in {pendingKey[d][q], NoKey},
           \A q \in Pairs : /\ pendingKey'[c][q] # o.private
                            /\ o.private \notin sessionKey[c][q],
           \A s \in Threads : Taken(c, s) => op[c][s].private # o.private
    PROVE  KeysOnce'
<1>1. \A d \in Clients, s \in Threads :
         op'[d][s] = IF d = c /\ s = t THEN o ELSE op[d][s]
  BY GotoTyped, TParts
<1>2. KeysOnce
  BY TParts
<1>3. ASSUME NEW d \in Clients, NEW q \in Pairs, NEW r \in Pairs,
             pendingKey'[d][q] # NoKey
      PROVE  /\ pendingKey'[d][q] \notin sessionKey'[d][r]
             /\ pendingKey'[d][q] = pendingKey'[d][r] => q = r
  BY <1>2, <1>3 DEF KeysOnce
<1>4. ASSUME NEW d \in Clients, NEW s \in Threads, Taken(d, s)', NEW q \in Pairs
      PROVE  /\ pendingKey'[d][q] # op'[d][s].private
             /\ op'[d][s].at = "key" => op'[d][s].private \notin sessionKey'[d][q]
  <2>1. CASE d = c /\ s = t
    BY <1>1, <2>1
  <2>2. CASE ~ (d = c /\ s = t)
    <3>1. op'[d][s] = op[d][s] /\ Taken(d, s)
      BY <1>1, <1>4, <2>2 DEF Taken
    <3>2. op[d][s].private # NoKey
      BY <3>1, ThreadFacts
    <3>3. QED
      BY <1>2, <3>1, <3>2 DEF KeysOnce
  <2>3. QED
    BY <2>1, <2>2
<1>5. ASSUME NEW d \in Clients, NEW s \in Threads, NEW r \in Threads,
             Taken(d, s)', Taken(d, r)', r # s
      PROVE  op'[d][r].private # op'[d][s].private
  <2>1. CASE d = c /\ s = t
    BY <1>1, <1>5, <2>1 DEF Taken
  <2>2. CASE d = c /\ r = t
    BY <1>1, <1>5, <2>2 DEF Taken
  <2>3. CASE ~ (d = c /\ s = t) /\ ~ (d = c /\ r = t)
    <3>1. op'[d][s] = op[d][s] /\ op'[d][r] = op[d][r] /\ Taken(d, s) /\ Taken(d, r)
      BY <1>1, <1>5, <2>3 DEF Taken
    <3>2. QED
      BY <1>2, <1>5, <3>1 DEF KeysOnce
  <2>4. QED
    BY <2>1, <2>2, <2>3
<1>6. QED
  BY <1>3, <1>4, <1>5 DEF KeysOnce

\* The pending key leaves its store, or a new one is made.
LEMMA TTakePending ==
    ASSUME TInv, NEW c \in Threaded, NEW t \in Threads, TakePending(c, t)
    PROVE  TInv'
<1> DEFINE p == Pair(c, t)
           mine == pendingKey[c][p]
<1>1. c \in Clients
  BY ThreadedAssumption
<1>2. /\ WireInv /\ ACTypeOK /\ KETypeOK /\ OpTyped /\ KeysOwned /\ KeysOnce
      /\ op[c][t] \in ThreadRecords /\ p \in Pairs
      /\ op[c][t].at = "pop" /\ op[c][t].peer \in Others(c)
      /\ op[c][t].pub \in MadeKeys(op[c][t].peer)
  BY <1>1, ThreadFacts, Parts, TParts DEF TakePending, Doing, ThreadHolds, Controllers
<1>3. /\ PopPendingKey(c, p)
      /\ UNCHANGED <<clock, chan, startedAt, sessionKey, remoteFp, seenNonces,
                     sessionVars, mailbox, historyVars, cliVars, netVars>>
  BY DEF TakePending
<1>4. PICK k, o :
          /\ \/ k = mine /\ mine # NoKey /\ UNCHANGED keysMade
             \/ k = FreshKey(c) /\ CanMakeKey(c) /\ GenerateKeypair(c)
          /\ Goto(c, t, o)
          /\ \/ o = [op[c][t] EXCEPT !.at = "key", !.private = k]
             \/ o = [op[c][t] EXCEPT !.at = "key", !.private = k, !.answers = TRUE]
  <2>1. CASE mine # NoKey
    BY <2>1 DEF TakePending
  <2>2. CASE mine = NoKey
    BY <2>2 DEF TakePending
  <2>3. QED
    BY <2>1, <2>2
<1>5. /\ \A d \in Clients, q \in Pairs :
             pendingKey'[d][q] = IF d = c /\ q = p THEN NoKey ELSE pendingKey[d][q]
      /\ pendingKey' \in [Clients -> [Pairs -> LocalKeys \union {NoKey}]]
  BY <1>1, <1>2, <1>3 DEF PopPendingKey, SetPendingKey, KETypeOK
<1>6. /\ Grows /\ k \in MadeKeys(c)'
      /\ keysMade' \in [Clients -> 0 .. MaxKeys]
  <2>1. CASE k = mine /\ mine # NoKey /\ UNCHANGED keysMade
    <3>1. Grows
      BY <1>3, <2>1, GrowsSame DEF historyVars
    <3>2. QED
      BY <1>1, <1>2, <2>1, <3>1 DEF KeysOwned, Grows, KETypeOK
  <2>2. CASE k = FreshKey(c) /\ CanMakeKey(c) /\ GenerateKeypair(c)
    <3>1. keysMade[c] + 1 \in 0 .. MaxKeys
      BY <1>1, <1>2, <2>2, FreshKeyLocal
    <3>2. QED
      BY <1>1, <1>2, <1>3, <2>2, <3>1, MadeGrow DEF Grows, historyVars, GenerateKeypair, KETypeOK
  <2>3. QED
    BY <1>4, <2>1, <2>2
<1>7. k \in LocalKeys /\ k # NoKey
  BY <1>1, <1>2, <1>4, FreshIsNew, KeysAssumption DEF KETypeOK, KeyIds
<1>8. /\ \A q \in Pairs : k \notin sessionKey[c][q] /\ pendingKey'[c][q] # k
      /\ \A s \in Threads : Taken(c, s) => op[c][s].private # k
  <2>1. CASE k = mine /\ mine # NoKey
    BY <1>1, <1>2, <1>5, <2>1 DEF KeysOnce
  <2>2. CASE k = FreshKey(c) /\ CanMakeKey(c)
    <3>1. /\ k \notin MadeKeys(c)
          /\ \A q \in Pairs : k \notin sessionKey[c][q] /\ k # pendingKey[c][q]
      BY <1>1, <1>2, <2>2, FreshIsNew
    <3>2. \A s \in Threads : Taken(c, s) => op[c][s].private \in MadeKeys(c)
      BY <1>1, ThreadFacts DEF ThreadHolds, Taken
    <3>3. QED
      BY <1>1, <1>5, <1>7, <3>1, <3>2
  <2>3. QED
    BY <1>4, <2>1, <2>2
<1>9. /\ o \in ThreadRecords /\ o.at = "key" /\ o.private = k
      /\ o.peer = op[c][t].peer /\ o.pub = op[c][t].pub
  BY <1>2, <1>4, <1>7 DEF ThreadRecords, Steps
<1>10. Goto(c, t, o)
  BY <1>4
<1> HIDE DEF p, mine
<1>11. ACTypeOK'
  BY <1>2, <1>3, <1>5, <1>6 DEF ACTypeOK, KETypeOK, sessionVars, historyVars
<1>12. KeysOwned'
  BY <1>2, <1>3, <1>5, <1>6, KeysOwnedStep
<1>13. WireInv'
  BY <1>2, <1>3, <1>6, <1>11, <1>12, StoreStep DEF historyVars
<1>14. KeysOnce'
  BY <1>1, <1>3, <1>5, <1>8, <1>9, <1>10, KeysOnceTaken
<1>15. ThreadHolds(c, t)'
  <2>1. op'[c][t] = o
    BY <1>1, <1>2, <1>9, <1>10, GotoTyped
  <2>2. o.pub \in MadeKeys(o.peer)'
    BY <1>2, <1>6, <1>9, ClientsAreUsers DEF Grows, Others
  <2>3. QED
    BY <1>1, <1>2, <1>6, <1>9, <2>1, <2>2 DEF ThreadHolds
<1>16. \A d \in Clients : LoggedIn(d)' <=> LoggedIn(d)
  BY <1>3 DEF sessionVars, LoggedIn, IsActive
<1>17. FirstHasKey'
  BY <1>1, <1>3, <1>9, <1>10, <1>16, FirstMoved DEF netVars
<1>18. QED
  BY <1>1, <1>3, <1>6, <1>9, <1>10, <1>13, <1>14, <1>15, <1>16, <1>17, ThreadMoves DEF netVars

\* The key made of the two halves is stored,
LEMMA TStoreKey ==
    ASSUME TInv, NEW c \in Threaded, NEW t \in Threads, StoreKey(c, t)
    PROVE  TInv'
<1>a. PICK p, k, r : p = Pair(c, t) /\ k = op[c][t].private /\ r = op[c][t].pub
  OBVIOUS
<1> DEFINE fp == Fingerprint(r)
           o == [op[c][t] EXCEPT !.at = "record", !.changed = KeyChanged(c, p, fp)]
<1>1. c \in Clients
  BY ThreadedAssumption
<1>2. /\ WireInv /\ ACTypeOK /\ KETypeOK /\ OpTyped /\ KeysOwned /\ KeysOnce
      /\ op[c][t] \in ThreadRecords /\ p \in Pairs /\ op[c][t].at = "key"
      /\ op[c][t].peer \in Others(c) /\ r \in MadeKeys(op[c][t].peer)
      /\ k \in MadeKeys(c) /\ Taken(c, t)
  BY <1>a, <1>1, ThreadFacts, Parts, TParts
  DEF StoreKey, Doing, ThreadHolds, Controllers, Taken
<1>3. /\ sessionKey' = [sessionKey EXCEPT ![c][p] = DeriveKey(k, r)]
      /\ remoteFp' = [remoteFp EXCEPT ![c][p] = fp]
      /\ seenNonces' = [seenNonces EXCEPT ![c][p] = {}]
      /\ Goto(c, t, o)
      /\ UNCHANGED <<clock, chan, startedAt, pendingKey, keysMade, sessionVars, mailbox,
                     historyVars, cliVars, netVars>>
  BY <1>a DEF StoreKey
<1>4. k \in KeyIds /\ r \in KeyIds /\ fp \in KeyIds
  BY <1>1, <1>2, MadeAreKeys, ClientsAreUsers DEF KeyIds, Others, Fingerprint
<1>5. DeriveKey(k, r) \in Secrets /\ DeriveKey(k, r) # NoSecret
  BY <1>4, SecretMade DEF DeriveKey, NoSecret
<1>6. /\ o \in ThreadRecords /\ o.at = "record" /\ o.private = k
      /\ o.peer = op[c][t].peer
  BY <1>a, <1>2 DEF ThreadRecords, Steps, KeyChanged
<1>7. p = PairKey(c, op[c][t].peer)
  BY <1>a DEF Pair
<1> HIDE DEF o, fp
<1>8. \A d \in Clients, s \in Threads :
         op'[d][s] = IF d = c /\ s = t THEN o ELSE op[d][s]
  BY <1>1, <1>2, <1>3, <1>6, GotoTyped
<1>9. \A d \in Clients, q \in Pairs :
         sessionKey'[d][q] = IF d = c /\ q = p THEN DeriveKey(k, r) ELSE sessionKey[d][q]
  BY <1>1, <1>2, <1>3 DEF KETypeOK
<1>10. Grows
  BY <1>3, GrowsSame DEF historyVars
<1>11. ACTypeOK'
  BY <1>1, <1>2, <1>3, <1>4, <1>5
  DEF ACTypeOK, KETypeOK, sessionVars, historyVars
<1>12. KeysOwned'
  <2>1. SecretOf(c, p)'
    <3>1. k \in MadeKeys(c)' /\ r \in MadeKeys(op[c][t].peer)
      BY <1>1, <1>2, <1>10 DEF Grows
    <3>2. PICK u \in Others(c) : p = PairKey(c, u) /\ r \in MadeKeys(u)
      BY <1>2, <1>7
    <3>3. r \in MadeKeys(u)'
      BY <1>10, <3>2, ClientsAreUsers DEF Grows, Others
    <3>4. sessionKey'[c][p] = DeriveKey(k, r)
      BY <1>1, <1>2, <1>9
    <3>5. QED
      BY <3>1, <3>2, <3>3, <3>4 DEF SecretOf
  <2>2. QED
    BY <1>2, <1>3, <1>9, <1>10, <2>1, KeysOwnedStep
<1>13. WireInv'
  BY <1>2, <1>3, <1>10, <1>11, <1>12, StoreStep DEF historyVars
<1>14. KeysOnce'
  <2>1. ASSUME NEW x \in MadeKeys(c), x # k
        PROVE  x \notin DeriveKey(k, r)
    BY <1>2, <2>1, KeysApart DEF DeriveKey
  <2>2. ASSUME NEW d \in Clients, NEW q \in Pairs, NEW w \in Pairs,
               pendingKey'[d][q] # NoKey
        PROVE  /\ pendingKey'[d][q] \notin sessionKey'[d][w]
               /\ pendingKey'[d][q] = pendingKey'[d][w] => q = w
    <3>1. pendingKey' = pendingKey /\ pendingKey[d][q] \in MadeKeys(d)
      BY <1>2, <1>3, <2>2 DEF KeysOwned
    <3>2. /\ pendingKey[d][q] \notin sessionKey[d][w]
          /\ pendingKey[d][q] = pendingKey[d][w] => q = w
          /\ d = c => pendingKey[d][q] # k
      BY <1>a, <1>2, <2>2, <3>1 DEF KeysOnce
    <3>3. QED
      BY <1>9, <2>1, <3>1, <3>2
  <2>3. ASSUME NEW d \in Clients, NEW s \in Threads, Taken(d, s)'
        PROVE  /\ Taken(d, s) /\ op'[d][s].private = op[d][s].private
               /\ op'[d][s].at = "key" => op[d][s].at = "key" /\ ~ (d = c /\ s = t)
    BY <1>a, <1>2, <1>6, <1>8, <2>3 DEF Taken
  <2>4. ASSUME NEW d \in Clients, NEW s \in Threads, Taken(d, s)', NEW q \in Pairs
        PROVE  /\ pendingKey'[d][q] # op'[d][s].private
               /\ op'[d][s].at = "key" => op'[d][s].private \notin sessionKey'[d][q]
    <3>1. /\ pendingKey' = pendingKey /\ pendingKey[d][q] # op[d][s].private
          /\ op[d][s].at = "key" => op[d][s].private \notin sessionKey[d][q]
      BY <1>2, <1>3, <2>3, <2>4 DEF KeysOnce
    <3>2. ASSUME d = c, s # t
          PROVE  op[d][s].private \in MadeKeys(c) /\ op[d][s].private # k
      BY <1>a, <1>2, <2>3, <2>4, <3>2, ThreadFacts DEF KeysOnce, ThreadHolds, Taken
    <3>3. QED
      BY <1>9, <2>1, <2>3, <2>4, <3>1, <3>2
  <2>5. ASSUME NEW d \in Clients, NEW s \in Threads, NEW x \in Threads,
               Taken(d, s)', Taken(d, x)', x # s
        PROVE  op'[d][x].private # op'[d][s].private
    BY <1>2, <2>3, <2>5 DEF KeysOnce
  <2>6. QED
    BY <2>2, <2>4, <2>5 DEF KeysOnce
<1>15. ThreadHolds(c, t)'
  <2>1. k \in MadeKeys(c)'
    BY <1>1, <1>2, <1>10 DEF Grows
  <2>2. o.private \in MadeKeys(c)'
    BY <1>6, <2>1
  <2>3. QED
    BY <1>1, <1>2, <1>6, <1>8, <2>2 DEF ThreadHolds
<1>16. \A d \in Clients : LoggedIn(d)' <=> LoggedIn(d)
  BY <1>3 DEF sessionVars, LoggedIn, IsActive
<1>17. FirstHasKey'
  <2>1. FirstHasKey /\ UNCHANGED <<logins, chan>>
    BY <1>3, TParts DEF netVars
  <2>2. \A d \in Clients : /\ LoggedIn(d)' => logins'[d] # 0
                           /\ First(d)' => First(d)
    BY <1>16, <2>1 DEF FirstHasKey, First
  <2>3. ASSUME NEW d \in Clients, NEW s \in Threads, op'[d][s].at = "record"
        PROVE  /\ Pair(d, s)' \in Pairs
               /\ \/ op[d][s].at = "record" /\ Pair(d, s)' = Pair(d, s)
                  \/ sessionKey'[d][Pair(d, s)'] # NoSecret
    <3>1. CASE d = c /\ s = t
      <4>1. Pair(d, s)' = p
        BY <1>6, <1>7, <1>8, <3>1 DEF Pair
      <4>2. QED
        BY <1>2, <1>5, <1>9, <3>1, <4>1
    <3>2. CASE ~ (d = c /\ s = t)
      <4>1. op'[d][s] = op[d][s] /\ op[d][s].at = "record"
        BY <1>8, <2>3, <3>2
      <4>2. Pair(d, s)' = Pair(d, s)
        BY <4>1 DEF Pair
      <4>3. QED
        BY <4>1, <4>2, ThreadFacts
    <3>3. QED
      BY <3>1, <3>2
  <2>4. \A d \in Clients, q \in Pairs :
           sessionKey[d][q] # NoSecret => sessionKey'[d][q] # NoSecret
    BY <1>5, <1>9
  <2>5. QED
    BY <2>1, <2>2, <2>3, <2>4, FirstStill
<1>18. QED
  BY <1>1, <1>3, <1>6, <1>10, <1>13, <1>14, <1>15, <1>16, <1>17, ThreadMoves DEF netVars

\* and only then does the record say ACTIVE.
LEMMA TStoreRecord ==
    ASSUME TInv, NEW c \in Threaded, NEW t \in Threads, StoreRecord(c, t)
    PROVE  TInv'
<1> DEFINE p == Pair(c, t)
<1>1. c \in Clients /\ c \in Users
  BY ThreadedAssumption, ClientsAreUsers
<1>2. /\ WireInv /\ ACTypeOK /\ KETypeOK /\ OpTyped /\ KeysOwned
      /\ op[c][t] \in ThreadRecords /\ p \in Pairs /\ op[c][t].at = "record"
      /\ op[c][t].peer \in Others(c) /\ op[c][t].private \in MadeKeys(c)
  BY <1>1, ThreadFacts, Parts DEF StoreRecord, Doing, ThreadHolds, Controllers
<1>3. /\ chan' = [chan EXCEPT ![c][p] = "ACTIVE"]
      /\ startedAt' = [startedAt EXCEPT ![c][p] = IF chan[c][p] = "NONE" THEN clock ELSE @]
      /\ Publish(c, c, "409_REMOTE_KEY_CHANGED") \/ UNCHANGED mailbox
      /\ UNCHANGED <<clock, sessionKey, remoteFp, seenNonces, pendingKey, keysMade,
                     sessionVars, historyVars, cliVars, netVars>>
  BY DEF StoreRecord
<1>4. PICK o \in {Idle, [op[c][t] EXCEPT !.at = "reply"]} : Goto(c, t, o)
  BY DEF StoreRecord, Rest
<1>5. /\ o \in ThreadRecords
      /\ \/ o.at = "idle"
         \/ o.at = "reply" /\ o.peer = op[c][t].peer /\ o.private = op[c][t].private
  BY <1>2, IdleTyped DEF ThreadRecords, Steps, Idle
<1>6. \A d \in Clients, s \in Threads :
         op'[d][s] = IF d = c /\ s = t THEN o ELSE op[d][s]
  BY <1>1, <1>2, <1>4, <1>5, GotoTyped
<1> HIDE DEF p
<1>7. \A d \in Clients, q \in Pairs :
         chan'[d][q] = IF d = c /\ q = p THEN "ACTIVE" ELSE chan[d][q]
  BY <1>1, <1>2, <1>3 DEF KETypeOK
<1>8. Grows /\ KeysOwned'
  BY <1>2, <1>3, GrowsSame, KeysSame DEF historyVars
<1>9. ACTypeOK'
  <2>1. mailbox' \in [Clients -> [Users -> SUBSET NoticeCodes]]
    BY <1>1, <1>2, <1>3, PublishType DEF ACTypeOK, NoticeCodes
  <2>2. /\ chan' \in [Clients -> [Pairs -> ChannelStates]]
        /\ startedAt' \in [Clients -> [Pairs -> 0 .. MaxClock]]
    BY <1>1, <1>2, <1>3 DEF KETypeOK, ChannelStates
  <2>3. QED
    BY <1>2, <1>3, <2>1, <2>2 DEF ACTypeOK, KETypeOK, sessionVars, historyVars
<1>10. WireInv'
  BY <1>2, <1>3, <1>8, <1>9, StoreStep DEF historyVars
<1>11. KeysOnce'
  BY <1>1, <1>3, <1>4, <1>5, KeysOnceMoved
<1>12. ThreadHolds(c, t)'
  <2>1. op[c][t].private \in MadeKeys(c)'
    BY <1>1, <1>2, <1>8 DEF Grows
  <2>2. o.at = "reply" => o.private \in MadeKeys(c)'
    BY <1>5, <2>1
  <2>3. QED
    BY <1>1, <1>2, <1>5, <1>6, <2>2 DEF ThreadHolds
<1>13. \A d \in Clients : LoggedIn(d)' <=> LoggedIn(d)
  BY <1>3 DEF sessionVars, LoggedIn, IsActive
<1>14. FirstHasKey'
  <2>1. FirstHasKey /\ UNCHANGED <<logins, sessionKey>>
    BY <1>3, TParts DEF netVars
  <2>2. \A d \in Clients : /\ LoggedIn(d)' => logins'[d] # 0
                           /\ First(d)' => First(d)
    BY <1>13, <2>1 DEF FirstHasKey, First
  <2>3. First(c) => sessionKey'[c][p] # NoSecret
    BY <1>1, <1>2, <2>1 DEF FirstHasKey, p
  <2>4. ASSUME NEW d \in Clients, NEW s \in Threads, op'[d][s].at = "record"
        PROVE  /\ op[d][s].at = "record" /\ Pair(d, s)' = Pair(d, s)
               /\ Pair(d, s)' \in Pairs
    <3>1. op'[d][s] = op[d][s] /\ op[d][s].at = "record"
      BY <1>5, <1>6, <2>4
    <3>2. Pair(d, s)' = Pair(d, s)
      BY <3>1 DEF Pair
    <3>3. QED
      BY <3>1, <3>2, ThreadFacts
  <2>5. QED
    BY <1>7, <2>1, <2>2, <2>3, <2>4, FirstStill
<1>15. \A d \in Clients, q \in Pairs : chan[d][q] \in Live => chan'[d][q] \in Live
  BY <1>7 DEF Live
<1>16. QED
  BY <1>1, <1>3, <1>4, <1>5, <1>8, <1>10, <1>11, <1>12, <1>13, <1>14, <1>15, ThreadMoves
  DEF netVars

\* The public half goes back; a polling thread that could not send it in time drops
\* what its batch had taken.
LEMMA TSendReply ==
    ASSUME TInv, NEW c \in Threaded, NEW t \in Threads, SendReply(c, t)
    PROVE  TInv'
<1>1. /\ op[c][t].at \in {"send", "reply"} /\ Rest(c, t)
      /\ Transmit(c, HandshakeFrame(c, op[c][t].peer, op[c][t].private, clock))
      /\ UNCHANGED <<clock, acVars, cliVars, connected, relayed, logins, dups, losses>>
  BY DEF SendReply, Doing
<1>2. c \in Clients /\ incoming \in [Clients -> Seq(Genuine)] /\ Len(incoming[c]) \in Nat
  <2>1. c \in Clients /\ WiresGenuine
    BY ThreadedAssumption, TParts, Parts DEF Controllers
  <2>2. incoming \in [Clients -> Seq(Genuine)]
    BY <2>1 DEF WiresGenuine
  <2>3. QED
    BY <2>1, <2>2, LenProperties
<1>3. \E n \in 0 .. Len(incoming[c]) :
          incoming' = [incoming EXCEPT ![c] = SubSeq(@, n + 1, Len(@))]
  <2>1. PICK m \in 0 .. IF t = "poll" THEN Len(incoming[c]) ELSE 0 :
                incoming' = [incoming EXCEPT ![c] = SubSeq(@, m + 1, Len(@))]
    BY DEF SendReply
  <2>2. m \in 0 .. Len(incoming[c])
    BY <1>2
  <2>3. QED
    BY <2>1, <2>2
<1>4. QED
  BY <1>1, <1>3, TSendKey

-----------------------------------------------------------------------------
(***************************************************************************)
(* Steps that are not cut.                                                 *)
(***************************************************************************)

\* A message, or a duplicate of one, moves no thread and no key.
LEMMA TDrainMessage ==
    ASSUME TInv, NEW c \in Clients, DrainDuplicate(c) \/ DrainMessage(c), UNCHANGED op
    PROVE  TInv'
<1>1. WireInv /\ ACTypeOK /\ WiresGenuine
  BY TParts, Parts DEF Controllers
<1>2. WireInv'
  BY <1>1, InvDrainDuplicate, InvDrainMessage
<1>3. CASE DrainDuplicate(c)
  <2>1. UNCHANGED <<acVars, logins>>
    BY <1>3 DEF DrainDuplicate
  <2>2. /\ UNCHANGED <<chan, sessionKey, pendingKey, accepted, keysMade, logins>>
        /\ \A d \in Clients : LoggedIn(d)' <=> LoggedIn(d)
    BY <2>1 DEF acVars, keVars, LoggedIn, IsActive
  <2>3. QED
    BY <1>2, <2>2, GrowsSame, NobodyMoves
<1>4. CASE DrainMessage(c)
  <2> DEFINE m == Head(incoming[c])
  <2>1. incoming[c] # << >> /\ EnsureKnown(c, m.from)
    BY <1>4 DEF DrainMessage, TakeFrame
  <2>2. UNCHANGED <<chan, sessionKey, pendingKey, accepted, keysMade, logins>>
    BY <1>4 DEF DrainMessage, DecryptMessage, keVars
  <2>3. m \in Genuine /\ m.to = c
    BY <1>1, <2>1, HeadGenuine
  <2>4. m.from \in Users /\ m.from # c
    BY <2>3, GenuineParts
  <2>5. \A d \in Clients : LoggedIn(d)' <=> LoggedIn(d)
    BY <1>1, <2>1, <2>4, MeetsOthers
  <2>6. QED
    BY <1>2, <2>2, <2>5, GrowsSame, NobodyMoves
<1>5. QED
  BY <1>3, <1>4

\* A whole step of one process, whose main thread is between two commands, keeps the
\* invariant if it keeps the wires and the private keys, writes ACTIVE only with a
\* key, and leaves the other processes alone.
LEMMA WholeMoves ==
    ASSUME TInv, WireInv', Grows, KeysOnce', UNCHANGED op,
           NEW c \in Clients, op[c]["main"].at = "idle",
           \A d \in Clients : d # c =>
               /\ chan'[d] = chan[d] /\ sessionKey'[d] = sessionKey[d]
               /\ logins'[d] = logins[d] /\ (LoggedIn(d)' <=> LoggedIn(d)),
           LoggedIn(c)' => logins'[c] # 0,
           First(c)' => First(c),
           \A q \in Pairs : First(c)' =>
               /\ \/ chan'[c][q] = "ACTIVE" => chan[c][q] = "ACTIVE"
                  \/ sessionKey'[c][q] # NoSecret
               /\ sessionKey[c][q] # NoSecret => sessionKey'[c][q] # NoSecret
    PROVE  TInv'
<1>1. OpTyped' /\ FirstHasKey
  BY TParts DEF OpTyped
<1>2. Holding'
  <2> SUFFICES ASSUME NEW d \in Clients, NEW s \in Threads
               PROVE  ThreadHolds(d, s)'
    BY DEF Holding
  <2>1. ThreadHolds(d, s)
    BY ThreadFacts
  <2>2. CASE d # c
    BY <2>1, <2>2, HoldsStill DEF ThreadHolds
  <2>3. CASE d = c
    <3>1. op[d][s].at \notin {"offer", "keygen", "next", "clear", "close"}
      BY <2>1, <2>3 DEF ThreadHolds, Threads
    <3>2. QED
      BY <2>1, <3>1, HoldsStill
  <2>4. QED
    BY <2>2, <2>3
<1>3. FirstHasKey'
  <2>1. \A d \in Clients : /\ LoggedIn(d)' => logins'[d] # 0
                           /\ First(d)' => First(d)
    BY <1>1 DEF FirstHasKey, First
  <2>2. ASSUME NEW d \in Clients, NEW s \in Threads, op'[d][s].at = "record"
        PROVE  /\ op[d][s].at = "record" /\ Pair(d, s)' = Pair(d, s)
               /\ Pair(d, s)' \in Pairs
    BY <2>2, ThreadFacts DEF Pair
  <2>3. QED
    BY <1>1, <2>1, <2>2, FirstStill
<1>4. QED
  BY <1>1, <1>2, <1>3, TPartsNext

\* /user opens a session, the first if there was none.
LEMMA TUser ==
    ASSUME TInv, NEW c \in Clients, HandleUser(c), op[c]["main"].at = "idle", UNCHANGED op
    PROVE  TInv'
<1>1. /\ WireInv /\ ACTypeOK /\ KeysOnce /\ WireInv'
      /\ logins \in [Clients -> 0 .. MaxLogins] /\ c \in Users
  BY TParts, Parts, InvUser, ClientsAreUsers DEF Controllers, Links
<1>2. /\ logins' = [logins EXCEPT ![c] = @ + 1]
      /\ ~ LoggedIn(c)
      /\ activeSessions' = [activeSessions EXCEPT ![c] = @ \union {c}]
      /\ UNCHANGED <<keVars, keysMade, accepted>>
  BY DEF HandleUser, Register, RegisterUser, LoggedIn
<1>3. UNCHANGED <<chan, sessionKey, pendingKey>> /\ Grows
  BY <1>2, GrowsSame DEF keVars
<1>4. KeysOnce'
  BY <1>1, <1>3 DEF KeysOnce, Taken
<1>5. \A d \in Clients : d # c => logins'[d] = logins[d] /\ (LoggedIn(d)' <=> LoggedIn(d))
  BY <1>1, <1>2 DEF LoggedIn, IsActive, ACTypeOK
<1>6. logins'[c] = logins[c] + 1 /\ logins[c] \in Nat
  BY <1>1, <1>2, MessengerBounds
<1>7. logins'[c] # 0 /\ (First(c)' => First(c))
  BY <1>6 DEF First
<1>8. QED
  BY <1>1, <1>3, <1>4, <1>5, <1>7, WholeMoves

\* /leave and a pull of notifications move no thread and no key.
LEMMA TLeavePoll ==
    ASSUME TInv, NEW c \in Clients, HandleLeave(c) \/ PollNotifications(c), UNCHANGED op
    PROVE  TInv'
<1>1. WireInv'
  BY TParts, InvLeave, InvPoll
<1>2. UNCHANGED <<chan, sessionKey, pendingKey, accepted, keysMade, activeSessions, logins>>
  BY DEF HandleLeave, PollNotifications, PullNotifications, acVars, keVars, netVars
<1>3. \A d \in Clients : LoggedIn(d)' <=> LoggedIn(d)
  BY <1>2 DEF LoggedIn, IsActive
<1>4. QED
  BY <1>1, <1>2, <1>3, GrowsSame, NobodyMoves

\* /logout in one step, where the threads do not overlap.
LEMMA TLogout ==
    ASSUME TInv, NEW c \in Clients, HandleLogout(c), op[c]["main"].at = "idle", UNCHANGED op
    PROVE  TInv'
<1>1. /\ WireInv /\ ACTypeOK /\ KETypeOK /\ KeysOnce /\ WireInv' /\ FirstHasKey
  BY TParts, Parts, InvLogout DEF Controllers, ACTypeOK
<1>2. Disconnect(c, c) /\ UNCHANGED logins /\ LoggedIn(c)
  BY DEF HandleLogout
<1>3. \A d \in Clients, q \in Pairs :
         /\ pendingKey'[d][q] \in {pendingKey[d][q], NoKey}
         /\ sessionKey'[d][q] \in {sessionKey[d][q], NoSecret}
  BY <1>1, <1>2 DEF KETypeOK, Disconnect, InvalidateUserChannels, Without
<1>4. \A d \in Clients : d # c => chan'[d] = chan[d] /\ sessionKey'[d] = sessionKey[d]
  BY <1>1, <1>2 DEF KETypeOK, Disconnect, InvalidateUserChannels, Without
<1>5. \A d \in Clients : LoggedIn(d)' <=> LoggedIn(d) /\ d # c
  BY <1>1, <1>2 DEF Disconnect, LoggedIn, IsActive, ACTypeOK
<1>6. ~ First(c)'
  BY <1>1, <1>2, <1>5 DEF First, FirstHasKey
<1>7. KeysOnce'
  <2>1. \A d \in Clients, s \in Threads : Taken(d, s) => op[d][s].private # NoKey
    BY ThreadFacts
  <2>2. QED
    BY <1>1, <1>3, <2>1, KeysOnceStill DEF Taken
<1>8. Grows
  BY <1>2, GrowsSame DEF Disconnect
<1>9. QED
  BY <1>1, <1>2, <1>4, <1>5, <1>6, <1>7, <1>8, WholeMoves

\* A handshake started and offered in one step.
LEMMA TOffered ==
    ASSUME TInv, WireInv', NEW c \in Clients, NEW t \in Others(c),
           op[c]["main"].at = "idle",
           UNCHANGED <<op, sessionKey, accepted, logins>>,
           \A d \in Clients : LoggedIn(d)' <=> LoggedIn(d),
           StartHandshake(c, PairKey(c, t)) \/ UNCHANGED chan,
           UNCHANGED <<pendingKey, keysMade>> \/ OfferChannel(c, t)
    PROVE  TInv'
<1>1. /\ WireInv /\ KETypeOK /\ KeysOnce /\ FirstHasKey /\ PairKey(c, t) \in Pairs
  BY TParts, Parts, UsersPair, ClientsAreUsers DEF Controllers, ACTypeOK, Others
<1>2. \A d \in Clients, q \in Pairs :
         /\ chan'[d][q] = "ACTIVE" => chan[d][q] = "ACTIVE"
         /\ d # c => chan'[d] = chan[d]
  BY <1>1, StartAt DEF StartHandshake, KETypeOK
<1>3. KeysOnce' /\ Grows
  <2>1. CASE UNCHANGED <<pendingKey, keysMade>>
    BY <1>1, <2>1, GrowsSame DEF KeysOnce, Taken
  <2>2. CASE OfferChannel(c, t)
    <3>1. Grows
      BY <1>1, <2>2, MadeGrow DEF OfferChannel, Grows
    <3>2. KeysOnce'
      BY <1>1, <2>2, KeysOnceOffered DEF OfferChannel, Taken
    <3>3. QED
      BY <3>1, <3>2
  <2>3. QED
    BY <2>1, <2>2
<1>4. First(c)' => First(c)
  BY DEF First
<1>5. LoggedIn(c)' => logins'[c] # 0
  BY <1>1 DEF FirstHasKey
<1>6. \A d \in Clients : d # c => chan'[d] = chan[d]
  <2>1. Pairs # {}
    BY <1>1
  <2>2. QED
    BY <1>2, <2>1
<1>7. QED
  BY <1>2, <1>3, <1>4, <1>5, <1>6, WholeMoves

\* A text sent or refused in one step.
LEMMA TSendText ==
    ASSUME TInv, WireInv', NEW c \in Clients, NEW t \in Others(c), SendText(c, t),
           op[c]["main"].at = "idle", UNCHANGED op,
           \A d \in Clients : LoggedIn(d)' <=> LoggedIn(d)
    PROVE  TInv'
<1> DEFINE verdict == SendVerdict(activeSessions'[c], c, c, t)
<1>1. UNCHANGED logins
  BY DEF SendText
<1>2. CASE verdict = "MESSAGE_ACCEPTED"
  <2>1. AcceptMessage(c, c, t)
    BY <1>2 DEF SendText
  <2>2. UNCHANGED <<chan, sessionKey, pendingKey, keysMade>>
    BY <2>1 DEF AcceptMessage, keVars
  <2>3. Grows
    <3>1. accepted \in [Clients -> SUBSET Receipts]
      BY TParts, Parts DEF Controllers, ACTypeOK
    <3>2. QED
      BY <2>1, <2>2, <3>1 DEF AcceptMessage, Grows, MadeKeys
  <2>4. QED
    BY <1>1, <2>2, <2>3, NobodyMoves
<1>3. CASE verdict # "MESSAGE_ACCEPTED"
  <2>1. /\ RefuseMessage(c, c, t, verdict)
        /\ UNCHANGED <<pendingKey, keysMade>> \/ OfferChannel(c, t)
    BY <1>3 DEF SendText
  <2>2. /\ StartHandshake(c, PairKey(c, t)) \/ UNCHANGED chan
        /\ UNCHANGED <<sessionKey, accepted>>
    BY <2>1 DEF RefuseMessage
  <2>3. QED
    BY <1>1, <2>1, <2>2, TOffered
<1>4. QED
  BY <1>2, <1>3

\* A channel established in one step, by a process whose threads hold nothing.
LEMMA TEstablished ==
    ASSUME TInv, WireInv', NEW c \in Clients, \A s \in Threads : op[c][s].at = "idle",
           NEW f \in Genuine, f.type = "HANDSHAKE_INIT", f.to = c,
           AnswerHandshake(c, f) \/ CompleteHandshake(c, f),
           UNCHANGED <<op, clock, logins>>
    PROVE  TInv'
<1>a. PICK p, r : p = PairKey(f.from, f.to) /\ r = f.pub
  OBVIOUS
<1>1. /\ WireInv /\ Controllers /\ ACTypeOK /\ KETypeOK /\ KeysOwned /\ KeysOnce /\ FirstHasKey
      /\ p \in Pairs /\ f.from \in Others(c) /\ r \in MadeKeys(f.from)
  BY <1>a, TParts, Parts, GenuineParts DEF Controllers, ACTypeOK, Others
<1>2. Grows
  BY <1>1, HeededKeeps
<1>3. PICK k : /\ EstablishChannel(c, f, k)
               /\ \/ k = pendingKey[c][p] /\ k # NoKey
                  \/ k = FreshKey(c) /\ CanMakeKey(c)
  BY <1>a DEF AnswerHandshake, CompleteHandshake
<1>4. /\ chan' = [chan EXCEPT ![c][p] = "ACTIVE"]
      /\ sessionKey' = [sessionKey EXCEPT ![c][p] = DeriveKey(k, r)]
      /\ pendingKey' = [pendingKey EXCEPT ![c][p] = NoKey]
      /\ UNCHANGED activeSessions
  BY <1>a, <1>3 DEF EstablishChannel, ActivateSecureChannel, PopPendingKey, SetPendingKey
<1>5. \A d \in Clients, q \in Pairs :
         /\ chan'[d][q] = IF d = c /\ q = p THEN "ACTIVE" ELSE chan[d][q]
         /\ sessionKey'[d][q] = IF d = c /\ q = p THEN DeriveKey(k, r) ELSE sessionKey[d][q]
         /\ pendingKey'[d][q] = IF d = c /\ q = p THEN NoKey ELSE pendingKey[d][q]
  BY <1>1, <1>4 DEF KETypeOK
<1>6. \A d \in Clients : d # c => chan'[d] = chan[d] /\ sessionKey'[d] = sessionKey[d]
  BY <1>1, <1>4 DEF KETypeOK
<1>7. DeriveKey(k, r) # NoSecret
  BY DEF DeriveKey, NoSecret
<1>8. KeysOnce'
  <2>1. ASSUME NEW q \in Pairs, q # p, pendingKey[c][q] # NoKey
        PROVE  pendingKey[c][q] \notin DeriveKey(k, r)
    <3>1. pendingKey[c][q] # k
      <4>1. CASE k = pendingKey[c][p] /\ k # NoKey
        BY <1>1, <2>1, <4>1 DEF KeysOnce
      <4>2. CASE k = FreshKey(c) /\ CanMakeKey(c)
        BY <1>1, <4>2, FreshIsNew
      <4>3. QED
        BY <1>3, <4>1, <4>2
    <3>2. pendingKey[c][q] # r
      BY <1>1, <2>1, KeysApart DEF KeysOwned
    <3>3. QED
      BY <3>1, <3>2 DEF DeriveKey
  <2>2. ASSUME NEW d \in Clients, NEW q \in Pairs, NEW w \in Pairs,
               pendingKey'[d][q] # NoKey
        PROVE  /\ pendingKey'[d][q] \notin sessionKey'[d][w]
               /\ pendingKey'[d][q] = pendingKey'[d][w] => q = w
    BY <1>1, <1>5, <2>1, <2>2 DEF KeysOnce
  <2>3. ASSUME NEW d \in Clients, NEW s \in Threads, Taken(d, s)'
        PROVE  Taken(d, s) /\ d # c /\ op' = op
    BY <2>3 DEF Taken
  <2>4. ASSUME NEW d \in Clients, d # c
        PROVE  sessionKey'[d] = sessionKey[d] /\ pendingKey'[d] = pendingKey[d]
    BY <1>1, <1>4, <2>4 DEF KETypeOK
  <2>5. QED
    BY <1>1, <2>2, <2>3, <2>4 DEF KeysOnce
<1>9. \A d \in Clients : LoggedIn(d)' <=> LoggedIn(d)
  BY <1>4 DEF LoggedIn, IsActive
<1>10. (First(c)' => First(c)) /\ (LoggedIn(c)' => logins'[c] # 0)
  BY <1>1, <1>9 DEF First, FirstHasKey
<1>11. op[c]["main"].at = "idle"
  BY DEF Threads
<1>12. QED
  BY <1>1, <1>2, <1>5, <1>6, <1>7, <1>8, <1>9, <1>10, <1>11, WholeMoves

\* Commands and frames that stay in one step where the threads overlap.
LEMMA TWhole ==
    ASSUME TInv, NEW c \in Threaded,
           WholeCommand(c) \/ \E t \in Threads : DrainWhole(c, t)
    PROVE  TInv'
<1>1. c \in Clients
  BY ThreadedAssumption
<1>2. CASE WholeCommand(c)
  BY <1>1, <1>2, TUser, TLeavePoll DEF WholeCommand, Doing
<1>3. CASE \E t \in Threads : DrainWhole(c, t)
  BY <1>1, <1>3, TDrainMessage DEF DrainWhole
<1>4. QED
  BY <1>2, <1>3

\* A command of a process whose threads do not overlap,
LEMMA TCommand ==
    ASSUME TInv, NEW c \in Clients \ Threaded, Commands(c), UNCHANGED op
    PROVE  TInv'
<1>1. WireInv /\ ACTypeOK /\ CommandLines /\ "main" \in Threads
  BY TParts, Parts DEF Controllers, Threads
<1>2. op[c]["main"].at = "idle"
  BY <1>1, ThreadFacts DEF ThreadHolds
<1>3. ASSUME NEW t \in Others(c), HandleChat(c, t)
      PROVE  TInv'
  <2>1. WireInv'
    BY <1>1, <1>3, InvChat
  <2>2. /\ EnsureKnown(c, t) /\ StartHandshake(c, PairKey(c, t))
        /\ UNCHANGED <<sessionKey, accepted, logins>>
        /\ UNCHANGED <<pendingKey, keysMade>> \/ OfferChannel(c, t)
    BY <1>3 DEF HandleChat
  <2>3. \A d \in Clients : LoggedIn(d)' <=> LoggedIn(d)
    BY <1>1, <2>2, MeetsOthers DEF Others
  <2>4. QED
    BY <1>2, <2>1, <2>2, <2>3, TOffered
<1>4. ASSUME NEW t \in Others(c), HandleMsg(c, t)
      PROVE  TInv'
  <2>1. WireInv'
    BY <1>1, <1>4, InvMsg
  <2>2. EnsureKnown(c, t) /\ SendText(c, t)
    BY <1>4 DEF HandleMsg
  <2>3. \A d \in Clients : LoggedIn(d)' <=> LoggedIn(d)
    BY <1>1, <2>2, MeetsOthers DEF Others
  <2>4. QED
    BY <1>2, <2>1, <2>2, <2>3, TSendText
<1>5. ASSUME HandleFreeText(c)
      PROVE  TInv'
  <2>1. PICK t : t = chatTarget[c]
    OBVIOUS
  <2>2. WireInv'
    BY <1>1, <1>5, InvFreeText
  <2>3. t \in Others(c) /\ SendText(c, t) /\ UNCHANGED activeSessions
    BY <1>1, <1>5, <2>1 DEF HandleFreeText, CommandLines, Others
  <2>4. \A d \in Clients : LoggedIn(d)' <=> LoggedIn(d)
    BY <2>3 DEF LoggedIn, IsActive
  <2>5. QED
    BY <1>2, <2>2, <2>3, <2>4, TSendText
<1>6. QED
  BY <1>2, <1>3, <1>4, <1>5, TUser, TLogout, TLeavePoll DEF Commands

\* and a frame it drains.
LEMMA TDrain ==
    ASSUME TInv, NEW c \in Clients \ Threaded, Drain(c), UNCHANGED op
    PROVE  TInv'
<1>1. PICK f : f = Head(incoming[c])
  OBVIOUS
<1>2. WireInv /\ WiresGenuine
  BY TParts, Parts
<1>3. \A s \in Threads : op[c][s].at = "idle"
  BY ThreadFacts DEF ThreadHolds
<1>4. CASE DrainDuplicate(c) \/ DrainMessage(c)
  BY <1>4, TDrainMessage
<1>5. CASE DrainHandshake(c) \/ LoseBatch(c)
  <2>1. WireInv'
    BY <1>2, <1>5, InvDrainHandshake, InvLoseBatch
  <2>2. /\ incoming[c] # << >> /\ f.type = "HANDSHAKE_INIT"
        /\ AnswerHandshake(c, f) \/ CompleteHandshake(c, f) \/ UNCHANGED acVars
        /\ UNCHANGED <<clock, logins>>
    BY <1>1, <1>5 DEF DrainHandshake, LoseBatch, TakeFrame
  <2>3. f \in Genuine /\ f.to = c
    BY <1>1, <1>2, <2>2, HeadGenuine
  <2>4. CASE AnswerHandshake(c, f) \/ CompleteHandshake(c, f)
    BY <1>3, <2>1, <2>2, <2>3, <2>4, TEstablished
  <2>5. CASE UNCHANGED acVars
    <3>1. \A d \in Clients : LoggedIn(d)' <=> LoggedIn(d)
      BY <2>5 DEF acVars, LoggedIn, IsActive
    <3>2. UNCHANGED <<chan, sessionKey, pendingKey, accepted, keysMade>>
      BY <2>5 DEF acVars, keVars
    <3>3. QED
      BY <2>1, <2>2, <3>1, <3>2, GrowsSame, NobodyMoves
  <2>6. QED
    BY <2>2, <2>4, <2>5
<1>6. QED
  BY <1>4, <1>5 DEF Drain

\* The relay forwards a frame, or nothing happens.
LEMMA TElsewhere ==
    ASSUME TInv,
           \/ \E c \in Clients : RelayForward(c) /\ UNCHANGED op
           \/ UNCHANGED tvars
    PROVE  TInv'
<1>1. WireInv'
  BY TParts, InvRelay, InvIdle DEF tvars
<1>2. UNCHANGED <<op, acVars, logins>>
  BY DEF RelayForward, tvars, vars, netVars
<1>3. \A d \in Clients : LoggedIn(d)' <=> LoggedIn(d)
  BY <1>2 DEF acVars, LoggedIn, IsActive
<1>4. UNCHANGED <<chan, sessionKey, pendingKey, accepted, keysMade>>
  BY <1>2 DEF acVars, keVars
<1>5. QED
  BY <1>1, <1>2, <1>3, <1>4, GrowsSame, NobodyMoves

-----------------------------------------------------------------------------
(***************************************************************************)
(* The invariant, and what follows from it.                                *)
(***************************************************************************)

\* Initially no thread holds anything,
LEMMA TInitially == TInit => TInv
<1> SUFFICES ASSUME TInit PROVE TInv
  OBVIOUS
<1>1. Init /\ op = [c \in Clients |-> [t \in Threads |-> Idle]]
  BY DEF TInit
<1>2. WireInv
  BY <1>1, InvInit
<1>3. OpTyped
  BY <1>1, IdleTyped DEF OpTyped
<1>4. \A c \in Clients, t \in Threads : op[c][t].at = "idle"
  BY <1>1 DEF Idle
<1>5. /\ \A c \in Clients, p \in Pairs :
            pendingKey[c][p] = NoKey /\ chan[c][p] = "NONE"
      /\ \A c \in Clients : ~ LoggedIn(c)
  BY <1>1 DEF Init, ACInit, KEInit, LoggedIn, IsActive
<1>6. Holding
  BY <1>4 DEF Holding, ThreadHolds
<1>7. KeysOnce
  BY <1>4, <1>5 DEF KeysOnce, Taken
<1>8. FirstHasKey
  BY <1>4, <1>5 DEF FirstHasKey
<1>9. QED
  BY <1>2, <1>3, <1>6, <1>7, <1>8, TParts

\* and no step of a thread, nor one of the relay, disturbs the invariant.
LEMMA TInvNext == TInv /\ [TNext]_tvars => TInv'
<1> SUFFICES ASSUME TInv, [TNext]_tvars
             PROVE  TInv'
  OBVIOUS
<1>1. ASSUME NEW c \in Threaded, MainStep(c)
      PROVE  TInv'
  BY <1>1, TBeginMsg, TBeginChat, TBeginFreeText, TValidate, TWriteEstablishing,
     TFoundLive, TCheckOffer, TMakeOffer, TSendOffer, TBeginLogout, TNextRecord,
     TClearStores, TCloseConnection, TWhole DEF MainStep
<1>2. ASSUME NEW c \in Threaded, NEW t \in Threads, DrainStep(c, t)
      PROVE  TInv'
  BY <1>2, TTakeHandshake, TTakePending, TStoreKey, TStoreRecord, TSendReply, TWhole
  DEF DrainStep
<1>3. ASSUME NEW c \in Clients \ Threaded, WholeStep(c)
      PROVE  TInv'
  BY <1>3, TCommand, TDrain DEF WholeStep, Command
<1>4. QED
  BY <1>1, <1>2, <1>3, TElsewhere DEF TNext

\* However the steps of the threads fall, the invariant holds.
THEOREM ThreadsInvariance == TSpec => []TInv
BY TInitially, TInvNext, PTL DEF TSpec

\* Every variable keeps its shape, and a thread holds what its step needs.
THEOREM ThreadsTypeCorrect == TSpec => []TTypeOK
<1>1. TInv => TTypeOK
  BY DEF TInv
<1>2. QED
  BY <1>1, ThreadsInvariance, PTL

\* TakePending pops the private key it takes: no two handshakes are ever
\* established with one key, whichever threads process their frames.
THEOREM PrivateTakenOnceHolds == TSpec => []PrivateTakenOnce
<1>1. TInv => PrivateTakenOnce
  <2> SUFFICES ASSUME TInv, NEW c \in Clients, NEW t \in Threads, NEW s \in Threads,
                      op[c][t].at = "key"
               PROVE  /\ \A p \in Pairs : op[c][t].private \notin sessionKey[c][p]
                      /\ s # t /\ op[c][s].at \in {"key", "record"}
                             => op[c][s].private # op[c][t].private
    BY DEF PrivateTakenOnce
  <2>1. KeysOnce /\ Taken(c, t)
    BY DEF TInv, Taken
  <2>2. QED
    BY <2>1 DEF KeysOnce, Taken
<1>2. QED
  BY <1>1, ThreadsInvariance, PTL

\* StoreKey comes before StoreRecord: until its first /logout a process that reads
\* ACTIVE finds the key.
THEOREM ActiveHasKeyHolds == TSpec => []ActiveHasKey
<1>1. TInv => ActiveHasKey
  BY DEF TInv, FirstHasKey, ActiveHasKey, First
<1>2. QED
  BY <1>1, ThreadsInvariance, PTL

\* A message read is one its sender accepted, under the same key, although the key,
\* the state and the frame of a message are read in different steps.
THEOREM ThreadsDeliveredWasAccepted == TSpec => []DeliveredWasAccepted
<1>1. TInv => DeliveredWasAccepted
  BY DEF TInv, WireInv
<1>2. QED
  BY <1>1, ThreadsInvariance, PTL
=============================================================================
