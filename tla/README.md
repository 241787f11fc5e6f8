# Verification of the E2EE CLI Secure Messenger

TLA+ models of the messenger's runtime, model-checked with TLC, and proofs about
them checked with TLAPS. Every definition is translated from the code;
`PROJECT.json` maps each one to the lines it stands for.

## 1. The system

A process is a command line over an application controller. The controller owns
a session table, a key-exchange store and a notification bus. Processes talk
through a relay over WebSocket; a gateway thread in each process holds the
connection and a queue of incoming frames.

| Component | State | Operations | Interacts with |
|---|---|---|---|
| `app/services/key_exchange_service.py` | per pair of users: channel record, session key, pinned fingerprint, seen nonces, pending private key | start, ensure, activate, validate replay, set/pop pending, invalidate user | called by the controller |
| `app/services/user_service.py` | active sessions, known names | register, disconnect, list, is active | called by the controller |
| `app/interfaces.py` | inbox per name; clock | publish, pull; now | controller, command line |
| `app/app_controller.py` | none of its own | register, disconnect, handshake init, handshake offer, process handshake frame, send (text) message, receive message, pull | calls all of the above |
| `cli/cli_app.py` | current user, chat target, 256 last frame identifiers, polling thread | commands, free text, drain of incoming frames | controller, gateway |
| `infrastructure/runtime_transport_gateway.py` | connection, loop thread, queue | connect, send, poll, close | relay |
| `infrastructure/minimal_relay_server.py` | name -> connection | register, route, remove | gateways |
| `infrastructure/crypto.py` | none | key pair, derive, encrypt, decrypt, fingerprint | controller |
| `app/protocol.py` | none | validate a message, make an error | controller |
| `main.py` | none | start and stop of the relay, start of a client | relay, command line |
| `cli/themes.py`, `formatters.py`, `status_diagnostics.py` | none that others read | rendering | - |

### What is hard, and what makes each part correct

* **Key exchange store.** Four dictionaries and a record per pair, written by
  different handlers. Correct when a key exists exactly while the channel is
  ACTIVE, no private key outlives its handshake, a departure clears everything at
  once, and forgetting nonces at an establishment forgets nothing that matters.
* **Controller.** `send_text_message` encrypts by the *key* and is let through by
  the *state*. Correct when nothing leaves in clear, nothing is shown twice, a
  changed remote key is announced, presence and channels agree.
* **Command lines and relay.** Offers that cross, replies that come after a new
  login, frames lost because the peer is away, duplicated frames. Correct when
  both ends of an ACTIVE channel hold the same key, messages arrive once, in
  order, from who they say, and handshakes complete while both ends are there and their sends return.
* **Threads of one process.** The polling thread drains frames while the main
  thread runs commands, without a lock. Correct when a value read by one thread is
  still good when it is used: the key, the channel state, the pending private key,
  the table of channels. Mostly it is not: F3 to F5.
* **Relay and gateways.** The relay is one event loop whose handlers overlap at their
  awaits; gateways dial, lose and close connections in threads of their own. Correct
  when frames go, once and in order, to a connection that announced the addressee,
  are dropped only when there is none, when a name is freed by the connection that
  holds it and by no other, and nothing stays stuck behind a peer that has gone.
* **Validation.** Some forty checks, the first that fails gives the code. Correct when
  together they accept exactly the contract, when peers accept what this code builds,
  when the time read a second time refuses nothing that was merely on its way, and when
  a refusal can be answered.

## 2. Modules

| Module | Models |
|---|---|
| `KeyExchange` | the key-exchange store: each operation as an operator over the variables it assigns |
| `AppController` | session table, notification bus and every handler, one call = one action; the safety properties that hold whoever calls it |
| `LocalRuntime` | one or more controllers, their callers, and a network that does not keep to the handshake: any handshake frame, between two names or one, with a foreign, an unusable or one of the process's own public keys; messages under any secret a peer can hold, frames of this process sent back, clear text; inductive invariant; refinement of `ChannelLifecycle` |
| `ChannelLifecycle` | abstract: what a secure channel promises, whatever the handshake does |
| `Messenger` | one process per user (command line + controller), the gateways' queues and the relay; inductive invariants of authenticity, agreement and order |
| `ClientThreads` | `Messenger` with chosen processes whose main and polling threads interleave inside the handlers; inductive invariant |
| `Transport` | processes, gateways' threads, connections and the relay with its handlers cut at their awaits; inductive invariant; refinement of `Router` |
| `Router` | abstract: what the relay promises about frames, whatever its handlers do |
| `Protocol` | `validate_message` as the sequence of its checks, `make_error`, and the journey of one frame; inductive invariant |
| `MCLocalRuntime`, `MCMessenger`, `MCClientThreads`, `MCTransport` | symmetry, who may type which name, and the properties only TLC is asked about |
| `AppControllerProofs` | lemmas about each handler, whoever calls it |
| `LocalRuntimeProofs`, `MessengerProofs`, `AgreementProofs`, `OrderProofs`, `ClientThreadsProofs`, `TransportProofs`, `ProtocolProofs` | the theorems |

`LocalRuntime` and `Messenger` both extend `AppController`, which extends
`KeyExchange`: the same handlers, once under an arbitrary environment, once under
the real command line and relay. The first gives safety without trusting peers,
the second what needs two well-behaved ends: agreement, order, liveness.
`ClientThreads` extends `Messenger`, keeps its state and its unthreaded processes,
and replaces the atomic steps of the threaded ones. `Transport` stands beside them: it
opens the relay and the gateways, which `Messenger` has as one step per frame, and
reduces the controller to the names it has a session for. What `Router` promises,
frames of one connection to another in order or lost, is what `Messenger` takes from it
for one session; that a user's later connection comes behind the earlier one on the same
uplink is an assumption of `Messenger` (see Abstractions). `Protocol` opens the check other modules make
of a frame in one word, `Recent`.

### State and code

| Variable | Code |
|---|---|
| `chan`, `startedAt` | `_channels[pair]["state"]`, `["started_at"]`; `"NONE"` is no record |
| `sessionKey`, `remoteFp`, `seenNonces`, `pendingKey` | `_session_keys`, `_remote_fingerprints`, `_seen_nonces`, `_pending_private_keys` |
| `activeSessions`, `knownUsers` | the session table's active and ever-seen names |
| `mailbox` | codes in the bus, by name |
| `accepted`, `delivered` | what `send_message` accepted and `receive_message` handed over (history of the outcomes the code returns) |
| `chatTarget`, `seenIds` | `_chat_target`, `_seen_transport_message_ids` |
| `uplink`, `incoming` | frames between a gateway and the relay, and the relay and a gateway's queue |
| `connected` | the relay's `_users` |
| `ended` (`Messenger`) | processes whose `run` an exception of a send has left |
| `op` (`ClientThreads`) | per thread, the point its handler has reached and the locals it holds there: the key of a message being built, the private key taken for a handshake, the records a loop has left |
| `sessions`, `user`, `gateway`, `thread`, `waiting`, `ended` (`Transport`) | the session table's names, `_current_user`, `_transport_gateway` is there, the connection of the gateway's thread, the main thread inside `connect`, the program is over |
| `link`, `name`, `wire`, `box` | a connection's state, the name its handler knows it by (`current_username`), what it carries to the relay, what was handed to it |
| `handler`, `dest`, `users` | the handler of a connection, `destination` while its send is awaited, `_users` |
| `announced`, `latest` | which connections ever took a name, and which did last (history) |
| `frame`, `now`, `readAt`, `verdict`, `guard` (`Protocol`) | the frame under way, the receiver's clock, the second it read before validating, what validation and the replay guard said |
| `relayed`, `logins`, `dups`, `losses`, `keysMade`, `msgsMade`, `clock` | what may be duplicated; counters that identify keys and messages and bound the instance |

### Abstractions

* A public key, its private half and its fingerprint are one identifier; a session
  key is the unordered pair of the two identifiers it was derived from, which both
  ends compute equal exactly when each holds the private half of a key the other
  knows. A message carries the secret it was sealed with, `NoSecret` for clear text;
  decryption succeeds when the receiver's secret is that one.
* A message's payload nonce identifies it and stands for the frame's `message_id`
  too: the command line makes one frame per accepted payload. The timestamps of the
  frame and of its payload are made within one call and are one instant here.
* The command line refuses a user's own name before it reaches the controller, so no
  call has twice the same name. A HANDSHAKE_INIT may (`protocol.py:180-210` does not
  compare `from` with `to`), so `Pairs` has the pair of a name with itself.
* A call that returns an error and changes nothing is a disabled action.
* The fingerprint warning lives within one handler (set by activation, consumed by
  the same call), so it is an expression and not a variable.
* The controller's raw `send_message` is reached through `send_text_message` only,
  as in the command line.
* `process_handshake_frame` generates a key pair before it finds the remote key
  unusable; the pair is dropped and is not counted.
* In `Messenger` a process serves one name, so `current_user` is derived. The relay
  consumes REGISTER frames, so the drain's branch for them is dead and left out.
  Frames are drained one at a time, since commands between two frames of a batch are
  what the thread of a process allows; `LoseBatch` is the exception the polling thread
  swallows, which takes the rest of its batch with it. What a client sent before
  `/logout` still reaches the relay; what was on the wire towards it may be lost, any
  tail of it. A connection lost while its user is logged in (`LinkLost`) loses tails
  both ways, and what is sent afterwards is lost or raises.
* A send raises when the connection is gone and also when it takes more than 5 seconds on
  a live one (`runtime_transport_gateway.py:55`), where the frame still goes out. In the
  main thread the exception ends the program (`ended`), and what becomes of its connection
  is a `LinkLost`; in the polling thread it loses the rest of the batch (`LoseBatch`,
  counted in `losses`; in `ClientThreads` the thread that replies drops any prefix of the
  queue). The `send_frame(None)` of a suppressed offer raises in the same way; it reaches
  the relay as `null` and is skipped there, so it is no frame here.
* A user has one uplink, first in first out across sessions. That is more than the relay
  promises, which keeps order per connection: a frame left on the connection of an earlier
  session could be forwarded after the first ones of a new session. The order and agreement
  of `Messenger` across logins rest on this; within a session they do not.
* Clear-text fallback to local mode when the relay cannot be reached is left out:
  nothing is sent then.
* In `ClientThreads` a handler is cut where what it has read may change before it is
  used. Reads or writes that are adjacent and that no other thread's step tells apart
  stay together: the writes of one record, the three stores cleared per record of
  `/logout`, key and fingerprint and nonces of an activation. A message is drained,
  and a notification published or pulled, in one step. `/logout` forgets
  `current_user` when it closes the connection. A program ended by an exception does
  nothing more; what the relay does with its connection then is left out.
* In `Transport` a connection is "closing" from the moment one end closes or loses it
  until the relay learns of it; a send in between is lost without an error. The wait
  of `connect` may end before its connection opens, is refused, or fails. A handler
  that has been closed goes on with what it has read. A frame is handed over when the
  addressee's connection is open; the queue behind it is in `Messenger`. The polling
  thread's failed sends change nothing and are left out, so is the payload of frames:
  an item is a REGISTER or a frame with an addressee. `stop` awaits every handler, and
  nothing connects meanwhile; the relay may be started again at once.
* In `Protocol` a field is absent, of a wrong type, empty, one of the values the checks
  name, or other text. Clocks run in ticks of a fraction of a second, timestamps are
  whole seconds, so the second cut off is there. A date whose conversion to UTC leaves the
  calendar ("0001-01-01T00:00:00+01:00") is the value "edge": `protocol.py:311` converts
  outside the `try`, so it raises `OverflowError` out of `validate_message`. A sender that
  is JSON `null` is the value "null", since an ERROR may have it where others may not.

## 3. Runs

| Run | Expect | Shows | States |
|---|---|---|---|
| `local_pair` | pass | one controller, two users, handshake frames with any key between any two names or one, messages under any secret a peer can hold: all safety properties, the inductive invariant, refinement | 561 thousand |
| `messenger_online` | pass | two processes and the relay, both connected, a late duplicate: agreement under glare, order, once; handshakes complete, accepted messages are read | 15 thousand |
| `messenger_reconnect` | pass | one of two users logs out and comes back; a clock, lost connections, sends that time out, batches cut short: nothing in clear, agreement until the second login | 2.6 million |
| `threads_pair` | pass | one process with two interleaved threads and one without that logs in twice, so that both threads can hold one of its handshake frames: what survives the races | 3.3 million |
| `transport_relay` | pass | two processes, one of which may take the other's name, connections that fail in every way, a relay that stops: routing, refinement, liveness | 0.4 million |
| `protocol_validation` | pass | every kind of frame with up to two fields changed, at every instant around the window: acceptance, the exception that escapes, the guard's second look, the answer to a refusal | 3.9 million |
| `messenger_rekey` | violation | F1 | |
| `messenger_retry` | violation | F2 | |
| `threads_plaintext` | violation | F3 | |
| `threads_keyless` | violation | F4 | |
| `threads_raises` | violation | F5 | |
| `transport_lost` | violation | F6 | |

### Properties

* `KeyIffActive`, `MessagesSealed`, `SealedOnWire`: no plaintext, by any sequence of
  calls.
* `PendingOnlyEstablishing`, `LiveNeedsSession`: the session table and the five stores
  agree after every handler.
* `DeliveredOnce`, `GuardRemembers`, `SecretsFresh`: replay. The
  guard is reset at each establishment; it is sound because the new secret has a half that
  no secret of that pair's messages had (`SecretsFresh`), whatever keys the network sends.
  It is a statement about each pair: two pairs may share a secret when their peers send
  each other's pending keys back, and `DeliveredOnce` holds all the same, since the nonces
  of a pair are its own.
* `PinChangeAnnounced`: a changed remote key is reported in the same call, also
  across a disconnection.
* `ImplementsLifecycle`: an ACTIVE channel keeps its secret until it is dropped with it.
* `KeyAgreement`, `FirstSessionAgreement`, `DeliveredInOrder`, `DeliveredWasAccepted`: the
  two ends together; `AgreementInv` is why the first two hold, `OrderInv` why the third,
  `IInv` why the last. Order is checked in `messenger_online` only, which has the second
  message and the duplicate it takes; `messenger_reconnect` has neither and says nothing
  of it, so order through new sessions is proved (`OrderHolds`) and not run.
* `HandshakeCompletes`, `AcceptedIsDelivered`: liveness.
* `RouteNotDangling`, `LastNameFreed`: the relay's table. A route leads to a running
  handler, but for a name its user gave up by taking another one without `/logout`,
  which nothing frees; a closed connection does not keep its last name.
* `RouteKept`: the other half. A connection that is not closed loses its name only to a
  later announcement, a stop of the relay, or a frame that failed at a connection routed to
  before (F6). Only this one breaks when a handler frees a name without asking who holds
  it; the two above and `ImplementsRouter` would still hold. The third way takes three
  connections and so does not happen in `transport_relay`; `RouteKeptHolds` covers it.
* `OneLiveConnection`: a connection belongs to the process that dialed it for as long as
  it lasts, also when `connect` gave up on it or the program ended. It does not exclude
  the connection that opens after `connect` gave up ("seen on the way").
* `ImplementsRouter`: the table is read before a send is awaited and changed by others
  meanwhile; nevertheless a frame is handed once, in order, to who announced its
  addressee, and dropped only if nobody did or somebody who did has gone. The last is
  weak on purpose: F6 is a frame dropped because somebody had gone.
* `FramesResolved`: liveness of the relay. Handlers wait for each other's connections,
  and none for ever.
* `AcceptsTheContract`: the checks, in their order, against the table of the contract.
* `EscapesOnlyAtTheEdge`: what leaves `validate_message` without a code has a date at the
  edge of the calendar, and a frame that is otherwise well formed does leave it so.
* `OwnFramesAccepted`, `StaleRefused`: the window and the second that is cut off.
* `GuardRefusesOnlyAhead`: the time is read before validation and, for validation, again.
  What validation lets through the guard never refuses as too old; it does refuse a frame
  dated more than the tolerance ahead of its own second, when the next one has begun.
* `AnswerIsValid`: the ERROR made for a refused frame is itself valid exactly if that
  frame's sender is a name or nobody (`app_controller.py:626` copies it unchecked).
* `PrivateTakenOnce`, `ActiveHasKey`: what two unlocked threads still get right. A
  pending key is popped in one operation, so two threads that handle a frame each never
  finish with one private key; the record says ACTIVE only after its key is stored, so
  before the first `/logout` a reader of ACTIVE finds a key (after one it need not: F4).

### Findings

* **F1** (`KeyAgreement`). Alice offers key a1, logs out and in again. Bob answers a1
  with b1 and is ACTIVE. Alice has nothing pending any more, takes b1 for an offer,
  answers it with a2 and is ACTIVE under {a2, b1}; Bob, ACTIVE under {a1, b1},
  ignores a2. Both accept messages neither can read.
* **F2** (`RetryGetsThrough`). An offer to a peer that is away is dropped by the
  relay. The pair stays ESTABLISHING with a pending key, for which no second offer
  is made; "Reintenta en unos segundos" (`cli/formatters.py:14`) never helps.
* **F3** (`SealedOnWire`). `send_text_message` reads the key, finds none and builds the
  message in clear. The polling thread completes the handshake. The state is checked
  next, is ACTIVE, and the clear text goes to the relay.
  `docs/SYSTEM_SPECIFICATION.md:87` excludes that.
* **F4** (`NoBypass`). `process_handshake_frame` checks the session, then `/logout` runs.
  The frame's key is stored before `/logout` clears the pair's key and its ACTIVE
  record after. The channel stays ACTIVE without a key, also in the next session,
  where every message to that user is built in clear and accepted
  (`docs/SYSTEM_SPECIFICATION.md:87`).
* **F5** (`NoCommandRaises`). The frame adds a pair to the dictionary of channels while
  `/logout` iterates over it: `RuntimeError`, uncaught, and the program ends
  (`docs/SYSTEM_SPECIFICATION.md:88`).
* **F6** (`NoSilentLoss`). A handler is sending to Bob's connection while Bob logs out and
  in again. The send fails and the relay pops the *name*, which by then leads to Bob's
  new connection (`minimal_relay_server.py:97`). The next frame for Bob is dropped,
  although he is connected and registered, and nobody learns of it
  (`docs/SYSTEM_SPECIFICATION.md:88`).

Seen on the way, and not given a run:

* `docs/SYSTEM_SPECIFICATION.md:142` moves a handshake to `INVALID` after 5 seconds.
  `_timeout_seconds` is stored (`key_exchange_service.py:39`) and never read.
* After `connect` has timed out the command line says it stays in local mode
  (`cli_app.py:348`) and drops its gateway; the thread goes on, may connect, takes the
  name at the relay and swallows the frames for it, until the program ends.
* `/user` with a second name without `/logout` leaves the session and the route of the
  first one; after the connection is gone the relay sends frames for that name to it
  until a send fails.
* A name is unique in a process only: two processes may announce the same one, and the
  relay routes it to the later, although the documented error is `409_USERNAME_TAKEN`.
  A REGISTER of the earlier connection that arrives late takes the name back.
* `send_frame` raises when the connection is gone or slow, and commands of the main loop
  do not catch it (`/user` catches `RuntimeError` only): the program ends, with the
  message already counted as accepted.
* With two threads draining, both may find a nonce unseen before either records it, and
  a notification published during a pull may be lost.
* A remote name is registered on sight and never disconnected, so it is shown online
  for ever (against `app/services/user_service.py:5`).
* The sender of a handshake frame becomes the chat's target without a session in the
  local table, so free text to it is refused with `404_USER_OFFLINE` on an ACTIVE
  channel.
* With overlapping threads `KeyAgreement` fails within one session: the polling thread
  finds nothing pending and makes a key to answer Bob's offer; the main thread, past
  its own check, makes another and offers it first; Bob completes with the offer,
  Alice holds the secret of the answer.

* Order holds unless a connection or a batch is lost *and* a message is repeated
  (`OrderHolds`). With both it fails, and three users are needed: Alice's queue holds an
  offer of Carol, then Bob's messages m, n and a duplicate of m. The answer to Carol raises
  in the polling thread, because the connection is gone or only slow, and the batch with
  the offer and m is dropped. The next batch shows n, then m, which the replay guard has
  not seen.
* A date at the edge of the calendar raises `OverflowError` (`protocol.py:311`) at callers
  that catch `ProtocolValidationError` only.
* A message dated ahead may pass validation and be refused by the replay guard, which
  compares with a second read earlier.
* An ERROR for a frame whose `from` is not a name is addressed to what it is, and no peer
  would accept it.
* A process takes its own public key from the network for a peer's
  (`app_controller.py:320-346`). Sent the keys it has offered to two peers, crosswise, it
  has the same secret for both pairs, which no peer has.

`KeyAgreement` is checked as a passing property while both stay connected, no send times
out and handlers are atomic (`messenger_online`), and as a violated one with two sessions
(`messenger_rekey`); `FirstSessionAgreement` says that the second login is what it takes.

## 4. Bounds

* `MaxKeys = 2` key pairs per process: a second establishment after the first was
  dropped, or an offer and an answer of one process in the same handshake. It is
  the least that makes freshness matter.
* `MaxMsgs`: 2 messages per process where order and eviction matter, 1 elsewhere.
  In `LocalRuntime` the network may use the process's own nonces too, so one nonce
  already collides, repeats and reflects.
* `DedupWindow = 1` stands for 256: with two messages the window evicts.
* `MaxClock = 1`, `Tolerance = 0`: one tick is enough for a frame to be stale in
  either direction.
* `MaxDups = 1` (`messenger_online`): one frame delivered twice, at any later time;
  `MaxLosses = 2` (`messenger_reconnect`): two losses, each a connection lost while its
  user is there or a batch lost to a send that timed out or failed.
* `MaxLogins = 2`: a session and the one after it. `ReconnectNext` allows three logins in
  all, so one of the two users, either, comes back.
* `transport_relay`: two connections, so one process's later ones or one of each process;
  one frame each, on top of the REGISTERs; one stop of the relay; the first user may
  take the second one's name. `TransportProofs` is for any number.
* `transport_lost`: the third connection is the one that takes the name anew.
* `protocol_validation`: two ticks to a second and a tolerance of two seconds, so arrivals
  range over more than the window on both sides, odd and even ticks; two changed fields,
  since the checks that read a second field read no third one.
* `ClientThreads` runs: `Threaded` is one process, the peer has atomic handlers; the
  clock stands still and nothing is duplicated, since `Messenger` covers both. In
  `threads_pair` (`FewSteps`) the threaded process has one session, its peer may come back
  and offer again, which is what gives the two threads a handshake frame each, and there is
  one message in all. The others have one session per user, so `threads_keyless` shows the
  state the next session starts from.
* Two users for agreement, three in `threads_raises`, where a second pair must appear. The
  proofs about controllers are for any number of users.
* Symmetry is over users (and foreign keys) in runs without liveness only.
* Counters stop at their bounds and users may stop typing, so runs do not check
  deadlock: a messenger at rest is a legal end.

## 5. Fairness

* `Fairness` (Messenger): weak fairness of each `RelayForward` (the relay's loop is
  always reading) and each `Drain` (the polling thread wakes every 0.25 s). The
  second does not hold with `/poll off`, where the user drains with `/notif`; the
  liveness runs describe polling on, the default. Nothing is assumed of what users
  type, except in `RetrySpec`, whose question is a user who keeps retrying.
* `Fairness` (Transport): weak fairness of each handler, since the relay is one event loop
  that runs until it is stopped, and of the end of each closing handshake, which has a
  timeout. Nothing is assumed of processes, of dialing or of users.
* `OnlineSpec` keeps both users connected and lets every send return in time: with logouts
  neither liveness property is promised (F1, F2), and a send that times out ends a program
  or loses a batch.

## 6. Proofs

`LocalRuntimeProofs`, for any number of processes, users, keys, messages and any
bounds, from `BoundsAssumption` (the bounds are naturals) and `KeysAssumption` (local
and foreign keys and nonces are disjoint, the two sentinels are neither):

* `TypeCorrect`: `Spec => []TypeOK`, one lemma per handler.
* `Invariance`: `Spec => []IInv`. `IInv` is the conjunction of the checked invariants
  with `PendingUnused` (the private key of an unfinished handshake belongs to one pair
  and is no half of a secret that pair exchanged a message under) and `UsedKeysMade`
  (every local key in a secret was generated). `DeliveredOnce` is not inductive: a re-established channel has an empty
  nonce set, so an old message would pass if its secret could come back. It cannot:
  the private half used is either fresh (`UsedKeysMade`) or pending (`PendingUnused`),
  hence in no secret a message of that pair was sealed with, although the network may have
  made it half of another pair's; and while the key lasts,
  `GuardRemembers` keeps every delivered nonce in the guard. `KeyIffActive` is what
  makes `MessagesSealed` inductive.
* The invariants as corollaries, the action properties `SecretsFresh` and
  `PinChangeAnnounced` (only an establishment pins, `ProcessPins` and `CallPins`), and
  `Implements`: `Spec => ImplementsLifecycle`. `StepIsChannelStep` reduces every
  handler to one of four effects on channels and secrets; `LifecycleStep` maps those
  to `Open`, `Establish`, `Drop` or a stutter.

`MessengerProofs`, for any number of users and any bounds, from `ClientsAreUsers` and
`MessengerBounds` (bounds are naturals, the window has room for one) besides the above;
it shares the lemmas of `AppControllerProofs` with `LocalRuntimeProofs`:

* `Invariance`: `Spec => []IInv`, in two layers. `WireInv` holds however the steps of a
  process are cut: what was read was accepted only because every frame on a wire is what
  its named sender made (`Genuine`), what a queue holds is for the process that owns it
  (`GenuineFor`), and private keys and secrets are made of keys their owners generated
  (`KeysOwned`). What is genuine depends on what the controllers have accepted and
  generated, which only grows (`Grows`), so wires that a step does not write stay genuine.
  The second layer, `KeyIffActive` and `MessagesSealed`, takes whole handlers:
  `send_text_message` takes the key, `_validate_outgoing_with_handshake` the state, and
  `KeyIffActive` ties the two (`SealedNext`). `ClientThreads` shows what is left without.
* `TypeCorrect`, `SealedOnWireHolds`, `SealedByHandlers`, `DeliveredWasAcceptedHolds` as
  corollaries.

`AgreementProofs`, for any number of users and any bounds, from the same assumptions and, for
`KeyAgreementHolds`, `OneLogin` (its users, who stay logged in, have logged in):

* `AgreementInvariance`: `Spec => []AgreementInv`, one lemma per command and kind of frame.
  That both ends agree is not inductive, since what an end will hold is decided by frames on
  the way. `OneKeyEach` says that, until its second login, all keys of a process that its
  handshakes with one peer are about are the same: pending, in a frame on the way to that
  peer, or part of the secret of either end. A key is made only for a pair without a record
  or with an INVALID one; the first case has no key yet, the second takes a `/logout`
  (`SessionsCounted`), so its key is made in the second session at the earliest. A frame that
  is duplicated by the way is no handshake (`relayed`), and an ESTABLISHING channel has its
  key, so an offer that crosses is completed with it and not answered with another.
* `FirstSessionAgreementHolds`: with one key of each end, the secrets are equal. F1 is what
  happens after.
* `KeyAgreementHolds`: `OnlineSpec => []KeyAgreement`, that is while connections stay and no
  send times out; `Staying` adds that nobody logs in again.

`OrderProofs`, for any number of users, any bounds and any size of the duplicate window, from
the assumptions of `AgreementProofs`:

* `OrderInvariance`: `Spec => []OrderInv`, one lemma per command and kind of frame. Wires are
  first in, first out, so what is out of order is what comes a second time, and it may come
  at any later time: the window of 256 has forgotten it, and a new session has forgotten the
  nonces. `Past` says why it is not shown then: it is stale by the clock, or its nonce is in
  the guard of the key it was sealed with, or that key is gone for good (`NeverOpens`). The
  last needs both ends of a secret: it could come back only if its private half were still
  pending *and* the public half still on its way, and a handshake frame travels ahead of the
  messages sealed with it (`OffersFirst`), so when a message has come its frame is no longer
  on the way. `NothingComesBack` says that, while `losses = 0` (no connection
  lost, no batch lost to a send that failed or timed out), what the relay has handed
  over is waiting or `Past`, and that whatever is remembered or overtaken is `Past`.
* A lost connection, or a reply that times out on a live one, takes a batch from the queue,
  so a message may have come and be neither waiting nor `Past`. Without duplicates the queue is simply in order (`QueueInOrder`).
  `OrderInv` carries both halves, each under the counter that rules the other out.
* `OrderHolds`: `Spec => [](losses = 0 \/ dups = 0 => DeliveredInOrder)`. The hypothesis is
  needed: see "seen on the way" in section 3.
* `DeliveredInOrderHolds`: `OnlineSpec => []DeliveredInOrder`, since connections stay there
  and no send times out, so nothing is lost (`NothingLost`).
* `PendingHolds`: `PendingOnlyEstablishing` behind the command line and relay.

`ClientThreadsProofs`, for any number of users, whichever of their processes are threaded,
from the assumptions of `MessengerProofs` and `FiniteUsers` (names have a maximal length, so
there are finitely many):

* `ThreadsInvariance`: `TSpec => []TInv`, one lemma per step of a thread. Without whole
  handlers the second layer of `MessengerProofs` is gone (F3, F4); what is left is
  `WireInv`, which holds however steps are cut, and what the threads themselves keep:
  `ThreadHolds` (the locals a thread carries fit the step it has reached: keys it may use,
  a peer, a channel it found live, no session during `/logout`), `KeysOnce` (private keys of
  unfinished handshakes, in the store or in a thread's hands, differ and are in no secret)
  and `FirstHasKey` (before the first `/logout` a stored key stays, and its record comes
  after it). `PrivateTakenOnce` is not inductive: a key must also be in nobody else's
  hands while it waits in the store, before a thread takes it, and while a thread that has
  stored its secret has not yet written the record.
* What a step leaves alone is said once per part (`HoldsStill`, `KeysOnceStill`,
  `FirstStill`), so the lemma of an action only argues about what the action changes.
* `ThreadsTypeCorrect`, `PrivateTakenOnceHolds`, `ActiveHasKeyHolds` and
  `ThreadsDeliveredWasAccepted` as corollaries.

`TransportProofs`, for any number of processes, names, connections and frames, from
`TransportAssumption` (bounds are naturals, `NamesOf` gives each process a set of names,
the sentinels are no connection and no name):

* `Invariance`: `Spec => []IInv`, one lemma per action. `IInv` adds to the checked
  invariants that routes and destinations lead to connections that announced the name
  (`RouteAnnounced`, `DestAnnounced`), that only accepted connections announce
  (`AnnouncedAccepted`), and `FreedWhenBroken`: a name that was announced lacks a route
  only if somebody who announced it broke. The last is what lets the relay drop a frame.
* `TypeCorrect`, `RouteNotDanglingHolds`, `OneLiveConnectionHolds` as corollaries, and
  `RouteKeptHolds` from the same invariant, one case per action that writes the table.
* `ImplementsRouterHolds`: `Spec => ImplementsRouter`. Every action maps to `Join`, `Put`,
  `Rename`, `Hand`, `Drop`, `Break` or a stutter: `DestAnnounced` for a send that
  completes after the table has changed, `FreedWhenBroken` for a frame that is dropped.

`ProtocolProofs`, for any clock, any window and any number of changed fields, from
`ProtocolAssumption` (a second has at least one tick and the window at least one second,
the other bounds are naturals, and clocks start after 0):

* `VerdictMeaning`: `Verdict` is the code of the first check that fails, so it is "OK"
  exactly when every check holds. One lemma per kind of frame (`RegisterMeaning` to
  `ErrorTypeMeaning`) says what its checks together come to, and one (`RegisterContract` and
  so on) that this is what the table of the contract says; `ContractIsTheTable` joins
  them. The order of the checks matters for the code that is returned and, in the proof,
  for fields a later check reads: each check is total on frames of this shape.
* The lemma `Invariance` carries what the theorems need through the journey: a frame keeps
  its fields and, unchanged, is one of those that were built (`FrameKept`), its dates are
  the sender's (`Dated`), and a verdict belongs to the frame and time it was given for
  (`Judged`). It is bookkeeping of the model; the theorems below are the results.
* `TypeCorrect` (the outcome is a code, acceptance or the `OverflowError`),
  `AcceptsTheContractHolds`, `StaleRefusedHolds`, `OwnFramesAcceptedHolds` (each frame the
  code builds fits the table, and `NearInWindow` for its dates),
  `GuardRefusesOnlyAheadHolds` (what the guard refuses is outside its window and inside that
  of validation, so it is ahead and a second has passed) and `AnswerIsValidHolds` (an
  error made by `MakeError` fits the table if its addressee is a name or absent, and fails
  the check of `to` if not).

The proof of `ContractIsTheTable` found an error of the model: two guards of the CASE in
`Body`, which builds a frame's payload, overlapped, so its value was whichever TLC tried
first. The fields that were not given are now left out first.

Only model-checked: liveness (`LastNameFreed`, `FramesResolved`, `HandshakeCompletes` and
`AcceptedIsDelivered`), which is out of the proof system's reach, and
`EscapesOnlyAtTheEdge`.

## 7. Plan

1. Done: `KeyExchange`, `AppController`, `LocalRuntime`, `ChannelLifecycle`, `Messenger`,
   and the proofs above.
2. Done: `ClientThreads` for handshakes, outgoing messages and `/logout`. Left: the
   nonce guard with two threads draining at once, publish against pull, two threaded
   processes.
3. Done: `Transport`, `Router` and their proofs; connections of `Messenger` that fail
   while a user is logged in.
4. Done: `Protocol` and its proofs.
5. Done: the proofs of authenticity, agreement and order of `Messenger`, and those of
   `ClientThreads`.

## 8. Not modelled

Rendering, themes, help, completion and status text; environment and arguments in
`main.py`; the cryptographic
primitives themselves; a controller without crypto provider (the command line always
passes one). What section 7 lists as planned is not modelled yet.
