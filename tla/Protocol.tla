------------------------------ MODULE Protocol ------------------------------
(***************************************************************************)
(* validate_message of app/protocol.py, as the sequence of checks it makes *)
(* and the code each one fails with, over frames whose values are reduced  *)
(* to what the checks tell apart; and the journey of one frame, from the   *)
(* code that builds it through a peer or a network that may change it to   *)
(* the receiver that validates it some time later.                         *)
(*                                                                         *)
(* Clocks run in ticks, timestamps are cut to whole seconds.  The receiver *)
(* first reads the second for the replay guard, and validates after that.  *)
(***************************************************************************)
EXTENDS Integers, SequencesExt

CONSTANTS
    TicksPerSecond,
    Tolerance,          \* TIMESTAMP_TOLERANCE_SECONDS
    MaxTime,            \* bound: ticks the receiver's clock may show
    MadeAt,             \* the sender's clock when it builds the frame
    MaxChanges          \* bound: fields changed on the way

ASSUME ProtocolAssumption ==
    /\ TicksPerSecond \in Nat \ {0} /\ Tolerance \in Nat \ {0}
    /\ MaxTime \in Nat /\ MaxChanges \in Nat
    /\ MadeAt \subseteq Nat \ {0}

VARIABLES
    phase,      \* "idle", "flying", "read" or "done"
    now,        \* the receiver's clock
    made,       \* the sender's clock at the build, on the same scale
    frame,
    changes,    \* how many fields were changed
    readAt,     \* the second the receiver read before it validated
    verdict,    \* what validate_message said: "OK" or a code
    guard       \* what the replay guard's time check said after it

vars == <<phase, now, made, frame, changes, readAt, verdict, guard>>

USERNAMES == {"alice", "bob", "server"}     \* the pattern allows "server"
ALLOWED_TYPES == {"REGISTER", "HANDSHAKE_INIT", "MESSAGE", "ERROR"}
ROOT_FIELDS == {"message_id", "timestamp", "type", "from", "to", "payload"}
ROOT_REQUIRED == ROOT_FIELDS \ {"to"}
ValidationCodes ==
    {"400_BAD_FORMAT", "400_MISSING_FIELD", "400_INVALID_FIELD_TYPE",
     "400_INVALID_TYPE", "400_INVALID_TO", "400_INVALID_PAYLOAD",
     "400_TIMESTAMP_OUT_OF_WINDOW"}
\* What a failed check raises: a ProtocolValidationError with a code, or an
\* exception of the interpreter that no caller expects.
Raised == ValidationCodes \union {"OverflowError"}
ERROR_CODES == ValidationCodes \union {"409_REMOTE_KEY_CHANGED"}  \* among others

(***************************************************************************)
(* The contract as a table: what each field of a frame of each type may    *)
(* be.  "absent" is a missing key, "extra" any key the contract does not   *)
(* name.  Otherwise a field may be "wrong", of another type, "empty", or   *)
(* "text" the checks know nothing of; a date at the "edge" of the calendar *)
(* parses but has no equivalent in UTC; and a sender that is "null" is of  *)
(* another type, but nobody to address an answer to.                       *)
(***************************************************************************)
RootAllowed(type) ==
    [message_id |-> {"uuid"}, timestamp |-> {"iso"}, type |-> {type},
     from |-> IF type = "ERROR" THEN {"server"} ELSE USERNAMES,
     to |-> CASE type = "REGISTER" -> {"absent", "server"}
              [] type = "ERROR" -> USERNAMES \union {"absent"}
              [] OTHER -> USERNAMES,
     payload |-> {"object"}, extra |-> {"absent"}]
BodyAllowed(type) ==
    CASE type = "REGISTER" -> [username |-> USERNAMES, public_key |-> {"text"}]
      [] type = "HANDSHAKE_INIT" ->
           [username |-> USERNAMES, public_key |-> {"text"}, nonce |-> {"text"},
            reason |-> {"ON_DEMAND", "ROTATION", "RETRY"}]
      [] type = "MESSAGE" ->
           [ciphertext |-> {"text"}, encoding |-> {"base64", "base64url"},
            algorithm |-> {"FERNET"}, nonce |-> {"text"}, sent_at |-> {"iso"}]
      [] type = "ERROR" ->
           [code |-> ERROR_CODES, message |-> {"text"}, retriable |-> {"boolean"},
            details |-> {"absent", "object"}]

RootFields == ROOT_FIELDS \union {"extra"}
BodyFields == {"extra"} \union UNION {DOMAIN BodyAllowed(type) : type \in ALLOWED_TYPES}
Beyond(f) ==
    IF f \in {"timestamp", "sent_at"} THEN {"edge"} ELSE IF f = "from" THEN {"null"} ELSE {}
Values(tables) == {"absent", "wrong", "empty", "text"} \union UNION tables
RootTable ==
    [f \in RootFields |->
        Beyond(f) \union Values({RootAllowed(type)[f] : type \in ALLOWED_TYPES})]
BodyTable ==
    [f \in BodyFields |->
        Beyond(f) \union
        Values({BodyAllowed(type)[f] :
                  type \in {t \in ALLOWED_TYPES : f \in DOMAIN BodyAllowed(t)}})]
RootValues(f) == RootTable[f]
BodyValues(f) == BodyTable[f]

HandshakeFields == {"username", "public_key", "nonce", "reason"}
MessageFields == {"ciphertext", "encoding", "algorithm", "nonce", "sent_at"}

Keys(body) == {f \in DOMAIN body : body[f] # "absent"}

(***************************************************************************)
(* The checks.                                                             *)
(***************************************************************************)
Check(holds, code) == [holds |-> holds, code |-> code]

Second(tick) == tick \div TicksPerSecond
Apart(a, b) == IF a < b THEN b - a ELSE a - b

\* Deliberately wrong variants: the difference is not made absolute; whole
\* seconds are compared, and one of them too many.
InWindowFutureOnly(second, t) == second * TicksPerSecond - t <= Tolerance * TicksPerSecond
InWindowLoose(second, t) == Apart(Second(t), second) <= Tolerance + 1

\* Whole seconds in the frame against the exact time now.
InWindow(second, t) ==
    Apart(t, second * TicksPerSecond) <= Tolerance * TicksPerSecond

\* Deliberately wrong variant: dates that do not parse are not caught either.
ValidateTimestampUncaught(value, second, t) ==
    << Check(value = "iso", "OverflowError"),
       Check(InWindow(second, t), "400_TIMESTAMP_OUT_OF_WINDOW") >>

\* Parsing is guarded; the conversion to UTC of what was parsed is not.
ValidateTimestamp(value, second, t) ==
    << Check(value \in {"iso", "edge"}, "400_INVALID_FIELD_TYPE"),
       Check(value # "edge", "OverflowError"),
       Check(InWindow(second, t), "400_TIMESTAMP_OUT_OF_WINDOW") >>

ValidateUsername(value, code) ==
    << Check(value \notin {"absent", "wrong", "null"}, "400_INVALID_FIELD_TYPE"),
       Check(value \in USERNAMES, code) >>

\* Deliberately wrong variant: fields beyond the required ones pass.
StrictPayloadLax(body, required, optional) ==
    << Check(required \subseteq Keys(body), "400_MISSING_FIELD") >>

StrictPayload(body, required, optional) ==
    << Check(Keys(body) \subseteq required \union optional, "400_BAD_FORMAT"),
       Check(required \subseteq Keys(body), "400_MISSING_FIELD") >>

NonEmptyStr(value) ==
    << Check(value # "wrong", "400_INVALID_FIELD_TYPE"),
       Check(value # "empty", "400_INVALID_PAYLOAD") >>

RootChecks(m, t) ==
    << Check(m.root["extra"] = "absent", "400_BAD_FORMAT"),
       Check(\A f \in ROOT_REQUIRED : m.root[f] # "absent", "400_MISSING_FIELD"),
       Check(\A f \in ROOT_REQUIRED : m.root[f] \notin {"wrong", "null"}, "400_INVALID_FIELD_TYPE"),
       Check(m.root["payload"] = "object", "400_INVALID_FIELD_TYPE"),
       Check(m.root["message_id"] = "uuid", "400_INVALID_FIELD_TYPE") >>
    \o ValidateTimestamp(m.root["timestamp"], m.stamp, t)
    \o << Check(m.root["type"] \in ALLOWED_TYPES, "400_INVALID_TYPE") >>

RegisterChecks(m) ==
    ValidateUsername(m.root["from"], "400_INVALID_PAYLOAD")
    \o StrictPayload(m.body, {"username", "public_key"}, {})
    \o ValidateUsername(m.body["username"], "400_INVALID_PAYLOAD")
    \o << Check(m.body["username"] = m.root["from"], "400_INVALID_PAYLOAD") >>
    \o NonEmptyStr(m.body["public_key"])
    \o << Check(m.root["to"] # "wrong", "400_INVALID_FIELD_TYPE"),
          Check(m.root["to"] \in {"absent", "server"}, "400_INVALID_TO") >>

HandshakeInitChecks(m) ==
    << Check(m.root["to"] # "absent", "400_MISSING_FIELD") >>
    \o ValidateUsername(m.root["from"], "400_INVALID_PAYLOAD")
    \o ValidateUsername(m.root["to"], "400_INVALID_TO")
    \o StrictPayload(m.body, HandshakeFields, {})
    \o ValidateUsername(m.body["username"], "400_INVALID_PAYLOAD")
    \o << Check(m.body["username"] = m.root["from"], "400_INVALID_PAYLOAD") >>
    \o NonEmptyStr(m.body["public_key"])
    \o NonEmptyStr(m.body["nonce"])
    \o NonEmptyStr(m.body["reason"])
    \o << Check(m.body["reason"] \in {"ON_DEMAND", "ROTATION", "RETRY"}, "400_INVALID_PAYLOAD") >>

MessageTypeChecks(m, t) ==
    << Check(m.root["to"] # "absent", "400_MISSING_FIELD") >>
    \o ValidateUsername(m.root["from"], "400_INVALID_PAYLOAD")
    \o ValidateUsername(m.root["to"], "400_INVALID_TO")
    \o << Check(m.root["from"] # m.root["to"], "400_INVALID_TO") >>
    \o StrictPayload(m.body, MessageFields, {})
    \o NonEmptyStr(m.body["ciphertext"])
    \o NonEmptyStr(m.body["encoding"])
    \o NonEmptyStr(m.body["algorithm"])
    \o NonEmptyStr(m.body["nonce"])
    \o NonEmptyStr(m.body["sent_at"])
    \o ValidateTimestamp(m.body["sent_at"], m.sentAt, t)
    \o << Check(m.body["encoding"] \in {"base64", "base64url"}, "400_INVALID_PAYLOAD"),
          Check(m.body["algorithm"] = "FERNET", "400_INVALID_PAYLOAD") >>

ErrorTypeChecks(m) ==
    << Check(m.root["from"] = "server", "400_INVALID_PAYLOAD") >>
    \o (IF m.root["to"] = "absent" THEN << >>
        ELSE ValidateUsername(m.root["to"], "400_INVALID_TO"))
    \o StrictPayload(m.body, {"code", "message", "retriable"}, {"details"})
    \o NonEmptyStr(m.body["code"])
    \o NonEmptyStr(m.body["message"])
    \o << Check(m.body["code"] \in ERROR_CODES, "400_INVALID_PAYLOAD"),
          Check(m.body["retriable"] = "boolean", "400_INVALID_FIELD_TYPE"),
          Check(m.body["details"] \in {"absent", "object"}, "400_INVALID_FIELD_TYPE") >>

Checks(m, t) ==
    RootChecks(m, t)
    \o CASE m.root["type"] = "REGISTER" -> RegisterChecks(m)
         [] m.root["type"] = "HANDSHAKE_INIT" -> HandshakeInitChecks(m)
         [] m.root["type"] = "MESSAGE" -> MessageTypeChecks(m, t)
         [] m.root["type"] = "ERROR" -> ErrorTypeChecks(m)
         [] OTHER -> << >>

\* Deliberately wrong variant: no check raises, there is only a general error.
VerdictInternal(m, t) ==
    IF \A i \in DOMAIN Checks(m, t) : Checks(m, t)[i].holds
    THEN "OK" ELSE "500_INTERNAL_ERROR"

\* The first check that fails raises; a frame that passes all is returned.
Verdict(m, t) ==
    LET checks == Checks(m, t)
        first == SelectInSeq(checks, LAMBDA k : ~ k.holds)
    IN  IF first = 0 THEN "OK" ELSE checks[first].code

(***************************************************************************)
(* What the code builds.                                                   *)
(***************************************************************************)
Root(type, from, to) ==
    [f \in RootFields |->
        CASE f = "message_id" -> "uuid"
          [] f = "timestamp" -> "iso"
          [] f = "type" -> type
          [] f = "from" -> from
          [] f = "to" -> to
          [] f = "payload" -> "object"
          [] f = "extra" -> "absent"]

\* Every field that is given, as the code gives it; the rest is absent.
Body(given, username, code) ==
    [f \in BodyFields |->
        IF f \notin given THEN "absent"
        ELSE CASE f = "username" -> username
               [] f = "reason" -> "ON_DEMAND"
               [] f = "encoding" -> "base64url"
               [] f = "algorithm" -> "FERNET"
               [] f = "sent_at" -> "iso"
               [] f = "code" -> code
               [] f = "retriable" -> "boolean"
               [] f = "details" -> "object"
               [] OTHER -> "text"]

BuildRegister(t) ==
    [root |-> Root("REGISTER", "alice", "absent"), stamp |-> Second(t), sentAt |-> 0,
     body |-> Body({"username", "public_key"}, "alice", "")]

\* The same frame offers and answers.
BuildHandshake(t) ==
    [root |-> Root("HANDSHAKE_INIT", "alice", "bob"), stamp |-> Second(t), sentAt |-> 0,
     body |-> Body(HandshakeFields, "alice", "")]

\* Deliberately wrong variant: the payload is not dated.
BuildMessageUndated(t, payloadTime) ==
    [root |-> Root("MESSAGE", "alice", "bob"), stamp |-> Second(t),
     sentAt |-> Second(payloadTime), body |-> Body(MessageFields \ {"sent_at"}, "", "")]

\* The controller dates the payload, the command line the frame around it.
BuildMessage(t, payloadTime) ==
    [root |-> Root("MESSAGE", "alice", "bob"), stamp |-> Second(t),
     sentAt |-> Second(payloadTime), body |-> Body(MessageFields, "", "")]

\* Deliberately wrong variant: nothing is said of a retry.
MakeErrorBare(code, to, t) ==
    [root |-> Root("ERROR", "server", IF to = "null" THEN "absent" ELSE to), stamp |-> Second(t), sentAt |-> 0,
     body |-> Body({"code", "message", "details"}, "", code)]

\* Whoever is given is addressed, unless it is None.
MakeError(code, to, t) ==
    [root |-> Root("ERROR", "server", IF to = "null" THEN "absent" ELSE to), stamp |-> Second(t), sentAt |-> 0,
     body |-> Body({"code", "message", "details", "retriable"}, "", code)]

(***************************************************************************)
(* The journey.                                                            *)
(***************************************************************************)
NoFrame == MakeError("400_BAD_FORMAT", "absent", 0)

Init ==
    /\ phase = "idle"
    /\ now \in 0 .. MaxTime /\ made \in MadeAt
    /\ frame = NoFrame
    /\ changes = 0 /\ readAt = 0
    /\ verdict = "none" /\ guard = "none"

Build(m) ==
    /\ phase = "idle"
    /\ phase' = "flying"
    /\ frame' = m
    /\ UNCHANGED <<now, made, changes, readAt, verdict, guard>>

\* A field is not what the code here would have sent.
ChangeRoot(f, v) ==
    /\ phase = "flying" /\ changes < MaxChanges
    /\ frame' = [frame EXCEPT !.root[f] = v]
    /\ frame' # frame /\ changes' = changes + 1
    /\ UNCHANGED <<phase, now, made, readAt, verdict, guard>>

ChangeBody(f, v) ==
    /\ phase = "flying" /\ changes < MaxChanges
    /\ frame' = [frame EXCEPT !.body[f] = v]
    /\ frame' # frame /\ changes' = changes + 1
    /\ UNCHANGED <<phase, now, made, readAt, verdict, guard>>

Tick ==
    /\ phase \in {"flying", "read"} /\ now < MaxTime
    /\ now' = now + 1
    /\ UNCHANGED <<phase, made, frame, changes, readAt, verdict, guard>>

ReadNow ==
    /\ phase = "flying"
    /\ phase' = "read"
    /\ readAt' = Second(now)
    /\ UNCHANGED <<now, made, frame, changes, verdict, guard>>

\* The guard of a channel looks at the payload's time of a message that passed.
ReplayTime(m, second) ==
    IF Apart(second, m.sentAt) > Tolerance
    THEN "400_REPLAY_TIMESTAMP_INVALID" ELSE "OK"

Validate ==
    /\ phase = "read"
    /\ phase' = "done"
    /\ verdict' = Verdict(frame, now)
    /\ guard' = IF verdict' = "OK" /\ frame.root["type"] = "MESSAGE"
                THEN ReplayTime(frame, readAt) ELSE "none"
    /\ UNCHANGED <<now, made, frame, changes, readAt>>

Next ==
    \/ Build(BuildRegister(made))
    \/ Build(BuildHandshake(made))
    \/ \E late \in {0, 1} : Build(BuildMessage(made, made - late))
    \/ Build(MakeError("409_REMOTE_KEY_CHANGED", "alice", made))
    \/ \E f \in RootFields : \E v \in RootValues(f) : ChangeRoot(f, v)
    \/ \E f \in BodyFields : \E v \in BodyValues(f) : ChangeBody(f, v)
    \/ Tick
    \/ ReadNow
    \/ Validate

Spec == Init /\ [][Next]_vars

(***************************************************************************)
(* Properties.                                                             *)
(***************************************************************************)
TypeOK ==
    /\ phase \in {"idle", "flying", "read", "done"}
    /\ now \in 0 .. MaxTime /\ made \in MadeAt /\ readAt \in 0 .. MaxTime
    /\ \A f \in DOMAIN frame.root : frame.root[f] \in RootValues(f)
    /\ \A f \in DOMAIN frame.body : frame.body[f] \in BodyValues(f)
    /\ changes \in 0 .. MaxChanges
    /\ verdict \in {"none", "OK"} \union Raised
    /\ guard \in {"none", "OK", "400_REPLAY_TIMESTAMP_INVALID"}

WellFormed(m, t) ==
    LET type == m.root["type"] IN
    /\ type \in ALLOWED_TYPES
    /\ \A f \in DOMAIN m.root : m.root[f] \in RootAllowed(type)[f]
    /\ \A f \in BodyFields :
         IF f \in DOMAIN BodyAllowed(type) THEN m.body[f] \in BodyAllowed(type)[f]
         ELSE m.body[f] = "absent"
    /\ type \in {"REGISTER", "HANDSHAKE_INIT"} => m.body["username"] = m.root["from"]
    /\ type = "MESSAGE" => m.root["from"] # m.root["to"] /\ InWindow(m.sentAt, t)
    /\ InWindow(m.stamp, t)

\* Whatever the order of the checks, a frame passes exactly if it satisfies the
\* whole contract of its type: no check is skipped because of another one, and
\* none depends on what an earlier one should have excluded.
AcceptsTheContract == phase = "done" => (verdict = "OK" <=> WellFormed(frame, now))

\* What this code builds, its peers accept, for as long as the tolerance less
\* the second that cutting timestamps may cost, and for that long before.
OwnFramesAccepted ==
    phase = "done" /\ changes = 0
    /\ now - made <= (Tolerance - 1) * TicksPerSecond
    /\ made - now <= (Tolerance - 1) * TicksPerSecond => verdict = "OK"

\* A frame older than the tolerance is refused, also when its parts were dated
\* at different instants.
StaleRefused ==
    phase = "done" /\ now - made > Tolerance * TicksPerSecond => verdict # "OK"

\* What escapes validation without a code is a date at the edge of the calendar
\* and nothing else, and that it does from a frame that is well formed but for
\* its dates: such a frame is not refused, it ends whoever validates it.
AtTheEdge(m) ==
    \/ m.root["timestamp"] = "edge"
    \/ m.root["type"] = "MESSAGE" /\ m.body["sent_at"] = "edge"
DatesMended(m) ==
    [m EXCEPT !.root["timestamp"] = IF @ = "edge" THEN "iso" ELSE @,
              !.body["sent_at"] = IF @ = "edge" THEN "iso" ELSE @]
EscapesOnlyAtTheEdge ==
    phase = "done" =>
        /\ verdict = "OverflowError" => AtTheEdge(frame)
        /\ AtTheEdge(frame) /\ WellFormed(DatesMended(frame), now) => verdict = "OverflowError"

\* Validation and the replay guard read the time at different instants and with
\* different precision.  A message validation let through the guard never
\* refuses as too old, however long passes between the two; it refuses one, as
\* too far ahead, only if the sender's date leads the guard's second by more
\* than the tolerance and a second passed before validation read its own.
GuardRefusesOnlyAhead ==
    phase = "done" /\ verdict = "OK" /\ guard \notin {"none", "OK"} =>
        /\ frame.sentAt > readAt + Tolerance
        /\ frame.sentAt <= Second(now) + Tolerance /\ readAt < Second(now)

\* The ERROR that answers a frame refused with a code is itself valid exactly
\* if the frame's sender is a name or nobody: the answer addresses whatever the
\* refused frame says it is from.
AnswerIsValid ==
    phase = "done" /\ verdict \in ValidationCodes =>
        (Verdict(MakeError(verdict, frame.root["from"], now), now) = "OK"
            <=> frame.root["from"] \in USERNAMES \union {"absent", "null"})

(***************************************************************************)
(* The inductive invariant of the proofs.                                  *)
(***************************************************************************)
Built ==
    {BuildRegister(made), BuildHandshake(made), BuildMessage(made, made),
     BuildMessage(made, made - 1), MakeError("409_REMOTE_KEY_CHANGED", "alice", made)}

\* A frame keeps its fields on the way, and while nothing was changed it is one
\* of those that were built.
FrameKept ==
    /\ DOMAIN frame = {"root", "stamp", "sentAt", "body"}
    /\ DOMAIN frame.root = RootFields /\ DOMAIN frame.body = BodyFields
    /\ phase # "idle" /\ changes = 0 => frame \in Built

\* The dates of a frame are the sender's, none of them after the build.
Dated ==
    /\ frame.stamp \in Nat /\ frame.sentAt \in Nat
    /\ phase # "idle" => frame.stamp = Second(made) /\ frame.sentAt <= Second(made)

\* The receiver judges what it has, at the time it has, and only a message that
\* passed reaches the guard, with a second read no later.
Judged ==
    /\ readAt <= Second(now)
    /\ phase = "done" =>
         /\ verdict = Verdict(frame, now)
         /\ guard = IF verdict = "OK" /\ frame.root["type"] = "MESSAGE"
                    THEN ReplayTime(frame, readAt) ELSE "none"

\* What holds from the build to the verdict, whatever happens to the frame.
IInv == TypeOK /\ FrameKept /\ Dated /\ Judged
=============================================================================
