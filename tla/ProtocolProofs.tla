--------------------------- MODULE ProtocolProofs ---------------------------
(***************************************************************************)
(* That the sequence of checks of validate_message amounts to the table of *)
(* the contract, for every frame and every clock; that what the code       *)
(* builds passes and what is old does not, in exact arithmetic on ticks    *)
(* and seconds; and that the properties of Protocol follow from both, for  *)
(* every tolerance, resolution and number of changed fields.               *)
(***************************************************************************)
EXTENDS Protocol, TLAPS, FiniteSetTheorems, SequenceTheorems

(***************************************************************************)
(* Sequences of checks, and what it takes for all of them to hold.         *)
(***************************************************************************)
\* A set of numbers that is not empty has a least one.
LEMMA FirstExists ==
    ASSUME NEW I \in SUBSET Nat, I # {}
    PROVE  \E i \in I : \A j \in I : i <= j
<1> DEFINE T == {1 .. i : i \in I}
<1>1. T \subseteq FiniteSubsetsOf(Nat) /\ T # {}
  <2>1. \A i \in I : IsFiniteSet(1 .. i) /\ 1 .. i \subseteq Nat
    BY FS_Interval
  <2>2. QED
    BY <2>1 DEF FiniteSubsetsOf
<1>2. PICK x \in T : \A y \in T : ~ (<<y, x>> \in StrictSubsetOrdering(Nat))
  BY <1>1, WFMin, FS_StrictSubsetOrderingWellFounded
<1>3. PICK i \in I : x = 1 .. i
  BY <1>2
<1>4. ASSUME NEW j \in I, j < i
      PROVE  FALSE
  <2>1. 1 .. j \in T /\ 1 .. j \subseteq 1 .. i /\ i \in 1 .. i /\ i \notin 1 .. j
    BY <1>4
  <2>2. <<1 .. j, x>> \in StrictSubsetOrdering(Nat)
    BY <1>3, <2>1 DEF StrictSubsetOrdering
  <2>3. QED
    BY <1>2, <2>1, <2>2
<1>5. QED
  BY <1>3, <1>4

\* A check that raises what validation may raise.
Raising == [holds : BOOLEAN, code : Raised]
AllHold(s) == \A i \in DOMAIN s : s[i].holds

\* All checks of two lists hold if all of each do.
LEMMA AllHoldConcat ==
    ASSUME NEW s \in Seq(Raising), NEW t \in Seq(Raising)
    PROVE  /\ s \o t \in Seq(Raising)
           /\ AllHold(s \o t) <=> AllHold(s) /\ AllHold(t)
<1>1. s \o t \in Seq(Raising)
  OBVIOUS
<1>2. ASSUME AllHold(s \o t), NEW i \in DOMAIN s
      PROVE  s[i].holds
  <2>1. i \in DOMAIN (s \o t) /\ (s \o t)[i] = s[i]
    OBVIOUS
  <2>2. QED
    BY <1>2, <2>1 DEF AllHold
<1>3. ASSUME AllHold(s \o t), NEW i \in DOMAIN t
      PROVE  t[i].holds
  <2>1. i + Len(s) \in DOMAIN (s \o t) /\ (s \o t)[i + Len(s)] = t[i]
    OBVIOUS
  <2>2. QED
    BY <1>3, <2>1 DEF AllHold
<1>4. ASSUME AllHold(s), AllHold(t), NEW i \in DOMAIN (s \o t)
      PROVE  (s \o t)[i].holds
  <2>1. CASE i \in DOMAIN s
    <3>1. (s \o t)[i] = s[i]
      BY <2>1
    <3>2. QED
      BY <1>4, <2>1, <3>1 DEF AllHold
  <2>2. CASE i \notin DOMAIN s
    <3>1. i - Len(s) \in DOMAIN t /\ (s \o t)[i] = t[i - Len(s)]
      BY <2>2
    <3>2. QED
      BY <1>4, <3>1 DEF AllHold
  <2>3. QED
    BY <2>1, <2>2
<1>5. QED
  BY <1>1, <1>2, <1>3, <1>4 DEF AllHold

\* A list of one check holds if the check does;
LEMMA CheckMade ==
    ASSUME NEW holds \in BOOLEAN, NEW code \in Raised
    PROVE  /\ << Check(holds, code) >> \in Seq(Raising)
           /\ AllHold(<< Check(holds, code) >>) <=> holds
BY DEF Check, Raising, AllHold

\* The first failing check decides, so a frame passes exactly if none fails,
\* and a refused one gets the code of a check.
LEMMA VerdictMeaning ==
    ASSUME NEW m, NEW t, Checks(m, t) \in Seq(Raising)
    PROVE  /\ Verdict(m, t) \in {"OK"} \union Raised
           /\ Verdict(m, t) = "OK" <=> AllHold(Checks(m, t))
<1> DEFINE checks == Checks(m, t)
           I == {i \in 1 .. Len(checks) : ~ checks[i].holds}
           first == SelectInSeq(checks, LAMBDA k : ~ k.holds)
<1>1. first = IF I # {} THEN Min(I) ELSE 0
  BY DEF SelectInSeq
<1>2. Verdict(m, t) = IF first = 0 THEN "OK" ELSE checks[first].code
  BY DEF Verdict
<1>3. checks \in Seq(Raising) /\ "OK" \notin Raised
  BY DEF Raised, ValidationCodes
<1> HIDE DEF checks, first
<1>4. CASE I = {}
  BY <1>1, <1>2, <1>3, <1>4 DEF AllHold, checks
<1>5. CASE I # {}
  <2>0. I \in SUBSET Nat
    BY <1>3
  <2> HIDE DEF I
  <2>1. \E i \in I : \A j \in I : i <= j
    BY <1>5, <2>0, FirstExists
  <2>2. Min(I) \in I
    BY <2>1 DEF Min
  <2>3. first # 0 /\ checks[first] \in Raising /\ first \in 1 .. Len(checks)
        /\ ~ checks[first].holds
    BY <1>1, <1>3, <1>5, <2>2 DEF I
  <2>4. Verdict(m, t) \in Raised
    BY <1>2, <2>3 DEF Raising
  <2>5. ~ AllHold(Checks(m, t))
    BY <1>3, <2>3 DEF AllHold, checks
  <2>6. QED
    BY <1>3, <2>4, <2>5
<1>6. QED
  BY <1>4, <1>5

\* a list of two if both do,
LEMMA TwoChecks ==
    ASSUME NEW P \in BOOLEAN, NEW Q \in BOOLEAN,
           NEW x \in Raised, NEW y \in Raised
    PROVE  /\ << Check(P, x), Check(Q, y) >> \in Seq(Raising)
           /\ AllHold(<< Check(P, x), Check(Q, y) >>) <=> P /\ Q
BY DEF Check, Raising, AllHold

\* of three if all three do.
LEMMA ThreeChecks ==
    ASSUME NEW P \in BOOLEAN, NEW Q \in BOOLEAN, NEW R \in BOOLEAN,
           NEW x \in Raised, NEW y \in Raised, NEW z \in Raised
    PROVE  /\ << Check(P, x), Check(Q, y), Check(R, z) >> \in Seq(Raising)
           /\ AllHold(<< Check(P, x), Check(Q, y), Check(R, z) >>) <=> P /\ Q /\ R
BY DEF Check, Raising, AllHold

\* Four lists one after the other.
LEMMA FourConcat ==
    ASSUME NEW s1 \in Seq(Raising), NEW s2 \in Seq(Raising),
           NEW s3 \in Seq(Raising), NEW s4 \in Seq(Raising)
    PROVE  /\ s1 \o s2 \o s3 \o s4 \in Seq(Raising)
           /\ AllHold(s1 \o s2 \o s3 \o s4)
                <=> AllHold(s1) /\ AllHold(s2) /\ AllHold(s3) /\ AllHold(s4)
<1>1. /\ s1 \o s2 \in Seq(Raising)
      /\ AllHold(s1 \o s2) <=> AllHold(s1) /\ AllHold(s2)
  BY AllHoldConcat
<1>2. /\ s1 \o s2 \o s3 \in Seq(Raising)
      /\ AllHold(s1 \o s2 \o s3) <=> AllHold(s1 \o s2) /\ AllHold(s3)
  BY <1>1, AllHoldConcat
<1>3. /\ s1 \o s2 \o s3 \o s4 \in Seq(Raising)
      /\ AllHold(s1 \o s2 \o s3 \o s4) <=> AllHold(s1 \o s2 \o s3) /\ AllHold(s4)
  BY <1>2, AllHoldConcat
<1>4. QED
  BY <1>1, <1>2, <1>3

\* What the helpers of the validator ask for: of a timestamp,
LEMMA TimestampChecks ==
    ASSUME NEW value, NEW second \in Int, NEW t \in Int
    PROVE  /\ ValidateTimestamp(value, second, t) \in Seq(Raising)
           /\ AllHold(ValidateTimestamp(value, second, t))
                <=> value = "iso" /\ InWindow(second, t)
<1> DEFINE P == value \in {"iso", "edge"}
           Q == value # "edge"
           R == InWindow(second, t)
<1>1. /\ P \in BOOLEAN /\ Q \in BOOLEAN /\ R \in BOOLEAN
      /\ {"400_INVALID_FIELD_TYPE", "OverflowError", "400_TIMESTAMP_OUT_OF_WINDOW"} \subseteq Raised
  BY DEF InWindow, Raised, ValidationCodes
<1>2. ValidateTimestamp(value, second, t) =
          << Check(P, "400_INVALID_FIELD_TYPE"), Check(Q, "OverflowError"),
             Check(R, "400_TIMESTAMP_OUT_OF_WINDOW") >>
  BY DEF ValidateTimestamp
<1>3. P /\ Q <=> value = "iso"
  OBVIOUS
<1> HIDE DEF P, Q, R
<1>4. /\ ValidateTimestamp(value, second, t) \in Seq(Raising)
      /\ AllHold(ValidateTimestamp(value, second, t)) <=> P /\ Q /\ R
  BY <1>1, <1>2, ThreeChecks
<1>5. QED
  BY <1>3, <1>4 DEF R

\* of a username,
LEMMA UsernameChecks ==
    ASSUME NEW value, NEW code \in Raised
    PROVE  /\ ValidateUsername(value, code) \in Seq(Raising)
           /\ AllHold(ValidateUsername(value, code)) <=> value \in USERNAMES
<1> DEFINE P == value \notin {"absent", "wrong", "null"}
           Q == value \in USERNAMES
<1>1. P \in BOOLEAN /\ Q \in BOOLEAN /\ "400_INVALID_FIELD_TYPE" \in Raised
  BY DEF Raised, ValidationCodes
<1>2. ValidateUsername(value, code) = << Check(P, "400_INVALID_FIELD_TYPE"), Check(Q, code) >>
  BY DEF ValidateUsername
<1>3. Q => P
  BY DEF USERNAMES
<1> HIDE DEF P, Q
<1>4. /\ ValidateUsername(value, code) \in Seq(Raising)
      /\ AllHold(ValidateUsername(value, code)) <=> P /\ Q
  BY <1>1, <1>2, TwoChecks
<1>5. QED
  BY <1>3, <1>4 DEF Q

\* of the fields of a payload,
LEMMA StrictChecks ==
    ASSUME NEW body, NEW required, NEW optional
    PROVE  /\ StrictPayload(body, required, optional) \in Seq(Raising)
           /\ AllHold(StrictPayload(body, required, optional))
                <=> /\ Keys(body) \subseteq required \union optional
                    /\ required \subseteq Keys(body)
<1> DEFINE P == Keys(body) \subseteq required \union optional
           Q == required \subseteq Keys(body)
<1>1. /\ P \in BOOLEAN /\ Q \in BOOLEAN
      /\ {"400_BAD_FORMAT", "400_MISSING_FIELD"} \subseteq Raised
  BY DEF Raised, ValidationCodes
<1>2. StrictPayload(body, required, optional) =
          << Check(P, "400_BAD_FORMAT"), Check(Q, "400_MISSING_FIELD") >>
  BY DEF StrictPayload
<1> HIDE DEF P, Q
<1>3. /\ StrictPayload(body, required, optional) \in Seq(Raising)
      /\ AllHold(StrictPayload(body, required, optional)) <=> P /\ Q
  BY <1>1, <1>2, TwoChecks
<1>4. QED
  BY <1>3 DEF P, Q

\* of a text.
LEMMA NonEmptyChecks ==
    ASSUME NEW value
    PROVE  /\ NonEmptyStr(value) \in Seq(Raising)
           /\ AllHold(NonEmptyStr(value)) <=> value \notin {"wrong", "empty"}
<1> DEFINE P == value # "wrong"
           Q == value # "empty"
<1>1. /\ P \in BOOLEAN /\ Q \in BOOLEAN
      /\ {"400_INVALID_FIELD_TYPE", "400_INVALID_PAYLOAD"} \subseteq Raised
  BY DEF Raised, ValidationCodes
<1>2. NonEmptyStr(value) =
          << Check(P, "400_INVALID_FIELD_TYPE"), Check(Q, "400_INVALID_PAYLOAD") >>
  BY DEF NonEmptyStr
<1> HIDE DEF P, Q
<1>3. P /\ Q <=> value \notin {"wrong", "empty"}
  BY DEF P, Q
<1>4. QED
  BY <1>1, <1>2, <1>3, TwoChecks

\* What the checks of a registration ask for, without their order.
RegisterHolds(m) ==
    /\ m.root["from"] \in USERNAMES
    /\ Keys(m.body) = {"username", "public_key"}
    /\ m.body["username"] = m.root["from"]
    /\ m.body["public_key"] \notin {"wrong", "empty"}
    /\ m.root["to"] \in {"absent", "server"}

\* The checks of a registration hold together exactly if that does.
LEMMA RegisterMeaning ==
    ASSUME NEW m
    PROVE  /\ RegisterChecks(m) \in Seq(Raising)
           /\ AllHold(RegisterChecks(m)) <=> RegisterHolds(m)
<1> DEFINE s1 == ValidateUsername(m.root["from"], "400_INVALID_PAYLOAD")
           s2 == StrictPayload(m.body, {"username", "public_key"}, {})
           s3 == ValidateUsername(m.body["username"], "400_INVALID_PAYLOAD")
           s4 == << Check(m.body["username"] = m.root["from"], "400_INVALID_PAYLOAD") >>
           s5 == NonEmptyStr(m.body["public_key"])
           s6 == << Check(m.root["to"] # "wrong", "400_INVALID_FIELD_TYPE"),
                    Check(m.root["to"] \in {"absent", "server"}, "400_INVALID_TO") >>
<1>1. {"400_INVALID_FIELD_TYPE", "400_INVALID_PAYLOAD", "400_INVALID_TO"} \subseteq Raised
  BY DEF Raised, ValidationCodes
<1>2. /\ s1 \in Seq(Raising) /\ s2 \in Seq(Raising) /\ s3 \in Seq(Raising)
      /\ s5 \in Seq(Raising)
      /\ AllHold(s1) <=> m.root["from"] \in USERNAMES
      /\ AllHold(s2) <=> /\ Keys(m.body) \subseteq {"username", "public_key"} \union {}
                         /\ {"username", "public_key"} \subseteq Keys(m.body)
      /\ AllHold(s3) <=> m.body["username"] \in USERNAMES
      /\ AllHold(s5) <=> m.body["public_key"] \notin {"wrong", "empty"}
  BY <1>1, UsernameChecks, StrictChecks, NonEmptyChecks
<1>3. /\ s4 \in Seq(Raising)
      /\ AllHold(s4) <=> m.body["username"] = m.root["from"]
  BY <1>1, CheckMade
<1>4. /\ s6 \in Seq(Raising)
      /\ AllHold(s6) <=> m.root["to"] # "wrong" /\ m.root["to"] \in {"absent", "server"}
  <2> DEFINE P == m.root["to"] # "wrong"
             Q == m.root["to"] \in {"absent", "server"}
  <2>1. /\ P \in BOOLEAN /\ Q \in BOOLEAN
        /\ s6 = << Check(P, "400_INVALID_FIELD_TYPE"), Check(Q, "400_INVALID_TO") >>
    OBVIOUS
  <2> HIDE DEF P, Q, s6
  <2>2. s6 \in Seq(Raising) /\ (AllHold(s6) <=> P /\ Q)
    BY <1>1, <2>1, TwoChecks
  <2>3. QED
    BY <2>2 DEF P, Q
<1>5. RegisterChecks(m) = s1 \o s2 \o s3 \o s4 \o s5 \o s6
  BY DEF RegisterChecks
<1> HIDE DEF s1, s2, s3, s4, s5, s6
<1>6. /\ s1 \o s2 \o s3 \o s4 \in Seq(Raising)
      /\ AllHold(s1 \o s2 \o s3 \o s4)
           <=> AllHold(s1) /\ AllHold(s2) /\ AllHold(s3) /\ AllHold(s4)
  BY <1>2, <1>3, FourConcat
<1>7. /\ s1 \o s2 \o s3 \o s4 \o s5 \in Seq(Raising)
      /\ AllHold(s1 \o s2 \o s3 \o s4 \o s5)
           <=> AllHold(s1 \o s2 \o s3 \o s4) /\ AllHold(s5)
  BY <1>2, <1>6, AllHoldConcat
<1>8. /\ s1 \o s2 \o s3 \o s4 \o s5 \o s6 \in Seq(Raising)
      /\ AllHold(s1 \o s2 \o s3 \o s4 \o s5 \o s6)
           <=> AllHold(s1 \o s2 \o s3 \o s4 \o s5) /\ AllHold(s6)
  BY <1>4, <1>7, AllHoldConcat
<1>9. QED
  BY <1>2, <1>3, <1>4, <1>5, <1>6, <1>7, <1>8 DEF RegisterHolds, USERNAMES

\* What the checks of a handshake ask for.
HandshakeHolds(m) ==
    /\ m.root["from"] \in USERNAMES /\ m.root["to"] \in USERNAMES
    /\ Keys(m.body) = HandshakeFields
    /\ m.body["username"] = m.root["from"]
    /\ m.body["public_key"] \notin {"wrong", "empty"}
    /\ m.body["nonce"] \notin {"wrong", "empty"}
    /\ m.body["reason"] \in {"ON_DEMAND", "ROTATION", "RETRY"}

\* The same of a handshake frame,
LEMMA HandshakeInitMeaning ==
    ASSUME NEW m
    PROVE  /\ HandshakeInitChecks(m) \in Seq(Raising)
           /\ AllHold(HandshakeInitChecks(m)) <=> HandshakeHolds(m)
<1> DEFINE s1 == << Check(m.root["to"] # "absent", "400_MISSING_FIELD") >>
           s2 == ValidateUsername(m.root["from"], "400_INVALID_PAYLOAD")
           s3 == ValidateUsername(m.root["to"], "400_INVALID_TO")
           s4 == StrictPayload(m.body, HandshakeFields, {})
           s5 == ValidateUsername(m.body["username"], "400_INVALID_PAYLOAD")
           s6 == << Check(m.body["username"] = m.root["from"], "400_INVALID_PAYLOAD") >>
           s7 == NonEmptyStr(m.body["public_key"])
           s8 == NonEmptyStr(m.body["nonce"])
           s9 == NonEmptyStr(m.body["reason"])
           s10 == << Check(m.body["reason"] \in {"ON_DEMAND", "ROTATION", "RETRY"}, "400_INVALID_PAYLOAD") >>
<1>1. {"400_MISSING_FIELD", "400_INVALID_PAYLOAD", "400_INVALID_TO", "400_INVALID_FIELD_TYPE"}
          \subseteq Raised
  BY DEF Raised, ValidationCodes
<1>2. /\ s2 \in Seq(Raising) /\ (AllHold(s2) <=> m.root["from"] \in USERNAMES)
      /\ s3 \in Seq(Raising) /\ (AllHold(s3) <=> m.root["to"] \in USERNAMES)
      /\ s4 \in Seq(Raising) /\ (AllHold(s4) <=> Keys(m.body) \subseteq HandshakeFields \union {} /\ HandshakeFields \subseteq Keys(m.body))
      /\ s5 \in Seq(Raising) /\ (AllHold(s5) <=> m.body["username"] \in USERNAMES)
      /\ s7 \in Seq(Raising) /\ (AllHold(s7) <=> m.body["public_key"] \notin {"wrong", "empty"})
      /\ s8 \in Seq(Raising) /\ (AllHold(s8) <=> m.body["nonce"] \notin {"wrong", "empty"})
      /\ s9 \in Seq(Raising) /\ (AllHold(s9) <=> m.body["reason"] \notin {"wrong", "empty"})
  BY <1>1, NonEmptyChecks, StrictChecks, UsernameChecks
<1>3. s1 \in Seq(Raising) /\ (AllHold(s1) <=> m.root["to"] # "absent")
  <2> DEFINE P == m.root["to"] # "absent"
  <2>1. P \in BOOLEAN /\ s1 = << Check(P, "400_MISSING_FIELD") >>
    OBVIOUS
  <2> HIDE DEF P, s1
  <2>2. s1 \in Seq(Raising) /\ (AllHold(s1) <=> P)
    BY <1>1, <2>1, CheckMade
  <2>3. QED
    BY <2>2 DEF P
<1>4. s6 \in Seq(Raising) /\ (AllHold(s6) <=> m.body["username"] = m.root["from"])
  <2> DEFINE P == m.body["username"] = m.root["from"]
  <2>1. P \in BOOLEAN /\ s6 = << Check(P, "400_INVALID_PAYLOAD") >>
    OBVIOUS
  <2> HIDE DEF P, s6
  <2>2. s6 \in Seq(Raising) /\ (AllHold(s6) <=> P)
    BY <1>1, <2>1, CheckMade
  <2>3. QED
    BY <2>2 DEF P
<1>5. s10 \in Seq(Raising) /\ (AllHold(s10) <=> m.body["reason"] \in {"ON_DEMAND", "ROTATION", "RETRY"})
  <2> DEFINE P == m.body["reason"] \in {"ON_DEMAND", "ROTATION", "RETRY"}
  <2>1. P \in BOOLEAN /\ s10 = << Check(P, "400_INVALID_PAYLOAD") >>
    OBVIOUS
  <2> HIDE DEF P, s10
  <2>2. s10 \in Seq(Raising) /\ (AllHold(s10) <=> P)
    BY <1>1, <2>1, CheckMade
  <2>3. QED
    BY <2>2 DEF P
<1>6. HandshakeInitChecks(m) = s1 \o s2 \o s3 \o s4 \o s5 \o s6 \o s7 \o s8 \o s9 \o s10
  BY DEF HandshakeInitChecks
<1> HIDE DEF s1, s2, s3, s4, s5, s6, s7, s8, s9, s10
<1>7. /\ s1 \o s2 \o s3 \o s4 \in Seq(Raising)
      /\ AllHold(s1 \o s2 \o s3 \o s4)
           <=> AllHold(s1) /\ AllHold(s2) /\ AllHold(s3) /\ AllHold(s4)
  BY <1>2, <1>3, <1>4, <1>5, FourConcat
<1>8. /\ s1 \o s2 \o s3 \o s4 \o s5 \o s6 \o s7 \in Seq(Raising)
      /\ AllHold(s1 \o s2 \o s3 \o s4 \o s5 \o s6 \o s7)
           <=> AllHold(s1 \o s2 \o s3 \o s4) /\ AllHold(s5) /\ AllHold(s6) /\ AllHold(s7)
  BY <1>2, <1>3, <1>4, <1>5, <1>7, FourConcat
<1>9. /\ s1 \o s2 \o s3 \o s4 \o s5 \o s6 \o s7 \o s8 \o s9 \o s10 \in Seq(Raising)
      /\ AllHold(s1 \o s2 \o s3 \o s4 \o s5 \o s6 \o s7 \o s8 \o s9 \o s10)
           <=> AllHold(s1 \o s2 \o s3 \o s4 \o s5 \o s6 \o s7) /\ AllHold(s8) /\ AllHold(s9) /\ AllHold(s10)
  BY <1>2, <1>3, <1>4, <1>5, <1>8, FourConcat
<1>10. AllHold(HandshakeInitChecks(m)) <=> AllHold(s1) /\ AllHold(s2) /\ AllHold(s3) /\ AllHold(s4) /\ AllHold(s5) /\ AllHold(s6) /\ AllHold(s7) /\ AllHold(s8) /\ AllHold(s9) /\ AllHold(s10)
  BY <1>6, <1>7, <1>8, <1>9
<1>11. QED
  BY <1>2, <1>3, <1>4, <1>5, <1>6, <1>9, <1>10 DEF HandshakeHolds, USERNAMES

\* What the checks of a message ask for.
MessageHolds(m, t) ==
    /\ m.root["from"] \in USERNAMES /\ m.root["to"] \in USERNAMES
    /\ m.root["from"] # m.root["to"]
    /\ Keys(m.body) = MessageFields
    /\ m.body["ciphertext"] \notin {"wrong", "empty"}
    /\ m.body["nonce"] \notin {"wrong", "empty"}
    /\ m.body["sent_at"] = "iso" /\ InWindow(m.sentAt, t)
    /\ m.body["encoding"] \in {"base64", "base64url"}
    /\ m.body["algorithm"] = "FERNET"

\* of a message,
LEMMA MessageTypeMeaning ==
    ASSUME NEW m, m.sentAt \in Int, NEW t \in Int
    PROVE  /\ MessageTypeChecks(m, t) \in Seq(Raising)
           /\ AllHold(MessageTypeChecks(m, t)) <=> MessageHolds(m, t)
<1> DEFINE s1 == << Check(m.root["to"] # "absent", "400_MISSING_FIELD") >>
           s2 == ValidateUsername(m.root["from"], "400_INVALID_PAYLOAD")
           s3 == ValidateUsername(m.root["to"], "400_INVALID_TO")
           s4 == << Check(m.root["from"] # m.root["to"], "400_INVALID_TO") >>
           s5 == StrictPayload(m.body, MessageFields, {})
           s6 == NonEmptyStr(m.body["ciphertext"])
           s7 == NonEmptyStr(m.body["encoding"])
           s8 == NonEmptyStr(m.body["algorithm"])
           s9 == NonEmptyStr(m.body["nonce"])
           s10 == NonEmptyStr(m.body["sent_at"])
           s11 == ValidateTimestamp(m.body["sent_at"], m.sentAt, t)
           s12 == << Check(m.body["encoding"] \in {"base64", "base64url"}, "400_INVALID_PAYLOAD"),
                    Check(m.body["algorithm"] = "FERNET", "400_INVALID_PAYLOAD") >>
<1>1. {"400_MISSING_FIELD", "400_INVALID_PAYLOAD", "400_INVALID_TO", "400_INVALID_FIELD_TYPE"}
          \subseteq Raised
  BY DEF Raised, ValidationCodes
<1>2. /\ s2 \in Seq(Raising) /\ (AllHold(s2) <=> m.root["from"] \in USERNAMES)
      /\ s3 \in Seq(Raising) /\ (AllHold(s3) <=> m.root["to"] \in USERNAMES)
      /\ s5 \in Seq(Raising) /\ (AllHold(s5) <=> Keys(m.body) \subseteq MessageFields \union {} /\ MessageFields \subseteq Keys(m.body))
      /\ s6 \in Seq(Raising) /\ (AllHold(s6) <=> m.body["ciphertext"] \notin {"wrong", "empty"})
      /\ s7 \in Seq(Raising) /\ (AllHold(s7) <=> m.body["encoding"] \notin {"wrong", "empty"})
      /\ s8 \in Seq(Raising) /\ (AllHold(s8) <=> m.body["algorithm"] \notin {"wrong", "empty"})
      /\ s9 \in Seq(Raising) /\ (AllHold(s9) <=> m.body["nonce"] \notin {"wrong", "empty"})
      /\ s10 \in Seq(Raising) /\ (AllHold(s10) <=> m.body["sent_at"] \notin {"wrong", "empty"})
      /\ s11 \in Seq(Raising) /\ (AllHold(s11) <=> m.body["sent_at"] = "iso" /\ InWindow(m.sentAt, t))
  BY <1>1, NonEmptyChecks, StrictChecks, TimestampChecks, UsernameChecks
<1>3. s1 \in Seq(Raising) /\ (AllHold(s1) <=> m.root["to"] # "absent")
  <2> DEFINE P == m.root["to"] # "absent"
  <2>1. P \in BOOLEAN /\ s1 = << Check(P, "400_MISSING_FIELD") >>
    OBVIOUS
  <2> HIDE DEF P, s1
  <2>2. s1 \in Seq(Raising) /\ (AllHold(s1) <=> P)
    BY <1>1, <2>1, CheckMade
  <2>3. QED
    BY <2>2 DEF P
<1>4. s4 \in Seq(Raising) /\ (AllHold(s4) <=> m.root["from"] # m.root["to"])
  <2> DEFINE P == m.root["from"] # m.root["to"]
  <2>1. P \in BOOLEAN /\ s4 = << Check(P, "400_INVALID_TO") >>
    OBVIOUS
  <2> HIDE DEF P, s4
  <2>2. s4 \in Seq(Raising) /\ (AllHold(s4) <=> P)
    BY <1>1, <2>1, CheckMade
  <2>3. QED
    BY <2>2 DEF P
<1>5. s12 \in Seq(Raising) /\ (AllHold(s12) <=> m.body["encoding"] \in {"base64", "base64url"} /\ m.body["algorithm"] = "FERNET")
  <2> DEFINE P == m.body["encoding"] \in {"base64", "base64url"}
             Q == m.body["algorithm"] = "FERNET"
  <2>1. /\ P \in BOOLEAN /\ Q \in BOOLEAN
        /\ s12 = << Check(P, "400_INVALID_PAYLOAD"), Check(Q, "400_INVALID_PAYLOAD") >>
    OBVIOUS
  <2> HIDE DEF P, Q, s12
  <2>2. s12 \in Seq(Raising) /\ (AllHold(s12) <=> P /\ Q)
    BY <1>1, <2>1, TwoChecks
  <2>3. QED
    BY <2>2 DEF P, Q
<1>6. MessageTypeChecks(m, t) = s1 \o s2 \o s3 \o s4 \o s5 \o s6 \o s7 \o s8 \o s9 \o s10 \o s11 \o s12
  BY DEF MessageTypeChecks
<1> HIDE DEF s1, s2, s3, s4, s5, s6, s7, s8, s9, s10, s11, s12
<1>7. /\ s1 \o s2 \o s3 \o s4 \in Seq(Raising)
      /\ AllHold(s1 \o s2 \o s3 \o s4)
           <=> AllHold(s1) /\ AllHold(s2) /\ AllHold(s3) /\ AllHold(s4)
  BY <1>2, <1>3, <1>4, <1>5, FourConcat
<1>8. /\ s1 \o s2 \o s3 \o s4 \o s5 \o s6 \o s7 \in Seq(Raising)
      /\ AllHold(s1 \o s2 \o s3 \o s4 \o s5 \o s6 \o s7)
           <=> AllHold(s1 \o s2 \o s3 \o s4) /\ AllHold(s5) /\ AllHold(s6) /\ AllHold(s7)
  BY <1>2, <1>3, <1>4, <1>5, <1>7, FourConcat
<1>9. /\ s1 \o s2 \o s3 \o s4 \o s5 \o s6 \o s7 \o s8 \o s9 \o s10 \in Seq(Raising)
      /\ AllHold(s1 \o s2 \o s3 \o s4 \o s5 \o s6 \o s7 \o s8 \o s9 \o s10)
           <=> AllHold(s1 \o s2 \o s3 \o s4 \o s5 \o s6 \o s7) /\ AllHold(s8) /\ AllHold(s9) /\ AllHold(s10)
  BY <1>2, <1>3, <1>4, <1>5, <1>8, FourConcat
<1>10. /\ s1 \o s2 \o s3 \o s4 \o s5 \o s6 \o s7 \o s8 \o s9 \o s10 \o s11 \in Seq(Raising)
       /\ AllHold(s1 \o s2 \o s3 \o s4 \o s5 \o s6 \o s7 \o s8 \o s9 \o s10 \o s11)
           <=> AllHold(s1 \o s2 \o s3 \o s4 \o s5 \o s6 \o s7 \o s8 \o s9 \o s10) /\ AllHold(s11)
  BY <1>2, <1>3, <1>4, <1>5, <1>9, AllHoldConcat
<1>11. /\ s1 \o s2 \o s3 \o s4 \o s5 \o s6 \o s7 \o s8 \o s9 \o s10 \o s11 \o s12 \in Seq(Raising)
       /\ AllHold(s1 \o s2 \o s3 \o s4 \o s5 \o s6 \o s7 \o s8 \o s9 \o s10 \o s11 \o s12)
           <=> AllHold(s1 \o s2 \o s3 \o s4 \o s5 \o s6 \o s7 \o s8 \o s9 \o s10 \o s11) /\ AllHold(s12)
  BY <1>2, <1>3, <1>4, <1>5, <1>10, AllHoldConcat
<1>12. AllHold(MessageTypeChecks(m, t)) <=> AllHold(s1) /\ AllHold(s2) /\ AllHold(s3) /\ AllHold(s4) /\ AllHold(s5) /\ AllHold(s6) /\ AllHold(s7) /\ AllHold(s8) /\ AllHold(s9) /\ AllHold(s10) /\ AllHold(s11) /\ AllHold(s12)
  BY <1>6, <1>7, <1>8, <1>9, <1>10, <1>11
<1>13. QED
  BY <1>2, <1>3, <1>4, <1>5, <1>6, <1>11, <1>12 DEF MessageHolds, USERNAMES

\* What the checks of an error ask for.
ErrorHolds(m) ==
    /\ m.root["from"] = "server" /\ m.root["to"] \in USERNAMES \union {"absent"}
    /\ {"code", "message", "retriable"} \subseteq Keys(m.body)
    /\ Keys(m.body) \subseteq {"code", "message", "retriable", "details"}
    /\ m.body["message"] \notin {"wrong", "empty"}
    /\ m.body["code"] \in ERROR_CODES /\ m.body["retriable"] = "boolean"
    /\ m.body["details"] \in {"absent", "object"}

\* and of an error.
LEMMA ErrorTypeMeaning ==
    ASSUME NEW m
    PROVE  /\ ErrorTypeChecks(m) \in Seq(Raising)
           /\ AllHold(ErrorTypeChecks(m)) <=> ErrorHolds(m)
<1> DEFINE s1 == << Check(m.root["from"] = "server", "400_INVALID_PAYLOAD") >>
           s2 == (IF m.root["to"] = "absent" THEN << >>
                  ELSE ValidateUsername(m.root["to"], "400_INVALID_TO"))
           s3 == StrictPayload(m.body, {"code", "message", "retriable"}, {"details"})
           s4 == NonEmptyStr(m.body["code"])
           s5 == NonEmptyStr(m.body["message"])
           s6 == << Check(m.body["code"] \in ERROR_CODES, "400_INVALID_PAYLOAD"),
                    Check(m.body["retriable"] = "boolean", "400_INVALID_FIELD_TYPE"),
                    Check(m.body["details"] \in {"absent", "object"}, "400_INVALID_FIELD_TYPE") >>
<1>1. {"400_MISSING_FIELD", "400_INVALID_PAYLOAD", "400_INVALID_TO", "400_INVALID_FIELD_TYPE"}
          \subseteq Raised
  BY DEF Raised, ValidationCodes
<1>2. /\ s3 \in Seq(Raising) /\ (AllHold(s3) <=> Keys(m.body) \subseteq {"code", "message", "retriable"} \union {"details"} /\ {"code", "message", "retriable"} \subseteq Keys(m.body))
      /\ s4 \in Seq(Raising) /\ (AllHold(s4) <=> m.body["code"] \notin {"wrong", "empty"})
      /\ s5 \in Seq(Raising) /\ (AllHold(s5) <=> m.body["message"] \notin {"wrong", "empty"})
  BY <1>1, NonEmptyChecks, StrictChecks
<1>3. s2 \in Seq(Raising) /\ (AllHold(s2) <=> m.root["to"] \in USERNAMES \union {"absent"})
  <2>1. CASE m.root["to"] = "absent"
    <3>1. s2 = << >>
      BY <2>1
    <3>2. << >> \in Seq(Raising) /\ AllHold(<< >>)
      BY DEF AllHold
    <3>3. QED
      BY <2>1, <3>1, <3>2
  <2>2. CASE m.root["to"] # "absent"
    <3>1. s2 = ValidateUsername(m.root["to"], "400_INVALID_TO")
      BY <2>2
    <3>2. QED
      BY <1>1, <2>2, <3>1, UsernameChecks
  <2>3. QED
    BY <2>1, <2>2
<1>4. s1 \in Seq(Raising) /\ (AllHold(s1) <=> m.root["from"] = "server")
  <2> DEFINE P == m.root["from"] = "server"
  <2>1. P \in BOOLEAN /\ s1 = << Check(P, "400_INVALID_PAYLOAD") >>
    OBVIOUS
  <2> HIDE DEF P, s1
  <2>2. s1 \in Seq(Raising) /\ (AllHold(s1) <=> P)
    BY <1>1, <2>1, CheckMade
  <2>3. QED
    BY <2>2 DEF P
<1>5. s6 \in Seq(Raising) /\ (AllHold(s6) <=> m.body["code"] \in ERROR_CODES /\ m.body["retriable"] = "boolean"
               /\ m.body["details"] \in {"absent", "object"})
  <2> DEFINE P == m.body["code"] \in ERROR_CODES
             Q == m.body["retriable"] = "boolean"
             R == m.body["details"] \in {"absent", "object"}
  <2>1. /\ P \in BOOLEAN /\ Q \in BOOLEAN /\ R \in BOOLEAN
        /\ s6 = << Check(P, "400_INVALID_PAYLOAD"), Check(Q, "400_INVALID_FIELD_TYPE"), Check(R, "400_INVALID_FIELD_TYPE") >>
    OBVIOUS
  <2> HIDE DEF P, Q, R, s6
  <2>2. s6 \in Seq(Raising) /\ (AllHold(s6) <=> P /\ Q /\ R)
    BY <1>1, <2>1, ThreeChecks
  <2>3. QED
    BY <2>2 DEF P, Q, R
<1>6. ErrorTypeChecks(m) = s1 \o s2 \o s3 \o s4 \o s5 \o s6
  BY DEF ErrorTypeChecks
<1> HIDE DEF s1, s2, s3, s4, s5, s6
<1>7. /\ s1 \o s2 \o s3 \o s4 \in Seq(Raising)
      /\ AllHold(s1 \o s2 \o s3 \o s4)
           <=> AllHold(s1) /\ AllHold(s2) /\ AllHold(s3) /\ AllHold(s4)
  BY <1>2, <1>3, <1>4, <1>5, FourConcat
<1>8. /\ s1 \o s2 \o s3 \o s4 \o s5 \in Seq(Raising)
      /\ AllHold(s1 \o s2 \o s3 \o s4 \o s5)
           <=> AllHold(s1 \o s2 \o s3 \o s4) /\ AllHold(s5)
  BY <1>2, <1>3, <1>4, <1>5, <1>7, AllHoldConcat
<1>9. /\ s1 \o s2 \o s3 \o s4 \o s5 \o s6 \in Seq(Raising)
      /\ AllHold(s1 \o s2 \o s3 \o s4 \o s5 \o s6)
           <=> AllHold(s1 \o s2 \o s3 \o s4 \o s5) /\ AllHold(s6)
  BY <1>2, <1>3, <1>4, <1>5, <1>8, AllHoldConcat
<1>10. AllHold(ErrorTypeChecks(m)) <=> AllHold(s1) /\ AllHold(s2) /\ AllHold(s3) /\ AllHold(s4) /\ AllHold(s5) /\ AllHold(s6)
  BY <1>6, <1>7, <1>8, <1>9
<1>11. QED
  BY <1>2, <1>3, <1>4, <1>5, <1>6, <1>9, <1>10 DEF ErrorHolds, ERROR_CODES, ValidationCodes

\* What is asked of every frame.
RootHolds(m, t) ==
    /\ m.root["extra"] = "absent"
    /\ \A f \in ROOT_REQUIRED : m.root[f] \notin {"absent", "wrong", "null"}
    /\ m.root["payload"] = "object" /\ m.root["message_id"] = "uuid"
    /\ m.root["timestamp"] = "iso" /\ InWindow(m.stamp, t)
    /\ m.root["type"] \in ALLOWED_TYPES

\* The checks of the root hold together exactly if that does.
LEMMA RootMeaning ==
    ASSUME NEW m, m.stamp \in Int, NEW t \in Int
    PROVE  /\ RootChecks(m, t) \in Seq(Raising)
           /\ AllHold(RootChecks(m, t)) <=> RootHolds(m, t)
<1> DEFINE P1 == m.root["extra"] = "absent"
           P2 == \A f \in ROOT_REQUIRED : m.root[f] # "absent"
           P3 == \A f \in ROOT_REQUIRED : m.root[f] \notin {"wrong", "null"}
           P4 == m.root["payload"] = "object"
           P5 == m.root["message_id"] = "uuid"
           P6 == m.root["type"] \in ALLOWED_TYPES
           s1 == << Check(P1, "400_BAD_FORMAT"), Check(P2, "400_MISSING_FIELD"),
                    Check(P3, "400_INVALID_FIELD_TYPE"), Check(P4, "400_INVALID_FIELD_TYPE"),
                    Check(P5, "400_INVALID_FIELD_TYPE") >>
           s2 == ValidateTimestamp(m.root["timestamp"], m.stamp, t)
           s3 == << Check(P6, "400_INVALID_TYPE") >>
<1>1. /\ {"400_BAD_FORMAT", "400_MISSING_FIELD", "400_INVALID_FIELD_TYPE", "400_INVALID_TYPE"}
            \subseteq Raised
      /\ P1 \in BOOLEAN /\ P2 \in BOOLEAN /\ P3 \in BOOLEAN /\ P4 \in BOOLEAN
      /\ P5 \in BOOLEAN /\ P6 \in BOOLEAN
  BY DEF Raised, ValidationCodes
<1>2. RootChecks(m, t) = s1 \o s2 \o s3
  BY DEF RootChecks
<1>3. RootHolds(m, t) <=> /\ P1 /\ P2 /\ P3 /\ P4 /\ P5 /\ P6
                          /\ m.root["timestamp"] = "iso" /\ InWindow(m.stamp, t)
  BY DEF RootHolds
<1> HIDE DEF P1, P2, P3, P4, P5, P6
<1>4. s1 \in Seq(Raising) /\ (AllHold(s1) <=> P1 /\ P2 /\ P3 /\ P4 /\ P5)
  BY <1>1 DEF Check, Raising, AllHold
<1>5. /\ s2 \in Seq(Raising)
      /\ AllHold(s2) <=> m.root["timestamp"] = "iso" /\ InWindow(m.stamp, t)
  BY TimestampChecks
<1>6. s3 \in Seq(Raising) /\ (AllHold(s3) <=> P6)
  BY <1>1, CheckMade
<1> HIDE DEF s1, s2, s3
<1>7. /\ s1 \o s2 \in Seq(Raising)
      /\ AllHold(s1 \o s2) <=> AllHold(s1) /\ AllHold(s2)
  BY <1>4, <1>5, AllHoldConcat
<1>8. /\ s1 \o s2 \o s3 \in Seq(Raising)
      /\ AllHold(s1 \o s2 \o s3) <=> AllHold(s1 \o s2) /\ AllHold(s3)
  BY <1>6, <1>7, AllHoldConcat
<1>9. QED
  BY <1>2, <1>3, <1>4, <1>5, <1>6, <1>7, <1>8

\* All of it, by the type of the frame.
ContractHolds(m, t) ==
    /\ RootHolds(m, t)
    /\ m.root["type"] = "REGISTER" => RegisterHolds(m)
    /\ m.root["type"] = "HANDSHAKE_INIT" => HandshakeHolds(m)
    /\ m.root["type"] = "MESSAGE" => MessageHolds(m, t)
    /\ m.root["type"] = "ERROR" => ErrorHolds(m)

\* The verdict is a code of the protocol, and OK exactly if all of it holds.
LEMMA VerdictOnContract ==
    ASSUME NEW m, m.stamp \in Int, m.sentAt \in Int, NEW t \in Int
    PROVE  /\ Verdict(m, t) \in {"OK"} \union Raised
           /\ Verdict(m, t) = "OK" <=> ContractHolds(m, t)
<1> DEFINE type == m.root["type"]
           rest == CASE type = "REGISTER" -> RegisterChecks(m)
                     [] type = "HANDSHAKE_INIT" -> HandshakeInitChecks(m)
                     [] type = "MESSAGE" -> MessageTypeChecks(m, t)
                     [] type = "ERROR" -> ErrorTypeChecks(m)
                     [] OTHER -> << >>
           holds == /\ type = "REGISTER" => RegisterHolds(m)
                    /\ type = "HANDSHAKE_INIT" => HandshakeHolds(m)
                    /\ type = "MESSAGE" => MessageHolds(m, t)
                    /\ type = "ERROR" => ErrorHolds(m)
<1>1. Checks(m, t) = RootChecks(m, t) \o rest
  BY DEF Checks
<1>2. RootChecks(m, t) \in Seq(Raising) /\ (AllHold(RootChecks(m, t)) <=> RootHolds(m, t))
  BY RootMeaning
<1> HIDE DEF type
<1>3. rest \in Seq(Raising) /\ (AllHold(rest) <=> holds)
  <2>1. CASE type = "REGISTER"
    BY <2>1, RegisterMeaning
  <2>2. CASE type = "HANDSHAKE_INIT"
    BY <2>2, HandshakeInitMeaning
  <2>3. CASE type = "MESSAGE"
    BY <2>3, MessageTypeMeaning
  <2>4. CASE type = "ERROR"
    BY <2>4, ErrorTypeMeaning
  <2>5. CASE type \notin {"REGISTER", "HANDSHAKE_INIT", "MESSAGE", "ERROR"}
    <3>1. rest = << >>
      BY <2>5
    <3>2. << >> \in Seq(Raising) /\ AllHold(<< >>)
      BY DEF AllHold
    <3>3. QED
      BY <2>5, <3>1, <3>2
  <2>6. QED
    BY <2>1, <2>2, <2>3, <2>4, <2>5
<1>4. ContractHolds(m, t) <=> RootHolds(m, t) /\ holds
  BY DEF ContractHolds, type
<1> HIDE DEF rest, holds
<1>5. /\ Checks(m, t) \in Seq(Raising)
      /\ AllHold(Checks(m, t)) <=> AllHold(RootChecks(m, t)) /\ AllHold(rest)
  BY <1>1, <1>2, <1>3, AllHoldConcat
<1>6. QED
  BY <1>2, <1>3, <1>4, <1>5, VerdictMeaning

\* A frame of the model: every field has one of the values the checks tell apart.
Shaped(m) ==
    /\ DOMAIN m.root = RootFields /\ DOMAIN m.body = BodyFields
    /\ \A f \in BodyFields : m.body[f] \in BodyValues(f)

\* The names of the fields of all payloads.
LEMMA BodyFieldsAre ==
    BodyFields = {"username", "public_key", "nonce", "reason", "ciphertext", "encoding",
                  "algorithm", "sent_at", "code", "message", "retriable", "details", "extra"}
<1>1. /\ DOMAIN BodyAllowed("REGISTER") = {"username", "public_key"}
      /\ DOMAIN BodyAllowed("HANDSHAKE_INIT") = {"username", "public_key", "nonce", "reason"}
      /\ DOMAIN BodyAllowed("MESSAGE") =
             {"ciphertext", "encoding", "algorithm", "nonce", "sent_at"}
      /\ DOMAIN BodyAllowed("ERROR") = {"code", "message", "retriable", "details"}
  BY DEF BodyAllowed
<1>2. QED
  BY <1>1 DEF BodyFields, ALLOWED_TYPES

\* What the tables hold for each field.
LEMMA TableValues ==
    /\ \A f \in RootFields :
         RootValues(f) =
             Beyond(f) \union Values({RootAllowed(type)[f] : type \in ALLOWED_TYPES})
    /\ \A f \in BodyFields :
         BodyValues(f) =
             Beyond(f) \union
             Values({BodyAllowed(type)[f] :
                       type \in {t \in ALLOWED_TYPES : f \in DOMAIN BodyAllowed(t)}})
BY DEF RootValues, BodyValues, RootTable, BodyTable

\* A text is missing, of another type, empty or a text.
LEMMA TextValues ==
    \A f \in {"public_key", "nonce", "ciphertext", "message"} :
        BodyValues(f) \subseteq {"absent", "wrong", "empty", "text"}
<1> TAKE f \in {"public_key", "nonce", "ciphertext", "message"}
<1>1. ASSUME NEW type \in ALLOWED_TYPES, f \in DOMAIN BodyAllowed(type)
      PROVE  BodyAllowed(type)[f] = {"text"}
  BY <1>1 DEF BodyAllowed, ALLOWED_TYPES
<1>2. QED
  BY <1>1, BodyFieldsAre, TableValues DEF Values, Beyond

\* What the checks ask for is what the table says: of a registration,
LEMMA RegisterContract ==
    ASSUME NEW m, Shaped(m), NEW t, m.root["type"] = "REGISTER"
    PROVE  RootHolds(m, t) /\ RegisterHolds(m) <=> WellFormed(m, t)
<1>1. /\ DOMAIN m.root = RootFields
      /\ m.body["public_key"] \in {"absent", "wrong", "empty", "text"}
  BY BodyFieldsAre, TextValues DEF Shaped
<1>2. Keys(m.body) = {f \in BodyFields : m.body[f] # "absent"}
  BY DEF Shaped, Keys
<1>3. BodyAllowed("REGISTER") = [username |-> USERNAMES, public_key |-> {"text"}]
  BY DEF BodyAllowed
<1>4. RootAllowed("REGISTER") = [message_id |-> {"uuid"}, timestamp |-> {"iso"},
          type |-> {"REGISTER"}, from |-> USERNAMES, to |-> {"absent", "server"},
          payload |-> {"object"}, extra |-> {"absent"}]
  BY DEF RootAllowed
<1>5. ASSUME RootHolds(m, t), RegisterHolds(m)
      PROVE  WellFormed(m, t)
  <2>1. \A f \in RootFields : m.root[f] \in RootAllowed("REGISTER")[f]
    BY <1>4, <1>5 DEF RootFields, ROOT_FIELDS, RootHolds, RegisterHolds
  <2>2. \A f \in BodyFields :
            IF f \in DOMAIN BodyAllowed("REGISTER") THEN m.body[f] \in BodyAllowed("REGISTER")[f]
            ELSE m.body[f] = "absent"
    BY <1>1, <1>2, <1>3, <1>5 DEF RegisterHolds
  <2>3. QED
    BY <1>1, <1>5, <2>1, <2>2 DEF WellFormed, RootHolds, RegisterHolds, ALLOWED_TYPES
<1>6. ASSUME WellFormed(m, t)
      PROVE  RootHolds(m, t) /\ RegisterHolds(m)
  <2>1. /\ \A f \in RootFields : m.root[f] \in RootAllowed("REGISTER")[f]
        /\ \A f \in BodyFields :
            IF f \in DOMAIN BodyAllowed("REGISTER") THEN m.body[f] \in BodyAllowed("REGISTER")[f]
            ELSE m.body[f] = "absent"
        /\ m.body["username"] = m.root["from"] /\ InWindow(m.stamp, t)
    BY <1>1, <1>6 DEF WellFormed
  <2>2. RootHolds(m, t)
    BY <1>4, <2>1 DEF RootFields, ROOT_FIELDS, ROOT_REQUIRED, RootHolds, ALLOWED_TYPES, USERNAMES
  <2>3. RegisterHolds(m)
    BY <1>2, <1>3, <1>4, <2>1, BodyFieldsAre DEF RootFields, ROOT_FIELDS, RegisterHolds, USERNAMES
  <2>4. QED
    BY <2>2, <2>3
<1>7. QED
  BY <1>5, <1>6

\* of a handshake frame,
LEMMA HandshakeContract ==
    ASSUME NEW m, Shaped(m), NEW t, m.root["type"] = "HANDSHAKE_INIT"
    PROVE  RootHolds(m, t) /\ HandshakeHolds(m) <=> WellFormed(m, t)
<1>1. /\ DOMAIN m.root = RootFields
      /\ m.body["public_key"] \in {"absent", "wrong", "empty", "text"}
      /\ m.body["nonce"] \in {"absent", "wrong", "empty", "text"}
  BY BodyFieldsAre, TextValues DEF Shaped
<1>2. Keys(m.body) = {f \in BodyFields : m.body[f] # "absent"}
  BY DEF Shaped, Keys
<1>3. BodyAllowed("HANDSHAKE_INIT") = [username |-> USERNAMES, public_key |-> {"text"},
          nonce |-> {"text"}, reason |-> {"ON_DEMAND", "ROTATION", "RETRY"}]
  BY DEF BodyAllowed
<1>4. RootAllowed("HANDSHAKE_INIT") = [message_id |-> {"uuid"}, timestamp |-> {"iso"},
          type |-> {"HANDSHAKE_INIT"}, from |-> USERNAMES, to |-> USERNAMES,
          payload |-> {"object"}, extra |-> {"absent"}]
  BY DEF RootAllowed
<1>5. ASSUME RootHolds(m, t), HandshakeHolds(m)
      PROVE  WellFormed(m, t)
  <2>1. \A f \in RootFields : m.root[f] \in RootAllowed("HANDSHAKE_INIT")[f]
    BY <1>4, <1>5 DEF RootFields, ROOT_FIELDS, RootHolds, HandshakeHolds
  <2>2. \A f \in BodyFields :
            IF f \in DOMAIN BodyAllowed("HANDSHAKE_INIT") THEN m.body[f] \in BodyAllowed("HANDSHAKE_INIT")[f]
            ELSE m.body[f] = "absent"
    BY <1>1, <1>2, <1>3, <1>5 DEF HandshakeHolds, HandshakeFields
  <2>3. QED
    BY <1>1, <1>5, <2>1, <2>2 DEF WellFormed, RootHolds, HandshakeHolds, ALLOWED_TYPES
<1>6. ASSUME WellFormed(m, t)
      PROVE  RootHolds(m, t) /\ HandshakeHolds(m)
  <2>1. /\ \A f \in RootFields : m.root[f] \in RootAllowed("HANDSHAKE_INIT")[f]
        /\ \A f \in BodyFields :
            IF f \in DOMAIN BodyAllowed("HANDSHAKE_INIT") THEN m.body[f] \in BodyAllowed("HANDSHAKE_INIT")[f]
            ELSE m.body[f] = "absent"
        /\ InWindow(m.stamp, t)
        /\ m.body["username"] = m.root["from"]
    BY <1>1, <1>6 DEF WellFormed
  <2>2. RootHolds(m, t)
    BY <1>4, <2>1 DEF RootFields, ROOT_FIELDS, ROOT_REQUIRED, RootHolds, ALLOWED_TYPES, USERNAMES
  <2>3. HandshakeHolds(m)
    BY <1>2, <1>3, <1>4, <2>1, BodyFieldsAre DEF RootFields, ROOT_FIELDS, HandshakeHolds, HandshakeFields, USERNAMES, ERROR_CODES, ValidationCodes
  <2>4. QED
    BY <2>2, <2>3
<1>7. QED
  BY <1>5, <1>6

\* of a message,
LEMMA MessageContract ==
    ASSUME NEW m, Shaped(m), NEW t, m.root["type"] = "MESSAGE"
    PROVE  RootHolds(m, t) /\ MessageHolds(m, t) <=> WellFormed(m, t)
<1>1. /\ DOMAIN m.root = RootFields
      /\ m.body["ciphertext"] \in {"absent", "wrong", "empty", "text"}
      /\ m.body["nonce"] \in {"absent", "wrong", "empty", "text"}
  BY BodyFieldsAre, TextValues DEF Shaped
<1>2. Keys(m.body) = {f \in BodyFields : m.body[f] # "absent"}
  BY DEF Shaped, Keys
<1>3. BodyAllowed("MESSAGE") = [ciphertext |-> {"text"}, encoding |-> {"base64", "base64url"},
          algorithm |-> {"FERNET"}, nonce |-> {"text"}, sent_at |-> {"iso"}]
  BY DEF BodyAllowed
<1>4. RootAllowed("MESSAGE") = [message_id |-> {"uuid"}, timestamp |-> {"iso"},
          type |-> {"MESSAGE"}, from |-> USERNAMES, to |-> USERNAMES,
          payload |-> {"object"}, extra |-> {"absent"}]
  BY DEF RootAllowed
<1>5. ASSUME RootHolds(m, t), MessageHolds(m, t)
      PROVE  WellFormed(m, t)
  <2>1. \A f \in RootFields : m.root[f] \in RootAllowed("MESSAGE")[f]
    BY <1>4, <1>5 DEF RootFields, ROOT_FIELDS, RootHolds, MessageHolds
  <2>2. \A f \in BodyFields :
            IF f \in DOMAIN BodyAllowed("MESSAGE") THEN m.body[f] \in BodyAllowed("MESSAGE")[f]
            ELSE m.body[f] = "absent"
    BY <1>1, <1>2, <1>3, <1>5 DEF MessageHolds, MessageFields
  <2>3. QED
    BY <1>1, <1>5, <2>1, <2>2 DEF WellFormed, RootHolds, MessageHolds, ALLOWED_TYPES
<1>6. ASSUME WellFormed(m, t)
      PROVE  RootHolds(m, t) /\ MessageHolds(m, t)
  <2>1. /\ \A f \in RootFields : m.root[f] \in RootAllowed("MESSAGE")[f]
        /\ \A f \in BodyFields :
            IF f \in DOMAIN BodyAllowed("MESSAGE") THEN m.body[f] \in BodyAllowed("MESSAGE")[f]
            ELSE m.body[f] = "absent"
        /\ InWindow(m.stamp, t)
        /\ m.root["from"] # m.root["to"] /\ InWindow(m.sentAt, t)
    BY <1>1, <1>6 DEF WellFormed
  <2>2. RootHolds(m, t)
    BY <1>4, <2>1 DEF RootFields, ROOT_FIELDS, ROOT_REQUIRED, RootHolds, ALLOWED_TYPES, USERNAMES
  <2>3. MessageHolds(m, t)
    BY <1>2, <1>3, <1>4, <2>1, BodyFieldsAre DEF RootFields, ROOT_FIELDS, MessageHolds, MessageFields, USERNAMES, ERROR_CODES, ValidationCodes
  <2>4. QED
    BY <2>2, <2>3
<1>7. QED
  BY <1>5, <1>6

\* and of an error.
LEMMA ErrorContract ==
    ASSUME NEW m, Shaped(m), NEW t, m.root["type"] = "ERROR"
    PROVE  RootHolds(m, t) /\ ErrorHolds(m) <=> WellFormed(m, t)
<1>1. /\ DOMAIN m.root = RootFields
      /\ m.body["message"] \in {"absent", "wrong", "empty", "text"}
  BY BodyFieldsAre, TextValues DEF Shaped
<1>2. Keys(m.body) = {f \in BodyFields : m.body[f] # "absent"}
  BY DEF Shaped, Keys
<1>3. BodyAllowed("ERROR") = [code |-> ERROR_CODES, message |-> {"text"}, retriable |-> {"boolean"},
          details |-> {"absent", "object"}]
  BY DEF BodyAllowed
<1>4. RootAllowed("ERROR") = [message_id |-> {"uuid"}, timestamp |-> {"iso"},
          type |-> {"ERROR"}, from |-> {"server"}, to |-> USERNAMES \union {"absent"},
          payload |-> {"object"}, extra |-> {"absent"}]
  BY DEF RootAllowed
<1>5. ASSUME RootHolds(m, t), ErrorHolds(m)
      PROVE  WellFormed(m, t)
  <2>1. \A f \in RootFields : m.root[f] \in RootAllowed("ERROR")[f]
    BY <1>4, <1>5 DEF RootFields, ROOT_FIELDS, RootHolds, ErrorHolds
  <2>2. \A f \in BodyFields :
            IF f \in DOMAIN BodyAllowed("ERROR") THEN m.body[f] \in BodyAllowed("ERROR")[f]
            ELSE m.body[f] = "absent"
    BY <1>1, <1>2, <1>3, <1>5 DEF ErrorHolds
  <2>3. QED
    BY <1>1, <1>5, <2>1, <2>2 DEF WellFormed, RootHolds, ErrorHolds, ALLOWED_TYPES
<1>6. ASSUME WellFormed(m, t)
      PROVE  RootHolds(m, t) /\ ErrorHolds(m)
  <2>1. /\ \A f \in RootFields : m.root[f] \in RootAllowed("ERROR")[f]
        /\ \A f \in BodyFields :
            IF f \in DOMAIN BodyAllowed("ERROR") THEN m.body[f] \in BodyAllowed("ERROR")[f]
            ELSE m.body[f] = "absent"
        /\ InWindow(m.stamp, t)
    BY <1>1, <1>6 DEF WellFormed
  <2>2. RootHolds(m, t)
    BY <1>4, <2>1 DEF RootFields, ROOT_FIELDS, ROOT_REQUIRED, RootHolds, ALLOWED_TYPES, USERNAMES
  <2>3. ErrorHolds(m)
    BY <1>2, <1>3, <1>4, <2>1, BodyFieldsAre DEF RootFields, ROOT_FIELDS, ErrorHolds, USERNAMES, ERROR_CODES, ValidationCodes
  <2>4. QED
    BY <2>2, <2>3
<1>7. QED
  BY <1>5, <1>6

\* Together: the checks, in whatever order the code makes them, amount to the
\* table of the contract.
LEMMA ContractIsTheTable ==
    ASSUME NEW m, Shaped(m), NEW t
    PROVE  ContractHolds(m, t) <=> WellFormed(m, t)
<1>1. ContractHolds(m, t) => m.root["type"] \in ALLOWED_TYPES
  BY DEF ContractHolds, RootHolds
<1>2. WellFormed(m, t) => m.root["type"] \in ALLOWED_TYPES
  BY DEF WellFormed
<1>3. CASE m.root["type"] = "REGISTER"
  BY <1>3, RegisterContract DEF ContractHolds
<1>4. CASE m.root["type"] = "HANDSHAKE_INIT"
  BY <1>4, HandshakeContract DEF ContractHolds
<1>5. CASE m.root["type"] = "MESSAGE"
  BY <1>5, MessageContract DEF ContractHolds
<1>6. CASE m.root["type"] = "ERROR"
  BY <1>6, ErrorContract DEF ContractHolds
<1>7. QED
  BY <1>1, <1>2, <1>3, <1>4, <1>5, <1>6 DEF ALLOWED_TYPES

(***************************************************************************)
(* Frames the code builds.                                                 *)
(***************************************************************************)
\* The table without the clock.
Fits(m) ==
    LET type == m.root["type"] IN
    /\ type \in ALLOWED_TYPES
    /\ \A f \in RootFields : m.root[f] \in RootAllowed(type)[f]
    /\ \A f \in BodyFields :
         IF f \in DOMAIN BodyAllowed(type) THEN m.body[f] \in BodyAllowed(type)[f]
         ELSE m.body[f] = "absent"
    /\ type \in {"REGISTER", "HANDSHAKE_INIT"} => m.body["username"] = m.root["from"]
    /\ type = "MESSAGE" => m.root["from"] # m.root["to"]

\* A frame is a record of these four fields, its parts have one value for every
\* field name.
Frame(m) ==
    /\ DOMAIN m = {"root", "stamp", "sentAt", "body"}
    /\ DOMAIN m.root = RootFields /\ DOMAIN m.body = BodyFields
    /\ m.stamp \in Nat /\ m.sentAt \in Nat

\* The values of a frame are among those the checks tell apart.
Valued(m) ==
    /\ \A f \in RootFields : m.root[f] \in RootValues(f)
    /\ \A f \in BodyFields : m.body[f] \in BodyValues(f)

\* What the table allows is a value the model knows.
LEMMA FitsIsValued ==
    ASSUME NEW m, Fits(m)
    PROVE  Valued(m)
<1> DEFINE type == m.root["type"]
<1>1. type \in ALLOWED_TYPES
  BY DEF Fits
<1>2. ASSUME NEW f \in RootFields
      PROVE  m.root[f] \in RootValues(f)
  <2>1. m.root[f] \in RootAllowed(type)[f]
    BY DEF Fits
  <2>2. QED
    BY <1>1, <2>1, TableValues DEF Values
<1>3. ASSUME NEW f \in BodyFields
      PROVE  m.body[f] \in BodyValues(f)
  <2>1. CASE f \in DOMAIN BodyAllowed(type)
    <3>1. m.body[f] \in BodyAllowed(type)[f]
      BY <2>1 DEF Fits
    <3>2. QED
      BY <1>1, <2>1, <3>1, TableValues DEF Values
  <2>2. CASE f \notin DOMAIN BodyAllowed(type)
    <3>1. m.body[f] = "absent"
      BY <2>2 DEF Fits
    <3>2. QED
      BY <3>1, TableValues DEF Values
  <2>3. QED
    BY <2>1, <2>2
<1>4. QED
  BY <1>2, <1>3 DEF Valued

\* A frame that fits the table and whose dates are in the window is well formed.
LEMMA FitsInTime ==
    ASSUME NEW m, Frame(m), NEW t
    PROVE  WellFormed(m, t) <=> /\ Fits(m) /\ InWindow(m.stamp, t)
                                /\ m.root["type"] = "MESSAGE" => InWindow(m.sentAt, t)
BY DEF WellFormed, Fits, Frame

\* Seconds are cut from ticks: at most one second is lost.
LEMMA SecondBounds ==
    ASSUME NEW t \in Nat
    PROVE  /\ Second(t) \in Nat /\ Second(t) <= t
           /\ Second(t) * TicksPerSecond <= t
           /\ t < Second(t) * TicksPerSecond + TicksPerSecond
BY ProtocolAssumption DEF Second

\* Later ticks do not have earlier seconds.
LEMMA SecondMonotone ==
    ASSUME NEW s \in Nat, NEW t \in Nat, s <= t
    PROVE  Second(s) <= Second(t)
BY ProtocolAssumption DEF Second

\* What the fields of a built frame are.
LEMMA RootFieldsBuilt ==
    ASSUME NEW type, NEW from, NEW to
    PROVE  /\ DOMAIN Root(type, from, to) = RootFields
           /\ Root(type, from, to)["message_id"] = "uuid"
           /\ Root(type, from, to)["timestamp"] = "iso"
           /\ Root(type, from, to)["type"] = type
           /\ Root(type, from, to)["from"] = from
           /\ Root(type, from, to)["to"] = to
           /\ Root(type, from, to)["payload"] = "object"
           /\ Root(type, from, to)["extra"] = "absent"
BY DEF Root, RootFields, ROOT_FIELDS

\* A payload has all its fields, absent or not.
LEMMA BodyDomain ==
    ASSUME NEW given, NEW username, NEW code
    PROVE  DOMAIN Body(given, username, code) = BodyFields
BY DEF Body

\* A registration frame, as it is built, fits the table;
LEMMA RegisterFits ==
    ASSUME NEW t \in Nat
    PROVE  Frame(BuildRegister(t)) /\ Fits(BuildRegister(t))
<1> DEFINE m == BuildRegister(t)
           given == {"username", "public_key"}
<1>1. m.root = Root("REGISTER", "alice", "absent")
  BY DEF BuildRegister
<1>2. m.body = Body(given, "alice", "")
  BY DEF BuildRegister
<1>3. DOMAIN m = {"root", "stamp", "sentAt", "body"} /\ m.stamp = Second(t) /\ m.sentAt = 0
  BY DEF BuildRegister
<1>4. given = {"username", "public_key"}
  BY DEF given
<1> HIDE DEF m, given
<1>5. Frame(m)
  <2>1. DOMAIN m.root = RootFields
    BY <1>1, RootFieldsBuilt
  <2>2. DOMAIN m.body = BodyFields
    BY <1>2, BodyDomain
  <2>3. QED
    BY <1>3, <2>1, <2>2, SecondBounds DEF Frame
<1>6. /\ m.root["message_id"] = "uuid" /\ m.root["timestamp"] = "iso"
      /\ m.root["type"] = "REGISTER" /\ m.root["from"] = "alice" /\ m.root["to"] = "absent"
      /\ m.root["payload"] = "object" /\ m.root["extra"] = "absent"
  BY <1>1, RootFieldsBuilt
<1>7. ASSUME NEW f \in BodyFields
      PROVE  /\ f \notin given => m.body[f] = "absent"
             /\ f \in given =>
                  /\ f = "username" => m.body[f] = "alice"
                  /\ f = "public_key" => m.body[f] = "text"
  BY <1>2 DEF Body
<1>8. RootAllowed("REGISTER") = [message_id |-> {"uuid"}, timestamp |-> {"iso"},
          type |-> {"REGISTER"}, from |-> USERNAMES, to |-> {"absent", "server"},
          payload |-> {"object"}, extra |-> {"absent"}]
  BY DEF RootAllowed
<1>9. BodyAllowed("REGISTER") = [username |-> USERNAMES, public_key |-> {"text"}]
  BY DEF BodyAllowed
<1>10. \A f \in RootFields : m.root[f] \in RootAllowed("REGISTER")[f]
  BY <1>6, <1>8 DEF RootFields, ROOT_FIELDS, USERNAMES
<1>11. \A f \in BodyFields :
           IF f \in DOMAIN BodyAllowed("REGISTER") THEN m.body[f] \in BodyAllowed("REGISTER")[f]
           ELSE m.body[f] = "absent"
  BY <1>4, <1>7, <1>9 DEF USERNAMES
<1>12. m.body["username"] = m.root["from"]
  BY <1>4, <1>6, <1>7, BodyFieldsAre
<1>13. QED
  BY <1>5, <1>6, <1>10, <1>11, <1>12 DEF Fits, ALLOWED_TYPES, m

\* so does a handshake frame;
LEMMA HandshakeFits ==
    ASSUME NEW t \in Nat
    PROVE  Frame(BuildHandshake(t)) /\ Fits(BuildHandshake(t))
<1> DEFINE m == BuildHandshake(t)
           given == HandshakeFields
<1>1. m.root = Root("HANDSHAKE_INIT", "alice", "bob")
  BY DEF BuildHandshake
<1>2. m.body = Body(given, "alice", "")
  BY DEF BuildHandshake
<1>3. DOMAIN m = {"root", "stamp", "sentAt", "body"} /\ m.stamp = Second(t) /\ m.sentAt = 0
  BY DEF BuildHandshake
<1>4. given = {"username", "public_key", "nonce", "reason"}
  BY DEF given, HandshakeFields
<1> HIDE DEF m, given
<1>5. Frame(m)
  <2>1. DOMAIN m.root = RootFields
    BY <1>1, RootFieldsBuilt
  <2>2. DOMAIN m.body = BodyFields
    BY <1>2, BodyDomain
  <2>3. QED
    BY <1>3, <2>1, <2>2, SecondBounds DEF Frame
<1>6. /\ m.root["message_id"] = "uuid" /\ m.root["timestamp"] = "iso"
      /\ m.root["type"] = "HANDSHAKE_INIT" /\ m.root["from"] = "alice" /\ m.root["to"] = "bob"
      /\ m.root["payload"] = "object" /\ m.root["extra"] = "absent"
  BY <1>1, RootFieldsBuilt
<1>7. ASSUME NEW f \in BodyFields
      PROVE  /\ f \notin given => m.body[f] = "absent"
             /\ f \in given =>
                  /\ f = "username" => m.body[f] = "alice"
                  /\ f = "public_key" => m.body[f] = "text"
                  /\ f = "nonce" => m.body[f] = "text"
                  /\ f = "reason" => m.body[f] = "ON_DEMAND"
  BY <1>2 DEF Body
<1>8. RootAllowed("HANDSHAKE_INIT") = [message_id |-> {"uuid"}, timestamp |-> {"iso"},
          type |-> {"HANDSHAKE_INIT"}, from |-> USERNAMES, to |-> USERNAMES,
          payload |-> {"object"}, extra |-> {"absent"}]
  BY DEF RootAllowed
<1>9. BodyAllowed("HANDSHAKE_INIT") = [username |-> USERNAMES, public_key |-> {"text"},
           nonce |-> {"text"}, reason |-> {"ON_DEMAND", "ROTATION", "RETRY"}]
  BY DEF BodyAllowed
<1>10. \A f \in RootFields : m.root[f] \in RootAllowed("HANDSHAKE_INIT")[f]
  BY <1>6, <1>8 DEF RootFields, ROOT_FIELDS, USERNAMES
<1>11. \A f \in BodyFields :
           IF f \in DOMAIN BodyAllowed("HANDSHAKE_INIT") THEN m.body[f] \in BodyAllowed("HANDSHAKE_INIT")[f]
           ELSE m.body[f] = "absent"
  BY <1>4, <1>7, <1>9 DEF USERNAMES
<1>12. m.body["username"] = m.root["from"]
  BY <1>4, <1>6, <1>7, BodyFieldsAre
<1>13. QED
  BY <1>5, <1>6, <1>10, <1>11, <1>12 DEF Fits, ALLOWED_TYPES, m

\* a message;
LEMMA MessageFits ==
    ASSUME NEW t \in Nat, NEW u \in Nat
    PROVE  Frame(BuildMessage(t, u)) /\ Fits(BuildMessage(t, u))
<1> DEFINE m == BuildMessage(t, u)
           given == MessageFields
<1>1. m.root = Root("MESSAGE", "alice", "bob")
  BY DEF BuildMessage
<1>2. m.body = Body(given, "", "")
  BY DEF BuildMessage
<1>3. DOMAIN m = {"root", "stamp", "sentAt", "body"} /\ m.stamp = Second(t) /\ m.sentAt = Second(u)
  BY DEF BuildMessage
<1>4. given = {"ciphertext", "encoding", "algorithm", "nonce", "sent_at"}
  BY DEF given, MessageFields
<1> HIDE DEF m, given
<1>5. Frame(m)
  <2>1. DOMAIN m.root = RootFields
    BY <1>1, RootFieldsBuilt
  <2>2. DOMAIN m.body = BodyFields
    BY <1>2, BodyDomain
  <2>3. QED
    BY <1>3, <2>1, <2>2, SecondBounds DEF Frame
<1>6. /\ m.root["message_id"] = "uuid" /\ m.root["timestamp"] = "iso"
      /\ m.root["type"] = "MESSAGE" /\ m.root["from"] = "alice" /\ m.root["to"] = "bob"
      /\ m.root["payload"] = "object" /\ m.root["extra"] = "absent"
  BY <1>1, RootFieldsBuilt
<1>7. ASSUME NEW f \in BodyFields
      PROVE  /\ f \notin given => m.body[f] = "absent"
             /\ f \in given =>
                  /\ f = "ciphertext" => m.body[f] = "text"
                  /\ f = "encoding" => m.body[f] = "base64url"
                  /\ f = "algorithm" => m.body[f] = "FERNET"
                  /\ f = "nonce" => m.body[f] = "text"
                  /\ f = "sent_at" => m.body[f] = "iso"
  BY <1>2 DEF Body
<1>8. RootAllowed("MESSAGE") = [message_id |-> {"uuid"}, timestamp |-> {"iso"},
          type |-> {"MESSAGE"}, from |-> USERNAMES, to |-> USERNAMES,
          payload |-> {"object"}, extra |-> {"absent"}]
  BY DEF RootAllowed
<1>9. BodyAllowed("MESSAGE") = [ciphertext |-> {"text"}, encoding |-> {"base64", "base64url"},
           algorithm |-> {"FERNET"}, nonce |-> {"text"}, sent_at |-> {"iso"}]
  BY DEF BodyAllowed
<1>10. \A f \in RootFields : m.root[f] \in RootAllowed("MESSAGE")[f]
  BY <1>6, <1>8 DEF RootFields, ROOT_FIELDS, USERNAMES
<1>11. \A f \in BodyFields :
           IF f \in DOMAIN BodyAllowed("MESSAGE") THEN m.body[f] \in BodyAllowed("MESSAGE")[f]
           ELSE m.body[f] = "absent"
  BY <1>4, <1>7, <1>9 DEF USERNAMES
<1>13. QED
  BY <1>5, <1>6, <1>10, <1>11 DEF Fits, ALLOWED_TYPES, m

\* and an error, whatever code it carries and whoever can be addressed.
LEMMA ErrorFits ==
    ASSUME NEW code \in ERROR_CODES, NEW to \in USERNAMES \union {"absent", "null"}, NEW t \in Nat
    PROVE  Frame(MakeError(code, to, t)) /\ Fits(MakeError(code, to, t))
<1> DEFINE m == MakeError(code, to, t)
           addressed == IF to = "null" THEN "absent" ELSE to
           given == {"code", "message", "details", "retriable"}
<1>1. m.root = Root("ERROR", "server", addressed) /\ addressed \in USERNAMES \union {"absent"}
  BY DEF MakeError
<1>2. m.body = Body(given, "", code)
  BY DEF MakeError
<1>3. DOMAIN m = {"root", "stamp", "sentAt", "body"} /\ m.stamp = Second(t) /\ m.sentAt = 0
  BY DEF MakeError
<1>4. given = {"code", "message", "details", "retriable"}
  BY DEF given
<1> HIDE DEF m, given, addressed
<1>5. Frame(m)
  <2>1. DOMAIN m.root = RootFields
    BY <1>1, RootFieldsBuilt
  <2>2. DOMAIN m.body = BodyFields
    BY <1>2, BodyDomain
  <2>3. QED
    BY <1>3, <2>1, <2>2, SecondBounds DEF Frame
<1>6. /\ m.root["message_id"] = "uuid" /\ m.root["timestamp"] = "iso"
      /\ m.root["type"] = "ERROR" /\ m.root["from"] = "server" /\ m.root["to"] = addressed
      /\ m.root["payload"] = "object" /\ m.root["extra"] = "absent"
  BY <1>1, RootFieldsBuilt
<1>7. ASSUME NEW f \in BodyFields
      PROVE  /\ f \notin given => m.body[f] = "absent"
             /\ f \in given =>
                  /\ f = "code" => m.body[f] = code
                  /\ f = "message" => m.body[f] = "text"
                  /\ f = "details" => m.body[f] = "object"
                  /\ f = "retriable" => m.body[f] = "boolean"
  BY <1>2 DEF Body
<1>8. RootAllowed("ERROR") = [message_id |-> {"uuid"}, timestamp |-> {"iso"},
          type |-> {"ERROR"}, from |-> {"server"}, to |-> USERNAMES \union {"absent"},
          payload |-> {"object"}, extra |-> {"absent"}]
  BY DEF RootAllowed
<1>9. BodyAllowed("ERROR") = [code |-> ERROR_CODES, message |-> {"text"}, retriable |-> {"boolean"},
           details |-> {"absent", "object"}]
  BY DEF BodyAllowed
<1>10. \A f \in RootFields : m.root[f] \in RootAllowed("ERROR")[f]
  BY <1>1, <1>6, <1>8 DEF RootFields, ROOT_FIELDS, USERNAMES
<1>11. \A f \in BodyFields :
           IF f \in DOMAIN BodyAllowed("ERROR") THEN m.body[f] \in BodyAllowed("ERROR")[f]
           ELSE m.body[f] = "absent"
  BY <1>4, <1>7, <1>9 DEF USERNAMES
<1>13. QED
  BY <1>5, <1>6, <1>10, <1>11 DEF Fits, ALLOWED_TYPES, m

(***************************************************************************)
(* The journey of a frame.                                                 *)
(***************************************************************************)
\* Every frame that is built is one of the five, has the values and the dates
\* the invariant asks for.
LEMMA BuiltFrames ==
    ASSUME made \in MadeAt, NEW m \in Built
    PROVE  /\ Frame(m) /\ Fits(m) /\ Valued(m)
           /\ m.stamp = Second(made) /\ m.sentAt <= Second(made)
           /\ m.root["type"] = "MESSAGE" => m.sentAt \in {Second(made), Second(made - 1)}
<1>1. made \in Nat /\ made - 1 \in Nat /\ Second(made - 1) <= Second(made)
  BY ProtocolAssumption, SecondMonotone
<1>2. Second(made) \in Nat /\ Second(made - 1) \in Nat
  BY <1>1, SecondBounds
<1>3. CASE m = BuildRegister(made)
  <2>1. Frame(m) /\ Fits(m) /\ m.stamp = Second(made) /\ m.sentAt = 0
    BY <1>1, <1>3, RegisterFits DEF BuildRegister
  <2>2. m.root = Root("REGISTER", "alice", "absent")
    BY <1>3 DEF BuildRegister
  <2>3. m.root["type"] = "REGISTER"
    BY <2>2, RootFieldsBuilt
  <2>4. QED
    BY <1>2, <2>1, <2>3, FitsIsValued
<1>4. CASE m = BuildHandshake(made)
  <2>1. Frame(m) /\ Fits(m) /\ m.stamp = Second(made) /\ m.sentAt = 0
    BY <1>1, <1>4, HandshakeFits DEF BuildHandshake
  <2>2. m.root = Root("HANDSHAKE_INIT", "alice", "bob")
    BY <1>4 DEF BuildHandshake
  <2>3. m.root["type"] = "HANDSHAKE_INIT"
    BY <2>2, RootFieldsBuilt
  <2>4. QED
    BY <1>2, <2>1, <2>3, FitsIsValued
<1>5. CASE m = BuildMessage(made, made)
  <2>1. Frame(m) /\ Fits(m) /\ m.stamp = Second(made) /\ m.sentAt = Second(made)
    BY <1>1, <1>5, MessageFits DEF BuildMessage
  <2>2. QED
    BY <1>2, <2>1, FitsIsValued
<1>6. CASE m = BuildMessage(made, made - 1)
  <2>1. Frame(m) /\ Fits(m) /\ m.stamp = Second(made) /\ m.sentAt = Second(made - 1)
    BY <1>1, <1>6, MessageFits DEF BuildMessage
  <2>2. QED
    BY <1>1, <1>2, <2>1, FitsIsValued
<1>7. CASE m = MakeError("409_REMOTE_KEY_CHANGED", "alice", made)
  <2>1. Frame(m) /\ Fits(m) /\ m.stamp = Second(made) /\ m.sentAt = 0
    BY <1>1, <1>7, ErrorFits DEF MakeError, ERROR_CODES, USERNAMES
  <2>2. m.root = Root("ERROR", "server", "alice")
    BY <1>7, "alice" # "null" DEF MakeError
  <2>3. m.root["type"] = "ERROR"
    BY <2>2, RootFieldsBuilt
  <2>4. QED
    BY <1>2, <2>1, <2>3, FitsIsValued
<1>8. QED
  BY <1>3, <1>4, <1>5, <1>6, <1>7 DEF Built

\* A changed field changes nothing else: a frame keeps its names and its dates.
LEMMA ChangeKeeps ==
    ASSUME Frame(frame), Valued(frame),
           \/ \E f \in RootFields : \E v \in RootValues(f) : ChangeRoot(f, v)
           \/ \E f \in BodyFields : \E v \in BodyValues(f) : ChangeBody(f, v)
    PROVE  /\ Frame(frame') /\ Valued(frame')
           /\ frame'.stamp = frame.stamp /\ frame'.sentAt = frame.sentAt
<1>1. ASSUME NEW f \in RootFields, NEW v \in RootValues(f), ChangeRoot(f, v)
      PROVE  /\ Frame(frame') /\ Valued(frame')
             /\ frame'.stamp = frame.stamp /\ frame'.sentAt = frame.sentAt
  <2>1. frame' = [frame EXCEPT !.root = [frame.root EXCEPT ![f] = v]]
    BY <1>1 DEF ChangeRoot
  <2>2. /\ DOMAIN frame' = DOMAIN frame /\ frame'.root = [frame.root EXCEPT ![f] = v]
        /\ frame'.body = frame.body
        /\ frame'.stamp = frame.stamp /\ frame'.sentAt = frame.sentAt
    BY <2>1 DEF Frame
  <2>3. QED
    BY <2>2 DEF Frame, Valued
<1>2. ASSUME NEW f \in BodyFields, NEW v \in BodyValues(f), ChangeBody(f, v)
      PROVE  /\ Frame(frame') /\ Valued(frame')
             /\ frame'.stamp = frame.stamp /\ frame'.sentAt = frame.sentAt
  <2>1. frame' = [frame EXCEPT !.body = [frame.body EXCEPT ![f] = v]]
    BY <1>2 DEF ChangeBody
  <2>2. /\ DOMAIN frame' = DOMAIN frame /\ frame'.body = [frame.body EXCEPT ![f] = v]
        /\ frame'.root = frame.root
        /\ frame'.stamp = frame.stamp /\ frame'.sentAt = frame.sentAt
    BY <2>1 DEF Frame
  <2>3. QED
    BY <2>2 DEF Frame, Valued
<1>3. QED
  BY <1>1, <1>2

\* The invariant, with the shape of the frame apart.
LEMMA InvParts ==
    IInv <=> /\ phase \in {"idle", "flying", "read", "done"}
             /\ now \in 0 .. MaxTime /\ made \in MadeAt /\ readAt \in 0 .. MaxTime
             /\ changes \in 0 .. MaxChanges
             /\ verdict \in {"none", "OK"} \union Raised
             /\ guard \in {"none", "OK", "400_REPLAY_TIMESTAMP_INVALID"}
             /\ Frame(frame) /\ Valued(frame)
             /\ phase # "idle" /\ changes = 0 => frame \in Built
             /\ phase # "idle" => frame.stamp = Second(made) /\ frame.sentAt <= Second(made)
             /\ Judged
BY DEF IInv, TypeOK, FrameKept, Dated, Frame, Valued

\* The same of the next state.
LEMMA InvPartsNext ==
    IInv' <=> /\ phase' \in {"idle", "flying", "read", "done"}
              /\ now' \in 0 .. MaxTime /\ made' \in MadeAt /\ readAt' \in 0 .. MaxTime
              /\ changes' \in 0 .. MaxChanges
              /\ verdict' \in {"none", "OK"} \union Raised
              /\ guard' \in {"none", "OK", "400_REPLAY_TIMESTAMP_INVALID"}
              /\ Frame(frame') /\ Valued(frame')
              /\ phase' # "idle" /\ changes' = 0 => frame' \in Built'
              /\ phase' # "idle" => frame'.stamp = Second(made') /\ frame'.sentAt <= Second(made')
              /\ Judged'
BY DEF IInv, TypeOK, FrameKept, Dated, Frame, Valued

\* The clocks, as numbers.
LEMMA ClocksAreNatural ==
    ASSUME IInv
    PROVE  now \in Nat /\ made \in Nat /\ made - 1 \in Nat /\ readAt \in Nat
<1>1. now \in 0 .. MaxTime /\ made \in MadeAt /\ readAt \in 0 .. MaxTime
  BY InvParts
<1>2. QED
  BY <1>1, ProtocolAssumption

\* Before it is built there is a frame of the same shape.
LEMMA InvInit ==
    Init => IInv
<1> SUFFICES ASSUME Init
             PROVE  IInv
  OBVIOUS
<1>1. Frame(NoFrame) /\ Fits(NoFrame)
  BY ErrorFits DEF NoFrame, ERROR_CODES, ValidationCodes
<1>2. Valued(NoFrame)
  BY <1>1, FitsIsValued
<1>3. now \in Nat /\ 0 <= Second(now)
  BY SecondBounds, ProtocolAssumption DEF Init
<1>4. QED
  BY <1>1, <1>2, <1>3, InvParts, ProtocolAssumption DEF Init, Judged

\* What is built starts the journey.
LEMMA InvBuild ==
    ASSUME IInv, NEW m \in Built, Build(m)
    PROVE  IInv'
<1>1. /\ Frame(m) /\ Valued(m)
      /\ m.stamp = Second(made) /\ m.sentAt <= Second(made)
  BY BuiltFrames, InvParts
<1>2. Built' = Built
  BY DEF Build, Built, BuildRegister, BuildHandshake, BuildMessage, MakeError, Root, Body
<1>3. Judged'
  BY InvParts DEF Build, Judged
<1>4. QED
  BY <1>1, <1>2, <1>3, InvParts, InvPartsNext DEF Build

\* A field is changed.
LEMMA InvChange ==
    ASSUME IInv,
           \/ \E f \in RootFields : \E v \in RootValues(f) : ChangeRoot(f, v)
           \/ \E f \in BodyFields : \E v \in BodyValues(f) : ChangeBody(f, v)
    PROVE  IInv'
<1>1. /\ phase = "flying" /\ changes < MaxChanges /\ changes' = changes + 1
      /\ UNCHANGED <<phase, now, made, readAt, verdict, guard>>
  BY DEF ChangeRoot, ChangeBody
<1>2. /\ Frame(frame') /\ Valued(frame')
      /\ frame'.stamp = frame.stamp /\ frame'.sentAt = frame.sentAt
  BY ChangeKeeps, InvParts
<1>3. Judged'
  BY <1>1, InvParts DEF Judged
<1>4. changes' \in 0 .. MaxChanges /\ changes' # 0
  BY <1>1, InvParts, ProtocolAssumption
<1>5. QED
  BY <1>1, <1>2, <1>3, <1>4, InvParts, InvPartsNext

\* Time passes.
LEMMA InvTick ==
    ASSUME IInv, Tick
    PROVE  IInv'
<1>1. /\ phase \in {"flying", "read"} /\ now < MaxTime /\ now' = now + 1
      /\ UNCHANGED <<phase, made, frame, changes, readAt, verdict, guard>>
  BY DEF Tick
<1>2. now \in Nat /\ now' \in 0 .. MaxTime /\ Second(now) <= Second(now')
  BY <1>1, InvParts, ProtocolAssumption, SecondMonotone
<1>3. Second(now) \in Nat /\ Second(now') \in Nat /\ readAt \in Nat
  BY <1>1, <1>2, InvParts, SecondBounds, ProtocolAssumption
<1>4. Judged'
  BY <1>1, <1>2, <1>3, InvParts DEF Judged
<1>5. Built' = Built
  BY <1>1 DEF Built, BuildRegister, BuildHandshake, BuildMessage, MakeError, Root, Body
<1>6. QED
  BY <1>1, <1>2, <1>4, <1>5, InvParts, InvPartsNext

\* The receiver reads the second.
LEMMA InvReadNow ==
    ASSUME IInv, ReadNow
    PROVE  IInv'
<1>1. /\ phase = "flying" /\ phase' = "read" /\ readAt' = Second(now)
      /\ UNCHANGED <<now, made, frame, changes, verdict, guard>>
  BY DEF ReadNow
<1>2. Second(now) \in 0 .. MaxTime /\ Second(now) <= Second(now)
  <2>1. now \in Nat /\ now <= MaxTime
    BY InvParts, ProtocolAssumption
  <2>2. QED
    BY <2>1, SecondBounds, ProtocolAssumption
<1>3. Judged'
  BY <1>1, <1>2 DEF Judged
<1>4. Built' = Built
  BY <1>1 DEF Built, BuildRegister, BuildHandshake, BuildMessage, MakeError, Root, Body
<1>5. QED
  BY <1>1, <1>2, <1>3, <1>4, InvParts, InvPartsNext

\* The receiver judges.
LEMMA InvValidate ==
    ASSUME IInv, Validate
    PROVE  IInv'
<1>1. /\ phase = "read" /\ phase' = "done" /\ verdict' = Verdict(frame, now)
      /\ guard' = IF verdict' = "OK" /\ frame.root["type"] = "MESSAGE"
                  THEN ReplayTime(frame, readAt) ELSE "none"
      /\ UNCHANGED <<now, made, frame, changes, readAt>>
  BY DEF Validate
<1>2. frame.stamp \in Int /\ frame.sentAt \in Int /\ now \in Int
  BY InvParts, ProtocolAssumption DEF Frame
<1>3. Verdict(frame, now) \in {"OK"} \union Raised
  BY <1>2, VerdictOnContract
<1>4. guard' \in {"none", "OK", "400_REPLAY_TIMESTAMP_INVALID"}
  BY <1>1 DEF ReplayTime
<1>5. Judged'
  <2>1. Verdict(frame, now)' = Verdict(frame, now)
    BY <1>1
  <2>2. ReplayTime(frame, readAt)' = ReplayTime(frame, readAt)
    BY <1>1 DEF ReplayTime
  <2>3. Second(now)' = Second(now)
    BY <1>1 DEF Second
  <2>4. readAt <= Second(now)
    BY InvParts DEF Judged
  <2>5. QED
    BY <1>1, <2>1, <2>2, <2>3, <2>4 DEF Judged
<1>6. Built' = Built
  BY <1>1 DEF Built, BuildRegister, BuildHandshake, BuildMessage, MakeError, Root, Body
<1>7. QED
  BY <1>1, <1>3, <1>4, <1>5, <1>6, InvParts, InvPartsNext

\* The invariant holds from the build to the verdict.
LEMMA Invariance == Spec => []IInv
<1>1. Init => IInv
  BY InvInit
<1>2. IInv /\ [Next]_vars => IInv'
  <2> SUFFICES ASSUME IInv, [Next]_vars
               PROVE  IInv'
    OBVIOUS
  <2>1. /\ BuildRegister(made) \in Built /\ BuildHandshake(made) \in Built
        /\ BuildMessage(made, made) \in Built /\ BuildMessage(made, made - 1) \in Built
        /\ MakeError("409_REMOTE_KEY_CHANGED", "alice", made) \in Built
    BY DEF Built
  <2>2. ASSUME \E m \in Built : Build(m)
        PROVE  IInv'
    BY <2>2, InvBuild
  <2>3. CASE UNCHANGED vars
    <3>1. Built' = Built
      BY <2>3 DEF vars, Built, BuildRegister, BuildHandshake, BuildMessage, MakeError, Root, Body
    <3>2. Judged' = Judged
      BY <2>3 DEF vars, Judged, ReplayTime, Second
    <3>3. QED
      BY <2>3, <3>1, <3>2, InvParts, InvPartsNext DEF vars
  <2>4. ASSUME NEW late \in {0, 1}, Build(BuildMessage(made, made - late))
        PROVE  IInv'
    <3>1. made - 0 = made
      BY ClocksAreNatural
    <3>2. CASE late = 0
      BY <2>1, <2>2, <2>4, <3>1, <3>2
    <3>3. CASE late = 1
      BY <2>1, <2>2, <2>4, <3>3
    <3>4. QED
      BY <3>2, <3>3
  <2>5. QED
    BY <2>1, <2>2, <2>3, <2>4, InvChange, InvTick, InvReadNow, InvValidate DEF Next
<1>3. QED
  BY <1>1, <1>2, PTL DEF Spec

(***************************************************************************)
(* What follows from it.                                                   *)
(***************************************************************************)
\* Every frame, on the way too, has only values the checks tell apart, every
\* verdict is a code of validation or the exception that escapes it.
THEOREM TypeCorrect == Spec => []TypeOK
<1>1. IInv => TypeOK
  BY DEF IInv
<1>2. QED
  BY <1>1, Invariance, PTL

\* A frame of the invariant may be judged: the verdict is the table's.
LEMMA VerdictIsTheTable ==
    ASSUME NEW m, Frame(m), Valued(m), NEW t \in Int
    PROVE  /\ Verdict(m, t) \in {"OK"} \union Raised
           /\ Verdict(m, t) = "OK" <=> WellFormed(m, t)
<1>1. Shaped(m) /\ m.stamp \in Int /\ m.sentAt \in Int
  BY DEF Frame, Valued, Shaped
<1>2. QED
  BY <1>1, VerdictOnContract, ContractIsTheTable

\* The checks, in the order the code makes them, with what each of them assumes
\* of the earlier ones, accept exactly the frames of the table.
THEOREM AcceptsTheContractHolds == Spec => []AcceptsTheContract
<1>1. IInv => AcceptsTheContract
  <2> SUFFICES ASSUME IInv, phase = "done"
               PROVE  verdict = "OK" <=> WellFormed(frame, now)
    BY DEF AcceptsTheContract
  <2>1. verdict = Verdict(frame, now) /\ now \in Int /\ Frame(frame) /\ Valued(frame)
    BY InvParts, ProtocolAssumption DEF Judged
  <2>2. QED
    BY <2>1, VerdictIsTheTable
<1>2. QED
  BY <1>1, Invariance, PTL

\* A date cut to its second is in the window of any clock that is nearer to it
\* than the tolerance less that second.
LEMMA NearInWindow ==
    ASSUME NEW made0 \in Nat, NEW u \in Nat, NEW t \in Nat,
           u = made0 \/ u = made0 - 1,
           t - made0 <= (Tolerance - 1) * TicksPerSecond,
           made0 - t <= (Tolerance - 1) * TicksPerSecond
    PROVE  InWindow(Second(u), t)
<1> DEFINE W == Tolerance * TicksPerSecond
           S == Second(u) * TicksPerSecond
<1>1. (Tolerance - 1) * TicksPerSecond = W - TicksPerSecond
  BY ProtocolAssumption
<1>2. W \in Nat
  BY ProtocolAssumption
<1>3. S \in Nat /\ S <= u /\ u < S + TicksPerSecond
  <2>1. Second(u) \in Nat /\ S <= u /\ u < S + TicksPerSecond
    BY SecondBounds
  <2>2. S \in Nat
    BY <2>1, ProtocolAssumption
  <2>3. QED
    BY <2>1, <2>2
<1> HIDE DEF W, S
<1>4. t - made0 <= W - TicksPerSecond /\ made0 - t <= W - TicksPerSecond
  BY <1>1
<1>5. t - S <= W /\ S - t <= W
  BY <1>2, <1>3, <1>4, ProtocolAssumption
<1>6. Apart(t, S) <= W
  BY <1>2, <1>3, <1>5 DEF Apart
<1>7. QED
  BY <1>6 DEF InWindow, S, W

\* A date older than the tolerance is not in the window.
LEMMA FarNotInWindow ==
    ASSUME NEW u \in Nat, NEW t \in Nat, t - u > Tolerance * TicksPerSecond
    PROVE  ~ InWindow(Second(u), t)
<1> DEFINE W == Tolerance * TicksPerSecond
           S == Second(u) * TicksPerSecond
<1>1. W \in Nat /\ S \in Nat /\ S <= u
  BY SecondBounds, ProtocolAssumption
<1> HIDE DEF W, S
<1>2. t - u > W
  BY DEF W
<1>3. ~ (Apart(t, S) <= W)
  BY <1>1, <1>2 DEF Apart
<1>4. QED
  BY <1>3 DEF InWindow, S, W

\* What this code builds, its peers accept while the clocks are apart by no
\* more than the tolerance less one second, whichever of the five frames it is.
THEOREM OwnFramesAcceptedHolds == Spec => []OwnFramesAccepted
<1>1. IInv => OwnFramesAccepted
  <2> SUFFICES ASSUME IInv, phase = "done", changes = 0,
                      now - made <= (Tolerance - 1) * TicksPerSecond,
                      made - now <= (Tolerance - 1) * TicksPerSecond
               PROVE  verdict = "OK"
    BY DEF OwnFramesAccepted
  <2>1. /\ verdict = Verdict(frame, now) /\ frame \in Built /\ made \in MadeAt
        /\ now \in Nat /\ made \in Nat /\ made - 1 \in Nat
    BY InvParts, ClocksAreNatural DEF Judged
  <2>2. /\ Frame(frame) /\ Fits(frame) /\ Valued(frame)
        /\ frame.stamp = Second(made)
        /\ frame.root["type"] = "MESSAGE" => frame.sentAt \in {Second(made), Second(made - 1)}
    BY <2>1, BuiltFrames
  <2>3. InWindow(Second(made), now) /\ InWindow(Second(made - 1), now)
    BY <2>1, NearInWindow
  <2>4. WellFormed(frame, now)
    BY <2>2, <2>3, FitsInTime
  <2>5. QED
    BY <2>1, <2>2, <2>4, VerdictIsTheTable
<1>2. QED
  BY <1>1, Invariance, PTL

\* A frame older than the tolerance is refused, whatever was done to the rest.
THEOREM StaleRefusedHolds == Spec => []StaleRefused
<1>1. IInv => StaleRefused
  <2> SUFFICES ASSUME IInv, phase = "done", now - made > Tolerance * TicksPerSecond
               PROVE  verdict # "OK"
    BY DEF StaleRefused
  <2>1. /\ verdict = Verdict(frame, now) /\ Frame(frame) /\ Valued(frame)
        /\ now \in Nat /\ made \in Nat /\ frame.stamp = Second(made)
    BY InvParts, ClocksAreNatural DEF Judged
  <2>2. ~ InWindow(frame.stamp, now)
    BY <2>1, FarNotInWindow
  <2>3. ~ WellFormed(frame, now)
    BY <2>1, <2>2, FitsInTime
  <2>4. QED
    BY <2>1, <2>3, VerdictIsTheTable
<1>2. QED
  BY <1>1, Invariance, PTL

\* Two seconds are no further apart than the ticks they were cut from allow.
LEMMA SecondsInWindow ==
    ASSUME NEW second \in Nat, NEW read \in Nat, NEW t \in Nat,
           second <= read, read <= Second(t), InWindow(second, t)
    PROVE  read - second <= Tolerance
<1> DEFINE S == Second(t)
<1>1. S \in Nat /\ S * TicksPerSecond <= t
  BY SecondBounds
<1>2. second * TicksPerSecond <= S * TicksPerSecond
  <2>1. second <= S /\ S - second \in Nat
    BY <1>1
  <2>2. (S - second) * TicksPerSecond >= 0
    BY <2>1, ProtocolAssumption
  <2>3. QED
    BY <1>1, <2>2, ProtocolAssumption
<1>3. t - second * TicksPerSecond <= Tolerance * TicksPerSecond
  BY <1>1, <1>2, ProtocolAssumption DEF InWindow, Apart
<1>4. (S - second) * TicksPerSecond <= Tolerance * TicksPerSecond
  BY <1>1, <1>3, ProtocolAssumption
<1>5. S - second <= Tolerance
  <2> SUFFICES ASSUME S - second >= Tolerance + 1
               PROVE  FALSE
    BY <1>1, ProtocolAssumption
  <2>1. (S - second - Tolerance - 1) * TicksPerSecond >= 0
    BY <1>1, ProtocolAssumption
  <2>2. QED
    BY <1>1, <1>4, <2>1, ProtocolAssumption
<1>6. QED
  BY <1>1, <1>5, ProtocolAssumption

\* A date in the window is ahead of the second of the clock by no more than the
\* tolerance.
LEMMA SecondsAhead ==
    ASSUME NEW second \in Nat, NEW t \in Nat, InWindow(second, t)
    PROVE  second <= Second(t) + Tolerance
<1> DEFINE S == Second(t)
<1>1. S \in Nat /\ S * TicksPerSecond <= t /\ t < S * TicksPerSecond + TicksPerSecond
  BY SecondBounds
<1> HIDE DEF S
<1> SUFFICES ASSUME second >= S + Tolerance + 1
             PROVE  FALSE
  BY <1>1, ProtocolAssumption DEF S
<1>2. second * TicksPerSecond - t <= Tolerance * TicksPerSecond
  <2>1. second * TicksPerSecond \in Nat
    BY ProtocolAssumption
  <2>2. QED
    BY <2>1, ProtocolAssumption DEF InWindow, Apart
<1>3. (second - S - Tolerance - 1) * TicksPerSecond >= 0
  BY <1>1, ProtocolAssumption
<1>4. second * TicksPerSecond >= S * TicksPerSecond + Tolerance * TicksPerSecond + TicksPerSecond
  BY <1>1, <1>3, ProtocolAssumption
<1>5. QED
  BY <1>1, <1>2, <1>4, ProtocolAssumption

\* Validation in ticks and the replay guard in seconds, read earlier: what the
\* one lets through the other never refuses as too old, and as too far ahead
\* only if a second passed between the two.
THEOREM GuardRefusesOnlyAheadHolds == Spec => []GuardRefusesOnlyAhead
<1>1. IInv => GuardRefusesOnlyAhead
  <2> SUFFICES ASSUME IInv, phase = "done", verdict = "OK", guard \notin {"none", "OK"}
               PROVE  /\ frame.sentAt > readAt + Tolerance
                      /\ frame.sentAt <= Second(now) + Tolerance /\ readAt < Second(now)
    BY DEF GuardRefusesOnlyAhead
  <2>1. /\ verdict = Verdict(frame, now) /\ Frame(frame) /\ Valued(frame)
        /\ readAt <= Second(now)
        /\ guard = IF frame.root["type"] = "MESSAGE" THEN ReplayTime(frame, readAt) ELSE "none"
    BY InvParts DEF Judged
  <2>2. now \in Nat /\ readAt \in Nat /\ frame.sentAt \in Nat /\ Second(now) \in Nat
    BY <2>1, ClocksAreNatural, SecondBounds DEF Frame
  <2>3. frame.root["type"] = "MESSAGE" /\ Apart(readAt, frame.sentAt) > Tolerance
    BY <2>1, <2>2, ProtocolAssumption DEF ReplayTime, Apart
  <2>4. InWindow(frame.sentAt, now)
    BY <2>1, <2>2, <2>3, VerdictIsTheTable, FitsInTime
  <2>5. frame.sentAt > readAt + Tolerance
    <3>1. ~ (frame.sentAt <= readAt)
      <4> SUFFICES ASSUME frame.sentAt <= readAt
                   PROVE  FALSE
        OBVIOUS
      <4>1. readAt - frame.sentAt <= Tolerance
        BY <2>1, <2>2, <2>4, SecondsInWindow
      <4>2. QED
        BY <2>2, <2>3, <4>1, ProtocolAssumption DEF Apart
    <3>2. QED
      BY <2>2, <2>3, <3>1, ProtocolAssumption DEF Apart
  <2>6. frame.sentAt <= Second(now) + Tolerance
    BY <2>2, <2>4, SecondsAhead
  <2>7. QED
    BY <2>1, <2>2, <2>5, <2>6, ProtocolAssumption
<1>2. QED
  BY <1>1, Invariance, PTL

\* The ERROR that answers a frame refused with a code is valid, at the instant
\* it is built, exactly if the refused frame came from a name or from nobody.
THEOREM AnswerIsValidHolds == Spec => []AnswerIsValid
<1>1. IInv => AnswerIsValid
  <2> SUFFICES ASSUME IInv, phase = "done", verdict \in ValidationCodes
               PROVE  Verdict(MakeError(verdict, frame.root["from"], now), now) = "OK"
                        <=> frame.root["from"] \in USERNAMES \union {"absent", "null"}
    BY DEF AnswerIsValid
  <2> DEFINE from == frame.root["from"]
             m == MakeError(verdict, from, now)
  <2>1. now \in Nat /\ verdict \in ERROR_CODES
    BY ClocksAreNatural DEF ERROR_CODES
  <2>2. /\ m.root = Root("ERROR", "server", IF from = "null" THEN "absent" ELSE from)
        /\ m.stamp = Second(now) /\ m.sentAt = 0
    BY DEF MakeError
  <2> HIDE DEF m, from
  <2>3. ASSUME from \in USERNAMES \union {"absent", "null"}
        PROVE  Verdict(m, now) = "OK"
    <3>1. Frame(m) /\ Fits(m)
      BY <2>1, <2>3, ErrorFits DEF m
    <3>2. m.root["type"] = "ERROR"
      BY <2>2, RootFieldsBuilt
    <3>3. InWindow(Second(now), now)
      <4>1. now - now <= (Tolerance - 1) * TicksPerSecond
        <5>1. 0 <= (Tolerance - 1) * TicksPerSecond
          BY ProtocolAssumption
        <5>2. QED
          BY <2>1, <5>1
      <4>2. QED
        BY <2>1, <4>1, NearInWindow
    <3>4. WellFormed(m, now)
      BY <2>2, <3>1, <3>2, <3>3, FitsInTime
    <3>5. QED
      BY <2>1, <3>1, <3>4, FitsIsValued, VerdictIsTheTable
  <2>4. ASSUME from \notin USERNAMES \union {"absent", "null"}
        PROVE  Verdict(m, now) # "OK"
    <3>1. m.root["type"] = "ERROR" /\ m.root["to"] = from
      BY <2>2, <2>4, RootFieldsBuilt
    <3>2. ~ ContractHolds(m, now)
      BY <2>4, <3>1 DEF ContractHolds, ErrorHolds
    <3>3. m.stamp \in Int /\ m.sentAt \in Int
      BY <2>1, <2>2, SecondBounds
    <3>4. QED
      BY <2>1, <3>2, <3>3, VerdictOnContract
  <2>5. QED
    BY <2>3, <2>4 DEF m, from
<1>2. QED
  BY <1>1, Invariance, PTL
=============================================================================
