-------------------------- MODULE ChannelLifecycle --------------------------
(***************************************************************************)
(* What a secure channel promises its users, whatever the handshake does:  *)
(* it is opened, established under one secret that stays fixed for as long *)
(* as the channel is ACTIVE, and dropped together with the secret when a   *)
(* participant leaves.  One departure may drop many channels at once.      *)
(* A channel that once existed never goes back to NONE, and an ACTIVE one  *)
(* is never renegotiated in place.                                         *)
(***************************************************************************)
CONSTANTS Channels, SharedSecrets, None

VARIABLES state, secret

vars == <<state, secret>>

Init ==
    /\ state = [x \in Channels |-> "NONE"]
    /\ secret = [x \in Channels |-> None]

Open(x) ==
    /\ state[x] \in {"NONE", "INVALID"}
    /\ state' = [state EXCEPT ![x] = "ESTABLISHING"]
    /\ UNCHANGED secret

\* A peer's frame may establish a channel nobody opened on this side.
Establish(x, s) ==
    /\ state[x] # "ACTIVE"
    /\ state' = [state EXCEPT ![x] = "ACTIVE"]
    /\ secret' = [secret EXCEPT ![x] = s]

Drop(S) ==
    /\ \A x \in S : state[x] # "NONE"
    /\ state' = [x \in Channels |-> IF x \in S THEN "INVALID" ELSE state[x]]
    /\ secret' = [x \in Channels |-> IF x \in S THEN None ELSE secret[x]]

Next ==
    \/ \E x \in Channels : Open(x)
    \/ \E x \in Channels, s \in SharedSecrets : Establish(x, s)
    \/ \E S \in SUBSET Channels : Drop(S)

Spec == Init /\ [][Next]_vars
=============================================================================
