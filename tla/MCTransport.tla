---------------------------- MODULE MCTransport ----------------------------
EXTENDS Transport, TLC

CONSTANTS c1, c2, alice, bob

\* Each process serves one user.
OwnName == c1 :> {alice} @@ c2 :> {bob}

\* One user changes name to the one the other has.
OneRenamer == c1 :> {alice, bob} @@ c2 :> {bob}
=============================================================================
