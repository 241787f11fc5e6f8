-------------------------- MODULE MCClientThreads --------------------------
(***************************************************************************)
(* TLC instances of ClientThreads.                                         *)
(***************************************************************************)
EXTENDS ClientThreads

\* Users other than the one whose threads overlap are interchangeable.
Symmetry == Permutations(Users \ Threaded)

\* The peer of a threaded process may come back, so that two handshake frames of
\* one user wait at the same time, one for each thread; the threaded process has
\* one session, and one message is sent in all.
FewSteps ==
    /\ \A c \in Threaded : logins[c] <= 1
    /\ \A c, d \in Clients : c # d => msgsMade[c] + msgsMade[d] <= 1

PairNext == TNext /\ FewSteps'

PairSpec == TInit /\ [][PairNext]_tvars
=============================================================================
