------------------------------- MODULE Router -------------------------------
(***************************************************************************)
(* What the relay promises its clients, whatever its handlers do: a frame  *)
(* put on a connection is handed once, in the order of that connection, to *)
(* some connection that announced the frame's addressee, or it is lost;    *)
(* and it is lost only when nobody announced that name or somebody who did *)
(* has gone.                                                               *)
(***************************************************************************)
EXTENDS Sequences, Naturals

CONSTANTS Links, Names, Items   \* connections, user names, what travels

VARIABLES
    announced,      \* the connections that announced each name
    broken,         \* the connections that have begun to close
    queue,          \* what each connection carried in and is not settled
    box             \* what was handed to each connection

routerVars == <<announced, broken, queue, box>>

RouterInit ==
    /\ announced = [n \in Names |-> {}]
    /\ broken = {}
    /\ queue = [i \in Links |-> << >>]
    /\ box = [i \in Links |-> << >>]

Settle(i) ==
    /\ queue[i] # << >>
    /\ queue' = [queue EXCEPT ![i] = Tail(@)]

\* A connection opens under a name.
Join(i, n) ==
    /\ announced' = [announced EXCEPT ![n] = @ \union {i}]
    /\ UNCHANGED <<broken, queue, box>>

Put(i, x) ==
    /\ i \notin broken
    /\ queue' = [queue EXCEPT ![i] = Append(@, x)]
    /\ UNCHANGED <<announced, broken, box>>

Rename(i) ==
    /\ Settle(i)
    /\ Head(queue[i]).kind = "REGISTER"
    /\ announced' = [announced EXCEPT ![Head(queue[i]).name] = @ \union {i}]
    /\ UNCHANGED <<broken, box>>

Hand(i, d) ==
    /\ Settle(i)
    /\ Head(queue[i]).kind = "FRAME"
    /\ d \in announced[Head(queue[i]).name] \ broken
    /\ box' = [box EXCEPT ![d] = Append(@, Head(queue[i]))]
    /\ UNCHANGED <<announced, broken>>

Drop(i) ==
    /\ Settle(i)
    /\ Head(queue[i]).kind = "FRAME"
    /\ \/ announced[Head(queue[i]).name] = {}
       \/ announced[Head(queue[i]).name] \intersect broken # {}
    /\ UNCHANGED <<announced, broken, box>>

\* Connections break and take the end of what they carried with them.
Break ==
    /\ broken' \subseteq Links /\ broken \subseteq broken'
    /\ \A i \in Links : \E k \in 0 .. Len(queue[i]) : queue'[i] = SubSeq(queue[i], 1, k)
    /\ \A i \in Links \ broken' : queue'[i] = queue[i]
    /\ DOMAIN queue' = Links
    /\ UNCHANGED <<announced, box>>

RouterNext ==
    \/ \E i \in Links : Rename(i) \/ Drop(i)
    \/ \E i \in Links, n \in Names : Join(i, n)
    \/ \E i \in Links, x \in Items : Put(i, x)
    \/ \E i, d \in Links : Hand(i, d)
    \/ Break

RouterSpec == RouterInit /\ [][RouterNext]_routerVars
=============================================================================
