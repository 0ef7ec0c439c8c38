------------------------- MODULE ConnectionService -------------------------
(***************************************************************************)
(* What the database server promises the clients that connect to it: they  *)
(* are served in the order they come, no connection is given to two worker *)
(* threads or served twice, and no more connections than the pool has      *)
(* threads are being served at any moment.                                 *)
(***************************************************************************)
EXTENDS Integers, FiniteSets

CONSTANTS PoolSize, MaxConn

VARIABLES offered,   \* connections 1..offered have been made
          serving,   \* connections some thread holds
          closed     \* connections that are over

vars == <<offered, serving, closed>>

Started == serving \cup closed

Init == offered = 0 /\ serving = {} /\ closed = {}

Arrive == /\ offered < MaxConn
          /\ offered' = offered + 1
          /\ UNCHANGED <<serving, closed>>

(* The oldest connection that is not started yet.                          *)
Start == \E c \in (1..offered) \ Started :
           /\ \A d \in 1..offered : d < c => d \in Started
           /\ Cardinality(serving) < PoolSize
           /\ serving' = serving \cup {c}
           /\ UNCHANGED <<offered, closed>>

Finish == \E c \in serving :
            /\ serving' = serving \ {c}
            /\ closed' = closed \cup {c}
            /\ UNCHANGED offered

Next == Arrive \/ Start \/ Finish

Spec == Init /\ [][Next]_vars
=============================================================================
