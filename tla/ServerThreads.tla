---------------------------- MODULE ServerThreads ----------------------------
(***************************************************************************)
(* What the start-up of the server of Final/Server/main.c (ServerStartup)  *)
(* and its accept loop and pool (ServerPool) are about both: the threads   *)
(* of the pool and the flag the handler of SIGINT sets.                    *)
(***************************************************************************)
EXTENDS Integers, FiniteSets

CONSTANTS Workers,     \* the threads of the pool
          Nobody,      \* the owner of a free mutex
          MaxSig       \* bound: SIGINTs sent to the server

ASSUME ThreadsAssumption ==
  /\ IsFiniteSet(Workers) /\ Workers # {} /\ Nobody \notin Workers
  /\ MaxSig \in Nat

poolSize == Cardinality(Workers)

VARIABLES interrupt,   \* SIGINT has been handled
          sigs         \* SIGINTs sent
=============================================================================
