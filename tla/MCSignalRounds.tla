---------------------------- MODULE MCSignalRounds ----------------------------
(* A small instance of SignalRounds for TLC.                               *)
EXTENDS SignalRounds
=============================================================================
