-------------------------- MODULE MCServerStartup --------------------------
(* Small instances of ServerStartup for TLC.                               *)
EXTENDS ServerStartup

CONSTANTS w1, w2, w3
MCThree == {w1, w2, w3}
=============================================================================
