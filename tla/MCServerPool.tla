---------------------------- MODULE MCServerPool ----------------------------
(* Small instances of ServerPool for TLC.                                  *)
EXTENDS ServerPool

CONSTANTS w1, w2
MCTwo == {w1, w2}
=============================================================================
