--------------------------- MODULE MCServerSession ---------------------------
(* ServerSession for TLC: two server processes of one thread each, and two  *)
(* clients that the thread serves one after the other.  c1 may be           *)
(* interrupted, c2 is not.  The first server is asked twice by each client  *)
(* and may be interrupted; one that comes after it says what became of the  *)
(* name, and has clients that connect and leave.                            *)
EXTENDS ServerSession

CONSTANTS c1, c2

MCMaxQueries == <<2, 0>>
=============================================================================
