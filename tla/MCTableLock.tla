---------------------------- MODULE MCTableLock ----------------------------
(* Small instances of TableLock for TLC: two rows of two columns.          *)
EXTENDS TableLock

CONSTANTS t1, t2, t3, a, b

Both(x) == [c \in Columns |-> x]

Select(cols) ==
  [op |-> "SELECT", cols |-> cols, val |-> Both(a), key |-> 1, is |-> a]
Update(cols, x, key, is) ==
  [op |-> "UPDATE", cols |-> cols, val |-> Both(x), key |-> key, is |-> is]

MCThreads == {t1, t2, t3}

(* A SELECT of everything, an UPDATE of a whole row, one that decides its  *)
(* row by the column it changes.                                           *)
MCRequests == {Select(Columns), Update(Columns, b, 1, a), Update({1}, a, 1, b)}
=============================================================================
