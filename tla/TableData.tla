----------------------------- MODULE TableData -----------------------------
(***************************************************************************)
(* The server's table and the SQL requests on it: what parse_query of      *)
(* Final/Server/main.c understands of a query, apart from its text.        *)
(***************************************************************************)
EXTENDS Integers, FiniteSets

CONSTANTS Threads,      \* the worker threads of the pool
          NumRows,      \* rows of the table, the header row left out
          NumCols,      \* columns of the table
          Values,       \* the strings a cell may hold
          NULL,         \* a cell that holds no string
          Requests      \* the SQL requests clients send

Rows    == 1..NumRows
Columns == 1..NumCols
Cells   == Rows \X Columns

(* "SELECT cols FROM TABLE" and "UPDATE TABLE SET cols=val WHERE key=is".  *)
RequestType == [op: {"SELECT", "UPDATE"}, cols: SUBSET Columns,
                val: [Columns -> Values], key: Columns, is: Values]

ASSUME ThreadsAssumption  == IsFiniteSet(Threads)
ASSUME SizesAssumption    == NumRows \in Nat /\ NumCols \in Nat
ASSUME NullAssumption     == NULL \notin Values
ASSUME RequestsAssumption == Requests \subseteq RequestType

NoCells == [c \in Cells |-> NULL]

(* The cells a SELECT returns: its columns in every row.                   *)
Selected(r) == {c \in Cells : c[2] \in r.cols}

(* The cells an UPDATE assigns in table tb: its columns in the first row   *)
(* whose key column holds the wanted string, none when no row matches.     *)
Matches(tb, r, i) == tb[<<i, r.key>>] = r.is
Assigned(tb, r) ==
  {c \in Cells : /\ c[2] \in r.cols
                 /\ Matches(tb, r, c[1])
                 /\ \A i \in Rows : i < c[1] => ~Matches(tb, r, i)}
=============================================================================
