---------------------------- MODULE AtomicTable ----------------------------
(***************************************************************************)
(* What the database server promises its clients: an SQL request takes     *)
(* effect at one instant between the moment a worker thread starts to      *)
(* answer it and the moment the worker has its answer.  A SELECT returns   *)
(* the selected columns of every row as they are at that instant, an       *)
(* UPDATE assigns all its columns of the first matching row at once.       *)
(*                                                                         *)
(* TableLock is the code's implementation of this promise: a reader-writer *)
(* lock built from one mutex and two condition variables around accesses   *)
(* that touch the table one cell at a time.                                *)
(***************************************************************************)
EXTENDS TableData

Projection(tb, cells)   == [c \in Cells |-> IF c \in cells THEN tb[c] ELSE NULL]
Overwrite(tb, cells, r) == [c \in Cells |-> IF c \in cells THEN r.val[c[2]] ELSE tb[c]]

VARIABLES table,    \* the committed value of every cell
          status,   \* status[t]: "idle", "asked" or, after an UPDATE, "applied"
          req,      \* req[t]: the request thread t answers, or answered last
          reply     \* reply[t]: the cells t's last SELECT returned

vars == <<table, status, req, reply>>

Init == /\ table \in [Cells -> Values]
        /\ status = [t \in Threads |-> "idle"]
        /\ req \in [Threads -> Requests]
        /\ reply = [t \in Threads |-> NoCells]

Ask(t) ==
  /\ status[t] = "idle"
  /\ \E r \in Requests : req' = [req EXCEPT ![t] = r]
  /\ status' = [status EXCEPT ![t] = "asked"]
  /\ reply' = [reply EXCEPT ![t] = NoCells]
  /\ UNCHANGED table

Select(t) ==
  /\ status[t] = "asked" /\ req[t].op = "SELECT"
  /\ reply' = [reply EXCEPT ![t] = Projection(table, Selected(req[t]))]
  /\ status' = [status EXCEPT ![t] = "idle"]
  /\ UNCHANGED <<table, req>>

Update(t) ==
  /\ status[t] = "asked" /\ req[t].op = "UPDATE"
  /\ table' = Overwrite(table, Assigned(table, req[t]), req[t])
  /\ status' = [status EXCEPT ![t] = "applied"]
  /\ UNCHANGED <<req, reply>>

Return(t) ==
  /\ status[t] = "applied"
  /\ status' = [status EXCEPT ![t] = "idle"]
  /\ UNCHANGED <<table, req, reply>>

Next == \E t \in Threads : Ask(t) \/ Select(t) \/ Update(t) \/ Return(t)

Spec == Init /\ [][Next]_vars
=============================================================================
