---------------------------- MODULE ServerSession ----------------------------
(***************************************************************************)
(* A session between a client and a worker thread of the server, and the   *)
(* life of the server processes it depends on: main, exit_server and       *)
(* thread_pool_handler (L296-358) of Final/Server/main.c, client_request   *)
(* of Final/Client/main.c, and the sockets between them.                   *)
(*                                                                         *)
(* Several server processes are started one after the other or at the same *)
(* time; the named semaphore PDA is to let one of them serve.  A process   *)
(* ends by exit (exit_server runs and removes PDA) or is killed (PDA       *)
(* stays): by SIGKILL, by SIGPIPE, or by what it does with its memory.     *)
(*                                                                         *)
(* A worker's pointer `records' is a local of the thread: it outlives the  *)
(* answer it was made for and the session too.                             *)
(*                                                                         *)
(* How workers wait for connections and how SIGINT ends the pool is module *)
(* ServerPool, how a query is answered modules TableLock and TableData: a  *)
(* query is known here by the answer it gets.  A read takes a message as   *)
(* it was written, for x_read does not loop over a short read; a write is  *)
(* not interrupted, and malloc does not fail.                              *)
(***************************************************************************)
EXTENDS Integers, FiniteSets, Sequences

CONSTANTS Clients, Servers, Workers,
          Nobody,      \* no server, no client
          rSize,       \* the rows of the table, its header among them
          MaxQueries,  \* bound: MaxQueries[s] queries in a file sent to s
          Leavers,     \* the clients that may be interrupted by SIGINT
          MaxSigkill,  \* bound: servers that somebody kills
          Interrupted  \* the servers that may get the signals they handle

ASSUME SessionAssumption ==
  /\ IsFiniteSet(Clients) /\ IsFiniteSet(Servers) /\ IsFiniteSet(Workers)
  /\ Servers \subseteq Nat /\ Nobody \notin Clients \cup Servers
  /\ rSize \in Nat \ {0} /\ MaxQueries \in [Servers -> Nat] /\ MaxSigkill \in Nat
  /\ Leavers \subseteq Clients /\ Interrupted \subseteq Servers

(* The queries, by what parse_query makes of them: every row for a SELECT, *)
(* a line for an UPDATE, and no answer for what begins with another word.  *)
(* A query is broken if answering it goes outside of the memory it has: a  *)
(* SELECT with DISTINCT (L421), without FROM (L410) or of no column of the *)
(* table (L446), an UPDATE of a column the table does not have (L502) or   *)
(* without a value to set (L539) or to look for (L481), or one with a row  *)
(* of more than BUFSIZ (L330).                                             *)
Queries == {"select", "update", "broken", "other"}
Records(q) == IF q = "select" THEN rSize ELSE 1
Answered(q) == q \in {"select", "update"}

(* What read returns at the end of the connection reads as this query.     *)
Empty == "other"

Threads == Servers \X Workers

VARIABLES
  life,      \* life[s]: how far server process s has come
  pda,       \* the process that has created the semaphore PDA, while it exists
  interrupt, \* interrupt[s]: s has handled SIGINT
  memory,    \* memory[s]: "sound", or "corrupt" once s has written or freed wrongly
  wpc,       \* wpc[t]: where thread t is in its session
  fd,        \* fd[t]: the client at the other end of t's connection
  query,     \* query[t]: the query t has read last
  records,   \* records[t]: what the pointer points to, and whose answer it is
  num,       \* num[t]: numOfRecords
  sent,      \* sent[t]: the loop index j
  cpc,       \* cpc[c]: where client c is in client_request
  conn,      \* conn[c]: the server c is connected to
  srvEnd,    \* srvEnd[c]: the server's end of c's connection
  cliEnd,    \* cliEnd[c]: c's end, as the server's socket knows it
  toSrv,     \* toSrv[c]: messages on their way to the server
  toCli,     \* toCli[c]: messages on their way to c
  asked,     \* asked[c]: how many queries c has sent
  last,      \* last[c]: the query c has sent last
  want,      \* want[c]: the client's numOfRecords, counted down as it reads
  killed,    \* the servers somebody killed
  cause      \* cause[s]: what was done to s that matters to its end

serverVars == <<life, pda, interrupt, memory>>
threadVars == <<wpc, fd, query, records, num, sent>>
clientVars == <<cpc, conn, asked, last, want>>
socketVars == <<srvEnd, cliEnd, toSrv, toCli>>
vars == <<life, pda, interrupt, memory, wpc, fd, query, records, num, sent,
          cpc, conn, asked, last, want, srvEnd, cliEnd, toSrv, toCli, killed, cause>>

None == [by |-> Nobody, no |-> 0, q |-> Empty]      \* nobody's query
Null == [at |-> "null", of |-> None]

(* The query c has sent last.                                              *)
Current(c) == [by |-> c, no |-> asked[c], q |-> last[c]]

(* A process that has come up; exit_server closes sockfd at the very end.  *)
Running(s) == life[s] \in {"serving", "exiting"}
Listening(s) == Running(s)
Talking(s) == {t \in Threads : t[1] = s /\ wpc[t] # "idle"}

Init ==
  /\ life = [s \in Servers |-> "new"] /\ pda = Nobody
  /\ interrupt = [s \in Servers |-> FALSE] /\ memory = [s \in Servers |-> "sound"]
  /\ wpc = [t \in Threads |-> "idle"] /\ fd = [t \in Threads |-> Nobody]
  /\ query = [t \in Threads |-> None] /\ records = [t \in Threads |-> Null]
  /\ num = [t \in Threads |-> 0] /\ sent = [t \in Threads |-> 0]
  /\ cpc = [c \in Clients |-> "new"] /\ conn = [c \in Clients |-> Nobody]
  /\ asked = [c \in Clients |-> 0] /\ last = [c \in Clients |-> Empty]
  /\ want = [c \in Clients |-> 0]
  /\ srvEnd = [c \in Clients |-> "none"] /\ cliEnd = [c \in Clients |-> "open"]
  /\ toSrv = [c \in Clients |-> <<>>] /\ toCli = [c \in Clients |-> <<>>]
  /\ killed = {} /\ cause = [s \in Servers |-> {}]

-----------------------------------------------------------------------------
(* The server processes.                                                   *)

(* Its connections when process s ends.  A connection with something the   *)
(* process has not read is reset, and so is one it has never accepted.     *)
Cut(s, c) == conn[c] = s /\ srvEnd[c] \in {"waiting", "open"}
ConnectionsCut(s) ==
  /\ srvEnd' = [c \in Clients |->
    IF ~Cut(s, c) THEN srvEnd[c]
    ELSE IF srvEnd[c] = "waiting" \/ toSrv[c] # <<>> THEN "reset" ELSE "closed"]
  /\ toSrv' = [c \in Clients |-> IF Cut(s, c) THEN <<>> ELSE toSrv[c]]

(* The process is gone, with its threads and their memory.                 *)
Forgotten(f, s, none) == [t \in Threads |-> IF t[1] = s THEN none ELSE f[t]]
Ends(s, how) ==
  /\ life' = [life EXCEPT ![s] = how]
  /\ ConnectionsCut(s)
  /\ memory' = [memory EXCEPT ![s] = "sound"]
  /\ wpc' = Forgotten(wpc, s, "idle") /\ fd' = Forgotten(fd, s, Nobody)
  /\ query' = Forgotten(query, s, None) /\ records' = Forgotten(records, s, Null)
  /\ num' = Forgotten(num, s, 0) /\ sent' = Forgotten(sent, s, 0)
  /\ UNCHANGED <<interrupt, cliEnd, toCli, clientVars>>

(* Killed: nothing of exit_server is done.                                 *)
Dies(s) == Ends(s, "killed") /\ UNCHANGED pda

(* sem_open with O_EXCL.  A process that is refused leaves before it has   *)
(* registered exit_server.  Processes are numbered as they start.          *)
BadRefused == FALSE                                 \* O_CREAT without O_EXCL
Refused == pda # Nobody
Start(s) ==
  /\ life[s] = "new" /\ \A r \in Servers : r < s => life[r] # "new"
  /\ IF Refused
       THEN life' = [life EXCEPT ![s] = "refused"] /\ UNCHANGED pda
       ELSE pda' = s /\ life' = [life EXCEPT ![s] = "starting"]
  /\ UNCHANGED <<interrupt, memory, threadVars, clientVars, socketVars, killed, cause>>

(* The process ends before exit_server is registered, as become_daemon or  *)
(* the log file fail, or without it, by what a malformed file does to its  *)
(* memory (CsvTable).                                                      *)
StartFails(s) ==
  /\ life[s] = "starting"
  /\ life' = [life EXCEPT ![s] = "failed"]
  /\ UNCHANGED <<pda, interrupt, memory, threadVars, clientVars, socketVars, killed, cause>>

(* exit_server begins: PDA is removed while the process is still there.    *)
BadNameAfterExit == pda                             \* sem_close without sem_unlink
NameAfterExit == Nobody
ExitServer(s) ==
  /\ life' = [life EXCEPT ![s] = IF @ = "serving" THEN "exiting" ELSE "aborting"]
  /\ pda' = NameAfterExit
  /\ UNCHANGED <<interrupt, memory>>

(* The table is loaded, the pool made, and the socket listens (L613); an   *)
(* interrupt ends the server.                                              *)
ComeUp(s) ==
  /\ life[s] = "starting"
  /\ IF interrupt[s] THEN ExitServer(s)
     ELSE life' = [life EXCEPT ![s] = "serving"] /\ UNCHANGED <<pda, interrupt, memory>>
  /\ UNCHANGED <<threadVars, clientVars, socketVars, killed, cause>>

(* exit_server is registered, and the file cannot be read, a mutex gives   *)
(* an error (ServerStartup), or bind or listen fails.                      *)
ComeUpFails(s) ==
  /\ life[s] = "starting"
  /\ ExitServer(s)
  /\ UNCHANGED <<threadVars, clientVars, socketVars, killed, cause>>

Sigint(s) ==
  /\ s \in Interrupted /\ life[s] \in {"starting", "serving"} /\ ~interrupt[s]
  /\ interrupt' = [interrupt EXCEPT ![s] = TRUE]
  /\ UNCHANGED <<life, pda, memory, threadVars, clientVars, socketVars, killed, cause>>

(* The main thread has left the accept loop and joined every worker.       *)
Exit(s) ==
  /\ life[s] = "serving" /\ interrupt[s] /\ Talking(s) = {}
  /\ ExitServer(s)
  /\ UNCHANGED <<threadVars, clientVars, socketVars, killed, cause>>

(* The rest of exit_server, and the end of the process.                    *)
Gone(s) ==
  /\ life[s] \in {"exiting", "aborting"}
  /\ Ends(s, IF life[s] = "exiting" THEN "gone" ELSE "failed")
  /\ UNCHANGED <<pda, killed, cause>>

(* SIGKILL, or a signal before its handler has been set.                   *)
Sigkill(s) ==
  /\ life[s] \in {"starting", "aborting", "serving", "exiting"}
  /\ Cardinality(killed) < MaxSigkill
  /\ Dies(s) /\ killed' = killed \cup {s}
  /\ UNCHANGED cause

(* Memory that has been misused may fail the process in any later call; so *)
(* may exit_server, which takes away the table and the mutexes of threads  *)
(* that are still there.                                                   *)
MemoryFails(s) ==
  /\ Running(s) /\ (memory[s] = "corrupt" \/ (life[s] = "exiting" /\ Talking(s) # {}))
  /\ Dies(s) /\ UNCHANGED <<killed, cause>>

ServerStep(s) == Start(s) \/ ComeUp(s) \/ Gone(s)
ServerEvent(s) ==
  StartFails(s) \/ ComeUpFails(s) \/ Sigint(s) \/ Exit(s) \/ Sigkill(s) \/ MemoryFails(s)

-----------------------------------------------------------------------------
(* A worker thread and its socket.  The client's end of the connection is  *)
(* "open"; "fin" once the client has closed it, "finw" when something has  *)
(* been written to it since, "finrst" once that has come back as a reset;  *)
(* "rst" when the client left something unread, "rstseen" once a call has  *)
(* reported that.                                                          *)

(* What the socket does with m: nobody will read what comes after the end. *)
Deliver(c, m) ==
  /\ cliEnd[c] \in {"open", "fin", "finw"}
  /\ IF cliEnd[c] = "open"
       THEN toCli' = [toCli EXCEPT ![c] = Append(@, m)] /\ UNCHANGED cliEnd
       ELSE cliEnd' = [cliEnd EXCEPT ![c] = "finw"] /\ UNCHANGED toCli
  /\ UNCHANGED <<srvEnd, toSrv>>

(* write returns -1: the reset is reported once.                           *)
WriteFails(c) ==
  /\ cliEnd[c] = "rst" /\ cliEnd' = [cliEnd EXCEPT ![c] = "rstseen"]
  /\ UNCHANGED <<srvEnd, toSrv, toCli>>

Goes(t, at) == wpc' = [wpc EXCEPT ![t] = at]
AtPc(t, at) == Running(t[1]) /\ wpc[t] = at

(* An idle thread takes a connection off the queue.                        *)
Take(t) ==
  /\ AtPc(t, "idle") /\ life[t[1]] = "serving" /\ ~interrupt[t[1]]
  /\ \E c \in Clients :
       /\ conn[c] = t[1] /\ srvEnd[c] = "waiting"
       /\ srvEnd' = [srvEnd EXCEPT ![c] = "open"]
       /\ fd' = [fd EXCEPT ![t] = c]
  /\ Goes(t, "greet")
  /\ UNCHANGED <<serverVars, clientVars, query, records, num, sent,
                 cliEnd, toSrv, toCli, killed, cause>>

Greet(t) ==
  /\ AtPc(t, "greet")
  /\ Deliver(fd[t], [is |-> "ready"]) /\ Goes(t, "read")
  /\ UNCHANGED <<serverVars, clientVars, fd, query, records, num, sent, killed, cause>>

(* x_read: a message, or the end of the connection, which reads as "".     *)
BadIsEnd(m) == FALSE              \* compared with the terminator the client sends along
IsEnd(m) == m.q = "DONE"
BadReadsNothing(c) == FALSE       \* read again until something comes
ReadsNothing(c) == cliEnd[c] \in {"fin", "finw", "finrst", "rstseen"}
ReadQuery(t) ==
  LET c == fd[t] IN
  /\ AtPc(t, "read")
  /\ IF toSrv[c] # <<>>
       THEN /\ toSrv' = [toSrv EXCEPT ![c] = Tail(@)]
            /\ IF IsEnd(Head(toSrv[c]))
                 THEN Goes(t, "close") /\ UNCHANGED query
                 ELSE Goes(t, "answer") /\ query' = [query EXCEPT ![t] = Head(toSrv[c])]
       ELSE /\ ReadsNothing(c)
            /\ Goes(t, "answer") /\ query' = [query EXCEPT ![t] = None]
            /\ UNCHANGED toSrv
  /\ UNCHANGED <<serverVars, clientVars, fd, records, num, sent,
                 srvEnd, cliEnd, toCli, killed, cause>>

(* x_error ends the server from this thread.  A second thread that gets    *)
(* there finds exit_server running.                                        *)
ExitFrom(t) ==
  /\ IF life[t[1]] = "serving" THEN ExitServer(t[1]) ELSE UNCHANGED serverVars
  /\ Goes(t, "exits")
  /\ UNCHANGED <<clientVars, socketVars, fd, query, records, num, sent, killed>>

(* read returns -1: the connection was reset.                              *)
ReadFails(t) ==
  /\ AtPc(t, "read") /\ toSrv[fd[t]] = <<>> /\ cliEnd[fd[t]] = "rst"
  /\ ExitFrom(t) /\ UNCHANGED cause

(* read returns -1: one of the signals that the server handles, SIGINT,    *)
(* SIGTERM or SIGHUP, has come to this thread while it waits, and the      *)
(* handlers are set without SA_RESTART.                                    *)
ReadInterrupted(t) ==
  /\ t[1] \in Interrupted /\ AtPc(t, "read") /\ toSrv[fd[t]] = <<>> /\ cliEnd[fd[t]] = "open"
  /\ ExitFrom(t) /\ cause' = [cause EXCEPT ![t[1]] = @ \cup {"signal"}]

(* parse_query and split2: a query without an answer leaves records as it  *)
(* was, and numOfRecords too unless records is NULL.                       *)
BadRecordsAfter(t) == IF Answered(query[t].q) /\ records[t].at = "null"
                      THEN [at |-> "live", of |-> query[t]] ELSE records[t]
RecordsAfter(t) == IF Answered(query[t].q) THEN [at |-> "live", of |-> query[t]]
                   ELSE records[t]
CountAfter(t) == IF Answered(query[t].q) THEN Records(query[t].q)
                 ELSE IF records[t].at = "null" THEN 0 ELSE num[t]
Answer(t) ==
  /\ AtPc(t, "answer") /\ query[t].q # "broken" /\ Goes(t, "count")
  /\ records' = [records EXCEPT ![t] = RecordsAfter(t)]
  /\ num' = [num EXCEPT ![t] = CountAfter(t)]
  /\ UNCHANGED <<serverVars, clientVars, socketVars, fd, query, sent, killed, cause>>

(* A broken query, if the process lives: what is read outside of tokens or *)
(* table is text with any number of lines, and split2 returns NULL for an  *)
(* empty one.                                                              *)
AnswerBroken(t) ==
  /\ AtPc(t, "answer") /\ query[t].q = "broken" /\ Goes(t, "count")
  /\ \E n \in 0..rSize :
       /\ num' = [num EXCEPT ![t] = n]
       /\ records' = [records EXCEPT ![t] = IF n = 0 THEN Null
                                           ELSE [at |-> "live", of |-> query[t]]]
  /\ UNCHANGED <<serverVars, clientVars, socketVars, fd, query, sent, killed, cause>>

(* And if it does not: the address read is nobody's.                       *)
ParseDies(t) ==
  /\ AtPc(t, "answer") /\ query[t].q = "broken"
  /\ Dies(t[1]) /\ UNCHANGED <<killed, cause>>

(* numOfRecords is written.  SIGINT ends the session before the rows, and  *)
(* without freeing them; so does a write that fails.                       *)
WriteCount(t) ==
  /\ AtPc(t, "count")
  /\ \/ /\ Deliver(fd[t], [is |-> "count", n |-> num[t]])
        /\ Goes(t, IF interrupt[t[1]] THEN "close"
                   ELSE IF records[t].at # "null" THEN "row" ELSE "free")
     \/ WriteFails(fd[t]) /\ Goes(t, "close")
  /\ UNCHANGED <<serverVars, clientVars, fd, query, records, num, sent, killed, cause>>

(* One turn of the loop over the records.  What a freed record holds is    *)
(* anybody's row, if it can be read at all (StaleUse).                     *)
LastRow(t) == sent[t] + 1 = num[t]
WriteRow(t) ==
  /\ AtPc(t, "row")
  /\ \/ /\ Deliver(fd[t], [is |-> "row",
                           of |-> IF records[t].at = "freed" THEN None ELSE records[t].of])
        /\ IF LastRow(t)
             THEN Goes(t, "free") /\ sent' = [sent EXCEPT ![t] = 0]
             ELSE sent' = [sent EXCEPT ![t] = @ + 1] /\ UNCHANGED wpc
     \/ WriteFails(fd[t]) /\ Goes(t, "free") /\ sent' = [sent EXCEPT ![t] = 0]
  /\ UNCHANGED <<serverVars, clientVars, fd, query, records, num, killed, cause>>

(* strcpy of a row of more than BUFSIZ into query, which is on the stack.  *)
RowOverruns(t) ==
  /\ AtPc(t, "row") /\ query[t].q = "broken" /\ memory[t[1]] = "sound"
  /\ memory' = [memory EXCEPT ![t[1]] = "corrupt"]
  /\ UNCHANGED <<life, pda, interrupt, threadVars, clientVars, socketVars, killed, cause>>

(* A read of a freed record or a second free may end the process at once.  *)
StaleUse(t) ==
  /\ AtPc(t, "row") \/ AtPc(t, "free")
  /\ records[t].at = "freed"
  /\ Dies(t[1]) /\ UNCHANGED <<killed, cause>>

(* freepath, which sets its own copy of the pointer to NULL.               *)
FreePath(t) ==
  /\ AtPc(t, "free")
  /\ records' = [records EXCEPT ![t].at = IF @ = "null" THEN "null" ELSE "freed"]
  /\ memory' = IF records[t].at = "freed" THEN [memory EXCEPT ![t[1]] = "corrupt"]
               ELSE memory
  /\ Goes(t, IF interrupt[t[1]] THEN "close" ELSE "read")
  /\ UNCHANGED <<life, pda, interrupt, clientVars, socketVars, fd, query, num, sent,
                 killed, cause>>

(* The slot is given back (ServerPool) and the connection closed.          *)
EndAfterClose(c) == IF toSrv[c] # <<>> THEN "reset" ELSE "closed"
CloseSession(t) ==
  LET c == fd[t] IN
  /\ AtPc(t, "close") /\ Goes(t, "idle")
  /\ srvEnd' = [srvEnd EXCEPT ![c] = EndAfterClose(c)]
  /\ toSrv' = [toSrv EXCEPT ![c] = <<>>]
  /\ fd' = [fd EXCEPT ![t] = Nobody] /\ query' = [query EXCEPT ![t] = None]
  /\ UNCHANGED <<serverVars, clientVars, records, num, sent, cliEnd, toCli, killed, cause>>

(* A write to a connection whose end is known: SIGPIPE, which the server   *)
(* does not handle.                                                        *)
Sigpipe(t) ==
  /\ AtPc(t, "greet") \/ AtPc(t, "count") \/ AtPc(t, "row")
  /\ cliEnd[fd[t]] \in {"finrst", "rstseen"}
  /\ Dies(t[1]) /\ UNCHANGED <<killed, cause>>

ThreadStep(t) ==
  \/ Take(t) \/ Greet(t) \/ ReadQuery(t) \/ ReadFails(t)
  \/ Answer(t) \/ AnswerBroken(t) \/ ParseDies(t)
  \/ WriteCount(t) \/ WriteRow(t) \/ RowOverruns(t) \/ StaleUse(t)
  \/ FreePath(t) \/ CloseSession(t) \/ Sigpipe(t)

-----------------------------------------------------------------------------
(* A client.                                                               *)

(* The client stops and its end of the connection is closed: what has come *)
(* and was not read makes that a reset.                                    *)
Stops(c, how) ==
  /\ cpc' = [cpc EXCEPT ![c] = how] /\ want' = [want EXCEPT ![c] = 0]
  /\ asked' = [asked EXCEPT ![c] = 0] /\ last' = [last EXCEPT ![c] = Empty]
  /\ cliEnd' = [cliEnd EXCEPT ![c] = IF toCli[c] = <<>> THEN "fin" ELSE "rst"]
  /\ toCli' = [toCli EXCEPT ![c] = <<>>]

Connect(c) ==
  /\ cpc[c] = "new"
  /\ \/ \E s \in Servers :
          /\ Listening(s)
          /\ conn' = [conn EXCEPT ![c] = s] /\ srvEnd' = [srvEnd EXCEPT ![c] = "waiting"]
          /\ cpc' = [cpc EXCEPT ![c] = "hello"]
     \/ /\ \A s \in Servers : ~Listening(s)
        /\ cpc' = [cpc EXCEPT ![c] = "left"]
        /\ UNCHANGED <<conn, srvEnd>>
  /\ UNCHANGED <<serverVars, threadVars, asked, last, want, cliEnd, toSrv, toCli, killed, cause>>

(* What read returns next is a message of this kind.                       *)
Next1(c, kind) == toCli[c] # <<>> /\ Head(toCli[c]).is = kind
Consumed(c) == toCli' = [toCli EXCEPT ![c] = Tail(@)]
AfterRead(c, n) ==
  /\ want' = [want EXCEPT ![c] = n]
  /\ cpc' = [cpc EXCEPT ![c] = IF n = 0 THEN "ask" ELSE "rows"]
Quiet(c) == UNCHANGED <<serverVars, threadVars, conn, asked, last, srvEnd, cliEnd, toSrv,
                        killed, cause>>

ReadReady(c) ==
  /\ cpc[c] = "hello" /\ Next1(c, "ready") /\ Consumed(c)
  /\ cpc' = [cpc EXCEPT ![c] = "ask"] /\ UNCHANGED want
  /\ Quiet(c)

ReadCount(c) ==
  /\ cpc[c] = "count" /\ Next1(c, "count") /\ Consumed(c)
  /\ AfterRead(c, Head(toCli[c]).n)
  /\ Quiet(c)

ReadRow(c) ==
  /\ cpc[c] = "rows" /\ Next1(c, "row") /\ Consumed(c)
  /\ AfterRead(c, want[c] - 1)
  /\ Quiet(c)

(* The server has closed the connection: read returns 0, which the client  *)
(* does not look at.  numOfRecords is then what an earlier answer left in  *)
(* it, or what was on the stack.                                           *)
ReadNothing(c) ==
  /\ toCli[c] = <<>> /\ srvEnd[c] = "closed"
  /\ \/ cpc[c] = "hello" /\ cpc' = [cpc EXCEPT ![c] = "ask"] /\ UNCHANGED want
     \/ cpc[c] = "count" /\ \E n \in 0..rSize : AfterRead(c, n)
     \/ cpc[c] = "rows" /\ AfterRead(c, want[c] - 1)
  /\ UNCHANGED toCli
  /\ Quiet(c)

(* The next query of the file.  After the server's end has been closed the *)
(* write is lost, or fails and ends the client.                            *)
Noted(c, q) ==
  cause' = [cause EXCEPT ![conn[c]] = @ \cup
    IF Answered(q) THEN {"answered"}
    ELSE IF q = "broken" THEN {"broken"}
    ELSE IF "answered" \in @ THEN {"unanswered"} ELSE {}]
Ask(c) ==
  /\ cpc[c] = "ask" /\ asked[c] < MaxQueries[conn[c]]
  /\ \/ /\ cpc' = [cpc EXCEPT ![c] = "count"] /\ asked' = [asked EXCEPT ![c] = @ + 1]
        /\ \E q \in Queries :
             /\ last' = [last EXCEPT ![c] = q]
             /\ IF srvEnd[c] = "open"
                  THEN toSrv' = [toSrv EXCEPT ![c] = Append(@, Current(c)')] /\ Noted(c, q)
                  ELSE q = Empty /\ UNCHANGED <<toSrv, cause>>
        /\ UNCHANGED <<want, cliEnd, toCli>>
     \/ srvEnd[c] # "open" /\ Stops(c, "left") /\ UNCHANGED <<toSrv, cause>>
  /\ UNCHANGED <<serverVars, threadVars, conn, srvEnd, killed>>

(* DONE, then close.                                                       *)
Finish(c) ==
  /\ cpc[c] = "ask" /\ Stops(c, "done")
  /\ toSrv' = IF srvEnd[c] = "open"
                THEN [toSrv EXCEPT ![c] = Append(@, [None EXCEPT !.q = "DONE"])] ELSE toSrv
  /\ UNCHANGED <<serverVars, threadVars, conn, srvEnd, killed, cause>>

(* SIGINT, or the file of queries cannot be opened: exit_client closes the *)
(* socket and nothing is said.                                             *)
Leave(c) ==
  /\ c \in Leavers /\ cpc[c] \in {"hello", "ask", "count", "rows"}
  /\ Stops(c, "left")
  /\ cause' = IF srvEnd[c] \in {"waiting", "open"}
                THEN [cause EXCEPT ![conn[c]] = @ \cup {"left"}] ELSE cause
  /\ UNCHANGED <<serverVars, threadVars, conn, srvEnd, toSrv, killed>>

(* read returns -1 on a connection the server has reset: x_error.          *)
ReadReset(c) ==
  /\ cpc[c] \in {"hello", "count", "rows"} /\ toCli[c] = <<>> /\ srvEnd[c] = "reset"
  /\ Stops(c, "left")
  /\ UNCHANGED <<serverVars, threadVars, conn, srvEnd, toSrv, killed, cause>>

(* The client's host answers what was written after the end with a reset.  *)
PeerResets(c) ==
  /\ cliEnd[c] = "finw" /\ cliEnd' = [cliEnd EXCEPT ![c] = "finrst"]
  /\ UNCHANGED <<serverVars, threadVars, clientVars, srvEnd, toSrv, toCli, killed, cause>>

ClientStep(c) ==
  \/ ReadReady(c) \/ ReadCount(c) \/ ReadRow(c) \/ ReadNothing(c) \/ Ask(c) \/ Finish(c)
  \/ ReadReset(c) \/ PeerResets(c)

-----------------------------------------------------------------------------
Next ==
  \/ \E s \in Servers : ServerStep(s) \/ ServerEvent(s)
  \/ \E t \in Threads : ThreadStep(t) \/ ReadInterrupted(t)
  \/ \E c \in Clients : Connect(c) \/ ClientStep(c) \/ Leave(c)

(* Processes and threads run; what depends on somebody's wish (a start, a  *)
(* connection, a signal) need not come, and nor need the end of a server   *)
(* that was interrupted, which ServerPool is about.                        *)
Fairness ==
  /\ \A s \in Servers : WF_vars(ComeUp(s)) /\ WF_vars(Gone(s))
  /\ \A t \in Threads : WF_vars(ThreadStep(t))
  /\ \A c \in Clients : WF_vars(ClientStep(c))

Spec == Init /\ [][Next]_vars /\ Fairness

-----------------------------------------------------------------------------
TypeOK ==
  /\ life \in [Servers -> {"new", "refused", "starting", "aborting", "failed",
                           "serving", "exiting", "gone", "killed"}]
  /\ pda \in Servers \cup {Nobody}
  /\ interrupt \in [Servers -> BOOLEAN] /\ memory \in [Servers -> {"sound", "corrupt"}]
  /\ wpc \in [Threads -> {"idle", "greet", "read", "answer", "count", "row", "free",
                          "close", "exits"}]
  /\ fd \in [Threads -> Clients \cup {Nobody}] /\ \A t \in Threads : query[t].q \in Queries
  /\ \A t \in Threads : records[t].at \in {"null", "live", "freed"}
  /\ num \in [Threads -> 0..rSize] /\ sent \in [Threads -> 0..rSize]
  /\ cpc \in [Clients -> {"new", "hello", "ask", "count", "rows", "done", "left"}]
  /\ conn \in [Clients -> Servers \cup {Nobody}] /\ want \in [Clients -> 0..rSize]
  /\ asked \in [Clients -> Nat]
  /\ last \in [Clients -> Queries]
  /\ srvEnd \in [Clients -> {"none", "waiting", "open", "closed", "reset"}]
  /\ cliEnd \in [Clients -> {"open", "fin", "finw", "finrst", "rst", "rstseen"}]

(* The name PDA stands for the one process that serves or comes up, so no  *)
(* two of them ever do (L106-110), however others start, are refused, exit *)
(* and die meanwhile.                                                      *)
OneServer == \A s \in Servers : life[s] \in {"starting", "serving"} => pda = s

(* A start is refused only because of a process that is there, or of one   *)
(* that ended without its exit_server (L66-67).                            *)
RefusedForAReason ==
  pda # Nobody => life[pda] \in {"starting", "serving", "failed", "killed"}

(* What a client reads after a query that has an answer is the answer to   *)
(* this query: as many records as it has, and each of them its own, though *)
(* the thread keeps the pointer and the count of earlier answers, of other *)
(* clients too (L246, L309-315).                                           *)
OwnAnswers ==
  \A c \in Clients : \A i \in DOMAIN toCli[c] :
    LET m == toCli[c][i]  q == Current(c) IN
    Answered(q.q) => /\ m.is = "count" => m.n = Records(q.q)
                     /\ m.is = "row" => m.of = q

(* Client and thread keep in step: when a client is about to send a query  *)
(* nothing of an earlier answer is left on the way, whatever answers there *)
(* have been.                                                              *)
InStep == \A c \in Clients : cpc[c] = "ask" => toCli[c] = <<>>

(* What goes over the sockets agrees with what the two ends believe: every *)
(* answer is to its own query (L309-317), and none is left over.           *)
SessionInv == TypeOK /\ OwnAnswers /\ InStep

(* A server that has come up ends by exit only after SIGINT, after another *)
(* signal found a worker waiting in read, or after a client left without   *)
(* DONE; and it dies only if somebody kills it, for one of these reasons,  *)
(* or if a client asked for something without an answer after a query that *)
(* had one (L309-341) or sent a broken query.  Clients that say DONE, send *)
(* queries that can be parsed, of columns the table has and with rows that *)
(* fit BUFSIZ, do not bring it down.                                       *)
EndsForAReason ==
  \A s \in Servers :
    /\ life[s] \in {"exiting", "gone"} =>
         interrupt[s] \/ cause[s] \cap {"left", "signal"} # {}
    /\ life[s] = "killed" =>
         s \in killed \/ cause[s] \cap {"left", "signal", "unanswered", "broken"} # {}

(* A thread's session ends, with the server if not before: a client that   *)
(* goes away, at whatever point, does not hold a worker for ever (L347).   *)
SessionsEnd == \A t \in Threads : []<>(wpc[t] = "idle")

(* A client that has connected comes to its end, unless nobody takes its   *)
(* connection off the queue because the server has been interrupted.       *)
ClientsEnd ==
  \A c \in Clients :
    []<>(\/ cpc[c] \in {"new", "done", "left"}
         \/ cpc[c] = "hello" /\ srvEnd[c] = "waiting" /\ interrupt[conn[c]])

(* Nobody waits for ever at either end of a connection.                    *)
NobodyHangs == SessionsEnd /\ ClientsEnd
=============================================================================
