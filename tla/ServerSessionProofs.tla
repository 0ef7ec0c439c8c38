------------------------- MODULE ServerSessionProofs -------------------------
(* Theorems about ServerSession, for any servers, workers and clients: what *)
(* the named semaphore PDA says of the server processes, that every answer  *)
(* goes to its own query, and why a server ends.                            *)
EXTENDS ServerSession, SequenceTheorems, TLAPS

Lives == {"new", "refused", "starting", "aborting", "failed", "serving", "exiting", "gone",
          "killed"}

(* Neither OneServer nor RefusedForAReason is inductive alone: a process    *)
(* that creates PDA finds nobody up because OneServer held, and one that    *)
(* removes it removes its own, which is then the name of nobody who is up.  *)
NameInv ==
  /\ life \in [Servers -> Lives]
  /\ pda \in Servers \cup {Nobody}
  /\ OneServer
  /\ RefusedForAReason

LEMMA NobodyIsNoServer == Nobody \notin Servers
  BY SessionAssumption

LEMMA NameInit == Init => NameInv
  BY NobodyIsNoServer DEF Init, NameInv, Lives, OneServer, RefusedForAReason

(* A step that touches neither the processes nor the name.                  *)
LEMMA NameStutter == NameInv /\ UNCHANGED <<life, pda>> => NameInv'
  BY DEF NameInv, OneServer, RefusedForAReason

(* A process that dies leaves the name as it is, its own or another's.      *)
LEMMA NameDies == ASSUME NameInv, NEW s \in Servers, Dies(s)
                  PROVE  NameInv'
<1>1. life' = [life EXCEPT ![s] = "killed"] /\ pda' = pda
  BY DEF Dies, Ends
<1> QED BY <1>1 DEF NameInv, Lives, OneServer, RefusedForAReason

(* exit_server of the process that has the name: nobody else is up.         *)
LEMMA NameExits == ASSUME NameInv, NEW s \in Servers, ExitServer(s),
                          life[s] \in {"starting", "serving"}
                   PROVE  NameInv'
<1>1. PICK now \in {"exiting", "aborting"} : life' = [life EXCEPT ![s] = now] /\ pda' = Nobody
  BY DEF ExitServer, NameAfterExit, NameInv
<1>2. pda = s
  BY DEF NameInv, OneServer
<1>3. life' \in [Servers -> Lives]
  BY <1>1 DEF NameInv, Lives
<1>4. \A r \in Servers : life'[r] \notin {"starting", "serving"}
  BY <1>1, <1>2 DEF NameInv, OneServer
<1> QED BY <1>1, <1>3, <1>4 DEF NameInv, OneServer, RefusedForAReason

LEMMA NameStart == ASSUME NameInv, NEW s \in Servers, Start(s)
                   PROVE  NameInv'
<1>1. CASE Refused
  <2>1. life' = [life EXCEPT ![s] = "refused"] /\ pda' = pda /\ life[s] = "new"
    BY <1>1 DEF Start
  <2> QED BY <2>1 DEF NameInv, Lives, OneServer, RefusedForAReason
<1>2. CASE ~Refused
  <2>1. /\ life' = [life EXCEPT ![s] = "starting"] /\ pda' = s
        /\ pda = Nobody
    BY <1>2 DEF Start, Refused
  <2>2. \A r \in Servers : life[r] \notin {"starting", "serving"}
    BY <2>1, NobodyIsNoServer DEF NameInv, OneServer
  <2> QED BY <2>1, <2>2 DEF NameInv, Lives, OneServer, RefusedForAReason
<1> QED BY <1>1, <1>2

LEMMA NameServer == ASSUME NameInv, NEW s \in Servers, ServerStep(s) \/ ServerEvent(s)
                    PROVE  NameInv'
<1>1. CASE Start(s)
  BY <1>1, NameStart
<1>2. CASE ComeUp(s)
  <2>1. CASE interrupt[s]
    BY <1>2, <2>1, NameExits DEF ComeUp
  <2>2. CASE ~interrupt[s]
    <3>1. life' = [life EXCEPT ![s] = "serving"] /\ pda' = pda /\ life[s] = "starting"
      BY <1>2, <2>2 DEF ComeUp
    <3> QED BY <3>1 DEF NameInv, Lives, OneServer, RefusedForAReason
  <2> QED BY <2>1, <2>2
<1>3. CASE Gone(s)
  <2>1. PICK now \in {"gone", "failed"} : life' = [life EXCEPT ![s] = now] /\ pda' = pda
    BY <1>3 DEF Gone, Ends
  <2>2. life[s] \in {"exiting", "aborting"}
    BY <1>3 DEF Gone
  <2> QED BY <2>1, <2>2 DEF NameInv, Lives, OneServer, RefusedForAReason
<1>4. CASE StartFails(s)
  <2>1. life' = [life EXCEPT ![s] = "failed"] /\ pda' = pda
    BY <1>4 DEF StartFails
  <2> QED BY <2>1 DEF NameInv, Lives, OneServer, RefusedForAReason
<1>5. CASE Sigint(s)
  BY <1>5, NameStutter DEF Sigint
<1>6. CASE Exit(s)
  BY <1>6, NameExits DEF Exit
<1>7. CASE Sigkill(s) \/ MemoryFails(s)
  BY <1>7, NameDies DEF Sigkill, MemoryFails
<1>8. CASE ComeUpFails(s)
  BY <1>8, NameExits DEF ComeUpFails
<1> QED BY <1>1, <1>2, <1>3, <1>4, <1>5, <1>6, <1>7, <1>8 DEF ServerStep, ServerEvent

LEMMA NameThread == ASSUME NameInv, NEW t \in Threads, ThreadStep(t) \/ ReadInterrupted(t)
                    PROVE  NameInv'
<1>1. t[1] \in Servers
  BY DEF Threads
<1>2. CASE \/ Take(t) \/ Greet(t) \/ ReadQuery(t) \/ Answer(t) \/ AnswerBroken(t)
           \/ WriteCount(t) \/ WriteRow(t)
  BY <1>2, NameStutter DEF Take, Greet, ReadQuery, Answer, AnswerBroken, WriteCount, WriteRow,
     serverVars
<1>3. CASE ExitFrom(t)
  <2>1. CASE life[t[1]] = "serving"
    BY <1>1, <1>3, <2>1, NameExits DEF ExitFrom
  <2>2. CASE life[t[1]] # "serving"
    BY <1>3, <2>2, NameStutter DEF ExitFrom, serverVars
  <2> QED BY <2>1, <2>2
<1>4. CASE ParseDies(t) \/ StaleUse(t) \/ Sigpipe(t)
  BY <1>1, <1>4, NameDies DEF ParseDies, StaleUse, Sigpipe
<1>5. CASE RowOverruns(t) \/ FreePath(t) \/ CloseSession(t)
  BY <1>5, NameStutter DEF RowOverruns, FreePath, CloseSession, serverVars
<1> QED BY <1>2, <1>3, <1>4, <1>5 DEF ThreadStep, ReadFails, ReadInterrupted

LEMMA NameClient == ASSUME NameInv, NEW c \in Clients, Connect(c) \/ ClientStep(c) \/ Leave(c)
                    PROVE  NameInv'
<1>1. UNCHANGED serverVars
  BY DEF Connect, ClientStep, Leave, ReadReady, ReadCount, ReadRow, ReadNothing, Ask, Finish,
         ReadReset, PeerResets, Quiet
<1> QED BY <1>1, NameStutter DEF serverVars

LEMMA NameStep == NameInv /\ [Next]_vars => NameInv'
<1> SUFFICES ASSUME NameInv, [Next]_vars PROVE NameInv'
  OBVIOUS
<1>1. CASE UNCHANGED vars
  BY <1>1, NameStutter DEF vars
<1>2. CASE Next
  BY <1>2, NameServer, NameThread, NameClient DEF Next
<1> QED BY <1>1, <1>2

LEMMA NameHolds == Spec => []NameInv
  BY NameInit, NameStep, PTL DEF Spec

(* At most one process serves or comes up, and PDA is its (L106-110).       *)
THEOREM NeverTwoServers == Spec => []OneServer
<1>1. NameInv => OneServer
  BY DEF NameInv
<1> QED BY <1>1, NameHolds, PTL

(* While PDA exists and refuses starts, the process that made it is up, or  *)
(* has ended without its exit_server (L66-67).                              *)
THEOREM RefusalHasAReason == Spec => []RefusedForAReason
<1>1. NameInv => RefusedForAReason
  BY DEF NameInv
<1> QED BY <1>1, NameHolds, PTL

-----------------------------------------------------------------------------
(* The sessions.  What is on the way between a thread and its client is     *)
(* known from where the two stand, and what a thread keeps of an answer it  *)
(* has given matters only after somebody has been to blame.                 *)

QuerySet == [by : Clients \cup {Nobody}, no : Nat, q : Queries]
ToServer == [by : Clients \cup {Nobody}, no : Nat, q : Queries \cup {"DONE"}]
ToClient == [is : {"ready"}] \cup [is : {"count"}, n : 0..rSize]
              \cup [is : {"row"}, of : QuerySet]
Ready    == [is |-> "ready"]
Causes   == {"answered", "unanswered", "broken", "left", "signal"}
Done     == [None EXCEPT !.q = "DONE"]

ServerTypes ==
  /\ life \in [Servers -> Lives] /\ pda \in Servers \cup {Nobody}
  /\ interrupt \in [Servers -> BOOLEAN] /\ memory \in [Servers -> {"sound", "corrupt"}]
ThreadTypes ==
  /\ wpc \in [Threads -> {"idle", "greet", "read", "answer", "count", "row", "free",
                          "close", "exits"}]
  /\ fd \in [Threads -> Clients \cup {Nobody}] /\ query \in [Threads -> QuerySet]
  /\ records \in [Threads -> [at : {"null", "live", "freed"}, of : QuerySet]]
  /\ num \in [Threads -> 0..rSize] /\ sent \in [Threads -> 0..rSize]
ClientTypes ==
  /\ cpc \in [Clients -> {"new", "hello", "ask", "count", "rows", "done", "left"}]
  /\ conn \in [Clients -> Servers \cup {Nobody}] /\ want \in [Clients -> 0..rSize]
  /\ asked \in [Clients -> Nat]
  /\ last \in [Clients -> Queries]
SocketTypes ==
  /\ srvEnd \in [Clients -> {"none", "waiting", "open", "closed", "reset"}]
  /\ cliEnd \in [Clients -> {"open", "fin", "finw", "finrst", "rst", "rstseen"}]
  /\ toSrv \in [Clients -> Seq(ToServer)] /\ toCli \in [Clients -> Seq(ToClient)]
Types ==
  /\ ServerTypes /\ ThreadTypes /\ ClientTypes /\ SocketTypes
  /\ cause \in [Servers -> SUBSET Causes]

(* What makes a server exit that has not been interrupted, and what makes   *)
(* it die that nobody has killed.                                           *)
Excused(s) == "left" \in cause[s] \/ "signal" \in cause[s]
Blame(s) == Excused(s) \/ "unanswered" \in cause[s] \/ "broken" \in cause[s]

(* What a client may find on its way, from where it stands.                 *)
AllRows(s)    == \A k \in 1..Len(s) : s[k].is = "row"
CountFirst(s) == /\ s # <<>> /\ s[1].is = "count"
                 /\ \A k \in 2..Len(s) : s[k].is = "row"
                 /\ Len(s) <= s[1].n + 1
Expects(c) ==
  /\ cpc[c] \in {"new", "ask", "done", "left"} => toCli[c] = <<>>
  /\ cpc[c] = "hello" => toCli[c] = <<>> \/ toCli[c] = <<Ready>>
  /\ cpc[c] = "count" => toCli[c] = <<>> \/ CountFirst(toCli[c])
  /\ cpc[c] = "rows" => AllRows(toCli[c]) /\ Len(toCli[c]) <= want[c] /\ want[c] > 0

(* The two ends of c's connection.                                          *)
Sides(c) ==
  /\ srvEnd[c] = "none" <=> conn[c] = Nobody
  /\ cpc[c] = "new" => srvEnd[c] = "none"
  /\ srvEnd[c] \in {"none", "waiting"} => toCli[c] = <<>> /\ cpc[c] \in {"new", "hello", "left"}
  /\ srvEnd[c] # "open" => toSrv[c] = <<>>
  /\ cliEnd[c] # "open" => cpc[c] \in {"done", "left"}
  /\ srvEnd[c] # "none" /\ cpc[c] \in {"done", "left"} => cliEnd[c] # "open"
  /\ srvEnd[c] = "waiting" /\ cliEnd[c] # "open" => "left" \in cause[conn[c]]

(* OwnAnswers, of one client.                                               *)
Own(c) ==
  Answered(last[c]) => \A i \in 1..Len(toCli[c]) :
    /\ toCli[c][i].is = "count" => toCli[c][i].n = Records(last[c])
    /\ toCli[c][i].is = "row" => toCli[c][i].of = Current(c)

(* A query that has an answer, or is broken, is noted before the server     *)
(* sees it.                                                                 *)
Marked(q, s) == /\ Answered(q) => "answered" \in cause[s]
                /\ q = "broken" => "broken" \in cause[s]
Heard(c) == \A k \in 1..Len(toSrv[c]) : Marked(toSrv[c][k].q, conn[c])

Post(c) == Expects(c) /\ Sides(c) /\ Own(c) /\ Heard(c)

(* k rows of the answer that c reads have still to be sent.                 *)
Coming(c, k) ==
  \/ cpc[c] = "count" /\ toCli[c] # <<>> /\ Len(toCli[c]) + k = toCli[c][1].n + 1
  \/ cpc[c] = "rows" /\ Len(toCli[c]) + k = want[c]

(* t has nothing more to send to c: c reads, has read, or asks again.       *)
Rest(t, c) ==
  \/ toSrv[c] = <<>> /\ (Coming(c, 0) \/ cpc[c] = "ask")
  \/ /\ cpc[c] = "count" /\ toCli[c] = <<>> /\ toSrv[c] = <<Current(c)>>
     /\ Answered(last[c]) \/ records[t].at = "null" \/ Blame(t[1])

(* A thread that talks has the server's end of a connection, of its own.    *)
Seat(t) ==
  /\ wpc[t] = "idle" <=> fd[t] = Nobody
  /\ wpc[t] # "idle" => Running(t[1]) /\ conn[fd[t]] = t[1] /\ srvEnd[fd[t]] = "open"
  /\ wpc[t] # "idle" /\ life[t[1]] = "exiting" => Excused(t[1])
Apart == \A t, u \in Threads : fd[t] = fd[u] /\ fd[t] # Nobody => t = u

(* How t stands to a client c that is there, and to one that has gone.      *)
LinkUp(t, c) ==
  /\ wpc[t] = "greet" => cpc[c] = "hello" /\ toCli[c] = <<>> /\ toSrv[c] = <<>>
  /\ wpc[t] = "read" =>
       Rest(t, c) \/ (cpc[c] = "hello" /\ toCli[c] = <<Ready>> /\ toSrv[c] = <<>>)
  /\ wpc[t] \in {"answer", "count"} =>
       cpc[c] = "count" /\ toCli[c] = <<>> /\ toSrv[c] = <<>> /\ query[t] = Current(c)
  /\ wpc[t] = "row" =>
       Coming(c, num[t] - sent[t]) /\ toSrv[c] = <<>> /\ query[t] = Current(c)
  /\ wpc[t] = "free" => Rest(t, c)
LinkDown(t, c) ==
  \/ "left" \in cause[t[1]]
  \/ wpc[t] = "exits"
  \/ cliEnd[c] = "fin" /\ wpc[t] = "close"
  \/ cliEnd[c] = "fin" /\ wpc[t] \in {"read", "free"} /\ toSrv[c] = <<Done>>
Link(t) ==
  \A c \in Clients : fd[t] = c =>
    /\ cliEnd[c] = "open" => LinkUp(t, c)
    /\ cliEnd[c] # "open" => LinkDown(t, c)

(* What a thread keeps of its answers.                                      *)
Kept(t) ==
  /\ records[t].at # "null" =>
       num[t] > 0 /\ ("answered" \in cause[t[1]] \/ "broken" \in cause[t[1]])
  /\ wpc[t] \in {"answer", "count", "row"} => Marked(query[t].q, t[1])
  /\ wpc[t] = "answer" /\ ~Answered(query[t].q) => records[t].at = "null" \/ Blame(t[1])
  /\ wpc[t] \in {"count", "row"} /\ Answered(query[t].q) =>
       records[t] = [at |-> "live", of |-> query[t]] /\ num[t] = Records(query[t].q)
  /\ wpc[t] = "count" /\ records[t].at = "null" => num[t] = 0
  /\ wpc[t] \in {"count", "row", "free"} /\ records[t].at = "freed" => Blame(t[1])
  /\ wpc[t] = "row" => records[t].at # "null" /\ sent[t] < num[t]
  /\ wpc[t] # "row" => sent[t] = 0

(* Why a server ends.                                                       *)
Reason(s) ==
  /\ memory[s] = "corrupt" => Blame(s)
  /\ life[s] \in {"exiting", "gone"} => interrupt[s] \/ Excused(s)
  /\ life[s] = "killed" => s \in killed \/ Blame(s)

TalkInv ==
  /\ Types /\ Apart
  /\ \A c \in Clients : Post(c)
  /\ \A t \in Threads : Seat(t) /\ Link(t) /\ Kept(t)
  /\ \A s \in Servers : Reason(s)

(* Types is more than TypeOK says, and the rest of SessionInv follows.      *)
LEMMA TalkSays == TalkInv => SessionInv /\ EndsForAReason
<1> SUFFICES ASSUME TalkInv PROVE SessionInv /\ EndsForAReason
  OBVIOUS
<1>1. TypeOK
  <2>1. \A t \in Threads : query[t].q \in Queries
    BY DEF TalkInv, Types, ThreadTypes, QuerySet
  <2>2. \A t \in Threads : records[t].at \in {"null", "live", "freed"}
    BY DEF TalkInv, Types, ThreadTypes
  <2> QED BY <2>1, <2>2 DEF TypeOK, TalkInv, Types, ServerTypes, ThreadTypes,
             ClientTypes, SocketTypes, Lives
<1>2. OwnAnswers
  <2> SUFFICES ASSUME NEW c \in Clients, NEW i \in DOMAIN toCli[c],
                      Answered(Current(c).q)
               PROVE  /\ toCli[c][i].is = "count" => toCli[c][i].n = Records(Current(c).q)
                      /\ toCli[c][i].is = "row" => toCli[c][i].of = Current(c)
    BY DEF OwnAnswers
  <2>1. Current(c).q = last[c]
    BY DEF Current
  <2>2. toCli[c] \in Seq(ToClient)
    BY DEF TalkInv, Types, SocketTypes
  <2>3. i \in 1..Len(toCli[c])
    BY <2>2
  <2>4. Own(c)
    BY DEF TalkInv, Post
  <2> QED BY <2>1, <2>3, <2>4 DEF Own
<1>3. InStep
  BY DEF InStep, TalkInv, Post, Expects
<1>4. EndsForAReason
  BY DEF EndsForAReason, TalkInv, Reason, Blame, Excused
<1> QED BY <1>1, <1>2, <1>3, <1>4 DEF SessionInv

LEMMA QueryTypes ==
  /\ None \in QuerySet /\ Done \in ToServer /\ Done.q = "DONE" /\ Ready \in ToClient
  /\ QuerySet \subseteq ToServer
  /\ \A m \in ToServer : m.q # "DONE" => m \in QuerySet
<1>1. None \in QuerySet /\ Done \in ToServer /\ Done.q = "DONE"
  BY DEF None, Done, QuerySet, ToServer, Empty, Queries
<1>2. Ready \in ToClient
  BY DEF Ready, ToClient
<1>3. QuerySet \subseteq ToServer
  BY DEF QuerySet, ToServer
<1>4. ASSUME NEW m \in ToServer, m.q # "DONE" PROVE m \in QuerySet
  BY <1>4 DEF QuerySet, ToServer
<1> QED BY <1>1, <1>2, <1>3, <1>4

LEMMA CurrentTypes == ASSUME ClientTypes, NEW c \in Clients
                      PROVE  /\ Current(c) \in QuerySet /\ Current(c).q = last[c]
                             /\ Current(c).q # "DONE"
  BY DEF ClientTypes, Current, QuerySet, Queries

(* What has been counted can be sent.                                       *)
LEMMA RecordsTypes == ASSUME NEW q \in Queries
                      PROVE  Records(q) \in 1..rSize
  BY SessionAssumption DEF Records, Queries

LEMMA TalkInit == Init => TalkInv
<1> SUFFICES ASSUME Init PROVE TalkInv
  OBVIOUS
<1>1. ServerTypes
  BY DEF Init, ServerTypes, Lives
<1>2. ThreadTypes
  <2>1. Null \in [at : {"null", "live", "freed"}, of : QuerySet]
    BY QueryTypes DEF Null
  <2>2. 0 \in 0..rSize
    BY SessionAssumption
  <2> QED BY <2>1, <2>2, QueryTypes DEF Init, ThreadTypes
<1>3. ClientTypes
  BY SessionAssumption DEF Init, ClientTypes, Empty, Queries
<1>4. SocketTypes
  <2>1. <<>> \in Seq(ToServer) /\ <<>> \in Seq(ToClient)
    OBVIOUS
  <2> QED BY <2>1 DEF Init, SocketTypes
<1>5. cause \in [Servers -> SUBSET Causes]
  BY DEF Init
<1>6. Apart
  BY DEF Init, Apart
<1>7. ASSUME NEW c \in Clients PROVE Post(c)
  <2>1. /\ cpc[c] = "new" /\ conn[c] = Nobody /\ srvEnd[c] = "none" /\ cliEnd[c] = "open"
        /\ toSrv[c] = <<>> /\ toCli[c] = <<>>
    BY DEF Init
  <2>2. Expects(c) /\ Sides(c)
    BY <2>1 DEF Expects, Sides
  <2>3. Own(c) /\ Heard(c)
    BY <2>1 DEF Own, Heard
  <2> QED BY <2>2, <2>3 DEF Post
<1>8. ASSUME NEW t \in Threads PROVE Seat(t) /\ Link(t) /\ Kept(t)
  <2>1. wpc[t] = "idle" /\ fd[t] = Nobody /\ records[t] = Null /\ num[t] = 0 /\ sent[t] = 0
    BY DEF Init
  <2> QED BY <2>1, SessionAssumption DEF Seat, Link, Kept, Null
<1>9. ASSUME NEW s \in Servers PROVE Reason(s)
  BY DEF Init, Reason
<1> QED BY <1>1, <1>2, <1>3, <1>4, <1>5, <1>6, <1>7, <1>8, <1>9 DEF TalkInv, Types

-----------------------------------------------------------------------------
(* What a step does not touch.                                              *)

Seen(t) == <<wpc[t], fd[t], query[t], records[t], num[t], sent[t]>>
Talk(c) == <<cpc[c], conn[c], asked[c], last[c], want[c],
             srvEnd[c], cliEnd[c], toSrv[c], toCli[c]>>
Grows == \A s \in Servers : cause[s] \subseteq cause'[s]

LEMMA PostFrame == ASSUME NEW c \in Clients, Types, Post(c), Talk(c)' = Talk(c), Grows
                   PROVE  Post(c)'
<1>1. /\ cpc'[c] = cpc[c] /\ conn'[c] = conn[c] /\ asked'[c] = asked[c] /\ last'[c] = last[c]
      /\ want'[c] = want[c] /\ srvEnd'[c] = srvEnd[c] /\ cliEnd'[c] = cliEnd[c]
      /\ toSrv'[c] = toSrv[c] /\ toCli'[c] = toCli[c]
  BY DEF Talk
<1>2. Expects(c)'
  BY <1>1 DEF Post, Expects, AllRows, CountFirst
<1>3. conn[c] \in Servers \/ srvEnd[c] = "none"
  BY DEF Types, ClientTypes, Post, Sides
<1>4. Sides(c)'
  BY <1>1, <1>3 DEF Post, Sides, Grows
<1>5. Current(c)' = Current(c)
  BY <1>1 DEF Current
<1>6. Own(c)'
  BY <1>1, <1>5 DEF Post, Own
<1>7. Heard(c)'
  <2>1. CASE srvEnd[c] = "none"
    BY <1>1, <2>1 DEF Post, Sides, Heard
  <2>2. CASE conn[c] \in Servers
    BY <1>1, <2>2 DEF Post, Heard, Marked, Grows
  <2> QED BY <1>3, <2>1, <2>2
<1> QED BY <1>2, <1>4, <1>6, <1>7 DEF Post

LEMMA BlameGrows == ASSUME NEW s \in Servers, Grows
                    PROVE  (Blame(s) => Blame(s)') /\ (Excused(s) => Excused(s)')
  BY DEF Blame, Excused, Grows

LEMMA BlameStays == ASSUME NEW s \in Servers, UNCHANGED cause
                    PROVE  (Blame(s)' <=> Blame(s)) /\ (Excused(s)' <=> Excused(s))
  BY DEF Blame, Excused

LEMMA OfServer == \A t \in Threads : t[1] \in Servers
  BY DEF Threads

LEMMA RestFrame == ASSUME NEW t \in Threads, NEW c \in Clients, Rest(t, c), Grows,
                          Talk(c)' = Talk(c), records'[t] = records[t]
                   PROVE  Rest(t, c)'
<1>1. /\ cpc'[c] = cpc[c] /\ want'[c] = want[c] /\ toSrv'[c] = toSrv[c] /\ toCli'[c] = toCli[c]
      /\ asked'[c] = asked[c] /\ last'[c] = last[c]
  BY DEF Talk
<1>2. Current(c)' = Current(c)
  BY <1>1 DEF Current
<1>3. Coming(c, 0) => Coming(c, 0)'
  BY <1>1 DEF Coming
<1>4. Blame(t[1]) => Blame(t[1])'
  BY BlameGrows, OfServer
<1>5. CASE toSrv[c] = <<>> /\ (Coming(c, 0) \/ cpc[c] = "ask")
  BY <1>1, <1>3, <1>5 DEF Rest
<1>6. CASE /\ cpc[c] = "count" /\ toCli[c] = <<>> /\ toSrv[c] = <<Current(c)>>
           /\ Answered(last[c]) \/ records[t].at = "null" \/ Blame(t[1])
  BY <1>1, <1>2, <1>4, <1>6 DEF Rest
<1> QED BY <1>5, <1>6 DEF Rest

LEMMA LinkFrame == ASSUME NEW t \in Threads, NEW c \in Clients, fd[t] = c, Link(t), Grows,
                          Seen(t)' = Seen(t), Talk(c)' = Talk(c)
                   PROVE  Link(t)'
<1>1. /\ wpc'[t] = wpc[t] /\ fd'[t] = c /\ query'[t] = query[t] /\ records'[t] = records[t]
      /\ num'[t] = num[t] /\ sent'[t] = sent[t]
  BY DEF Seen
<1>2. /\ cpc'[c] = cpc[c] /\ want'[c] = want[c] /\ toSrv'[c] = toSrv[c] /\ toCli'[c] = toCli[c]
      /\ asked'[c] = asked[c] /\ last'[c] = last[c] /\ cliEnd'[c] = cliEnd[c]
  BY DEF Talk
<1>3. Current(c)' = Current(c)
  BY <1>2 DEF Current
<1>4. Rest(t, c) => Rest(t, c)'
  BY <1>1, RestFrame
<1>5. Coming(c, num[t] - sent[t]) => Coming(c, num[t] - sent[t])'
  BY <1>1, <1>2 DEF Coming
<1>6. LinkUp(t, c) => LinkUp(t, c)'
  BY <1>1, <1>2, <1>3, <1>4, <1>5 DEF LinkUp
<1>7. LinkDown(t, c) => LinkDown(t, c)'
  BY <1>1, <1>2, OfServer DEF LinkDown, Grows
<1> QED BY <1>1, <1>2, <1>6, <1>7 DEF Link

LEMMA MarkedGrows == ASSUME NEW s \in Servers, NEW q, Grows, Marked(q, s) PROVE Marked(q, s)'
  BY DEF Marked, Grows

LEMMA KeptFrame == ASSUME NEW t \in Threads, Kept(t), Seen(t)' = Seen(t), Grows
                   PROVE  Kept(t)'
<1>1. /\ wpc'[t] = wpc[t] /\ query'[t] = query[t] /\ records'[t] = records[t]
      /\ num'[t] = num[t] /\ sent'[t] = sent[t]
  BY DEF Seen
<1>2. Blame(t[1]) => Blame(t[1])'
  BY BlameGrows, OfServer
<1>3. Marked(query[t].q, t[1]) => Marked(query[t].q, t[1])'
  BY <1>1, OfServer DEF Marked, Grows
<1> QED BY <1>1, <1>2, <1>3, OfServer DEF Kept, Grows

(* A thread that is idle has nobody, and nobody minds what it does.         *)
LEMMA IdleFrame == ASSUME NEW t \in Threads, wpc'[t] = "idle", fd'[t] = Nobody
                   PROVE  Seat(t)' /\ Link(t)'
<1>1. Seat(t)'
  BY DEF Seat
<1>2. Link(t)'
  BY SessionAssumption DEF Link
<1> QED BY <1>1, <1>2

LEMMA SeatFrame == ASSUME NEW t \in Threads, NEW c \in Clients, fd[t] = c, Seat(t), Grows,
                          Seen(t)' = Seen(t), conn'[c] = conn[c], srvEnd'[c] = srvEnd[c],
                          life'[t[1]] = life[t[1]]
                   PROVE  Seat(t)'
<1>1. Excused(t[1]) => Excused(t[1])'
  BY BlameGrows, OfServer
<1> QED BY <1>1 DEF Seat, Seen, Running

-----------------------------------------------------------------------------
(* The steps of a client.                                                   *)

LEMMA ClientFrame ==
  ASSUME TalkInv, NEW c \in Clients, Types', Grows,
         UNCHANGED <<serverVars, threadVars, killed>>,
         \A d \in Clients \ {c} : Talk(d)' = Talk(d), Post(c)',
         \A t \in Threads : fd[t] = c =>
           Link(t)' /\ conn'[c] = conn[c] /\ srvEnd'[c] = srvEnd[c]
  PROVE  TalkInv'
<1>1. \A t \in Threads : Seen(t)' = Seen(t)
  BY DEF threadVars, Seen
<1>2. Apart'
  BY DEF TalkInv, Apart, threadVars
<1>3. ASSUME NEW d \in Clients PROVE Post(d)'
  BY <1>3, PostFrame DEF TalkInv
<1>4. ASSUME NEW t \in Threads PROVE Seat(t)' /\ Link(t)' /\ Kept(t)'
  <2>1. Kept(t)'
    BY <1>1, KeptFrame DEF TalkInv
  <2>2. CASE fd[t] = Nobody
    <3>1. wpc'[t] = "idle" /\ fd'[t] = Nobody
      BY <2>2 DEF TalkInv, Seat, threadVars
    <3> QED BY <3>1, <2>1, IdleFrame
  <2>3. ASSUME NEW d \in Clients, fd[t] = d PROVE Seat(t)' /\ Link(t)'
    <3>1. life'[t[1]] = life[t[1]]
      BY DEF serverVars
    <3>2. CASE d = c
      <4>1. Link(t)' /\ conn'[d] = conn[d] /\ srvEnd'[d] = srvEnd[d]
        BY <2>3, <3>2
      <4>2. Seat(t)'
        BY <1>1, <2>3, <3>1, <4>1, SeatFrame DEF TalkInv
      <4> QED BY <4>1, <4>2
    <3>3. CASE d # c
      <4>1. Talk(d)' = Talk(d)
        BY <3>3
      <4>2. conn'[d] = conn[d] /\ srvEnd'[d] = srvEnd[d]
        BY <4>1 DEF Talk
      <4>3. Seat(t)'
        BY <1>1, <2>3, <3>1, <4>2, SeatFrame DEF TalkInv
      <4>4. Link(t)'
        BY <1>1, <2>3, <4>1, LinkFrame DEF TalkInv
      <4> QED BY <4>3, <4>4
    <3> QED BY <3>2, <3>3
  <2>4. fd[t] \in Clients \cup {Nobody}
    BY DEF TalkInv, Types, ThreadTypes
  <2> QED BY <2>1, <2>2, <2>3, <2>4
<1>5. ASSUME NEW s \in Servers PROVE Reason(s)'
  <2>1. (Blame(s) => Blame(s)') /\ (Excused(s) => Excused(s)')
    BY BlameGrows
  <2> QED BY <2>1 DEF TalkInv, Reason, serverVars
<1> QED BY <1>2, <1>3, <1>4, <1>5 DEF TalkInv

(* A message is the first of what is on the way, and the rest moves up.     *)
LEMMA FirstMessage ==
  ASSUME NEW S, NEW s \in Seq(S), s # <<>>
  PROVE  /\ Head(s) = s[1] /\ s[1] \in S /\ Tail(s) \in Seq(S)
         /\ Len(s) \in Nat /\ Len(s) > 0 /\ Len(Tail(s)) = Len(s) - 1
         /\ \A k \in 1..Len(Tail(s)) : Tail(s)[k] = s[k + 1]
  BY HeadTailProperties, LenProperties

LEMMA OneMessage == ASSUME NEW m PROVE Tail(<<m>>) = <<>> /\ <<m>> # <<>> /\ <<m>>[1] = m
                                       /\ Len(<<m>>) = 1
  OBVIOUS

(* What t is to its client: the seat it has.                                *)
LEMMA Seated == ASSUME TalkInv, NEW t \in Threads, NEW c \in Clients, fd[t] = c
                PROVE  /\ wpc[t] # "idle" /\ Running(t[1]) /\ conn[c] = t[1] /\ srvEnd[c] = "open"
                       /\ cliEnd[c] = "open" => LinkUp(t, c)
                       /\ cliEnd[c] # "open" => LinkDown(t, c)
  BY SessionAssumption DEF TalkInv, Seat, Link

LEMMA OwnTail ==
  ASSUME SocketTypes, NEW c \in Clients, toCli[c] # <<>>, Own(c), toCli'[c] = Tail(toCli[c]),
         asked'[c] = asked[c], last'[c] = last[c]
  PROVE  Own(c)'
<1>1. toCli[c] \in Seq(ToClient)
  BY DEF SocketTypes
<1>2. /\ Len(toCli[c]) \in Nat /\ Len(toCli'[c]) = Len(toCli[c]) - 1
      /\ \A k \in 1..Len(toCli'[c]) : toCli'[c][k] = toCli[c][k + 1]
  BY <1>1, FirstMessage
<1>3. Current(c)' = Current(c)
  BY DEF Current
<1> SUFFICES ASSUME Answered(last'[c]), NEW i \in 1..Len(toCli'[c])
             PROVE  /\ toCli'[c][i].is = "count" => toCli'[c][i].n = Records(last'[c])
                    /\ toCli'[c][i].is = "row" => toCli'[c][i].of = Current(c)'
  BY DEF Own
<1>4. i + 1 \in 1..Len(toCli[c]) /\ toCli'[c][i] = toCli[c][i + 1]
  BY <1>2
<1> QED BY <1>3, <1>4 DEF Own

(* A step of c that is none of the server's changes c only.                 *)
LEMMA QuietTalk ==
  ASSUME NEW c \in Clients, Quiet(c), NEW n, AfterRead(c, n) \/ UNCHANGED want,
         Consumed(c) \/ UNCHANGED toCli, TalkInv,
         \/ AfterRead(c, n) \/ cpc' = [cpc EXCEPT ![c] = "ask"]
  PROVE  /\ UNCHANGED <<serverVars, threadVars, killed>> /\ Grows
         /\ \A d \in Clients \ {c} : Talk(d)' = Talk(d)
         /\ conn'[c] = conn[c] /\ srvEnd'[c] = srvEnd[c] /\ cliEnd'[c] = cliEnd[c]
         /\ toSrv'[c] = toSrv[c] /\ asked'[c] = asked[c] /\ last'[c] = last[c]
<1>1. UNCHANGED <<serverVars, threadVars, killed, cause, conn, asked, last, srvEnd, cliEnd, toSrv>>
  BY DEF Quiet
<1>2. Grows
  BY <1>1 DEF Grows
<1>3. ASSUME NEW d \in Clients \ {c} PROVE Talk(d)' = Talk(d)
  <2>1. cpc'[d] = cpc[d] /\ want'[d] = want[d] /\ toCli'[d] = toCli[d]
    BY DEF AfterRead, Consumed, TalkInv, Types, ClientTypes, SocketTypes
  <2> QED BY <1>1, <2>1 DEF Talk
<1> QED BY <1>1, <1>2, <1>3

LEMMA HeardFrame == ASSUME NEW c \in Clients, Heard(c), Grows, conn[c] \in Servers,
                           conn'[c] = conn[c], toSrv'[c] = toSrv[c]
                    PROVE  Heard(c)'
  BY DEF Heard, Marked, Grows

(* A client that is owed n records: it reads them, or asks again.           *)
LEMMA ReadsOn ==
  ASSUME TalkInv, NEW c \in Clients, NEW n \in 0..rSize, Quiet(c), cpc[c] \in {"count", "rows"},
         toCli[c] # <<>>, AllRows(Tail(toCli[c])), Len(toCli[c]) <= n + 1,
         \A k \in Nat : Coming(c, k) => Len(toCli[c]) + k = n + 1,
         Consumed(c), AfterRead(c, n)
  PROVE  TalkInv'
<1>1. /\ UNCHANGED <<serverVars, threadVars, killed>> /\ Grows
      /\ \A d \in Clients \ {c} : Talk(d)' = Talk(d)
      /\ conn'[c] = conn[c] /\ srvEnd'[c] = srvEnd[c] /\ cliEnd'[c] = cliEnd[c]
      /\ toSrv'[c] = toSrv[c] /\ asked'[c] = asked[c] /\ last'[c] = last[c]
  BY QuietTalk
<1>2. toCli[c] \in Seq(ToClient)
  BY DEF TalkInv, Types, SocketTypes
<1>3. /\ toCli'[c] = Tail(toCli[c]) /\ want'[c] = n
      /\ cpc'[c] = IF n = 0 THEN "ask" ELSE "rows"
  BY DEF Consumed, AfterRead, TalkInv, Types, SocketTypes, ClientTypes
<1>4. /\ Len(toCli[c]) \in Nat /\ Len(toCli[c]) > 0 /\ Len(toCli'[c]) = Len(toCli[c]) - 1
      /\ toCli'[c] \in Seq(ToClient)
  BY <1>2, <1>3, FirstMessage
<1>5. n \in Nat /\ rSize \in Nat
  BY SessionAssumption
<1>6. Types'
  <2>1. ServerTypes' /\ ThreadTypes'
    BY <1>1 DEF TalkInv, Types, ServerTypes, ThreadTypes, serverVars, threadVars
  <2>2. ClientTypes'
    BY DEF TalkInv, Types, ClientTypes, AfterRead, Quiet
  <2>3. SocketTypes'
    BY <1>3, <1>4 DEF TalkInv, Types, SocketTypes, Consumed, Quiet
  <2> QED BY <2>1, <2>2, <2>3 DEF TalkInv, Types, Quiet
<1>7. n = 0 => toCli'[c] = <<>>
  <2>1. ASSUME NEW l \in Nat, l > 0, l <= 0 + 1 PROVE l = 1
    BY <2>1
  <2>2. n = 0 => Len(toCli[c]) = 1
    BY <1>4, <2>1
  <2>3. n = 0 => Len(toCli'[c]) = 0
    BY <1>4, <2>2
  <2> QED BY <1>4, <2>3, EmptySeq
<1>8. Expects(c)'
  <2>1. AllRows(toCli[c])'
    BY <1>3 DEF AllRows
  <2> QED BY <1>3, <1>4, <1>5, <1>7, <2>1 DEF Expects
<1>9. Post(c)
  BY DEF TalkInv
<1>10. conn[c] \in Servers /\ cliEnd[c] = "open"
  BY <1>9 DEF Post, Sides, TalkInv, Types, ClientTypes
<1>11. Post(c)'
  <2>1. Sides(c)'
    BY <1>1, <1>3, <1>9, <1>10 DEF Post, Sides
  <2>2. Own(c)'
    BY <1>1, <1>3, <1>9, OwnTail DEF Post, TalkInv, Types
  <2>3. Heard(c)'
    BY <1>1, <1>9, <1>10, HeardFrame DEF Post
  <2> QED BY <1>8, <2>1, <2>2, <2>3 DEF Post
<1>12. ASSUME NEW t \in Threads, fd[t] = c PROVE Link(t)'
  <2>1. LinkUp(t, c) /\ wpc[t] # "idle"
    BY <1>10, <1>12, Seated
  <2>2. /\ wpc'[t] = wpc[t] /\ fd'[t] = c /\ query'[t] = query[t] /\ records'[t] = records[t]
        /\ num'[t] = num[t] /\ sent'[t] = sent[t]
    BY <1>1, <1>12 DEF threadVars
  <2>3. Rest(t, c) => Rest(t, c)'
    <3>1. ASSUME Coming(c, 0), n # 0 PROVE Coming(c, 0)'
      <4>1. Len(toCli[c]) + 0 = n + 1
        BY <3>1
      <4>2. Len(toCli'[c]) + 0 = n
        BY <1>4, <1>5, <4>1
      <4> QED BY <1>3, <3>1, <4>2 DEF Coming
    <3>2. n = 0 => cpc'[c] = "ask"
      BY <1>3
    <3> QED BY <1>1, <3>1, <3>2 DEF Rest
  <2>4. wpc[t] = "row" => Coming(c, num[t] - sent[t])'
    <3> SUFFICES ASSUME wpc[t] = "row" PROVE Coming(c, num[t] - sent[t])'
      OBVIOUS
    <3>1. sent[t] < num[t] /\ num[t] \in Nat /\ sent[t] \in Nat
      BY <1>5 DEF TalkInv, Kept, Types, ThreadTypes
    <3> DEFINE k == num[t] - sent[t]
    <3>2. k \in Nat /\ k > 0 /\ Coming(c, k) /\ k' = k
      BY <2>1, <2>2, <3>1 DEF LinkUp
    <3>3. Len(toCli[c]) + k = n + 1
      BY <3>2
    <3>4. n # 0 /\ Len(toCli'[c]) + k = n
      <4>1. ASSUME NEW l \in Nat, NEW i \in Nat, l > 0, i > 0, l + i = n + 1
            PROVE  n # 0 /\ (l - 1) + i = n
        BY <1>5, <4>1
      <4> HIDE DEF k
      <4> QED BY <1>4, <3>2, <3>3, <4>1
    <3> QED BY <1>3, <3>2, <3>4 DEF Coming
  <2>5. Current(c)' = Current(c)
    BY <1>1 DEF Current
  <2>6. LinkUp(t, c)'
    BY <1>1, <2>1, <2>2, <2>3, <2>4, <2>5 DEF LinkUp
  <2> QED BY <1>1, <1>10, <2>2, <2>6 DEF Link
<1> QED BY <1>1, <1>6, <1>11, <1>12, ClientFrame

LEMMA TalkReadCount == ASSUME TalkInv, NEW c \in Clients, ReadCount(c) PROVE TalkInv'
<1> DEFINE n == toCli[c][1].n
<1>1. toCli[c] \in Seq(ToClient) /\ toCli[c] # <<>> /\ cpc[c] = "count"
  BY DEF TalkInv, Types, SocketTypes, ReadCount, Next1
<1>2. /\ Head(toCli[c]) = toCli[c][1] /\ toCli[c][1] \in ToClient
      /\ Len(toCli[c]) \in Nat /\ Len(Tail(toCli[c])) = Len(toCli[c]) - 1
      /\ \A k \in 1..Len(Tail(toCli[c])) : Tail(toCli[c])[k] = toCli[c][k + 1]
  BY <1>1, FirstMessage
<1>3. CountFirst(toCli[c])
  BY <1>1 DEF TalkInv, Post, Expects
<1>4. n \in 0..rSize
  BY <1>2, <1>3 DEF CountFirst, ToClient
<1>5. AllRows(Tail(toCli[c])) /\ Len(toCli[c]) <= n + 1
  BY <1>2, <1>3 DEF AllRows, CountFirst
<1>6. \A k \in Nat : Coming(c, k) => Len(toCli[c]) + k = n + 1
  BY <1>1 DEF Coming
<1>7. Quiet(c) /\ Consumed(c) /\ AfterRead(c, n)
  BY <1>2 DEF ReadCount
<1> HIDE DEF n
<1> QED BY <1>1, <1>4, <1>5, <1>6, <1>7, ReadsOn

LEMMA TalkReadRow == ASSUME TalkInv, NEW c \in Clients, ReadRow(c) PROVE TalkInv'
<1> DEFINE n == want[c] - 1
<1>1. toCli[c] \in Seq(ToClient) /\ toCli[c] # <<>> /\ cpc[c] = "rows"
  BY DEF TalkInv, Types, SocketTypes, ReadRow, Next1
<1>2. /\ Len(toCli[c]) \in Nat /\ Len(Tail(toCli[c])) = Len(toCli[c]) - 1
      /\ \A k \in 1..Len(Tail(toCli[c])) : Tail(toCli[c])[k] = toCli[c][k + 1]
  BY <1>1, FirstMessage
<1>3. AllRows(toCli[c]) /\ Len(toCli[c]) <= want[c] /\ want[c] > 0 /\ want[c] \in 0..rSize
  BY <1>1 DEF TalkInv, Post, Expects, Types, ClientTypes
<1>4. n \in 0..rSize /\ Len(toCli[c]) <= n + 1
  BY <1>2, <1>3, SessionAssumption
<1>5. AllRows(Tail(toCli[c]))
  BY <1>2, <1>3 DEF AllRows
<1>6. \A k \in Nat : Coming(c, k) => Len(toCli[c]) + k = n + 1
  BY <1>1, <1>3, SessionAssumption DEF Coming
<1>7. Quiet(c) /\ Consumed(c) /\ AfterRead(c, n)
  BY DEF ReadRow
<1> HIDE DEF n
<1> QED BY <1>1, <1>4, <1>5, <1>6, <1>7, ReadsOn

LEMMA TalkReadReady == ASSUME TalkInv, NEW c \in Clients, ReadReady(c) PROVE TalkInv'
<1>1. /\ UNCHANGED <<serverVars, threadVars, killed>> /\ Grows
      /\ \A d \in Clients \ {c} : Talk(d)' = Talk(d)
      /\ conn'[c] = conn[c] /\ srvEnd'[c] = srvEnd[c] /\ cliEnd'[c] = cliEnd[c]
      /\ toSrv'[c] = toSrv[c] /\ asked'[c] = asked[c] /\ last'[c] = last[c]
  <2>1. ReadReady(c) /\ Quiet(c) /\ cpc' = [cpc EXCEPT ![c] = "ask"] /\ UNCHANGED want /\ Consumed(c)
    BY DEF ReadReady
  <2> QED BY <2>1, QuietTalk
<1>2. Post(c) /\ cpc[c] = "hello" /\ toCli[c] # <<>>
  BY DEF TalkInv, ReadReady, Next1
<1>3. toCli[c] = <<Ready>>
  BY <1>2 DEF Post, Expects
<1>4. /\ toCli'[c] = <<>> /\ cpc'[c] = "ask" /\ want' = want
      /\ toCli' = [toCli EXCEPT ![c] = <<>>] /\ cpc' = [cpc EXCEPT ![c] = "ask"]
  <2>1. Tail(toCli[c]) = <<>>
    BY <1>3, OneMessage
  <2> QED BY <2>1 DEF ReadReady, Consumed, TalkInv, Types, SocketTypes, ClientTypes
<1>5. Types'
  <2>1. ServerTypes' /\ ThreadTypes'
    BY <1>1 DEF TalkInv, Types, ServerTypes, ThreadTypes, serverVars, threadVars
  <2>2. ClientTypes'
    BY <1>4 DEF TalkInv, Types, ClientTypes, ReadReady, Quiet
  <2>3. <<>> \in Seq(ToClient)
    OBVIOUS
  <2>4. SocketTypes'
    BY <1>4, <2>3 DEF TalkInv, Types, SocketTypes, ReadReady, Quiet
  <2> QED BY <2>1, <2>2, <2>4 DEF TalkInv, Types, ReadReady, Quiet
<1>6. conn[c] \in Servers /\ cliEnd[c] = "open" /\ srvEnd[c] \notin {"none", "waiting"}
  BY <1>2, <1>3, OneMessage DEF Post, Sides, TalkInv, Types, ClientTypes
<1>7. Post(c)'
  <2>1. Expects(c)' /\ Sides(c)'
    BY <1>1, <1>2, <1>4, <1>6 DEF Post, Expects, Sides
  <2>2. Own(c)'
    BY <1>4 DEF Own
  <2>3. Heard(c)'
    BY <1>1, <1>2, <1>6, HeardFrame DEF Post
  <2> QED BY <2>1, <2>2, <2>3 DEF Post
<1>8. ASSUME NEW t \in Threads, fd[t] = c PROVE Link(t)'
  <2>1. LinkUp(t, c) /\ wpc[t] # "idle"
    BY <1>6, <1>8, Seated
  <2>2. wpc'[t] = wpc[t] /\ fd'[t] = c
    BY <1>1, <1>8 DEF threadVars
  <2>3. ~Rest(t, c)
    BY <1>2, <1>3, OneMessage DEF Rest, Coming
  <2>4. wpc[t] = "read" => toSrv[c] = <<>>
    BY <2>1, <2>3 DEF LinkUp
  <2>5. wpc[t] \notin {"greet", "answer", "count", "row", "free"}
    BY <1>2, <1>3, <2>1, <2>3, OneMessage DEF LinkUp, Coming
  <2>6. LinkUp(t, c)'
    BY <1>1, <1>4, <2>2, <2>4, <2>5 DEF LinkUp, Rest
  <2> QED BY <1>1, <1>6, <2>2, <2>6 DEF Link
<1> QED BY <1>1, <1>5, <1>7, <1>8, ClientFrame

(* What was on the stack: the server is not on the line any more.           *)
LEMMA TalkReadNothing == ASSUME TalkInv, NEW c \in Clients, ReadNothing(c) PROVE TalkInv'
<1>1. PICK n : \/ cpc[c] = "hello" /\ cpc' = [cpc EXCEPT ![c] = "ask"] /\ UNCHANGED want
               \/ cpc[c] \in {"count", "rows"} /\ AfterRead(c, n) /\ n \in 0..rSize
  <2>1. want[c] \in 0..rSize /\ (cpc[c] = "rows" => want[c] > 0)
    BY DEF TalkInv, Types, ClientTypes, Post, Expects
  <2>2. cpc[c] = "rows" => want[c] - 1 \in 0..rSize
    BY <2>1, SessionAssumption
  <2> QED BY <2>2 DEF ReadNothing
<1>2. /\ UNCHANGED <<serverVars, threadVars, killed>> /\ Grows
      /\ \A d \in Clients \ {c} : Talk(d)' = Talk(d)
      /\ conn'[c] = conn[c] /\ srvEnd'[c] = srvEnd[c] /\ cliEnd'[c] = cliEnd[c]
      /\ toSrv'[c] = toSrv[c] /\ asked'[c] = asked[c] /\ last'[c] = last[c]
  <2>1. Quiet(c) /\ UNCHANGED toCli
    BY DEF ReadNothing
  <2> QED BY <1>1, <2>1, QuietTalk
<1>3. /\ cpc'[c] \in {"ask", "rows"} /\ (cpc'[c] = "rows" => want'[c] > 0)
      /\ want' \in [Clients -> 0..rSize] /\ cpc' \in [Clients -> {"new", "hello", "ask", "count", "rows", "done", "left"}]
  BY <1>1, SessionAssumption DEF AfterRead, TalkInv, Types, ClientTypes
<1>4. toCli' = toCli /\ toCli[c] = <<>> /\ srvEnd[c] = "closed" /\ Post(c)
      /\ cpc[c] \in {"hello", "count", "rows"}
  BY <1>1 DEF ReadNothing, TalkInv
<1>5. Types'
  <2>1. ServerTypes' /\ ThreadTypes'
    BY <1>2 DEF TalkInv, Types, ServerTypes, ThreadTypes, serverVars, threadVars
  <2>2. ClientTypes'
    BY <1>3 DEF TalkInv, Types, ClientTypes, ReadNothing, Quiet
  <2>3. SocketTypes'
    BY <1>4 DEF TalkInv, Types, SocketTypes, ReadNothing, Quiet
  <2> QED BY <2>1, <2>2, <2>3 DEF TalkInv, Types, ReadNothing, Quiet
<1>6. conn[c] \in Servers /\ cliEnd[c] = "open" /\ toSrv[c] = <<>>
  BY <1>4 DEF Post, Sides, TalkInv, Types, ClientTypes
<1>7. Post(c)'
  <2>1. Sides(c)'
    BY <1>2, <1>3, <1>4, <1>6 DEF Post, Sides
  <2>2. Expects(c)'
    <3>1. want'[c] \in Nat
      BY <1>3, SessionAssumption
    <3> QED BY <1>3, <1>4, <3>1 DEF Expects, AllRows
  <2>3. Own(c)'
    BY <1>4 DEF Own
  <2>4. Heard(c)'
    BY <1>2, <1>6 DEF Heard
  <2> QED BY <2>1, <2>2, <2>3, <2>4 DEF Post
<1>8. \A t \in Threads : fd[t] # c
  BY <1>4, Seated
<1> QED BY <1>2, <1>5, <1>7, <1>8, ClientFrame

(* A client stops: nothing that is on its way to it matters any more.       *)
LEMMA TalkStops ==
  ASSUME TalkInv, NEW c \in Clients, NEW how \in {"done", "left"}, Stops(c, how),
         cpc[c] \in {"hello", "ask", "count", "rows"}, how = "done" => cpc[c] = "ask",
         UNCHANGED <<serverVars, threadVars, conn, srvEnd, killed>>, Grows,
         cause' \in [Servers -> SUBSET Causes],
         NEW m \in Seq(ToServer), toSrv' = [toSrv EXCEPT ![c] = m],
         srvEnd[c] # "open" => m = <<>>,
         srvEnd[c] = "waiting" => "left" \in cause'[conn[c]], Heard(c)',
         \A t \in Threads : fd[t] = c => LinkDown(t, c)'
  PROVE  TalkInv'
<1>1. /\ cpc' = [cpc EXCEPT ![c] = how] /\ want' = [want EXCEPT ![c] = 0]
      /\ asked' = [asked EXCEPT ![c] = 0] /\ last' = [last EXCEPT ![c] = Empty]
      /\ cliEnd' = [cliEnd EXCEPT ![c] = IF toCli[c] = <<>> THEN "fin" ELSE "rst"]
      /\ toCli' = [toCli EXCEPT ![c] = <<>>]
  BY DEF Stops
<1>2. Types'
  <2>1. ServerTypes' /\ ThreadTypes'
    BY DEF TalkInv, Types, ServerTypes, ThreadTypes, serverVars, threadVars
  <2>2. ClientTypes'
    <3>1. asked' \in [Clients -> Nat]
      BY <1>1 DEF TalkInv, Types, ClientTypes
    <3>2. last' \in [Clients -> Queries]
      BY <1>1 DEF TalkInv, Types, ClientTypes, Empty, Queries
    <3>3. want' \in [Clients -> 0..rSize]
      BY <1>1, SessionAssumption DEF TalkInv, Types, ClientTypes
    <3> QED BY <1>1, <3>1, <3>2, <3>3 DEF TalkInv, Types, ClientTypes
  <2>3. <<>> \in Seq(ToClient)
    OBVIOUS
  <2>4. SocketTypes'
    BY <1>1, <2>3 DEF TalkInv, Types, SocketTypes
  <2> QED BY <2>1, <2>2, <2>4 DEF TalkInv, Types
<1>3. /\ cpc'[c] = how /\ toCli'[c] = <<>> /\ cliEnd'[c] # "open" /\ toSrv'[c] = m
      /\ conn'[c] = conn[c] /\ srvEnd'[c] = srvEnd[c]
  BY <1>1 DEF TalkInv, Types, SocketTypes, ClientTypes
<1>4. ASSUME NEW d \in Clients \ {c} PROVE Talk(d)' = Talk(d)
  BY <1>1 DEF Talk, TalkInv, Types, SocketTypes, ClientTypes
<1>5. Post(c)
  BY DEF TalkInv
<1>6. Post(c)'
  <2>1. Expects(c)'
    BY <1>3 DEF Expects
  <2>2. Sides(c)'
    BY <1>3, <1>5 DEF Post, Sides
  <2>3. Own(c)'
    BY <1>3 DEF Own
  <2> QED BY <2>1, <2>2, <2>3 DEF Post
<1>7. ASSUME NEW t \in Threads, fd[t] = c PROVE Link(t)'
  <2>1. LinkDown(t, c)' /\ fd'[t] = c
    BY <1>7 DEF threadVars
  <2> QED BY <1>3, <2>1 DEF Link
<1> QED BY <1>2, <1>3, <1>4, <1>6, <1>7, ClientFrame

LEMMA TalkLeave == ASSUME TalkInv, NEW c \in Clients, Leave(c) PROVE TalkInv'
<1>1. /\ cpc[c] \in {"hello", "ask", "count", "rows"} /\ Stops(c, "left")
      /\ UNCHANGED <<serverVars, threadVars, conn, srvEnd, toSrv, killed>>
  BY DEF Leave
<1>2. cause' = IF srvEnd[c] \in {"waiting", "open"}
                 THEN [cause EXCEPT ![conn[c]] = @ \cup {"left"}] ELSE cause
  BY DEF Leave
<1>3. Post(c) /\ cause \in [Servers -> SUBSET Causes]
  BY DEF TalkInv, Types
<1>4. conn[c] \in Servers \/ srvEnd[c] = "none"
  BY <1>3 DEF Post, Sides, TalkInv, Types, ClientTypes
<1>5. cause' \in [Servers -> SUBSET Causes] /\ Grows
  BY <1>2, <1>3, <1>4 DEF Grows, Causes
<1>6. srvEnd[c] \in {"waiting", "open"} => "left" \in cause'[conn[c]]
  BY <1>2, <1>3, <1>4
<1>7. toSrv' = [toSrv EXCEPT ![c] = toSrv[c]] /\ toSrv[c] \in Seq(ToServer)
  BY <1>1 DEF TalkInv, Types, SocketTypes
<1>8. srvEnd[c] # "open" => toSrv[c] = <<>>
  BY <1>3 DEF Post, Sides
<1>9. Heard(c)'
  <2>1. CASE srvEnd[c] = "open"
    BY <1>1, <1>3, <1>4, <1>5, <2>1, HeardFrame DEF Post
  <2>2. CASE srvEnd[c] # "open"
    BY <1>1, <1>8, <2>2 DEF Heard
  <2> QED BY <2>1, <2>2
<1>10. \A t \in Threads : fd[t] = c => LinkDown(t, c)'
  BY <1>6, Seated DEF LinkDown
<1> QED BY <1>1, <1>5, <1>6, <1>7, <1>8, <1>9, <1>10, TalkStops

LEMMA TalkReadReset == ASSUME TalkInv, NEW c \in Clients, ReadReset(c) PROVE TalkInv'
<1>1. /\ cpc[c] \in {"hello", "ask", "count", "rows"} /\ Stops(c, "left") /\ srvEnd[c] = "reset"
      /\ UNCHANGED <<serverVars, threadVars, conn, srvEnd, toSrv, killed, cause>>
  BY DEF ReadReset
<1>2. toSrv[c] = <<>> /\ toSrv' = [toSrv EXCEPT ![c] = <<>>]
  BY <1>1 DEF TalkInv, Types, SocketTypes, Post, Sides
<1>3. <<>> \in Seq(ToServer)
  OBVIOUS
<1>4. Heard(c)'
  BY <1>1, <1>2 DEF Heard
<1>5. Grows /\ cause' \in [Servers -> SUBSET Causes]
  BY <1>1 DEF Grows, TalkInv, Types
<1>6. \A t \in Threads : fd[t] # c
  BY <1>1, Seated
<1> QED BY <1>1, <1>2, <1>3, <1>4, <1>5, <1>6, TalkStops

LEMMA AppendOne == ASSUME NEW S, NEW s \in Seq(S), NEW m \in S
                   PROVE  /\ Append(s, m) \in Seq(S) /\ Append(s, m) # <<>>
                          /\ Len(s) \in Nat /\ Len(Append(s, m)) = Len(s) + 1
                          /\ \A k \in 1..Len(s) : Append(s, m)[k] = s[k]
                          /\ Append(s, m)[Len(s) + 1] = m
                          /\ s = <<>> => Append(s, m) = <<m>>
<1>1. /\ Append(s, m) \in Seq(S) /\ Append(s, m) # <<>> /\ Len(Append(s, m)) = Len(s) + 1
      /\ \A k \in 1..Len(s) : Append(s, m)[k] = s[k]
      /\ Append(s, m)[Len(s) + 1] = m
  BY AppendProperties
<1>2. Len(s) \in Nat
  BY LenProperties
<1>3. s = <<>> => Append(s, m) = <<m>>
  OBVIOUS
<1> QED BY <1>1, <1>2, <1>3

(* A client that is about to ask: a thread that is on the line has nothing  *)
(* more to send and nothing to read, or closes.                             *)
LEMMA AboutToAsk ==
  ASSUME TalkInv, NEW c \in Clients, cpc[c] = "ask", NEW t \in Threads, fd[t] = c
  PROVE  /\ wpc[t] \in {"read", "free", "close", "exits"}
         /\ wpc[t] \in {"read", "free"} => toSrv[c] = <<>>
<1>1. cliEnd[c] = "open"
  BY DEF TalkInv, Post, Sides
<1>2. LinkUp(t, c) /\ wpc[t] # "idle"
  BY <1>1, Seated
<1>3. \A k : ~Coming(c, k)
  BY DEF Coming
<1>4. wpc[t] \in {"idle", "greet", "read", "answer", "count", "row", "free", "close", "exits"}
  BY DEF TalkInv, Types, ThreadTypes
<1>5. Rest(t, c) => toSrv[c] = <<>>
  BY <1>3 DEF Rest
<1> QED BY <1>2, <1>3, <1>4, <1>5 DEF LinkUp

LEMMA HeardAppend ==
  ASSUME TalkInv, NEW c \in Clients, NEW m \in ToServer, Grows, conn[c] \in Servers,
         conn'[c] = conn[c], toSrv'[c] = Append(toSrv[c], m),
         Answered(m.q) => "answered" \in cause'[conn[c]],
         m.q = "broken" => "broken" \in cause'[conn[c]]
  PROVE  Heard(c)'
<1>1. toSrv[c] \in Seq(ToServer) /\ Heard(c)
  BY DEF TalkInv, Types, SocketTypes, Post
<1>2. /\ Len(toSrv[c]) \in Nat /\ Len(toSrv'[c]) = Len(toSrv[c]) + 1
      /\ \A k \in 1..Len(toSrv[c]) : toSrv'[c][k] = toSrv[c][k]
      /\ toSrv'[c][Len(toSrv[c]) + 1] = m
  BY <1>1, AppendOne
<1> SUFFICES ASSUME NEW k \in 1..Len(toSrv'[c]) PROVE Marked(toSrv[c][k].q, conn[c])'
  BY DEF Heard
<1>3. CASE k \in 1..Len(toSrv[c])
  BY <1>1, <1>2, <1>3 DEF Heard, Marked, Grows
<1>4. CASE k = Len(toSrv[c]) + 1
  BY <1>2, <1>4 DEF Marked
<1> QED BY <1>2, <1>3, <1>4

LEMMA TalkFinish == ASSUME TalkInv, NEW c \in Clients, Finish(c) PROVE TalkInv'
<1>1. /\ cpc[c] = "ask" /\ Stops(c, "done")
      /\ UNCHANGED <<serverVars, threadVars, conn, srvEnd, killed, cause>>
  BY DEF Finish
<1> DEFINE m == IF srvEnd[c] = "open" THEN Append(toSrv[c], Done) ELSE toSrv[c]
<1>2. toSrv' = [toSrv EXCEPT ![c] = m] /\ toSrv[c] \in Seq(ToServer)
  BY DEF Finish, TalkInv, Types, SocketTypes, Done
<1>3. m \in Seq(ToServer)
  BY <1>2, AppendOne, QueryTypes
<1>4. Post(c) /\ (srvEnd[c] # "open" => m = <<>>) /\ srvEnd[c] # "waiting" /\ srvEnd[c] # "none"
  BY <1>1 DEF TalkInv, Post, Sides
<1>5. Grows /\ cause' \in [Servers -> SUBSET Causes]
  BY <1>1 DEF Grows, TalkInv, Types
<1>6. conn[c] \in Servers /\ conn'[c] = conn[c]
  BY <1>1, <1>4 DEF Post, Sides, TalkInv, Types, ClientTypes
<1>7. Heard(c)'
  <2>1. CASE srvEnd[c] = "open"
    <3>1. toSrv'[c] = Append(toSrv[c], Done)
      BY <1>2, <2>1 DEF TalkInv, Types, SocketTypes
    <3>2. ~Answered(Done.q) /\ Done.q # "broken"
      BY QueryTypes DEF Answered
    <3> QED BY <1>5, <1>6, <3>1, <3>2, QueryTypes, HeardAppend
  <2>2. CASE srvEnd[c] # "open"
    BY <1>2, <1>4, <2>2 DEF Heard, TalkInv, Types, SocketTypes
  <2> QED BY <2>1, <2>2
<1>8. ASSUME NEW t \in Threads, fd[t] = c PROVE LinkDown(t, c)'
  <2>1. /\ wpc[t] \in {"read", "free", "close", "exits"} /\ wpc'[t] = wpc[t] /\ cause' = cause
        /\ wpc[t] \in {"read", "free"} => toSrv[c] = <<>>
    BY <1>1, <1>8, AboutToAsk DEF threadVars
  <2>2. toCli[c] = <<>> /\ cliEnd'[c] = "fin"
    BY <1>1, <1>4 DEF Stops, Post, Expects, TalkInv, Types, SocketTypes
  <2>3. srvEnd[c] = "open"
    BY <1>8, Seated
  <2>4. toSrv[c] = <<>> => toSrv'[c] = <<Done>>
    <3>1. toSrv[c] = <<>> => m = <<Done>>
      BY <2>3, <1>2, AppendOne, QueryTypes
    <3> HIDE DEF m
    <3> QED BY <1>2, <3>1 DEF TalkInv, Types, SocketTypes
  <2> QED BY <2>1, <2>2, <2>4 DEF LinkDown
<1> HIDE DEF m
<1> QED BY <1>1, <1>2, <1>3, <1>4, <1>5, <1>7, <1>8, TalkStops

(* A query is sent, or lost on a connection the server has closed.          *)
LEMMA TalkAsks ==
  ASSUME TalkInv, NEW c \in Clients, cpc[c] = "ask",
         cpc' = [cpc EXCEPT ![c] = "count"], asked' = [asked EXCEPT ![c] = @ + 1],
         NEW q \in Queries, last' = [last EXCEPT ![c] = q],
         IF srvEnd[c] = "open"
           THEN toSrv' = [toSrv EXCEPT ![c] = Append(@, Current(c)')] /\ Noted(c, q)
           ELSE q = Empty /\ UNCHANGED <<toSrv, cause>>,
         UNCHANGED <<want, cliEnd, toCli>>,
         UNCHANGED <<serverVars, threadVars, conn, srvEnd, killed>>
  PROVE  TalkInv'
<1> DEFINE cur == [by |-> c, no |-> asked[c] + 1, q |-> q]
<1>1. Post(c) /\ srvEnd[c] \notin {"none", "waiting"} /\ cliEnd[c] = "open" /\ toCli[c] = <<>>
      /\ conn[c] \in Servers
  BY DEF TalkInv, Post, Sides, Expects, Types, ClientTypes
<1>2. /\ cpc'[c] = "count" /\ asked'[c] = asked[c] + 1 /\ last'[c] = q /\ asked[c] \in Nat
      /\ conn'[c] = conn[c] /\ srvEnd'[c] = srvEnd[c] /\ cliEnd'[c] = "open" /\ toCli'[c] = <<>>
  BY <1>1 DEF TalkInv, Types, ClientTypes
<1>3. Current(c)' = cur /\ cur \in QuerySet /\ cur \in ToServer /\ cur.q = q
  BY <1>2 DEF Current, QuerySet, ToServer
<1>4. cause \in [Servers -> SUBSET Causes]
  BY DEF TalkInv, Types
<1>5. cause' \in [Servers -> SUBSET Causes] /\ Grows
  BY <1>1, <1>4 DEF Noted, Grows, Causes
<1>6. srvEnd[c] = "open" =>
        /\ Answered(q) => "answered" \in cause'[conn[c]]
        /\ q = "broken" => "broken" \in cause'[conn[c]]
        /\ ~Answered(q) /\ "answered" \in cause[conn[c]] =>
             "unanswered" \in cause'[conn[c]] \/ "broken" \in cause'[conn[c]]
  <2>1. ~Answered("broken")
    BY DEF Answered
  <2> QED BY <1>1, <1>4, <2>1 DEF Noted
<1>7. toSrv[c] \in Seq(ToServer)
  BY DEF TalkInv, Types, SocketTypes
<1>8. toSrv' = [toSrv EXCEPT ![c] = toSrv'[c]]
      /\ toSrv'[c] = IF srvEnd[c] = "open" THEN Append(toSrv[c], cur) ELSE toSrv[c]
  BY <1>3 DEF TalkInv, Types, SocketTypes
<1>9. toSrv'[c] \in Seq(ToServer)
  BY <1>3, <1>7, <1>8, AppendOne
<1> HIDE DEF cur
<1>10. Types'
  <2>1. ServerTypes' /\ ThreadTypes'
    BY DEF TalkInv, Types, ServerTypes, ThreadTypes, serverVars, threadVars
  <2>2. ClientTypes'
    <3>1. asked' \in [Clients -> Nat]
      BY DEF TalkInv, Types, ClientTypes
    <3> QED BY <3>1 DEF TalkInv, Types, ClientTypes
  <2>3. SocketTypes'
    BY <1>8, <1>9 DEF TalkInv, Types, SocketTypes
  <2> QED BY <1>5, <2>1, <2>2, <2>3 DEF TalkInv, Types
<1>11. ASSUME NEW d \in Clients \ {c} PROVE Talk(d)' = Talk(d)
  BY <1>8 DEF Talk, TalkInv, Types, ClientTypes, SocketTypes
<1>12. Post(c)'
  <2>1. Expects(c)'
    BY <1>2 DEF Expects
  <2>2. Sides(c)'
    BY <1>1, <1>2, <1>8 DEF Post, Sides
  <2>3. Own(c)'
    BY <1>2 DEF Own
  <2>4. Heard(c)'
    <3>1. CASE srvEnd[c] = "open"
      BY <1>1, <1>2, <1>3, <1>5, <1>6, <1>8, <3>1, HeardAppend
    <3>2. CASE srvEnd[c] # "open"
      BY <1>1, <1>2, <1>5, <1>8, <3>2, HeardFrame DEF Post
    <3> QED BY <3>1, <3>2
  <2> QED BY <2>1, <2>2, <2>3, <2>4 DEF Post
<1>13. ASSUME NEW t \in Threads, fd[t] = c PROVE Link(t)'
  <2>1. /\ wpc'[t] = wpc[t] /\ fd'[t] = c /\ records'[t] = records[t]
    BY <1>13 DEF threadVars
  <2>2. wpc[t] \in {"read", "free", "close", "exits"}
        /\ (wpc[t] \in {"read", "free"} => toSrv[c] = <<>>)
    BY <1>13, AboutToAsk
  <2>3. srvEnd[c] = "open" /\ conn[c] = t[1]
    BY <1>13, Seated
  <2>4. Answered(q) \/ records[t].at = "null" \/ Blame(t[1])'
    <3>1. records[t].at # "null" => "answered" \in cause[t[1]] \/ "broken" \in cause[t[1]]
      BY DEF TalkInv, Kept
    <3>2. "broken" \in cause[t[1]] => "broken" \in cause'[t[1]]
      BY <1>5, OfServer DEF Grows
    <3> QED BY <1>6, <2>3, <3>1, <3>2 DEF Blame
  <2>5. wpc[t] \in {"read", "free"} => toSrv'[c] = <<cur>>
    BY <1>3, <1>7, <1>8, <2>2, <2>3, AppendOne
  <2>6. wpc[t] \in {"read", "free"} => Rest(t, c)'
    BY <1>2, <1>3, <2>1, <2>4, <2>5 DEF Rest
  <2>7. LinkUp(t, c)'
    BY <2>1, <2>2, <2>6 DEF LinkUp
  <2> QED BY <1>2, <2>1, <2>7 DEF Link
<1> QED BY <1>2, <1>5, <1>10, <1>11, <1>12, <1>13, ClientFrame

LEMMA TalkAsk == ASSUME TalkInv, NEW c \in Clients, Ask(c) PROVE TalkInv'
<1>1. /\ cpc[c] = "ask"
      /\ UNCHANGED <<serverVars, threadVars, conn, srvEnd, killed>>
  BY DEF Ask
<1>2. CASE /\ cpc' = [cpc EXCEPT ![c] = "count"] /\ asked' = [asked EXCEPT ![c] = @ + 1]
           /\ \E q \in Queries :
                /\ last' = [last EXCEPT ![c] = q]
                /\ IF srvEnd[c] = "open"
                     THEN toSrv' = [toSrv EXCEPT ![c] = Append(@, Current(c)')] /\ Noted(c, q)
                     ELSE q = Empty /\ UNCHANGED <<toSrv, cause>>
           /\ UNCHANGED <<want, cliEnd, toCli>>
  <2>1. PICK q \in Queries :
          /\ last' = [last EXCEPT ![c] = q]
          /\ IF srvEnd[c] = "open"
               THEN toSrv' = [toSrv EXCEPT ![c] = Append(@, Current(c)')] /\ Noted(c, q)
               ELSE q = Empty /\ UNCHANGED <<toSrv, cause>>
    BY <1>2
  <2> QED BY <1>1, <1>2, <2>1, TalkAsks
<1>3. CASE srvEnd[c] # "open" /\ Stops(c, "left") /\ UNCHANGED <<toSrv, cause>>
  <2>1. toSrv[c] = <<>> /\ toSrv' = [toSrv EXCEPT ![c] = <<>>] /\ srvEnd[c] # "waiting"
    BY <1>1, <1>3 DEF TalkInv, Types, SocketTypes, Post, Sides
  <2>2. <<>> \in Seq(ToServer)
    OBVIOUS
  <2>3. Heard(c)'
    BY <1>3, <2>1 DEF Heard
  <2>4. Grows /\ cause' \in [Servers -> SUBSET Causes]
    BY <1>3 DEF Grows, TalkInv, Types
  <2>5. \A t \in Threads : fd[t] # c
    BY <1>3, Seated
  <2> QED BY <1>1, <1>3, <2>1, <2>2, <2>3, <2>4, <2>5, TalkStops
<1> QED BY <1>2, <1>3 DEF Ask

LEMMA TalkConnect == ASSUME TalkInv, NEW c \in Clients, Connect(c) PROVE TalkInv'
<1>1. /\ UNCHANGED <<serverVars, threadVars, asked, last, want, cliEnd, toSrv, toCli, killed, cause>>
      /\ cpc[c] = "new"
  BY DEF Connect
<1>2. Post(c) /\ srvEnd[c] = "none" /\ conn[c] = Nobody /\ toSrv[c] = <<>> /\ toCli[c] = <<>>
      /\ cliEnd[c] = "open"
  BY <1>1 DEF TalkInv, Post, Sides
<1>3. \/ /\ cpc' = [cpc EXCEPT ![c] = "hello"] /\ srvEnd' = [srvEnd EXCEPT ![c] = "waiting"]
         /\ \E s \in Servers : conn' = [conn EXCEPT ![c] = s]
      \/ cpc' = [cpc EXCEPT ![c] = "left"] /\ UNCHANGED <<conn, srvEnd>>
  BY DEF Connect
<1>4. Types'
  <2>1. ServerTypes' /\ ThreadTypes'
    BY <1>1 DEF TalkInv, Types, ServerTypes, ThreadTypes, serverVars, threadVars
  <2>2. ClientTypes'
    BY <1>1, <1>3 DEF TalkInv, Types, ClientTypes
  <2>3. SocketTypes'
    BY <1>1, <1>3 DEF TalkInv, Types, SocketTypes
  <2> QED BY <1>1, <2>1, <2>2, <2>3 DEF TalkInv, Types
<1>5. \A d \in Clients \ {c} : Talk(d)' = Talk(d)
  BY <1>1, <1>3 DEF Talk, TalkInv, Types, ClientTypes, SocketTypes
<1>6. /\ toSrv'[c] = <<>> /\ toCli'[c] = <<>> /\ cliEnd'[c] = "open"
      /\ \/ cpc'[c] = "hello" /\ srvEnd'[c] = "waiting" /\ conn'[c] \in Servers
         \/ cpc'[c] = "left" /\ srvEnd'[c] = "none" /\ conn'[c] = Nobody
  BY <1>1, <1>2, <1>3 DEF TalkInv, Types, ClientTypes, SocketTypes
<1>7. Post(c)'
  <2>1. Expects(c)' /\ Own(c)' /\ Heard(c)'
    BY <1>6 DEF Expects, Own, Heard
  <2>2. Sides(c)'
    BY <1>6, SessionAssumption DEF Sides
  <2> QED BY <2>1, <2>2 DEF Post
<1>8. \A t \in Threads : fd[t] # c
  BY <1>2, Seated
<1>9. Grows
  BY <1>1 DEF Grows
<1> QED BY <1>1, <1>4, <1>5, <1>7, <1>8, <1>9, ClientFrame

LEMMA TalkPeerResets == ASSUME TalkInv, NEW c \in Clients, PeerResets(c) PROVE TalkInv'
<1>1. /\ UNCHANGED <<serverVars, threadVars, clientVars, srvEnd, toSrv, toCli, killed, cause>>
      /\ cliEnd[c] = "finw" /\ cliEnd' = [cliEnd EXCEPT ![c] = "finrst"]
  BY DEF PeerResets
<1>2. Grows
  BY <1>1 DEF Grows
<1>3. Types'
  BY <1>1 DEF TalkInv, Types, ServerTypes, ThreadTypes, ClientTypes, SocketTypes,
      serverVars, threadVars, clientVars
<1>4. \A d \in Clients \ {c} : Talk(d)' = Talk(d)
  BY <1>1 DEF Talk, TalkInv, Types, SocketTypes, clientVars
<1>5. cliEnd'[c] = "finrst" /\ conn'[c] = conn[c] /\ srvEnd'[c] = srvEnd[c]
  BY <1>1 DEF TalkInv, Types, SocketTypes, clientVars
<1>6. Post(c)'
  <2>1. Post(c)
    BY DEF TalkInv
  <2>2. Expects(c)'
    BY <1>1, <2>1 DEF Post, Expects, AllRows, CountFirst, clientVars
  <2>3. Sides(c)'
    BY <1>1, <1>5, <2>1 DEF Post, Sides, clientVars
  <2>4. Current(c)' = Current(c)
    BY <1>1 DEF Current, clientVars
  <2>5. Own(c)' /\ Heard(c)'
    BY <1>1, <2>1, <2>4 DEF Post, Own, Heard, Marked, clientVars
  <2> QED BY <2>2, <2>3, <2>5 DEF Post
<1>7. ASSUME NEW t \in Threads, fd[t] = c PROVE Link(t)'
  <2>1. LinkDown(t, c)
    BY <1>1, <1>7, Seated
  <2>2. LinkDown(t, c)' /\ fd'[t] = c
    BY <1>1, <1>7, <2>1 DEF LinkDown, threadVars
  <2> QED BY <1>5, <2>2 DEF Link
<1> QED BY <1>1, <1>2, <1>3, <1>4, <1>5, <1>6, <1>7, ClientFrame

LEMMA TalkClient == ASSUME TalkInv, NEW c \in Clients, Connect(c) \/ ClientStep(c) \/ Leave(c)
                    PROVE  TalkInv'
  BY TalkConnect, TalkLeave, TalkReadReady, TalkReadCount, TalkReadRow, TalkReadNothing,
     TalkAsk, TalkFinish, TalkReadReset, TalkPeerResets DEF ClientStep

-----------------------------------------------------------------------------
(* The steps of the server processes.                                       *)

LEMMA ServerFrame ==
  ASSUME TalkInv, ServerTypes', \A r \in Servers : Reason(r)',
         UNCHANGED <<threadVars, clientVars, socketVars, killed, cause>>,
         \A t \in Threads : wpc[t] # "idle" =>
           Running(t[1])' /\ (life'[t[1]] = "exiting" => Excused(t[1]))
  PROVE  TalkInv'
<1>1. Types'
  BY DEF TalkInv, Types, ThreadTypes, ClientTypes, SocketTypes, threadVars, clientVars, socketVars
<1>2. Apart'
  BY DEF TalkInv, Apart, threadVars
<1>3. Grows
  BY DEF Grows
<1>4. (\A c \in Clients : Talk(c)' = Talk(c)) /\ (\A t \in Threads : Seen(t)' = Seen(t))
  BY DEF Talk, Seen, threadVars, clientVars, socketVars
<1>5. ASSUME NEW c \in Clients PROVE Post(c)'
  BY <1>3, <1>4, PostFrame DEF TalkInv
<1>6. ASSUME NEW t \in Threads PROVE Seat(t)' /\ Link(t)' /\ Kept(t)'
  <2>1. Kept(t)'
    BY <1>3, <1>4, KeptFrame DEF TalkInv
  <2>2. Seat(t)'
    <3>1. Excused(t[1])' <=> Excused(t[1])
      BY BlameStays, OfServer
    <3> QED BY <3>1 DEF TalkInv, Seat, threadVars, clientVars, socketVars
  <2>3. ASSUME fd[t] = Nobody PROVE Link(t)'
    BY <2>3, SessionAssumption DEF Link, threadVars
  <2>4. ASSUME NEW c \in Clients, fd[t] = c PROVE Link(t)'
    BY <1>3, <1>4, <2>4, LinkFrame DEF TalkInv
  <2> QED BY <2>1, <2>2, <2>3, <2>4 DEF TalkInv, Types, ThreadTypes
<1> QED BY <1>1, <1>2, <1>5, <1>6 DEF TalkInv

(* A thread that talks is a thread of a server that runs.                   *)
LEMMA Talkers == ASSUME TalkInv, NEW t \in Threads, wpc[t] # "idle"
                 PROVE  /\ t[1] \in Servers /\ life[t[1]] \in {"serving", "exiting"}
                        /\ life[t[1]] = "exiting" => Excused(t[1])
  BY OfServer DEF TalkInv, Seat, Running

LEMMA TalkExits ==
  ASSUME TalkInv, NEW s \in Servers, ExitServer(s), life[s] \in {"starting", "serving"},
         life[s] = "serving" => interrupt[s],
         UNCHANGED <<threadVars, clientVars, socketVars, killed, cause>>,
         \A t \in Threads : t[1] = s => wpc[t] = "idle"
  PROVE  TalkInv'
<1>1. /\ pda' = Nobody /\ UNCHANGED <<interrupt, memory>>
      /\ \/ life' = [life EXCEPT ![s] = "exiting"] /\ interrupt[s]
         \/ life' = [life EXCEPT ![s] = "aborting"]
  BY DEF ExitServer, NameAfterExit
<1>2. ServerTypes'
  BY <1>1 DEF TalkInv, Types, ServerTypes, Lives
<1>3. ASSUME NEW r \in Servers PROVE Reason(r)'
  <2>1. (Blame(r)' <=> Blame(r)) /\ (Excused(r)' <=> Excused(r))
    BY BlameStays
  <2> QED BY <1>1, <2>1 DEF TalkInv, Types, ServerTypes, Reason
<1>4. ASSUME NEW t \in Threads, wpc[t] # "idle"
      PROVE  Running(t[1])' /\ (life'[t[1]] = "exiting" => Excused(t[1]))
  BY <1>1, <1>4, Talkers DEF Running, TalkInv, Types, ServerTypes
<1> QED BY <1>2, <1>3, <1>4, ServerFrame

LEMMA TalkLives ==
  ASSUME TalkInv, NEW s \in Servers, life[s] \in {"new", "starting"},
         NEW now \in {"refused", "starting", "failed", "serving"},
         life' = [life EXCEPT ![s] = now], pda' \in Servers \cup {Nobody},
         UNCHANGED <<interrupt, memory, threadVars, clientVars, socketVars, killed, cause>>
  PROVE  TalkInv'
<1>1. ServerTypes'
  BY DEF TalkInv, Types, ServerTypes, Lives
<1>2. ASSUME NEW r \in Servers PROVE Reason(r)'
  <2>1. (Blame(r)' <=> Blame(r)) /\ (Excused(r)' <=> Excused(r))
    BY BlameStays
  <2> QED BY <2>1 DEF TalkInv, Types, ServerTypes, Reason
<1>3. ASSUME NEW t \in Threads, wpc[t] # "idle"
      PROVE  Running(t[1])' /\ (life'[t[1]] = "exiting" => Excused(t[1]))
  BY <1>3, Talkers DEF Running, TalkInv, Types, ServerTypes
<1> QED BY <1>1, <1>2, <1>3, ServerFrame

LEMMA TalkSigint == ASSUME TalkInv, NEW s \in Servers, Sigint(s) PROVE TalkInv'
<1>1. /\ interrupt' = [interrupt EXCEPT ![s] = TRUE]
      /\ UNCHANGED <<life, pda, memory, threadVars, clientVars, socketVars, killed, cause>>
  BY DEF Sigint
<1>2. ServerTypes'
  BY <1>1 DEF TalkInv, Types, ServerTypes
<1>3. ASSUME NEW r \in Servers PROVE Reason(r)'
  <2>1. (Blame(r)' <=> Blame(r)) /\ (Excused(r)' <=> Excused(r))
    BY <1>1, BlameStays
  <2> QED BY <1>1, <2>1 DEF TalkInv, Types, ServerTypes, Reason
<1>4. ASSUME NEW t \in Threads, wpc[t] # "idle"
      PROVE  Running(t[1])' /\ (life'[t[1]] = "exiting" => Excused(t[1]))
  BY <1>1, <1>4, Talkers DEF Running
<1> QED BY <1>1, <1>2, <1>3, <1>4, ServerFrame

(* A process ends: its connections are cut, its threads are no more.        *)
LEMMA TalkEnds ==
  ASSUME TalkInv, NEW s \in Servers, NEW how \in {"gone", "failed", "killed"}, Ends(s, how),
         UNCHANGED cause, pda' \in Servers \cup {Nobody}, killed \subseteq killed',
         how = "gone" => life[s] = "exiting",
         how = "killed" => s \in killed' \/ Blame(s)
  PROVE  TalkInv'
<1>1. /\ life' = [life EXCEPT ![s] = how] /\ memory' = [memory EXCEPT ![s] = "sound"]
      /\ UNCHANGED <<interrupt, cliEnd, toCli, clientVars>>
      /\ wpc' = Forgotten(wpc, s, "idle") /\ fd' = Forgotten(fd, s, Nobody)
      /\ query' = Forgotten(query, s, None) /\ records' = Forgotten(records, s, Null)
      /\ num' = Forgotten(num, s, 0) /\ sent' = Forgotten(sent, s, 0)
  BY DEF Ends
<1>2. /\ srvEnd' = [c \in Clients |->
            IF ~Cut(s, c) THEN srvEnd[c]
            ELSE IF srvEnd[c] = "waiting" \/ toSrv[c] # <<>> THEN "reset" ELSE "closed"]
      /\ toSrv' = [c \in Clients |-> IF Cut(s, c) THEN <<>> ELSE toSrv[c]]
  BY DEF Ends, ConnectionsCut
<1>3. Grows
  BY DEF Grows
<1>4. Types'
  <2>1. ServerTypes'
    BY <1>1 DEF TalkInv, Types, ServerTypes, Lives
  <2>2. ThreadTypes'
    <3>1. None \in QuerySet /\ Null \in [at : {"null", "live", "freed"}, of : QuerySet] /\ 0 \in 0..rSize
      BY QueryTypes, SessionAssumption DEF Null
    <3>2. wpc' \in [Threads -> {"idle", "greet", "read", "answer", "count", "row", "free",
                                "close", "exits"}]
          /\ fd' \in [Threads -> Clients \cup {Nobody}]
      BY <1>1 DEF TalkInv, Types, ThreadTypes, Forgotten
    <3>3. query' \in [Threads -> QuerySet]
          /\ records' \in [Threads -> [at : {"null", "live", "freed"}, of : QuerySet]]
      BY <1>1, <3>1 DEF TalkInv, Types, ThreadTypes, Forgotten
    <3>4. num' \in [Threads -> 0..rSize] /\ sent' \in [Threads -> 0..rSize]
      BY <1>1, <3>1 DEF TalkInv, Types, ThreadTypes, Forgotten
    <3> QED BY <3>2, <3>3, <3>4 DEF ThreadTypes
  <2>3. ClientTypes'
    BY <1>1 DEF TalkInv, Types, ClientTypes, clientVars
  <2>4. SocketTypes'
    <3>1. <<>> \in Seq(ToServer)
      OBVIOUS
    <3>2. toSrv' \in [Clients -> Seq(ToServer)]
      BY <1>2, <3>1 DEF TalkInv, Types, SocketTypes
    <3>3. srvEnd' \in [Clients -> {"none", "waiting", "open", "closed", "reset"}]
      BY <1>2 DEF TalkInv, Types, SocketTypes
    <3> QED BY <1>1, <3>2, <3>3 DEF TalkInv, Types, SocketTypes
  <2> QED BY <2>1, <2>2, <2>3, <2>4 DEF TalkInv, Types
<1>5. ASSUME NEW c \in Clients, ~Cut(s, c) PROVE Talk(c)' = Talk(c)
  BY <1>1, <1>2, <1>5 DEF Talk, clientVars
<1>6. ASSUME NEW c \in Clients PROVE Post(c)'
  <2>1. CASE ~Cut(s, c)
    BY <1>3, <1>5, <2>1, PostFrame DEF TalkInv
  <2>2. CASE Cut(s, c)
    <3>1. Post(c)
      BY DEF TalkInv
    <3>2. srvEnd'[c] \in {"reset", "closed"} /\ toSrv'[c] = <<>> /\ conn[c] = s
          /\ srvEnd[c] \in {"waiting", "open"}
      BY <1>2, <2>2 DEF Cut
    <3>3. Expects(c)'
      BY <1>1, <3>1 DEF Post, Expects, AllRows, CountFirst, clientVars
    <3>4. Sides(c)'
      BY <1>1, <3>1, <3>2 DEF Post, Sides, clientVars
    <3>5. Current(c)' = Current(c)
      BY <1>1 DEF Current, clientVars
    <3>6. Own(c)' /\ Heard(c)'
      BY <1>1, <3>1, <3>2, <3>5 DEF Post, Own, Heard, clientVars
    <3> QED BY <3>3, <3>4, <3>6 DEF Post
  <2> QED BY <2>1, <2>2
<1>7. ASSUME NEW t \in Threads, t[1] # s
      PROVE  Seen(t)' = Seen(t) /\ life'[t[1]] = life[t[1]] /\ fd'[t] = fd[t] /\ wpc'[t] = wpc[t]
  BY <1>1, <1>7, OfServer DEF Seen, Forgotten, TalkInv, Types, ServerTypes
<1>8. ASSUME NEW t \in Threads, t[1] = s
      PROVE  wpc'[t] = "idle" /\ fd'[t] = Nobody /\ records'[t] = Null /\ sent'[t] = 0
  BY <1>1, <1>8 DEF Forgotten
<1>9. Apart'
  BY <1>7, <1>8 DEF TalkInv, Apart
<1>10. ASSUME NEW t \in Threads PROVE Seat(t)' /\ Link(t)' /\ Kept(t)'
  <2>1. CASE t[1] = s
    <3>1. Kept(t)'
      BY <1>8, <2>1 DEF Kept, Null
    <3> QED BY <1>8, <2>1, <3>1, IdleFrame
  <2>2. CASE t[1] # s
    <3>1. Kept(t)'
      BY <1>3, <1>7, <2>2, KeptFrame DEF TalkInv
    <3>2. CASE fd[t] = Nobody
      <4>1. wpc'[t] = "idle" /\ fd'[t] = Nobody
        BY <1>7, <2>2, <3>2 DEF TalkInv, Seat
      <4> QED BY <3>1, <4>1, IdleFrame
    <3>3. ASSUME NEW c \in Clients, fd[t] = c PROVE Seat(t)' /\ Link(t)'
      <4>1. ~Cut(s, c)
        BY <2>2, <3>3, Seated DEF Cut
      <4>2. Talk(c)' = Talk(c)
        BY <1>5, <4>1
      <4>3. conn'[c] = conn[c] /\ srvEnd'[c] = srvEnd[c]
        BY <4>2 DEF Talk
      <4>4. Seat(t)'
        BY <1>3, <1>7, <2>2, <3>3, <4>3, SeatFrame DEF TalkInv
      <4> QED BY <1>3, <1>7, <2>2, <3>3, <4>2, <4>4, LinkFrame DEF TalkInv
    <3> QED BY <3>1, <3>2, <3>3 DEF TalkInv, Types, ThreadTypes
  <2> QED BY <2>1, <2>2
<1>11. ASSUME NEW r \in Servers PROVE Reason(r)'
  <2>1. (Blame(r)' <=> Blame(r)) /\ (Excused(r)' <=> Excused(r))
    BY BlameStays
  <2>2. Reason(r)
    BY DEF TalkInv
  <2>3. CASE r = s
    <3>1. life'[s] = how /\ memory'[s] = "sound" /\ interrupt' = interrupt
      BY <1>1 DEF TalkInv, Types, ServerTypes
    <3> QED BY <2>1, <2>2, <2>3, <3>1 DEF Reason
  <2>4. CASE r # s
    <3>1. life'[r] = life[r] /\ memory'[r] = memory[r] /\ interrupt' = interrupt
      BY <1>1, <2>4 DEF TalkInv, Types, ServerTypes
    <3> QED BY <2>1, <2>2, <3>1 DEF Reason
  <2> QED BY <2>3, <2>4
<1> QED BY <1>4, <1>6, <1>9, <1>10, <1>11 DEF TalkInv

LEMMA TalkServer == ASSUME TalkInv, NEW s \in Servers, ServerStep(s) \/ ServerEvent(s)
                    PROVE  TalkInv'
<1>1. pda \in Servers \cup {Nobody}
  BY DEF TalkInv, Types, ServerTypes
<1>2. CASE Start(s)
  <2>1. \/ life' = [life EXCEPT ![s] = "refused"] /\ pda' = pda
        \/ life' = [life EXCEPT ![s] = "starting"] /\ pda' = s
    BY <1>2 DEF Start
  <2> QED BY <1>1, <1>2, <2>1, TalkLives DEF Start
<1>3. CASE StartFails(s)
  BY <1>1, <1>3, TalkLives DEF StartFails
<1>4. CASE ComeUp(s)
  <2>1. CASE interrupt[s]
    <3>1. \A t \in Threads : t[1] = s => wpc[t] = "idle"
      BY <1>4, Talkers DEF ComeUp
    <3> QED BY <1>4, <2>1, <3>1, TalkExits DEF ComeUp
  <2>2. CASE ~interrupt[s]
    BY <1>1, <1>4, <2>2, TalkLives DEF ComeUp
  <2> QED BY <2>1, <2>2
<1>5. CASE Sigint(s)
  BY <1>5, TalkSigint
<1>6. CASE Exit(s)
  <2>1. \A t \in Threads : t[1] = s => wpc[t] = "idle"
    BY <1>6 DEF Exit, Talking
  <2> QED BY <1>6, <2>1, TalkExits DEF Exit
<1>7. CASE Gone(s)
  <2>1. PICK how \in {"gone", "failed"} : Ends(s, how) /\ (how = "gone" => life[s] = "exiting")
    BY <1>7 DEF Gone
  <2> QED BY <1>1, <1>7, <2>1, TalkEnds DEF Gone
<1>8. CASE Sigkill(s)
  BY <1>1, <1>8, TalkEnds DEF Sigkill, Dies
<1>9. CASE MemoryFails(s)
  <2>1. Blame(s)
    <3>1. memory[s] = "corrupt" => Blame(s)
      BY DEF TalkInv, Reason
    <3>2. ASSUME life[s] = "exiting", Talking(s) # {} PROVE Blame(s)
      <4>1. PICK t \in Threads : t[1] = s /\ wpc[t] # "idle"
        BY <3>2 DEF Talking
      <4> QED BY <3>2, <4>1, Talkers DEF Blame
    <3> QED BY <1>9, <3>1, <3>2 DEF MemoryFails
  <2> QED BY <1>1, <1>9, <2>1, TalkEnds DEF MemoryFails, Dies
<1>10. CASE ComeUpFails(s)
  <2>1. \A t \in Threads : t[1] = s => wpc[t] = "idle"
    BY <1>10, Talkers DEF ComeUpFails
  <2> QED BY <1>10, <2>1, TalkExits DEF ComeUpFails
<1> QED BY <1>2, <1>3, <1>4, <1>5, <1>6, <1>7, <1>8, <1>9, <1>10 DEF ServerStep, ServerEvent

-----------------------------------------------------------------------------
(* The steps of a thread.                                                   *)

LEMMA ThreadFrame ==
  ASSUME TalkInv, NEW t \in Threads, NEW c \in Clients, Types',
         UNCHANGED <<life, interrupt, clientVars, killed, cause>>,
         \A u \in Threads \ {t} : Seen(u)' = Seen(u) /\ fd[u] # c,
         \A d \in Clients \ {c} : Talk(d)' = Talk(d),
         fd'[t] \in {c, Nobody}, Post(c)', Seat(t)', Link(t)', Kept(t)',
         \A s \in Servers : memory'[s] = "corrupt" => memory[s] = "corrupt" \/ Blame(s)
  PROVE  TalkInv'
<1>1. Grows
  BY DEF Grows
<1>2. \A u \in Threads \ {t} : wpc'[u] = wpc[u] /\ fd'[u] = fd[u]
  BY DEF Seen
<1>3. Apart'
  BY <1>2 DEF TalkInv, Apart
<1>4. ASSUME NEW d \in Clients PROVE Post(d)'
  BY <1>1, PostFrame DEF TalkInv
<1>5. ASSUME NEW u \in Threads \ {t} PROVE Seat(u)' /\ Link(u)' /\ Kept(u)'
  <2>1. Kept(u)'
    BY <1>1, KeptFrame DEF TalkInv
  <2>2. CASE fd[u] = Nobody
    <3>1. wpc'[u] = "idle" /\ fd'[u] = Nobody
      BY <1>2, <2>2 DEF TalkInv, Seat
    <3> QED BY <2>1, <3>1, IdleFrame
  <2>3. ASSUME NEW d \in Clients, fd[u] = d PROVE Seat(u)' /\ Link(u)'
    <3>1. Talk(d)' = Talk(d)
      BY <2>3
    <3>2. conn'[d] = conn[d] /\ srvEnd'[d] = srvEnd[d] /\ life'[u[1]] = life[u[1]]
      BY <3>1 DEF Talk
    <3>3. Seat(u)'
      BY <1>1, <2>3, <3>2, SeatFrame DEF TalkInv
    <3> QED BY <1>1, <2>3, <3>1, <3>3, LinkFrame DEF TalkInv
  <2> QED BY <2>1, <2>2, <2>3 DEF TalkInv, Types, ThreadTypes
<1>6. ASSUME NEW s \in Servers PROVE Reason(s)'
  <2>1. (Blame(s)' <=> Blame(s)) /\ (Excused(s)' <=> Excused(s))
    BY BlameStays
  <2>2. memory'[s] = "corrupt" => Blame(s)
    BY DEF TalkInv, Reason
  <2> QED BY <2>1, <2>2 DEF TalkInv, Reason
<1> QED BY <1>3, <1>4, <1>5, <1>6 DEF TalkInv

(* A talking thread has its client to itself.                               *)
LEMMA Alone == ASSUME TalkInv, NEW t \in Threads, NEW c \in Clients, fd[t] = c
               PROVE  \A u \in Threads \ {t} : fd[u] # c
  BY SessionAssumption DEF TalkInv, Apart

LEMMA HasClient == ASSUME TalkInv, NEW t \in Threads, wpc[t] # "idle"
                   PROVE  fd[t] \in Clients
  BY DEF TalkInv, Seat, Types, ThreadTypes

Speaking == {"greet", "read", "answer", "count", "row", "free", "close"}

LEMMA SeatStays ==
  ASSUME TalkInv, NEW t \in Threads, NEW c \in Clients, fd[t] = c, fd'[t] = c,
         wpc'[t] \in Speaking, conn'[c] = conn[c], srvEnd'[c] = srvEnd[c],
         UNCHANGED <<life, cause>>
  PROVE  Seat(t)'
<1>1. Running(t[1]) /\ conn[c] = t[1] /\ srvEnd[c] = "open" /\ wpc[t] # "idle"
  BY Seated
<1>2. life[t[1]] = "exiting" => Excused(t[1])
  BY <1>1, Talkers
<1>3. Excused(t[1])' <=> Excused(t[1])
  BY BlameStays, OfServer
<1> QED BY <1>1, <1>2, <1>3, SessionAssumption DEF Seat, Speaking, Running

(* A step of t that no socket notices.                                      *)
LEMMA TalkInside ==
  ASSUME TalkInv, NEW t \in Threads, NEW c \in Clients, fd[t] = c,
         UNCHANGED <<life, pda, interrupt, clientVars, socketVars, killed, cause, fd>>,
         ServerTypes', ThreadTypes', \A u \in Threads \ {t} : Seen(u)' = Seen(u),
         wpc'[t] \in Speaking, cliEnd[c] = "open" => LinkUp(t, c)',
         cliEnd[c] # "open" => LinkDown(t, c)', Kept(t)',
         \A s \in Servers : memory'[s] = "corrupt" => memory[s] = "corrupt" \/ Blame(s)
  PROVE  TalkInv'
<1>1. Types'
  BY DEF TalkInv, Types, ClientTypes, SocketTypes, clientVars, socketVars
<1>2. \A d \in Clients : Talk(d)' = Talk(d)
  BY DEF Talk, clientVars, socketVars
<1>3. Post(c)'
  BY <1>2, PostFrame DEF TalkInv, Grows
<1>4. conn'[c] = conn[c] /\ srvEnd'[c] = srvEnd[c] /\ cliEnd'[c] = cliEnd[c] /\ fd'[t] = c
  BY DEF clientVars, socketVars
<1>5. Seat(t)'
  BY <1>4, SeatStays
<1>6. Link(t)'
  BY <1>4 DEF Link
<1>7. \A u \in Threads \ {t} : fd[u] # c
  BY Alone
<1> QED BY <1>1, <1>2, <1>3, <1>4, <1>5, <1>6, <1>7, ThreadFrame

(* A message to a client that is there.                                     *)
LEMMA TalkSends ==
  ASSUME TalkInv, NEW t \in Threads, NEW c \in Clients, fd[t] = c, cliEnd[c] = "open",
         NEW m \in ToClient, toCli' = [toCli EXCEPT ![c] = Append(@, m)],
         UNCHANGED <<cliEnd, srvEnd, toSrv, serverVars, clientVars, killed, cause, fd>>,
         ThreadTypes', \A u \in Threads \ {t} : Seen(u)' = Seen(u),
         wpc'[t] \in Speaking, cpc[c] \notin {"new", "ask", "done", "left"},
         Expects(c)', LinkUp(t, c)', Kept(t)',
         Answered(last[c]) => /\ m.is = "count" => m.n = Records(last[c])
                              /\ m.is = "row" => m.of = Current(c)
  PROVE  TalkInv'
<1>1. toCli[c] \in Seq(ToClient)
  BY DEF TalkInv, Types, SocketTypes
<1>2. toCli'[c] = Append(toCli[c], m)
  BY DEF TalkInv, Types, SocketTypes
<1>3. /\ toCli'[c] \in Seq(ToClient) /\ Len(toCli[c]) \in Nat
      /\ Len(toCli'[c]) = Len(toCli[c]) + 1
      /\ \A k \in 1..Len(toCli[c]) : toCli'[c][k] = toCli[c][k]
      /\ toCli'[c][Len(toCli[c]) + 1] = m
  BY <1>1, <1>2, AppendOne
<1>4. Types'
  <2>1. SocketTypes'
    BY <1>2, <1>3 DEF TalkInv, Types, SocketTypes
  <2>2. ServerTypes' /\ ClientTypes'
    BY DEF TalkInv, Types, ServerTypes, ClientTypes, serverVars, clientVars
  <2> QED BY <2>1, <2>2 DEF TalkInv, Types
<1>5. \A d \in Clients \ {c} : Talk(d)' = Talk(d)
  BY DEF Talk, clientVars, TalkInv, Types, SocketTypes
<1>6. conn'[c] = conn[c] /\ srvEnd'[c] = srvEnd[c] /\ cliEnd'[c] = cliEnd[c]
      /\ fd'[t] = c /\ toSrv'[c] = toSrv[c] /\ cpc'[c] = cpc[c] /\ last'[c] = last[c]
      /\ asked'[c] = asked[c]
  BY DEF clientVars
<1>7. Post(c) /\ srvEnd[c] = "open"
  BY Seated DEF TalkInv
<1>8. Post(c)'
  <2>1. Sides(c)'
    BY <1>6, <1>7 DEF Post, Sides
  <2>2. Heard(c)'
    BY <1>6, <1>7 DEF Post, Heard, Marked
  <2>3. Own(c)'
    <3>1. Current(c)' = Current(c)
      BY <1>6 DEF Current
    <3> SUFFICES ASSUME Answered(last'[c]), NEW i \in 1..Len(toCli'[c])
                 PROVE  /\ toCli'[c][i].is = "count" => toCli'[c][i].n = Records(last'[c])
                        /\ toCli'[c][i].is = "row" => toCli'[c][i].of = Current(c)'
      BY DEF Own
    <3>2. CASE i \in 1..Len(toCli[c])
      BY <1>3, <1>6, <1>7, <3>1, <3>2 DEF Post, Own
    <3>3. CASE i = Len(toCli[c]) + 1
      BY <1>3, <1>6, <3>1, <3>3
    <3> QED BY <1>3, <3>2, <3>3
  <2> QED BY <2>1, <2>2, <2>3 DEF Post
<1>9. Seat(t)'
  BY <1>6, SeatStays DEF serverVars
<1>10. Link(t)'
  BY <1>6 DEF Link
<1>11. \A u \in Threads \ {t} : fd[u] # c
  BY Alone
<1> QED BY <1>4, <1>5, <1>6, <1>8, <1>9, <1>10, <1>11, ThreadFrame DEF serverVars

(* A message, or a failed write, to a client that has gone.                 *)
LEMMA TalkLost ==
  ASSUME TalkInv, NEW t \in Threads, NEW c \in Clients, fd[t] = c, cliEnd[c] # "open",
         wpc[t] \in {"greet", "count", "row"}, NEW how \in {"finw", "rstseen"},
         cliEnd' = [cliEnd EXCEPT ![c] = how],
         UNCHANGED <<toCli, srvEnd, toSrv, serverVars, clientVars, killed, cause, fd>>,
         ThreadTypes', \A u \in Threads \ {t} : Seen(u)' = Seen(u),
         wpc'[t] \in Speaking, Kept(t)'
  PROVE  TalkInv'
<1>1. Types'
  <2>1. SocketTypes'
    BY DEF TalkInv, Types, SocketTypes
  <2>2. ServerTypes' /\ ClientTypes'
    BY DEF TalkInv, Types, ServerTypes, ClientTypes, serverVars, clientVars
  <2> QED BY <2>1, <2>2 DEF TalkInv, Types
<1>2. \A d \in Clients \ {c} : Talk(d)' = Talk(d)
  BY DEF Talk, clientVars, TalkInv, Types, SocketTypes
<1>3. conn'[c] = conn[c] /\ srvEnd'[c] = srvEnd[c] /\ cliEnd'[c] # "open" /\ fd'[t] = c
      /\ cpc'[c] = cpc[c] /\ want'[c] = want[c]
  BY DEF clientVars, TalkInv, Types, SocketTypes
<1>4. Post(c) /\ srvEnd[c] = "open"
  BY Seated DEF TalkInv
<1>5. Post(c)'
  <2>1. Sides(c)'
    BY <1>3, <1>4 DEF Post, Sides
  <2>2. Expects(c)'
    BY <1>3, <1>4 DEF Post, Expects, AllRows, CountFirst
  <2>3. Current(c)' = Current(c)
    BY DEF Current, clientVars
  <2>4. Heard(c)' /\ Own(c)'
    BY <1>4, <2>3 DEF Post, Own, Heard, Marked, clientVars
  <2> QED BY <2>1, <2>2, <2>4 DEF Post
<1>6. Seat(t)'
  BY <1>3, SeatStays DEF serverVars
<1>7. LinkDown(t, c)
  BY Seated
<1>8. "left" \in cause'[t[1]]
  BY <1>7 DEF LinkDown
<1>9. Link(t)'
  BY <1>3, <1>8 DEF Link, LinkDown
<1>10. \A u \in Threads \ {t} : fd[u] # c
  BY Alone
<1> QED BY <1>1, <1>2, <1>3, <1>5, <1>6, <1>9, <1>10, ThreadFrame DEF serverVars

(* A step that moves t on and leaves the other threads where they are.      *)
LEMMA Moves ==
  ASSUME ThreadTypes, NEW t \in Threads, NEW at \in Speaking, wpc' = [wpc EXCEPT ![t] = at],
         UNCHANGED <<fd, query, records, num>>,
         NEW n \in 0..rSize, sent' = [sent EXCEPT ![t] = n]
  PROVE  /\ ThreadTypes' /\ wpc'[t] = at /\ sent'[t] = n
         /\ \A u \in Threads \ {t} : Seen(u)' = Seen(u)
<1>1. ThreadTypes'
  BY DEF ThreadTypes, Speaking
<1>2. wpc'[t] = at /\ sent'[t] = n
  BY DEF ThreadTypes
<1>3. \A u \in Threads \ {t} : Seen(u)' = Seen(u)
  BY DEF ThreadTypes, Seen
<1> QED BY <1>1, <1>2, <1>3

LEMMA ReadyIsNoAnswer == Ready.is = "ready" /\ ~CountFirst(<<Ready>>) /\ <<Ready>> # <<>>
  BY OneMessage DEF Ready, CountFirst

LEMMA TalkGreet == ASSUME TalkInv, NEW t \in Threads, Greet(t) PROVE TalkInv'
<1>1. /\ wpc[t] = "greet" /\ wpc' = [wpc EXCEPT ![t] = "read"] /\ Deliver(fd[t], Ready)
      /\ UNCHANGED <<serverVars, clientVars, fd, query, records, num, sent, killed, cause>>
  BY DEF Greet, AtPc, Goes, Ready
<1>2. PICK c \in Clients : fd[t] = c
  BY <1>1, HasClient
<1>3. sent[t] = 0 /\ sent' = [sent EXCEPT ![t] = 0] /\ Kept(t) /\ 0 \in 0..rSize
  BY <1>1, SessionAssumption DEF TalkInv, Kept, Types, ThreadTypes
<1>4. /\ ThreadTypes' /\ wpc'[t] = "read" /\ sent'[t] = 0
      /\ \A u \in Threads \ {t} : Seen(u)' = Seen(u)
  BY <1>1, <1>3, Moves DEF Speaking, TalkInv, Types
<1>5. Kept(t)'
  BY <1>1, <1>3, <1>4 DEF Kept
<1>6. CASE cliEnd[c] = "open"
  <2>1. LinkUp(t, c)
    BY <1>2, <1>6, Seated
  <2>2. cpc[c] = "hello" /\ toCli[c] = <<>> /\ toSrv[c] = <<>>
    BY <1>1, <2>1 DEF LinkUp
  <2>3. toCli' = [toCli EXCEPT ![c] = Append(@, Ready)]
        /\ UNCHANGED <<cliEnd, srvEnd, toSrv>>
    BY <1>1, <1>2, <1>6 DEF Deliver
  <2>4. Append(<<>>, Ready) = <<Ready>>
    OBVIOUS
  <2>5. toCli'[c] = <<Ready>> /\ cpc'[c] = "hello" /\ toSrv'[c] = <<>>
    BY <1>1, <2>2, <2>3, <2>4 DEF TalkInv, Types, SocketTypes, clientVars
  <2>6. Expects(c)'
    BY <2>5 DEF Expects
  <2>7. LinkUp(t, c)'
    BY <1>4, <2>5 DEF LinkUp
  <2> QED BY <1>1, <1>2, <1>4, <1>5, <1>6, <2>2, <2>3, <2>6, <2>7, QueryTypes, ReadyIsNoAnswer,
             TalkSends DEF Speaking
<1>7. CASE cliEnd[c] # "open"
  <2>1. cliEnd' = [cliEnd EXCEPT ![c] = "finw"] /\ UNCHANGED <<toCli, srvEnd, toSrv>>
    BY <1>1, <1>2, <1>7 DEF Deliver
  <2> QED BY <1>1, <1>2, <1>4, <1>5, <1>7, <2>1, TalkLost DEF Speaking
<1> QED BY <1>6, <1>7

LEMMA TalkWriteCount == ASSUME TalkInv, NEW t \in Threads, WriteCount(t) PROVE TalkInv'
<1>1. /\ wpc[t] = "count"
      /\ UNCHANGED <<serverVars, clientVars, fd, query, records, num, sent, killed, cause>>
  BY DEF WriteCount, AtPc
<1>2. PICK c \in Clients : fd[t] = c
  BY <1>1, HasClient
<1>3. sent[t] = 0 /\ sent' = [sent EXCEPT ![t] = 0] /\ Kept(t) /\ 0 \in 0..rSize
  BY <1>1, SessionAssumption DEF TalkInv, Kept, Types, ThreadTypes
<1>4. num[t] \in 0..rSize /\ num[t] \in Nat
  BY SessionAssumption DEF TalkInv, Types, ThreadTypes
<1>5. Kept(t)
  BY DEF TalkInv
<1>6. ASSUME NEW at \in {"close", "row", "free"}, Goes(t, at),
             at = "row" => records[t].at # "null"
      PROVE  /\ ThreadTypes' /\ wpc'[t] = at /\ sent'[t] = 0 /\ at \in Speaking
             /\ \A u \in Threads \ {t} : Seen(u)' = Seen(u)
             /\ Kept(t)'
  <2>1. /\ ThreadTypes' /\ wpc'[t] = at /\ sent'[t] = 0 /\ at \in Speaking
        /\ \A u \in Threads \ {t} : Seen(u)' = Seen(u)
    BY <1>1, <1>3, <1>6, Moves DEF Goes, Speaking, TalkInv, Types
  <2>2. Blame(t[1])' <=> Blame(t[1])
    BY <1>1, BlameStays, OfServer
  <2>3. Kept(t)'
    BY <1>1, <1>4, <1>5, <1>6, <2>1, <2>2 DEF Kept, Marked
  <2> QED BY <2>1, <2>3
<1> DEFINE m  == [is |-> "count", n |-> num[t]]
           at == IF interrupt[t[1]] THEN "close" ELSE IF records[t].at # "null" THEN "row" ELSE "free"
<1>7. CASE Deliver(fd[t], m) /\ Goes(t, at)
  <2>1. /\ ThreadTypes' /\ wpc'[t] = at /\ sent'[t] = 0 /\ at \in Speaking
        /\ \A u \in Threads \ {t} : Seen(u)' = Seen(u)
        /\ Kept(t)'
    BY <1>6, <1>7
  <2>2. CASE cliEnd[c] = "open"
    <3>1. LinkUp(t, c)
      BY <1>2, <2>2, Seated
    <3>2. cpc[c] = "count" /\ toCli[c] = <<>> /\ toSrv[c] = <<>> /\ query[t] = Current(c)
      BY <1>1, <3>1 DEF LinkUp
    <3>3. toCli' = [toCli EXCEPT ![c] = Append(@, m)] /\ UNCHANGED <<cliEnd, srvEnd, toSrv>>
      BY <1>2, <1>7, <2>2 DEF Deliver
    <3>4. m \in ToClient /\ m.is = "count" /\ m.n = num[t]
      BY <1>4 DEF ToClient
    <3> HIDE DEF m
    <3>5. Append(<<>>, m) = <<m>>
      OBVIOUS
    <3>6. toCli'[c] = <<m>> /\ cpc'[c] = "count" /\ toSrv'[c] = <<>>
      BY <1>1, <3>2, <3>3, <3>5 DEF TalkInv, Types, SocketTypes, clientVars
    <3>7. CountFirst(<<m>>)
      <4>1. Len(<<m>>) = 1 /\ <<m>>[1] = m /\ <<m>> # <<>>
        BY OneMessage
      <4>2. 1 <= m.n + 1
        BY <1>4, <3>4
      <4> QED BY <3>4, <4>1, <4>2 DEF CountFirst
    <3>8. Expects(c)'
      BY <3>6, <3>7 DEF Expects, CountFirst
    <3>9. Coming(c, num[t])'
      <4>1. Len(<<m>>) = 1 /\ <<m>>[1] = m /\ <<m>> # <<>> /\ num' = num
        BY <1>1, OneMessage
      <4>2. 1 + num[t] = m.n + 1
        BY <1>4, <3>4
      <4> QED BY <3>6, <4>1, <4>2 DEF Coming
    <3>10. wpc'[t] = "row" => Coming(c, num[t] - sent[t])'
      <4>1. num'[t] - sent'[t] = num[t] /\ num' = num
        BY <1>1, <1>4, <2>1
      <4> QED BY <3>9, <4>1 DEF Coming
    <3>11. wpc'[t] = "free" => Rest(t, c)'
      <4>1. wpc'[t] = "free" => num'[t] = 0
        BY <1>1, <1>5, <2>1 DEF Kept
      <4>2. wpc'[t] = "free" => Coming(c, 0)'
        BY <3>9, <4>1 DEF Coming
      <4> QED BY <3>6, <4>2 DEF Rest
    <3>12. Current(c)' = Current(c) /\ query' = query
      BY <1>1 DEF Current, clientVars
    <3>13. LinkUp(t, c)'
      BY <2>1, <3>2, <3>6, <3>10, <3>11, <3>12 DEF LinkUp
    <3>14. Answered(last[c]) => m.n = Records(last[c])
      <4>1. query[t].q = last[c]
        BY <3>2 DEF Current
      <4> QED BY <1>1, <1>5, <3>4, <4>1 DEF Kept
    <3> QED BY <1>1, <1>2, <2>1, <2>2, <3>2, <3>3, <3>4, <3>8, <3>13, <3>14, TalkSends
  <2>3. CASE cliEnd[c] # "open"
    <3>1. cliEnd' = [cliEnd EXCEPT ![c] = "finw"] /\ UNCHANGED <<toCli, srvEnd, toSrv>>
      BY <1>2, <1>7, <2>3 DEF Deliver
    <3> QED BY <1>1, <1>2, <2>1, <2>3, <3>1, TalkLost
  <2> QED BY <2>2, <2>3
<1>8. CASE WriteFails(fd[t]) /\ Goes(t, "close")
  <2>1. /\ cliEnd[c] # "open" /\ cliEnd' = [cliEnd EXCEPT ![c] = "rstseen"]
        /\ UNCHANGED <<toCli, srvEnd, toSrv>>
    BY <1>2, <1>8 DEF WriteFails
  <2>2. /\ ThreadTypes' /\ wpc'[t] \in Speaking
        /\ \A u \in Threads \ {t} : Seen(u)' = Seen(u)
        /\ Kept(t)'
    BY <1>6, <1>8
  <2> QED BY <1>1, <1>2, <2>1, <2>2, TalkLost
<1> QED BY <1>7, <1>8 DEF WriteCount

(* A row after what is on the way, when k rows have still to come.          *)
LEMMA OneMoreRow ==
  ASSUME TalkInv, NEW c \in Clients, NEW k \in Nat, k >= 1, Coming(c, k),
         NEW m \in ToClient, m.is = "row", toCli'[c] = Append(toCli[c], m),
         cpc'[c] = cpc[c], want'[c] = want[c]
  PROVE  Expects(c)' /\ Coming(c, k - 1)'
<1>1. toCli[c] \in Seq(ToClient) /\ Expects(c) /\ want[c] \in Nat
  BY SessionAssumption DEF TalkInv, Types, SocketTypes, ClientTypes, Post
<1>2. /\ Len(toCli[c]) \in Nat /\ Len(toCli'[c]) = Len(toCli[c]) + 1 /\ toCli'[c] # <<>>
      /\ \A i \in 1..Len(toCli[c]) : toCli'[c][i] = toCli[c][i]
      /\ toCli'[c][Len(toCli[c]) + 1] = m
  BY <1>1, AppendOne
<1>3. CASE cpc[c] = "rows"
  <2>1. Len(toCli[c]) + k = want[c]
    BY <1>3 DEF Coming
  <2>2. Len(toCli'[c]) + (k - 1) = want[c] /\ Len(toCli'[c]) <= want[c] /\ want[c] > 0
    BY <1>1, <1>2, <2>1
  <2>3. AllRows(toCli[c])'
    <3>1. AllRows(toCli[c])
      BY <1>1, <1>3 DEF Expects
    <3>2. \A i \in 1..Len(toCli'[c]) : i \in 1..Len(toCli[c]) \/ i = Len(toCli[c]) + 1
      BY <1>2
    <3> QED BY <1>2, <3>1, <3>2 DEF AllRows
  <2> QED BY <1>3, <2>2, <2>3 DEF Expects, Coming
<1>4. CASE cpc[c] = "count"
  <2>1. toCli[c] # <<>> /\ Len(toCli[c]) + k = toCli[c][1].n + 1
    BY <1>4 DEF Coming
  <2>2. CountFirst(toCli[c])
    BY <1>1, <1>4, <2>1 DEF Expects
  <2>3. 1 \in 1..Len(toCli[c]) /\ toCli[c][1] \in ToClient
    BY <1>1, <2>1, FirstMessage
  <2>4. toCli[c][1].n \in Nat
    BY <2>2, <2>3, SessionAssumption DEF CountFirst, ToClient
  <2>5. toCli'[c][1] = toCli[c][1]
    BY <1>2, <2>3
  <2>6. Len(toCli'[c]) + (k - 1) = toCli[c][1].n + 1 /\ Len(toCli'[c]) <= toCli[c][1].n + 1
    BY <1>2, <2>1, <2>4
  <2>7. CountFirst(toCli[c])'
    <3>1. \A i \in 2..Len(toCli'[c]) : i \in 2..Len(toCli[c]) \/ i = Len(toCli[c]) + 1
      BY <1>2
    <3>2. \A i \in 2..Len(toCli'[c]) : toCli'[c][i].is = "row"
      BY <1>2, <2>2, <3>1 DEF CountFirst
    <3> QED BY <1>2, <2>2, <2>5, <2>6, <3>2 DEF CountFirst
  <2>8. Expects(c)'
    BY <1>4, <2>7 DEF Expects
  <2>9. Coming(c, k - 1)'
    BY <1>2, <1>4, <2>5, <2>6 DEF Coming
  <2> QED BY <2>8, <2>9
<1> QED BY <1>3, <1>4 DEF Coming

LEMMA TalkWriteRow == ASSUME TalkInv, NEW t \in Threads, WriteRow(t) PROVE TalkInv'
<1>1. /\ wpc[t] = "row"
      /\ UNCHANGED <<serverVars, clientVars, fd, query, records, num, killed, cause>>
  BY DEF WriteRow, AtPc
<1>2. PICK c \in Clients : fd[t] = c
  BY <1>1, HasClient
<1>3. Kept(t) /\ sent[t] < num[t] /\ records[t].at # "null"
  BY <1>1 DEF TalkInv, Kept
<1>4. num[t] \in Nat /\ sent[t] \in Nat /\ num[t] <= rSize /\ rSize \in Nat
  BY SessionAssumption DEF TalkInv, Types, ThreadTypes
<1>5. ASSUME NEW at \in {"row", "free"}, NEW n \in Nat, wpc' = [wpc EXCEPT ![t] = at],
             sent' = [sent EXCEPT ![t] = n], n < num[t], at = "free" => n = 0
      PROVE  /\ ThreadTypes' /\ wpc'[t] = at /\ sent'[t] = n /\ at \in Speaking
             /\ \A u \in Threads \ {t} : Seen(u)' = Seen(u)
             /\ Kept(t)'
  <2>1. n \in 0..rSize
    BY <1>4, <1>5
  <2>2. /\ ThreadTypes' /\ wpc'[t] = at /\ sent'[t] = n /\ at \in Speaking
        /\ \A u \in Threads \ {t} : Seen(u)' = Seen(u)
    BY <1>1, <1>5, <2>1, Moves DEF Speaking, TalkInv, Types
  <2>3. Blame(t[1])' <=> Blame(t[1])
    BY <1>1, BlameStays, OfServer
  <2>4. Kept(t)'
    BY <1>1, <1>3, <1>5, <2>2, <2>3 DEF Kept, Marked
  <2> QED BY <2>2, <2>4
<1> DEFINE m == [is |-> "row", of |-> IF records[t].at = "freed" THEN None ELSE records[t].of]
<1>6. ASSUME Deliver(fd[t], m), NEW at \in {"row", "free"}, NEW n \in Nat,
             wpc' = [wpc EXCEPT ![t] = at], sent' = [sent EXCEPT ![t] = n],
             \/ at = "free" /\ n = 0 /\ sent[t] + 1 = num[t]
             \/ at = "row" /\ n = sent[t] + 1 /\ n # num[t]
      PROVE  TalkInv'
  <2>1. n < num[t]
    BY <1>3, <1>4, <1>6
  <2>2. /\ ThreadTypes' /\ wpc'[t] = at /\ sent'[t] = n /\ at \in Speaking
        /\ \A u \in Threads \ {t} : Seen(u)' = Seen(u)
        /\ Kept(t)'
    BY <1>5, <1>6, <2>1
  <2>3. CASE cliEnd[c] = "open"
    <3>1. LinkUp(t, c)
      BY <1>2, <2>3, Seated
    <3>2. PICK k : k = num[t] - sent[t]
      OBVIOUS
    <3>3. k \in Nat /\ k >= 1
      BY <1>3, <1>4, <3>2
    <3>4. Coming(c, k) /\ toSrv[c] = <<>> /\ query[t] = Current(c)
      BY <1>1, <3>1, <3>2 DEF LinkUp
    <3>5. toCli' = [toCli EXCEPT ![c] = Append(@, m)] /\ UNCHANGED <<cliEnd, srvEnd, toSrv>>
      BY <1>2, <1>6, <2>3 DEF Deliver
    <3>6. m \in ToClient /\ m.is = "row"
      <4>1. records[t].of \in QuerySet
        BY DEF TalkInv, Types, ThreadTypes
      <4> QED BY <4>1, QueryTypes DEF ToClient
    <3>7. Answered(last[c]) => m.of = Current(c)
      <4>1. query[t].q = last[c]
        BY <3>4 DEF Current
      <4> QED BY <1>1, <1>3, <3>4, <4>1 DEF Kept
    <3> HIDE DEF m
    <3>8. toCli'[c] = Append(toCli[c], m)
      BY <3>5 DEF TalkInv, Types, SocketTypes
    <3>9. cpc'[c] = cpc[c] /\ want'[c] = want[c] /\ toSrv'[c] = toSrv[c]
          /\ cpc[c] \in {"count", "rows"}
      BY <1>1, <3>4, <3>5 DEF clientVars, Coming
    <3>10. Expects(c)' /\ Coming(c, k - 1)'
      BY <3>3, <3>4, <3>6, <3>8, <3>9, OneMoreRow
    <3>11. wpc'[t] = "row" => Coming(c, num[t] - sent[t])'
      <4>1. wpc'[t] = "row" => num'[t] - sent'[t] = k - 1
        BY <1>1, <1>4, <1>6, <2>2, <3>2
      <4> QED BY <3>10, <4>1 DEF Coming
    <3>12. wpc'[t] = "free" => Rest(t, c)'
      <4>1. wpc'[t] = "free" => k - 1 = 0
        BY <1>4, <1>6, <2>2, <3>2
      <4>2. wpc'[t] = "free" => Coming(c, 0)'
        BY <3>10, <4>1 DEF Coming
      <4> QED BY <3>4, <3>9, <4>2 DEF Rest
    <3>13. Current(c)' = Current(c) /\ query' = query
      BY <1>1 DEF Current, clientVars
    <3>14. LinkUp(t, c)'
      BY <1>6, <2>2, <3>4, <3>9, <3>11, <3>12, <3>13 DEF LinkUp
    <3> QED BY <1>1, <1>2, <2>2, <2>3, <3>5, <3>6, <3>7, <3>9, <3>10, <3>14, TalkSends
  <2>4. CASE cliEnd[c] # "open"
    <3>1. cliEnd' = [cliEnd EXCEPT ![c] = "finw"] /\ UNCHANGED <<toCli, srvEnd, toSrv>>
      BY <1>2, <1>6, <2>4 DEF Deliver
    <3> QED BY <1>1, <1>2, <2>2, <2>4, <3>1, TalkLost
  <2> QED BY <2>3, <2>4
<1>7. CASE WriteFails(fd[t]) /\ Goes(t, "free") /\ sent' = [sent EXCEPT ![t] = 0]
  <2>1. /\ cliEnd[c] # "open" /\ cliEnd' = [cliEnd EXCEPT ![c] = "rstseen"]
        /\ UNCHANGED <<toCli, srvEnd, toSrv>>
    BY <1>2, <1>7 DEF WriteFails
  <2>2. 0 < num[t] /\ 0 \in Nat
    BY <1>3, <1>4
  <2>3. /\ ThreadTypes' /\ wpc'[t] \in Speaking
        /\ \A u \in Threads \ {t} : Seen(u)' = Seen(u)
        /\ Kept(t)'
    BY <1>5, <1>7, <2>2 DEF Goes
  <2> QED BY <1>1, <1>2, <2>1, <2>3, TalkLost
<1>8. CASE /\ Deliver(fd[t], m)
           /\ IF LastRow(t)
                THEN Goes(t, "free") /\ sent' = [sent EXCEPT ![t] = 0]
                ELSE sent' = [sent EXCEPT ![t] = @ + 1] /\ UNCHANGED wpc
  <2>1. CASE LastRow(t)
    <3>1. sent[t] + 1 = num[t] /\ 0 \in Nat
      BY <2>1 DEF LastRow
    <3> HIDE DEF m
    <3> QED BY <1>6, <1>8, <2>1, <3>1 DEF Goes
  <2>2. CASE ~LastRow(t)
    <3>1. sent[t] + 1 # num[t] /\ sent[t] + 1 \in Nat
      BY <1>4, <2>2 DEF LastRow
    <3>2. wpc' = [wpc EXCEPT ![t] = "row"] /\ sent' = [sent EXCEPT ![t] = sent[t] + 1]
      BY <1>1, <1>8, <2>2 DEF TalkInv, Types, ThreadTypes
    <3> HIDE DEF m
    <3> QED BY <1>6, <1>8, <3>1, <3>2
  <2> QED BY <2>1, <2>2
<1> QED BY <1>7, <1>8 DEF WriteRow

LEMMA TalkReadQuery == ASSUME TalkInv, NEW t \in Threads, ReadQuery(t) PROVE TalkInv'
<1>1. /\ wpc[t] = "read"
      /\ UNCHANGED <<serverVars, clientVars, fd, records, num, sent, srvEnd, cliEnd, toCli,
                     killed, cause>>
  BY DEF ReadQuery, AtPc
<1>2. PICK c \in Clients : fd[t] = c
  BY <1>1, HasClient
<1>3. Kept(t) /\ sent[t] = 0 /\ Post(c)
  BY <1>1 DEF TalkInv, Kept
<1>4. toSrv[c] \in Seq(ToServer)
  BY DEF TalkInv, Types, SocketTypes
<1>5. conn[c] = t[1] /\ srvEnd[c] = "open"
  BY <1>2, Seated
<1>6. /\ cliEnd[c] = "open" => LinkUp(t, c)
      /\ cliEnd[c] # "open" => LinkDown(t, c)
  BY <1>2, Seated
(* What t has read, and what is left on the way: the three ways to read.    *)
<1>7. ASSUME NEW at \in {"close", "answer"}, wpc' = [wpc EXCEPT ![t] = at],
             NEW q \in QuerySet, query' = [query EXCEPT ![t] = q],
             NEW s \in Seq(ToServer), toSrv' = [toSrv EXCEPT ![c] = s],
             \A k \in 1..Len(s) : \E i \in 1..Len(toSrv[c]) : s[k] = toSrv[c][i],
             cliEnd[c] = "open" /\ at = "answer" =>
               cpc[c] = "count" /\ toCli[c] = <<>> /\ s = <<>> /\ q = Current(c),
             cliEnd[c] # "open" => "left" \in cause[t[1]] \/ (at = "close" /\ cliEnd[c] = "fin"),
             at = "answer" => /\ Marked(q.q, t[1])
                              /\ Answered(q.q) \/ records[t].at = "null" \/ Blame(t[1])
      PROVE  TalkInv'
  <2>1. ThreadTypes'
    BY <1>1, <1>7 DEF TalkInv, Types, ThreadTypes
  <2>2. SocketTypes'
    BY <1>1, <1>7 DEF TalkInv, Types, SocketTypes
  <2>3. Types'
    BY <1>1, <2>1, <2>2 DEF TalkInv, Types, ServerTypes, ClientTypes, serverVars, clientVars
  <2>4. wpc'[t] = at /\ query'[t] = q /\ toSrv'[c] = s /\ fd'[t] = c
    BY <1>1, <1>2, <1>7 DEF TalkInv, Types, ThreadTypes, SocketTypes
  <2>5. \A u \in Threads \ {t} : Seen(u)' = Seen(u) /\ fd[u] # c
    <3>1. \A u \in Threads \ {t} : fd[u] # c
      BY <1>2, Alone
    <3> QED BY <1>1, <1>7, <3>1 DEF Seen, TalkInv, Types, ThreadTypes
  <2>6. \A d \in Clients \ {c} : Talk(d)' = Talk(d)
    BY <1>1, <1>7 DEF Talk, clientVars, TalkInv, Types, SocketTypes
  <2>7. Post(c)'
    <3>1. Expects(c)'
      BY <1>1, <1>3 DEF Post, Expects, AllRows, CountFirst, clientVars
    <3>2. Sides(c)'
      BY <1>1, <1>3, <1>5 DEF Post, Sides, clientVars
    <3>3. Current(c)' = Current(c)
      BY <1>1 DEF Current, clientVars
    <3>4. Own(c)'
      BY <1>1, <1>3, <3>3 DEF Post, Own, clientVars
    <3>5. Heard(c)'
      <4> SUFFICES ASSUME NEW k \in 1..Len(s) PROVE Marked(s[k].q, conn[c])'
        BY <2>4 DEF Heard
      <4>1. PICK i \in 1..Len(toSrv[c]) : s[k] = toSrv[c][i]
        BY <1>7
      <4>2. Marked(s[k].q, conn[c])
        BY <1>3, <4>1 DEF Post, Heard
      <4> QED BY <1>1, <4>2 DEF Marked, clientVars
    <3> QED BY <3>1, <3>2, <3>4, <3>5 DEF Post
  <2>8. Seat(t)'
    BY <1>1, <1>2, <1>7, <2>4, SeatStays DEF Speaking, serverVars, clientVars
  <2>9. Link(t)'
    <3>1. Current(c)' = Current(c)
      BY <1>1 DEF Current, clientVars
    <3>2. cliEnd[c] = "open" => LinkUp(t, c)'
      BY <1>1, <1>7, <2>4, <3>1 DEF LinkUp, clientVars
    <3>3. cliEnd[c] # "open" => LinkDown(t, c)'
      BY <1>1, <1>7, <2>4 DEF LinkDown
    <3> QED BY <1>1, <2>4, <3>2, <3>3 DEF Link
  <2>10. Kept(t)'
    <3>1. Blame(t[1])' <=> Blame(t[1])
      BY <1>1, BlameStays, OfServer
    <3> QED BY <1>1, <1>3, <1>7, <2>4, <3>1 DEF Kept, Marked
  <2> QED BY <1>1, <2>3, <2>4, <2>5, <2>6, <2>7, <2>8, <2>9, <2>10, ThreadFrame DEF serverVars
<1>8. CASE toSrv[c] # <<>>
  <2>1. /\ Head(toSrv[c]) = toSrv[c][1] /\ toSrv[c][1] \in ToServer
        /\ Tail(toSrv[c]) \in Seq(ToServer) /\ Len(toSrv[c]) \in Nat /\ Len(toSrv[c]) > 0
        /\ Len(Tail(toSrv[c])) = Len(toSrv[c]) - 1
        /\ \A k \in 1..Len(Tail(toSrv[c])) : Tail(toSrv[c])[k] = toSrv[c][k + 1]
    BY <1>4, <1>8, FirstMessage
  <2>2. \A k \in 1..Len(Tail(toSrv[c])) : \E i \in 1..Len(toSrv[c]) : Tail(toSrv[c])[k] = toSrv[c][i]
    <3> TAKE k \in 1..Len(Tail(toSrv[c]))
    <3>1. k + 1 \in 1..Len(toSrv[c])
      BY <2>1
    <3> QED BY <2>1, <3>1
  <2>3. toSrv' = [toSrv EXCEPT ![c] = Tail(toSrv[c])]
    BY <1>2, <1>8 DEF ReadQuery, TalkInv, Types, SocketTypes
  <2>4. 1 \in 1..Len(toSrv[c])
    BY <2>1
  <2>5. CASE IsEnd(Head(toSrv[c]))
    <3>1. wpc' = [wpc EXCEPT ![t] = "close"] /\ query' = [query EXCEPT ![t] = query[t]]
          /\ query[t] \in QuerySet
      BY <1>2, <1>8, <2>5 DEF ReadQuery, Goes, TalkInv, Types, ThreadTypes
    <3>2. cliEnd[c] # "open" => "left" \in cause[t[1]] \/ cliEnd[c] = "fin"
      BY <1>1, <1>6 DEF LinkDown
    <3> QED BY <1>7, <2>1, <2>2, <2>3, <3>1, <3>2
  <2>6. CASE ~IsEnd(Head(toSrv[c]))
    <3> DEFINE q == toSrv[c][1]
    <3>1. wpc' = [wpc EXCEPT ![t] = "answer"] /\ query' = [query EXCEPT ![t] = q]
      BY <1>2, <1>8, <2>1, <2>6 DEF ReadQuery, Goes
    <3>2. q \in QuerySet /\ q.q # "DONE"
      BY <2>1, <2>6, QueryTypes DEF IsEnd
    <3>3. ASSUME cliEnd[c] = "open"
          PROVE  /\ cpc[c] = "count" /\ toCli[c] = <<>> /\ toSrv[c] = <<Current(c)>>
                 /\ Answered(last[c]) \/ records[t].at = "null" \/ Blame(t[1])
      <4>1. Rest(t, c)
        BY <1>1, <1>6, <1>8, <3>3 DEF LinkUp
      <4> QED BY <1>8, <4>1 DEF Rest
    <3>4. cliEnd[c] = "open" => Tail(toSrv[c]) = <<>> /\ q = Current(c)
      BY <3>3, OneMessage
    <3>5. cliEnd[c] # "open" => "left" \in cause[t[1]]
      <4>1. toSrv[c] # <<Done>>
        BY <3>2, OneMessage, QueryTypes
      <4> QED BY <1>1, <1>6, <4>1 DEF LinkDown
    <3>6. Marked(q.q, t[1])
      BY <1>3, <1>5, <2>4 DEF Post, Heard
    <3>7. ~Answered(q.q) => records[t].at = "null" \/ Blame(t[1])
      <4>1. cliEnd[c] = "open" => q.q = last[c]
        BY <3>4 DEF Current
      <4> QED BY <3>3, <3>5, <4>1 DEF Blame, Excused
    <3> HIDE DEF q
    <3> QED BY <1>7, <2>1, <2>2, <2>3, <3>1, <3>2, <3>3, <3>4, <3>5, <3>6, <3>7
  <2> QED BY <2>5, <2>6
<1>9. CASE toSrv[c] = <<>>
  <2>1. /\ ReadsNothing(c) /\ wpc' = [wpc EXCEPT ![t] = "answer"]
        /\ query' = [query EXCEPT ![t] = None] /\ toSrv' = [toSrv EXCEPT ![c] = <<>>]
    BY <1>2, <1>9 DEF ReadQuery, Goes, TalkInv, Types, SocketTypes
  <2>2. cliEnd[c] # "open" /\ "left" \in cause[t[1]]
    <3>1. cliEnd[c] # "open"
      BY <2>1 DEF ReadsNothing
    <3>2. toSrv[c] # <<Done>>
      BY <1>9, OneMessage
    <3> QED BY <1>1, <1>6, <3>1, <3>2 DEF LinkDown
  <2>3. Marked(None.q, t[1]) /\ Blame(t[1])
    BY <2>2 DEF Marked, Answered, None, Empty, Blame, Excused
  <2>4. <<>> \in Seq(ToServer) /\ \A k \in 1..Len(<<>>) : FALSE
    OBVIOUS
  <2> QED BY <1>7, <2>1, <2>2, <2>3, <2>4, QueryTypes
<1> QED BY <1>8, <1>9

(* A thread has an answer: n records in r, or none.                         *)
LEMMA TalkAnswers ==
  ASSUME TalkInv, NEW t \in Threads, wpc[t] = "answer", wpc' = [wpc EXCEPT ![t] = "count"],
         NEW r \in [at : {"null", "live", "freed"}, of : QuerySet], NEW n \in 0..rSize,
         records' = [records EXCEPT ![t] = r], num' = [num EXCEPT ![t] = n],
         UNCHANGED <<serverVars, clientVars, socketVars, fd, query, sent, killed, cause>>,
         IF r.at = "null" THEN n = 0
         ELSE n > 0 /\ ("answered" \in cause[t[1]] \/ "broken" \in cause[t[1]]),
         Answered(query[t].q) => r = [at |-> "live", of |-> query[t]] /\ n = Records(query[t].q),
         r.at = "freed" => Blame(t[1])
  PROVE  TalkInv'
<1>1. PICK c \in Clients : fd[t] = c
  BY HasClient
<1>2. Kept(t) /\ sent[t] = 0
  BY DEF TalkInv, Kept
<1>3. ThreadTypes'
  BY DEF TalkInv, Types, ThreadTypes
<1>4. ServerTypes'
  BY DEF TalkInv, Types, ServerTypes, serverVars
<1>5. \A u \in Threads \ {t} : Seen(u)' = Seen(u)
  BY DEF Seen, TalkInv, Types, ThreadTypes
<1>6. wpc'[t] = "count" /\ records'[t] = r /\ num'[t] = n
      /\ query'[t] = query[t] /\ sent'[t] = 0 /\ cause' = cause
  BY <1>2 DEF TalkInv, Types, ThreadTypes
<1>7. Current(c)' = Current(c)
  BY DEF Current, clientVars
<1>8. cliEnd[c] = "open" => LinkUp(t, c)'
  <2>1. cliEnd[c] = "open" => LinkUp(t, c)
    BY <1>1, Seated
  <2> QED BY <1>6, <1>7, <2>1 DEF LinkUp, clientVars, socketVars
<1>9. cliEnd[c] # "open" => LinkDown(t, c)'
  <2>1. cliEnd[c] # "open" => LinkDown(t, c)
    BY <1>1, Seated
  <2> QED BY <1>6, <2>1 DEF LinkDown
<1>10. Kept(t)'
  <2>1. Blame(t[1])' <=> Blame(t[1])
    BY BlameStays, OfServer
  <2>2. Marked(query[t].q, t[1])'
    BY <1>2, <1>6 DEF Kept, Marked
  <2> QED BY <1>6, <2>1, <2>2 DEF Kept
<1> QED BY <1>1, <1>3, <1>4, <1>5, <1>6, <1>8, <1>9, <1>10, TalkInside DEF Speaking, serverVars

LEMMA TalkAnswer == ASSUME TalkInv, NEW t \in Threads, Answer(t) PROVE TalkInv'
<1>1. /\ wpc[t] = "answer" /\ wpc' = [wpc EXCEPT ![t] = "count"]
      /\ records' = [records EXCEPT ![t] = RecordsAfter(t)]
      /\ num' = [num EXCEPT ![t] = CountAfter(t)]
      /\ UNCHANGED <<serverVars, clientVars, socketVars, fd, query, sent, killed, cause>>
  BY DEF Answer, AtPc, Goes
<1>2. Kept(t) /\ query[t] \in QuerySet /\ query[t].q \in Queries
      /\ records[t] \in [at : {"null", "live", "freed"}, of : QuerySet] /\ num[t] \in 0..rSize
  BY <1>1 DEF TalkInv, Types, ThreadTypes, QuerySet
<1>3. Records(query[t].q) \in 1..rSize
  BY <1>2, RecordsTypes
<1>4. RecordsAfter(t) \in [at : {"null", "live", "freed"}, of : QuerySet]
  BY <1>2 DEF RecordsAfter
<1>5. CountAfter(t) \in 0..rSize
  BY <1>2, <1>3, SessionAssumption DEF CountAfter
<1>6. CASE Answered(query[t].q)
  <2>1. RecordsAfter(t) = [at |-> "live", of |-> query[t]] /\ CountAfter(t) = Records(query[t].q)
    BY <1>6 DEF RecordsAfter, CountAfter
  <2>2. "answered" \in cause[t[1]] /\ CountAfter(t) > 0
    BY <1>1, <1>2, <1>3, <1>6, <2>1 DEF Kept, Marked
  <2> QED BY <1>1, <1>4, <1>5, <2>1, <2>2, TalkAnswers
<1>7. CASE ~Answered(query[t].q)
  <2>1. RecordsAfter(t) = records[t]
        /\ CountAfter(t) = IF records[t].at = "null" THEN 0 ELSE num[t]
    BY <1>7 DEF RecordsAfter, CountAfter
  <2>2. IF RecordsAfter(t).at = "null" THEN CountAfter(t) = 0
        ELSE CountAfter(t) > 0 /\ ("answered" \in cause[t[1]] \/ "broken" \in cause[t[1]])
    BY <1>2, <2>1 DEF Kept
  <2>3. RecordsAfter(t).at = "freed" => Blame(t[1])
    BY <1>1, <1>2, <1>7, <2>1 DEF Kept
  <2> QED BY <1>1, <1>4, <1>5, <1>7, <2>2, <2>3, TalkAnswers
<1> QED BY <1>6, <1>7

LEMMA TalkAnswerBroken == ASSUME TalkInv, NEW t \in Threads, AnswerBroken(t) PROVE TalkInv'
<1>1. /\ wpc[t] = "answer" /\ wpc' = [wpc EXCEPT ![t] = "count"] /\ query[t].q = "broken"
      /\ UNCHANGED <<serverVars, clientVars, socketVars, fd, query, sent, killed, cause>>
  BY DEF AnswerBroken, AtPc, Goes
<1>2. PICK n \in 0..rSize :
        /\ num' = [num EXCEPT ![t] = n]
        /\ records' = [records EXCEPT ![t] = IF n = 0 THEN Null
                                             ELSE [at |-> "live", of |-> query[t]]]
  BY DEF AnswerBroken
<1>3. "broken" \in cause[t[1]] /\ ~Answered(query[t].q)
  BY <1>1 DEF TalkInv, Kept, Marked, Answered
<1>4. Null \in [at : {"null", "live", "freed"}, of : QuerySet] /\ Null.at = "null"
  BY QueryTypes DEF Null
<1>5. [at |-> "live", of |-> query[t]] \in [at : {"null", "live", "freed"}, of : QuerySet]
  BY DEF TalkInv, Types, ThreadTypes
<1>6. CASE n = 0
  <2>1. records' = [records EXCEPT ![t] = Null]
    BY <1>2, <1>6
  <2> QED BY <1>1, <1>2, <1>3, <1>4, <1>6, <2>1, TalkAnswers
<1>7. CASE n # 0
  <2>1. records' = [records EXCEPT ![t] = [at |-> "live", of |-> query[t]]]
    BY <1>2, <1>7
  <2>2. n > 0
    BY <1>7, SessionAssumption
  <2> QED BY <1>1, <1>2, <1>3, <1>5, <2>1, <2>2, TalkAnswers
<1> QED BY <1>6, <1>7

LEMMA TalkRowOverruns == ASSUME TalkInv, NEW t \in Threads, RowOverruns(t) PROVE TalkInv'
<1>1. /\ wpc[t] = "row" /\ query[t].q = "broken" /\ memory' = [memory EXCEPT ![t[1]] = "corrupt"]
      /\ UNCHANGED <<life, pda, interrupt, threadVars, clientVars, socketVars, killed, cause>>
  BY DEF RowOverruns, AtPc
<1>2. Blame(t[1])
  BY <1>1 DEF TalkInv, Kept, Marked, Blame
<1>3. ServerTypes'
  BY <1>1 DEF TalkInv, Types, ServerTypes
<1>4. ASSUME NEW r \in Servers PROVE Reason(r)'
  <2>1. (Blame(r)' <=> Blame(r)) /\ (Excused(r)' <=> Excused(r))
    BY <1>1, BlameStays
  <2>2. memory'[r] = "corrupt" => Blame(r)
    BY <1>1, <1>2 DEF TalkInv, Types, ServerTypes, Reason
  <2> QED BY <1>1, <2>1, <2>2 DEF TalkInv, Reason
<1>5. ASSUME NEW u \in Threads, wpc[u] # "idle"
      PROVE  Running(u[1])' /\ (life'[u[1]] = "exiting" => Excused(u[1]))
  BY <1>1, <1>5, Talkers DEF Running
<1> QED BY <1>1, <1>3, <1>4, <1>5, ServerFrame

LEMMA TalkFreePath == ASSUME TalkInv, NEW t \in Threads, FreePath(t) PROVE TalkInv'
<1> DEFINE at == IF interrupt[t[1]] THEN "close" ELSE "read"
<1>1. /\ wpc[t] = "free" /\ wpc' = [wpc EXCEPT ![t] = at]
      /\ records' = [records EXCEPT ![t].at = IF @ = "null" THEN "null" ELSE "freed"]
      /\ memory' = IF records[t].at = "freed" THEN [memory EXCEPT ![t[1]] = "corrupt"] ELSE memory
      /\ UNCHANGED <<life, pda, interrupt, clientVars, socketVars, fd, query, num, sent,
                     killed, cause>>
  BY DEF FreePath, AtPc, Goes
<1>2. PICK c \in Clients : fd[t] = c
  BY <1>1, HasClient
<1>3. Kept(t) /\ sent[t] = 0
      /\ records[t] \in [at : {"null", "live", "freed"}, of : QuerySet]
  BY <1>1 DEF TalkInv, Kept, Types, ThreadTypes
<1>4. at \in {"close", "read"}
  OBVIOUS
<1> HIDE DEF at
<1>5. ThreadTypes'
  <2>1. records' \in [Threads -> [at : {"null", "live", "freed"}, of : QuerySet]]
    BY <1>1, <1>3 DEF TalkInv, Types, ThreadTypes
  <2> QED BY <1>1, <1>4, <2>1 DEF TalkInv, Types, ThreadTypes
<1>6. ServerTypes'
  BY <1>1 DEF TalkInv, Types, ServerTypes
<1>7. \A u \in Threads \ {t} : Seen(u)' = Seen(u)
  BY <1>1 DEF Seen, TalkInv, Types, ThreadTypes
<1>8. wpc'[t] = at /\ (records'[t].at = "null" <=> records[t].at = "null")
      /\ num'[t] = num[t] /\ sent'[t] = 0
  BY <1>1, <1>3 DEF TalkInv, Types, ThreadTypes
<1>9. Blame(t[1])' <=> Blame(t[1])
  BY <1>1, BlameStays, OfServer
<1>10. Current(c)' = Current(c)
  BY <1>1 DEF Current, clientVars
<1>11. cliEnd[c] = "open" => LinkUp(t, c)'
  <2>1. cliEnd[c] = "open" => Rest(t, c)
    BY <1>1, <1>2, Seated DEF LinkUp
  <2>2. Coming(c, 0) => Coming(c, 0)'
    BY <1>1 DEF Coming, clientVars, socketVars
  <2>3. cliEnd[c] = "open" => Rest(t, c)'
    BY <1>1, <1>8, <1>9, <1>10, <2>1, <2>2 DEF Rest, clientVars, socketVars
  <2> QED BY <1>4, <1>8, <2>3 DEF LinkUp
<1>12. cliEnd[c] # "open" => LinkDown(t, c)'
  <2>1. cliEnd[c] # "open" => LinkDown(t, c)
    BY <1>2, Seated
  <2> QED BY <1>1, <1>4, <1>8, <2>1 DEF LinkDown, socketVars
<1>13. Kept(t)'
  BY <1>1, <1>3, <1>4, <1>8 DEF Kept
<1>14. ASSUME NEW s \in Servers, memory'[s] = "corrupt" PROVE memory[s] = "corrupt" \/ Blame(s)
  <2>1. records[t].at = "freed" => Blame(t[1])
    BY <1>1, <1>3 DEF Kept
  <2> QED BY <1>1, <1>14, <2>1 DEF TalkInv, Types, ServerTypes
<1>15. wpc'[t] \in Speaking
  BY <1>4, <1>8 DEF Speaking
<1> QED BY <1>1, <1>2, <1>5, <1>6, <1>7, <1>11, <1>12, <1>13, <1>14, <1>15, TalkInside

(* An idle thread takes a connection that waits.                            *)
LEMMA TalkTake == ASSUME TalkInv, NEW t \in Threads, Take(t) PROVE TalkInv'
<1>1. /\ wpc[t] = "idle" /\ Running(t[1]) /\ life[t[1]] = "serving"
      /\ wpc' = [wpc EXCEPT ![t] = "greet"]
      /\ UNCHANGED <<serverVars, clientVars, query, records, num, sent,
                     cliEnd, toSrv, toCli, killed, cause>>
  BY DEF Take, AtPc, Goes
<1>2. PICK c \in Clients : /\ conn[c] = t[1] /\ srvEnd[c] = "waiting"
                           /\ srvEnd' = [srvEnd EXCEPT ![c] = "open"]
                           /\ fd' = [fd EXCEPT ![t] = c]
  BY DEF Take
<1>3. Post(c) /\ Kept(t) /\ sent[t] = 0
  BY <1>1 DEF TalkInv, Kept
<1>4. Types'
  <2>1. ThreadTypes'
    BY <1>1, <1>2 DEF TalkInv, Types, ThreadTypes
  <2>2. SocketTypes'
    BY <1>1, <1>2 DEF TalkInv, Types, SocketTypes
  <2> QED BY <1>1, <2>1, <2>2 DEF TalkInv, Types, ServerTypes, ClientTypes, serverVars, clientVars
<1>5. wpc'[t] = "greet" /\ fd'[t] = c /\ srvEnd'[c] = "open" /\ conn'[c] = t[1]
      /\ cliEnd'[c] = cliEnd[c] /\ toSrv'[c] = toSrv[c] /\ toCli'[c] = toCli[c] /\ cpc'[c] = cpc[c]
  BY <1>1, <1>2 DEF TalkInv, Types, ThreadTypes, SocketTypes, clientVars
<1>6. \A u \in Threads \ {t} : Seen(u)' = Seen(u) /\ fd[u] # c
  <2>1. \A u \in Threads \ {t} : fd[u] # c
    BY <1>2, Seated
  <2> QED BY <1>1, <1>2, <2>1 DEF Seen, TalkInv, Types, ThreadTypes
<1>7. \A d \in Clients \ {c} : Talk(d)' = Talk(d)
  BY <1>1, <1>2 DEF Talk, clientVars, TalkInv, Types, SocketTypes
<1>8. toCli[c] = <<>> /\ toSrv[c] = <<>> /\ (cliEnd[c] = "open" => cpc[c] = "hello")
      /\ (cliEnd[c] # "open" => "left" \in cause[t[1]])
  BY <1>2, <1>3 DEF Post, Sides
<1>9. Post(c)'
  <2>1. Expects(c)'
    BY <1>1, <1>3, <1>5 DEF Post, Expects, AllRows, CountFirst, clientVars
  <2>2. Sides(c)'
    BY <1>1, <1>2, <1>3, <1>5, <1>8 DEF Post, Sides, clientVars
  <2>3. Own(c)' /\ Heard(c)'
    BY <1>5, <1>8 DEF Own, Heard
  <2> QED BY <2>1, <2>2, <2>3 DEF Post
<1>10. Seat(t)'
  BY <1>1, <1>5, SessionAssumption DEF Seat, Running, serverVars
<1>11. Link(t)'
  BY <1>1, <1>5, <1>8 DEF Link, LinkUp, LinkDown
<1>12. Kept(t)'
  <2>1. Blame(t[1])' <=> Blame(t[1])
    BY <1>1, BlameStays, OfServer
  <2> QED BY <1>1, <1>3, <1>5, <2>1 DEF Kept
<1> QED BY <1>1, <1>4, <1>5, <1>6, <1>7, <1>9, <1>10, <1>11, <1>12, ThreadFrame DEF serverVars

LEMMA TalkCloseSession == ASSUME TalkInv, NEW t \in Threads, CloseSession(t) PROVE TalkInv'
<1>1. PICK c \in Clients : fd[t] = c
  BY HasClient DEF CloseSession, AtPc
<1>2. /\ wpc[t] = "close" /\ wpc' = [wpc EXCEPT ![t] = "idle"]
      /\ srvEnd' = [srvEnd EXCEPT ![c] = EndAfterClose(c)]
      /\ toSrv' = [toSrv EXCEPT ![c] = <<>>]
      /\ fd' = [fd EXCEPT ![t] = Nobody] /\ query' = [query EXCEPT ![t] = None]
      /\ UNCHANGED <<serverVars, clientVars, records, num, sent, cliEnd, toCli, killed, cause>>
  BY <1>1 DEF CloseSession, AtPc, Goes
<1>3. Post(c) /\ Kept(t) /\ sent[t] = 0 /\ srvEnd[c] = "open"
  BY <1>1, <1>2, Seated DEF TalkInv, Kept
<1>4. EndAfterClose(c) \in {"reset", "closed"}
  BY DEF EndAfterClose
<1>5. Types'
  <2>1. ThreadTypes'
    BY <1>2, QueryTypes DEF TalkInv, Types, ThreadTypes
  <2>2. <<>> \in Seq(ToServer)
    OBVIOUS
  <2>3. SocketTypes'
    BY <1>2, <1>4, <2>2 DEF TalkInv, Types, SocketTypes
  <2> QED BY <1>2, <2>1, <2>3 DEF TalkInv, Types, ServerTypes, ClientTypes, serverVars, clientVars
<1>6. wpc'[t] = "idle" /\ fd'[t] = Nobody /\ srvEnd'[c] \in {"reset", "closed"} /\ toSrv'[c] = <<>>
  BY <1>2, <1>4 DEF TalkInv, Types, ThreadTypes, SocketTypes
<1>7. \A u \in Threads \ {t} : Seen(u)' = Seen(u) /\ fd[u] # c
  <2>1. \A u \in Threads \ {t} : fd[u] # c
    BY <1>1, Alone
  <2> QED BY <1>2, <2>1 DEF Seen, TalkInv, Types, ThreadTypes
<1>8. \A d \in Clients \ {c} : Talk(d)' = Talk(d)
  BY <1>2 DEF Talk, clientVars, TalkInv, Types, SocketTypes
<1>9. Post(c)'
  <2>1. Expects(c)'
    BY <1>2, <1>3 DEF Post, Expects, AllRows, CountFirst, clientVars
  <2>2. Sides(c)'
    BY <1>2, <1>3, <1>6 DEF Post, Sides, clientVars
  <2>3. Current(c)' = Current(c)
    BY <1>2 DEF Current, clientVars
  <2>4. Own(c)' /\ Heard(c)'
    BY <1>2, <1>3, <1>6, <2>3 DEF Post, Own, Heard, clientVars
  <2> QED BY <2>1, <2>2, <2>4 DEF Post
<1>10. Seat(t)' /\ Link(t)'
  BY <1>6, IdleFrame
<1>11. Kept(t)'
  BY <1>2, <1>3, <1>6 DEF Kept
<1> QED BY <1>2, <1>5, <1>6, <1>7, <1>8, <1>9, <1>10, <1>11, ThreadFrame DEF serverVars

(* x_error in a thread that reads: there is an excuse for it.               *)
LEMMA TalkReadEnds ==
  ASSUME TalkInv, NEW t \in Threads, AtPc(t, "read"), ExitFrom(t),
         cause' \in [Servers -> SUBSET Causes], Grows, Excused(t[1])'
  PROVE  TalkInv'
<1>1. PICK c \in Clients : fd[t] = c
  BY HasClient DEF AtPc
<1>2. /\ wpc[t] = "read" /\ Running(t[1]) /\ t[1] \in Servers
      /\ wpc' = [wpc EXCEPT ![t] = "exits"]
      /\ UNCHANGED <<clientVars, socketVars, fd, query, records, num, sent, killed>>
  BY OfServer DEF ExitFrom, AtPc, Goes
<1>3. /\ life' = [life EXCEPT ![t[1]] = "exiting"] /\ pda' \in Servers \cup {Nobody}
      /\ UNCHANGED <<interrupt, memory>>
  <2>1. CASE life[t[1]] = "serving"
    BY <1>2, <2>1 DEF ExitFrom, ExitServer, NameAfterExit, TalkInv, Types, ServerTypes
  <2>2. CASE life[t[1]] # "serving"
    BY <1>2, <2>2 DEF ExitFrom, serverVars, Running, TalkInv, Types, ServerTypes
  <2> QED BY <2>1, <2>2
<1>4. Types'
  <2>1. ServerTypes'
    BY <1>3 DEF TalkInv, Types, ServerTypes, Lives
  <2>2. ThreadTypes'
    BY <1>2 DEF TalkInv, Types, ThreadTypes
  <2>3. ClientTypes' /\ SocketTypes'
    BY <1>2 DEF TalkInv, Types, ClientTypes, SocketTypes, clientVars, socketVars
  <2> QED BY <2>1, <2>2, <2>3 DEF Types
<1>5. \A d \in Clients : Talk(d)' = Talk(d)
  BY <1>2 DEF Talk, clientVars, socketVars
<1>6. Apart'
  BY <1>2 DEF TalkInv, Apart
<1>7. ASSUME NEW d \in Clients PROVE Post(d)'
  BY <1>5, PostFrame DEF TalkInv
<1>8. ASSUME NEW u \in Threads PROVE Seat(u)'
  <2>1. Seat(u) /\ (Excused(u[1]) => Excused(u[1])')
    BY BlameGrows, OfServer DEF TalkInv
  <2>2. u = t => wpc'[u] = "exits"
    BY <1>2 DEF TalkInv, Types, ThreadTypes
  <2>3. u # t => wpc'[u] = wpc[u]
    BY <1>2 DEF TalkInv, Types, ThreadTypes
  <2>4. u[1] # t[1] => life'[u[1]] = life[u[1]]
    BY <1>3, OfServer DEF TalkInv, Types, ServerTypes
  <2>5. u[1] = t[1] => life'[u[1]] = "exiting" /\ Excused(u[1])'
    BY <1>2, <1>3 DEF TalkInv, Types, ServerTypes
  <2>6. CASE u = t
    BY <1>2, <2>1, <2>2, <2>5, <2>6 DEF Seat, Running, clientVars, socketVars
  <2>7. CASE u # t /\ u[1] = t[1]
    BY <1>2, <2>1, <2>3, <2>5, <2>7 DEF Seat, Running, clientVars, socketVars
  <2>8. CASE u # t /\ u[1] # t[1]
    BY <1>2, <2>1, <2>3, <2>4, <2>8 DEF Seat, Running, clientVars, socketVars
  <2> QED BY <2>6, <2>7, <2>8
<1>9. ASSUME NEW u \in Threads PROVE Link(u)' /\ Kept(u)'
  <2>1. CASE u = t
    <3>1. wpc'[t] = "exits" /\ fd'[t] = c
      BY <1>1, <1>2 DEF TalkInv, Types, ThreadTypes
    <3>2. Link(t)'
      BY <3>1 DEF Link, LinkDown, LinkUp
    <3>3. Kept(t)'
      <4>1. Kept(t)
        BY DEF TalkInv
      <4> QED BY <1>2, <3>1, <4>1 DEF Kept, Grows
    <3> QED BY <2>1, <3>2, <3>3
  <2>2. CASE u # t
    <3>1. Seen(u)' = Seen(u)
      BY <1>2, <2>2 DEF Seen, TalkInv, Types, ThreadTypes
    <3>2. Kept(u)'
      BY <3>1, KeptFrame DEF TalkInv
    <3>3. ASSUME fd[u] = Nobody PROVE Link(u)'
      BY <1>2, <3>3, SessionAssumption DEF Link
    <3>4. ASSUME NEW d \in Clients, fd[u] = d PROVE Link(u)'
      BY <1>5, <3>1, <3>4, LinkFrame DEF TalkInv
    <3> QED BY <3>2, <3>3, <3>4 DEF TalkInv, Types, ThreadTypes
  <2> QED BY <2>1, <2>2
<1>10. ASSUME NEW s \in Servers PROVE Reason(s)'
  <2>1. (Blame(s) => Blame(s)') /\ (Excused(s) => Excused(s)')
    BY BlameGrows
  <2>2. life'[s] = life[s] \/ (life'[s] = "exiting" /\ Excused(s)')
    BY <1>2, <1>3 DEF TalkInv, Types, ServerTypes
  <2>3. Reason(s)
    BY DEF TalkInv
  <2> QED BY <1>2, <1>3, <2>1, <2>2, <2>3 DEF Reason
<1> QED BY <1>4, <1>6, <1>7, <1>8, <1>9, <1>10 DEF TalkInv

(* A reset is the work of a client that has left.                           *)
LEMMA TalkReadFails == ASSUME TalkInv, NEW t \in Threads, ReadFails(t) PROVE TalkInv'
<1>1. /\ AtPc(t, "read") /\ cliEnd[fd[t]] = "rst" /\ ExitFrom(t) /\ UNCHANGED cause
  BY DEF ReadFails
<1>2. PICK c \in Clients : fd[t] = c
  BY <1>1, HasClient DEF AtPc
<1>3. LinkDown(t, c)
  BY <1>1, <1>2, Seated
<1>4. Excused(t[1])'
  BY <1>1, <1>2, <1>3 DEF LinkDown, Excused, AtPc
<1>5. cause' \in [Servers -> SUBSET Causes] /\ Grows
  BY <1>1 DEF TalkInv, Types, Grows
<1> QED BY <1>1, <1>4, <1>5, TalkReadEnds

LEMMA TalkReadInterrupted ==
  ASSUME TalkInv, NEW t \in Threads, ReadInterrupted(t) PROVE TalkInv'
<1>1. /\ AtPc(t, "read") /\ ExitFrom(t)
      /\ cause' = [cause EXCEPT ![t[1]] = @ \cup {"signal"}]
  BY DEF ReadInterrupted
<1>2. cause \in [Servers -> SUBSET Causes] /\ t[1] \in Servers
  BY OfServer DEF TalkInv, Types
<1>3. cause' \in [Servers -> SUBSET Causes] /\ Grows /\ Excused(t[1])'
  BY <1>1, <1>2 DEF Grows, Causes, Excused
<1> QED BY <1>1, <1>3, TalkReadEnds

(* A thread brings its process down: somebody is to blame.                  *)
LEMMA TalkDies ==
  ASSUME TalkInv, NEW t \in Threads, Dies(t[1]), UNCHANGED <<killed, cause>>, Blame(t[1])
  PROVE  TalkInv'
<1>1. Ends(t[1], "killed") /\ pda' = pda
  BY DEF Dies
<1>2. pda' \in Servers \cup {Nobody}
  BY <1>1 DEF TalkInv, Types, ServerTypes
<1> QED BY <1>1, <1>2, OfServer, TalkEnds

LEMMA TalkThread == ASSUME TalkInv, NEW t \in Threads, ThreadStep(t) \/ ReadInterrupted(t)
                    PROVE  TalkInv'
<1>1. CASE StaleUse(t)
  <2>1. Blame(t[1])
    BY <1>1 DEF StaleUse, AtPc, TalkInv, Kept
  <2> QED BY <1>1, <2>1, TalkDies DEF StaleUse
<1>2. CASE Sigpipe(t)
  <2>1. wpc[t] \in {"greet", "count", "row"} /\ cliEnd[fd[t]] \in {"finrst", "rstseen"}
    BY <1>2 DEF Sigpipe, AtPc
  <2>2. PICK c \in Clients : fd[t] = c
    BY <2>1, HasClient
  <2>3. LinkDown(t, c)
    BY <2>1, <2>2, Seated
  <2>4. Blame(t[1])
    BY <2>1, <2>3 DEF LinkDown, Blame, Excused
  <2> QED BY <1>2, <2>4, TalkDies DEF Sigpipe
<1>3. CASE ParseDies(t)
  <2>1. Blame(t[1])
    BY <1>3 DEF ParseDies, AtPc, TalkInv, Kept, Marked, Blame
  <2> QED BY <1>3, <2>1, TalkDies DEF ParseDies
<1> QED BY <1>1, <1>2, <1>3, TalkTake, TalkGreet, TalkReadQuery, TalkReadFails,
           TalkReadInterrupted, TalkAnswer, TalkAnswerBroken, TalkWriteCount, TalkWriteRow,
           TalkRowOverruns, TalkFreePath, TalkCloseSession DEF ThreadStep

LEMMA TalkStutter == TalkInv /\ UNCHANGED vars => TalkInv'
<1> SUFFICES ASSUME TalkInv, UNCHANGED vars PROVE TalkInv'
  OBVIOUS
<1>1. ServerTypes' /\ UNCHANGED <<threadVars, clientVars, socketVars, killed, cause>>
      /\ UNCHANGED <<life, interrupt, memory>>
  BY DEF vars, TalkInv, Types, ServerTypes, threadVars, clientVars, socketVars
<1>2. \A s \in Servers : Reason(s)'
  BY <1>1 DEF TalkInv, Reason, Blame, Excused
<1>3. \A t \in Threads : wpc[t] # "idle" =>
        Running(t[1])' /\ (life'[t[1]] = "exiting" => Excused(t[1]))
  BY <1>1, Talkers DEF Running
<1> QED BY <1>1, <1>2, <1>3, ServerFrame

LEMMA TalkHolds == Spec => []TalkInv
<1>1. TalkInv /\ [Next]_vars => TalkInv'
  BY TalkServer, TalkThread, TalkClient, TalkStutter DEF Next
<1> QED BY <1>1, TalkInit, PTL DEF Spec

(* What is on its way to a client that has asked for something with an      *)
(* answer is the answer to that, whole and in order, and none is left over  *)
(* when it asks again, though a thread keeps the pointer and the count of   *)
(* earlier answers, of other clients too (L246, L309-317).                  *)
THEOREM SessionsAgree == Spec => []SessionInv
<1>1. TalkInv => SessionInv
  BY TalkSays
<1> QED BY <1>1, TalkHolds, PTL

(* A server that has come up ends by exit only after SIGINT, after another  *)
(* signal found a worker waiting in read, or after a client left without    *)
(* DONE; and it dies only if somebody kills it, for one of these reasons,   *)
(* or if a client asked for something without an answer after a query that  *)
(* had one, or sent a broken query.                                         *)
THEOREM EndsHaveReasons == Spec => []EndsForAReason
<1>1. TalkInv => EndsForAReason
  BY TalkSays
<1> QED BY <1>1, TalkHolds, PTL
=============================================================================
