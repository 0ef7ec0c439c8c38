# A verification project for the CSE344 coursework

The repository holds six systems-programming assignments in C: a database
server with its client (`Final`), a vaccination clinic of processes
(`Midterm`) and four homeworks (`HWs`). This directory models them in TLA+, the
concurrent programs as well as the sequential algorithms they are built on,
model-checks the models with TLC and proves theorems about them with TLAPS.

## 1. Inventory

| Component | Code | State | Operations | Interaction |
|---|---|---|---|---|
| Table access | `Final/Server/main.c` L364-548 | `table`, `AR AW WR WW`, `mRW`, `okToRead`, `okToWrite` | SELECT, UPDATE | every worker thread, on one shared table |
| Accept loop and pool | `main.c` L230-362, L550-596, `queue/queue.c` | `queue`, `available`, `interrupt`, `mQueue/cQueue`, `mAvailable/cAvailable` | accept, hand over, serve, give back, join | main thread → queue → workers; counter back |
| Start-up | `main.c` L168-228, L246-265 | `arrived`, `mBarrier/cBarrier`, the mutexes' own words | create threads, barrier, initialise mutexes | main thread and workers share mutexes that are being initialised |
| Session and client | `main.c` L300-351, `Final/Client/main.c` L79-146 | `query`, `answer`, `records`, `numOfRecords` | READY, query, count, records, DONE | one worker and one client over a socket |
| Single instance, daemon, exit | `main.c` L64-88, L101-110, L967-1012 | named semaphore `PDA` | start, exit | successive server processes |
| Table loading | `main.c` L617-948 | `table`, `rSize`, `cSize` | read CSV, count, split, release | at start, and `split2` for every answer |
| Clinic | `Midterm/main.c`, `lib.c` | a buffer of places, six semaphores, counters, the input file | nurses bring, vaccinators take and invite, citizens come, parent waits | processes over shared memory |
| Homework for hire | `HWs/HW4` | queue of homeworks, money, `students[]`, eight kinds of semaphore | read, hire, solve, finish | H thread → main thread → students |
| Hot potato | `HWs/HW3` | shared process table, FIFOs, named semaphores | meet, pass on, count down, clean up | independent processes |
| Polynomials by signals | `HWs/HW2` | a file and its lock, SIGUSR1/SIGUSR2 | two rounds per child | parent and children by signals |
| File search | `HWs/HW1` | the call stack, `errno`, a tree of results | walk, match, add, print | with the file system, which may change |

What is hard in this code, and what makes each part correct:

* *Table access.* A reader-writer lock written by hand: readers and writers
  wait on two condition variables, the counters are changed on four paths,
  and the accesses themselves run outside the mutex. Correct means: a writer
  is alone, nobody sleeps with nobody left to wake it, writers get in, and a
  query is atomic.
* *Pool.* One counter, one queue, two condition variables and a SIGINT flag.
  Correct means: slots are accounted for, connections are handed out once
  and in order, nobody sleeps on work, and SIGINT ends the server. The last
  does not hold (section 5).
* *Start-up.* Mutexes are initialised while other threads use them.
* *Session.* A worker keeps the pointer and count of an earlier answer, of
  another client too; connections end early, in a way that reads as an empty
  query or kills the process that writes; some queries make the server read or write outside
  of what it has. Correct means: each answer goes to its own query, nobody
  waits for ever at either end, and a server that has come up ends only for a reason
  that is known. It is not proof against its clients: one that leaves without DONE, or
  sends a query that cannot be parsed, may bring it down.
* *Single instance.* A name that outlives a process that dies, and is removed
  first by one that exits. Correct means: one server at a time.
* *Table loading.* Three functions count rows and columns, each in its own way,
  over quotes, blank lines, short lines and empty cells. Correct means: the table is the file.
* *Clinic.* Producer-consumer with an end-of-file protocol in the same tokens,
  interrupts that look like successful waits. Correct means: places, doses and
  turns tally, and the clinic closes.
* *Homework for hire.* Decisions of the main thread on flags that students
  set late; two ways to end; a list that refuses when it changes under its user.
* *Hot potato.* Meeting points on named semaphores that the last one through
  removes while others may still have to open them, FIFOs opened in turn by
  everybody, a table that is counted down in two steps.
* *Signals.* Turns by signals that do not queue, a file that everybody
  rewrites under a lock whose wait can be interrupted.
* *File search.* A result nobody looks at, an `errno` nobody resets, and a
  pattern matcher over two indices.

The complete list of hazards, each at its line, is in `PROJECT.json`.

## 2. Plan

Done, in the order of importance: `TableData`, `AtomicTable`, `TableLock`,
`TableProofs`; `ServerThreads`, `ConnectionService`, `ServerPool`,
`ServerStartup`, `ServerPoolProofs`; `Clinic`, `ClinicProofs`; `HomeworkHire`,
`HomeworkHireProofs`; `ServerSession`, `ServerSessionProofs`; `SignalRounds`,
`SignalRoundsProofs`; `HotPotato`, `HotPotatoProofs`; `CsvTable` (proved about in
`TableProofs`); `FileSearch`, `FileSearchProofs`.

Left: in `HomeworkHire` SIGINT (interrupted semaphore waits, `x_pthread_kill`), and
a contract it refines (a homework goes to one student, in the file's order).

## 3. Modules

| Module | What it is | Code |
|---|---|---|
| `TableData` | rows, columns, requests; which cells a SELECT reads and an UPDATE assigns | `parse_query` |
| `AtomicTable` | abstract: a request takes effect at one instant | promise of the server |
| `TableLock` | the lock and the accesses, cell by cell | `parse_query` L381-526, `update_req_token` L528-548 |
| `TableProofs` | theorems about `TableLock` and `CsvTable` | |
| `ServerThreads` | what the two next models of the server have in common: its threads, the flag of SIGINT | globals of `server.h` |
| `ConnectionService` | abstract: connections are served in order, once, at most `PoolSize` at a time | promise of the server |
| `ServerPool` | accept loop, slots, queue, workers, SIGINT | `server_loop`, `thread_pool_handler`, `thread_pool_join`, `queue.c` |
| `ServerStartup` | barrier and late initialisation of mutexes | `init_component`, `thread_pool_handler` L246-265 |
| `ServerPoolProofs` | theorems about `ServerPool` and `ServerStartup` | |
| `ServerSession` | server processes that start, die and exit; sessions of workers and clients | `main`, `exit_server`, `thread_pool_handler` L300-351, `client_request` |
| `ServerSessionProofs` | theorems about `ServerSession` | |
| `CsvTable` | loading the table, and cutting an answer into records | `read_csv` to `release_table` |
| `Clinic` | nurses, vaccinators, citizens, parent, SIGINT | `Midterm/main.c`, `x_sem_wait` |
| `ClinicProofs` | theorems about `Clinic` | |
| `HomeworkHire` | H, the main thread, the students, the list | `HWs/HW4/main.c`, `list/arraylist.c` |
| `HomeworkHireProofs` | theorems about `HomeworkHire` | |
| `HotPotato` | both barriers, the FIFOs, the game, the cleaning up | `HWs/HW3/main.c` |
| `HotPotatoProofs` | theorems about `HotPotato` | |
| `SignalRounds` | both rounds of signals, the file and its lock, SIGINT | `HWs/HW2/main.c`, `lib.c` |
| `SignalRoundsProofs` | theorems about `SignalRounds` | |
| `FileSearch` | the walk, its errors, the matcher, the tree | `HWs/HW1/main.c` |
| `FileSearchProofs` | theorems about `FileSearch` | |
| `MC*` | small instances of the modules for TLC | |

**How code becomes actions.** A stretch of code that runs under a mutex and does
not block is one action, from the lock (or the return of a wait) to the unlock
or the next wait. Code outside of mutexes is cut at every access of shared
state. A condition variable is the set of threads blocked on it; a signal
removes one, a broadcast all, and spurious wake-ups are actions of the
environment. In `Clinic` a process stands at the semaphore it waits for;
posts are part of the action before the next wait, since a post never
disables another process's step. `PROJECT.json` maps each definition to its lines.

**`TableLock`.** `mRW` needs no variable (it is free between actions). An
assignment of a cell is two actions, as the code frees the old string before
it stores the new one. The scan of a WHERE clause is part of the writer's entry
because nobody can change the table from then on; this uses `Exclusion`, which
is proved. Left out: the text of queries and answers, columns that do not exist,
`SELECT DISTINCT`.

**`ServerPool`.** `mQueue` is a variable, since a worker can end without giving
it back. A session is one step whose end is assumed; `ServerSession` looks into
it. The queue never holds more than the slots allow. File descriptor −1 and
SIGINT are modelled as in the code.

**`ServerStartup`.** `pthread_mutex_init` on a mutex in use is undefined
behaviour; the module models the lock words of glibc: a thread that sleeps on a
cleared word sleeps on, and a holder's unlock fails with EPERM, which the `x_`
wrapper turns into `exit`. Left out are `mRW` and `mAvailable`, which nobody uses
until the main thread has come to `accept`.

**`ServerSession`.** Several server processes, each with a few worker threads,
over one name `PDA`. A process may be refused, fail while it comes up before
`exit_server` is registered (`StartFails`, the name stays) or after (`ComeUpFails`:
`read_csv`, the `exit`s of `init_component`, `x_bind` and `x_listen` run it), be killed,
be interrupted, and exits in the order of `exit_server`. A connection has two
ends and a queue of messages each way; `fin`, `rst` and their combinations with
a pending write say what the next read or write of the other end returns. What a
thread keeps between answers (`records`, `numOfRecords`) is `null`, `live` or
`freed`; a second free makes the process's memory corrupt, after which it may die
at any time (`MemoryFails`), as may a process whose `exit_server` frees what other threads
still use. A query is one of four kinds: it has as many records as
the table has rows, one, none (and leaves `records` as it was), or is `broken`,
which stands for every form that makes the server go outside of its memory: a SELECT
with DISTINCT, without FROM or of no column, an UPDATE of an unknown column (L502),
without a value to set or to look for, a row longer than `BUFSIZ` (L330). A broken query
ends the process at once (`ParseDies`), corrupts it (`RowOverruns`), or gets some
number of records. A worker's read fails on a reset, and on a signal with a handler
that finds the thread waiting (`ReadInterrupted`); both end the server (`ExitFrom`).
A message is taken by one read. `cause` is a history variable: what has been done
to a process that could end it, by its clients or by a signal to a worker.

**`CsvTable`.** A file is lines of cells, each with its text and whether it is
quoted, and is rendered to the characters that the code reads. `split`'s
`prev` is uninitialised at the first character of a row and may be any
character. The state `corrupt` is a write outside `table`, a read beyond the cells
of a line, or a use of a row nobody has assigned. The variables and the
specification have names of their own (`stage`, `csvTable`, `LoadSpec`), for one
module proves about this one and `TableLock`.

**`Clinic`.** A process has a place for each semaphore it waits for, and what it
does between two waits is one action; a citizen's turn inside `mSafe` is two, its
post of `mCitizen` and the naming of itself. SIGINT may end any wait early, that for `mSafe` included: a
vaccinator may then read `currCitizen` before a citizen has set it, which is why
`InvitesSomebody` speaks of the time before SIGINT. The announcements and
invitations that are only printed are history variables.

**`HomeworkHire`.** A thread stands before its next semaphore or before the next
variable that another one may change. `saveEof`, `safe`, `wrtM` and `saveM`
guard sections that do not block and need no variable; who holds `readyBusy` and
`liveThread` follows from where the students stand. The list reads its size and
adds in two steps, and may refuse a homework in between: `lost` counts these. A
character of the file that is no homework is queued like one (L189-200 leave
`index` alone), which is modelled, with the file's first character excepted, for
which `index` is uninitialised. Left out: a student's `args`, which only feed a
line it prints, and SIGINT.

**`HotPotato`.** A named semaphore is a name and the objects it has stood for: a
process has a handle of the object that had the name when it opened it, and may
use it when the name is gone. A potato is thrown at a descriptor drawn at random,
which may be a FIFO, the standard streams, or the shared table itself; what is
thrown is the pid that stands in the thrower's record at that moment, and a record
is looked up anew, or its index kept, as the code does it (`PidAt`, `pIndex`).

**`SignalRounds`.** A signal of a kind is pending or it is not. The values of a
round stand for what is computed from them. A line of the file is the sequence
of the rounds whose value it has; a child works on a copy of the file.

**`FileSearch`.** The call stack and `errno` are variables, the tree is a
function from a path to the list of names below it. A directory may be closed
to the user, an entry may vanish before `lstat` or, a directory, before `opendir`, SIGINT
may come before any entry. The matcher is translated loop by loop, as a recursive function of its
two indices and its counter, and compared with what the pattern means
(`Accepts`: a map of the name's characters to the pattern's letters, in order).
Of a file system is assumed only what the walk relies on (`IsFileSystem`), of a
pattern only that `getopt.c` lets it through (`IsPattern`).

Definitions named `Bad...` are seeded faults: the properties are shown to fail
when one takes the place of the code's own definition. No specification uses them.

## 4. Runs that pass

| Run | Instance | Shows |
|---|---|---|
| `table_lock` | 3 threads, 2×2 cells, two values | the inductive invariant (type, counters, exclusion, wake-ups, snapshots), refinement of `AtomicTable`; waiting writers get in; every query is answered |
| `server_pool` | 2 workers, 4 connections, 1 accept error, 1 broken greeting, 1 SIGINT | slots and queue tally (`SlotsTally`), no missed wake-up, refinement of `ConnectionService`; every connection is served |
| `server_startup` | 3 workers, 1 SIGINT | the barrier holds, and only a held mutex that is cleared ends the server (`StartupInv`); start-up completes unless a mutex in use was cleared (`StartupEnds`) |
| `server_session` | 2 server processes with 1 worker each, 2 clients, one of which may leave at any point; each asks the first server up to 2 times and the second not at all; a table of 2 rows, 1 kill, signals to the first server | every answer goes to its own query and both ends keep in step (`SessionInv`); one server at a time; a refusal, and the end of a server that has come up, have a reason (`EndsForAReason`); nobody hangs |
| `csv_table` | every file of 2×2 cells of every kind (empty, plain, quoted with comma, newline or nothing in it), and smaller choices with 3 lines, blank ones, and 1 to 3 cells, not always as many in each line | rows, columns and cells come back from the table, but for the two faults named (`TableIsFile`); the records of an answer are its rows |
| `file_search` | patterns of up to 4 characters over `a`, `b`, `+`, the empty one too, names of up to 4, 3 depths, closed directories, 1 SIGINT, 1 entry gone before `lstat` or `opendir` | the matcher says what the pattern means; the tree has the right names once and in order (`TreeInv`); what a printed tree lacks is below a directory named by the errors (`PrintedIsTrue`); the search ends |
| `hot_potato` | 3 processes, 2 with a potato, one FIFO may be left over from before | the table is filled and counted and nothing is left behind (`PotatoInv`); everybody meets at the same semaphores; nothing is removed before the end; opening FIFOs never ends in a circle |
| `clinic` | n=2, v=2, c=3, t=1, b=4, no SIGINT | places, doses and turns tally (`ClinicTallies`); every dose goes to a citizen that has come; the clinic closes with every dose given |
| `clinic_sigint` | the same, SIGINT at a vaccinator and the parent, until two doses are brought | nobody enters the critical section by an interrupted wait |
| `homework_hire` | 3 students, 5 files of up to 4 homeworks, money 2, 3 or 9 | money, hires, solved and refused homeworks agree (`HireTallies`); the walk finds a free student; `waitFile` counts; a homework is there to get and to remove unless one was refused or a student costs nothing (`NothingMissing`); `finito` means the end; the main thread gets to the end or to the wait for `finito` |
| `signal_rounds` | 3 children, 1 SIGINT | no line is lost, nobody is signalled who is not there, the file is closed once but for SIGINT (`RoundsInv`); no signal merges with another; errors are of whole rounds; all end unless the parent has left |

`IInv`, `SlotsTally`, `StartupInv`, `SessionInv`, `TreeInv`, `TableIsFile`, `PotatoInv`,
`ClinicTallies`, `HireTallies` and `RoundsInv` are conjunctions; each conjunct is a
definition of its own, with a comment that says what it is about, and each of
them begins with the module's `TypeOK`.

**Bounds.** Three threads are the least with which two can wait while one is
active, or two readers overlap a waiting writer; two rows and columns are the
least with which an UPDATE can be half done and a WHERE can choose. One more
connection than workers makes the main thread wait for a slot. The clinic's
numbers are the least the program accepts (`getopt.c` L67-68). SIGINT once is
enough because its flag is never reset. Symmetry is used in runs of invariants only.
In
`homework_hire` no student is the best by every measure and one costs nothing,
one file has no homework, and the amounts make the money run out early, reach 0 exactly, or
suffice. `clinic_sigint` stops following the file after two doses (`SigintBound`), since
every place at which SIGINT can come has been reached by then. In
`server_session` two queries of a client are the least with which a count or a
pointer of one answer can meet the next query, and two clients of the same
worker the least with which it can meet another client's. The second process
is refused, comes up after the first, or finds the name that a dead one has
left; what is asked of it would repeat what is asked of the first. That one worker ends the
server while another is at work is not in this run: the theorems of section 6, which are for
any number of workers, have it. Three processes in `hot_potato` and three children in `signal_rounds` are
the least with which two wait while one is at work, and one is neither first
nor last. In `csv_table` two lines with all kinds of cells have every pair of
neighbours; three lines are the least with which a blank one can stand between
two others, and lines of one to three cells the least with which one may be
shorter or longer than the header by one cell or by more. In `file_search` four characters are the least with which a `+` takes
back a character that the rest of the pattern needs.

**Deadlock** is checked except where the system really stops: the server after
SIGINT or with no more clients, sessions when all processes have ended or all
clients are done, a clinic hit by SIGINT, the homework program at its end and in
its wait for `finito`, the potato game and the rounds of signals when they are
over, the search when it has printed, the table when it has been released.

**Fairness.** `TableLock`, `ServerPool`, `ServerStartup`: weak fairness of each
thread's steps, as the scheduler runs every runnable thread; nothing makes a
client send, SIGINT arrive or `cond_wait` return early. For `ServerPool` it
includes the end of sessions. A `pthread_mutex` gives no fairness among its
waiters; in `ServerPool` weak fairness is enough since there are finitely many
connections. `ServerSession`: weak fairness of a process that comes up or is exiting,
of each worker and of each client that has connected; none of starts, of
connections, of signals, of reads that a signal interrupts, of memory that fails
or of clients that leave. `Clinic`: weak fairness, and
strong fairness for nurses, who compete for `m` with vaccinators that try again
and again. glibc's semaphores wake sleepers on each post, but do not rule out
starvation: this is an assumption on the scheduler. `EveryQueryAnswered` assumes
that clients stop asking eventually, `ComesUpUnlessCleared` that spurious wake-ups
end. `HomeworkHire`: weak fairness of H, the main thread and each student; a
semaphore is waited for by one thread only, but for `liveThread`, which each
student takes finitely often. `HotPotato`: weak fairness of each process.
`SignalRounds`: of the parent and of each child. `FileSearch`: of the walk.
`CsvTable` states no fairness; its run is about invariants.

## 5. Where the code does other than the reports say

`server_pool_sigint` is a run that TLC ends with a counterexample: a worker has
tested `interrupt` (L255) when the broadcast of SIGINT comes (L560), waits after
it, and is never joined, although the report says that SIGINT ends the server;
`findings` in `PROJECT.json` quotes it. SIGINT can leave the server alive in two
more ways, which the model has and the run would show if the first were mended:
it comes outside of `accept`, whose next call blocks (L555-556), and a worker
ends with `mQueue` locked (L273-275).

The other disagreements met while modelling are in the models as they are in the
code, and the passing properties name them as their exceptions:

* *Pool.* A worker that dequeues the −1 of a failed `accept`, or cannot write its
  greeting, ends for good with its slot taken (L278-294), although the report
  says that it returns to the pool (exception of `EveryConnectionServed`).
* *Start-up* does not complete if clearing `mBarrier` or `mQueue` meets a thread
  that uses it (`Final/Report/Report.tex:150` says that the barrier "ensures that all threads are
  created and ready"; premise of `ComesUpUnlessCleared`).
* *Session.* A client that closes without DONE ends the server; so does a signal
  that finds a worker in `read` (the handlers are set without `SA_RESTART`, and
  `x_read` takes EINTR for an error); a query with no answer after one that had an
  answer frees its records twice; and a broken query (section 3) reads or writes outside
  of the server's memory (exceptions of `EndsForAReason`). Failures while the server
  comes up end it too; the property speaks of servers that have come up.
* *Table.* A row that begins with a quote may get a null in front; a blank line
  makes rows after it land behind the table, and a line shorter than the header is
  read beyond its end (exceptions in `CellsAgree` and `OnlyIrregularHurts`; compare `Final/Report/Report.tex:86-88`).
* *Clinic.* With more nurses than places one nurse waits for ever; one citizen may
  be invited twice and another never (`Midterm/Report/Report.tex:211`); SIGINT at
  a vaccinator leaves processes asleep (`Midterm/Report/Report.tex:241`), and at the parent ends it
  before its children; "All citizens have been vaccinated" may be printed before
  any is.
* *Homework.* A student may take itself for the last and close the program while
  a homework that has been paid for waits to be started
  (`HW4/Report/Report.tex:118`); the list may refuse a homework that the money
  suffices for (`HW4/Report/Report.tex:103`; premise of `NothingMissing`); the main thread may
  wait for `finito` for ever, when the last student has finished before H sets
  `eof` or when there was no homework (exception of `ClosesOrWaits`). A student
  that costs nothing is hired when the money is gone and no homework is left, and the
  program fails at L212 (exception of `NothingMissing`).
* *Hot potato.* The owner of an odd FIFO has it open for writing only: its read
  fails, and it ends with the semaphore it holds; so the game is not shown to
  end. `OpensMeet` and `NobodyLeftPlaying` allow for processes that have died.
* *Signals.* A parent that takes SIGINT before it calls its children leaves them
  waiting with every signal blocked (exception of `EndsOrOrphans`).
* *File search.* `validate` accepts files whose permissions differ from the ones
  asked for (L224); an interrupted or failed walk below may still print its tree
  (L189; exceptions of `PrintedIsTrue`).

## 6. Proofs

`TableProofs` proves about `TableLock`, for any finite set of threads, any table and
any requests (the assumptions of `TableData`):

* `TypeCorrect`, `Invariance`: `TypeOK`, `CountersAgree` and the inductive
  invariant `IInv`;
* `MutualExclusion`, `WakeupsSuffice`, `ConsistentReads`: the safety properties;
* `ImplementsAtomicTable`: `TableLock` implements `AtomicTable`.

`Exclusion` is not inductive: that a writer may enter when `AW + AR = 0` says
something about other threads only if the counters count them, hence
`CountersAgree`. `NoLostWakeup` needs that a woken writer is one that still counts
itself in `WW`. That a SELECT's copy stays equal to the table
(`SnapshotConsistent`) needs `CopyExact`, which says what a partial copy holds, and
`FreedByWriter`, which says that a freed cell is one its writer has still to
store. The refinement maps an UPDATE's instant to the writer's entry: a cell in
its `todo` counts as already assigned. Each invariant part is preserved by one
named step per action; counting lemmas on `Cardinality` carry `CountersAgree`.

`TableProofs` also proves about `CsvTable`, for any file (`CsvAssumption`: the
characters differ, and cells hold no quotes of their own, and no commas or newlines
unless they are between quotes; lines may be blank and of any lengths) and
whatever `prev` holds before it is set:

* `TableAlwaysIsFile` (`TableIsFile`) and `RecordsAlwaysRows` (`RecordsAreRows`), from
  `LoadInv`. Neither of the two is inductive: that a row is in its place needs that `curIndex`
  is where the line begins after the `i` that are behind it (`PlaceInv`), that the
  rows behind it hold what `split` gave and no others are set (`RowsInv`), and
  that the counts are those of this text (`CountsInv`). A file without blank lines
  before others and without short ones is loaded unhurt (`HurtInv`), for its rows are
  its first lines (`RegularRows`), each with a cell for every column (`HeaderFits`).

Most of the proof is about text. A text put together of pieces is laid out
(`Laid`): each piece begins one place after the end of the one before. That holds
of the cells of a line and of the lines of a file, and every place belongs to one
piece (`LaidEvery`). A piece with an even number of quotes leaves the parity of
the quotes around it alone (`LaidParity`), so what is between quotes in a cell is so
in its line, and in the file. Hence a row ends where its line does (`RowEndIs`);
the newlines counted are the ends of the lines that are not blank (`RowsCounted`);
the commas counted are the ends of the cells but one (`ColumnsCounted`); and
`split` finds one end per cell that makes a value, and perhaps the first quote
(`CellCuts`, `SplitIs`). Sets of places are counted by pairing them with lines or
cells (`SameNumber`), and listed in their order (`OrderedIs`).

`ServerPoolProofs` proves, for any workers, connections, errors and signals:

* `SlotsCorrect` (`SlotsTally`) from `AccountsInv`: a slot is free, or on its way to
  a worker with a connection, or with the worker that holds it (`WorkerFds` and
  `MainFd` say who holds what; `FreeSlots` that the main thread takes only slots
  that are free until SIGINT lets it through);
* `WakeupsCorrect` (`NoMissedWakeup`): each step that puts a connection in the
  queue or frees a slot also wakes whoever waits for it;
* `ServiceInOrder` (`ServesInOrder`): `ServerPool` implements `ConnectionService`.
  The refinement needs that a connection is held by one worker and closed by it
  only (`HeldOnce`), that those with workers, in the queue and with the main
  thread are all that have been accepted (`NoneLost`), and that they are so in the
  order in which they came (`Ordered`).

It also proves `StartupSafe` (`StartupInv`) for any workers. The barrier's counter counts the workers that are past their increment
(`CounterAgrees`); that it is not incremented by two at a time needs a holder that
nobody evicts, hence `HoldersOwn`: unless a mutex was cleared under its holder,
who is between a lock and an unlock owns the mutex. From the moment one was
cleared the invariant says so, which is all that `CrashOnlyIfCleared` allows for.

`ClinicProofs` proves, for any numbers of processes and turns, any buffer the
program accepts and any file, with `ClinicInv`:

* `TalliesCorrect` (`ClinicTallies`). Until SIGINT each semaphore and the processes
  between its wait and its post make a constant sum (`Equations`), which a lemma
  on how a step moves one process between places (`Moves`) carries through every
  action; `Shelf` and `EnoughDoses` say that what a vaccinator has found on the
  shelf is there until it takes it, since it is alone;
* `MutualExclusion` (`InsideAlone`), with SIGINT too;
* `SomebodyIsCalled` (`InvitesSomebody`): if nobody had come, the equations of
  `mSafe` and `mCitizen` would leave no vaccinator at the point of a call; and the
  doses applied are the sum of the calls, citizen by citizen (`Called`).

`HomeworkHireProofs` proves, for any students, files and money:

* `FinitoOnlyAtTheEnd`. `FinitoIsFinal` is not inductive: a student posts
  `finito` on an `eof` it has read earlier, so the invariant adds that a student
  that goes on to look at the queue has seen `eof` set (`SawEof`), and that H, once
  it has set it, has ended with nothing left to append (`HasEnded`).
* `WaitFileCounts` and `OnlyRefusalsHurt`, from one invariant (`TokInv`):
  `TokensAgree` with why H has ended (`EndsWhy`), that the main thread pays only
  what it has (`CanPay`), and that once `eof` is set a thread that has been let
  through finds the queue not empty unless the list has refused something
  (`LastOne`). If the queue is empty then, the token was H's last one and H has
  ended for want of money, which pays only for a student that costs nothing: hiring
  that one is the one other way to find nothing to remove.
* `AccountsCorrect` (`HireTallies`) and `WalkFindsOne` (`SomeoneIsFree`), from
  `HireInv`. Where a student stands says whether it is busy, counted as living and
  has work (`Load`); `available`, all loads and the hire under way make up the
  number of students (`Crew`), so while the main thread walks somebody ahead of it
  has no load, or it has found one (`Ahead`). What a student has solved is never
  more than it was hired for (`Owed`), and what the list holds less than H has
  read of its size was removed since (`Refusing`).

`ServerSessionProofs` proves, for any processes, workers, clients and deaths:

* `NeverTwoServers` (`OneServer`) and `RefusalHasAReason` (`RefusedForAReason`).
  Their conjunction is inductive with the types of `life` and `pda` (`NameInv`): a
  process gets the name only when nobody has it, hence nobody is up, and one that
  exits removes a name that is its own, by `OneServer`.
* `SessionsAgree` (`SessionInv`) and `EndsHaveReasons` (`EndsForAReason`), from
  `TalkInv`. What is on its way between a client and a thread is known from where
  the two stand: `Expects`, `Sides`, `Own` and `Heard` say it of the client, `Seat`
  and `Link` of the thread that has its connection, and `Apart` that no two
  threads have the same. `Kept` says what a thread keeps of an answer, and that it
  is freed twice or sent to the wrong query only after a client has left or has
  asked for what has no answer or is broken. `Reason` says of a process that is
  ending, and of one that has ended, what it was that ended it: `cause` only
  grows, and each action that begins an end finds its reason there, in `interrupt`
  or in `killed`.

`SignalRoundsProofs` proves `RoundsCorrect` (`RoundsInv`), `WholeRounds`
(`ErrorOfWholeRound`) and `NoneMerged` (`NoSignalMerged`) for any children and
any SIGINTs. How far each child has come is known from where the parent is and
whom it calls (`Stages`), so a signal always finds its receiver waiting for it or on its way
to; `LockKept` and `CopiesAgree` say who has the file's lock and that what a child
writes is its change to what the file holds; `Progress`, what has been printed.

`HotPotatoProofs` proves, for any processes and any potatoes:

* `NobodyIsLeft` (`NobodyLeftPlaying`) and `BarriersAreOne` (`OneBarrier`), from
  `Barriers`. A step is first told by where its process is (`Digest`) and by what it
  does to the semaphores of a name (`SemStep`). Until the table is full nobody goes
  through the first barrier and its names are there (`First`, `Passing`); there are
  no more records than processes that have filled one (`Sized`), so a full table
  was filled by all. The second barrier counts those that are past their
  increment (`Leaving`), and its names go only after all have come (`Second`).
* `TableCorrect` (`PotatoInv`), which adds `CInv` and `DInv`. `CInv`: a name removed
  behind a barrier stays removed (`Removes`), and FIFOs and processes that have left
  make up all (`Fifos`). `DInv`: a potato is with its owner, in one place of one
  FIFO, or with one process that counts it (`Once`), and until it has been counted
  its record in the table is still owed (`Due`, `Read`); so the counts are
  those given less the potatoes caught (`Sums`), and never go below zero. All this
  holds until a potato is thrown at the table, which writes a pid over another's
  (`Clean`); from then on a potato may have anybody's name, or no process's, and what
  is left are the types (`LooseTypes`).

TLC has checked each of these invariants before its proof; that of `HotPotato`,
for one, on 3 and on 4 processes (47,880 and 2,060,901 states).

`FileSearchProofs` proves, for any file systems, options, signals and entries
that vanish:

* `TreeAlwaysRight` (`TreeInv`) and `PrintedTreeTrue` (`PrintedIsTrue`), from `IInv`.
  What is on the stack are the directories on the way to the innermost, each at
  the entry on the way (`Shape`, `Chain`). A wanted file is in the tree, or below a
  directory that was given up, or still to come, which means that it is below an
  entry some call has not yet passed (`Complete`); when the stack is empty nothing
  is to come. The list below a directory on the stack has only names of entries
  the call has passed, and a directory not yet entered has none (`Listed`), so a
  name that is added is new and belongs at the end (`InOrder`). `Reasons` says of
  each directory that was given up why the calls above it have not noticed, and
  what `errno` remembers.
* `PatternAlwaysAgrees` (`PatternAgrees`), for names and patterns of any length.
  `Rest` is the meaning of the pattern from one letter on for the name from one
  character on. Before a letter the loop returns what `Rest` says there; at a `+`,
  with `n` characters taken by it, what `Rest` said before the first of these
  (`Right`). The only hard step is the return of characters to the letters after
  the `+` (`PumpedThenLetter`, `PumpedThenPlus`): the letters equal to the
  repeated one that follow must take as many characters of the run, so it does
  not matter which. The loop's function exists, and `Right` holds, by induction
  over what is left of name and pattern (`Rank`).

Three modules reason about sums over a set or over the students
(`SumFunctionOnSet`, `Total`). That such a sum exists, and that it changes by as
much as one of its values does, is proved by induction: the library's induction
theorems take an operator, which no backend can instantiate, but the
well-foundedness of `<` gives a least element to each set of naturals, and that
is enough. Each of these modules extends the model it is about, so the lemmas on
sums are stated in each. `FileSearchProofs`, and `TableProofs` over the pieces of a
text (`Upwards`), do their inductions in the same way.

The proofs assume no more than the models' `ASSUME`s: sets of processes that are
finite and disjoint, the bounds the programs put on their arguments, and what a
CSV file is.

Only model-checked is liveness, for weak and strong fairness are beyond the prover.
Every invariant, every action property and every refinement that a run checks is
also proved.

## 7. Not modelled

* Everywhere: text formatting and logging, failures of `malloc`, the options and
  `getopt` but for the bounds they put on numbers, the reports and Makefiles.
* *Server.* The flags of SIGTERM and SIGHUP, which nobody reads (their handlers
  interrupt a worker's read, which is modelled). Of daemonisation only that it may fail.
  Writes that are interrupted or partial, and reads that return part of a
  message or parts of two: a message is read as it was written, on both ends, so
  `SessionInv` does not speak for a stream that splits or joins them (hazard at
  `lib.c` L231). What memory that is misused does short of ending the process: a
  broken query may get any number of records and a corrupt process may die at any
  time, but it does not change other threads' data. In `TableLock`, `SELECT DISTINCT`, a
  SELECT without FROM and columns the table does not have. CSV
  files that are empty, cannot be opened, have a quote inside a cell, or are a multiple
  of the page in size without a final newline (`ServerSession` has that a start may fail
  for them). `x_accept` passes `&addr` for the address, so `accept` writes the peer's
  address over a local variable; nothing reads it.
* *Pool.* A worker tests `interrupt` in its loop and once more behind it (L264-275), which
  is one action here; no passing property depends on what comes between.
* *Start-up.* The main thread destroys `mBarrier` when it is through (L215); nothing
  follows from that, since nobody is at the barrier then.
* *Homework.* SIGINT. `exit_main` (L34-35) frees the queue and destroys the semaphores while the
  detached H may still run; what H then does is left out, as the program is at its
  end. A negative price.
* *Hot potato.* Semaphores and shared memory left over from an earlier run (a FIFO
  left over is modelled); the handler's flag, which nobody reads. The table grows in
  `Fill`, with the record, and not at `ftruncate` (L220-224); the two differ only for
  those that come after a process that failed in `mkfifo`, and the properties about
  the table except that case.
* *Signals.* The Lagrange arithmetic (floating point); lines of the file beyond
  one per child; what a file garbled by two writers looks like.
* *File search.* Names with a `+` in them; the root directory itself as what is
  searched (`-w /`). An `opendir` that fails stands for every failure but EACCES
  by ENOENT.
