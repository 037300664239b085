# Verification of LinuxSystemProgramming_Trainning

The repository is a set of Linux programs written while working through *The
Linux Programming Interface*: two larger ones (a bandwidth test and a
line-reversing socket server) and a number of exercises on memory, processes,
threads, signals and files. This directory holds TLA+ models of the programs that
have a state worth checking, the TLC runs on them and the proofs TLAPS checks.
`PROJECT.json` lists components, runs, source lines of every definition, hazards
and findings.

    tlc -workers 2 -config SpeedTest.cfg MCSpeedTest.tla      # one run
    tlapm SpeedTestProofs.tla                                 # one proof module

## 1. Inventory

### SpeedTest (`SpeedTest/`)

| part | state | operations |
|---|---|---|
| `main.c` | the option variables (`protocol`, `number_of_thread`, `m_test_only_*`, ...) | reads the arguments, runs one or two tests |
| server search (`speedtest.c` 820-886, `speedtest_utilities.c`) | three files in `/tmp`, `nearest_servers[]` | fetch configuration and list, keep the nearest servers, time `latency.txt` on each, take the best |
| transfer (`speedtest.c` 66-820) | slot array, `thread_all_stop`, `total_dl_size`, `total_ul_size`, `pthread_mutex`, the interval timer | controller scans the slots and creates threads, threads connect, transfer, count and clear their slot's flag, SIGALRM sets the stop flag |
| fetch (`socket_http.c`, `socket_ip.c`, `socket_utilities.c`) | one socket, one file | resolve, connect with a timeout, GET, receive into a file |
| log (`old_app_debug/app_debug.c`) | a table of output callbacks, the lock callback, a ring buffer | formats and puts bytes to every callback under a mutex; the interrupt service prints into the ring buffer, which a thread flushes |
| ring buffer (`lwrb.c`) | memory, a read and a write index | write, read, peek, skip, advance, linear blocks, without a lock |

Main calls the search and then the transfer. Search and fetch meet in the files.
All of them print through the log, whose lock is `app_lock` of `main.c`. The
header sets `DEBUG_ISR_ENABLE` to 0 (app_debug.h:15): the present build leaves out
the interrupt service's print, the ring buffer and its flush, which are code of
the repository all the same. Controller, threads and signal handler share the slot
array, the flag and the totals; only the totals have a lock. What is hard: the
controller overwrites the thread id of a slot it finds free and later joins only
the last one of each slot; threads write into the array it frees; the flags are
read without a lock; servers may be silent, slow or gone; stale files answer for
fetches that failed; a reply is cut into pieces anywhere; the ring buffer's two
sides run against each other; threads print at the same time. Correct means:
nobody writes to a freed array, one thread per slot, no transfer lost or counted
twice or for the wrong test, sockets closed, every test ended by its own alarm,
the program ends, the chosen server is one of the nearest and the fastest of them;
a fetched file is the body of the reply and its socket is closed; the ring buffer
is a queue; messages are not mixed and their numbers are right.

### Socket server and client (`Socket/Assignment/`)

The server's main thread accepts and creates a thread per connection; the thread
reads one line with `read_line`, writes it back reversed and closes; a reaper
thread walks `thread_list` to join what has returned. The client writes a word
and a newline, reads the reply and connects again. State: the descriptor table,
the kernel's queues, the list. Hard: descriptor numbers are given out again as
soon as they are closed, accept races with close, the list is shared without a
lock, clients end anywhere, `pthread_create` may fail. Correct means: a client
gets the reversal of its own line, a thread uses only its own connection, no
descriptor is forgotten, returned threads are joined. The list is `llist.c`:
nodes with a next pointer and a datum; correct means that the nodes stay one chain
and that each call does to the sequence of data what its name says.

### Heap (`Memory_Management/`)

`my_malloc`, `my_free` and `my_realloc` over `sbrk` with a doubly linked free
list kept in the blocks themselves. Hard: a wrong link is followed only many calls
later. Correct means: blocks do not overlap, what was freed is found again.

### Two processes (`IPC/Sychronization/P3`)

Parent and child take turns on a file of records with SIGUSR1 and `sigsuspend`;
each opens it again for every record of a scan and once more to append.
Hard: a signal before the wait, signals that merge, kills at any point, also
between the fopen that creates the file and the fclose that writes it. Correct
means: one works at a time, no update is lost, neither waits for ever.

### The rest

| part | why it is not modelled |
|---|---|
| `IPC` P1, P2 | one critical section around a whole loop |
| `Process_and_Threads/Problem1` | the worker threads loop for ever (matrix.c:62) and their products are dropped |
| `Process_and_Threads/Problem2`, `FileSystem`, `Signals_and_Timers` | straight sequences of system calls, or two polled flags |
| socket examples | copied from the book |
| `ShellScript` | two shell scripts |

## 2. Modules

| module | models | lines of code it stands for |
|---|---|---|
| `Meter` | abstract: tests run one after the other, totals change by whole transfers of the test under way | (a specification) |
| `SpeedTest` | controller, alarm, download and upload threads, the network | `speedtest.c`, constants of `speedtest.h` |
| `MCSpeedTest` | test sequences and symmetry for TLC | |
| `SpeedTestProofs` | theorems about `SpeedTest` | |
| `ServerChoice` | configuration, list, nearest servers, latency probes | `speedtest_utilities.c`, `speedtest.c`, `socket_http.c` |
| `SpeedTestMain` | EXTENDS `ServerChoice` with `main` | `main.c` |
| `MCSpeedTestMain` | a list of servers and command lines for TLC | |
| `SpeedTestMainProofs` | theorems about `SpeedTestMain` and the search it calls | |
| `SocketServer` | server, reaper, threads and clients, composed through the descriptor table and the kernel's queues | `socket_server.c`, `read_line.c`, `socket_client.c` |
| `SocketServerProofs` | theorems about `SocketServer` | |
| `MyAllocation` | the heap as an array of words, main.c's test and other programs | `my_allocation.c`, `main.c` |
| `ProcessSync`, `ProcessSyncProofs` | parent, child and the file, and their theorems | `IPC/Sychronization/P3/main.c`, its `file_handle.c` and `utilities.c` |
| `BoundedFifo` | abstract: a queue, its calls cut to what fits or is there, each taking effect at one moment | (a specification) |
| `RingBuffer`, `MCRingBuffer`, `RingBufferProofs` | one writer and one reader, byte by byte; the bytes for TLC; theorems | `lwrb.c` |
| `LogFormat` | what the conversions of a format make of an argument, and a reference for each | `app_debug.c` |
| `DebugLog`, `MCDebugLog`, `DebugLogProofs` | EXTENDS `LogFormat` with threads, lock, table, interrupt service; programs for TLC; theorems | `app_debug.c`, `main.c` |
| `ListOfData` | abstract: a sequence of data and what `llist.h` promises of each call | (a specification) |
| `LinkedList`, `MCLinkedList`, `LinkedListProofs` | nodes and pointers; symmetry for TLC; theorems | `llist.c` |
| `HttpGet`, `MCHttpGet`, `HttpGetProofs` | one fetch and its connection; replies for TLC; theorems | `socket_http.c`, `socket_ip.c`, `socket_utilities.c` |

How state corresponds to code, where the names differ:

- **SpeedTest.** `running`, `tid` are the two fields of the slot struct; `stop` is
  `thread_all_stop`; `timer` the one-shot ITIMER_REAL. `st[t]` is the program
  counter of a thread, one label per call that another thread can come between:
  `lock`/`store` are the two halves of `total += n`. A tid is one thread the
  system grants; when none is left `pthread_create` fails. A header, a buffer and
  a received chunk each count one unit. `conn` is the receiving side of a
  connection. `MaxChunks` bounds what a server sends. The flags are plain
  variables re-read on every iteration, as an unoptimised build (the Makefile
  gives no `-O`) does.
- **ServerChoice.** A file is one of a few kinds of content, a fetch leaves any of
  them or nothing; distances and latencies are given by constants. `latency.txt`
  is absent at the start: an earlier run that was interrupted during a probe is
  not considered.
- **SocketServer.** `file` is the server's descriptor table, `fd[t]` a thread's
  `socket_fd`, `at[t]` the connection a blocked read waits on: a read keeps the
  socket it found when the number is closed, which is why it is separate from
  `file[fd[t]]`. `room` is how many descriptors the rest of the system leaves for
  connections, the same from start to end. The bytes of one write are read
  together. Reversal is symbolic: a reply is the word it reverses and whether it
  covers all of it.
- **MyAllocation.** A block is three header words and its payload. The program
  fills a block with its mark as soon as it has it, as `main.c` does.
- **ProcessSync.** `file` is the counters of the file's records, of which the
  last `Keep` are kept: a scan forgets all but the last record it passed, so older
  ones make no difference. `from` is `data_len` counted in records, `found` is
  `filter_data`. Opening and writing are two steps, so the file may exist and be
  empty; a scan of an empty file reads an uninitialised buffer, which ends the
  process or gives any counter.
- **RingBuffer.** Each call reads the other side's index once, copies one byte per
  step and then moves its own index, the order `lwrb.c` writes. `lwrb_advance` and
  `lwrb_skip` stand for hardware that fills or drains a linear block. The indices
  are `volatile` and written last; the model lets each side see the other's writes
  in program order, as an interrupt service does on one core.
- **DebugLog.** The module is the code with `DEBUG_ISR_ENABLE` 1; its programs
  without flush and interrupt service are those of the build without it. `owner`
  is the mutex, `at[t]` where a thread is, one step per byte and callback. A text
  is computed by `LogFormat` as a whole, then put byte by byte. A flush copies a
  byte out of the ring buffer and takes it off it in two steps, as `lwrb_read`
  copies before it moves its index: what keeps a second reader from copying the
  same byte is the lock, and the module would show it if it did not. `ItoaBytes`
  is the length of the array `s` of `custom_itoa_isr` (app_debug.c:570); a number
  with more digits is written behind it, which may give any text, so a conversion
  is a set of texts. `register` and `unregister` may be called by several threads
  at once; the caller has to see to it that all fit, the calls under way counted
  (`Defined`), since the code checks nothing. `ahead`, `members`, `from` and
  `flushed` are history. Widths of int and long are constants. The ring buffer is
  the queue `RingBuffer` implements.
- **LinkedList.** An address is a model value which `malloc` may give again after
  `free`. `last` is the last call with its argument and results, so that the
  abstract list says which call did what. `Refused` are the two calls that
  `llist.h` promises to carry out and `llist.c` does not.
- **HttpGet.** `pipe` is what the server has sent and the program has not
  received; `rbuf` keeps what an earlier receive left, since `strstr` and `strlen`
  read on into it. Four variables are history: `got`, what was received while
  select had reported the socket; `early`, how much of it had come before the
  piece that holds the end of the head; `missed`, something came after a timeout;
  `plain`, nothing received in time holds a zero byte, a further blank line or
  fills the buffer, which the code does not handle.

Definitions called "mutant" are plausible bugs: each property is violated when
one replaces the definition it is named after. They take no part in `Next`.

## 3. Runs

| run | configuration | shows |
|---|---|---|
| `speedtest` | upload then download, 2 slots, 3 threads, HTTP and HTTPS | types, `NoUseAfterFree`, `OneThreadPerSlot`, `TotalExact`, `OwnAlarm`, `ChunksAccounted`, `SocketClosed`, and that it implements `Meter` |
| `speedtest_live` | download then upload, 1 slot, 2 threads, fair | `ProgramEnds`, `AlarmStopsThreads` |
| `main` | all command lines of two options and two longer ones, 4 servers, 3 slots | types, `NearestRight`, `LowestWhenFirstHas`, `TestsLimited` |
| `socket` | 2 clients, 3 connections, up to 2 descriptors, 2 threads, fair | types, `OwnReply`, `OwnDescriptor`, `OpenFdsServed`, `Answered` |
| `socket_skip` | violation | after a failed read a thread reads a later client's connection |
| `allocation` | 6 growing blocks in two rounds, and 3 blocks of one size in any order | types, `Intact`, `FreedIsListed` |
| `allocation_remove` | violation | a block that was handed out stays on the free list |
| `process_sync` | counters modulo 6, scans of up to 4 records, fair | types, `OneWorks`, `Counted`, `BothWrite` |
| `ring_buffer` | 4 bytes of memory, two values, writes of up to 3 bytes | types, `ReadsTrue`, `BlocksExact`, and that it implements `BoundedFifo` |
| `debug_log` | 2 threads, 2 callbacks in a table of 2, a ring buffer of 2 bytes; int of 3 and long of 4 bits | types, `AllPortsAlike`, `TextRight`, `Contiguous`, `FlushedInOrder` |
| `linked_list` | 5 nodes, 3 data | `WellFormed`, and that it implements `ListOfData` but for two refused calls |
| `http_get` | 3 replies of up to 7 items, a buffer of 5, 2 descriptors, fair | `Accounted`, `FileIsBody`, `HttpEnds` |

A violation is a finding: TLC shows the code doing something else than the
comment quoted in `PROJECT.json` says.

**Bounds, and why they are enough.** Three threads for two slots let one slot be
used twice while the other is busy, so a thread id is overwritten while an older
thread may still exist; the two-test plan lets threads and alarms of one test meet
the next. `speedtest_live` needs only one slot, since slots are independent and
what could block is the second use of a slot. Three slots for four servers with a
tie exercise insertion at every place and at a full array. Three connections and
two descriptors make accept reuse a number while another thread still uses it, and
make it fail; one word is longer than the line buffer. With only one descriptor
left (`room`), the connection of an idle client keeps accept from the other client
for as long as it is idle, and with none nobody is ever answered: the cases
`Answered` has to speak of. Six blocks give first fit a list with whole takes,
splits and requests nothing fits; the heap bound of 216 words is never reached by
`main.c`'s program. Six counters let parent, child and a restart follow each other
several times, and four records let a scan pass first, middle and last ones. Four
bytes of memory make writes and reads wrap in every position and fill the buffer
to its last usable byte. Three bits hold the most negative int, whose negation
overflows, and numbers of one and of two digits in base 8 and of one in 10 and 16;
the other digits come from longs. An array of two characters lets an int in base 2
fit it or not. The programs of `MCDebugLog` that only print have one conversion
each, with every flag, width and precision; one more makes all calls. Five nodes
and three data let an ordered insertion meet smaller, equal and larger data and a
slot without data, and a deletion the first, a middle, the last and no position. A
buffer shorter than the reply makes the head and the body come in several receives
and fill the buffer exactly; two descriptors show one that is missed. Only the
runs of programs that may rightly stop (or, in `http_get`, crash) leave deadlock
unchecked.

**Fairness.** `SpeedTest.LocalFairness`: the scheduler runs controller and
threads, and an armed timer expires. `ServerFairness`: servers drain what is sent
and do not stay silent for ever; it is an assumption about the network, and the
program has no defence of its own where it blocks in a send. Socket: main, reaper
and threads are scheduled, a client that has written its word writes the newline,
its next call, and one whose reply has arrived reads it; users are not required to
type. The server has no time limit against them, so `Answered` is claimed for the
behaviours in which idle connections do not hold every descriptor for ever
(`Starved`). ProcessSync: a process that can run is run; kills are not
fair, and liveness is claimed for runs whose processes are left alone. HttpGet:
the request runs when it can; nothing is assumed of the server, and
`HttpEnds` starts from a connection it has closed or reset. It speaks of HTTP: the
loop of HTTPS ends when the select after the end of the data fails, and not after
a reset (socket_http.c:326-396). The other modules state safety and
refinement only, and have no fairness.

**Limits the runs make visible.** `OwnReply` and `OwnDescriptor` hold until a read
fails; after that `socket_skip` is what happens. `Intact` holds for programs of
one block size and for `main.c`'s test, where no request skips the head of the
list while it has a stale link and no split block is freed again. With first
blocks shorter than the number of blocks, or with mixed sizes, blocks are handed
out twice. `FreedIsListed` says that the list holds exactly the blocks the program
does not. It does not say what `main.c` (line 31) hopes of its test, that sbrk
does not move in the second round, for it does: the last block freed is the first
found, so the short requests split the long blocks (my_allocation.c:125) and the
long ones find none. `Counted` holds until a process reads a file left empty by
one that was killed in between. `TestsLimited` says what each option rules out,
and nothing of which operation `--upload_testing` runs: its text says "Run only
upload testing" (main.c:69) and `main` runs a download (main.c:218). `FileIsBody`
holds for replies by HTTP that are `plain`, whatever select reports: what arrives
after a timeout is not in the file, and of a head that comes in pieces the earlier
ones are. The caller is told that the response is saved (socket_http.c:79) in
these cases too, and also when a blank line within the body made the code drop all
that was received in front of it (161). `Accounted` counts the socket a request
leaves open when its file cannot be opened (socket_http.c:132). `TextRight` says
nothing of the side a number is padded on, and of the interrupt service only what
fits in `s` and has a width of one digit at most: a number of more than 20
characters, as `%b` gives for an int of 2^20 or more or a negative one, is written
behind `s` (app_debug.c:600-608), and the width of two digits is a wrong one
(1261). The code pads numbers in front also with the flag LEFT, whose test is
commented out (897). `ImplementsList` has two exceptions, `Refused`: a list that
lost its last node drops what is pushed (llist.c:96, against llist.h:47), and the
node at position 0 is not deleted (llist.c:155, against llist.h:68).

**What the models do as the code does, and is not what its text suggests.** An
HTTPS thread leaves its flag up and its socket open (speedtest.c:176). Slot 0 is
chosen without a latency (speedtest_utilities.c:157). The reaper stays at the
list's first node (socket_server.c:42), so no thread is ever joined. Data received
after a timeout is dropped from the file (socket_http.c:145). `connect_timeout`
returns no value when connect succeeds at once, and waits for one second whatever
its argument. Unregistering a callback only decrements the counter
(app_debug.c:1460, against app_debug.h:107): the callback stays in the table until
another takes its slot. Two more places are the findings.

## 4. Proofs

TLAPS proves these for every value of the constants, from the constants' types
(`ASSUME` in each module) alone. Besides types they assume that the list's nodes
are finitely many (an address space is, and on an infinite chain a walk would not
end), and that so are the threads of the log, whose calls under way are counted.

**SpeedTestProofs.** `IInv` is the conjunction of: the types; `LiveInv`, a live
thread is the one its slot names and the flag it will clear is up, so a slot with
flag 0 has no live thread and its id may be overwritten; `CtlInv`, where the
controller is in its join loop bounds the slots that can still have a thread, so
that none is left at the free; `LockInv`, the thread between load and store holds
the mutex and the total is still what it loaded; `AlarmInv`, alarms delivered
against tests begun; `SocketInv`; `AmtInv`, a thread adds one unit. Each part has
one lemma with one step per action. From it: `TypeCorrect`, `SlotsOutliveThreads`
(`NoUseAfterFree`), `SlotsAreExclusive` (`OneThreadPerSlot`), `NoLostUpdate`
(`TotalExact`), `AlarmsDoNotLeak` (`OwnAlarm`), `SocketsAreClosed`
(`SocketClosed`), and `ImplementsMeter`: a store is one whole transfer of the test
under way, all other steps are steps of the test's life or invisible. None of the
properties is inductive alone: `NoUseAfterFree` says nothing of which thread a
join waits for, which is what `LiveInv` and `CtlInv` add. `ChunksAreCounted`
(`ChunksAccounted`) counts sets: `HandInv` says that each download thread between
its receive and its store holds one chunk, so that a receive puts one in hand or
drops it and a store moves one from a hand to the total; `FewInHand`, that there
are finitely many, comes from the slots.

**SpeedTestMainProofs.** The lowest latency is a recursive function and the place
of a new server a choice; that the first is the lowest (`LowestRight`) and the
second exists (`PlaceRight`, `InsertedRight`) follows from the fact that a set of
numbers has a least element, since the provers take no induction rule. `ChoiceInv`
then carries the loop that reads the list: beside `NearestRight`, the array is
empty before the list (`Fresh`) and holds every server read while it has room
(`NoneLeftOut`). `MainInv` relates the option variables to the arguments read so
far, and what has run and is left to run to the options (`TestsRight`). Theorems:
`TypeCorrect`, `NearestAreKept` (`NearestRight`), `LowestIsChosen`
(`LowestWhenFirstHas`), `TestsAreLimited` (`TestsLimited`), for every list and
every command line.

**SocketServerProofs.** `IInv` is the types, where each client, main and each
thread may be (`SockInv`, `MainInv`, `ThreadInv`), `OpenFdsServed`,
`OwnDescriptor` and `Exclusive`: until a read fails, two threads never have one
descriptor. The last is what makes a close by one thread harmless to the others.
Theorems: `TypeCorrect`, `DescriptorsAreServed`, `DescriptorsAreOwned`.
`RepliesAreOwn` (`OwnReply`) follows a line through the kernel. `Placed` and
`Owned` say where a connection may be: not made yet, in one place of the backlog,
or accepted and under one descriptor. `LineInv` says of a client that is talking
that its line is still to be answered (`Pending`: what is in the thread's buffer,
on the way and unwritten make up the line, and no reply is on the way) or has been
(`Replied`: the one reply on the way is made of it).

**ProcessSyncProofs.** `IInv` adds to the properties that a pending signal's
process waits (`PendingWaits`), that what a scan has copied is the record it
passed last (`Scanned`, with `AtRest` before it starts), that a process about to
write has created the file (`Created`, `Written`) and still has the last counter
(`Fresh`), which `OneWorks` protects. `NextRecord` and `NoRecord` say what a
window of the file gives. Theorems: `TypeCorrect`, `TurnsAreTaken`,
`NoUpdateIsLost`, with kills and restarts at any point.

**RingBufferProofs.** `WriterInv` and `ReaderInv` say how far each side may still
go: the bytes it was promised when it looked at the other index, which the other
side can only increase. The lemmas before them are the arithmetic of the indices
modulo the size. Theorems: `TypeCorrect`, `NothingIsOverwritten` (`ReadsTrue`),
`BlocksAreExact`, `ImplementsAQueue` (`ImplementsFifo`).

**DebugLogProofs.** `LockInv`: a thread inside a call owns the mutex. `TableInv`:
the callbacks in the table are different. `RoundInv`: where the loop over the
table is. Theorems: `Inductive`, `PortsGetTheSame` (`AllPortsAlike`),
`CallsAreContiguous` (`Contiguous`). `FlushedAreInOrder` (`FlushedInOrder`: a
callback never gets a byte twice, not even in succession, nor misses one) needs
`FlushInv`: the numbers in the ring buffer follow each other up to the next one
(`RingInv`, whose lemma `IsrPutRight` is about the interrupt service writing
several bytes at once and wrapping); a thread that has copied a byte and not yet
taken it off the ring buffer has the first one there, and one that puts a byte has
the one in front of them (`CallInv`), for which the lock is needed; and every
callback whose slot the loop has passed has that byte while the others have the
one before it (`ServedInv`). None of these needs to know what the texts are.

`TextsAreRight` (`TextRight`) does. That part of the module starts with
`Recursion`: a function that TLA+ defines by recursion is a CHOOSE, and says
nothing until a function is shown to satisfy the equation. The provers take no
induction rule, so the function is built as the union of its finite beginnings,
and whatever is to hold for all of a domain is shown by a least counterexample
(`Descend`). With it `Power`, `Digits`, `Denotes`, `HexCells` and `Dump` can be
unfolded. `DigitsNeededRight` and `DenotesRight` are the arithmetic: a number has
as many digits as it needs, and reads back whatever fill, sign or prefix stands in
front of it. `IntegralRight`, `StringsRight`, `DumpIsRight` and `IsrIsRight` are
the four ways a text is made, for every `Conversion` and `IsrConversion`, for
every width of int and long, every length of a row and every length of the array
`s`. The statement has the limits of `TextRight` itself: numbers of the interrupt
service that fit in `s`, widths of one digit there (`print_isr` takes a second one
for eleven times the first plus it), and no side for the padding of a number. What
is assumed of the constants is in `BitsAssumption` (an int is no wider than a
long), `RowAssumption`, `ItoaAssumption` and `ProgramAssumption` (a program's
formats are conversions). `TypeCorrect` (`TypeOK`) and `TextsAreRight` come from
`LogInductive`, whose `LogInv` adds that the table has room for every call that is
still to change it, by the number of these calls (`CountInv`), and that a text is
its item's for as long as it is put (`TextInv`), not only when it begins.

**HttpGetProofs.** `DescriptorsAccounted` (`Accounted`) is inductive as it stands:
every way out of a request closes the descriptor once, or counts as lost.
`BodyIsKept` (`FileIsBody`) is not: `NetRight` says that what is received and what
is still on the way are together a beginning of the reply as long as nothing was
dropped after a timeout, `NothingYet` that nothing is sent or received too early,
`FileRight` that the file is empty until the first receive and then `InFile`: what
has been received in time, without the head, or without the last piece of a head
that was cut (`Kept`). It is shown for heads cut anywhere, also inside the blank
line, and for timeouts between any two receives; buffers that are filled, zeros
and further blank lines are excluded by `plain`, and HTTPS by the statement. The
lemmas before it are about the first blank line of a buffer and of a longer one,
for buffers of any size.

**LinkedListProofs.** `ListInv`: there is a chain, a sequence of different nodes,
that starts at `*list`, follows `next` to NULL and holds every allocated node. The
walks of `llist.c` are a recursive function; `WalkDefined` shows that it exists
and `WalkStops` that on a chain it passes the nodes up to the one the loop looks
for, again by a least counterexample. `Inserted` and `Removed` say what a pointer
assignment makes of the chain and of the data along it; one lemma per call puts
them together. Theorems: `Invariant`, `ChainIsKept` (`WellFormed`) and
`ListImplements` (`ImplementsList`): every call is the call of `ListOfData` with
the same argument and results, or is refused and changes nothing.

Only model-checked: liveness (`ProgramEnds`, `AlarmStopsThreads`, `Answered`,
`BothWrite`, `HttpEnds`), which these provers do not reach; and `MyAllocation`
(`TypeOK`, `Intact`, `FreedIsListed`): `Intact` holds for the programs of the run
and not for others (see the limits above), so that a theorem would be about these
programs.

## 5. Not modelled inside modelled programs

- SpeedTest: failure of `setitimer` and `malloc`; the HTTPS transfer loops, which
  no thread reaches because `server_cert` is never assigned; the formatting
  of speeds; leaked kernel objects of threads that are never joined. `--thread 0`
  is refused before anything starts.
- ServerChoice: parsing of URLs and lines; a server that hangs inside a fetch
  stops the program, which the model shows as a step that is not taken.
- SocketServer: host lookup, bind and listen at start-up; input longer than the
  client's buffer.
- MyAllocation: `my_realloc`, which nothing calls; a refusing `sbrk`; odd sizes
  (sizes are whole words).
- ProcessSync: the text of records, int overflow of the counter, and an orphan
  that still works when the program is started again. A window of 51 characters
  with several newlines is longer than its buffer of 50 (main.c:42, 51): the bytes
  too many either fall where nothing is read any more, or end the process, which
  the model allows at any point.
- RingBuffer: `lwrb_set_evt_fn` and its callbacks, which nothing sets.
- DebugLog: floating point and what is under `#if 0`; a register beyond the table
  and an unregister of an empty one, whose effect is undefined; what lies behind
  `s` and what writing there does other than to the text.
- LinkedList: a `malloc` that fails, except where the code looks; two threads,
  which `SocketServer` has.
- HttpGet: names longer than their buffers; the memory `freeaddrinfo` has freed,
  from which the address is read (socket_ip.c:119-124): a connection may fail for
  any reason. The file of a request by HTTPS is modelled, and no property
  speaks of it. `SSL_get_error`'s outcomes are an end, an error and data.

## 6. Plan

Done, in this order: `SpeedTest` with `Meter` and its proofs; `ServerChoice` and
`SpeedTestMain`; `SocketServer` and its proofs; `MyAllocation`; `ProcessSync` and
its proofs; `RingBuffer` with `BoundedFifo` and its proofs; `DebugLog` on top of
it; `LinkedList` with `ListOfData`; `HttpGet`; the file of `ProcessSync`.

Next:

1. `SocketServer` with the reaper repaired, to see what the unlocked list would do
   once the reaper moves; the present reaper hides that race.
2. `MyAllocation` with `my_realloc` and a refusing `sbrk`.
3. IPC P1 and P2, and the threads of the matrix product with its `while(1)`, as
   small modules over one abstract critical section.
4. Proofs: `MyAllocation` restricted to programs of one block size, where the free
   list is a chain as in `LinkedListProofs`.
