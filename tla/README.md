# A TLA+ development of ven

`ven` is a header-only C++ library for Windows servers: a TCP/UDP layer over
I/O completion ports (`src/ven/include/ven/net`), a reference-counted memory
pool for packets (`.../mem`), a thread-local block heap (`.../mem/tm`) and
utilities (`.../util`: logger, service control, crash dumps, lists, locks). This directory
holds TLA+ modules translated from those headers, TLC configurations that check
them on small instances, and proofs, checked by TLAPS, that hold for every
value of the constants. Paths below are relative to `src/ven/include/ven`.

## 1. The system

| Component | Files | State | Operations | Talks to |
|---|---|---|---|---|
| Session (TCP) | `net/session_tcp.h` | six flags (`is_connected_`, `is_receiving_`, `is_connecting_`, `is_disconnecting_`, `is_force_disconnecting_`, `is_release_`), socket, `cd_lock_`, `s_lock_` | `connect`, `send`, `disconnect`; completions `_on_accept`, `_on_conn`, `_on_recv`, `_on_send`, `_on_disc` | application callbacks, IOCP, acceptor |
| Send path | `net/sbuf.h`, `net/buf_array.h`, `net/sov_pool.h` | the current gather list `sov_`, `pop_cnt_`, the pool of SOVs | `push`, `pop`, `has_to_send`, `get` | sender threads and IOThreads under `s_lock_` |
| Receive path | `net/rbuf.h`, `SessionTCP::recv`, `_on_recv` | one block, `head_`, `tail_` | `check_size`, `check_arrange`, `change` | memory pool; slices handed to the application |
| Acceptor, session pool, server | `net/acceptor.h`, `net/session_pool.h`, `net/server.h` | `apool_`, `accepting_cnt_`, `connected_cnt_`, `free_`, `use_`, `total_cnt_` | `accept`, `accept_all`, `on_event`, `disconnected`, `stop` | sessions, IOCP |
| Session (UDP) | `net/session_udp.h` | socket, `force_close_`, one receive | `recv`, `send`, `force_close`, `on_close` | IOCP, application callbacks |
| Net, IOCP, IOThread | `net/net.h`, `net/iocp.h`, `net/io_thread.h` | servers and clients, the completion port, the threads | `run_*`, `stop_*`, `uninit` | everything in `net` |
| Memory pool | `mem/mem_pool.h`, `mem/mem.h`, `mem/buf.h` | free lists by size class, `Mem::ref_` | `get`, `ret`, `add_ref`, `rel_ref` | receive and send path, application |
| Serialization | `mem/archive.h`, `mem/buf.h`, `mem/sizer.h`, `mem/buf_conv.h` | `pos_` in a block, the mode of an `Archive` | `make_buf`, `make_from`, typed reads and writes | application packets, memory pool |
| Thread-local heap | `mem/tm/*` | per-thread lists, the shared heap's lists, `total_` | `get`, `ret`, `state` | any thread |
| Lists | `util/slist.h`, `util/slist_locker.h` | linked lists with a count | `push`, `pop`, `splice` | the pools |
| Lock-free list | `util/lfstack.h` | one 16-byte head (pointer and count of pops), `cnt_` | `push`, `pop` | nothing in the library uses it |
| Logger | `util/logger.h`, `util/time.h` | `LogThread::q1_`, `q2_`; the open file, `next_time_`, `cur_cnt_`; the buffer of stdio | `log`, `LogThread::loop`, change of file by day or by size | any thread |
| Service control | `util/win_service.h` | `Conf::state_`, what the service manager was told | `run`, `service_main`, `handler`, `set_state` | Windows, the program's `Event` |
| Crash dump | `util/crash_dump.h`, `util/stack_trace.h` | `cnt_`, one `.txt` and one `.dmp` file a dump | `install`, `install_thread`, `dump`, `create_dump`, `run` | any thread that crashes; ends the process |

How they interact: application threads call a session; the session starts
kernel operations; an operation's completion is delivered through the IOCP to
any idle IOThread, which runs the session's handler and, inside it, the
application's callbacks, which may call the session again. Sessions share
nothing but the pools. The acceptor takes sessions from its pool, and gets them
back from `_on_disc`. Packets are written to and read from blocks of the memory
pool by an `Archive`. Around all this stand a logger that any thread may call, and
the process itself: `WinService` drives the program, and a crash in any thread ends it.

What is hard here, and where it bites, is listed with lines in `PROJECT.json`
(`hazards`). In short:

* no flag of a session but `is_force_disconnecting_` and `is_release_` is
  written under one lock, so every handler races with every other one; the
  teardown must run once, after the last operation;
* `pop_cnt_` decides who must flush buffers that piled up (lost wake-up), and
  SOVs are used by the kernel outside the lock that hands them out;
* the receive block is shared with the slices the application keeps, while
  blocks are recycled, and unread bytes move when a packet straddles the end;
* the acceptor's lists and counters are each atomic, but nothing makes two of
  them atomic together; `stop()` waits on the counters;
* `stop()` takes locks in the opposite order of `_on_disc`;
* the pools' lists are cut and joined by pointer, by any thread, and their
  counters are read, and in the thread-local heap written, with no lock;
* one completion port serves every server and session of a `Net`, `stop_udp`
  closes it, and nobody waits for the threads behind it;
* a logged line passes a thread's hands, two queues, the buffer of stdio and a file
  chosen by the time it was stamped; the process may end at any of these places;
* a service's state is written by two threads, each in two steps (the manager
  first, the variable after), and reported as stopped before it is;
* several threads may crash at once, and the first to finish takes the others with it;
* `pop` of the lock-free list reads the head and its guard one after the other;
* measuring, writing and reading a packet are three walks that must agree.

## 2. Modules

| Module | Models | Properties |
|---|---|---|
| `SendQueue` | `send`, `_on_send`, `SBuf`, gather lists, SOV pool | ownership of SOVs, exact `pop_cnt_`, no stranded buffer, order of gather lists, delivery |
| `GatherChannel` | nothing in the code: what the send path promises | `SendQueue` implements it (`ChannelFairSpec`) |
| `RecvBuffer` | `_on_recv`'s loop, `RBuf`, `Mem` references | room to receive, unread bytes and slices intact, exact references |
| `SessionTCP` | the life of a session | callbacks alternate, clean buffers, teardown when idle, disconnection ends |
| `TcpServer` | acceptor, session pool, `Server::stop` | exact counters, a session in one place, `stop()` ends |
| `SList` | the intrusive lists, down to `next_`, `start_`, `end_`, `cnt_` | `Holds`: a list is the sequence of its nodes |
| `SizeClass` | what both pools have: blocks in lists, how many, who has them | base of the next two |
| `MemPool` | a size class of `MemPool`, shared by threads | free list sound and complete, exact `total_`, `use_` in range |
| `TlsMemPool` | a size class of `tm::TlsMemPool`: thread lists and heap | a block in one place, bounded caches, exact `use_` |
| `LFStack` | `push` and `pop` at each access to memory | a node in one place (refuted) |
| `Net` | IOThreads, completion port, UDP sessions, TCP clients, `run_udp`, `stop_udp`, `run_tcp_client`, `stop_tcp_client`, `uninit` | one receive per session and client, what is used after its delete and why, threads end |
| `Archive` | `Archive`, `Sizer`, `Buf::set` and `Buf::get` | what is read is what was written, a packet fills its block |
| `Logger` | `LogThread`, `DailyLog`, `RollingLog`, stdio, restarts | each line once, or dropped or lost as named, in order, in the file of its day, files bounded in bytes, what a kill costs, the queue drains |
| `WinService`, `CrashDump` | the service's two threads; handlers, dumps, the end | composed by `Process` |
| `Process` | the program: both of them over one `alive` | cleanup, the loop ends if asked, the crash leaves its report, the end comes |
| `SendQueueProofs`, `BufProofs` (`RecvBuffer` and `Archive`), `SessionTCPProofs`, `TcpServerProofs`, `PoolProofs` (the lists and both pools), `NetProofs`, `LoggerProofs`, `ProcessProofs` | | the theorems |
| `MC*` | | model values and symmetry for TLC |

### SendQueue
A thread is at `pc[t]`: inside `send` before its `s_lock_` section (`push`),
before `WSASend` (`wsasend`), in `_on_send` before its section (`onsend`) or
after it. One `s_lock_` section is one action, since `SBuf` is only touched
there: `PushBuf`, `PushEmpty`, `OnSend`. `WSASend` is a step of its own because
it runs outside the lock; it may fail at once, and `_on_send` then runs inline.
A completion may be taken by any idle IOThread in any order. A buffer is the
number of its `push`; a gather list is the sequence of its numbers.
`Drop` is the flag half of `_disconnect`, at any time.

### RecvBuffer
A stream is the sequence of natural numbers, so that a byte's value is its
place in the stream; block contents, the unread window and the slices are
intervals of it. Sizes are a small set of units. `Deliver` cuts a packet and
may keep the slice (a `Buf` copy, `CopiedRef`); `Release` gives it back, on any
thread; `Change` is `RBuf::change` with both its callers, `NeedMore`
(`check_size`) and `CheckArrange`. A block goes to its pool when its last
reference does and comes out again with any content.

### SessionTCP
One action per access that another thread can see between: reading
`is_connected_`, setting `is_receiving_`, posting `WSARecv` are three actions;
an `s_lock_` section is one; `cd_lock_` is an owner variable because it is held
over several steps and over callbacks. Every path through the class ends in
tail calls, so a program counter and the callback it returns to are all there
is of a stack. What `SBuf` and `RBuf` hold is left to the two modules above:
here they are set up or not, and touching them otherwise, or touching a deleted
session, ends the behaviour (`crash = "gone"`). The lockers of `_on_disc` and of its callers
leave `cd_lock_` only after `delete this`, on every release: `Unlock` is a step of its
own, which goes well or ends the behaviour (`crash = "unlock"`). `Setups` says which session and which
program: whose it is, how many IOThreads there are, and what is called from where;
a behaviour chooses one of them initially.

### TcpServer
Each list operation and each counter access is an action. Of a session there
remain four places (pooled, being accepted, live, in teardown) and `cd_lock_`.
`PoolPop` creates `session_inc_cnt_` sessions when none is free. A failing
`AcceptEx` on an open socket (`MayFail`) drops the AOV and the session as the
code does. `stop()` is seven steps of `Main`, and while it runs `Main` has
`Net::lock_` (`NetBusy`): `Net` calls it only with that lock. With `CallsNet` an `on_disc` of
the application may call the `Net`, for which it needs the lock too (`CallNet`).

### SList, SizeClass, MemPool, TlsMemPool
`SList` has each list operation as an operator from a list and the field
`next_` of every node to the new list and the new `next_`, branch by branch
(`Pop` decides from `cnt_`, `PopMany` from `next_`). `Holds(l, next, seq)` is
what a list is meant to be, and the only place where it is said.
In `MemPool` a locked operation is one action; `get` is two (`GetFirst`, `GetLocked`), because its first
`pop` is outside the section that grows the class, and `state()` is two reads.
In `TlsMemPool` a thread's own lists change with its own steps, the heap under
its lock, and `total_ += cnt_` is a read and a write; the steps in which a
thread holds a chain in its hands (`ml`) are separate. `clash` records that
two additions crossed, `calm` that nobody else worked while `state()` ran. The
Heapts are visited in any order. Blocks above the largest class go to the
system's allocator at once and are left out of both modules.

### Net
`Run` is `run_udp` with the session's `init`; `StopPort`, `StopForce` and
`StopDelete` are the three steps of `stop_udp`; `Uninit`, `DisconnectClient`,
`ClosePort` and `DeleteThread` those of `~Net`. A receive is `pending` in the kernel or `done` in the port's
queue; `Dequeue` hands it to any waiting IOThread, which goes through `_on_recv`
in four steps, one for each look at `force_close_` and one for the callback.
`bound` is lost on a session started after `stop_udp`: `IOCP::regist` then makes a port of
its own that no thread serves, so that session stays deaf. A session,
client or thread that is used or deleted after it was deleted is put in `bad`, which ends the behaviour:
by a thread, by `Main`, or by the kernel, whose `Arrive` writes `rov_`, `client_addr_` and the
buffer. `crossed`, `abandoned`, `outlasted` and `stray` record, object by object, how
it can come to that. `sendto` completes at once and changes nothing. Main is
one thread: `stop_udp` and `stop_tcp_client` take no lock, and two callers would need to
share the pointer they clear.

Of a TCP client, whose steps `SessionTCP` has, there remain whether it is
connected (`tcp`), `is_release_` (`rel`), its receive (`rov`), and whether
`tcp_clis_` has it (`clis`). `Shut` is `disconnect(true)`, called by
`stop_tcp_client` (`StopClient`), by `uninit` for every client, and by the application on
the session itself (`Release`), of which `tcp_clis_` hears nothing: that client is
deleted when its receive has been handled, and `uninit` uses it again (`stray`).
The teardown is part of the step that handles the last receive (`OnRecvClient`).

### LFStack
Every read and write of memory that another thread can see is an action: the
two reads of the head in `pop`, the read of `next_`, the exchange of both words,
and the exchange of the pointer alone in `push`. What goes wrong needs two threads:
one reads `ptr_`, the other pops that node and another and pushes the first back,
the one then reads `pop_cnt_`, which is now the current one, and `next_`, which a third
operation changes again: the exchange compares equal, since `push` leaves
`pop_cnt_` alone, and puts a stale `next_` at the head.

### Archive
`Type` are the types a program serialises, each a `prim`, a `string`, or a `vector`, `set` or
`map` of types of less depth; a value is what C++ holds in it (`Val`). The three walks `Size`,
`Set` and `Get` are functions on `Type`, each given by what it is for the types below
(`SizeWith`, `SetWith`, `GetWith`), as the compiler instantiates the templates; `Measured`,
`Written` and `Fetched` are their loops over a container, and a buffer is the set of cells
that `memcpy` wrote. Sizes and positions are natural numbers: no packet comes near 2^32 bytes. One action
is one `ar << field`, in the mode the `Archive` is in. The unordered containers are
walked in an arbitrary order. Reading changes an object that need not be new:
an empty string leaves the old one, elements are added to those there.

### Logger
`Log` stamps a line, `Queue` or `WriteSync` hands it on: another thread may
stamp or write one in between. `Swap` and `WriteNext` are `LogThread::loop`.
`DailyFiles` and `RollingFiles` give the file that `write` chooses, with the
outcome of every `open`. `writes` are the calls of `Logger::write` that can still be seen, in
order, each with the file its line went to, or `NoFile` when none was open: such a line is
`dropped`, and the process goes on. `flushed` is how much of `writes` stdio has passed on. A line has a
length in bytes, and `Size` counts the bytes of a file. `Exit` closes the file, `Kill` does
not, nobody waits for the `LogThread`; `Start` is the next process on the same
files. A period is named by the time it begins, as `DailyLog` names its files.

### WinService, CrashDump, Process
`WinService` has `service_main` (`stage`), the control handler, and their two
`set_state` calls (`todo`): a step that tells the manager and one that stores the
state. `NotConnected` is a service started by hand. `CrashDump` has the steps of
`run`, each file they leave, and `Finish`, with which the program ends after
a crash. A `.txt` may not open, and each write to it may fail (`Refuse`), which the code does not
look at; `refused` remembers what the file did not take. `Process` composes them over the one variable they share, `alive`: the
threads of the service are among those that may crash, and a thread that writes
a dump does nothing else meanwhile.

## 3. Runs

All runs finish within three minutes. A run with `CHECK_DEADLOCK FALSE` has it
because the program may rest: no caller and no packet need ever come.

| Run | Instance | Shows |
|---|---|---|
| `SendQueue` | 2 users, 2 IOThreads, 3 SOVs, lists of 2, 4 buffers | the invariants of the send path; every accepted buffer is sent or the connection drops; sends come back; it implements the fair `GatherChannel` |
| `RecvBuffer` | 3 blocks of 2 or 4 units, header 2, packets to 5, 8 units of stream, 1 kept slice, symmetry | the invariants of the receive path over every cut of the stream |
| `Session` | three setups, 2 connections each: a client with 1 user and 2 IOThreads, and a client and a server with 1 IOThread and calls inside callbacks | `on_conn` and `on_disc` alternate, clean buffers, `disconnect()` ends in `on_disc`; with one IOThread, no use after teardown but that of `cd_lock_` by the thread that deletes, and `disconnect(true)` ends in delete |
| `TcpServer` | 2 IOThreads, 2 AOVs, 2 sessions (1 made at the start), failures, an `on_disc` that may call the `Net`, and stop | exact counters, one place for a session, `stop()` ends, with its exceptions |
| `MemPool` | 3 threads, 5 blocks, 1 at first, 2 at a time, symmetry | the free list of a class that grows under several threads, `state()` beside them |
| `TlsMemPool` | 2 threads (one reports), 6 blocks, three configurations, symmetry | places, caches and counters of the thread-local heap |
| `Net` | 2 IOThreads, 2 UDP sessions, 1 TCP client | the receive loops, early deletes with their four causes, the end of the threads |
| `Logger` | 2 threads; daily and rolling, queued or not; 3 or 4 lines, in the rolling logs of 1 or 2 bytes, days of 2 units, the clock to 6, 2 or 3 files of 1 byte, 1 failed open, 2 lives | the fate, bytes, order and file of each line over exit, kill and restart; the queue drains |
| `Process` | console, service and Linux; 1 worker besides `main` and `handler`, 2 dumps, 2 controls, 2 of both together, a stack overflow and SIGINT as causes of a crash, 1 file that does not open or write that fails | cleanup, why the loop ends, the report of a crash, the end |
| `Archive` | 6 packets of 1 to 3 fields: strings, vectors, sets and maps, two deep, of up to two elements | what is read is what was written |
| `AcceptStalls` (violation) | 1 AOV, 3 sessions, no failure, no stop | an accept that nobody posts again |
| `LFStack` (violation) | 2 threads, 2 nodes, 4 pops | a node lost or handed out twice |

Bounds. The send path's hazards need a list under way, a full list overtaking
it and a partial list waiting behind both: 3 SOVs and, with lists of 2, 4
buffers. The receive path needs a packet larger than the
default block, one straddling the end, one cut in its header, and two moves
while a slice is kept: 8 units with packets up to 5 hold all of these. A session
needs two connections (a leftover of the first meets the second) and two
sends (one under way, one waiting). The server needs two accepts and fewer
sessions than would serve both at all times. `MemPool` needs two threads that
find the list empty, a third that gives back in between, and two growths.
`TlsMemPool` needs two growths at once (6 blocks, 2 at a time), new blocks
that all stay with the thread and some that go to the heap, `free_` lists of one
and of more. `Net` needs a thread inside a handler while the session is stopped,
another that waits, a session besides the stopped one, and a client that is
disconnected while its receive is pending, queued or handled. `Logger` needs three days
(a clock of 6), so that one can pass without a line, a line overtaken by another
thread's, and files that fill up, wrap around and meet a restart: with four lines of up to two bytes over three
files of one byte, a file reaches what `RollingBounded` allows with one restart, and with one failed open,
while another has room (with both at once it stays two bytes below). `Process` needs two
crashes at a time, a crash beside a control, and two controls (one
repeats an old state, one stops); a third event only repeats these. Stack overflow is the cause with a
helper thread, SIGINT one with a swapped name; what fails to be written is in one file,
since the files of two dumps are independent. `Archive` needs a container
of containers, of no and of several elements, and an object used again. `Wrap` stands for 2^32: 8 or 16
is more than all counted things together, so an underflow shows and no honest
count wraps.

Fairness. A thread inside a call goes on (`WF` of each thread's steps; locks
are held over finitely many steps); an operation given to the kernel
completes; a receive only has to complete once the socket is closed, because a
silent peer may be silent for ever. Nobody has to call, connect, hang up or
stop. An idle IOThread takes a completion as long as there is one, which is
what `GetQueuedCompletionStatus` in `IOThread`'s loop does. The `LogThread` runs as
long as the process; the functions of a service's `Event` and the dispatcher return;
a thread that writes a dump finishes it. Nobody has to log, to crash or to send a control.

What the passing runs assume of the application and the machine, because the
code goes wrong without it:
* `connect()` is called again only after `on_disc`; otherwise the second
  connection can find the buffers of the first;
* no call inside `on_conn` deletes the session, be it `disconnect(true)` itself or
  `disconnect()` with an `on_disc` that releases (`KeepsInOnConn`, under which
  `NoCrash` is stated): `_on_conn_init` goes on to `recv()` of what is deleted;
* a server session has one IOThread (`Ordered`, under which `Alternation` and `InitClean`
  are stated): with two it can be accepted again while a thread of its last connection is
  still on its way into `_disconnect`, and as `_on_accept` takes no lock, that thread tears the new
  connection down before its `on_conn`;
* `pop_cnt_` and `cnt_` of `tm::UnitMemConf` are not 0: `get` would use a null
  pointer (`TlsAssumption`);
* the time zone has no daylight saving (`Time::add` leaves `tm_isdst` as it is, so a
  day of `DailyLog` may be off by an hour).

Exceptions built into properties, each a real behaviour of the code:
* `NoCrash`, `TeardownWhenIdle` and `ForcedReleaseDeletes` are stated for
  `Sequential` setups, where one IOThread runs everything but `connect()`. With two threads
  each is false: `recv()` tests `is_connected_` (`net/session_tcp.h:349`) and sets
  `is_receiving_` only at 352, and the teardown of a `disconnect()` in between does not see
  the receive;
* `ForcedEnds` excuses `Wrapped`: a sender of the last connection, late in its
  `_on_send`, takes the fresh `pop_cnt_` from 0 to 2^32 - 1, the session "is sending"
  for ever and `on_disc` never comes; and the program that has ended (`crash`), by the race above or by `Unlock`;
* `NoCrash` excuses one use after the delete, on every release: the thread that ran `delete this`
  (`net/session_tcp.h:262`) leaves the deleted `cd_lock_` (245 and 66 or 409). The
  property says that nothing but this comes after the delete;
* `StopEnds` excuses a session dropped by a failed `AcceptEx` or context
  update (`lostSes`), a session connected after `use_` was copied
  (`LateSession`) and two lock cycles: `SessionPool::lock_` with a session's `cd_lock_`
  (`LockCycle`), and `Net::lock_` with an `on_disc` that calls the `Net` (`CallCycle`). In each
  of them `stop()` waits for ever;
* `UseExact` of `TlsMemPool` excuses `clash`: `total_ += cnt_`
  (`mem/tm/mem_alloc.h:53`) of two threads at once loses an addition;
* `SafeDelete` of `Net` excuses, each for that object only: a session whose receive was
  being handled as `stop_udp` went on (`crossed`), a session that `stop_udp` deleted with its `WSARecvFrom` under way,
  which is every one that listens (`abandoned`, `net/session_udp.h:151-157`): the kernel then writes into freed memory;
  an IOThread that takes longer to end than `uninit` sleeps (`outlasted`); and a client
  that the application released itself, which stays in `tcp_clis_` (`stray`, `net/net.h:230`). An object that
  none of this befell is never used after its delete.
* `OneReceive` excuses a `WSARecvFrom` that failed at
  once (`deaf`), after which the code does not listen again. `ThreadsEnd` holds
  because a closed port ends all threads, those of other sessions too:
  `stop_udp` (`net/net.h:158`) closes the port of the whole `Net`, and `io_thread.h:45` leaves the loop;
* `UseInRange` of `MemPool` excuses a growth between the two reads of `state()`;
* `AcceptingExact` is stated modulo `Wrap`, because a completion that overtakes
  `accepting_cnt_++` takes the counter below 0 for a moment;
* `DailyFile` promises a line the file of its day only as long as no line was
  overtaken by one of a later day and no day passed without one: the log moves on
  by one file a line, on the time the line was stamped (`util/logger.h:382`);
* `LineOnce` names two ways for a line to be lost: dropped because no file is open (`util/logger.h:88`), while
  the process goes on, and with its process;
* `RollingBounded` allows less than one line, since the size is looked at before the write, a line more for each
  restart and each line that found no file, and nothing is bounded once all files are full: the file
  opened in place of a full one is not tested (`util/logger.h:435`);
* `Durable` concedes the buffer of the open file: the flush is commented out (`util/logger.h:162`);
* `Cleanup` excuses a service that was stopped (`CutShort`): `handler()` reports STOPPED
  at once (`util/win_service.h:202`), and the process may end before `on_uninit` is through;
* `EndsIfAsked` excuses `stale`: a control that is handled while `service_main` is in `set_state`
  puts START_PENDING back over RUNNING (207), which ends the service's loop;
* `Ends` speaks of a STOP that finds the state RUNNING, since one that comes during `on_init`
  is overwritten and lost, and not of a service whose `on_init` fails, which stays
  in START_PENDING for the manager;
* `LastWord` excuses what a `.txt` that did not open, or a write that failed (`util/crash_dump.h:129`), did not
  take (`refused`), a helper thread that did not start (stack overflow), the stack trace of threads that
  were in DbgHelp together (`mixed`), and SIGINT and SIGTERM, which are told under each other's
  name (250-258);
* `RoundTrip` excuses a string, vector, set or map that was not empty in the object
  read into.

## 4. Proofs

For every set of threads, SOVs, any capacity and any number of buffers
(`SendQueueProofs`); for every set of blocks, size classes, header, packet and
default size and every stream, and for packets of fields of any types, nested to any depth, with any values
(`BufProofs`); for every set of nodes and any
lists, every set of threads and blocks, any
numbers created at first and at a time, and any sizes of the threads' batches (`PoolProofs`); for every client session with any users and
finitely many IOThreads, every session with one IOThread, and any calls in its callbacks
(`SessionTCPProofs`); for any finitely many IOThreads, AOVs and sessions, with or without failures
(`TcpServerProofs`); for every set of
IOThreads, UDP sessions and TCP clients (`NetProofs`); for all threads, kinds of log, lengths of a day,
sizes and counts of files, and any number of lives (`LoggerProofs`); for any finite set of workers
and any number of dumps and controls (`ProcessProofs`). Assumed of the
constants: `SendQueue`'s capacity is positive, `Null` is not a node, the blocks
are finitely many and fewer than 2^32, no class of `TlsMemPool` is configured to create or move
no blocks at a time (`TlsAssumption`), as are the AOVs with the threads and the sessions
(`NumberAssumption` of `TcpServer`), the sizes of `RecvBuffer` fit each
other as `SizeAssumption` says, types are made of types of less depth, and the header's two are
among them (`TypeAssumption`), a packet's values are of its fields' types (`ArchiveAssumption`), and the causes of a crash are no words that the
report uses for something else (`ProcessAssumption`). The types are proved and
not part of a run.

*Send path.* The inductive invariant `QueueInv` is the conjunction of the
module's invariants and `IdleEmpty`. `SOVOwnership` says an SOV is in exactly
one of: current, free, in a thread's hands, under way, not made. `CountExact`
says `pop_cnt_` is the number in hands or under way; it needs ownership, since
an SOV counted in two places would be decremented twice, and cardinality facts
about adding and removing one. `NeverFull` needs that a full current list is
always taken in the section that filled it. `NoStranded` needs `CountExact`: if
nothing is under way, `pop_cnt_` is 0, and then the last decrement saw it.
Two more invariants stand on that one. `Placed`: a buffer accepted is released or at one place of one
list, from which `ReleasedOnce` follows without counting. `Ordered`: the current list is younger than all that was taken, and a list that is not
full, taken when nothing was under way, is older than all others that are; `OvertakerIsFull` is
inductive with that. The safety half of the refinement (`ImplementsChannel`) maps each
step to one of `GatherChannel` or to a stutter; the channel's bound on what is
accepted holds because each thread before its `push` has one buffer of `MaxMsg` (`Bounded`).

*Receive path.* `RecvInv` = `BlockInv` (types, sizes, references) /\ `DataInv`
(window, slices, unread bytes) /\ `Room`. References come first: that no block
in use is pooled is what makes contents stable. `HeldBelow` (slices lie
below `head_`) is the strengthening that lets a receive write at `tail_` without
touching a slice.

*Session.* Of a client's session `ClientInv` is inductive whoever calls it. The right to announce a
connection is one thing that is handed on: `is_connecting_`, the kernel's completion, the thread
in `_on_conn` (`OneBegins`); so is the right to end one (`OneEnds`), taken under
`cd_lock_` (`Locked`) by whoever sets `is_disconnecting_` first. `Between` says what keeps the two apart:
until the buffers are set up, `is_disconnecting_` is still set by the last teardown, and turns
away who is late. `InTurn` and `InitClean` follow. With one IOThread (`Sequential`) everything
can be said of the one thread i that is inside the session (`Alone`): what it is nested in
(`Calls`), that `is_receiving_` stands for one receive (`Receives`), that `pop_cnt_` counts the sends
(`Sending`), that the buffers are there when needed (`Present`), that whatever is left when `is_disconnecting_`
is set is over (`Ending`), and who may delete (`Deleting`). `NoCrash` and `TeardownWhenIdle` follow.

*Server.* `ServerInv` begins with what a thread has in hands at each place (`Hands`) and that no AOV is with
two of them (`AOVOnce`). On that rests `Places`: a session is pooled, live, with one AOV, in
teardown or lost (`LostTogether`: with the AOV that had it), and no two AOVs are accepting the same.
`SessionOnce` is `Places`, counted. `AcceptingCount` is `AcceptingExact` with nothing modulo, which is inductive
since AOVs and threads together are fewer than `Wrap`.

*Lists and MemPool.* `PopHolds`, `PushHolds`, `PushListHolds` say what an operation does
to the sequence a list holds; `ChainHolds` that the new blocks make a list.
`PoolInv` adds to the properties that `total_` is the number of blocks made
(`MadeCounted`) and that what `state()` has read is still `total_` unless the
class grew (`SeenExact`). `FreeList` carries a witness sequence through each
operation; the counting lemma `FreeCount` turns it into the cardinality that
`TotalExact` and `UseInRange` need.

*TlsMemPool.* `pop(cnt, SList&)` finds the end of what it takes by walking along `next_`; that after k
steps the walk is at node k + 1 of the sequence (`WalkIs`), by the least number for which it would
not be, gives `PopManyHolds`, and that the nodes of a list are what they are said to be (`NodesIs`).
`Moved` is the lemma for every step that moves blocks: when it changes two lists, and `next_` of no node
of another, `BlockOnce` holds again as soon as the two hold what they held between them, with or without the
block that goes out or comes back. `Stage` says what each thread has in hand where, so that
lists that a step overwrites are empty, and the lists it cuts are long enough; with it `CacheBounded` is
inductive. `Counted`: unless additions crossed, `total_` is the number of blocks made but for those of
threads still in `total_ += cnt_`. `Reports`: what a report that nobody disturbs has so far is the number
of blocks in none of the lists it has subtracted (`Seen`); those are disjoint, so `Less` does not wrap
(`Subtract`), and when it has visited all threads what is left is out (`UseExact`): a thread that
`HeaptList` does not know has no blocks, and one at rest has none in hand.
`SizeClass` is there so that one module can extend both pools: it declares what they share, the lemmas
about lists are stated once, and each theorem is about the specification of one pool (`PoolSpec`, `Spec`).

*Net.* `NetInv` adds to `OneReceive` what it rests on: a session never created has
nothing going on (`Untouched`), and while `stop_udp` is under way the port is
closed (`Stopping`). `Undisturbed` is why deletes are safe, said of each object that is not
itself one of the exceptions: a session being closed has no handler, a closed port
gives it none, and a deleted one has no receive in the kernel (`SessionsKept`); a deleted thread has
ended (`ThreadsKept`); a client is deleted by the handler of its only receive, and is no
longer in `tcp_clis_` then (`ClientsKept`).

*Logger.* `LogInv` says of every place a line can be in what `ThreadOrder` says of the
files, and that the places come in the order `writes`, `q2`, `q1`, a thread's hands
(`QueuesInOrder`, `HeldLast`): a thread logs no line while it holds one, so what it holds is the
latest of its lines. Nothing is left in queue or hands when the process
is gone (`NothingLeft`), so a new life starts after all lines of the last
(`WrittenSoFar`). `Durable` is inductive on its own: the logger leaves a file
only by closing it, and that flushes all. `LineOnce` needs `OnceInv` (each number given out is at one of six
places, `Placed`), and `LostBefore`: nothing that is lost with a process was logged by the one that lives. `RollingBounded` needs `RollInv`: as long as a file has room, the files visited since the
process began are an interval of the circle that starts where it began and ends at the current one (`Round`); those
were filled, each by less than a line more than its size, as a line has `most` bytes at most, and only a restart or a
failed open, which begin a new round, adds a line (`Excess`). `DailyFile` needs `DailyInv`: lines are
stamped after the process began (`Stamped`), the log is never at a later day than the latest of its
lines, and keeps up with them if no day is without one (`OnTheDay`); `RightFiles` says which file each line went to.

*Process.* The service and the crash handler share `alive` only, so `ServiceInv` and
`DumpInv` are proved apart, each undisturbed by the other's steps. `Unasked` lists the
combinations of stage, state, report and unfinished `set_state`s of a service that nobody has asked to
end, as long as no stale state was stored; from them `EndsIfAsked` follows, and
that STOPPED is not reported before `Over`, from which `Cleanup` follows.
`DumpInv` says what a thread's report has told at each of its steps (`Reported`), or was refused; files and
refusals only grow (`Adding`). It needs
that no two threads have a number in common; that a number is at most `MaxDump`
follows by counting the threads that have called and not yet taken theirs (`Counting`).

*Archive.* `Codec` says of a type all that the others need to know: a value that fits is written to the
bytes that `Size` measured and no others (`Untouched`), and is `Held` there, that is, in every buffer that
agrees with this one on those bytes `Get` reads it, over the same number of bytes, unless `Keeps`.
`CodecCorrect` proves it by induction on the depth of the type (`TypeInduction`, from the least depth
for which it would fail). First `ValIs`, `SizeIs`, `SetIs` and `GetIs`: the recursive definitions have the
value their equations give. The loops are folds (`FoldExists`, then `MeasuredIs`,
`WrittenIs`, `FetchedIs`). For a container, `WrittenHolds`: after n items those written are held at the
offsets measured, since an item touches none of the bytes before it (`HeldKept`), and the reading loop finds them
one after the other: all elements into a vector, whichever order a set or map
was walked in. `ArchiveInv` has the offsets of the fields as a witness (`IsOffsets`, `Placed`): measured
up to the field, written up to it, or read up to it, while all are held. `Framed` is where the last
offset is the length of the block, and `RoundTrip` what reading leaves.

Only model-checked: liveness, and with it the fair half of the refinement (`ChannelFairSpec`), which are out of
the prover's reach; and the two runs that refute something (`AcceptStalls`, `LFStack`).

## 5. Not modelled

`bind`, `regist_iocp` and socket options (their failure is logged only), the
text of messages and state reports, addresses, string and file helpers, the
wrappers of threads and locks, and `PreventSetUnhandledExceptionFilter`, which
nothing calls. A second thread that calls `Net` beside the first: `stop_tcp_client` changes
`tcp_clis_` without `lock_` (`net/net.h:116`). Of
`Logger`, the level (which `Logger` never tests), and a line whose text does not fit its
`CharArray<1024>` (then `len()` is not its length). `fwrite` and `WriteFile` take all of a piece or nothing. Of the Linux half of `WinService`,
that `linux_kbhit` (`util/func.h:394`) waits in `getchar` for a key, so that a round of the loop
may last for ever.

Seen on the way, and not a matter of interleaving, so no run shows it:
* with `disconnect(true)` on a session that is not connected, `is_release_` is
  stored and nothing is ever deleted, whatever the comment at
  `net/session_tcp.h:63` promises; `SessionTCP` models it (`Disconnect`), and
  `ForcedReleaseDeletes` is stated for a live connection only;
* `handler()` compares the code of a control with that of a state: STOP is 1 like
  STOPPED, INTERROGATE 4 like RUNNING, and only by that does it mostly do what
  it should (`Stop`, `Repeat` of `WinService`);
* as a service `run()` returns whether the dispatcher failed (`util/win_service.h:94`), on a console
  true, and on Linux whether `on_init` succeeded;
* `stop_tcp_client` of a client that is not connected takes it out of `tcp_clis_` and deletes
  nothing, and `uninit` closes the port right after it disconnected the clients, so most are
  never deleted, in spite of the comment at `net/net.h:108`;
* `SessionPool::uninit` deletes the sessions as soon as the last one is back
  (`net/session_pool.h:57`), while the thread that gave it back still has its `cd_lock_` and goes
  on to `accept_all` of an acceptor that is deleted too.

## 6. Plan

Every safety property that the runs check is proved. What may be added:
assumptions of the proofs that could be weaker (more than one IOThread per session in `NoCrash`, where the
code allows a crash that would have to be named).
