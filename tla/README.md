# TLA+ models of the concurrent programs of this repository

The repository collects C and C++ projects. Most of its concurrent code is in
`src/unixipc` (locks, semaphores, message queues and the programs over them)
and `src/unixNetV1` (clients and servers); a chat server, an RCU module, list
macros and a few small programs stand beside them. This directory models that
code, checks it with TLC and proves most of its safety properties with TLAPS.

## The parts of the system

| Part | What interacts | What is hard about it |
|---|---|---|
| `my_rwlock`, `my_rwlock_cancel` | threads, two condition variables, three counters | callers overtaking woken waiters; whom an unlock wakes; handlers that run half-way through a call |
| `my_pxsem_mmap`, `my_pxsem_svsem`, `my_pxsem_fifo` | processes around one name, one count | creation races, failing and killed creators, a name that is reused, lost signals |
| `my_pxmsg_mmap` | processes around two linked lists in a mapped file | one condition variable for senders and receivers; killed processes |
| `mutex`, `pxsem`, `lock`, `pxshm`, `pxmsg`, `svmsgmpx1q`, `svmsgmpxnq` | producers and consumers, clients and servers | termination, order, bounded queues, locks left by killed processes, signals |
| `unixNetV1`: `rtt`, `sigio`, `bcast`, `nonblock` | a process, its signal handlers, the network | lost, duplicated and late datagrams; signals just before a call that blocks |
| `unixNetV1`: `threads`, `server` | a main thread or parent and its workers | joins under a lock, counts learnt late, workers that die |
| `mail/serverModel` | three kinds of threads, a queue and a list | a list walked without its mutex; descriptors used again |
| `mod/rcu` | readers and updaters | freeing what a reader still has |
| `multiThread` | two threads, two semaphores | the time test just before the wait |
| `dataStructure/tailq/queue.h`, `item/findStrFromMat`, `mail/linux_ver` | sequential | pointers patched in many cases; marks, padding |

These parts are separate programs and do not call one another, but for
`unixipc`'s programs over its libraries, which are composed here too.
`PROJECT.json` lists all components with their files and, under `hazards`, what
can go wrong at which line.

## Conventions

The code between `pthread_mutex_lock` and the matching unlock, or the call of
`pthread_cond_wait` in between, is one action: no other thread can look inside
it. State that is shared without a mutex (the counters that
`pthread_rwlock_destroy` looks at, the flags of `web03.c`, the client list that
`recvThread` walks, the variable of `sem_thread.c`, the indices that `sigio`
shares with its handler) is read and written in steps of its own. A call that blocks is two actions, or one that
is not enabled until it can return. A signal to a condition variable with
nobody waiting is lost, one with several waiting wakes any of them, and
spurious wakeups happen at any time. A system call is one step. Killing a
process is an action at every point where the process has a step to take; what
the kernel then gives back (record locks, `SEM_UNDO`, the bytes of a FIFO) is
modelled, as are Unix signals, which stay pending once.

Operators named `mut_...` are wrong versions of the definition that follows
them. No specification uses them; they show that a property notices the mistake.

## Modules

| Module | Models |
|---|---|
| `PthreadRwlock` | `my_rwlock/*.c`; `pc[t]` says what thread t holds or waits for, or how far it is in `pthread_rwlock_destroy`; `came` notes who came to the lock since |
| `ReadWriteLock` | the abstract lock, with preference for writers |
| `RwlockTestCancel` | `my_rwlock/testcancel.c`, over `PthreadRwlock`; its sleeps are taken as ordering |
| `PthreadRwlockCancel` | `my_rwlock_cancel/*.c`: `PthreadRwlock` with the two cleanup handlers as actions |
| `MySem`, `CountingSemaphore` | `sem_wait.c`, `sem_trywait.c`, `sem_post.c` of `my_pxsem_mmap`, and the abstract semaphore; `WaitersSpec` adds that a woken thread gets the mutex in the end |
| `ProdCons1` | `my_pxsem_mmap/prodcons1.c`, over `MySem` |
| `SemOpen` | `sem_open.c`, `sem_close.c`, `sem_unlink.c` of `my_pxsem_mmap`, one step per system call |
| `SvSemOpen`, `FifoSem` | `my_pxsem_svsem/sem_open.c`; `my_pxsem_fifo` |
| `MyMq`, `PriorityQueue` | `my_pxmsg_mmap`: send, receive, notify, setattr, close, the attaching half of open; the abstract queue |
| `MqTransfer` | the parts of `my_pxmsg_mmap/testmq.c` in which one process sends to another, over `MyMq` |
| `LockSeqno` | `lock/loopmain.c` and `lockmain.c` over seven versions of `my_lock` |
| `ProdConsCond` | `mutex/prodcons3.c`, `prodcons5.c`, `prodcons6.c` |
| `ProdConsSem` | `pxsem/prodcons3.c`, `prodcons4.c` |
| `MqNotify` | `pxmsg/mqnotifysig1.c` to `mqnotifysig5.c` |
| `ShmRing` | `pxshm/client2.c`, `server2.c` |
| `SvMsg` | clients and servers of `svmsgmpx1q` and `svmsgmpxnq` |
| `Rtt` | `rtt/dg_send_recv.c`, `dg_cli.c`, `lib/rtt.c` and the echo server; the network keeps every datagram and delivers any of them at any time |
| `Sigio` | `sigio/dgecho01.c`: main loop and `SIGIO` handler over the ring `dg` |
| `Bcast` | `bcast/dgclibcast1.c`, `3` to `6` and `lib/pselect.c` |
| `WebThreads` | `threads/web01.c`, `web02.c`, `web03.c` |
| `StrCliNonb` | `nonblock/strclinonb.c` with an echo server |
| `Serv05` | `server/serv05.c`, `child05.c`; a child keeps the parent's ends of the pipes of the children made before it, so these see the end of the parent only when it has gone too |
| `AcceptPool` | `serv02.c`, `serv03.c`, `serv04.c`, `serv07.c`: workers around `accept` |
| `Serv08` | `serv08.c`, `pthread08.c` |
| `ChatServer` | `mail/serverModel/server.c`; each turn of the unlocked walks over the client list is a step, and so are the removal, `close` and `free`. What is read in a freed entry is its old successor, nothing or any listed entry, or the process ends; `early` and `misled` note the threads that searched too early and those that read a freed entry |
| `Rcu` | `mod/rcu/rcu.c` |
| `TwoThreads` | `multiThread/TwoSemCtrlTwoThread.c`, `thread_sem/sem_thread.c` |
| `QueueH`, `ListSeq` | the macros of `queue.h` on pointers, and the sequences they implement |
| `FindStr` | `findStrFromMat/src/findstr.cpp`; the recursive search is an operator that carries the marks. Matrices have two rows, so a cell has at most three neighbours, as many as `pos[6]` (line 103) has room for; what a fourth one does there is outside the model |
| `Attachment` | `mail/linux_ver/base64.cpp` and the sending loop of `smtp.cpp` |
| `CountingLemmas` | facts about cardinalities, remainders and least numbers that the proofs share |
| `PthreadRwlockProofs` | proofs about `MCRwlock` and the lock modules it joins |
| `SemaphoreProofs` | proofs about `MySem`, `SemOpen`, `LockSeqno`, `FifoSem`, `SvSemOpen` |
| `ThreadProofs` | proofs about `ProdCons1`, `Rcu`, `ProdConsCond`, `TwoThreads`, `Serv08` |
| `SharedMemoryProofs` | proofs about `ProdConsSem`, `ShmRing`, `MqNotify` |
| `OrderProofs` | proofs about `StrCliNonb`, `SvMsg` |
| `ServerProofs` | proofs about `Serv05`, `ChatServer`, `AcceptPool` |
| `ClientProofs` | proofs about `Rtt`, `WebThreads`, `Sigio`, `Bcast` |
| `MCRwlock` | `my_rwlock/test1.c`, and the three uses of the lock side by side: any calls, any calls and cancellations, `test1.c` |
| `MCIpc`, `MCNet`, `MCPrograms` | suites: several modules, each with its small instance |

Where several programs differ in a few lines (the locks, the broadcast
clients, the web clients, the accepting servers, the notified readers), one
module models them all, with a variable that names the program.

A program over a library is composed with it by conjunction: a step of
`ProdCons1` is an action of `MySem` together with the move of the thread.
The suites `MCIpc`, `MCNet` and `MCPrograms` put programs side by side that do
not interact: `scenario` chooses the one a behaviour is about and the others
keep their initial state. Their specifications have no fairness; a liveness
property `FairX` of a suite says that `X` follows from the fairness of its own
module.

## Runs

| Run | Instance | Shows |
|---|---|---|
| `rwlock` | 4 threads; 2 readers and 2 writers of `test1.c`, 2 loops | exact counters, `destroy` overlooks only threads that come between its reads, nobody stranded, also with any waiter cancelled (for writers); implements `ReadWriteLock`; `test1.c` never quits and finishes |
| `mq` | `MyMq`: 3 processes that may be killed, 2 slots | `mqh_nwait` counts, registration and notification |
| `ipc` | `MCIpc`, eleven components | see the next table |
| `net` | `MCNet`, eight components | |
| `programs` | `MCPrograms`, six components | |
| `rwlock_cancel_wakes` | 3 threads | **violated**: readers behind a cancelled writer are not woken |
| `rwlock_testcancel` | the two threads of the program | **violated**: the program hangs before the `EBUSY` it expects |
| `sem_waiters` | `WaitersSpec`: 3 threads, one semaphore, any calls | **violated**: one waiter sleeps on with a unit left |
| `sem_open_stat` | 3 processes, nothing killed or unlinked by others | **violated**: `stat` looks at another file than the one opened |
| `mq_senders_woken` | 3 processes, 1 slot | **violated**: the signal for room goes to a receiver |
| `find_str` | matrices of 2 by 4, words of up to 5 letters | **violated**: a word that is there is not found |
| `attachment` | files of up to 5 bytes, a buffer of 4 | **violated**: a file longer than the buffer does not arrive |

| Module | Instance | What is checked |
|---|---|---|
| `ProdCons1` | 3 slots, 7 items | order, no overrun, exclusion, termination, implements `CountingSemaphore` |
| `SemOpen` | 3 processes, 2 files, 2 tries | the execute bit guards the contents; the named file is initialised; the wait ends |
| `SvSemOpen` | 3 processes, 2 tries | what `mysem_open` returns has its initial value; a half-made semaphore is removed or nobody asks for it |
| `FifoSem` | 3 processes, value 1 | never more inside than the value; waiters get in unless a kill or a last close took the byte |
| `LockSeqno` | 3 processes, one with 2 turns, 1 kill | no increment lost under any lock; the semaphore is set before it is used; all end unless a lock was orphaned |
| `ProdConsCond`, `ProdConsSem` | 3 producers, 4 items; 2 producers, 3 consumers, 2 slots, 3 items | the values in order; all threads end |
| `MqNotify` | 4 messages | the registration is in one place only; programs that drain read everything |
| `ShmRing` | 2 clients, 2 messages each, 2 slots | every slot accounted for; every message printed or counted; each printed once unless the server overtook a copy |
| `SvMsg` | 3 clients, 2 lines, queues of 2 | a client gets its own lines in order; all are served, or the one full queue has everybody waiting |
| `MqTransfer` | 4 messages, 3 slots, 2 priorities, 2 contents | lists partition the slots, implements `PriorityQueue`, nothing lost, everything gets across |
| `Rtt` | 2 calls, 3 requests that get through | the answer belongs to the request; it gives up only after all transmissions; how the timeout grows; a call ends |
| `Sigio` | 7 datagrams, ring of 3 | echoes in order, no signal lost, nothing dropped (up to the exit on overflow), `nqueue` right, all echoed |
| `Bcast` | 2 lines, 3 replies | nothing left of a timer; programs 4 (with the kernel's `pselect`), 5 and 6 never wait for nothing, and end |
| `WebThreads` | 3 files, 2 connections | `ndone` exact, connections limited; `web01` ends, the others end or are stuck in one of two named states |
| `StrCliNonb` | 4 bytes, buffer of 3, room for 1 | no byte lost or reordered while it runs, the output a prefix of the input, what is left unprinted when it returns, the FIN after the data, it returns |
| `Serv05` | 3 children, 4 clients, 1 death | an available child is idle; there is one when a connection comes; clients are handled, a death ends the parent |
| `AcceptPool` | 3 workers, 3 connections, 2 kills | one worker in `accept` where there is a lock; connections are accepted while a worker lives, but for the abandoned mutex |
| `Serv08` | 3 threads, ring of 3, 5 connections | taken in order, gives up only when full, all served |
| `QueueH` | 2 heads, 3 elements | every macro implements its operation on sequences; back pointers; reverse walks |
| `FindStr` | all matrices of 2 by 3, words of up to 4 letters | what is found is there; short words are found |
| `Attachment` | files of up to 5 bytes, buffer of 4 | a file that fits in the buffer arrives; all of a file is sent |
| `ChatServer` | 2 clients, 2 messages | the semaphore counts the queue; no entry is removed twice; stale entries only through threads that searched too early or read a freed entry; messages are handled |
| `Rcu` | 3 updaters, one blocking, 1 reader | nothing read after it is freed, no update lost, what was replaced is freed |
| `TwoThreads` | up to 4 additions | strict turns, nothing lost; joined, or one thread left waiting |

Every component has one invariant (`RttSafe`, `LockSafe`, ...) that joins its
type invariant, unless a proof has its own, with the safety properties of the
table, each a definition with a comment in the module. Liveness is joined by
what it promises: `FairProgramsEnd`, `FairOpensEnd`, `FairMessagesRead` in
`MCIpc`, `FairClientsEnd`, `FairServersServe` in `MCNet`, `FairProgress` in
`MCPrograms`. For each property of a passing run `PROJECT.json` names a mutant
of the code that violates it. The mutant of a joined property breaks one of its
conjuncts; it says nothing about the others.

### Bounds

Four threads give the lock two waiters of each kind, or a holder, a waiter, a
woken thread and one that overtakes it. Items, messages, datagrams and
connections go around their ring or queue at least once, with the ring full and
empty on the way: 7 items for 3 slots in `ProdCons1`, 7 datagrams for 3 in
`Sigio`, 5 connections for 3 in `Serv08`. Three processes around a name are a
creator, one that races it and one that comes late; two files let a name be
lost and made again while the first file is still open; two tries let a wait
succeed late or give up. One kill (two in `AcceptPool`) at any step leaves
whatever can be left behind, and somebody to find it. `RttCalls = 2` lets a
reply to the first call arrive in the second, and all retransmissions happen.
In `LockSeqno` one process loops twice, so that it meets its own lock file.
`FILE_BUF_LEN` is 4 for 700000: both leave 1 when divided by 3, which the
assumption `BufAssumption` states. `FindStr` enumerates every matrix over two
letters. `MaxCount`, `MaxVar`, `MaxDg`, `MaxSent`, `MaxConns`, `MaxAccepts` and
the like only end the input. `NonbSafe` needs a buffer that takes several reads
(`MAXLINE = 3`) and a socket with less room than it (`SockRoom = 1`).

Deadlock is checked in `rwlock` and `rwlock_cancel_wakes`. In the others all
processes may be done, dead, or waiting for input that the bounds have ended.

### Fairness

Liveness is claimed under weak fairness of the steps of each thread or process
alone: the scheduler runs whoever can run, and a mutex is held for a few
statements. Weak fairness is enough where a step that has to retry is possible
again once its thread is woken. Beyond that:

* alarms expire and signals are delivered (`sig_alrm`, `alarm_expires`,
  `deliver_sigio`): the kernel's timers and signals are not lost;
* the network of `Rtt` owes nothing: no datagram need ever arrive;
* `StrCliNonb` assumes an echo server that echoes and closes, and strong
  fairness of `select` reporting standard input and output: a descriptor that is
  ready again and again is reported in the end, since `select` reports all that
  are ready and only their becoming ready is chosen;
* the clock of `TwoThreads` reaches the end time.

Spurious wakeups, kills, unlinking, deaths, new clients and the choice of the
waiter that a signal wakes are under no fairness.

Some liveness properties name the one way in which the code may fail to get
there, so that they hold of the code as it is: a lock file or mutex left by a
killed process (`LocksEnd`, `AllAccepted`), a unit lost with a kill or a last
close (`WaitersGetIn`), the full queue of `svmsgmpx1q` (`ServedOrWedged`), main
joining a thread that needs the mutex main holds in `web03.c`, or `F_DONE`
overwritten in `web02.c` (`WebEndsOrStuck`), a thread left waiting when the
time was up (`JoinsOrLeftWaiting`). They say that nothing else stops these
programs.

## What the violated runs say

Each quotes the comment or document it contradicts in `PROJECT.json`.

* `sem_post.c` signals only when the count was 0. Two threads wait, two posts
  come before the first woken one runs: the second thread is never woken.
* `mq_receive.c` signals once when the queue was full, on the condition
  variable that receivers wait on too. A receiver may take the signal, find the
  queue empty and wait again: a sender and a receiver then wait for each other.
* `sem_open.c` waits for the execute bit with `stat(pathname)`, not with
  `fstat` on the file it has open.
* In `my_rwlock_cancel` the handler of a writer wakes nobody.
* In `my_rwlock` a cancelled writer keeps `rw_mutex`, so `testcancel.c` hangs.
* `findstr.cpp` marks the cells it enters and never clears a mark: a branch that
  fails hides cells from the branches after it. Words of up to four letters are
  always found (`ShortWordsFound`).
* `smtp.cpp` encodes a file in pieces of 700000 bytes, no multiple of 3, so the
  padding of base64 comes in the middle of a longer file.

Visible in the models without a run of their own, because no document says
otherwise: a receiver killed inside `mymq_receive` stays in `mqh_nwait` for
ever; a sender that waited for room does not look again for a registered
process; `pthread_rwlock_destroy` may succeed on a lock that a thread has taken,
or begun to wait for, after it read the counter in question, a waiter woken
before it was called included; `str_cli` returns
at the server's end of file without writing what it still has for standard
output; an entry of the chat server's list may stay for good when its client
left before it was listed, or when a thread that walked the list read an entry
freed under it; the server of `pxshm` may print a slot before its
client has copied the message; the retransmission timeout of `rtt.c` may grow
past `RTT_RXTMAX`.

## Proofs

All theorems hold for every value of the constants, under the named assumptions
of the modules: finite sets of threads, processes or clients where the code
counts them, sizes and limits that are natural numbers (rings with at least one
slot), and marks such as "no owner" that are nobody's name. Each proof has an
inductive invariant, the lemma that every step keeps it, with one step per
action, and the theorem that it implies the property. The property itself is
seldom inductive; what has to be added to it is the argument.

`PthreadRwlockProofs`, for any finite set of threads:

* `RwlockIsSafe`, `NobodyLeftAsleep` and `CancelRefinement` are about `RwSpec`,
  the three uses of the lock; `CountersExact`, `NobodyStranded`, `DestroySafe`
  and `Refinement` about the library alone. The safety properties of the lock
  are inductive only together (`CInv`): that nobody is stranded needs the exact
  waiting counts, from which an unlock decides whom to wake. That `destroy`
  overlooks nobody who was there all the time (`DestroyMissesOnlyArrivals`) is
  shown read by read: after each one, a thread that has not come since the first
  is none of those whose counts were zero, since a woken thread that goes on to
  hold the lock has come in this sense. Cancellation
  keeps all but `NoStrandedReader`. `TestInv` says that a thread of `test1.c`
  between its calls has the lock, so that its own counters follow. `Counting`
  and `Moving` are the facts about cardinalities; `SeenBy` says what the
  counters tell about the abstract lock.

`SemaphoreProofs`:

* `SemTypes`, `SemRefinement`: the last conjunct of the type invariant (nobody
  is blocked and woken at once) makes a wakeup a stutter of the abstract
  semaphore. `mysem_trywait`, which no modelled program calls, is covered.
* `NamedFileSafe` and its corollary `BitAlwaysGuards`, for any failures, kills
  and unlinks: `OpenInv` adds that a creator about to call `fchmod` has
  initialised the file it has open, and that whoever is between `open` and its
  return has one, so that a name that was unlinked names nobody's file.
* `LocksSafe`: `LockInv` says that whoever is inside owns the lock and has read
  what the file holds, and for `locksvsem.c` where the one unit is: in the
  semaphore, or with the owner, whose `SEM_UNDO` gives it back.
* `FifoIsSafe`: only one creator found no FIFO, and the bytes in the FIFO, those
  it has yet to write and the processes inside are at most the initial value.
* `OpenedIsInitialised`: only the semaphore that the key names exists, where its
  creator is tells how far it is initialised, and no other process does that.

`ThreadProofs`:

* `ProdCons1Safe`: the values of the three semaphores follow from where the two
  threads are (`Passed1`), and the slots between the indices hold the next items
  (`Stored1`). It composes with the semaphores of `MySem`.
* `ReadersAndUpdatersSafe`: an unpublished structure belongs to one updater, the
  updater with the mutex replaces what is published, and a grace period waits
  for every reader that still has the old structure.
* `ItemsFoundInPlace`: every item stored is taken, announced, or with a producer
  between its two critical sections.
* `TurnsAreSafe`: one unit goes round between the two semaphores and threads,
  and where it is says who has added once more.
* `RingIsSafe`: `Filled` says which connection is in which slot; the order in
  which threads take them does not follow from the indices alone.

`SharedMemoryProofs`:

* `NoConsumerIsWrong`: three equations (`Counted4`) balance the semaphores
  against the threads at each place, extra posts at the end included; with them
  the slots between the indices are neither overrun nor read early.
* `ShmRingIsSafe`: reservations form a log, and a slot stands for the only entry
  of the log that can be in it. The order of messages is kept as long as the
  server has overtaken no copy.
* `RegistrationSafe`, `NeverBusy`: the place of the registration decides what
  `mq_notify` finds.

`OrderProofs`:

* `BytesKeepTheirOrder`: output, buffer, socket, echo, socket and buffer hold
  consecutive stretches of the input, and a FIN stands behind the last. `Ends`
  says how it returns: standard input read to its end, the server closed and
  nothing left on the way from it. What is not printed then is in one of the two
  buffers or on the way to the server.
* `ClientsReadTheirAnswers`: the messages for a client in a queue are those of
  its answer between what it has read and what was written for it, and a request
  is there once, before its answer is begun.

`ServerProofs`:

* `DescriptorsGoToIdleChildren`: a dead child owes at most what its status says,
  and `nsel` is the number of descriptors the scan has yet to meet.
* `ChatServerIsSafe`: the semaphore and the queue (`QueueInv`); then the list
  (`ListInv`): every running thread has an entry, descriptors in use differ, a
  removed entry never comes back, and there are no more entries than threads
  that will remove one and threads that may have missed theirs. `Walk` says
  where a search can be: on an entry up to its own, or on one of a set of
  entries taken out since it began, which have other descriptors and lead to
  each other or back to such an entry. So a search that read nothing freed finds
  an entry, and what a thread found without the mutex nobody else removes.
* `PoolIsSafe`: whoever is around `accept` is the holder of the lock.

`ClientProofs`:

* `RepliesMatchRequests`: sequence numbers tell the line they were sent for, and
  the transmissions of the current call are counted by `rtt_nrexmt`.
* `WebClientsKeepCount`: each counter of main is the number of threads in some
  places, corrected by one while main is between creating and marking.
* `EchoesInOrder`: the filled slots hold the datagrams after those echoed, the
  socket those after them, and a datagram in the socket has a signal on its way.
* `BroadcastSafe`: `WaysOfWaiting` says where `SIGALRM` can be at each step of
  each program.

`CountingLemmas` holds what many of these need: how a step that moves one thread
changes the numbers of threads at a place, remainders of neighbouring indices of
a ring, and that a set of numbers has a least member, from the library's theorem
on well-founded relations.

Only model-checked:

* all liveness properties: fairness is out of the prover's reach;
* `TransferSafe`, `MqImplements` and, for the list macros, `ListsSound` and
  `ImplementsSeq`: what a list holds is found by following its links, and facts
  about that need induction over data;
* `MqBookkeeping` and `ReceiverBeforeSignal`, which say nothing of what the lists
  hold and are within reach, but have no proof here;
* `FindSafe` and `AttachSafe`: what recursive definitions compute.

## Not modelled

* `mq_open.c`'s creation of the queue file, the same protocol as in
  `sem_open.c`, and `mq_unlink.c`; the sequential rest of `testmq.c`.
* In `my_pxsem_svsem` the functions other than `sem_open.c`, each one system
  call; in `my_pxsem_fifo` `sem_unlink.c` and an initial value beyond what the
  FIFO holds.
* The exit on `SIGINT` of `serv08.c`, `sig_hup` of `dgecho01.c`, connections
  that are reset in `strclinonb.c`.
* A process killed inside a critical section of `my_pxmsg_mmap`: it leaves
  `mqh_lock` held, and since the mutex is not robust nothing is promised. A
  count of 2^32 in `sem_post.c`. A thread that locks `my_rwlock` twice.
* In `rtt` the alarm between `alarm()` and `sigsetjmp()`: at least two seconds
  against a few instructions.
* The SMTP dialogue, the ping and DNS clients, the dictionary, the wage
  calculators, the tree printer and the terminal game of `item`: sequential
  programs of input and output.
* The kernel modules but `rcu`, `doors`, `sunrpc`, `svshm` and the benchmarks:
  each shows one interface of one platform.
* The rest of the clients and servers of `unixNetV1`: the `select` and `poll`
  servers and those that fork for each connection, the multicast, SCTP and
  routing programs, the nonblocking `connect` of `nonblock`; and the rest of
  `unixipc`: pipes, FIFOs and the counters in shared memory.
* Most of the lines of the repository are wrappers that call one function and
  check its result, programs that print options and addresses, makefiles,
  copies of files for other systems, recorded output, a copy of an external
  test library, generated build files and HTML. A module for them would only
  repeat them, which is why the models cover a small share of all lines.
