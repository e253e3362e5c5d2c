# Verification of the CS241 programs

The repository holds the programs of a systems course, one per directory, each a few
hundred lines of C. Most of their difficulty is where tests hardly reach: threads around
a condition variable, an event loop over sockets that break off, a heap after a long
sequence of calls, a page table under too few frames. This directory models those
programs in TLA+, checks the models with TLC on small instances, and proves with TLAPS,
for every instance, every safety property of the runs that pass.

1. Inventory
2. Modules and how they correspond to the code
3. Runs: questions, bounds, fairness, results
4. Proofs
5. Disagreements between code and documentation
6. What is not modelled
7. Plan

To repeat a run: `tlc -config Critical.cfg MCCritical` (module and configuration of each
run are in section 3). To repeat the proofs: `tlapm CriticalProofs.tla`, and the same for
`DrmProofs`, `WorkersProofs`, `ParmakeProofs`, `NonstopProofs`, `ChatServerProofs`,
`MemoryProofs` and `LibrariesProofs`. `PROJECT.json` lists, for every definition, the source
lines it models; hazards, with the properties that would expose them; and for every
property a changed definition ("mutant", marked `MUTANT` in the modules) under
which it fails.

## 1. Inventory

The programs do not call each other, with these exceptions: `parmake` and
`cracker1` use the thread-safe queue, and `parmake`, the nonstop server and the
shell use the vector.

### Modelled

| part | state | operations | interaction | what is hard | what makes it correct |
|---|---|---|---|---|---|
| **Thread-safe queue** `critical_concurrency/queue.c` | head, tail, size, max_size, malloc'd nodes | create, push, pull, destroy | any number of threads, one mutex, one condition variable for both directions | lost wakeups; head, tail and next at sizes 0 and 1; fields that are never initialised | it is a bounded FIFO: intact list, no sleeper without reason, progress |
| **Semamore** `critical_concurrency/semamore.c` | value, max_val | init, wait, post | as above, but with `pthread_cond_signal` | the signal goes to a thread that cannot use it | a call blocks only at 0 (wait) or at the maximum (post) |
| **barrier** `critical_concurrency/barrier.c` | count, times_used | init, wait | one mutex, one condition variable, used round after round | fast threads are back before slow ones have left; spurious wakeups | nobody leaves before all have come, then all leave |
| **libdrm** `deadlock_demolition/libdrm.c` | the resource allocation graph, the drms' mutexes, a global mutex | drm_init, drm_wait, drm_post, drm_destroy | threads under a global mutex, which drm_wait holds while it blocks | graph and locks in step; what the cycle test can see | exclusion, exact graph, no self-deadlock, an exact cycle test |
| **libdrm tester** `deadlock_demolition/libdrm_tester.c` | two threads' and main's position | the calls in the file | calls libdrm | two locks taken in opposite order | main returns |
| **cracker2** `password_cracker/cracker2.c` | tickets, barrier counters, the task, each worker's candidate | rounds of all workers on one password | one mutex, `cv` (tickets and barrier), `cv2` (main) | a counter reset while others look at it; a task freed while it is read | every round complete, correct summary, termination |
| **cracker1** `password_cracker/cracker1.c` | the queue, success, strings on the heap | read, crack, hand back, join, summary | workers and main over the thread-safe queue | one sentinel that every worker takes and gives back | sentinel last and never lost, correct summary, nothing leaked, termination |
| **mapreduce** `mapreduce/mapreduce.c` | pipe ends held by each process, the pipes' contents | fork, close, exec, wait | processes inherit the parent's descriptors | an end of file that comes too early or never; children that fail | every line reaches the reducer, the parent returns |
| **parmake** `parallel_make/parmake.c` | rule states, queue, goal vector, counters | select goals, dfs, the worker loop, main | workers share all of it; partly without the mutex | readiness decided and acted on at different times | dependencies first, each rule once, failures reach dependents, it returns |
| **malloc** `malloc/alloc.c` | headers, footers, free list, head, start, final, break | malloc, calloc, realloc, free | sequential callers | four cases of coalescing after any history | the heap is tiled, the free list exact, blocks belong to who got them |
| **mmu** `ideal_indirection/mmu.c` | page directories and tables, TLB, frames, swap files | add, remove, read, write | calls a kernel that evicts pages | the TLB across switches, removals and reuse of pids; eviction within one call | each process has memory of its own; each frame has one use |
| **mini_memcheck** `mini_memcheck/mini_memcheck.c` | list of blocks, totals | malloc, calloc, realloc, free | wraps the C library | unlinking through a trailing pointer; sizes that change; stale pointers | the report is what the clients did |
| **nonstop server** `nonstop_networking/server.c`, `common.c` | epoll loop, dictionary of uploads by descriptor, vector of names, directory | LIST, GET, PUT, DELETE, errors, SIGINT | one thread; sockets cut messages anywhere, clients die | state kept per descriptor and descriptors reused; two uploads of a name; edge-triggered events; open() and write() fail unnoticed | vector and directory agree, OK means stored but for those failures, nobody is left waiting |
| **nonstop client** `nonstop_networking/client.c` | its request, its socket, the local file | connect, send, shut down, judge the answer | talks to the server | answers with holes, connections cut | success means the file is complete |
| **chat server** `charming_chatroom/server.c`, `utils.c` | slots, counter, mutex, endSession, descriptors | accept, read, broadcast, leave, SIGINT, cleanup | a main thread, a thread per client, a signal handler | slot read without the mutex; close before the slot is cleared; a handler that locks; writing to a client that does not read | slots, counter and threads agree; leavers make room |
| **scheduler** `savvy_scheduler/libscheduler.c` | priority queue, job_infos, totals, time of the last call | start_up, new_job, quantum_expired, job_finished | called by a thread library | books derived from calls at any moment; a double kept in an int | times charged, waited and answered are the real ones; the right job is chosen |
| **vector** `vector/vector.c` | array, size, capacity, copies of elements | reserve, resize, set, push, pop, insert, erase, clear, destroy | its callers | capacity after any order of growing and shrinking | it holds what the calls left, each copy in one slot or freed once |
| **minixfs** `finding_filesystems/minixfs.c` (in part) | inodes, direct and indirect blocks, the directory | create, write, read | calls block allocation | transfers that start and end inside blocks and cross from direct to indirect; a full disk | what was written reads back; the directory lists the files |
| **shell** `shell/shell.c` (in part) | list of processes, history, foreground child | reap, prompt, run, recall, signal, SIGINT | its children | reaping while the list is used; a signal between two statements, also of a child that has not executed its command yet | the list is the shell and its background children; interrupts go to the foreground |

### Not modelled

| part | why |
|---|---|
| rendezvous `critical_concurrency/rendezvous*.c`, par_reduce `teaching_threads/par_reduce.c` | two posts and two waits; threads over disjoint slices |
| sstring, camelCaser, perilous_pointers | pure functions on strings and pointers |
| dd, env, time, lookup1, lookup2, restart, helloworld, chat client | sequential I/O around one loop or one child process; the chat client's window is code outside the repository |
| `luscious_locks/HW0.md`, `lovable_linux/final_exam_practice.md` | documents |

## 2. Modules and how they correspond to the code

In all modules of threaded code a **critical section is one action**: from
`pthread_mutex_lock` (or the return of `pthread_cond_wait`) to the unlock (or the
next wait). Code between critical sections that reads or writes shared state is an
action of its own, so it interleaves with everything else. A thread blocked on a
condition variable is a member of `waiting`; a thread in an operation and not in
`waiting` contends for the mutex. `pthread_cond_wait` may return spuriously where
the run says so. Statements that print, measure time or free what no one can reach
any more are left out.

**BoundedFIFO** is the abstract specification of the queue: a sequence, calls and
their effects, no nodes and no waiting. **Queue** is `queue.c`. `head`, `tail`,
`size`, `max_size` are the struct's fields; `mem` holds the live nodes by address;
`list` is history (the nodes in the order they were pushed) and only serves the
properties and the refinement mapping `Items`. `PushBlocks`/`PushDone` and
`PullBlocks`/`PullDone` are the two ways through the critical sections of
`queue_push` and `queue_pull`; `Destroy` walks the links as `queue_destroy` does.
`queue_create` does not initialise `head` and `tail`: `Create` leaves them arbitrary,
and `ends` tells "unset" from "set". A stray `head` does no harm if something is pushed
before anything looks at it; a first push through a `tail` that is not NULL
(`PushCorrupts`) and the destruction of a never used queue whose `head` is not NULL
(`DestroyCorrupts`) touch memory that is no node. That is undefined behaviour, and the
model stops there.

**Barrier** is `barrier.c`: `Arrive` is a call up to its first wait, `Drained` and
`Gathered` are a thread awake at line 34 and at line 43. `overrun` records that a
thread left line 34 before `count` was reset, which takes a spurious wakeup.

**Semamore** is `semamore.c`: `MustBlock` is the loop condition of both calls,
`Signal` wakes one arbitrary waiter.

**Drm** is `libdrm.c`. Every call runs under the global mutex and is one action,
except `drm_wait`, which is two: `WaitEnter` up to line 92, where it locks `drm->m`
with the global mutex held, and `WaitLock`. `IsCyclic` is the depth first search of
`isCyclic`. `graph.h` and `set.h` are not in the repository; the graph is a set of
edges. **DrmTester** composes `Drm` with the program of `libdrm_tester.c`.

**Cracker2** is `cracker2.c`: `TakeTicket`, `Begin`, `Check`, `Hash`, `Report`,
`Finish`/`LastToFinish`, `Barrier` follow `worker()`, `StartRound`, `EndRound`,
`EndOfInput`, `Join` follow `start()`. The conversion of a start index to letters is
`StartString`, digit by digit as in the code; a password is its index among the
candidates. `getSubrange`, `incrementString` and `crypt_r` are external.

**Cracker1** is `cracker1.c`. Its queue is the FIFO that `Queue` is proved to be, so
a push or a pull is one step. `Test` is the recursive search, letter by letter, with
the number of hashes it computes; `live` holds the strings not yet freed.

**Mapreduce** is `mapreduce.c`: `Forks` and `Waits` are the parent's program,
`Kept` and `ClosedAfter` say which pipe ends dup2 and close leave to whom; `AtEnd` is
the end of file of a pipe. A child forked holds all the parent held, until `Exec`
closes what is O_CLOEXEC; a child whose exec fails writes "execlpfail" and exits.

**Parmake** is `parmake.c`: `Init` does what `parmake()` does before the threads
start (cycle test, erasing goals by index, dfs), the worker's actions follow
`thread()`, split wherever it gives up the mutex. Whether a target is out of date
and whether its commands fail is nondeterministic. The queue is the FIFO of
`includes/queue.h`.

**Alloc** is `alloc.c` with the real header sizes: `FirstFit`, `Extend`, `Split`,
`Take` are the ways through `malloc`; `MergePrevious`, `MergeNext`, `MergeBoth`,
`Insert` are the four cases of `free`. `MallocOn` and `FreeOn` map heaps to heaps,
so that `Realloc` is their composition, as in the code.

**PrivateMemory** is what an mmu promises: each process has contents of its own, a
read returns what was last written. **Mmu** is `mmu.c`; a pointer to a page table
entry is the frame of its table and the entry's place, as in the code, so that an
entry that outlives its table is visible. `AskKernel` returns the set of outcomes of
`ask_kernel_for_frame`: a free frame, or any page's, swapped out. `Access` is the
part reads and writes share. The refinement maps a process's page to its frame, its
swap file or zero.

**MiniMemcheck** is `mini_memcheck.c`: `Find` is the loop with the trailing pointer,
`Unlinked`, `Linked` and `Resize` follow the assignments; `owned` and `misused` are
what clients really have and did.

**NonstopServer** is `server.c`: one event of `epoll_wait` is handled in one action, and
every early return of `readformserver` is an action or a disjunct. What a client sends
arrives in pieces (request line in two, size, data blocks), cut anywhere, since TCP may.
The server looks at the result neither of the `open()` at line 414 nor of the writes at
line 469: for clients in `Faulty`, `HandlePut` and `ContinuePut` choose whether the file
is opened and which blocks (`kept`) are written, while all are counted, so that "OK" may
be answered although nothing is stored. History: `unopened` holds the names that were
listed and not created, `touched` the uploads whose file another request changed or that
such a failure struck. **Nonstop** adds the clients of `client.c`, which may die or be
reset.

**ChatServer** is the chat `server.c`: taking the mutex and giving it back are
actions, because SIGINT may arrive in between, in any thread; the handler
`CloseServer` runs on top of the thread it interrupted. A broadcast writes slot by
slot, and blocks with the mutex held at a client that is `stalled`: it does not read, and the
way to it is full. Writing to a client that has left may end the process (SIGPIPE).
`TestSession` is the look at `endSession` before each read, `CreateThread` the
start of a thread after the mutex is given back.

**Scheduler** is `libscheduler.c` with its caller: the caller's clock, and what it
measures (`ran`, `waited`, `first`), stand beside the scheduler's books, so that the
properties compare the two. `Units` gives ticks per second: with 2, calls fall
between whole seconds.

**Vector** is `vector.c`: `Reserved` is the array `vector_reserve` leaves, `objects`
the copies on the heap, `expected` the sequence the calls should have left.

**Minixfs** is `minixfs.c` without times, modes and the virtual file. `Chunks` gives the
memcpy calls of a transfer, `BlockOf` where a block's number is looked up (direct or
indirect); `Created` adds a directory entry. On a full disk an entry may be written to
block -1, which is the memory in front of the data blocks: `WriteAstray` records that
(`stray`), and the model stops. A byte is the number of its write and its place in it,
so that a byte out of place cannot look right. Block allocation is external.

**Shell** is `shell.c`: `Reap` is one turn of `reapchildren`, `runcommand` the dispatch
on a line, `run`/`AssignChild`/`Waited`/`ForgetChild` the way of a foreground command,
`Background`/`Setpgid` that of a background one. A child starts as a copy of the shell,
with its handler of SIGINT and a copy of `child`: in the foreground it is "forked" (the
copy is -1), then "zeroed" (line 227 has set the copy to 0), in the background "ready"
(the copy stays -1), and after `execvp()` "running". `Interrupt` is a SIGINT between any
two steps, to the shell alone or to its process group (`group`); `handler` computes who
gets it: the shell's passes it on to `child`, that of a zeroed child calls `kill(0,
SIGINT)`. That child then has the signal pending when its handler returns, and so for
ever ("looping"). Entries that reapchildren has freed stay in the list, marked; a later
use of one makes the shell `undefined`, as does a recalled line that is not there.

`MCParmake` and `MCNonstop` give constants that a configuration cannot express;
`MCNonstop` also drops the initial states in which the only upload is that of the client
not in `Faulty`, since the clients are alike otherwise. Four more modules put programs
that share nothing into one run, by a variable `part` that says which one is used:
`MCCritical` (queue, barrier), `MCWorkers` (cracker2, cracker1, mapreduce), `MCMemory`
(mmu, malloc, mini_memcheck) and `MCLibraries` (minixfs, scheduler, vector, shell).
Their properties are those of the components, instantiated.

## 3. Runs

| run | module, configuration | instance | distinct states |
|---|---|---|---|
| critical | MCCritical, Critical.cfg | queue: 3 threads, 2 values, 3 nodes, max_size -1, 1, 2, whatever malloc left in head and tail; barrier: 3 threads, 4 rounds | 44,100 |
| semamore (violation) | Semamore, Semamore.cfg | 3 threads, maximum 1 | |
| drm | Drm, Drm.cfg | 3 threads, 3 drms | 1,700 |
| drm_tester (violation) | DrmTester, DrmTester.cfg | the tester | |
| workers | MCWorkers, Workers.cfg | cracker2: 3 workers, 2 letters, 2 passwords; cracker1: 3 workers, 3 lines; mapreduce: 2 mappers, 2 lines each, pipes of 1 | 116,000 |
| parmake | MCParmake, Parmake.cfg | 4 makefiles of up to 4 rules, 1 and 2 threads | 190,000 |
| parmake_asserts (violation) | MCParmake, ParmakeAsserts.cfg | the same | |
| memory | MCMemory, Memory.cfg | mmu: 2 processes, 4 pages, 6 frames, TLB of 2; malloc: 4 sizes, 4 live pointers, 7,904 bytes; mini_memcheck: 3 addresses | 177,000 |
| nonstop | MCNonstop, Nonstop.cfg | 2 clients, 4 requests, 1 client breaks off, system calls fail for the uploads of 1 | 595,000 |
| chat | ChatServer, ChatServer.cfg | 3 clients, 2 slots, 3 events | 211,000 |
| chat_sigint (violation) | ChatServer, ChatSigint.cfg | the same, 2 events | |
| libraries | MCLibraries, Libraries.cfg | scheduler: 3 jobs of 2 kinds, 5 ticks, 6 schemes; vector: 5 elements; minixfs: 3 names, 6 blocks, 3 writes; shell: 2 pids, 3 forks, 4 lines | 2,016,000 |

What the passing runs show (the properties marked * are also proved, section 4):

- **critical.** `ListIntact`*: head, tail, links and size are one list after any pushes
  and pulls. `NoLostWakeup`*: no thread sleeps while its condition holds, although
  both directions share a condition variable. `Progress`: an operation that can
  complete does, or is overtaken. `ImplementsFIFO`*: the code refines `BoundedFIFO`.
  `BarrierHolds`*: nobody leaves the barrier before everybody has come, round after
  round, unless a spurious wakeup at line 34 comes between the last departure and the
  reset of `count` (`overrun`). `BarrierOpens`: once everybody has come, all leave.
- **drm.** `MutualExclusion`* and `GraphExact`*: edges are locks
  held, and nobody blocks on a drm it holds. `CycleTestExact`*: over every forest of
  edges, `isCyclic` answers 1 exactly when the new edge closes a cycle, and in the
  graphs the library really builds it never does: since a blocked thread keeps the
  global mutex, no second waiter ever gets an edge in.
- **workers.** cracker2: `InfoOutlivesReaders`*, the task read without the mutex is
  still there; `OneTicketEach`*, a fast worker cannot take part twice in a round;
  `SummaryCorrect`*, the password is found if it is there, everything has been tried if
  not, and the total is the number of candidates hashed. `Cracker1Summary`*: the
  sentinel is last in the queue or in one worker's hand, and every line is cracked and
  counted once. `OutputComplete`*: nobody takes an empty pipe for its end.
  `EveryProgramEnds`: all three end; mapreduce unless a mapper or the reducer failed.
- **parmake.** `DepsBuiltFirst`* for any number of threads. `OneThreadBuilds`* (each
  rule once, failures reach exactly the dependents) and `OneThreadReturns` for one
  worker thread; with two the code does not have them (section 5).
- **memory.** malloc: `HeapTiled`*, `FreeListExact`* (complete, ordered, coalesced),
  `ClientsOwnTheirBlocks`*. mmu: `TlbFresh`*, every TLB entry is what a walk of the
  current process's tables would find; `FramesOwnedOnce`*, no frame leaked or shared;
  `ImplementsPrivateMemory`*, the refinement. `LedgerExact`*: list, totals and count of
  invalid addresses of mini_memcheck are what the clients did.
- **nonstop.** `FilesMatchDirectory`*: at every event each file is in the vector, and
  each name in the vector has its file and is there once, unless an upload listed it and
  could not create it; nothing is left when the server exits. `TransfersIntact`*: an
  upload over several events counts every block once, and stores it unless an open() or
  write() failed or another request changed the file; a download with holes is never taken for
  complete. `PutStored`*: OK means stored, with the same two exceptions, and no
  other. `StaleOnlyAfterReset`*: a dictionary entry outlives its connection only when
  that was reset in the middle of an upload (a defect of lines 144-150, whose extent the
  property bounds). `EveryClientEnds`.
- **chat.** `SlotsCounted`*, `OwnSlot`* (each thread reads its own client although it
  reads the slot unlocked, and two slots hold one descriptor only in the window
  between close and clear). `LeaversMakeRoom`: whoever leaves gives its slot back,
  unless a broadcast is stuck for ever at a client that never reads again (`HeldUp`):
  no other way leads to waiting for the mutex for ever.
- **libraries.** Scheduler: `RemainingExact`* and `MeasuredAndChosen`* are exact at
  whole seconds; between them jobs are never charged too little, and a preemptive choice
  is judged by the time jobs have really run. `VectorMatches`*: contents, slots and
  copies. `ReadsBack`*: a file only appended to reads back from any offset; of any file
  each byte on the disk is the last one written there. `DirectoryListsFiles`*: also
  after writes that ran out of space. Both hold until an entry goes to block -1, which
  the run reaches. `ShellListExact`*: the list is the shell and its unreaped background
  children, and the first entry is freed only when a background child is reaped.
  `InterruptsForeground`*: the shell's handler signals the unreaped foreground child,
  and a pid that is nobody's of the shell exactly between waitpid and the reset of
  `child`; a child's handler signals the group only between line 227 in a foreground
  child and its execvp(), and a background child is then in the group only if it
  executed its command before setpgid().

**Bounds.** Three threads are the least for which a wakeup can go to the wrong one while
a third sleeps, and for a queue of size 1 to have both kinds of waiter. Three nodes
cover list lengths 0 to 3, that is every case of head, tail and interior. Three drms and
threads contain every bipartite graph up to a six-cycle. Two letters and two unknowns
give three workers subranges of unequal size; two passwords are the least for a reset to
be seen. Four rounds of the barrier let one thread wait for the drain of a round that
was itself entered late. Pipes of one line make every writer wait. Six frames are fewer
than two processes need, so that adding the second evicts pages of the first. Two direct
and two indirect blocks of two bytes have every case of the transfer loops; six blocks
are fewer than three files can use, and few enough for the directory to be without one
when it needs it. Five elements take the vector through three capacities; two background
children are the least for reapchildren to pass one on its way to the other. Parmake's
makefiles are the two-leaf goal, the diamond, a cyclic goal beside a good one, and two
goals with a common dependency. The alloc sizes are chosen so that a freed large block
is split by a small request, a split is refused, and the heap runs out. The nonstop
requests all concern one name, because requests on different names share nothing but the
vector; two blocks are the least for an upload to be cut inside its data. System calls
fail for the uploads of one of the two clients, which are alike. The chat bound counts
messages, clients that stop reading (during a broadcast, which alone notices), a failed
`accept()` (the last event if it comes) and SIGINT together. The scheduler's clock
covers a long job evicted twice and finished. Symmetry is used only for the scheduler's
jobs, which are interchangeable, in a run without liveness properties.

All passing runs say `CHECK_DEADLOCK FALSE`: a queue whose users all wait, a finished
program, a server that has stopped or a used-up bound may stop. That the programs do
not stop too early is what the liveness properties say.

**Fairness.** Weak fairness of each thread's steps: a thread that can run is scheduled,
and gets a mutex that stays free. Nothing is assumed of callers, of spurious wakeups, of
clients' deaths, of signals or of a chat client's reading: a thread cannot go on while
its write blocks. The chat server needs strong fairness of a thread's steps, since there
the mutex is a variable that others take and release in between: a thread that asks for
a mutex again and again becomes free eventually gets it, which is what a scheduler that
does not starve a thread gives. parmake's fairness includes that commands end, the
nonstop server's that a client that lives reads and writes (the server's sockets do not
block), mapreduce's that the programs it runs go on.

## 4. Proofs

| module | theorems | of |
|---|---|---|
| CriticalProofs | `QueueSafe`, `QueueWakesWhoCanGo`, `QueueImplementsFIFO`, `BarrierSafe` | `ListIntact`, `NoLostWakeup`, `ImplementsFIFO`, `BarrierHolds` |
| DrmProofs | `DrmSafe`, `DrmGraphIsExact`, `CycleTestIsExact` | `MutualExclusion`, `GraphExact`, `CycleTestExact` |
| WorkersProofs | `TicketsExact`, `TaskOutlivesRound`, `SummaryExact` (cracker2), `LinesCrackedOnce` (cracker1), `NothingLostInPipes` (mapreduce) | `OneTicketEach`, `InfoOutlivesReaders`, `SummaryCorrect`, `Cracker1Summary`, `OutputComplete` |
| ParmakeProofs | `DependenciesFirst`, `OneWorkerBuilds` | `DepsBuiltFirst`, `OneThreadBuilds` |
| NonstopProofs | `EntriesOwned`, `DirectoryListed`, `NothingLost`, `StoredWhenOK` | `StaleOnlyAfterReset`, `FilesMatchDirectory`, `TransfersIntact`, `PutStored` |
| ChatServerProofs | `SlotsExact`, `SlotsOwn` | `SlotsCounted`, `OwnSlot` |
| MemoryProofs | `TlbStaysFresh`, `FramesUsedOnce`, `MemoryIsPrivate` (mmu), `Tiles`, `ListExact`, `ClientsOwn` (malloc), `LeaksReported` (mini_memcheck) | `TlbFresh`, `FramesOwnedOnce`, `ImplementsPrivateMemory`, `HeapTiled`, `FreeListExact`, `ClientsOwnTheirBlocks`, `LedgerExact` |
| LibrariesProofs | `ListMatchesChildren`, `HandlerReachesForeground` (shell), `VectorHolds`, `RemainingNeverOver`, `TotalsAndChoices` (scheduler), `FilesReadBack`, `FilesListed` (minixfs) | `ShellListExact`, `InterruptsForeground`, `VectorMatches`, `RemainingExact`, `MeasuredAndChosen`, `ReadsBack`, `DirectoryListsFiles` |

Each theorem has the form Spec => []P, Spec => [][A]_vars or Spec => the abstract
specification, and holds for all values of the constants that satisfy the named ASSUMEs
of the component's module. A component of which an MC module makes an instance states
its assumption as a definition (`LayoutOK`, `RequestsOK`, `PipesOK`, `PidsOK`,
`GrowthOK`, `JobsOK`, `SizesOK`), and the MC module assumes it. These say only what the
C types and the model's encoding give: sizes and counts are natural numbers, the
parameters of a layout and the growth factor are positive, NULL and "none" are not among
the addresses, pids or jobs, and the threads and drms of libdrm are finitely many
(`FiniteAssumption`). The theorems about the queue and the barrier state their further
hypothesis themselves.

Invariants about loops and walks are stated without recursion: a walk along a list is
the greatest or the least element with a property, a loop is the set of numbers it has
reached. Where an induction over numbers is needed it is done by hand, with the set of
numbers for which the statement holds, or with its least counterexample.

**The queue** (CriticalProofs). Proved for all sets of threads, values and addresses, every
max_size and whatever malloc leaves in `head` and `tail`:

- `QueueSafe`: `Spec => [](TypeOK /\ ListIntact /\ NoLostWakeup)`, and its corollary
  `QueueWakesWhoCanGo`;
- `QueueGoesAstrayAtFirst`: `Spec => OnlyUnsetCorrupts`: only the first push ever made,
  or a destruction before it, follows a pointer to memory that is no node;
- `QueueImplementsFIFO`: `Spec => FIFO!Spec`, so that every step of the code is a
  step of the abstract buffer or a stutter.

The inductive invariant is `TypeOK /\ ListIntact /\ NoLostWakeup /\ Quiescent`.
`Quiescent` (after destroy no thread is in an operation) is needed because
`ListIntact` says nothing of a destroyed queue. Each action has its lemma. The
substance is in `PushDoneInv` and `PullDoneInv`: appending to or cutting from a list
without repetitions changes exactly one link. For `NoLostWakeup` it suffices that
both empty `waiting`. The refinement rests on `PushItems` and `PullItems`: the data
fields along the list grow by the pushed value and lose the first.

`queue_create` does not set `head` and `tail` (line 42 on). No hypothesis is made of what
they hold: `PushDone` and `Destroy` are guarded by the pointer they follow being NULL or
a node, `PushCorrupts` and `DestroyCorrupts` by the opposite, after which the model
stops. `CorruptsInv` shows the opposite to be possible only while `ends` is "unset".

**libdrm** (DrmProofs). `DrmSafe`: for all sets of threads and drms,
`Spec => [](TypeOK /\ MutualExclusion /\ GraphExact)`, from
`DistinctAssumption` alone; `DrmGraphIsExact` is the corollary on the graph. The
conjunction is inductive as it stands: `drm_post`
unlocks only on an edge, `GraphMatchesLocks` turns the edge into a holder, and
`MutualExclusion` the holder into the owner. `IsCyclic` is not expanded: the theorem
holds whatever it answers.

`CycleTestIsExact` says what it answers, for finite sets of threads and drms
(`FiniteAssumption`; on others the recursion need not end). Three layers carry it.

- The search exists. `IsCyclic` is a recursive function whose calls hand on the set
  visited so far, folded over the neighbours; `FoldKeeps` is an invariant rule for the
  fold, and `SearchExists` and `SearchInduction` do recursion and induction on the
  number of vertices not yet visited (`Left`).
- It misses nothing (`SearchIsThorough`, `MissesNone`). When it answers 0, the vertices
  it added to `visit` have no edge out except to where the search started, so a set
  that is closed under edges separates the two ends.
- It finds nothing wrongly (`FoundNone`, `FindsNoneWrongly`). Where every edge is a
  bridge, a call stays on its side of the edge by which it came (`Side`), and the sides
  of different neighbours are disjoint (`SidesApart`). A forest with an edge between
  two of its trees is a forest (`ForestGrows`), so that the drm is not met again.

For the second conjunct the edges are those of the owners, at most one for each drm:
stars about the threads (`StarsPart`, `StarsAreTrees`), in which a thread and a drm that
it does not have are never connected.

**The barrier** (CriticalProofs). For every finite set of threads and any number of
rounds. `count` and `times_used` mean nothing by themselves: the invariant says that
there is a round r such that either the next one is filling (`Filling(r)`: everybody has
passed r times, `count` is the number of threads that have arrived) or it is open
(`Open(r)`: `times_used` and the threads at line 43 add up to all of them, and whoever
is back waits at line 34). Before an overrun each action leads from one of the two to
one of the two; the last arrival turns `Filling(r)` into `Open(r)`, and the first call
after all have left resets `count` (line 31) and turns `Open(r)` into `Filling(r + 1)`.

**cracker2** (WorkersProofs). For any number of workers and any tasks. `OneTicketEach` is not
inductive. `InRound` counts the workers at each place: while the barrier is shut nobody
has left it and there is exactly one ticket for each worker that has none; once it is
open no ticket is left, so a fast worker that is back at line 40 finds none. `Idle` and
`Ending` say that nobody is in a round between rounds and after the last; from them
follows that main frees a task only when no worker reads it. `Lengths` serves the types.

`SummaryExact` adds `SumInv`: each worker has hashed exactly the candidates from the
start of its subrange up to its present one (`Segment`), and without success; so what
has been tried and what the total counts are known at every moment. That
`StartString` and the index of a string are inverse to each other, and that
`getSubrange` cuts the candidates into disjoint pieces that cover them, are lemmas proved
by least counterexamples.

**cracker1** (WorkersProofs). For any number of workers, alphabet and input. `LineInv`
says where each line of input is (`Placed` and `OnlyOnce`: in the queue or in one
worker's hand until its string is freed; `PrintedRight`: printed from then on) and where
the sentinel is (`SentinelInv`: not pushed while main reads; then last in the queue or
in the hand of one worker that is about to give it back; in the end with main). `Test`
is shown to have a closed form (`Outcome`): it finds the answer if it is among the
candidates and hashes as many as come before it.

**mapreduce** (WorkersProofs). For any number of mappers and lines and any capacity of
the pipes. `Conserved` is the heart of `PipeInv`: as long as no child has failed, what
splitters have written is in a pipe or has been read by the next one. It survives an end
of file because `OwnEnds`, `NotForked` and `ParentHolds` say who holds which end: while
a writer runs its end is held, so that `MappersDone` and `ReducerDone` follow.

**parmake** (ParmakeProofs). For every finite set of rules, any makefiles and any number of
threads. `DepsInv` follows the admission of a rule through the critical sections:
whoever is in the queue, in a worker's hand before the check, or about to be pushed has
failed or has only satisfied dependencies, and satisfaction is never withdrawn. For
`OneThreadBuilds` the invariant (`OneInv`, for num_threads = 1) says how the single
worker accounts for everything: a rule in the queue is there once and ready
(`QueueOnce`), the one the worker holds is not in the queue too, and neither is a
dependent it has yet to look at (`Holds`), commands are started at most once (`RunOnce`);
satisfied rules have satisfied dependencies, and a failed one ran or has a failed
dependency (`GraphSound`); `numgoalfin` and the goals left add up, and every wanted rule
is below a goal that is left or below a finished rule (`GoalsCounted`, `GoalsCover`).
`KeptGoalsAssumption` (the goals kept after the cyclic
ones are erased are a sequence of rules) is the one fact about a fold over the goals
that would need induction; TLC evaluates it on the run's makefiles.

**The nonstop server and its clients** (NonstopProofs). For every set of clients,
requests and descriptors. `EntriesOwned`: a connection not yet accepted has no
descriptor, epoll reports errors only of connections that were reset, and so each entry
belongs to an open connection or to one closed by `HandleError`. `DirectoryListed`:
every file is in the vector, and a name that no failed `open()` is to blame for
(`unopened`) has its file and is there once; the proof needs that DELETE erases one
element, the first that matches, together with the file, that an upload over an existing
file does not push its name again, and that one which pushes it either creates the file
or enters it in `unopened`.

`NothingLost` and `StoredWhenOK` rest on `UploadInv`. `ConnInv`: no two open connections
have one descriptor (`accept()` gives each the lowest that is free), and events are only
pending for open ones. `StreamInv`: what the server has buffered of a client and what it
has consumed add up to what the client sent, for an upload in progress with the count in
the dictionary. `InFileInv`: the file of an upload that no other request touched and no
failing call struck holds the blocks counted. For downloads `GotInv` relates the answer
to the file as it was when it was sent, and the local file to the answer. `StoredWhenOK`
is an action property: whatever step answers OK leaves the file complete, with the same
exceptions. No theorem assumes that a system call succeeds.

**The chat server** (ChatServerProofs). For every finite set of connections and any
MAX_CLIENTS. As long as no `accept()` has failed and the server runs, `OrderlyInv`
holds: open descriptors are different (the kernel gives the least free one), each slot
in use belongs to one live thread (`SlotsOwned`) or to the one main is about to create
(`Coming`), `clientsCount` is the number of these (`Counted`), and a thread that is
serving finds its own descriptor in its slot. `SlotsOwned` carries the window between
close and clear: there a slot may hold a descriptor that has been given to another
connection.

**mmu** (MemoryProofs). For any processes, pages, frames and size of the TLB. The invariant is
`DirectoriesApart /\ Sound(Directories, {}, ram, swap) /\ TlbInv`. `Sound` says that
directories and tables form a forest (each frame is free, one directory, one table or
the page of one entry), that an absent page is in a swap file or untouched, and that a
swap file belongs to an entry of a table. It takes the memory as a parameter, with a set
of frames handed out and not linked yet, because `mmu_add_process` and an access ask the
kernel for up to three frames and each may evict a page of any process: the proof goes
through the intermediate memories one by one. `TlbInv` then holds because eviction never
takes a table, and because a switch and a removal flush. `MemoryIsPrivate` maps a
process's page to its frame, its swap file or zero, and shows that faults, evictions and
switches stutter and that reads and writes are those of `PrivateMemory`.

**malloc** (MemoryProofs). For all sizes of headers and all requests. The invariant is
`Good(heap) /\ Owns(heap, live)`: blocks touch and end at the break (`Tiled`), `start` and
`final` are the first and the last (`Started`), footers repeat headers (`Footed`), each
link leads to the next free block in address order and back (`ListLinked`), used blocks
are in no list (`Unlinked`), free ones do not touch (`Coalesced`), and the used blocks
are those clients have (`Owns`). It speaks of an arbitrary heap, since `malloc` and
`free` go through several (and `realloc` is both); there is a lemma for each: extension
of the heap, splitting, taking a block, the four cases of `free`. The address a walk
through the list stops at is shown to be the greatest free block below a given one.

**mini_memcheck** (MemoryProofs). For any addresses and sizes. `LedgerInv` says, until
`mini_realloc` has written through NULL: the list from `head` can be numbered so that
each block occurs once and links to the next (`Strung`), it has the blocks and the
sizes clients have, and the totals differ by their sum. `Find` with its trailing pointer
is shown to stop at the block asked for with the trailing pointer one behind, or at the
end if there is none. That the sum over a finite set does not depend on the order in
which the library's fold takes it is a lemma.

**The shell** (LibrariesProofs). For any pids and lines. `ShellInv`: the first entry is the
shell's and no pid occurs twice (`ListOK`), the list has the shell and the background
children not yet reaped (`Exact`), `child` is the foreground child exactly while it is
waited for and until it is reset (`Foreground`), only the foreground child has a handler
that may signal, and only before the shell has waited for it (`InWindow`), a background
child that has still to execute its command is in the group only until setpgid()
(`GroupOK`), and an entry has been freed only if a background child was
reaped (`FreedLate`). The hard case is the loop of `reapchildren`, which removes entries
while it walks.

**vector** (LibrariesProofs). `VectorInv`: the first `size` cells hold different copies,
these are all there are, and their contents are what the calls should have left. Each
operation is described by a map from the places after it to the places before it, and
one lemma shows that such a map keeps the invariant. That `get_new_capacity` reaches its
target is proved by descent.

**scheduler** (LibrariesProofs). For any set of jobs, ticks per second and scheme.
`SchedulerInv`: a queued job's time left is what it has not run yet (`BooksRight`), the
running job's is too once it is charged for the time since the last call
(`RunningRight`), and arrival, first start and waiting are those the caller measured
(`ClockRight`). The equations hold with one tick per second; with more, the time kept in
an int lies before the time of the call, and inequalities remain.

**minixfs** (LibrariesProofs). For any sizes of blocks, inodes and disk, under `SizesOK` (they
are positive, and a write has at least one byte). `MinixfsInv` has three parts. `Sound`:
every block on the disk has one use, as a block of one file or of the directory or as an
indirect block, and files have no gaps (`Prefix`). `Lists`: the directory has as many
entries as there are files, the same names, and the blocks its size asks for and no more.
It is claimed, like what is read back, until an entry is written to block -1 through line 94
(`stray`). `Holding`: each byte on the disk is the last
one written there, and a file only appended to has all bytes below its size. A write is
cut into steps that each have a lemma: adding a block by each of the three routes
(`BlockAdded`), the loop of `minixfs_min_blockcount` (`BlocksAdded`), and the copying
(`CopiedBytes`). `Chunks`, a loop in which each chunk begins where the one before ended,
is shown to have a closed form (`ChunksAre`), which says what every byte of a block gets,
and from which block `minixfs_read` takes every byte of its buffer (`ChunkOfByte`).

Only model-checked: all liveness properties, since fairness and ENABLED are beyond
this prover.

## 5. Disagreements between code and documentation

Each is a run whose property is a sentence, an assertion or an expectation found in
the repository, and which TLC refutes.

- **semamore** (`semamore.c:39`, `:58`). The comments say that a call blocks at the
  limit and otherwise completes. With one condition variable and one signal, the
  signal can wake a thread of the other kind, which goes back to sleep; the thread
  that could go on stays blocked. Three threads suffice.
- **drm_tester** (`libdrm.c:92`). The tester's `pthread_join` calls need not return: a
  thread blocks on a held drm with the global mutex locked, and the holder's
  `drm_post` needs that mutex.
- **parmake_asserts** (`parmake.c:126`). The assertion that a dependent is not yet
  satisfied fails with two threads.
- **chat_sigint** (`server.c:36`). The handler that is to set a flag waits for a mutex
  its own thread may hold.

Weaker observations that the models also have, stated with the hazards in
`PROJECT.json`: the stale dictionary entry of the nonstop server, and the OK it answers
to an upload of which an `open()` or a `write()` failed (`server.c:414`, `:469`); the
unchecked `accept()`, the unhandled SIGPIPE and the blocking write under the mutex
(`server.c:176`) of the chat server, two threads that queue the same rule in parmake,
jobs charged twice between whole seconds by the scheduler, the spurious wakeup at
`barrier.c:34`, the hang of mapreduce when a mapper fails, `mini_memcheck.c:124` (the
wrong pointer is tested), `minixfs.c:269` (an overwrite grows the file) and `:94` (an
entry written in front of the data), the entries freed at `shell.c:66`, the child that
signals its whole group for ever after a SIGINT between `shell.c:227` and execvp(), the
queue's uninitialised `head` and `tail` (`queue.c:42`), recall of a line that is not
there (`shell.c:717` and `:742`). `vector.c:64-66` says that reallocation happens only
when the vector grows past its capacity or in `vector_reserve`; `vector_insert` and
`vector_erase` always allocate a new array, and may shrink the capacity.

## 6. What is not modelled

Within modelled parts: contents of memory (memset, memcpy in malloc, the bytes of a
page), 64-bit overflow of sizes in `malloc` (`alloc.c:87`) and `calloc` (`alloc.c:52`),
makefiles with two cyclic goals, buffer sizes in LIST and in the nonstop parser, the
framing of chat messages below a whole message (a message cut off has the effect of a
whole one), the order in which epoll reports the events of one call (any order is
allowed), an `fopen()` that fails although the `stat()` before it found the file
(nonstop GET), a failing `unlink()`, names in the nonstop server's directory that are
something other than a plain file, a block written in part (it counts as not written), a
failing `pthread_create()` in the chat server, averages and printing in the scheduler,
the mmu's counters and the bits it only writes, `mmu_delete`, minixfs's chmod, chown,
times and virtual file, shallow vectors (whose objects the code frees with free()) and
setting an element to itself, a failing fork in mapreduce, and in the shell the
splitting of lines, what redirections do, /proc, the history file and the working
directory. Undefined behaviour is not followed: after the queue used a stray pointer,
minixfs wrote to block -1, mini_memcheck wrote through NULL, or the shell used a freed
entry, the model stops. `semamore.c` is committed with the markers of a merge conflict
and does not compile; the model takes the side of HEAD. Parts without a model are listed
in section 1 with the reason, and in `PROJECT.json`.

## 7. Plan

Every safety property of the passing runs has its theorem. What remains is outside the
proofs: a property for the one hazard that has none (two cyclic goals in parmake), the
framing of chat messages, and the shell's redirections and history file. A change to a
module is checked by its run first and by its proofs after.

Each strengthening is first checked as an invariant. CriticalProofs, WorkersProofs,
MemoryProofs and LibrariesProofs speak of the instances that the MC modules make of a component,
so that they state the property the run checks.
