# OSpotify: verification of the kernel

OSpotify is a small SMP kernel for the i386 in C++ (`src/kernel`), with an
ext2 file system, processes with fork/execl/wait, and, on top, a music player:
a VGA cover and an Intel HD Audio driver that streams a WAVE file. The
repository has no specification of its own; what the code promises stands in a
few comments (`condition.h`: "no missed signals"; `t0.dir/sbin/sys.h`: what each
system call returns; `atomic.h`: "Is this correct?"; `threads.h`: "Why is this
safe?"). This directory states those promises, and those that the code relies on
without saying so, in TLA+. They are model-checked with TLC on small instances,
and those of the concurrent core, of memory and heaps, of processes and of booting
are proved with TLAPS for every instance.

## 1. Inventory

How the parts lie on each other, from the hardware up:

    player (audio.h, list_wave.h, vga.cc)  --- Ext22 (two caches)
    system calls (sys.cc) --- processes (process.cc) --- files (file.h) --- Ext2
    futures, bounded buffers, barriers --- conditions, blocking locks
    semaphores                             heap            block input, IDE
    scheduler, reaper, idle threads, timer --- ready queue, zombies
    interrupt-safe spin locks              physical memory, page tables, TLBs
    atomic exchange, interrupt flag, monitor, cr3   (hardware)
    booting (mbr.S, init.cc, config.cc)    before all of it; printing beside all of it

| Part (src/kernel) | State | Operations | What is hard | What makes it correct |
|---|---|---|---|---|
| Booting (`mbr.S`, `init.cc`, `smp.cc`, `config.cc`, `pit.cc`) | registers of the boot sector, kConfig, smpInitDone, running, howManyAreHere | load, configure, initialise, start the cores, arrive | one entry stack for all cores, started one by one; 16-bit counters; tables of the BIOS | the image is in place; one core on a stack; nothing used before it is initialised; one first thread; all arrive |
| Spin locks (`atomic.h`) | `taken`, `was`, IF of each core | lock, unlock | other cores, and interrupts of the own core, between any two steps; `was` is one member for all | exclusion; no spinning against oneself; the caller's IF is restored |
| Waiting (`atomic.h`, `threads.h`, `queue.h`, `machine.S`) | the monitor of each core | monitor, mwait | a core has one monitor, and the lock around the look takes it away from the queue | no wake-up is lost |
| Scheduler (`threads.h`, `threads.cc`, `queue.h`, `context.s`, `pit.cc`) | readyQ, zombies, activeThreads, no_preempt and esp of each TCB, the stack a core is on | block and its callers yield, stop, the timer, semaphores; thread; delete_zombies | a thread becomes visible to other cores while a core is still on its stack | one core for a stack; no TCB is lost, doubled or used after deletion; ready threads run |
| Semaphores, blocking locks (`semaphore.h`, `blocking_lock.h`) | count, waiting queue | down, up | up() between enqueueing and sleeping | no unit lies idle while somebody sleeps; one wake-up for one unit |
| Conditions (`condition.h`) | epoch, queue | wait, notify, notifyAll | the lock is given up before the sleep | no missed signals; the lock is owned on return |
| Barriers (`barrier.h`) | left, epoch | sync | a fast thread laps a slow one | nobody passes early, everybody leaves |
| Bounded buffer (`bb.h`) | ring, head, n, three semaphores | put, get | several producers and consumers | first in, first out; nothing overwritten; no one waits for ever |
| Futures (`future.h`) | value, ready, a semaphore | set, get | get before, during and after set, by many | the value that was set; every get returns |
| Shared pointers (`shared.h`) | ref_count | copy, move, assign, destroy | owners on several cores | the count is the number of owners |
| Heaps (`heap.cc`, and `heap.c` of the programs) | boundary tags, list of free blocks | malloc, free, realloc | its structure lies in the memory it hands out | blocks tile the heap, live blocks are disjoint and keep their contents |
| Memory (`physmem.cc`, `vmm.cc`) | free frames, page tables, cr3, TLBs | page fault, make, delete | stale translations, frames freed twice | frames have one owner; memory is private |
| Processes (`process.cc`, `sys.cc`) | tables of semaphores, children, files | fork, exit, wait, sem, up, down, close, execl | parent, child and grandchild share objects whose life ends with the last | references exact; wait() returns the status |
| execl (`sys.cc`, `elf.cc`) | memory of the process, its tables | find, check, copy, clear, load, start | the old program is gone before the new one is known to be good; arguments laid out by arithmetic | a started program has its segments and arguments; a failed call has changed nothing |
| Files (`file.h`, `sys.cc`) | the offset shared by parent and child | open, read, seek, len, close | two readers over one offset | read() delivers the file's bytes and counts them |
| Ext2, block input, IDE (`ext2.*`, `block_io.*`, `ide.*`) | nothing that changes | find, read_all | block boundaries, indirect blocks, links | the bytes of the file that the path names |
| Ext22 (`Ext22.*`) | block cache, node cache, root directory | mount, find, read | replacement, wrapped counters | the cache never lies |
| Player (`audio.h`, `list_wave.h`) | ring, written, index, offset | parse, refill, end | races the hardware round a ring | the samples in their order, nothing stale |
| Printing (`snprintf.cc`, `debug.cc`, and `printf.c`, `libc.c` of the programs) | the lock of Debug, locals of dopr() | printf, panic, cp | characters of many printers; a panic unlocks by force; signs, zeros, widths | what is printed can be read back; messages are whole; every call returns |
| VGA drawing, codec set-up, interrupt table, keyboard, snake | | | | see section 8 |

`PROJECT.json` lists each part with its status and the hazards at their lines.

How they interact: everything above the spin locks uses them as atomic
sections. Semaphores, conditions and the timer enter the scheduler through
`block(action)`, whose action runs on the stack of the *next* thread.
Processes own threads, address spaces, semaphores, files and futures through
`Shared<>`. The hardware acts by itself in three places: timer interrupts, the
TLBs, and the sound engine that plays the ring.

## 2. Modules and how they correspond to the code

One module models one part. What a lower module shows is what the upper one
assumes; where a lower part has an abstract specification, the upper module uses
that.

| Module | Models | Correspondence |
|---|---|---|
| `Mutex` | abstract mutex | `owner` |
| `InterruptSafeLock` | `atomic.h` | one action for each memory access or instruction that others can see: CallLock, Disable, Exchange, Won/Retry, ReadWas, Release, Restore; Interrupt and Iret nest a handler on a thread; FlipIF is code that disables interrupts itself |
| `IdleLoop` | block()'s wait for readyQ and lock()'s for its lock: `threads.h`, `atomic.h`, `queue.h`, `machine.S` | one action for each instruction that others can see; `armed` and `hit` are a core's monitor, Written a store that may trigger it, Interrupt a handler that may take the monitor away |
| `Queues` | vocabulary | Contains, NoRepeats on sequences |
| `Scheduler` | `threads.h`, `threads.cc`, `queue.h`, `context.s`, `pit.cc` | `at[c]` walks through block(): pick, claim, announce, switch, handoff, resume. Handoff is block()'s action, run after Switch on the next stack. `call` remembers whose action it is. Tick is the timer at any point with interrupts on. Unlink/Delete/ReapDone are the reaper, StartSpawn/Create/Publish are thread(), Park/Unpark stand for semaphores; the reaper parks in the heap's lock (heap.cc:196) while it deletes |
| `SemaphoreSpec` | abstract semaphore | units and a queue; Down and Up are atomic |
| `Semaphore` | `semaphore.h` | Decrement/Block/Sleep and Increment/Grant/Wake; "switching" is the window in which the thread has left its code but its stack is not saved, and the ISL is still held |
| `BlockingLock` | `blocking_lock.h` | a semaphore of one unit, used in pairs |
| `MesaMonitor` | abstract monitor | giving up the lock and listening is one step |
| `Condition` | `condition.h` | Wait, Recheck (the lock is taken again in block()'s action), Sleep or StayAwake by epoch, Notify(limit) |
| `ReusableBarrier` | `barrier.h` over `Condition` | Sync, ArriveEarly, ArriveLast, KeepWaiting, StopWaiting, SyncReturn |
| `BoundedBuffer` | `bb.h` over atomic semaphores | one action for each access to a shared member |
| `Heap` | `heap.cc`, `heap.c` | `array` int by int with both tags and both links; malloc and free are one step each as they hold a BlockingLock throughout. `whose` chooses the kernel's heap (best fit) or a program's (first fit, Realloc, one user) |
| `AddressSpaces` | `physmem.cc`, `vmm.cc`, the memory of `process.cc` | frames with their contents (the free list lies in them), directories and tables in frames, cr3 and TLB of each core; Write, PageFault, Fork, Exec, Exit, ForkReturn and Reap (with the destruction), SwitchTo. A loop of the code is `Loop`, with one operator for its round |
| `Processes` | `process.cc`, `sys.cc`, `future.h`, `shared.h` | the three tables, the system calls with their checks, the future's four steps, reference counts as the code changes them |
| `BlockIO` | `block_io.cc` | read and read_all as functions |
| `Ide` | `ide.*` | a drive as a sequence of cells behind BlockIO |
| `Ext2` | `ext2.*`, the link loop of `sys.cc` | i-nodes, blocks, entries, find as functions of the drive |
| `OpenFiles` | `file.h`, `sys.cc` over `Ext2` | Open, Seek, Fork, Close, Exit; read() in the steps Begin, Compare, Trim, Copy, Add, one for each look at the shared offset |
| `Ext22` | `Ext22.*` over `Ide` | both caches with lru counters that wrap; ReadBlock gets one block |
| `Player` | `audio.h`, `list_wave.h`, `vga.cc` over `Ext22` | the thread from mounting to shutdown, and Play, the hardware |
| `Boot` | `mbr.S`, `init.cc`, `smp.cc`, `config.cc`, `pit.cc` | `at[c]` walks from resetEIP through kernelInit(); the first core also loads the image sector by sector, reads the tables entry by entry, and goes through InitOrder; `stack[c]` is the stack it is on |
| `Printf` | `snprintf.cc`, `printf.c` (the same code) | FmtInt, FmtFp, FmtStr as functions, dopr() as a machine with one action for each state of its scanner, Put for a character |
| `Console` | `debug.cc`, `libc.c`, `printf.c` over `Printf` | Call, Lock, Format, Unlock on a core, Panic and Halt; printf() and cp() of a process, a system call for each character |
| `Execl` | `sys.cc` (execl, exec), `elf.*` over `Ext2` | Call, FollowLink, CheckProgram, CopyArguments, Clear, Exec, LoadHeader, LoadSegment, Start; user memory byte by byte |
| `FileSystems` | `Player`, `OpenFiles` and `Execl` together | both file systems are made of the same drive (kernel.cc:12, init.cc:173); a variable `user` says which of the three reads it |
| `MC*` | instances | constants of the runs, hand-made drives; MCScheduler runs all cores or one alone; MCInterruptSafeLock, MCBlocking and MCMemory hold several users of one kind of thing, with a variable `user` as in FileSystems: chosen in Init, it says which of them takes all the steps |
| `*Proofs` | theorems | see section 6 |

Abstractions used throughout: a part whose lock is shown to exclude is one step
where it holds the lock. A file's bytes are cells, distinct where the properties
tell them apart; a cell may stand for all the bytes of a number, a name or an
i-node. Panics and `Debug::shutdown()` end a behaviour. Output is left out.

Points where a model is narrower than the code, by module:

- `Scheduler`: handlers other than the timer are not modelled (they do not
  block). Idle cores look again at any time; `IdleLoop` has their waiting.
- `IdleLoop`: addresses are distinct; the hardware works by cache lines, which
  only means more wake-ups. A core's own store may or may not hit its own
  monitor. A handler may take the monitor; then the next tick ends the wait.
  What a handler itself does to readyQ is what another core does.
- `Semaphore`: `count` is an unbounded natural number; the code has 64 bits.
- `Heap`: requests near 2^32, whose rounding wraps, are not modelled; nor is
  malloc(0), which returns the array itself and changes nothing. The comment at
  heap.cc:7 says first-fit; malloc takes the best of the first 20 that fit
  (heap.cc:165), and that is what is modelled. `heap.c` has no lock: a program is
  one thread. realloc() gives the old block back even when malloc() failed, and
  copies as many bytes as the old block has with its header and footer; both as
  in the code.
- `AddressSpaces`: the private half of an address space. The two pages of the
  interrupt controllers lie in one table and are one page here. A dispatch loads
  cr3, as context.s does for every switch, and so empties the TLB. The rest of a
  free frame besides its link is never read before it is cleared and not kept.
- `Processes`: a process has one thread, as in the code; so its own tables have
  one user. The thread that runs a process holds a reference until it is deleted.
- `OpenFiles`: `len()` of a console descriptor after close (sys.cc:284) and a
  path through a plain file (ext2.h:257) panic, and so does a link to nothing
  (sys.cc:272); they set `panicked`. Link targets start at the root as in the code.
- `Ext22`: triple indirection (Ext22.h:239-253), needed above 64 MB, is left out,
  and so are symbolic links and directories other than the root, which the
  player never opens.
- `Boot`: one processor's descriptor tables are not told from another's. Errors
  of int 13h are ignored by the code (mbr.S:35, 68) and do not occur here. A BIOS
  without a root pointer is a null dereference in findSDT() and the end of a
  behaviour, as is memory that fails memAbove1M()'s assertion. The ids 1..n-1 are
  used as APIC numbers though configInit() read the real ones (init.cc:138), so
  AllArrive supposes that they are the same.
- `Printf`: numbers have a width of 8 bits, fractions are hundredths. Conversions
  deviate from C's printf, and the properties say where: the zeros a fraction
  lacks are put behind it (1.05 is printed as 1.50), "%.0f" is one column short,
  and so is a sign before zeros, "0" with a precision makes a field narrower, %p
  is signed. maxlen is looked at between the characters of a format only, so that
  a conversion may pass it. Behind an unfinished "%w" the code reads what lies
  behind the format's end (snprintf.cc:341, 347); the model stops there, and no
  caller has such a format.
- `Console`: U8250's poll and write are one step. vprintf() before Debug::init()
  does nothing. What a panic leaves of another core's message may be mixed with
  it; the properties say so.
- `Execl`: arguments' own memory is not read while it is cleared. An empty file
  leaves the header buffer as the heap had it. Only the first program header is
  checked (sys.cc:215), and what a path says behind a link is dropped, unlike in
  open(). The stack pointer moves by a quarter of the block's size (sys.cc:43),
  and the vector of arguments is not terminated (sys.cc:61): the program still
  finds what argc counts. Running out of memory is in AddressSpaces.
- `Player`: `Pace` says that the hardware plays at most one chunk while the
  thread's loop goes round once. Nothing in the code guarantees that: it is the
  real-time assumption under which a ring can be refilled at all.

## 3. Runs

| Run | What it asks | Properties |
|---|---|---|
| lock | Do three cores with handlers exclude each other and get their interrupt flag back; is a wake-up ever lost? | HolderNotInterrupted, NoWakeUpLost, CallerStateRestored, ImplementsMutex |
| scheduler | Is a stack or TCB ever used twice, lost, or used after deletion; do ready threads run, and if not, why? | NoStackShared, NoUseAfterDelete, ExactlyOnePlace, PreemptsOnlyOutsideBlock, ReadyThreadsRun |
| blocking | Is the code a semaphore, does a sleeper get the lock, and is the buffer a queue for many on both ends? Is the condition a Mesa monitor without missed signals; does the barrier hold and release across rounds? | FifoOrder, NobodyPassesEarly, ImplementsSpec, ImplementsMonitor, SleeperGetsLock, EveryItemIsGot, EveryoneLeaves |
| memory | Do frames have one owner, TLBs no stale entry, processes their own memory; does any sequence of malloc, free and realloc break a heap? | FramesExclusive, TranslationsCurrent, MemoryPrivate, HeapIntact, ContentsKept |
| processes | Are references exact, and does wait() return the child's status? | RefsExact, WaitGetsStatus, WaitReturns |
| files | Is what is heard the song, through caches, blocks of all kinds and the ring? Does read() deliver the file that open() named, counted rightly? Does a program start with its segments and arguments, and does a failure leave the caller as it was? | CacheExact, PlaysInOrder, LosesAtMostTheRing, DeliversTheFile, AloneReadsWhatItCounts, StartsTheProgram, FailureLeavesTheCaller |
| shared_read (violation) | Does read() return the number of bytes read when the File is shared? No. | ReadReturnsBytesRead |
| boot | Does every machine, with cores at any pace, come up with everything in place and one first thread? | KernelInPlace, StacksExclusive, InitialisedBeforeUse, ConfigurationFound, FirstThreadOnce, AllArrive |
| printing | Can everything that is printed be read back, whoever prints at the same time? | ConversionsReadBack, MessagesWhole, EveryCallReturns |

Every property of a passing run has a mutant in `PROJECT.json`: a plausible
mistake in one definition (a test dropped, a reset forgotten, an order swapped)
with which TLC finds that property violated.

Deadlock is checked in lock. It is not checked where the modelled system may stop:
all threads parked with nobody to wake them (scheduler), bounded numbers of
operations used up (blocking, printing), all processes gone or
frames used up (memory, processes), a panic, a failure or the machine
turned off (files), all cores in their idle loops (boot). There, that nobody
waits for ever is a liveness property.

### The finding

`ShobhitFile::read()` (file.h:65-77) limits `size` by one look at the shared
offset, copies from where a later look finds it, ignores what `read_all()`
returns and returns `size`. A parent and a child that share the File since
fork() can make it return 4 when 1 byte was copied; sys.h:32 says it "returns
number of bytes read". The run files shows what does hold: an unshared File
counts exactly.

Met while modelling, and stated as exceptions by the properties or by a note in the
list of hazards: open() and execl() of a link to nothing panic instead of
returning a failure (sys.cc:261, 199); execl() through a symbolic link fails after
the old memory is gone (sys.cc:244); the comment in mbr.S:38 gives the limit of the
disk as 32 MB, but the segment register wraps before that (KernelInPlace has the
bound that holds); the loop over the processor table misses its first entry and
reads one behind its last (config.cc:153), which is right only when the first
is the base processor's and nothing behind looks like another (ConfigurationFound
says what is found otherwise); a yield that finds no other thread leaves no_preempt
set (threads.h:101), so that a thread that computes for ever afterwards keeps its core
from all others (ReadyThreadsRun; section 5). Also wait() indexes its table before checking the descriptor
(sys.cc:153), and the check of program headers looks at the first one only
(sys.cc:213).

## 4. Bounds, and why they are enough

- lock: 3 cores, each with a thread and a handler: two that contend and one that
  spins. For the waiting, 3 cores and 2 threads in readyQ: one core sleeps while
  a second adds and a third takes away what woke the first.
- scheduler: 2 cores, the reaper, the init thread and one more that can be
  created, stopped, deleted and created again; all three park, the reaper while it
  deletes. Two cores and two threads that hand themselves on are what every known
  race of this kind needs. For the exception that ReadyThreadsRun makes, each core
  needs a thread that keeps it, and the reaper one more that it deletes: four threads
  on two cores, three on one. So the run also has behaviours in which only one core
  ever runs, and there the exception occurs. On two cores, with a fourth thread and
  only the reaper parking, TLC finds the same: ReadyThreadsRun holds in 936,448
  states and is violated without its exception; that takes too long for the suite.
- blocking: for the lock 4 threads, so that two sleep while one gives and one arrives.
  For the buffer 2 producers with 2 items each, 2 consumers, 2 slots: full,
  empty and wrapped. For the condition 4 threads, three notifications of 1, 2 or all (9): a waiter can be
  in the window while another sleeps and two epochs pass. The barrier has 3
  threads for 3 places and 3 rounds: a thread is in round k+1 while another is
  still in k, and the round after shows what that leaves behind.
- memory: 2 cores, the kernel's process and one user process, 8 frames, tables of 2
  entries; 8 frames are what two full address spaces need, so that frames are
  also used again. Cores are symmetric. The heaps have 22 ints, requests of 8, 9
  and 20 bytes (rounding up, an exact minimum, and one that splits or does not),
  Patience 2 for 20: the search gives up.
- processes: 3 processes (grandchildren, and waits that overlap an exit), one
  semaphore and file, two child slots. MaxUnits 1 caps only up() by users.
- files: one drive with blocks of 6 cells, 1 direct block, and directories of more
  than a block. Open files: 2 processes, 1 File, 2 descriptors, a 5-bit word (32) in place of
  32 bits so that sums overflow, offsets inside, at and behind the end; files
  with direct and indirect blocks, directories of two blocks, links.
  The player: a song of 38 samples, which needs
  the double indirect block; ring of 3 chunks of 4 cells that chunks and blocks
  do not share boundaries in; caches of 2 x 2 and 1 x 2 entries, and counters
  that wrap at 8 and 4. With fewer than 3 chunks the code could not keep ahead.
  execl: up to two arguments of one to four bytes, so of every length modulo 4;
  a program of three segments, one not to be loaded and two with a part that the
  file does not hold; programs that are cut off, entered in the kernel or laid
  out beyond 2^32, an empty file, a link, a chain that never ends, a link to
  nothing, a path through a link.
- boot: one, two or three processors, numbered in a row or with a gap; tables with
  the base processor's entry first or not, followed by something that looks like
  a processor (one that is counted already or not) or not; memory of 16 sectors' size with the boot sector in the third,
  a kernel of 4, a 4-bit count, and disks from one sector to more than the count
  holds; every place of the root pointer and every pair of registers. Three cores
  let two be started, one after the other, while the first goes on.
- printing: two cores and a process, MaxLen 9 for 1000, words of 8 bits; every
  flag with every width and precision that exceeds, meets or undercuts the
  number's digits. Messages of two and three characters are enough to interleave.

## 5. Fairness

- scheduler: weak fairness of each core's way through block(), of the timer on
  each core (interrupts keep coming), of an idle core's call of stop() (its
  thread does nothing else) and of the reaper's loop; none for what a thread's own
  code chooses to do: a thread may compute for ever. A yield or tick that finds the
  queue empty returns with no_preempt set, and only a later block() of that thread
  that finds another clears it. So ReadyThreadsRun has an exception: if all cores
  are kept by such threads and none of them blocks again, a thread that becomes
  ready waits for ever. While the reaper has a core or is in readyQ this cannot come
  about, as it yields on every turn; it can when the reaper sleeps in the heap's
  lock: t2 is ticked with an empty queue while the reaper sleeps over the deletion of
  t1, ups the reaper, and computes. The property says that nothing else starves.
- blocking: for the lock, weak fairness of each thread's code inside down() and up() and of
  unlocking. It says nothing of threads that have not yet got the spin lock, which
  is not fair; the property is about those that sleep.
  For the buffer, a producer's code inside put() (nobody has to call it), and
  consumers that keep asking and go through get().
  For the barrier, every thread executes sync() to its end, and all participants come
  back; as many threads as places.
- processes: each process's code inside its calls, and nothing else. No process
  has to exit: WaitReturns says that a wait for a child that has exited ends.

- boot: every core runs on; interrupts are still off, so nothing takes it away.
- printing: every core and process runs on. A core that spins for Debug's lock gets
  it since the number of messages is finite.

In these a thread that can run goes on. ReadyThreadsRun gives that unless its
exception comes about: so the liveness of semaphores, buffers, barriers, futures and
printing supposes that threads left with no_preempt set do not take every core for
ever. A thread that blocks, yields or exits now and then does not, but nothing in the
kernel makes it.

## 6. Proofs

Checked by TLAPS for any number of cores, threads, units, notifications and
processes, any memory, and any geometry of the file systems, song and ring. A module of proofs has, for each module it is about, one inductive
invariant (..IInv: the type invariant and named parts), lemmas that it holds at
first and after every step, with one lemma or step for each action, and theorems
that follow from it.

- `InterruptSafeLockProofs`. TakenInv ties `taken` to the holder, FlagInv says
  that a thread past `disable` cannot have a handler on top, MemoryInv says
  when the local and the shared member still hold the caller's flag.
  Theorems: Exclusion, NoSelfDeadlock, InterruptStateRestored (an action
  property), LockImplementsMutex (refinement). Of IdleLoop, the same lock around
  a queue: HolderInv ties `taken` to the one holder; MonitorInv says that
  between the monitor on the lock and the sleep only a handler moves the
  monitor; EmptyInv that what remove() found stays true while the lock is held;
  WaitInv is the reason why the wait is sound: to add a thread one must write to
  the lock, on which the monitor is, so a monitor that has noticed nothing stands
  for a queue that is still empty. Theorems: NoWakeUpIsLost, QueueLockExclusive.
- `SchedulerProofs`. A history variable `home` says where each TCB is; QueuesInv,
  HandsInv, DoingInv and OwnersInv make queues, locals and cores agree with it,
  so that no TCB is in two places; CoreInv says what a core may rely on at each
  point of block(). Without it NoStackShared is not inductive: that the next
  stack is free follows from its TCB having been in readyQ, which it is only
  after Handoff. This answers "Why is this safe?" (threads.h:116).
  Theorems: StackExclusion, SavedBeforeVisible, DeletedIsUnused,
  EveryThreadHasItsPlace, PreemptionSafe, AssertionsHold, TypeCorrect.
- `BlockingProofs`, of what threads block on. Semaphore: LockInv (the ISL is held
  at these labels), SwitchInv (count is 0 until the sleeper's stack is saved),
  NextInv, CreditInv. Theorems: UnitsNeverIdle, OneWakeUp, SemaphoreImplementsSpec,
  for general use (any Credit and Debt), and LockExcludes for the discipline of
  BlockingLock, by TokenInv: one token is in the count, in a hand-over, or with
  one thread. BoundedBuffer: UnitsInv says that the units of each semaphore and
  the threads that hold one add up to the places, the items and the lock, and
  RingInv where in the ring each item is that was put and not yet taken. Theorem:
  BufferIsFifo. Condition: QueueExact (the queue holds the sleepers, each once).
  Theorems: AssertsHold, QueueIsSleepers, ConditionImplementsMonitor.
  ReusableBarrier, which is written against the abstract monitor: StepInv says
  in which epochs a thread can have been counted, CountInv that `count` is what is
  missing of the epoch (a cardinality, so that it holds for any number of
  threads). Theorems: BarrierUsesCondition (the barrier calls the monitor only as
  MesaMonitor allows), BarrierHolds.
- `MemoryProofs`, for any number of cores, processes, frames and entries of a table.
  A frame has a role: unused, free, a directory, a table or a page, with the frame
  and entry that lead to it or its place in the list of free frames. Good(p, w) says that the
  roles w are what the words of the frames in memory p say. For each operation of
  physmem.cc and vmm.cc a lemma says that it makes good memory of good memory,
  for some roles, and that nothing changes but the one address space it is
  about (Others); while a frame is taken out of one place and not yet put into another it is
  Held. The loops of delete_private(), delete_pd() and fork() follow by induction
  over their rounds (Rounds), fork()'s with an invariant that says how much of the
  parent the child has and that the free frames are enough for the rest. The invariant
  IInv has Owned (there are roles whose directories are exactly the pd of
  the existing processes), Lives (references, stages, children and what cores run
  fit together, so that a directory in use is not deleted and a frame is
  not freed twice) and Caches (a TLB holds entries of the tables its core uses:
  nobody changes a process's tables while another core runs it). Theorems:
  FramesExclusiveOK, TranslationsCurrentOK, MemoryPrivateOK (an action property).
  The heap, of 8 ints or more: HeapInv says that there are a set B of headers, a
  set L of available ones and an order such that the headers of B tile the array
  and their footers agree (TilesOK); the links of L point to each other and go
  from a higher order to a lower, so that the list has an end and no loop (LinksOK);
  no two neighbours are available; each taken block but the two at the ends is one
  that a user has, with room for its request; and it holds what the user wrote.
  MallocStep, JoinStep and ReallocStep say that the steps keep this, with another B, L and
  order. A block has two ints or more, so Ints \div 2 steps lead to the end of the array
  and of the list: BlocksAre and FreeListIs show by induction along these walks that
  what TLC evaluates are B and L. Theorems: HeapIntactOK, ContentsKeptOK.
- `BootProofs`. CountInv and OthersInv say that `running` is the number of the core
  that is being started until that core counts itself, and that only this core
  can be between its reset and Join; FirstInv that the flag of init.cc tells the
  first core from the others; StackInv which stack belongs to a label; DidInv
  which steps of the first core's sequence are over at each label; ConfigInv how
  far the walk through the tables of the BIOS has come, and that it has kept each
  processor of the entries it has looked at, once (KeptAre);
  ArriveInv that howManyAreHere counts the cores that have arrived; LoadInv which
  sectors of the image are in place at each turn of the loader's loop. Theorems:
  StacksNotShared, OneStartsAtATime, NothingUsedTooEarly, OneFirstThread,
  MachineUnderstood, KernelLoaded. These rest on MachineAssumption, which says
  what hardware and BIOS provide and that there are no more sectors than a
  16-bit register counts. It says nothing of the order of the entries or of what
  lies behind them: MachineUnderstood holds for every order, and says which
  processor is missed and which is invented.
- `ProcessesProofs`. TablesInv: no child stands in two slots, so that what
  wait() drops is counted. SleepInv: the queue of a semaphore holds the processes
  that sleep on it, each of which has a local that refers to it, so that no
  object is deleted under a sleeper. RefsInv: each reference count is the sum of the
  cardinalities of the table slots and of the locals that refer to the object.
  StatusInv: that isReady is set, that `go` has a unit, and that a thread is past
  its down() each show that exit() was called, with the status that stands in
  the process. Theorems: ReferencesCounted, WaitDelivers.
- `FileProofs`, of those who read files. Player: CacheTypeOK and CacheExact are inductive by themselves, once it is
  known that get() always finds an entry: a hit, an unused one, or the oldest.
  ReadInv says what each read_all() has got so far, so that a read that is over
  got what it should; PlaceInv where in the file the thread is, and FilledInv how
  much of the ring has been filled before the hardware starts. In the loop,
  RingInv says that the ring holds the samples that were read last, but for the
  chunk that is being filled, and HardwareInv that the hardware is d samples ahead
  of what has been filled again: more than a chunk when that chunk is filled, and
  never more than two when the thread saw it. Since it plays at most a
  chunk until the thread looks again, d never reaches the ring, which has three
  chunks or more: so PlaysInOrder holds, which is not inductive without the
  rest. Theorems: CacheIsExact, PlayedInOrder, LittleIsLost. These rest on
  DriveAssumption, which says what is on the drive: a root directory, a cover and
  songs whose head is what list_wave.h takes it to be.
  OpenFiles: ReadAllIs says what the loop of read_all() returns for any device, block
  size and range. The model has it as a recursive function of how much is still wanted;
  the proof gives a function that satisfies the same equation, and shows by a
  least counterexample that there is only one. FilesInv: who is in read() has its file
  open (ReaderOK), what has been read is in the file at `from` (HasRead), and a
  read() that began alone stays alone, so that each of its looks at the offset sees
  the same (Undisturbed): its process can neither fork nor do anything else before it
  returns. Theorems: AloneCountsRight, ReadDelivers. The second is about the way
  from the i-node to the buffer, with any sharing. Its hypothesis LookupsLead says
  that directories and links lead where they should. Entries, Find and
  Follow are recursive over the data of a drive; TLC evaluates LookupsLead for the
  drive of MCFiles (DriveLeads).
  Execl: ExeclInv says that the memory is untouched until it is given up, and
  that it is given up only for a regular file or a link, because find() finds the
  same again. Theorem: FailureIsHarmless, for any drive of which OnlyFilesHaveHeaders
  is true: a directory begins with the number of an i-node, which is not the magic
  number that execl() looks for.
- `ConsoleProofs`. MessagesWhole speaks of all that has been put; it is inductive
  with LockInv (the core that formats has Debug's lock, and is the only one that
  formats), CallsInv (calls are counted, so that what a core puts in a new call
  is not taken for its last one) and LastInv (since the first character of the call
  that is going on, no other core has put any). All speak of the time before a
  panic, which takes the lock away. Of the scanner the proof needs only that it
  stays in its call, whatever it converts. Theorem: MessagesStayWhole.

The proofs about queues begin
with the same lemmas: what Append and Tail do to Contains and NoRepeats.

They rest on the named assumptions of the constants in each module. All but
MachineAssumption of Boot, DriveAssumption of Player and OnlyFilesHaveHeaders of Execl
(part of FileSystems' LoaderAssumption) only say
that names are distinct or what range a number has. TLC evaluates them in the runs.

Some of these theorems are about statements that no run checks by themselves, as a
stronger property of the same run covers them on the instance: Exclusion,
SavedBeforeVisible, AssertionsHold, TypeCorrect, UnitsNeverIdle, OneWakeUp,
LockExcludes, AssertsHold, QueueLockExclusive, OneStartsAtATime,
BarrierUsesCondition.
NoWakeUpIsLost is about the property that the lock run checks on its instance of
IdleLoop.

Only model-checked: all liveness (it needs ENABLED and fairness), so also that
all cores arrive; that what is printed can be read back
(ConversionsReadBack), that paths lead to their files (LookupsLead), and that execl
starts the program (StartsTheProgram). What
the recursive functions of Ext2 and Printf compute for every input is
a statement by induction over data, which the provers at hand do not do by
themselves; MemoryProofs and FileProofs do their own induction, over the rounds of a loop.

## 7. Plan

Done, in this order because each stage rests on the one before: locks,
scheduler, semaphores, conditions (with proofs); barrier and buffer; heap;
memory; processes; files; player; and around them the waiting of idle cores,
booting, printing, execl with the loader, and the programs' heap.

The suite is kept small, one run for each subsystem, so what comes next
extends these or takes the place of a weaker question:

1. Codec commands and their answers (audio.h:176-294), in Player, in front of Start.
2. Abstract specifications worth adding: a process table without tables, a
   file as a sequence with a position, a player as a position in the song.

## 8. Not modelled

- No process executes a user program at this commit (init.cc:186 is commented
  out); the system calls are modelled because the kernel offers them, and of the
  programs what keeps state or prints. `shell.c` and `init.c` only call that.
- `idt.cc`, PCI and codec set-up: run once, before or beside anything
  concurrent, with no state that is used afterwards.
- `vga.cc` drawing: output only. `u8250.cc`: its polling.
- `kb.cc`, `port.cc`, `snake.cc`, `random.h`: nothing calls them.
- Descriptor tables and instruction wrappers in assembly: the hardware's meaning
  is built into the actions.
