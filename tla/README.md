# A TLA+ model of the xv6 kernel with threads

The repository is xv6-riscv, a teaching kernel for RISC-V multiprocessors, to
which `mythread_create()` and `mythread_join()` have been added. This directory
holds specifications of the kernel, of `mkfs` and of the user programs with an
algorithm in them, TLC configurations that check the specifications on small
instances, and TLAPS proofs that hold for any number of processes, CPUs, blocks
and buffers. Paths below are relative to `src/xv6-riscv/`.

## 1. The system

| part | source | what makes it hard |
|---|---|---|
| context switch | `kernel/proc.c` | a process is visible as RUNNABLE or SLEEPING while its CPU is still on its stack; only `p->lock`, handed over across `swtch()`, protects it |
| interrupts | `kernel/trap.c`, `kernel/spinlock.c` | `intena` belongs to a thread and is kept per CPU; a handler yields and goes on on another hart, whose registers are those of other traps |
| sleep-locks | `kernel/sleeplock.c` | test and sleep against release and wakeup on another CPU; `wakeup()` wakes all, `kill()` wakes anybody |
| process life cycle | `kernel/proc.c` | `fork`, `exit`, `wait` are sequences of short critical sections of different locks; `exit()` wakes its parent before it is a ZOMBIE |
| threads | `kernel/proc.c`, `kernel/vm.c` | globals without a lock; slots recorded in `threads[]` may be reused; pages with several owners |
| log | `kernel/log.c` | a crash at any moment, also during recovery; group commit; space reservation |
| buffer cache | `kernel/bio.c` | one buffer per block; recycling against pins and waiters |
| disk driver | `kernel/virtio_disk.c` | a device that completes out of order; descriptors run out; indices wrap |
| inodes, directories | `kernel/fs.c`, `kernel/sysfile.c` | the last `iput()` drops `itable.lock` while it truncates; two inodes locked at a time; undo inside a transaction; crashes |
| file contents | `kernel/fs.c`, `kernel/file.c` | the disk fills or a copy fails in the middle of a write; writes are cut to fit the log |
| open files | `kernel/file.c`, `kernel/sysfile.c` | reference counts shared by `fork()` and `dup()`; a file is closed after the lock is let go |
| pipes | `kernel/pipe.c` | several readers and writers; kill and close while asleep; counters that wrap |
| memory | `kernel/kalloc.c`, `kernel/vm.c`, `kernel/exec.c` | memory runs out between any two pages; undo half way through |
| clock | `kernel/trap.c`, `kernel/sysproc.c` | `ticks` wraps while processes sleep |
| console, UART | `kernel/console.c`, `kernel/uart.c` | rings with wrapping indices, an interrupt handler against sleeping processes, echoes that bypass the lock |
| user side | `user/umalloc.c`, `user/arraylist.c`, `user/sh.c`, `user/grep.c`, `mkfs/mkfs.c`, string and number routines | sequential algorithms with boundary cases |

Everything that waits uses `sleep()` and `wakeup()`. The buffer cache and inodes
use sleep-locks; the log pins buffers of the cache; a call of the file system
is a transaction of the log; the cache calls the disk driver with a buffer it
holds locked; pipes are reached through files; threads are processes, made and
reaped by the code of `fork()`, `exit()` and `wait()`, with page tables that
share pages. `PROJECT.json` lists every part with the state of its model, and
the hazards, each with the line where it bites and the properties that cover it.

## 2. The modules

| module | models | abstract counterpart | theorems |
|---|---|---|---|
| `Sched` | the context switch: who is on which CPU, `p->lock` across `swtch()` | | |
| `SleepLock` | `sleeplock.c` on `Sched` | | `SleepProofs` |
| `Proc` | `fork`, `exit`, `wait`, `kill` on `Sched` | | `ProcProofs` |
| `Trap` | `push_off`, `pop_off`, `usertrap`, `usertrapret`, `kerneltrap`, `sched` and `scheduler` as far as interrupts go | | `TrapProofs` |
| `Threads` | `mythread_create`, `mythread_join`, `sbrk` and the pages, on a coarse `fork`/`exit`/`wait` | | |
| `Log` | `log.c` with what it uses of `bio.c`, and crashes | `TxDisk` | `LogProofs` |
| `Bcache` | `bio.c` over `DiskPort` | | `CacheProofs` |
| `Virtio` | `virtio_disk.c` and the device | `DiskPort` | `VirtioProofs` |
| `FileSys` | inode table, directories, the calls on names, with crashes | | |
| `FileData` | block allocator, `bmap`, `itrunc`, `readi`, `writei`, `filewrite` | | |
| `Ftable` | open files, descriptors, what `fork`, `exit`, `pipe` do with them | | |
| `Pipe` | `pipe.c` | `ByteQueue` | `RingProofs` |
| `Uart` | `uart.c`: transmit buffer, handler, echoes, the device's queue | | `RingProofs` |
| `Console` | `consoleread()` and `consoleintr()` | `LineQueue` | `SleepProofs` |
| `Ticks` | `clockintr()` and `sys_sleep()` | | `SleepProofs` |
| `Vm` | `kalloc`, page tables, `fork`, `sbrk`, `exec`, `exit` as far as memory goes | | |
| `Umalloc`, `ArrayList` | `malloc`/`free`, and the array list on it | | |
| `Shell` | the parser of `sh.c` and the descriptors `runcmd()` sets up | grammar and meaning, in the module | |
| `Grep` | the matcher and the line buffer | regular expressions as sets of positions, in the module | |
| `Mkfs` | the image | | |
| `Text` | `memmove`, string copies and comparisons, `printint`, `atoi` | definitions in the module | |
| `Modulo` | lemmas on counters that wrap | | itself |

`MC*` modules add workloads, symmetry sets and the composition of a run; each
`.cfg` is one run. Definitions marked "Mutant" are versions of an operator with
a plausible mistake; `PROJECT.json` pairs each property of a passing run with
one of them that breaks it.

**Steps.** The kernel's shared state is protected by spinlocks, and a CPU that
holds one has interrupts off (`Trap` shows it). A step runs from one
`acquire()` of a modelled lock to just before the next: what happens in between
is invisible to the others or protected. Where a lock is held across several
steps (`wait_lock` across the loop of `wait()`, `lk->lk` across `wakeup()`,
`p->lock` across `swtch()`, `pi->lock`, `cons.lock` and `uart_tx_lock` across
their loops), it is a variable that names its holder. Where the code has no lock
(the globals of the threads, the status register of the UART), each load and
each store is a step. `SleepLock` and `Proc` take `sleep()` apart; that it
loses no wakeup is established there, and in the other modules it is one step.

**Sched.** `state`, `chan` are fields of `struct proc`; `curr[c]` is `c->proc`;
`plock[p]` is the CPU that holds `p->lock` between steps, which is only the case
while `p` leaves its CPU. `SwtchTo` is the body of the loop in `scheduler()`;
`GiveUp` a process that takes `p->lock`, stores a new state and enters
`sched()`; `SwtchBack` the scheduler after `swtch()`; `WakeOne` and `KillOne`
one turn of `wakeup()` and `kill()`. The order in which `scheduler()` scans is
left out.

**SleepLock.** Processes call `acquiresleep()` and `releasesleep()` in any order,
are preempted wherever interrupts are on, and are killed by one another.
`AcquireSleep` tests `locked` under `lk->lk`; `Sleep` takes `p->lock` and only
then gives up `lk->lk`; `Wakeup` visits one slot per step.

**Proc.** Slot 1 is `initproc`. Every loop over the table (`allocproc`,
`reparent`, `wait`, `wakeup`) takes one step per slot it locks, so that other
CPUs act in between. `AllocFails` and `ReapFails` stand for the failures of
`uvmcopy()` and `copyout()`. `initproc` is never killed, which the kernel
answers with `panic("init exiting")`. `KillZero` is `kill(0)`, which marks the
first free slot: `kill()` compares pids, and a free slot has pid 0.

**Trap.** `stack[x]` is the kernel stack of a thread or of a hart's scheduler, a
sequence of frames: where the code is, how many spinlocks it holds, what it
has saved of `sepc`, `sstatus` and `intena`. Per hart there are `sie`, `noff`,
`intena`, `stvec`, `sepc`, `spp`, `spie`. An interrupt comes whenever `sie` allows.

**Threads.** Page tables are sequences of page numbers, `used` the pages that
`kalloc()` has handed out. `Create` makes a thread whose page table repeats its
creator's and adds a stack page; three actions are its failure paths. One is
`copytable()` without memory for a page of the table, which is needed every NPTE pages:
its undo frees the pages mapped until then, and those are the creator's. `LoadId`
to `StoreRun` are the unlocked updates of `threads[]`, `currId` and `running`;
`Sweep` is one turn of the loop that `mythread_join()` runs when `running`
reaches 0. A `Workload` says which slots create threads, fork, grow and shrink.
`fid` and `families[]` are left out: only `mygrow()` reads them, and nothing
calls it.

**Log.** `home` is the file system's blocks on disk, `hdr` and `dlog` the log on
disk, `cache` and `pin` the buffer cache as the log sees it, `lh`,
`outstanding`, `committing` the fields of `struct log`, `wrote[p]` the blocks
that a call has written. One step per critical section of `log.lock` and one per
block written. `Crash` is possible in every state: memory is lost, and the
block being written may be torn. The header fits in one sector and is written
whole or not at all, which the log itself rests on. `RecoverHead`,
`RecoverInstall` and `RecoverErase` are `recover_from_log()`, and can crash too.
`panic()` stops a process for ever with `log.lock` held.
`TxDisk` is what a call may rely on: `current` is what reads return, `durable`
what a crash leaves; when no call is in progress the two may become equal, in
one step; a crash sets `current` back. The mapping is `durable <- Recovered`
(home with the committed log laid over it) and `current <- Seen` (what `bread()`
would return).

**Bcache.** `blockno`, `valid`, `refcnt`, `data`, the sleep-lock and the LRU list of the
buffers. A user is a buffer pointer of a process, `Owner`; `cur` and `bpc` are the
buffer it points to and where it is between `bget()` and `brelse()`. A process has two:
`bmap()` holds the indirect block while `balloc()` reads the bitmap, `write_log()` a
block of the log and its original. `Nested` says which block may be read while which
is held. The log appears as the client that pins; `latest` is the history of
what was last stored. Transfers are steps of `DiskPort`.

**Virtio.** Descriptors, the two rings with indices modulo `IDX` (2^16 in the
code), `info[]`, `ops[]`, `b->disk`. The device fetches in the order of the
avail ring, finishes in any order and raises an interrupt; the handler takes one
step per entry, since the device does not take `vdisk_lock`. The feature
negotiation of `virtio_disk_init()` is left out. `DiskPort` is one call, one
transfer, one return; the mapping counts a request as done when the device has
cleared its status byte.

**FileSys.** The inode table with `ref`, `valid`, `type`, `nlink` and lock;
directories as functions from names to inodes; `st[p]` is the call and where it
is. `Images` are the disks it may start from. Open, create, link, unlink, mkdir,
mknod, chdir and close, each a transaction; `durable` is what a crash leaves, by `TxDisk`. A step begins where a process
locks an inode, or takes `itable.lock` in `iput()`.

**FileData.** The bitmap, the blocks, `addrs` and `size` of each inode. The
writes of different files interleave block by block; `WriteBlock` is one turn of
`writei()`, a full disk is in `Balloc`. `WriteiFault` is an `either_copyin()` that fails
after some bytes: they are in the buffer and not in the log, so they are gone
when the buffer is recycled (`Forget`), unless a later write logs the block; `saved` is
what the log and the disk have.

**Ftable.** `ftable` with type, count and offset, `ofile[]`, the references that
pipes and inodes have from files. `job[p].todo` is what `fileclose()` still has to
release after it has let go of `ftable.lock`.

**Pipe.** Two ends with a set of processes each. `nread` and `nwrite` count modulo
`UINT` (2^32 in the code); a count of 0 stands for those that are not positive.
`WriteFault` and `ReadFault` are failing `copyin()` and
`copyout()`. `ByteQueue` is a bounded queue with two open flags; the mapping
reads the ring from `nread` to `nwrite`.

**Uart.** `tx_buf`, `tx_w`, `tx_r`, the lock, and the device's queue `fifo`.
Characters of `write()` are numbered, echoes are 0. A CPU tests `LSR_TX_IDLE`
in one step and stores in `THR` in another.

**Console.** `cons.buf` with the indices `r`, `w`, `e` modulo `CUINT`. `Store`,
`Backspace` and `KillLine` are the cases of `consoleintr()`; `ReadTake` takes one
character in `consoleread()`. `LineQueue` is a queue of finished input and a line
that is still edited.

**Ticks.** `ticks` modulo `TUINT`; `sys_sleep()` compares the unsigned difference
with its argument.

**Vm.** A page table is the set of its tables and the permissions of its leaves;
`free` counts the pages of `kmem.freelist`. A call is one step, made of the
functions of `vm.c` threaded one after the other, each of which may fail.

**The user side.** `Umalloc` keeps headers in memory cells, as the C code does;
`Shell` parses lines of characters and runs them, also with files that cannot be
opened; `Grep` reads its input in pieces of any length; `Mkfs` builds the image file by file; `Text` runs the loops byte by byte.

## 3. What is checked

Properties that belong together are one invariant of a run; the table names the
parts of each. A name ending in `Inv` is an inductive invariant of section 5.

| run | properties | parts and meaning |
|---|---|---|
| `sleeplock` | `MutualExclusion`, `NoLostWakeup`, `LockInv` | one holder, and `locked` and `pid` name it; no process sleeps on a free lock that nobody is about to wake it for |
| | `SleeperIsWoken` | under the fairness below, a sleeper is woken |
| `log` | `LogInv` | who is in a call, what the headers name, how cache, log and home blocks agree in each phase |
| | `ReserveInv` | `NoPanic`, `WroteInv`, `RoomInv`: `log_write()` finds room, because what the running calls have reserved and not used still fits |
| | `Atomicity` | `Log` implements `TxDisk`: a crash at any step leaves all of the committed calls and nothing of the others |
| | `SleeperIsWoken` | `begin_op()` does not sleep for ever |
| `kernel` | `ProcInv` | a process on one CPU at a time, a slot not freed under a CPU, a slot under construction belongs to one `fork()` |
| | `NoOrphans`, `NoLostExit` | a parent is alive or `initproc` takes over; a parent asleep in `wait()` has no zombie that will not wake it |
| | `CacheInv` | one buffer per block, reads return the latest contents, changes outlive recycling, and `bget()` finds a buffer when there are two for each process and one for each pin |
| `proc_live` | `WaitReturns`, `ExitCompletes` | `wait()` returns once a child has exited; `exit()` comes to ZOMBIE, on two CPUs that compete for the locks |
| `pipe` | `PipeInv` | no use after `kfree()`, no lost wakeup, at most PIPESIZE bytes |
| | `ReadZeroIsEOF`, `Fifo` | a read that asks for bytes returns 0 only when no writer is left, or when its copy to the user failed; `Pipe` implements `ByteQueue` |
| `pipe_live` | `ReaderServed`, `WriterServed` | nobody waits for ever with bytes, room or a closed end before them, except for the reader of a writer that is killed (`pipewrite()` then returns without its wakeup) |
| `devices` | `VioInv` | descriptors are conserved, a finished request is reported, a sleeper sleeps for a reason, every request is in one place, no block has two requests |
| | `TransfersEnd`, `ImplementsPort` | every call ends; the driver implements `DiskPort` |
| | `UartInv` | characters leave in order and none is lost, the transmitter does not stall, no writer sleeps with room before it |
| | `AllSent` | everything written is sent |
| `files` | `InodesSafe` | `FsTypeOK`, `RefsCounted` (reference counts are exact), `IputNeverSleeps` (the last `iput()` finds the lock free), `FsNoPanic` |
| | `NoCircularWait`, `CrashSafe` | no circle of processes waiting for inode locks; what a crash leaves is sound: everything that a path from the root reaches is in use, with links enough |
| | `DataSafe` | `FdTypeOK`, `ReadsBack` (a read returns what was written; bytes that a failing copy reached may be old or new), `BitmapExact` (the bitmap is what the files own, no block twice), `ChunkFits` (a chunk of `filewrite()` writes at most MAXOPBLOCKS blocks) |
| | `FilesSafe` | `FtTypeOK`, `RefsExact`, `PipeEndsOwned`, `FtNoPanic`, `OffsetsShared` |
| `units` | `ThreadsSafe` | `TypeOK`, `MappedIsAllocated`, `OnlyThreadsShare`, `AllComplete`, for programs that join what they create and have less than NPTE pages |
| | `ConInv`, `ImplementsLines` | no reader sleeps with input, a full buffer is readable; `Console` implements `LineQueue` |
| | `TrapInv` | no trap with a spinlock held, `noff` counts the locks, `intena` follows its thread, a trap returns where it was taken, the vector is the right one |
| | `NapInv` | `SleptEnough`, `NoTickMissed`: a sleeper is woken at its tick, also across the wrap of `ticks` |
| | `MemorySafe` | `PagesConserved`, `SizeIsMapped`, `VmNoPanic`, `ArgumentsIntact`, `CopyIsExact` |
| | `HeapSafe` | `HeapTiled`, `RingSorted`, `ListKept` |
| | `ShellRight`, `GrepRight` | the parser accepts the grammar, keeps the words, connects the descriptors, and a program runs exactly if the files around it open; grep prints the matching lines, the matcher is the regular expression |
| | `ImageSound`, `TextRight` | bitmap, files and root directory of the image; the routines compute what their reference definitions say |

Three runs end in a violation, see section 4.

**Bounds.** They are the smallest at which the interesting cases happen, and each
is named in its `.cfg`. `sleeplock`: four processes on two CPUs, so that there are
a holder, a releaser and two sleepers. `kernel`: three slots on two CPUs; a parent, a
child and `initproc` are what `reparent()` needs, and everybody may kill. Its cache has
two pointers of one process and one of another, four buffers for them and one pin, and
five blocks, so that `bget()` has to recycle and comes down to the last buffer.
`proc_live`: three slots on two CPUs; a process stays on the CPU of its parity (`Stays`),
so that the two CPUs compete for `wait_lock` and the `p->lock`s and the graph remains
small enough for a temporal check. There are no kills: those are in `kernel`.
`log`: three processes, the log admits two calls at a time, so one sleeps, and the two
bring the log to one block below the panic. Two blocks cannot fill a log of three, so
it is `RoomInv` that the run tests there; the theorem `LogNeverFull` covers all sizes.
`pipe`: two readers and two writers, two bytes of buffer,
counters modulo 4, calls of at most three bytes, so that a write fills the ring and
the counters wrap inside it; `pipe_live` has one byte value and a reader and a writer
that may be killed. `devices`: seven descriptors, two requests and one descriptor too few for a
third, ring indices that wrap at 7; a transmit buffer of 2 and three characters.
`files`: two processes with two calls each on four inodes and a crash, a disk that
fills, once with a directory beside a file and once with a directory in a directory,
both of which are removed; files of one direct and two indirect blocks on seven
blocks, with writes that begin inside a block, so that a chunk reaches MAXOPBLOCKS;
two open files. `units`: see `MCUnits.cfg`; strings, lines, files and
heaps are enumerated completely up to the lengths given there. `MaxMade`,
`MaxCalls`, `MaxCrashes`, `MaxOps`, `MaxOff`, `MaxChars`, `MaxEchoes`, `MaxRead`,
`MaxCount`, `MaxBlocks`, `MaxFiles`, `MaxRe` and `MaxFile` cut what would otherwise go on
for ever. Symmetry is used where nothing temporal but safety is checked: of CPUs,
of blocks and of the pointers of a process in `kernel`, of the processes of an end
and of byte values in `pipe`, of processes and blocks in `log_reserve`.

In `log` and `sleeplock` deadlock is checked too, as in `kernel` and `proc_live`. The other
runs switch it off: their processes may stop for good (all ends closed, calls used up).

**Fairness.**

- `SleepLock`: a RUNNABLE process is scheduled if CPUs keep coming free
  (`scheduler()` scans the whole table), the timer preempts, and a process that
  is inside the lock code and runs again and again takes its next step
  (`GoesOn`). The last is more than strong fairness of the step: with four
  processes there is a schedule in which the holder only ever runs while
  another CPU holds `lk->lk`. The code excludes it, for `acquire()` turns
  interrupts off before it spins, and a process that spins keeps its CPU. A
  holder releases the lock; nobody has to ask for it.
- `Proc`: the same in another form: a process that spins is not preempted
  (`LiveNext`, and accordingly the fairness of the timer in `FairProc`), and a lock that
  is free again and again is obtained. In `proc_live` the scheduler that has to
  reach a process is that of its CPU.
- `Log`: a process in `begin_op()`, in a call or in `commit()` goes on, and
  recovery too. Calls end. Crashes may go on for ever; a sleeper does not
  survive one.
- `Pipe`: strong fairness of a process's step, because it competes for
  `pi->lock`. Nobody has to read, write or close.
- `Virtio`: the device fetches and finishes what it is given and the interrupt is
  taken (interrupts come on again: `Trap`); a process that was woken gets
  `vdisk_lock`. Nobody has to make a request.
- `Uart`: the device sends, its interrupt is taken in the end (strong, since the
  handler competes for `uart_tx_lock`), and a CPU that has begun to store goes on.

## 4. Where the code and its documentation disagree

- **`log_reserve`**: `param.h` calls LOGSIZE the "max data blocks in on-disk
  log" and MAXOPBLOCKS the "max # of blocks any FS op writes". The on-disk log
  holds LOGSIZE - 1 data blocks and the header; `begin_op()` reserves up to
  LOGSIZE, and `log_write()` tests for room before it absorbs. Three calls that
  use all of MAXOPBLOCKS panic. One block less is enough: `ReserveInv` in run `log`,
  and for all sizes the theorem `LogNeverFull`. A chunk of `filewrite()` writes at most
  MAXOPBLOCKS (`ChunkFits`), and that many only if each block it allocates has its bit
  in another bitmap block; a disk of FSSIZE blocks has one bitmap block.
- **`threads_reuse`**: when `running` reaches 0, `mythread_join()` calls
  `freeproc()` on the slots recorded in `threads[]`, also on those joined long
  ago that hold another process now.
- **`fs_up`**: a process may sit in a removed directory whose parent is removed and
  freed too; `chdir("..")` then reaches a free inode, and `ilock()` panics.

Seen while modelling and not made into runs:

- Two programs that create threads at the same time can lose an update of
  `running`; a join then frees a thread that runs. `mythread_create()` without memory
  for a stack returns with `np->lock` held, and the next `sched()` panics
  (`SchedPanic` in `Threads`). The pages of a program that has created threads are
  never freed. `threads[]` is indexed by the creations since `running` was 0, and not
  bounded. `memtest.c` expects memory from `sbrk()` in one thread to appear in the
  other, which `growproc()` does not do. `ThreadsSafe` therefore is checked for the
  workloads that these do not touch, and is not a theorem.
- `kill(0)` marks a free slot killed, and the next process there is killed at birth.
- `create()` in a directory that has just been removed makes an inode that no path
  reaches, with a link count that nothing takes back (`CrashSafe` therefore speaks of
  the tree below the root); a crash leaks the inodes that are open and unlinked.
- NBUF and LOGSIZE are both 30, so the log may pin as many buffers as there are;
  that `bget()` does not panic is shown under `EnoughBuffers`, two buffers
  for each process in the file system and one for each pinned block. A block that
  a failing `either_copyin()` has partly filled is released without `log_write()`: what a
  read returns of it depends on when the buffer is recycled.
- A writer of a pipe that is killed in the middle of its loop returns without waking the
  readers, who sleep beside its bytes until the next write or the last close.
- `copytable()` that runs out of memory frees pages that its caller still uses,
  in programs of NPTE pages or more.
- `malloc()` computes with `uint`; requests near 2^32 bytes are outside the model.
  `al_get_at()` does not test for negative indices. `mkfs` does not check that the
  files fit. The shell's `cd` drops the last character of its line, newline or not.

## 5. What is proved

For any number of processes, CPUs, blocks, buffers, descriptors, values and for any
sizes of rings and logs within the assumptions below:

| module | theorem | statement |
|---|---|---|
| `SleepProofs` | `TypeCorrect`, `LockInvariant` | `Spec => []TypeOK`, `Spec => []LockInv` (`SleepLock`) |
| | `OneCpu`, `Exclusion`, `WakeupNotLost` | `[]OneCpuPerProc`, `[]MutualExclusion`, `[]NoLostWakeup` |
| | `NapInvariant`, `NapsAreExact` | `TkSpec => []NapInv`, `[]NapExact` (`Ticks`) |
| | `ConInvariant`, `ConIsSafe` | `ConSpec => []ConInv`, `[]ConSafe` (`Console`) |
| | `ConsoleIsLines` | `ConSpec => ImplementsLines`, that is, `Console` refines `LineQueue` |
| `ProcProofs` | `ProcInvariant` | `Spec => []ProcInv` |
| | `SlotsOwned`, `NobodyOrphaned`, `ExitNotLost` | `[]SlotOwned`, `[]NoOrphans`, `[]NoLostExit` |
| `LogProofs` | `LogTypes`, `LogInvariant` | `Spec => []TypeOK`, `Spec => [](TypeOK /\ LogInv)` |
| | `WakerExists`, `DurableWhenIdle` | `[]SleeperHasWaker`, `[]SyncedWhenIdle` |
| | `LogNeverFull` | if `LogFits`, then `Spec => []ReserveInv`, and with it `NoPanic` |
| | `LogImplementsTxDisk` | `Spec => Atomicity`: `Log` refines `TxDisk` |
| `CacheProofs` | `CacheInvariant`, `CacheIsSafe` | `BcSpec => []CacheInv`, `[]CacheSafe` |
| `VirtioProofs` | `VioInvariant`, `VioIsSafe` | `VioSpec => []VioInv`, `[]VioSafe` |
| | `PortImplemented` | `VioSpec => ImplementsPort`: `Virtio` refines `DiskPort` |
| `RingProofs` | `PipeInvariant`, `PipeIsSafe` | `Spec => []PipeInv`, `[]PipeSafe` |
| | `ZeroIsEOF`, `PipeIsQueue` | `Spec => ReadZeroIsEOF`, `Spec => Fifo`: `Pipe` refines `ByteQueue` |
| | `UartInvariant`, `UartIsSafe` | `UartSpec => []UartInv`, `[]UartSafe` |
| `TrapProofs` | `TrapInvariant`, `TrapsAreSafe` | `TrSpec => []TrapInv`, `[]TrapSafe` |

`Modulo` has the lemmas on counters that wrap: the distance of two counters
counts, and two slots of a ring coincide only a whole turn apart.
The invariants proved are those that the runs check, word for word; TLC has
visited them on small instances before they were proved.

**Assumptions**, all evaluated by TLC in the runs. `Sched`: NPROC is positive, `NoCpu`
is no CPU. `Log`: the processes are finitely many, MAXOPBLOCKS is positive and at
most LOGSIZE, the markers for torn and uncached are no values. `Pipe`, `Console`:
the size of the ring is positive, divides the range of the counters and is smaller
(512 or 128, and 2^32). `Ticks`: the argument of `sleep()` fits in the counter's
range. `Trap`: harts and threads are different. `Bcache`: the buffers are numbered,
their users finite. `Virtio`: at least three descriptors, and their number divides
the range of the indices (8 and 2^16). `Uart`: the device's queue (16) has room for
one character of each CPU that echoes and one of the transmitter.
Two hypotheses are not assumptions but part of statements, since the constants of the
kernel do not make them true by themselves: `LogFits` in `LogNeverFull` (calls
stay a block below MAXOPBLOCKS, and the log on disk has LOGSIZE blocks), and
`EnoughBuffers` in `BuffersSuffice`.

The arguments, with what each inductive invariant adds to the property:

**Sleep-lock.** `LockInv` adds who holds which spinlock: `p->lock` is held between
steps exactly while `p` leaves its CPU, `lk->lk` exactly by the CPU of a process that
is about to sleep or is in `wakeup()`. A process about to sleep found the lock
taken, and `lk->lk` has kept it so. A sleeper whose lock is free lies at or after
the slot that the `wakeup()` in progress has reached.

**Processes.** `ProcInv` has `CpuInv` (`p->lock` as above, and whoever is in the
middle of `exit()`, `reparent()` or `wait()` runs on the CPU that holds `wait_lock`),
`StageInv` (what each place in a call implies for its process and the slot it
works on), `ParentInv` (a free slot has no parent and no children, a process past
`reparent()` has no child left) and `WakeInv`: a parent that scans has seen
no zombie among the slots behind it, one about to sleep has none at all, and a
process between its `wakeup(parent)` and ZOMBIE holds `wait_lock`, so its parent
cannot have gone to sleep in between.

**Log.** `LogInv` has four parts. `OpsInv`: `outstanding` is the number of
processes in a call (lemmas on cardinalities count them), there is one
committer, nobody is in a call during a commit, and a sleeper has a waker.
`HeadInv`: the headers name no block twice, fit, and what the header on disk
names is not torn. `RunInv`: a block not pinned is clean in the cache, the
header on disk is empty except during the installation, the blocks copied so
far equal the cache, the blocks installed so far equal the log. `RecoverInv`:
after a boot, only blocks that the header names may be torn or half installed.
From it, `Recovered` changes only when the header is written at the commit, at
which moment it becomes `Seen`; writes in a call change only `Seen`; a crash, torn
block or not, leaves `Recovered` as it was.
`ReserveInv` is inductive beside `LogInv`. `WroteInv`: a call has written at most
`OpBlocks` blocks, and they are in the log. `Reserved` is a set with one member for
each block that a running call has reserved and not yet written; `RoomInv`: the
log's length and the size of that set stay within LOGSIZE. A write that is new to
the log takes a member out of it, `begin_op()` adds MAXOPBLOCKS and has just tested
that they fit, `end_op()` can only shrink it. Every running call has at least one
member left (`LogFits`). That is not quite enough: `log_write()` panics one block
before LOGSIZE, also for a block it would absorb. While two calls run, they have
two members; when only one is left, `RoomInv` says that the log holds nothing but
its blocks or that one more block is free, which the calls that ended have left.

**Buffer cache.** `UsersInv` says who holds which buffer and its lock, `CallsInv`
relates a transfer under way to the buffer it fills or empties, `PinsInv` says that
a pinned block keeps a valid buffer, `ContentsInv` that a valid buffer has the
latest contents, and that a block on disk that is out of date is pinned or is in the
hands of the process that changed it. `bget()` finds a buffer because the busy ones
inject into users and pins.

**Disk driver.** `RequestsInv`: each call owns three descriptors, no two calls share one,
and a descriptor is free exactly if nobody owns it. `PlaceInv`: the head of a request is in one of
the avail ring, the device, the used ring or already handled, and its status byte and
`b->disk` say which. `RingsInv`: no head is twice in a ring, so with at most NUM
requests no entry is overwritten before it is read. `BlocksInv`: no two calls are on one
block, which `bio.c` ensures by the buffer's lock. For the refinement each step of the driver and the
device is a step of `DiskPort` or leaves its variables alone; the transfer is the step
in which the device finishes a request.

**Pipe.** `HolderInv` and `EndsInv`: who holds `pi->lock`, which ends are
open and who may still use the pipe. `CallsInv`, `SleepInv`: a writer asleep sees a full ring or a
reader that is in its copy loop and will wake it; a reader asleep sees an empty
ring, a writer in its loop, or a killed writer (which returns without its
wakeup). The refinement is by the lemmas of `Modulo`: storing at `nwrite % PIPESIZE`
extends the sequence from `nread` to `nwrite` at its end and disturbs nothing in it.

**UART.** `TxLockInv`: who is between taking a character and storing it.
`TxRingInv`: the slots from `tx_r` to `tx_w` hold the characters in order. `RoomInv`: the queue has
room for every CPU that has seen `LSR_TX_IDLE` and not stored yet; this is
what makes the unlocked echo safe.

**Console.** `ConOrder` is `r <= w <= e` on counters that wrap, as distances that add
up; `ConLine`: what lies between `w` and `e` is an unfinished line, which is what the
backspace and kill cases rely on; `ConHolder`, `ConGot`: the lock, and what a reader
has taken.

**Clock.** `NapInv` adds that the unsigned difference `ticks - ticks0` is the true number of
ticks as long as that is below the range.

**Traps.** `StacksInv` says for each frame of each kernel stack which frame may lie
under it and what it has saved; `CurrentInv` that a stack is in use by one hart;
`HartInv` what `intena` and `stvec` are at each place. A trap returns to the right place
on whatever hart because the frame that `kerneltrap()` saved, not the register, decides.

## 6. What is only model-checked

- Liveness: `SleeperIsWoken` (both), `WaitReturns`, `ExitCompletes`, `ReaderServed`,
  `WriterServed`, `TransfersEnd`, `AllSent`. TLAPS has no rules for fairness here.
- `Vm`, `Umalloc`, `ArrayList`, `Shell`, `Grep`, `Mkfs`, `Text`: the algorithms are
  recursive, and what a recursion computes for every input needs an induction over
  data that the installed provers do not do.
- `Ftable`: its counts are sums over processes and descriptors, which needs the same
  induction. `FileSys`, `FileData`: the inductive invariants would have to describe every
  stage of every call; TLC checks the properties in all reachable states of the instance.
- `Threads`: false in general, see section 4.

## 7. What is not modelled

Boot code, assembly, the PLIC, `printf`'s formatting apart from numbers, the RAM disk (not
built), `usertests.c` and the user programs that only call the kernel. Weak memory is not
modelled: spinlocks order all accesses except those of the thread globals and of the
UART's status register, where each access is a step of its own. In `FileSys` the inode table is
as large as the set of inodes (`SlotAssumption`), so that `iget()` does not panic.
`families[]` and `mygrow()` are unused code. `PROJECT.json` gives the reason for every part left out.
