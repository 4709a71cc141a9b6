# A TLA+ model of JeffOS

JeffOS is a small 32-bit message-passing kernel for the PC (`src/kernel`), a
user library (`src/lib`) and a few user-level servers and drivers (`src/srv`).
This directory holds TLA+ modules of its core, the TLC configurations that
check them on small instances, and proofs, checked by TLAPS, that the main
safety properties hold for any number of threads, ports, messages, semaphores
and interrupt lines, and any ring of packet buffers.

    tlc -workers 2 -config Sched.cfg Sched      # a run: <name>.cfg, module in
PROJECT.json     tlapm SchedProofs.tla                       # a module of
proofs

## 1. The system

| component | state it keeps | operations |
|---|---|---|
| resource table (`resource.c`) | `rmap`: type and object, or next free index; `rfree` | `rsrc_new`, `rsrc_del`, `rsrc_find` |
| message ports (`port.c`) | per port: owner, restriction, master, reference count, queue; `msg_pool` | `port_create`, `port_destroy`, `port_option`, `port_send`, `port_recv` |
| scheduler (`task.c`) | `TaskList`, `MaxUsedProc`, `CurrentTask`, `CurrentTaskNum`, `SystemTimer`, thread states | create, terminate, clean up, `PsSwitchTask`, `PsPreemptTask` |
| interrupts (`int.c`, `i386.c`, `jump.S`) | `irq_task_map`, masks and in-service bits of the two 8259 | `timer_irq`, `irq_dispatch`, `ScHandleIRQ`, `ScSleepIRQ` |
| semaphores (`sem.c`) and queues (`queue.c`) | count, linked list of waiters | `sem_create`, `sem_acquire`, `sem_release` |
| memory manager (`mem.c`) | page bitmap, page tables | allocate, free, map, `brk` |
| kernel heaps (`memory.c`, `alloc.c`) | free lists by size class; chunk lists | `kmalloc`, `kfree`; `alloc`, `free` |
| objects and shared memory (`object.c`, `shm.c`) | handle table of a process; segment table | create; create, attach, close |
| name service (`srv/namer`, `lib/namer.c`) | names and their ports; a caller's handle | register, find |
| keyboard (`srv/keyboard`, `lib/keyboard.c`) | the shift, the port keys go to; a caller's port | register, wait for one request, send keys; `getch` |
| NE2000 driver (`srv/ne2000`) | ring of packet buffers, two locks, a signal | receive, transmit |

**How they interact.** Programs enter the kernel by `int 0x22`. Gates are
interrupt gates, so a call runs with interrupts off until it calls
`PsSwitchTask`; the kernel's only interleaving points are those calls and user
code. Blocking calls set the state of `CurrentTask` and call `PsSwitchTask`;
whoever ends the wait (a `port_send`, a `sem_release`, an interrupt, the timer
scan) sets the state to ready, and the last two but one also preempt. Threads,
ports and semaphores are named by indexes of one resource table, and the
structures behind an index may be gone before the index is looked up again.

**What is hard.** A pointer kept while a call sleeps; a wake-up for a message
that went elsewhere; references between ports across any history of slaving
and destroying; interrupts that come while nobody waits; an EOI sent by a
thread that resumes much later; loops with interrupts off that must end; a
kernel stack that lies in the structure being freed; table entries reused
after clean-up. Each is a row of `hazards` in `PROJECT.json`, with the
properties that answer it.

## 2. The modules

| module | models | role |
|---|---|---|
| `Resource` | `resource.c`, the free list as a sequence | used by `Port` and `Sem` |
| `ResourceTable` | `resource.c`, the array of linked entries | refines `Resource` |
| `Mailbox` | – | what ports promise |
| `Port` | `port.c` whole, with ids, thread creation, end and clean-up | refines `Mailbox` |
| `Sched` | task list, switching, preemption, timer, interrupts, blocking calls | |
| `Queue` | `queue_new`, `queue_addTail`, `queue_removeHead` on nodes and pointers | used by `Sem` |
| `Semaphore` | – | what semaphores promise |
| `Sem` | `sem.c` over `Queue` and `Resource` | refines `Semaphore` |
| `Memory` | page bitmap, page tables, threads' and processes' pages, `brk`, `kmalloc` | used by `SharedMemory` |
| `SharedMemory` | `shm.c`, and handles of `object.c`, over `Memory` | |
| `Ne2k` | the NE2000 driver's threads, locks and buffers, and its card | |
| `Services` | name server, keyboard server and their clients, over `Port` | |
| `ResourceProofs`, `ResourceTableProofs`, `PortProofs`, `SchedProofs`, `SemProofs`, `MemoryProofs`, `Ne2kProofs`, `ServicesProofs` | – | theorems |

Constants and their assumptions are declared in the modules themselves and
given values in the `.cfg` files. Names follow the source. A name
`<definition>_<Variant>` is a plausible bug in `<definition>`: putting it in
its place must break the property `PROJECT.json` pairs it with.

### Resource and ResourceTable

`rfree` as a sequence lists the free ids in the order `rsrc_new` issues them:
the last id freed is issued first, which is what makes stale ids bite early.
`ResourceTable` keeps the union of the code: an entry's word is an object
pointer or the index of the next free entry. The mapping reads the chain off
the links. Other modules use `Resource` only.

### Port

One action is one system call up to the point where it ends or sleeps. Calls
that return an error change nothing and have no action; the operators
`...Result` give their values in the order of the code's tests. `waiting[t]` is
the port a thread is inside `port_recv` for (`sleeping_on` while it sleeps);
`RecvResume` is the rest of the call after `PsSwitchTask` returns, and uses the
port found when the call began, as the code uses the pointer `p`. A message
is reduced to the port it was addressed to, its size and the 4k page that
carries it (0 for a heap block), because routing, the size limits and
`msg_pool` are all the code decides by. Which ready thread runs is left open.
A freed owner is a dangling pointer: tests on it may come out either way, or the
sender faults in the kernel and is terminated.

The threads' half has only what ports and the table see: ids, address-space
counts, and the task structure that is freed with the last count. Boot starts
`NBoot` processes of one thread.

### Sched

`walk` is `"user"` while user code runs and otherwise names the loop the kernel
is in: `PsSwitchTask` and `PsPreemptTask` take one action per slot, so that
their termination is something to check. `eoi` holds the interrupted threads
whose return from `irq_dispatch` has still to send an EOI; `inservice` is the
controller's side of it. Lines 8 to 15 are delivered through line 2, which the
code masks at start-up and nothing unmasks, so `Deliverable` asks for `n < 8`.
Ports and semaphores appear as what they ask of the scheduler: `Block`, `Wake`
(`port_send`) and `Handoff` (`sem_release`, which preempts).

`Disciplined` says that drivers follow `os_handle_irq(2)`: one interrupt a
task, one task an interrupt, registered before slept on. Without it a task
structure's uninitialised `irq`, a second registration and a registration that
outlives its thread are all possible. `irq_dispatch` then reads a structure that
was freed. Its page may not be mapped: the fault ends the thread that happened to
be interrupted, be it the idle thread (`irq_dispatch_Fault`). Or the page serves
as a message by now and the word where `state` was holds `tSLEEP_IRQ`: then
`PsPreemptTask` looks for a thread that is in no slot, for ever and with
interrupts off (`irq_dispatch_Stale`). Any other word means no match. Line 2 is
no driver's (`SchedAssumption`): it is the second controller's, masked from
start-up on.

`_start` calls `PsSwitchTask` once with interrupts already enabled
(`kinit.c:271`, `main.c:117`); the model starts inside that call and does not
interrupt it.

### Queue, Sem and Semaphore

A queue node is a record of `next`, `prev` and `data`. `order` is a history
variable, the nodes from head to tail; `Chained` ties it to the pointers, and
the mapping to `Semaphore` reads the waiters' names from the nodes. The clients
of `Sem` do what the programs of this system do: locks (created with 1) are
released by their holder and nested in one order, signals (created with 0) are
released by anybody. Other counts at creation, below 0 or above 1, are left out:
no program uses one.

### Memory

Pages stand for addresses; a page table is a function from its entries to
frames, and the flag bits are left out. Kernel calls run alone, so each is one
action, although the code maps new pages at the first free entries for a moment
before it moves them: `NewTask` and `BrkStep` follow those steps in order.
`Boot` computes the state after `_start` has made its processes; of the pages
the kernel keeps for good only those of the size class in view are there. The
heap of a size class is a free chain, a fresh page and the blocks handed out.
`MmAllocPagesRaw` answers 0 on exhaustion, which its callers do not test, and a
full table halts the kernel: the model sets `halted` and ends.
`MmFreePages` stops at the first frame whose bit is not set, as the code does.

What the code never frees stays mapped and used in the model as well: the pages
of objects, processes and handle tables, the three pages of a thread whose
process lives on (`task.c:397-398`) and the other two of its last one
(`task.c:424`). `FramesAccounted` is about frames against mappings: it counts
such a page as the kernel's, and does not say that nothing leaks. Every thread
and every process that ends takes such pages with it, against
`os_terminate_process(2)`, "The kernel will clean up the tasks resources".

### SharedMemory

A segment is a run of frames taken with a kernel page, whose mapping is given up
at once; `kmap_LowPage` maps it into a process at the first place that fits. A
handle table is reduced to counts, one of threads and one for each segment,
because `ObCreateObject` returns no handle's number to anybody and nothing calls
`ObCloseObject`: the only thing a table can do is fill up, and then the kernel
halts. For a segment the search for a free entry starts at an index that was
never set (`object.c:105`), so an attachment may halt the kernel at any time.

`SmCloseSeg` does not do what its name says. It looks for the address that
`SmAttachSeg` left in the object, which is that of a variable on a kernel stack
(`shm.c:97`), in the table of high pages of the process, and `MmCreatePageTable`
has allocated no page for that table: what it reads and clears lies in the page
behind, whose contents are the process's first thread object and whatever was
there before. The mapping and the handle stay; the call fails if one of the
words it reads is 0, otherwise the reference is given up. With no reference left
`MmFreePages` refuses the address and nothing changes. The action `SmCloseSeg`
is the case in which the reference is given up; the others change nothing. A
close of a segment the process has not attached reads through null pointers and
is left out.

`MmAllocPagesRaw` and the two loops that look for a place compare with `size -
npages`, unsigned (`mem.c:82, 178, 215`). For a segment longer than the table
the bound wraps and the loop runs, and writes, past its end; what that leaves
cannot be modelled here. `SegLens` is therefore bounded by the sizes of the
tables, in the runs and in the theorems: a *bound* on the argument of
`os_CreateSegment` that the code does not check.

Once a process with a segment has ended the frames may have two owners
(`SegmentFreed`). `FramesAccounted` and `SegmentsSound` speak of the states
before that (`Intact`).

### Ne2k

Three threads of one process share the ring of packet buffers (`sem_ring`), the
state of the card (`mutex`) and a signal (`sem_xmit_done`). They can lose the
processor anywhere, so an action is one access to what they share; `pc` is where
a thread is and `ret` where the calls into the ring return to. A packet is its
kind, because size and answer are all the control depends on. The fourth thread,
`dispatcher`, gets no message. `receive` uses its own variable `packet` before
it has a value (`ne2k.c:403`): the constant `Uninit` lists what it may find, the
buffer it was called with, an address that faults, or another buffer left in the
register. In the last case it serves and frees that one, wherever it was: in the
ring, in the sender's hands, with the card. Its own is lost. `stale` is a
history variable, set from then on; `BuffersAccounted` and `QueuedIsFreed` speak
of the states before, `OneTransmission` and `CompletionPending` of all. Left out
are a mapped address that is no buffer of the ring, the spare buffer as such an
address, and a header whose page number does not fit (`ne2000.c:533-543`), after
which `nic_rx` reads the same header again, for ever and with the lock.
`dropped` is a history variable, set when `nic_isr` gives up after `MAX_LOAD`
rounds and clears a completion it has not served.

A frame that finds no room in the card's memory is lost and sets "OVW".
`nic_overrun` then stops the card, waits, empties the ring in loopback and starts
the card again. A packet that was being sent when the card stopped goes out or is
given up without a word, and the driver has to tell which from the command
register it read before and the status it reads after; `resend` is that
knowledge. The wait is taken to be as long as the data sheet asks, although
the driver's `idle` counts calls and not time (`ne2k.c:193`).

### Services

Programs 1 to `NBoot` are the name server, the keyboard server and programs that
call `getch` over and over. Each of their steps is a system call of `Port`, of
which `Services` uses the actions as they are, so that ids are reused, messages
routed and sleepers woken as there. `Port` does not know what a message says;
`letters` holds sender and contents, in the same order as `queue`. `pc` says
which call a program makes next. Keys are scan codes with the shift, so that the
two tables of `keyboard.c` are told apart and not spelt out.

The order in which programs start is open: a program may ask for the keyboard
before it has registered, is then told 0, sends its request to port 0, which
fails, and waits for a key that never comes, as in the code (`lib/keyboard.c:28`).
The keyboard receives one request in its life: of two programs one is served.
Releasing one of two shift keys that are held down clears the shift. `Typed` says
the same of a whole sequence of scan codes at once.

`Exit` lets a program end between its calls of the library. Inside one the name
server would answer the port of a thread that has ended, which `port_send`
follows into freed memory; that is what the faulty variant `Exit_Anywhere` shows.
No program of this system ends there, and one that faults there would.

## 3. The runs

All bounds are constants of the `.cfg`; those marked *bound* in the modules cap
what the code does not.

| run | question | instance |
|---|---|---|
| `ResourceTable` | does the linked array behave as the abstract table, for every sequence of calls? | 5 usable ids |
| `PortThreads` | ids, address-space counts, message pages and the sleeper's pointer while threads and ports come and go | 2 boot threads + 1, 4 ids, all messages in pages, restrictions |
| `PortSlaves` | slaving, who is woken, mailbox refinement, receipt of direct messages | 2 threads, up to 3 ports (master id 4), queues of 2 |
| `Sched` | safety and liveness of switching and interrupts, disciplined drivers | 3 slots, idle + 1 boot thread + 1 created, lines 1 and 3 |
| `SchedShared` | what is left of it with a full list and undisciplined drivers | 3 slots, idle + 2 boot threads + 1 created, lines 1 and 3 |
| `Sem` | semaphores, queues, locks | 3 threads, 2 semaphores |
| `SharedMemory` | frames, mappings, segments, stacks and heap blocks until memory or a handle table is exhausted | 37 frames, 2 processes, 3 threads, `brk` of up to 3 pages, 2 blocks, 2 segments of 2 pages, 3 handles a process |
| `Ne2k` | buffers, locks and the transmission of the driver in every interleaving | 2 buffers and the spare one, 2 packets received, 2 pages for them in the card, 2 requests, `MAX_LOAD` 2 |
| `Services` | calls, answers and keys between servers and clients | 2 servers, 2 clients, 12 ids, 3 scan codes read out of a letter's, a shift's press and its release |
| `PortLostWakeup`, `Ne2kRefused`, `SegmentFreed` | a sentence of the manual, or of a comment, the code does not keep | see below |

Why these sizes are enough to be worth running: three of the four ids of
`PortThreads` are in use at boot, so ids are exhausted, reused as the other
kind, and reused after a clean-up; two ports and a third slot for a slave allow
self-slaving, chains, re-slaving and the destruction of a slave; a queue of two
tells order; two interrupt lines of different priority nest; a list of three
slots is full in `SchedShared` and has a hole that is not the last slot in both
runs; three threads are the least in which two compete for a lock that a third
holds. `SharedMemory` has few enough frames that each of its allocations is the
one that finds none left; page 2 of a process is the video memory, so that `brk`
meets a page that is mapped already; a process has one thread or two, and the
second cleaned up frees it; two segments and three handles let one be attached
by both processes, or twice by one that has a single thread, both be attached by
one, and a table be full. With two clients in `Services` one is served and one
is not, one asks while the other is answered, numbers of ports are reused, and
either ends while the other goes on. Two buffers of `Ne2k` let the ring run
empty between a packet and its answer, and `MAX_LOAD` is 2 instead of 12 so that
the interrupt that gives up occurs; a long frame takes both pages of the card,
so that the next one overruns them. `TimerPeriod` is 1 instead of 100: it is the
number of calls between timer scans and only its being finite matters.
`CHECK_DEADLOCK FALSE` is set for ports, services, semaphores, memory and the
driver, where all threads may end or wait; `Sched` never stops and is checked
for deadlock.

**Fairness.** `Port`: a thread made ready inside `port_recv` is run
(`Sched`'s `ReadyRuns` is the reason); nothing is assumed of the programs.
`Sched`: the kernel's loops go on, the clock ticks while user code runs, and a
deliverable interrupt is taken (strongly fair, since every entry to the kernel
disables it for a while). `Sem`: a program that has a lock releases it (strongly
fair, since its thread may wait for another lock in between). `Ne2k`: a ready
thread runs and a waiter of a semaphore gets it (`ReadyRuns` and `LockGranted`),
hence strong fairness of each thread; the card ends every transmission; nothing
is assumed of arrivals and requests. `Services`: the name server, and a program
woken in a call, run on (`ReadyRuns`); nothing is assumed of the clients, which may
stop between calls, nor of keys. `SharedMemory` has no liveness property.

`ReadyRuns` and `IrqHeard` are stated for behaviours in which `PsPreemptTask` is
not called for ever (`Storm`). That is no convenience: it moves
`CurrentTaskNum`, so interrupts, or two threads that pass a semaphore to and
fro, that come back faster than the walk advances keep every slot between from
its turn. `KernelReturns` holds without it, and so does half of
`TimerSleeperWakes`: a thread asleep on the timer is made ready by a later scan
even in a storm, but that it then runs is said of no storm.

**Where code and manual differ.** Each of these runs ends in the violation it
names.
- `PortLostWakeup`: a message sent to a slave is queued at its master, but wakes
  the owner only if it sleeps on the slave (`port.c:183`).
- `Ne2kRefused`: the sender ignores that a packet was refused as too long, keeps
  its buffer and waits for its completion for ever (`ne2k.c:557-564`).
- `SegmentFreed`: a process that ends frees the frames of the segments it has
  attached under the others that map them (`task.c:408`).

Met while modelling, and not runs of their own: the library's `port_option`
passes `arg` and `opt` in the registers from which the kernel takes `opt` and
`arg` (`lib/syscall.c:150`, `syscall.c:334`), so that `port_set_slave` and
`port_set_restrict`, the driver's only use of it (`ne2k.c:615`), do nothing of
what `port_option(2)` says; interrupts 8 to 15 never arrive, because line 2,
through which their controller reports, stays masked (`i386.c:95`), against
`os_handle_irq(2)`; `os_CreateSegment(2)` promises 0 for a failure, and 0 is the
key of the first segment; `os_CloseSegment(2)` detaches nothing (see
`SharedMemory`); a message of 4096 bytes is accepted against the (disabled)
assertion of `port.c:232`; destroying a slave leaves its master's count raised
(`port.c:43`), so that the master can never be destroyed, against
`port_destroy(2)`; the ports of a dead thread stay (`task.c:376`), against
`os_terminate_process(2)`; a failed thread creation would keep its count
(`task.c:74`, kept in `Port`, though `Memory` shows that the branch needs a
table without two free entries, on which the kernel halts first); an interrupt
with more than `MAX_LOAD` rounds clears a completion and stops the sender
(`ne2000.c:243`); a packet taken from the card may never be given back, and
another be freed in its place (`ne2k.c:403`, see `Ne2k`); a second transmit
slot, a busy transmitter and a full slot table cannot occur while the sender
waits for each packet; the library's `os_DestroySem` makes the call that creates
a semaphore (`lib/syscall.c:39`), and the kernel's own does nothing; a second
`os_handle_irq` for a line takes it from the first task without a word
(`syscall.c:157`), which then sleeps for ever; `os_sleep`'s argument is ignored;
`ScCreateThread` returns 0 where `os_thread(2)` promises an id.

## 4. The proofs

`Spec` always implies, for all values of the constants:

| theorem | statement |
|---|---|
| `ResourceProofs!FreeListAlwaysSound` | no live id is issued, no free one lost |
| `ResourceTableProofs!TableImplementsResource` | every step of the linked array is a step of `Resource` or a stutter |
| `PortProofs!MasterAlwaysSound`, `RefcountAlwaysCovers` | the panic of `port_option` is unreachable; a port that is routed to is never freed |
| `PortProofs!SleeperAlwaysOwns`, `WokenAlwaysHasMessage`, `DirectMessageAlwaysWakes` | sleep and wake-up in `port_recv` |
| `PortProofs!ThreadsAlwaysCounted`, `AspaceAlwaysOutlives`, `RidsAlwaysSound` | counts and ids of threads |
| `PortProofs!PagesAlwaysDistinct`, `FreeListStaysSound` | a message page is in one place; an id is free or in use |
| `PortProofs!PortImplementsMailbox` | every step of `Port` is a step of `Mailbox` or a stutter |
| `SchedProofs!SlotsAlwaysCovered`, `OneAlwaysRunning` | the task list and who runs, whatever drivers do |
| `SchedProofs!OnlyGoneEverUnlisted` | whatever drivers do, `PsPreemptTask` looks in vain only for a registered handler that has ended |
| `SchedProofs!NeverFreesItsStack`, `PreemptTargetAlwaysListed` | the walks end and free nothing in use, with disciplined drivers |
| `SchedProofs!EoiAlwaysBalanced`, `UnmaskedHandlerAlwaysAsleep`, `IrqNeverDropped` | interrupts |
| `SemProofs!ChainedAlways`, `SleepersAlwaysQueued`, `AlwaysMutuallyExclusive` | the queues of waiters; a lock has one holder |
| `SemProofs!SemImplementsSemaphore` | every step of `Sem` is a step of `Semaphore` or a stutter |
| `MemoryProofs!FramesAlwaysAccounted` | a frame's bit is set exactly while it is mapped or a segment's; it is mapped once, or, a segment's, as often as it is attached; segments up to a table's length, before `SegmentFreed` |
| `MemoryProofs!SegmentsAlwaysSound`, `MappingsAlwaysStay` | a process sees what it attached; a kernel call moves no living process's pages |
| `MemoryProofs!StacksAlwaysSound`, `BlocksAlwaysSound` | stacks apart and mapped; heap blocks disjoint and long enough |
| `Ne2kProofs!OneTransmissionAtATime`, `CompletionAlwaysPending` | the driver's hand-over of packets to the card |
| `Ne2kProofs!BuffersAlwaysAccounted` | no packet buffer is lost or in two places, until `receive` takes a wrong one |
| `ServicesProofs!CallsAlwaysSound`, `ServersAlwaysLive`, `KeysAlwaysInOrder` | each call of the name server is in one place; servers never end; keys reach their reader in order |
| `TypeCorrect` in `PortProofs` and `SchedProofs`, `MemoryProofs!MemoryTyped` | types, in the last of the pages, the heap and the segments |

Those of `MemoryProofs` are about `ShmSpec` of `SharedMemory`, the memory manager
with segments; those of `ServicesProofs` about `ServicesSpec`, the programs
running on `Port`.

They rest on the named assumptions on the constants (`RMaxAssumption`,
`TableAssumption`, `PortAssumption`, `SchedAssumption`, `QueueAssumption`,
`SemAssumption`, `MemoryAssumption`, `BootAssumption`, `SharedMemoryAssumption`,
`Ne2kAssumption`, `ServicesAssumption`); in `SchedProofs`, `TypeCorrect`,
`NeverFreesItsStack`, `PreemptTargetAlwaysListed` and what is said of interrupts
also on `Disciplined`. `SharedMemoryAssumption` has the bound on `SegLens`.
`BootAssumption` says that memory and tables have room for the programs `_start`
loads, without which the machine halts before there is a state to speak of.
`ServicesAssumption` gives the table room for the ports every program has at
once and the queues room for a call of each, since a full table or a full queue
of the name server is an error the clients do not test.

*ResourceTable.* `Chain(c)` says that the links from `rfree` lead through the ids
of `c`, the last one to 0, and that none repeats; some `c` is a chain in every
state. As `FreeChain` is what following the links gives, it is that `c`, and
`rsrc_new` takes its head and `rsrc_del` puts the id before it.

*Port.* `RefcountCoversSlaves` is not inductive: a destroyed slave's id may come
back as another port, and a slave may be its own master. The invariant says of
every id that is not a port that its fields are empty, and of the sets of
slaves how `Reslave` changes them; the count is then compared before and after
through finite-set lemmas. `SleeperOwnsPort` needs that only the owner destroys
and that it is asleep meanwhile. The refinement uses the same invariant:
without it `port_destroy` could close a mailbox somebody is blocked on.

Pages go between `msg_pool` and the queues by `port_recv` and `port_send`
only, but that they are never doubled needs more than that they are distinct:
a page number above every one in circulation is fresh, and a message has a page
exactly if its size calls for one, since `port_recv` recycles by the size
(`PageInv`).

*Sched.* The invariant has four layers. `Listing`: who has a slot, and no two
slots alike. `Current`: a walk of `PsSwitchTask` is past the slot of the thread
it left and slot 0, the idle thread's, always stops it, which is why the walk
never meets its own dead thread. `Lines`: a line is open only while its handler
sleeps, from registration on. `Frames`: each interrupted thread is ready until
it resumes, and is counted once for each line in service. With undisciplined
drivers the idle thread may be ended by a fault in `irq_dispatch`, slot 0 may be
empty and a walk may come round to the thread it started from; `MaxUsedProc` can
then even reach -1. `AnyInv` is what survives of `Listing` and `Current`, and
enough for three of the theorems.

*Sem.* The first part of `SemProofs` shows of the pointer operations what the
rest needs: `queue_addTail` appends, `queue_removeHead` takes the first node,
and neither disturbs another queue (`order` is what the pointers are compared
with). The invariant adds that ids not yet issued have no state (`Fresh`), that
a thread is queued once and only where it sleeps, that a count below 0 is the
length of a queue, and that a lock's count is 1 exactly while nobody holds it
(`SemInv`).

*Ne2k.* Of one packet in the card there are three states: nothing is sent
(`Idle`), a packet is with the card (`InFlight`), its completion is being served
(`Serving`). Each fixes the slot table, the permits of `sem_xmit_done` and where
the sender is. What makes them inductive is `Overrun`: a card that is stopped
finishes or gives up its packet before the driver reads its status, and `resend`
is set only while it is. `Permits` gives the exclusion: `main` in the interrupt
keeps the sender out of `nic_send_packet`. For the buffers, `Accounted` says
that some sequence without repetitions is what the links of the ring lead
through, and that every other buffer is named once, by a thread's variable, the
queue of the sender or a transmit slot; the steps between two accesses to the
ring are where that is delicate, and `Hands` fixes which variables hold a buffer
at each of them (`PbufInv`). It is kept until `receive` takes a wrong buffer
(`stale`), which is for good; the part about the card (`Permits` and the three
states) names no buffer and survives that.

*Memory.* Two invariants. `MemInv` needs no frames: `Apart` (task structures,
address spaces and heap pages are different kernel pages), `Stacked` (no two
stacks of a process touch), `LifeInv` (the count of an address space is that of
its threads, and only a counted one maps anything) and `HeapInv` (blocks in use,
the free chain and the rest of the fresh page have nothing in common).
`FrameInv` is about frames: each table entry's frame is used and, unless it is a
segment's, no other entry's (`Framed`); segments have no frame in common
(`SegInv`); a process maps a segment, whole, as often as it has handles on it,
and has none of its frames elsewhere (`MapInv`). It says so until a process that
has a segment ends, because then it is false (`SegmentFreed`), and
`SegmentsSound` speaks of segments of one page or more. All allocations are
instances of one relation, `Grow`: new entries, each with a frame of its own that
was free, and no entry changed. It is transitive, so a call that allocates
several times, as the creation of a process does, preserves what one allocation
does.

*Services.* Every step of the programs is a step of `Port` (`PortStep`), so the
invariant of `PortProofs` holds here as well and the ports a program created stay
its own. What is added: letters are the messages queued (`Sync`); which ports a
program has at each place in its code (`Positions`); a call is a question in
the name server's queue, the request it serves or an answer in the caller's
queue, and no two of these (`Calls`); what the keyboard server has sent and the
reader has not read follows what was read (`Heard`). `Typed` is a sequence
defined at once from all the scan codes; that one more code appends one
character or none is shown by the rank of a position among those typed.

*Recursion.* Neither induction theorems nor recursive operators can be used, but
what the proofs need of recursive functions (`Link` of the table, `BrkLoop`,
`Boot`, `SumFunction`, the walk through the ring) follows without them: of the
numbers at which a claim fails there is a least one, and at it the claim
follows from the number before.

`WokenHasMessage`, `ThreadsCounted`, `UnmaskedHandlerAsleep` and `Chained` are
proved for every instance and are not repeated in the runs.

Only model-checked: liveness, which is out of the prover's reach
(`DirectMessageReceived`, `KernelReturns`, `TimerSleeperWakes`, `ReadyRuns`,
`IrqHeard`, `LockGranted`, `QueuedIsFreed`, `CallReturns`).

## 5. What is not modelled, and the plan

Not modelled at all: boot loading, the debugger and console output, string and
formatting routines, the vendored `malloc`, demonstration programs, the NE2000
registers. Abstracted inside the models: contents of messages, addresses
(`mh` and `data` pointers are taken to be below 4M), kernel heap exhaustion
(`kmalloc` is taken to succeed), the TSS and register contents.

Of the driver: registers and DMA, the table of UDP ports, which `control` writes
while `main` reads it, and the start-up. Of memory: what runs on after an
allocation has failed. Of the kernel's second heap (`alloc.c`): everything, since
nothing reaches it but its initialisation (`doc/TODO` lists "Get byte allocator
working" as open). Of the programs in `srv`: `io`, `null`, `console` and the
tests, which `guildos.ini` does not boot and no other program relies on.

Done: resource table, ports, scheduler and interrupts, semaphores and queues,
memory, heap and shared segments, the network driver, the name and keyboard
services, and a theorem for every safety property, action property and
refinement of the passing runs. What is left:

1. Types of `Sem`, `Ne2k` and `Services` as theorems of their own; they are part
   of the invariants already.
2. Which exact sequence of calls `SegmentFreed` needs: that frames stay accounted
   for after the end of a process whose segments nobody else has attached.
