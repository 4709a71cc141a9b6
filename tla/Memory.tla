------------------------------- MODULE Memory -------------------------------
(***************************************************************************)
(* The memory manager (src/kernel/mem.c), what is built on it while the    *)
(* system runs (threads' structures and stacks in src/kernel/task.c, brk), *)
(* and the kernel heap by size class (src/kernel/memory.c).                *)
(*                                                                         *)
(* Kernel calls run alone, so each is one action.  Page numbers stand for  *)
(* addresses: a frame is a page of physical memory, `high' is the kernel's *)
(* page table (0x80000000 up) and `ptab' the page table of a process.      *)
(*                                                                         *)
(* When memory runs out MmAllocPages returns 0, which no caller tests (or  *)
(* the kernel halts, when a table is full): the model ends there.          *)
(***************************************************************************)
EXTENDS Integers, Sequences, FiniteSets

CONSTANTS
  NFrames,    \* frames PMAT covers (16384)
  NLow,       \* entries of a process's page table (1024)
  NHigh,      \* entries of the kernel's page table (1024)
  MaxBrk,     \* last page brk maps (512)
  Breaks,     \* pages of the addresses programs pass to brk
  Reserved,   \* frames kinit_page sets aside for good
  Video,      \* pages of the video memory, mapped in every process (0xB0-0xC1)
  NBoot,      \* processes started by _start, each with an image of one page
  NTasks,     \* bound: threads created in a behaviour, below MAX_HANDLES
  KM,         \* the size class in view: 1 is KM16, 7 is KM1024
  Sizes,      \* sizes that are asked for
  PerPage,    \* 4096 / km.size of the class (256 ... 4)
  MaxBlocks   \* bound: blocks of it in use

ASSUME MemoryAssumption ==
  /\ NFrames \in Nat /\ NLow \in Nat /\ NHigh \in Nat /\ MaxBrk \in Nat
  /\ NBoot \in Nat \ {0} /\ NTasks \in Nat /\ NBoot =< NTasks
  /\ KM \in 1..7 /\ Sizes \subseteq 1..1024
  /\ PerPage \in Nat \ {0, 1} /\ MaxBlocks \in Nat
  /\ MaxBrk < NLow /\ Breaks \subseteq Nat
  /\ Reserved \subseteq 0..(NFrames - 1)
  /\ Video \subseteq Reserved \cap (1..(NLow - 1))

Frame == 0..(NFrames - 1)
LPage == 0..(NLow - 1)
HPage == 0..(NHigh - 1)
NONE == -1
Proc == 1..NBoot
Task == 1..NTasks
StackSize == 2   \* STACK_SIZE

VARIABLES
  used,       \* PMAT: frames whose bit is set
  high,       \* high[v]: the frame mapped there, NONE if the entry is 0
  ptab,       \* ptab[p][i]: the same for a process
  aspaceAt,   \* aspaceAt[p]: page of the aspace structure, NONE once freed
  refcount,   \* process.addr.refcount
  created,    \* threads created so far
  parent, taskAt, stackAt,   \* of a thread: its process, pages of its task
              \* structure and its stack, NONE once cleaned up
  fresh_chain, fresh_count, free_chain,   \* km_map of the size class
  inuse,      \* blocks kmalloc has handed out, each with the size asked for
  halted      \* memory or a page table has run out

memVars == <<used, high, ptab>>
taskVars == <<aspaceAt, refcount, created, parent, taskAt, stackAt>>
heapVars == <<fresh_chain, fresh_count, free_chain, inuse>>
vars == <<memVars, taskVars, heapVars, halted>>

-----------------------------------------------------------------------------
(* mem.c, on a record m of used, high and ptab *)

Memory == [used |-> used, high |-> high, ptab |-> ptab]

\* The loops of MmAllocPagesRaw, kmap_LowPage and kmap_KernelPage: the first n
\* free entries in a row, never the last one of the table.  Their `size - n' is
\* unsigned, and wraps when n is greater: Fits is for an n that is not.
Fits(busy, n, size) == {i \in 0..(size - n - 1) : \A j \in i..(i + n - 1) : j \notin busy}
FirstFit(busy, n, size) == CHOOSE i \in Fits(busy, n, size) : \A j \in Fits(busy, n, size) : i =< j

Mapped(table) == {i \in DOMAIN table : table[i] # NONE}

\* Entries v, v+1, ... of a table map the n frames from f.
Map(table, v, f, n) ==
  [i \in DOMAIN table |-> IF i \in v..(v + n - 1) THEN f + (i - v) ELSE table[i]]

kunmap_Page(table, v, n) ==
  [i \in DOMAIN table |-> IF i \in v..(v + n - 1) THEN NONE ELSE table[i]]

kset_PageBits(m, f, n) == m.used \cup f..(f + n - 1)

\* MmAllocPages(KernelPageTable, n, ...), to be applied where it succeeds.
RoomHigh(m, n) == Fits(m.used, n, NFrames) # {} /\ Fits(Mapped(m.high), n, NHigh) # {}
MmAllocPages(m, n) ==
  LET f == FirstFit(m.used, n, NFrames)
      v == FirstFit(Mapped(m.high), n, NHigh)
  IN [virt |-> v,
      m |-> [m EXCEPT !.used = kset_PageBits(m, f, n), !.high = Map(@, v, f, n)]]

\* MmAllocPagesLo, then kunmap_Page of what it mapped: frames without a place.
RoomLow(m, p, n) == Fits(m.used, n, NFrames) # {} /\ Fits(Mapped(m.ptab[p]), n, NLow) # {}
AllocUnmapped(m, p, n) ==
  LET f == FirstFit(m.used, n, NFrames)
      v == FirstFit(Mapped(m.ptab[p]), n, NLow)
  IN [phys |-> f,
      m |-> [m EXCEPT !.used = kset_PageBits(m, f, n),
                      !.ptab[p] = kunmap_Page(Map(@, v, f, n), v, n)]]

\* MmFreePages(KernelPageTable, v, n): the frames are those from the first on, as
\* far as their bits are set: the first one that is not ends the loop.
MmFreePages(m, v, n) ==
  LET f == m.high[v] IN
  [m EXCEPT !.used = @ \ {g \in f..(f + n - 1) : f..g \subseteq m.used},
            !.high = kunmap_Page(@, v, n)]

Update(m) == used' = m.used /\ high' = m.high /\ ptab' = m.ptab

-----------------------------------------------------------------------------
(* task.c *)

\* Faulty variant of StackRoom: one free page is enough.
StackRoom_One(table) == {i \in 1..(NLow - 2) : table[i] = NONE}

\* The loop of PsCreateNewTask: the highest place for a stack, entry 0 apart.
StackRoom(table) == {i \in 1..(NLow - 2) : table[i] = NONE /\ table[i + 1] = NONE}

StackPlace(table) == CHOOSE i \in StackRoom(table) : \A j \in StackRoom(table) : j =< i

\* A task object and a task structure; then the stack, if there is room.
RoomTask(m, p) ==
  /\ RoomHigh(m, 1)
  /\ LET obj == MmAllocPages(m, 1) IN
     /\ RoomHigh(obj.m, 3)
     /\ RoomLow(MmAllocPages(obj.m, 3).m, p, StackSize)

\* The error return of task.c:74 cannot be taken: MmAllocPagesLo has just found
\* two free entries, and not entry 0, which maps the program.
NewTask(m, p) ==
  LET t == MmAllocPages(MmAllocPages(m, 1).m, 3)
      stack == AllocUnmapped(t.m, p, StackSize)
      i == StackPlace(stack.m.ptab[p])
  IN [task |-> t.virt, stack |-> i,
      m |-> [stack.m EXCEPT !.ptab[p] = Map(@, i, stack.phys, StackSize)]]

\* PsCreateProcess, then the process's first thread: a process object and
\* structure, an aspace object and structure of two pages.
NewProcess(m, p) ==
  LET a == MmAllocPages(MmAllocPages(MmAllocPages(MmAllocPages(m, 1).m, 1).m, 1).m, 2)
  IN [aspace |-> a.virt, task |-> NewTask(a.m, p)]

\* kinit_page and memory_init, then _start: Boot[p] is the state after the
\* process number p has been made.
Image(p) == CHOOSE f \in Frame \ Reserved :
              Cardinality({g \in Frame \ Reserved : g < f}) = p - 1
FreshTable(p) == [i \in LPage |-> IF i = 0 THEN Image(p) ELSE IF i \in Video THEN i ELSE NONE]

Loaded == [used |-> Reserved \cup {Image(q) : q \in Proc},
           high |-> [v \in HPage |-> NONE],
           ptab |-> [q \in Proc |-> FreshTable(q)]]

Boot[p \in 0..NBoot] ==
  IF p = 0
  THEN [aspace |-> 0,
        task |-> MmAllocPages(Loaded, 1)]
  ELSE NewProcess(Boot[p - 1].task.m, p)

\* _start has memory enough for the processes it makes.
RoomProcess(m, p) ==
  /\ RoomHigh(m, 1)
  /\ LET m1 == MmAllocPages(m, 1).m IN
     /\ RoomHigh(m1, 1)
     /\ LET m2 == MmAllocPages(m1, 1).m IN
        /\ RoomHigh(m2, 1)
        /\ LET m3 == MmAllocPages(m2, 1).m IN
           RoomHigh(m3, 2) /\ RoomTask(MmAllocPages(m3, 2).m, p)

ASSUME BootAssumption ==
  /\ \A p \in Proc : \E f \in Frame \ Reserved :
       Cardinality({g \in Frame \ Reserved : g < f}) = p - 1
  /\ RoomHigh(Loaded, 1)
  /\ \A p \in Proc : RoomProcess(Boot[p - 1].task.m, p)

Init ==
  /\ used = Boot[NBoot].task.m.used
  /\ high = Boot[NBoot].task.m.high
  /\ ptab = Boot[NBoot].task.m.ptab
  /\ aspaceAt = [p \in Proc |-> Boot[p].aspace]
  /\ refcount = [p \in Proc |-> 1]
  /\ created = NBoot
  /\ parent = [t \in Task |-> IF t =< NBoot THEN t ELSE 0]
  /\ taskAt = [t \in Task |-> IF t =< NBoot THEN Boot[t].task.task ELSE NONE]
  /\ stackAt = [t \in Task |-> IF t =< NBoot THEN Boot[t].task.stack ELSE NONE]
  /\ fresh_chain = <<Boot[0].task.virt, 1>>
  /\ fresh_count = PerPage
  /\ free_chain = <<>>
  /\ inuse = {}
  /\ halted = FALSE

Alive(t) == taskAt[t] # NONE
Running(p) == ~halted /\ \E t \in Task : Alive(t) /\ parent[t] = p

Halt(room) ==
  /\ ~room
  /\ halted' = TRUE
  /\ UNCHANGED <<memVars, taskVars, heapVars>>

PsCreateNewTask(p) ==
  /\ Running(p) /\ created < NTasks
  /\ \/ Halt(RoomTask(Memory, p))
     \/ /\ RoomTask(Memory, p)
        /\ LET n == NewTask(Memory, p) IN
           /\ Update(n.m)
           /\ taskAt' = [taskAt EXCEPT ![created + 1] = n.task]
           /\ stackAt' = [stackAt EXCEPT ![created + 1] = n.stack]
        /\ parent' = [parent EXCEPT ![created + 1] = p]
        /\ created' = created + 1
        /\ refcount' = [refcount EXCEPT ![p] = @ + 1]
        /\ UNCHANGED <<aspaceAt, heapVars, halted>>

\* Faulty variant of FreeAspace: the video memory is not taken out first.
FreeAspace_Video(m, p) ==
  [m EXCEPT !.used = @ \ {m.ptab[p][i] : i \in Mapped(m.ptab[p])},
            !.ptab[p] = [i \in LPage |-> NONE]]

FreeAspace(m, p) ==
  [m EXCEPT !.used = @ \ {m.ptab[p][i] : i \in Mapped(m.ptab[p]) \ Video},
            !.ptab[p] = [i \in LPage |-> NONE]]

\* With the last reference the process's pages, its aspace structure and one
\* page of the three of the task structure are freed.
PsCleanUpTask(t) ==
  LET p == parent[t] IN
  /\ ~halted /\ Alive(t)
  /\ refcount' = [refcount EXCEPT ![p] = @ - 1]
  /\ taskAt' = [taskAt EXCEPT ![t] = NONE]
  /\ stackAt' = [stackAt EXCEPT ![t] = NONE]
  /\ \/ refcount[p] > 1 /\ UNCHANGED <<memVars, aspaceAt>>
     \/ /\ refcount[p] = 1
        /\ aspaceAt' = [aspaceAt EXCEPT ![p] = NONE]
        /\ Update(MmFreePages(MmFreePages(FreeAspace(Memory, p), aspaceAt[p], 2), taskAt[t], 1))
  /\ UNCHANGED <<created, parent, heapVars, halted>>

-----------------------------------------------------------------------------
(* brk *)

\* Faulty variant of BrkStep: a page that is mapped gets a new frame, too.
BrkStep_Always(m, p, i) ==
  LET n == AllocUnmapped(m, p, 1) IN [n.m EXCEPT !.ptab[p] = Map(@, i, n.phys, 1)]

BrkStep(m, p, i) ==
  IF m.ptab[p][i] # NONE THEN m
  ELSE LET n == AllocUnmapped(m, p, 1) IN [n.m EXCEPT !.ptab[p] = Map(@, i, n.phys, 1)]

\* After the pages 0..i; NONE once memory has run out.
BrkLoop(p) ==
  LET loop[i \in -1..MaxBrk] ==
        IF i = -1 THEN [room |-> TRUE, m |-> Memory]
        ELSE LET before == loop[i - 1] IN
             IF before.room /\ (before.m.ptab[p][i] # NONE \/ RoomLow(before.m, p, 1))
             THEN [room |-> TRUE, m |-> BrkStep(before.m, p, i)]
             ELSE [room |-> FALSE, m |-> before.m]
  IN loop

\* addr is the page of the address the program passes.
brk(p, addr) ==
  /\ Running(p)
  /\ addr =< MaxBrk
  /\ LET r == BrkLoop(p)[addr] IN
     \/ Halt(r.room)
     \/ r.room /\ Update(r.m) /\ UNCHANGED <<taskVars, heapVars, halted>>

-----------------------------------------------------------------------------
(* memory.c: the kernel heap *)

\* The sizes of km_map, and size_map by the length of its runs.
Class == <<16, 32, 64, 128, 256, 512, 1024>>
Runs == <<17, 16, 32, 64, 128, 256, 512>>
RunEnd[k \in 0..7] == IF k = 0 THEN 0 ELSE RunEnd[k - 1] + Runs[k]

\* Faulty variant of size_map: indexed by size - 1, as a comment wonders.
size_map_Less(n) == CHOOSE k \in 1..7 : RunEnd[k - 1] =< n - 1 /\ n - 1 < RunEnd[k]

size_map(n) == CHOOSE k \in 1..7 : RunEnd[k - 1] =< n /\ n < RunEnd[k]

\* A block is the page and the position in it.  The fresh page advances; the
\* next one is fetched with the last block of this one.
Shave(m) ==
  IF fresh_count > 1
  THEN [fresh |-> <<fresh_chain[1], fresh_chain[2] + 1>>, count |-> fresh_count - 1, m |-> m]
  ELSE LET page == MmAllocPages(m, 1)
       IN [fresh |-> <<page.virt, 1>>, count |-> PerPage, m |-> page.m]

\* kmallocB(n), where its size class is the one in view.
kmalloc(n) ==
  /\ ~halted /\ Cardinality(inuse) < MaxBlocks
  /\ size_map(n) = KM
  /\ \/ /\ free_chain # <<>>
        /\ inuse' = inuse \cup {<<Head(free_chain), n>>}
        /\ free_chain' = Tail(free_chain)
        /\ UNCHANGED <<memVars, fresh_chain, fresh_count, taskVars, halted>>
     \/ free_chain = <<>> /\ Halt(fresh_count > 1 \/ RoomHigh(Memory, 1))
     \/ /\ free_chain = <<>>
        /\ fresh_count > 1 \/ RoomHigh(Memory, 1)
        /\ inuse' = inuse \cup {<<fresh_chain, n>>}
        /\ LET s == Shave(Memory) IN
           /\ fresh_chain' = s.fresh
           /\ fresh_count' = s.count
           /\ Update(s.m)
        /\ UNCHANGED <<free_chain, taskVars, halted>>

\* kfreeB of a block and the size it was asked for with.
kfree(b) ==
  /\ ~halted /\ b \in inuse
  /\ size_map(b[2]) = KM
  /\ inuse' = inuse \ {b}
  /\ free_chain' = <<b[1]>> \o free_chain
  /\ UNCHANGED <<memVars, fresh_chain, fresh_count, taskVars, halted>>

-----------------------------------------------------------------------------
Next ==
  \/ \E p \in Proc : PsCreateNewTask(p)
  \/ \E t \in Task : PsCleanUpTask(t)
  \/ \E p \in Proc, addr \in Breaks : brk(p, addr)
  \/ \E n \in Sizes : kmalloc(n)
  \/ \E b \in inuse : kfree(b)

Spec == Init /\ [][Next]_vars

-----------------------------------------------------------------------------
(* Correctness *)

\* The type of every variable.
TypeOK ==
  /\ used \subseteq Frame
  /\ high \in [HPage -> Frame \cup {NONE}]
  /\ ptab \in [Proc -> [LPage -> Frame \cup {NONE}]]
  /\ aspaceAt \in [Proc -> HPage \cup {NONE}]
  /\ refcount \in [Proc -> Nat]
  /\ created \in NBoot..NTasks
  /\ parent \in [Task -> 0..NBoot]
  /\ taskAt \in [Task -> HPage \cup {NONE}]
  /\ stackAt \in [Task -> LPage \cup {NONE}]
  /\ fresh_chain \in HPage \X Nat /\ fresh_count \in 1..PerPage
  /\ free_chain \in Seq(HPage \X Nat) /\ inuse \subseteq (HPage \X Nat) \X Sizes
  /\ halted \in BOOLEAN

\* Where a frame is mapped, the video memory apart: in the kernel's table, 0 here,
\* and in those of the processes.
Places(f) ==
  {<<0, v>> : v \in {w \in HPage : high[w] = f}}
  \cup UNION {{<<p, i>> : i \in {j \in LPage \ Video : ptab[p][j] = f}} : p \in Proc}

\* The two pages of a live thread's stack are mapped and no other thread's.
StacksSound ==
  \A t \in Task : Alive(t) =>
    /\ {stackAt[t], stackAt[t] + 1} \subseteq Mapped(ptab[parent[t]])
    /\ \A u \in Task : Alive(u) /\ u # t /\ parent[u] = parent[t] =>
         stackAt[u] \notin (stackAt[t] - 1)..(stackAt[t] + 1)

\* brk and PsCreateNewTask map their pages at the first free entries for a
\* moment (mem.c:33-36, task.c:58-59): what a living process has mapped stays.
MappingsStay ==
  [][\A p \in Proc, i \in LPage :
       ptab[p][i] # NONE /\ refcount'[p] > 0 => ptab'[p][i] = ptab[p][i]]_vars

\* A block lies in its page, is as long as asked for and is handed out once; it
\* is not in the free chain, which holds no block twice, nor in the rest of the
\* fresh page (memory.c:13-170, 216-260).
BlocksSound ==
  LET free == {free_chain[i] : i \in 1..Len(free_chain)}
      fresh == {<<fresh_chain[1], k>> : k \in fresh_chain[2]..PerPage}
      given == {b[1] : b \in inuse}
  IN /\ given \cup free \subseteq HPage \X (1..PerPage)
     /\ \A b \in inuse : b[2] =< Class[KM]
     /\ Cardinality(given) = Cardinality(inuse) /\ Cardinality(free) = Len(free_chain)
     /\ given \cap free = {} /\ (given \cup free) \cap fresh = {}
     /\ Cardinality(fresh) = fresh_count
=============================================================================
