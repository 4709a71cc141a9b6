---------------------------- MODULE SharedMemory ----------------------------
(***************************************************************************)
(* Shared memory segments (src/kernel/shm.c) and the handles processes     *)
(* hold on kernel objects (src/kernel/object.c), over the memory manager.  *)
(*                                                                         *)
(* A segment is a run of frames that the kernel has no page for; every     *)
(* process that attaches it maps all of them at a place of its own.        *)
(*                                                                         *)
(* ObCreateObject never returns a handle's number, so a handle table is    *)
(* reduced to how many entries there are for threads and for each segment. *)
(***************************************************************************)
EXTENDS Memory, Functions

CONSTANTS
  ShmEntries,  \* entries of ShmTable (341)
  SegLens,     \* lengths in pages programs pass to os_CreateSegment; bound: none
               \* is greater than a table, where `1024 - npages' would wrap and
               \* the kernel write past the table (mem.c:82, 178, 215)
  MaxHandles   \* MAX_HANDLES, the entries of a handle table (64)

ASSUME SharedMemoryAssumption ==
  /\ ShmEntries \in Nat \ {0}
  /\ SegLens \subseteq {n \in Nat : n =< NFrames /\ n =< NHigh /\ n =< NLow}
  /\ MaxHandles \in Nat \ {0}

Key == 0..(ShmEntries - 1)

VARIABLES
  mem, LenInPages, RefCount,  \* the fields of ShmTable[key]; mem is the first
                              \* frame, NONE for an entry that is free
  handles     \* handles[p][key]: entries for the segment in the table of p

segVars == <<mem, LenInPages, RefCount, handles>>
shmVars == <<vars, segVars>>

\* kinit_SharedMemory
ShmInit ==
  /\ Init
  /\ mem = [k \in Key |-> NONE]
  /\ LenInPages = [k \in Key |-> 0]
  /\ RefCount = [k \in Key |-> 0]
  /\ handles = [p \in Proc |-> [k \in Key |-> 0]]

Segment(k) == IF mem[k] = NONE THEN {} ELSE mem[k]..(mem[k] + LenInPages[k] - 1)

-----------------------------------------------------------------------------
(* object.c *)

\* Every thread a process ever had keeps its entry, and so does every
\* attachment: nothing calls ObCloseObject.
TableFull(p) ==
  Cardinality({t \in Task : parent[t] = p}) + SumFunction(handles[p]) >= MaxHandles

\* ObCreateObject(OBJ_TYPE_SHARED_MEMORY): a page for the object, a page for its
\* structure, neither of which is ever freed.
RoomHandle(m) == RoomHigh(m, 1) /\ RoomHigh(MmAllocPages(m, 1).m, 1)
NewHandle(m) == MmAllocPages(MmAllocPages(m, 1).m, 1).m

\* With a full table ObCreateObject halts the kernel.
CreateThread(p) ==
  /\ \/ ~TableFull(p) /\ PsCreateNewTask(p)
     \/ /\ Running(p) /\ created < NTasks
        /\ Halt(~TableFull(p))
  /\ UNCHANGED segVars

-----------------------------------------------------------------------------
(* shm.c *)

Unused == {k \in Key : mem[k] = NONE}

\* The key, which is 0 for the first segment, is returned.
SmCreateSeg(p, n) ==
  /\ Running(p)
  /\ \/ Halt(Unused # {} /\ RoomHigh(Memory, n)) /\ UNCHANGED segVars
     \/ /\ Unused # {} /\ RoomHigh(Memory, n)
        /\ LET k == CHOOSE i \in Unused : \A j \in Unused : i =< j
               a == MmAllocPages(Memory, n)
           IN /\ mem' = [mem EXCEPT ![k] = a.m.high[a.virt]]
              /\ LenInPages' = [LenInPages EXCEPT ![k] = n]
              /\ RefCount' = [RefCount EXCEPT ![k] = 0]
              /\ Update([a.m EXCEPT !.high = kunmap_Page(@, a.virt, n)])
        /\ UNCHANGED <<handles, taskVars, heapVars, halted>>

\* Faulty variant of kmap_LowPage: the frames before the last one are skipped.
kmap_LowPage_Last(m, p, f, n) ==
  [m EXCEPT !.ptab[p] = Map(@, FirstFit(Mapped(@), 1, NLow), f + n - 1, 1)]

\* kmap_LowPage, where there is room.
kmap_LowPage(m, p, f, n) ==
  [m EXCEPT !.ptab[p] = Map(@, FirstFit(Mapped(@), n, NLow), f, n)]

\* ObCreateObject starts its search of the table at an index it never sets: it
\* may miss the entries that are free and halt the kernel.
SmAttachSeg(p, k) ==
  LET room == /\ RoomHandle(Memory)
              /\ ~TableFull(p)
              /\ Fits(Mapped(ptab[p]), LenInPages[k], NLow) # {}
  IN /\ Running(p)
     /\ mem[k] # NONE
     /\ \/ Halt(FALSE) /\ UNCHANGED segVars
        \/ /\ room
           /\ Update(kmap_LowPage(NewHandle(Memory), p, mem[k], LenInPages[k]))
           /\ handles' = [handles EXCEPT ![p][k] = @ + 1]
           /\ RefCount' = [RefCount EXCEPT ![k] = @ + 1]
           /\ UNCHANGED <<mem, LenInPages, taskVars, heapVars, halted>>

\* obj->mem is where SmAttachSeg stored the address, on the kernel stack of the
\* thread that called it, and kunmap_Page looks it up in the `high' of the
\* process, for which MmCreatePageTable has allocated no page: it clears words
\* of the page that follows, which holds the process's first thread object and
\* is not initialised.  It returns an error when it meets a word that is 0;
\* otherwise the reference is given up.  Either way the mapping and the handle
\* stay, as they do when there is no reference left.
SmCloseSeg(p, k) ==
  /\ Running(p)
  /\ handles[p][k] > 0
  /\ RefCount[k] > 0
  /\ RefCount' = [RefCount EXCEPT ![k] = @ - 1]
  /\ UNCHANGED <<mem, LenInPages, handles, vars>>

-----------------------------------------------------------------------------
ShmNext ==
  \/ \E p \in Proc : CreateThread(p)
  \/ \E t \in Task : PsCleanUpTask(t) /\ UNCHANGED segVars
  \/ \E p \in Proc, addr \in Breaks : brk(p, addr) /\ UNCHANGED segVars
  \/ \E n \in Sizes : kmalloc(n) /\ UNCHANGED segVars
  \/ \E b \in inuse : kfree(b) /\ UNCHANGED segVars
  \/ \E p \in Proc, n \in SegLens : SmCreateSeg(p, n)
  \/ \E p \in Proc, k \in Key : SmAttachSeg(p, k)
  \/ \E p \in Proc, k \in Key : SmCloseSeg(p, k)

ShmSpec == ShmInit /\ [][ShmNext]_shmVars

-----------------------------------------------------------------------------
(* Correctness *)

\* The type of every variable of the segments and handles.
ShmTypeOK ==
  /\ mem \in [Key -> Frame \cup {NONE}]
  /\ LenInPages \in [Key -> Nat]
  /\ RefCount \in [Key -> Nat]
  /\ handles \in [Proc -> [Key -> Nat]]

Living == {p \in Proc : aspaceAt[p] # NONE}

\* No process has ended that had a segment attached.  When one does, the
\* segment's frames are freed whoever else maps them (SegmentStays), and what
\* then becomes of them is anybody's guess.
Intact == \A p \in Proc \ Living, k \in Key : handles[p][k] = 0

Attachments(k) == SumFunction([p \in Proc |-> handles[p][k]])

\* The bit of a frame is set exactly while a page table maps the frame or a
\* segment has it.  A segment's is mapped once for every attachment and nowhere
\* else, and no other segment's; any other is mapped at one place: no two
\* processes, and no process and the kernel, share one, and what the end of a
\* process unmaps can be handed out again (mem.c:82-98, mem.c:152-160,
\* task.c:403-424, shm.c:39-41, shm.c:83).  It does not say that the kernel still
\* has a use for what it maps: pages of objects, processes, handles and threads
\* stay mapped, and their frames in use, for ever (task.c:397-398, task.c:424).
FramesAccounted ==
  Intact =>
    /\ \A k, l \in Key : Segment(k) \subseteq used /\ (Segment(k) \cap Segment(l) # {} => k = l)
    /\ \A f \in Frame :
         LET places == Cardinality(Places(f)) IN
         \/ \E k \in Key : f \in Segment(k) /\ places = Attachments(k)
         \/ /\ f \notin UNION {Segment(k) : k \in Key}
            /\ places = IF f \in used \ Reserved THEN 1 ELSE 0

\* A process sees a segment, of one page or more, whole and in order, once for
\* every time it attached it, and no page of a segment it did not attach
\* (shm.c:83, mem.c:172-199).
SegmentsSound ==
  Intact =>
    \A p \in Living, k \in Key :
      mem[k] # NONE /\ LenInPages[k] > 0 =>
        Cardinality({i \in 0..(NLow - LenInPages[k]) :
                       \A j \in 0..(LenInPages[k] - 1) : ptab[p][i + j] = mem[k] + j})
          = handles[p][k]

\* man2/os_CloseSegment.2:10, "If no other task is mapping this segment in, the
\* kernel will destroy it": a segment's frames are not freed while a process
\* maps them.
SegmentStays ==
  [][\A k \in Key : \A f \in Segment(k) \cap (used \ used') :
       \A p \in Proc, i \in LPage : ptab'[p][i] # f]_shmVars
=============================================================================
